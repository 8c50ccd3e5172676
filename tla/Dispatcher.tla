----------------------------- MODULE Dispatcher -----------------------------
(***************************************************************************)
(* The application with the monitors of a dispatcher: register_monitor and *)
(* unregister_monitor answer at once and leave the work to detached        *)
(* threads, which start or stop an art process per monitor (broadcast      *)
(* mode) or configure the one art process anew (the other mode).           *)
(*                                                                         *)
(* MaxArt bounds the art processes alive, MaxJobs the detached threads.    *)
(***************************************************************************)
EXTENDS Application

CONSTANTS Labels, NoLabel, MaxArt, MaxJobs

ASSUME DispatcherAssumption ==
  NoLabel \notin Labels /\ MaxArt \in Nat \ {0} /\ MaxJobs \in Nat \ {0}

VARIABLES
  broadcast,  \* broadcast_mode_
  monitors,   \* the labels in registered_monitors_
  pids,       \* registered_monitor_pids_; 0: none, or an invalid one
  arts,       \* the label every live art process serves
  jobs,       \* the detached threads
  asked,      \* the labels whose registration was the last to be answered Success
  clean       \* of those asked for, the ones nothing has got in the way of

dvars == <<broadcast, monitors, pids, arts, jobs, asked, clean>>

Art  == 1 .. MaxArt
Slot == 1 .. MaxJobs
NoJob == [do |-> "nothing", label |-> NoLabel, pc |-> "none", pid |-> 0]
FreeSlots == {j \in Slot : jobs[j] = NoJob}
Pending(l) == \E j \in Slot : jobs[j].label = l
Serving(l) == {p \in Art : arts[p] = l}
\* Process identifiers nobody remembers.
FreeArts == {p \in Art : /\ arts[p] = NoLabel
                         /\ \A l \in Labels : pids[l] # p
                         /\ \A j \in Slot : jobs[j].pid # p}

DInit ==
  /\ Init
  /\ broadcast \in IF kind = "Dispatcher" THEN BOOLEAN ELSE {TRUE}
  /\ monitors = {} /\ asked = {} /\ clean = {}
  /\ pids = [l \in Labels |-> 0]
  /\ arts = [p \in Art |-> NoLabel]
  /\ jobs = [j \in Slot |-> NoJob]

\* check_filters_ forgets the processes that are gone, of the labels registered.
check_filters_ ==
  [l \in Labels |-> IF l \in monitors /\ pids[l] # 0 /\ arts[pids[l]] = NoLabel THEN 0 ELSE pids[l]]

\* generate_filter_fhicl_ locks dispatcher_transfers_mutex_, which its caller holds.
FiltersLocked == \E j \in Slot : jobs[j].pc = "locked"

Command(l) ==
  /\ kind = "Dispatcher" /\ alive = "up" /\ ctl.pc = "idle" /\ core.made
  /\ FreeSlots # {}    \* bound

Detach(do, l) ==
  LET j == CHOOSE j \in FreeSlots : \A i \in FreeSlots : j <= i
  IN  jobs' = [jobs EXCEPT ![j] = [do |-> do, label |-> l, pc |-> "made", pid |-> 0]]

\* A command that needs the filters waits for them with the mutex of the server.
BlockedByFilters(l) ==
  /\ Command(l) /\ FiltersLocked
  /\ ctl' = [ctl EXCEPT !.cmd = "register_monitor", !.pc = "filters"]
  /\ UNCHANGED <<kind, auto, stack, primary, reply, core, thr, handle, active, alive, hist, dvars>>

register_monitor(l) ==
  /\ Command(l) /\ ~FiltersLocked
  /\ pids' = check_filters_
  /\ IF core.should_stop \/ l \in monitors
     THEN UNCHANGED <<monitors, jobs, asked, clean>>
     ELSE /\ monitors' = monitors \cup {l}
          /\ Detach("start", l)
          /\ asked' = asked \cup {l}
          /\ clean' = IF Pending(l) \/ Serving(l) # {} THEN clean \ {l} ELSE clean \cup {l}
  /\ UNCHANGED <<vars, broadcast, arts>>

unregister_monitor(l) ==
  /\ Command(l) /\ ~FiltersLocked
  /\ pids' = check_filters_
  /\ IF l \notin monitors
     THEN UNCHANGED <<monitors, jobs, asked, clean>>
     ELSE /\ monitors' = monitors \ {l}
          /\ Detach("stop", l)
          /\ asked' = asked \ {l}
          /\ clean' = IF Pending(l) THEN clean \ {l} ELSE clean
  /\ UNCHANGED <<vars, broadcast, arts>>

-----------------------------------------------------------------------------
(***************************************************************************)
(* start_art_process_ and stop_art_process_, in the steps between which    *)
(* they do not hold the mutex.                                             *)
(***************************************************************************)
Job(j, do, pc) == alive = "up" /\ jobs[j].do = do /\ jobs[j].pc = pc
Becomes(j, pc, pid) == jobs' = [jobs EXCEPT ![j].pc = pc, ![j].pid = pid]
Ends(j) == jobs' = [jobs EXCEPT ![j] = NoJob]

JobLocks(j) ==
  /\ Job(j, "start", "made") \/ Job(j, "stop", "made")
  /\ ~broadcast /\ core.parts /\ ~FiltersLocked
  /\ Becomes(j, "locked", 0)
  /\ UNCHANGED <<vars, broadcast, monitors, pids, arts, asked, clean>>

NoEventStore(j) ==
  /\ Job(j, "start", "made") \/ Job(j, "stop", "made")
  /\ ~core.parts
  /\ Ends(j)
  /\ clean' = clean \ {jobs[j].label}
  /\ UNCHANGED <<vars, broadcast, monitors, pids, arts, asked>>

\* registered_monitors_[label] makes the entry if it is gone.
StartReads(j) ==
  /\ Job(j, "start", "made") /\ broadcast /\ core.parts
  /\ monitors' = monitors \cup {jobs[j].label}
  /\ Becomes(j, "read", 0)
  /\ UNCHANGED <<vars, broadcast, pids, arts, asked, clean>>

\* StartArtProcess: an art process comes up, in time to be known or too late.
StartArtProcess(j) ==
  /\ Job(j, "start", "read")
  /\ \E p \in FreeArts, late \in BOOLEAN :
       /\ arts' = [arts EXCEPT ![p] = jobs[j].label]
       /\ Becomes(j, "record", IF late THEN 0 ELSE p)
       /\ clean' = IF late THEN clean \ {jobs[j].label} ELSE clean
  /\ UNCHANGED <<vars, broadcast, monitors, pids, asked>>

StartRecords(j) ==
  /\ Job(j, "start", "record")
  /\ pids' = [pids EXCEPT ![jobs[j].label] = jobs[j].pid]
  /\ Ends(j)
  /\ UNCHANGED <<vars, broadcast, monitors, arts, asked, clean>>

\* Mutant: the pid is forgotten and the process left alone.
StopFinds_forgets(j) ==
  /\ Job(j, "stop", "made") /\ broadcast /\ core.parts
  /\ pids' = [pids EXCEPT ![jobs[j].label] = 0]
  /\ Ends(j)
  /\ UNCHANGED <<vars, broadcast, monitors, arts, asked, clean>>

StopFinds(j) ==
  /\ Job(j, "stop", "made") /\ broadcast /\ core.parts
  /\ LET l == jobs[j].label
     IN  IF pids[l] = 0 THEN Ends(j) /\ UNCHANGED pids
         ELSE /\ Becomes(j, "kill", pids[l])
              /\ pids' = [pids EXCEPT ![l] = 0]
  /\ UNCHANGED <<vars, broadcast, monitors, arts, asked, clean>>

\* ShutdownArtProcesses ends with SIGKILL.
ShutdownArtProcesses(j) ==
  /\ Job(j, "stop", "kill")
  /\ arts' = [arts EXCEPT ![jobs[j].pid] = NoLabel]
  /\ Ends(j)
  /\ UNCHANGED <<vars, broadcast, monitors, pids, asked, clean>>

ArtDies(p) ==
  /\ alive = "up" /\ arts[p] # NoLabel
  /\ clean' = clean \ {arts[p]}
  /\ arts' = [arts EXCEPT ![p] = NoLabel]
  /\ UNCHANGED <<vars, broadcast, monitors, pids, jobs, asked>>

\* The commands of the application.  endOfData, which stop, shutdown and the end of an
\* event store call, shuts every art process down.
EndsData ==
  /\ kind = "Dispatcher" /\ core.parts /\ ctl.pc = "do" /\ ctl'.pc = "idle"
  /\ ctl.edge.op \in {"stop", "shutdown"} \/ (ctl.edge.op = "initialize" /\ reply'.res = "ok")

Applications ==
  /\ Next
  /\ IF EndsData THEN arts' = [p \in Art |-> NoLabel] /\ clean' = {}
                 ELSE UNCHANGED <<arts, clean>>
  /\ UNCHANGED <<broadcast, monitors, pids, jobs, asked>>

JobStep(j) ==
  \/ JobLocks(j) \/ NoEventStore(j) \/ StartReads(j) \/ StartArtProcess(j)
  \/ StartRecords(j) \/ StopFinds(j) \/ ShutdownArtProcesses(j)

DNext ==
  \/ Applications
  \/ \E l \in Labels : register_monitor(l) \/ unregister_monitor(l) \/ BlockedByFilters(l)
  \/ \E j \in Slot : JobStep(j)
  \/ \E p \in Art : ArtDies(p)

dall == <<vars, dvars>>

DSpec ==
  /\ DInit /\ [][DNext]_dall
  /\ Fairness
  /\ \A j \in Slot : WF_dall(JobStep(j))

-----------------------------------------------------------------------------
\* A label nothing has got in the way of (no command for it before the thread of the
\* last one was done, no art process late or dead, no end of data) is registered if
\* and only if it was asked for, and then has one art process, the one recorded;
\* otherwise it has none.
MonitorHasArt ==
  \A l \in clean :
    ~Pending(l) =>
      /\ l \in monitors <=> l \in asked
      /\ Serving(l) = IF l \in asked THEN {pids[l]} ELSE {}

\* Whoever asked for a monitor gets an art process for it, or it is unregistered, or
\* something got in the way.
MonitorServed ==
  \A l \in Labels : l \in clean /\ broadcast /\ l \in asked
                    ~> Serving(l) # {} \/ l \notin clean \/ l \notin asked \/ alive # "up"


\* Every command is answered, every failure reported and every monitor served.
NothingLeftUndone == CommandsAnswered /\ ErrorReported /\ MonitorServed
=============================================================================
