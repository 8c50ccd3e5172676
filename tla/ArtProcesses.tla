----------------------------- MODULE ArtProcesses -----------------------------
(***************************************************************************)
(* The art processes of SharedMemoryEventManager: a detached RunArt thread *)
(* for each, which forks a process, waits for it and forks the next one as *)
(* long as restart_art_ says so; the command thread, which starts them     *)
(* with startRun and ends them with endOfData; and the broadcasts, which   *)
(* every process reads in order from the oldest that is still there.       *)
(*                                                                         *)
(* A process is named by its thread: a thread has one at a time.           *)
(***************************************************************************)
EXTENDS Integers, FiniteSets, Sequences

CONSTANTS num_art_processes_,
          ArtThreads,               \* bound: the threads there can be, 1 .. n
          InitSources,              \* the senders of Init Fragments
          broadcast_buffer_count,
          MaxArtRuns, MaxArtEnds    \* bounds: runs; processes that end by themselves

ASSUME ArtAssumption ==
  /\ num_art_processes_ \in Nat \ {0}
  /\ {broadcast_buffer_count, MaxArtRuns, MaxArtEnds} \subseteq Nat
  /\ broadcast_buffer_count > 0
  /\ ArtThreads \subseteq Nat /\ IsFiniteSet(ArtThreads) /\ IsFiniteSet(InitSources)

VARIABLES
  command,              \* where the command thread is: the step, the processes started by
                        \* StartArt, and whether ReconfigureArt starts a run afterwards
  restart_art_,
  always_restart_art_, init_fragment_count_,    \* configuration
  thread,               \* where each RunArt thread is
  proc,                 \* its process: none, running or the way it has ended
  seen,                 \* the broadcasts the process has read
  initialised,          \* the processes that have read an Init Fragment
  signalled,            \* those that were sent SIGQUIT or SIGINT
  art_processes_,
  broadcasts_,          \* the buffers that are full, oldest first
  received_init_frags_,
  artRuns, artEnds      \* how many there were

artVars == <<command, restart_art_, always_restart_art_, init_fragment_count_, thread, proc, seen,
             initialised, signalled, art_processes_, broadcasts_, received_init_frags_, artRuns,
             artEnds>>
configVars == <<always_restart_art_, init_fragment_count_>>
threadVars == <<thread, art_processes_>>
procVars == <<proc, seen, initialised, signalled>>

At(step) == [at |-> step, started |-> 0, again |-> FALSE]
Ended == {"ended", "failed early"}

ArtInit ==
  /\ command = At("idle")
  /\ restart_art_ = FALSE
  /\ always_restart_art_ \in BOOLEAN
  /\ init_fragment_count_ \in {0, Cardinality(InitSources)}
  /\ thread = [t \in ArtThreads |-> "off"]
  /\ proc = [t \in ArtThreads |-> "none"]
  /\ seen = [t \in ArtThreads |-> 0]
  /\ initialised = {} /\ signalled = {} /\ art_processes_ = {}
  /\ broadcasts_ = <<>>
  /\ received_init_frags_ = {}
  /\ artRuns = 0 /\ artEnds = 0

-----------------------------------------------------------------------------
(* The broadcasts *)

\* broadcastFragments_ gives up when no buffer gets free within the timeout.
Room == Len(broadcasts_) < broadcast_buffer_count
Broadcast(frag) == broadcasts_' = IF Room THEN Append(broadcasts_, frag) ELSE broadcasts_

\* MarkBufferEmpty of every buffer: whoever had not read them never will.
ClearBroadcasts == broadcasts_' = <<>> /\ seen' = [t \in ArtThreads |-> 0]
KeepBroadcasts == UNCHANGED <<broadcasts_, seen>>

\* send_init_frags_, with the Init Fragments received so far
send_init_frags_(received) ==
  IF init_fragment_count_ = 0 \/ Cardinality(received) >= init_fragment_count_
  THEN Broadcast("Init") ELSE UNCHANGED broadcasts_

AddInitFragment(source) ==
  /\ init_fragment_count_ > 0 /\ command.at = "running" /\ source \notin received_init_frags_
  /\ received_init_frags_' = received_init_frags_ \cup {source}
  /\ IF Cardinality(received_init_frags_') >= init_fragment_count_
     THEN send_init_frags_(received_init_frags_') ELSE UNCHANGED broadcasts_
  /\ UNCHANGED <<command, restart_art_, configVars, threadVars, procVars, artRuns, artEnds>>

-----------------------------------------------------------------------------
(* RunArt *)

Goes(t, from, to) == thread[t] = from /\ thread' = [thread EXCEPT ![t] = to]

RunArtBegins(t) ==
  /\ Goes(t, "begin", "fork")
  /\ send_init_frags_(received_init_frags_)
  /\ UNCHANGED <<command, restart_art_, configVars, procVars, art_processes_, received_init_frags_, artRuns,
                 artEnds>>

RunArtForks(t) ==
  /\ Goes(t, "fork", "insert")
  /\ proc' = [proc EXCEPT ![t] = "running"]
  /\ UNCHANGED <<command, restart_art_, configVars, art_processes_, seen, initialised, signalled,
                 broadcasts_, received_init_frags_, artRuns, artEnds>>

RunArtInserts(t) ==
  /\ Goes(t, "insert", "wait")
  /\ art_processes_' = art_processes_ \cup {t}
  /\ UNCHANGED <<command, restart_art_, configVars, procVars, broadcasts_, received_init_frags_, artRuns,
                 artEnds>>

\* waitid returns: the process is gone and its PID may be that of another.
Reaped(t) == thread[t] = "erase"

RunArtWaits(t) ==
  /\ proc[t] \in Ended
  /\ Goes(t, "wait", "erase")
  /\ UNCHANGED <<command, restart_art_, configVars, procVars, art_processes_, broadcasts_,
                 received_init_frags_, artRuns, artEnds>>

RunArtErases(t) ==
  /\ Goes(t, "erase", "decide")
  /\ art_processes_' = art_processes_ \ {t}
  /\ UNCHANGED <<command, restart_art_, configVars, procVars, broadcasts_, received_init_frags_, artRuns,
                 artEnds>>

\* A process that failed within minimum_art_lifetime_s_ ends the restarting.
RunArtDecides(t) ==
  /\ thread[t] = "decide"
  /\ restart_art_' = (restart_art_ /\ proc[t] # "failed early")
  /\ thread' = [thread EXCEPT ![t] = IF restart_art_' THEN "begin" ELSE "off"]
  /\ proc' = [proc EXCEPT ![t] = "none"]
  /\ UNCHANGED <<command, configVars, seen, initialised, signalled, art_processes_, broadcasts_,
                 received_init_frags_, artRuns, artEnds>>

RunArt(t) ==
  \/ RunArtBegins(t) \/ RunArtForks(t) \/ RunArtInserts(t)
  \/ RunArtWaits(t) \/ RunArtErases(t) \/ RunArtDecides(t)

-----------------------------------------------------------------------------
(* The processes *)

Ends(t, status) ==
  /\ proc' = [proc EXCEPT ![t] = status]
  /\ seen' = [seen EXCEPT ![t] = 0]
  /\ initialised' = initialised \ {t}
  /\ signalled' = signalled \ {t}

\* The EndOfData Fragment ends the process, also as the first one it gets.
ArtReads(t) ==
  /\ proc[t] = "running" /\ seen[t] < Len(broadcasts_)
  /\ LET frag == broadcasts_[seen[t] + 1] IN
     IF frag = "EndOfData" THEN Ends(t, "ended")
     ELSE /\ seen' = [seen EXCEPT ![t] = @ + 1]
          /\ initialised' = IF frag = "Init" THEN initialised \cup {t} ELSE initialised
          /\ UNCHANGED <<proc, signalled>>
  /\ UNCHANGED <<command, restart_art_, configVars, threadVars, broadcasts_, received_init_frags_, artRuns,
                 artEnds>>

\* art fails or ends, or obeys a signal.
ArtEnds(t) ==
  /\ proc[t] = "running"
  /\ \/ artEnds < MaxArtEnds /\ artEnds' = artEnds + 1
     \/ t \in signalled /\ UNCHANGED artEnds
  /\ \E status \in Ended : Ends(t, status)
  /\ UNCHANGED <<command, restart_art_, configVars, threadVars, broadcasts_, received_init_frags_, artRuns>>

-----------------------------------------------------------------------------
(* The command thread *)

Becomes(step) == command' = [command EXCEPT !.at = step]

\* start: what is received from now on is of the new run.
startRun ==
  /\ command.at = "startRun"
  /\ Becomes("StartArt")
  /\ restart_art_' = always_restart_art_
  /\ received_init_frags_' = {}
  /\ ClearBroadcasts
  /\ UNCHANGED <<configVars, threadVars, proc, initialised, signalled, artRuns, artEnds>>

start ==
  /\ command.at = "idle" /\ artRuns < MaxArtRuns
  /\ command' = At("startRun")
  /\ artRuns' = artRuns + 1
  /\ UNCHANGED <<restart_art_, configVars, threadVars, procVars, broadcasts_, received_init_frags_,
                 artEnds>>

\* A new thread, and then up to 5 seconds until its process has attached.
StartArtProcess ==
  /\ command.at = "StartArt" /\ command.started < num_art_processes_
  /\ \E t \in ArtThreads :
       /\ thread[t] = "off" /\ \A u \in ArtThreads : thread[u] = "off" => t <= u
       /\ thread' = [thread EXCEPT ![t] = "begin"]
  /\ restart_art_' = always_restart_art_
  /\ command' = [command EXCEPT !.at = "attach", !.started = @ + 1]
  /\ UNCHANGED <<configVars, art_processes_, procVars, broadcasts_, received_init_frags_, artRuns, artEnds>>

\* Mutant: the broadcasts are cleared after the processes were started.
ArtStarted_clears ==
  /\ command.at = "attach"
  /\ Becomes(IF command.started < num_art_processes_ THEN "StartArt" ELSE "running")
  /\ IF command.started < num_art_processes_ THEN KeepBroadcasts ELSE ClearBroadcasts
  /\ UNCHANGED <<restart_art_, configVars, threadVars, proc, initialised, signalled, received_init_frags_,
                 artRuns, artEnds>>

ArtStarted ==
  /\ command.at = "attach"
  /\ Becomes(IF command.started < num_art_processes_ THEN "StartArt" ELSE "running")
  /\ UNCHANGED <<restart_art_, configVars, threadVars, procVars, broadcasts_, received_init_frags_, artRuns,
                 artEnds>>

\* stop ends the run first, ReconfigureArt does not; and it ends the data only if it thinks
\* that art is running.
stop ==
  /\ command.at = "running"
  /\ Broadcast("EndOfRun")
  /\ command' = At("endOfData")
  /\ UNCHANGED <<restart_art_, configVars, threadVars, procVars, received_init_frags_, artRuns, artEnds>>

ReconfigureArt ==
  /\ command.at = "running" /\ artRuns < MaxArtRuns
  /\ artRuns' = artRuns + 1
  /\ IF restart_art_ \/ ~always_restart_art_
     THEN command' = [At("endOfData") EXCEPT !.again = TRUE]
     ELSE command' = At("startRun")
  /\ UNCHANGED <<restart_art_, configVars, threadVars, procVars, broadcasts_, received_init_frags_, artEnds>>

endOfData ==
  /\ command.at = "endOfData"
  /\ received_init_frags_' = {}
  /\ restart_art_' = FALSE
  /\ Becomes("flush")
  /\ UNCHANGED <<configVars, threadVars, procVars, broadcasts_, artRuns, artEnds>>

\* The buffers are flushed; the EndOfData Fragment is broadcast, the buffers being cleared
\* for it if there is no room.
BroadcastEndOfData ==
  /\ command.at \in {"flush", "room"}
  /\ IF Room \/ command.at = "room"
     THEN Broadcast("EndOfData") /\ Becomes("count") /\ UNCHANGED seen
     ELSE ClearBroadcasts /\ Becomes("room")
  /\ UNCHANGED <<restart_art_, configVars, threadVars, proc, initialised, signalled, received_init_frags_,
                 artRuns, artEnds>>

\* Mutant: the broadcasts are cleared.
EndOfDataDone_clears ==
  /\ command.at = "count" /\ art_processes_ = {}
  /\ command' = IF command.again THEN At("startRun") ELSE At("idle")
  /\ ClearBroadcasts
  /\ UNCHANGED <<restart_art_, configVars, threadVars, proc, initialised, signalled, received_init_frags_,
                 artRuns, artEnds>>

\* endOfData is done as soon as there is no PID left.  The broadcasts stay: the EndOfData Fragment is to persist.
EndOfDataDone ==
  /\ command.at = "count" /\ art_processes_ = {}
  /\ command' = IF command.again THEN At("startRun") ELSE At("idle")
  /\ KeepBroadcasts
  /\ UNCHANGED <<restart_art_, configVars, threadVars, proc, initialised, signalled, received_init_frags_,
                 artRuns, artEnds>>

\* check_pids of the PIDs it was given, which are art_processes_ itself
check_pids == art_processes_' = {t \in art_processes_ : ~Reaped(t)}

\* ShutdownArtProcesses: wait, SIGQUIT, wait, SIGINT, wait.
Stages == <<"graceful", "quit", "int">>
StageOf(at) == CHOOSE n \in 1 .. 3 : Stages[n] = at

ShutdownBegins ==
  /\ command.at = "count" /\ art_processes_ # {}
  /\ restart_art_' = FALSE
  /\ check_pids
  /\ IF art_processes_' = {} THEN UNCHANGED command ELSE Becomes("graceful")
  /\ UNCHANGED <<configVars, thread, procVars, broadcasts_, received_init_frags_, artRuns, artEnds>>

ShutdownChecks ==
  /\ command.at \in {Stages[n] : n \in 1 .. 3}
  /\ check_pids
  /\ IF art_processes_' = {} THEN Becomes("count") ELSE UNCHANGED command
  /\ UNCHANGED <<restart_art_, configVars, thread, procVars, broadcasts_, received_init_frags_, artRuns,
                 artEnds>>

ShutdownInsists ==
  /\ command.at \in {Stages[n] : n \in 1 .. 3}
  /\ LET n == StageOf(command.at) IN
     IF n < 3 THEN signalled' = signalled \cup art_processes_ /\ Becomes(Stages[n + 1])
     ELSE UNCHANGED signalled /\ Becomes("countKill")
  /\ UNCHANGED <<restart_art_, configVars, threadVars, proc, seen, initialised, broadcasts_,
                 received_init_frags_, artRuns, artEnds>>

CountForKill ==
  /\ command.at = "countKill"
  /\ Becomes(IF art_processes_ = {} THEN "count" ELSE "kill")
  /\ UNCHANGED <<restart_art_, configVars, threadVars, procVars, broadcasts_, received_init_frags_, artRuns,
                 artEnds>>

\* SIGKILL to the first PID there is now, which need not be one that was counted, and
\* check_pids.  When RunArt has erased the last one in between, begin() of an empty set is
\* dereferenced: no process of ours is meant.
Kill ==
  /\ command.at = "kill"
  /\ Becomes("countKill")
  /\ check_pids
  /\ IF \E t \in art_processes_ : ~Reaped(t) /\ proc[t] = "running" /\ \A u \in art_processes_ : t <= u
     THEN LET t == CHOOSE t \in art_processes_ : \A u \in art_processes_ : t <= u
          IN \E status \in Ended : Ends(t, status)
     ELSE UNCHANGED procVars
  /\ UNCHANGED <<restart_art_, configVars, thread, broadcasts_, received_init_frags_, artRuns, artEnds>>

Ending ==
  \/ endOfData \/ BroadcastEndOfData \/ EndOfDataDone \/ ShutdownBegins \/ ShutdownChecks
  \/ ShutdownInsists \/ CountForKill \/ Kill

ArtNext ==
  \/ \E source \in InitSources : AddInitFragment(source)
  \/ \E t \in ArtThreads : RunArt(t) \/ ArtReads(t) \/ ArtEnds(t)
  \/ start \/ startRun \/ StartArtProcess \/ ArtStarted \/ stop \/ ReconfigureArt
  \/ Ending

(***************************************************************************)
(* Threads and processes run; the waits of a shutdown come to an end.  No  *)
(* command need ever be given, and no process need end by itself.          *)
(***************************************************************************)
ArtFairness ==
  /\ \A t \in ArtThreads : WF_artVars(RunArt(t)) /\ WF_artVars(ArtReads(t))
  /\ WF_artVars(startRun) /\ WF_artVars(ArtStarted) /\ WF_artVars(StartArtProcess)
  /\ WF_artVars(endOfData \/ BroadcastEndOfData \/ EndOfDataDone \/ ShutdownBegins \/ CountForKill
                 \/ Kill)
  /\ WF_artVars(ShutdownInsists)

-----------------------------------------------------------------------------
NoArt == \A t \in ArtThreads : thread[t] = "off"

\* A stop comes to an end, and then no art process is left, or another run is started: also
\* the process of a thread that read restart_art_ just before ends, since the EndOfData
\* Fragment is still there for it to read.
StoppedMeansNoArt == command.at = "endOfData" ~> (command.at = "idle" /\ NoArt) \/ command.at = "startRun"

\* Every process that attached in a run whose Init Fragments have come gets one, in whatever
\* order threads, processes and Init Fragments come, unless it ends or the data does.
ArtInitialised ==
  \A t \in ArtThreads :
    (command.at = "running" /\ proc[t] = "running" /\ Cardinality(received_init_frags_) >= init_fragment_count_)
      ~> (t \in initialised \/ proc[t] # "running" \/ command.at # "running")

=============================================================================
