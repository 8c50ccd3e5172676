------------------------------ MODULE ArtInput -------------------------------
(***************************************************************************)
(* The input of an art process: ArtdaqSharedMemoryService takes an event   *)
(* or a broadcast out of shared memory, ShmemWrapper waits for the Init    *)
(* Fragment, and ArtdaqInputHelper makes run, subrun and event principals. *)
(* The process is one of an event builder, whose Init Fragment is empty    *)
(* and whose events are Fragments, or of a data logger, whose Init         *)
(* Fragment comes from the builders and whose events are art events inside *)
(* Data Fragments.                                                         *)
(***************************************************************************)
EXTENDS Integers, Sequences

CONSTANTS InputEvents,      \* the events of the run
          MaxRestarts       \* bound: times RunArt starts the process again

ASSUME ArtInputAssumption == InputEvents \in Nat /\ MaxRestarts \in Nat

VARIABLES
  daq,       \* kind of the application; phase of its run; Init Fragment there; starts of art, events;
             \* endOfData gave up waiting
  full,      \* the events in full buffers
  casts,     \* the broadcasts, in order
  cast_seen, \* how many of them the process has seen
  art_in,    \* the process: where it is, its mode, its run and subrun principals
  rd,        \* ReceiveEvent: the event of the buffer, types to read and read, the buffer ours
  given,     \* the event given to art last, with its principals and types
  shown,     \* the events given to art so far, by whichever process
  binned     \* the events endOfData threw away

inputVars == <<daq, full, casts, cast_seen, art_in, rd, given, shown, binned>>

Kinds == {"builder", "logger"}
EventTypes == IF daq.kind = "builder" THEN {"A", "B"} ELSE {"Data"}
SubrunOf(n) == 1 + n \div 2
Header(n) == [n |-> n, run |-> 1, subrun |-> SubrunOf(n)]
CastHeader == [n |-> 0, run |-> 1, subrun |-> 1]    \* of a broadcast: no event_id is set
NoRead == [hdr |-> CastHeader, todo |-> {}, recvd |-> {}, ours |-> FALSE]
SystemTypes == {"Data", "Init", "EndOfRun", "EndOfData"}
Flush == 999
NoPrincipal == 0

NewProcess == [pc |-> "init", fragmentsOnlyMode_ |-> FALSE, init_received_ |-> FALSE,
               R |-> NoPrincipal, SR |-> <<NoPrincipal, NoPrincipal>>, why |-> ""]

NothingGiven == [hdr |-> CastHeader, R |-> NoPrincipal, SR |-> <<NoPrincipal, NoPrincipal>>, types |-> {}]

InputInit ==
  /\ \E k \in Kinds, resume \in BOOLEAN :
       /\ daq = [kind |-> k, phase |-> "running", init |-> k = "builder", starts |-> 0, events |-> 0,
                 resume_after_timeout_ |-> resume, taken |-> FALSE, ranOut |-> FALSE]
       /\ casts = IF k = "builder" THEN <<"Init">> ELSE <<>>
  /\ full = {} /\ shown = {} /\ binned = {}
  /\ art_in = NewProcess /\ cast_seen = 0
  /\ rd = NoRead
  /\ given = NothingGiven

-----------------------------------------------------------------------------
(* The event builder or logger around the process. *)

Ended(why) == [art_in EXCEPT !.pc = "ended", !.why = why]

\* endOfData completes those that are open.
EventComplete ==
  /\ daq.phase \in {"running", "ended"} /\ daq.events < InputEvents
  /\ daq' = [daq EXCEPT !.events = @ + 1]
  /\ full' = full \cup {daq.events + 1}
  /\ UNCHANGED <<casts, cast_seen, art_in, rd, given, shown, binned>>

\* The logger has the Init Fragments of all its builders.
InitArrives ==
  /\ daq.kind = "logger" /\ ~daq.init /\ daq.phase = "running"
  /\ daq' = [daq EXCEPT !.init = TRUE]
  /\ casts' = Append(casts, "Init")
  /\ UNCHANGED <<full, cast_seen, art_in, rd, given, shown, binned>>

endRun ==
  /\ daq.phase = "running"
  /\ daq' = [daq EXCEPT !.phase = "ended"]
  /\ casts' = Append(casts, "EndOfRun")
  /\ UNCHANGED <<full, cast_seen, art_in, rd, given, shown, binned>>

\* restart_art_ becomes false.
endOfDataBegins ==
  /\ daq.phase = "ended"
  /\ daq' = [daq EXCEPT !.phase = "flushing"]
  /\ UNCHANGED <<full, casts, cast_seen, art_in, rd, given, shown, binned>>

BeingRead == IF rd.ours THEN {rd.hdr.n} ELSE {}
Outstanding == full # {} \/ rd.ours

\* endOfData waits for the buffers that are full or being read, while a process is there: for
\* end_of_data_wait_us from the last change of their number, by default a second for each
\* buffer, or for ever if expected_art_event_processing_time_us is 0.  When that time runs
\* out it broadcasts all the same.
endOfDataBroadcasts ==
  /\ daq.phase = "flushing"
  /\ daq' = [daq EXCEPT !.phase = "shutdown", !.ranOut = Outstanding /\ art_in.pc # "ended"]
  /\ casts' = Append(casts, "EndOfData")
  /\ UNCHANGED <<full, cast_seen, art_in, rd, given, shown, binned>>

\* A process that has not ended by itself in time is killed, wherever it is.
ShutdownArtProcesses ==
  /\ daq.phase = "shutdown" /\ art_in.pc # "ended"
  /\ art_in' = Ended("killed")
  /\ UNCHANGED <<daq, full, casts, cast_seen, rd, given, shown, binned>>

\* All buffers are marked empty, also those art has not read, or not to the end.
endOfDataClears ==
  /\ daq.phase = "shutdown" /\ art_in.pc = "ended"
  /\ daq' = [daq EXCEPT !.phase = "over"]
  /\ binned' = binned \cup full \cup BeingRead /\ full' = {} /\ rd' = NoRead
  /\ UNCHANGED <<casts, cast_seen, art_in, given, shown>>

\* RunArt: the process ended, and restart_art_ is still set.
RunArtRestarts ==
  /\ art_in.pc = "ended" /\ daq.phase \in {"running", "ended"} /\ daq.starts < MaxRestarts
  /\ daq' = [daq EXCEPT !.starts = @ + 1]
  /\ casts' = IF daq.init THEN Append(casts, "Init") ELSE casts
  /\ art_in' = NewProcess /\ cast_seen' = 0 /\ given' = NothingGiven
  /\ UNCHANGED <<full, rd, shown, binned>>

-----------------------------------------------------------------------------
(* The process. *)

\* ArtdaqInputHelper waits for the Init Fragment; other broadcasts are dropped.
receiveInitMessage ==
  /\ art_in.pc = "init" /\ cast_seen < Len(casts)
  /\ cast_seen' = cast_seen + 1
  /\ art_in' = CASE casts[cast_seen + 1] = "EndOfData" -> Ended("EndOfData")
                 [] casts[cast_seen + 1] = "Init" ->
                      [art_in EXCEPT !.pc = "wait", !.init_received_ = TRUE,
                                     !.fragmentsOnlyMode_ = daq.kind = "builder"]
                 [] OTHER -> art_in
  /\ UNCHANGED <<daq, full, casts, rd, given, shown, binned>>

\* No Init message in time: "This is an EventBuilder!", even if it is not.  One that comes
\* after that time is thrown away.
InitTimeout ==
  /\ art_in.pc = "init"
  /\ \/ cast_seen = Len(casts) /\ UNCHANGED cast_seen
     \/ /\ cast_seen < Len(casts) /\ casts[cast_seen + 1] = "Init"
        /\ cast_seen' = cast_seen + 1
  /\ art_in' = [art_in EXCEPT !.pc = "wait", !.fragmentsOnlyMode_ = TRUE]
  /\ UNCHANGED <<daq, full, casts, rd, given, shown, binned>>

\* A principal is made unless the input's is of the event's run or subrun.
RunPrincipal(hdr) == IF art_in.R # hdr.run THEN hdr.run ELSE art_in.R
SubrunPrincipal(hdr) == IF art_in.SR # <<hdr.run, hdr.subrun>> THEN <<hdr.run, hdr.subrun>> ELSE art_in.SR

Gives(hdr, types, R, SR) ==
  /\ art_in' = [art_in EXCEPT !.pc = "wait", !.R = R, !.SR = SR]
  /\ given' = [hdr |-> hdr, R |-> R, SR |-> SR, types |-> types]
  /\ shown' = shown \cup ({hdr.n} \ {CastHeader.n})

Ends(why) == art_in' = Ended(why) /\ UNCHANGED <<given, shown>>

\* constructPrincipal, by the type of the Fragments; readFragments skips system types.
constructPrincipal(types, hdr) ==
  \/ types = {"EndOfData"} /\ Ends("EndOfData")
  \/ types = {"EndOfRun"} /\ Gives(CastHeader, {}, Flush, <<Flush, Flush>>)
  \/ /\ types \notin {{"EndOfData"}, {"EndOfRun"}}
     /\ Gives(hdr, types \ SystemTypes, RunPrincipal(hdr), SubrunPrincipal(hdr))

\* readNext in the other mode: a message without Data Fragment ends the process, what
\* ever it is; the principals come from the art event in the Data Fragment.
readAndConstructPrincipal(types, hdr) ==
  \/ "Data" \notin types /\ Ends(IF types = {"EndOfData"} THEN "EndOfData" ELSE "no Data")
  \/ "Data" \in types /\ Gives(hdr, types, RunPrincipal(hdr), SubrunPrincipal(hdr))

readNext(types, hdr) ==
  IF art_in.fragmentsOnlyMode_ THEN constructPrincipal(types, hdr) ELSE readAndConstructPrincipal(types, hdr)

\* Broadcasts come first.
ReadBroadcast ==
  /\ art_in.pc = "wait" /\ cast_seen < Len(casts)
  /\ cast_seen' = cast_seen + 1
  /\ readNext({casts[cast_seen + 1]}, CastHeader)
  /\ UNCHANGED <<daq, full, casts, rd, binned>>

\* ReadyForRead takes the buffer.
TakeBuffer ==
  /\ art_in.pc = "wait" /\ cast_seen = Len(casts)
  /\ \E n \in full :
       /\ rd' = [hdr |-> Header(n), todo |-> EventTypes, recvd |-> {}, ours |-> TRUE]
       /\ full' = full \ {n}
  /\ art_in' = [art_in EXCEPT !.pc = "header"]
  /\ UNCHANGED <<daq, casts, cast_seen, given, shown, binned>>

\* The event manager takes a buffer back that is read for too long; it is full again.
BufferTaken ==
  /\ rd.ours /\ ~daq.taken                        \* bound: once
  /\ daq' = [daq EXCEPT !.taken = TRUE]
  /\ rd' = [rd EXCEPT !.ours = FALSE]
  /\ full' = full \cup {rd.hdr.n}
  /\ UNCHANGED <<casts, cast_seen, art_in, given, shown, binned>>

\* ReadHeader and GetFragmentTypes; on an error ReceiveEvent begins again.
ReadHeader ==
  /\ art_in.pc = "header"
  /\ art_in' = [art_in EXCEPT !.pc = IF rd.ours THEN "types" ELSE "wait"]
  /\ rd' = IF rd.ours THEN rd ELSE NoRead
  /\ UNCHANGED <<daq, full, casts, cast_seen, given, shown, binned>>

\* Mutant: what was read before the error stays.
GetFragmentsByType_keeps(t) ==
  rd' = [rd EXCEPT !.todo = @ \ {t}, !.recvd = IF rd.ours THEN @ \cup {t} ELSE @]

\* On an error the buffer is released and what was read cleared; the continue is that of
\* the loop over the types, which goes on with the next one.
GetFragmentsByType(t) ==
  rd' = [rd EXCEPT !.todo = @ \ {t}, !.recvd = IF rd.ours THEN @ \cup {t} ELSE {}]

ReadType ==
  /\ art_in.pc = "types"
  /\ \E t \in rd.todo : GetFragmentsByType(t)
  /\ UNCHANGED <<daq, full, casts, cast_seen, art_in, given, shown, binned>>

\* ReleaseBuffer empties the buffer, if it is still ours; with nothing read it begins again.
ReadEvent ==
  /\ art_in.pc = "types" /\ rd.todo = {}
  /\ IF rd.recvd = {} THEN art_in' = [art_in EXCEPT !.pc = "wait"] /\ UNCHANGED <<given, shown>>
                      ELSE readNext(rd.recvd, rd.hdr)
  /\ rd' = NoRead
  /\ UNCHANGED <<daq, full, casts, cast_seen, binned>>

\* "No Fragments received! Aborting..."
ReadTimeout ==
  /\ art_in.pc = "wait" /\ cast_seen = Len(casts) /\ full = {}
  /\ ~daq.resume_after_timeout_
  /\ Ends("timeout")
  /\ UNCHANGED <<daq, full, casts, cast_seen, rd, binned>>

InputNext ==
  \/ EventComplete \/ InitArrives \/ endRun \/ endOfDataBegins \/ endOfDataBroadcasts
  \/ ShutdownArtProcesses \/ endOfDataClears \/ RunArtRestarts
  \/ receiveInitMessage \/ InitTimeout \/ ReadBroadcast \/ TakeBuffer \/ BufferTaken
  \/ ReadHeader \/ ReadType \/ ReadEvent \/ ReadTimeout

InputSpec == InputInit /\ [][InputNext]_inputVars

-----------------------------------------------------------------------------
\* The event given to art belongs to the run and the subrun that are open when art gets it,
\* whatever run ends, empty messages and events of other subruns came before.
PrincipalsMatch ==
  given.R \notin {Flush, NoPrincipal} =>
    given.hdr.run = given.R /\ <<given.hdr.run, given.hdr.subrun>> = given.SR

\* An event reaches art with the Fragments of all its types, also when its buffer was taken
\* away between two of them (a logger whose Init Fragment came too late drops the data).
EventWhole ==
  given.hdr.n # 0 /\ (daq.kind = "builder" \/ ~art_in.fragmentsOnlyMode_) => given.types = EventTypes

\* Every complete event is still in a buffer, was given to art or is one of those endOfData
\* threw away: none is lost when a read fails or its buffer is taken away, when a process
\* ends, is killed or started again, or when the end of the data is broadcast while events wait.
EventsAccounted == 1 .. daq.events \subseteq full \cup BeingRead \cup shown \cup binned

\* endOfData throws away no event of a builder whose art reads on after timeouts, unless its
\* wait for the buffers ran out.  Then it may: art reads EndOfData before the events.
NothingBinned == daq.kind = "builder" /\ daq.resume_after_timeout_ /\ ~daq.ranOut => binned = {}

\* art is given the events of the run, each whole and under its own run and subrun, and all of
\* them, unless endOfData throws some away: its wait ran out, or art ended before (a process
\* that ends after a timeout, and that of a logger).
ArtSeesEvents == PrincipalsMatch /\ EventWhole /\ EventsAccounted /\ NothingBinned
=============================================================================
