------------------------------- MODULE ArtProofs -------------------------------
(***************************************************************************)
(* What an art process is given, what a data logger and an online monitor  *)
(* get from one, and what is in the files it writes, for any number of     *)
(* events, runs, senders and files.                                        *)
(***************************************************************************)
EXTENDS ArtInput, ArtOutput, MonitorInput, OutputFile, SortingProofs, SequenceTheorems, TLAPS

-----------------------------------------------------------------------------
(* The input.  A read whose buffer was taken away in between ends with     *)
(* nothing or with all: what was read is thrown away at the first type     *)
(* that is not found, and no later one is.                                 *)

InputPcs == {"init", "wait", "header", "types", "ended"}
InputPhases == {"running", "ended", "flushing", "shutdown", "over"}

\* The end of the data was broadcast.
DataEnded == daq.phase \in {"shutdown", "over"}
Broadcasts == {"Init", "EndOfRun"} \cup (IF DataEnded THEN {"EndOfData"} ELSE {})

Headers == [n : Nat, run : Nat, subrun : Nat]

DaqTypes == [kind : Kinds, phase : InputPhases, init : BOOLEAN, starts : Nat, events : Nat,
             resume_after_timeout_ : BOOLEAN, taken : BOOLEAN, ranOut : BOOLEAN]
Processes == [pc : InputPcs, fragmentsOnlyMode_ : BOOLEAN, init_received_ : BOOLEAN,
              R : Nat, SR : Nat \X Nat, why : {"", "EndOfData", "no Data", "timeout", "killed"}]
Gifts == [hdr : Headers, R : Nat, SR : Nat \X Nat, types : SUBSET {"A", "B", "Data"}]

InputTypes ==
  /\ daq \in DaqTypes
  /\ full \subseteq Nat \ {0}
  /\ casts \in Seq(Broadcasts) /\ cast_seen \in 0 .. Len(casts)
  /\ art_in \in Processes
  /\ rd \in [hdr : Headers, todo : SUBSET EventTypes, recvd : SUBSET EventTypes, ours : BOOLEAN]
  /\ given \in Gifts

\* What is read so far is all that was looked for, unless the buffer was lost.
ReadSoFar ==
  /\ rd.recvd = EventTypes \ rd.todo \/ (rd.recvd = {} /\ ~rd.ours)
  /\ rd.ours => rd.hdr.n # 0

\* A process of a builder reads Fragments, and a new one has given nothing to art.
BuilderMode == daq.kind = "builder" /\ art_in.pc \in {"wait", "header", "types"} => art_in.fragmentsOnlyMode_
NewGaveNothing == art_in.pc = "init" => given = NothingGiven

\* A buffer is held by the process that reads from it, or by one that was killed.
HeldByReader == rd.ours => art_in.pc \in {"header", "types"} \/ (art_in.pc = "ended" /\ DataEnded)

\* The process of a builder that reads on after timeouts ends at the end of the data, and
\* nothing is in the buffers by then, unless the wait for them ran out.
ReadsOn ==
  daq.kind = "builder" /\ daq.resume_after_timeout_ =>
    IF DataEnded THEN daq.ranOut \/ (full = {} /\ ~rd.ours /\ binned = {})
                 ELSE art_in.pc # "ended" /\ binned = {}

\* Where the complete events can be.
Whereabouts == full \cup BeingRead \cup shown \cup binned

InputInv ==
  /\ InputTypes /\ ReadSoFar /\ BuilderMode /\ NewGaveNothing /\ HeldByReader /\ ReadsOn
  /\ PrincipalsMatch /\ EventWhole /\ EventsAccounted

\* An event that is accounted for stays so when it only goes from one place to another.
LEMMA AccountedKept ==
  ASSUME EventsAccounted, daq'.events = daq.events, Whereabouts \subseteq Whereabouts'
  PROVE  EventsAccounted'
BY DEF EventsAccounted, Whereabouts

LEMMA SubrunIsNat == ASSUME NEW n \in Nat PROVE SubrunOf(n) \in Nat
BY DEF SubrunOf

LEMMA CastTypes ==
  ASSUME InputTypes, cast_seen < Len(casts)
  PROVE  casts[cast_seen + 1] \in Broadcasts /\ cast_seen + 1 \in 0 .. Len(casts)
<1>1. Len(casts) \in Nat /\ cast_seen + 1 \in 1 .. Len(casts)
  BY LenProperties DEF InputTypes
<1> QED BY <1>1, ElementOfSeq DEF InputTypes

\* One more broadcast of the kinds that may be there.
LEMMA CastAppended ==
  ASSUME NEW S, NEW seq \in Seq(S), NEW c \in S
  PROVE  Append(seq, c) \in Seq(S) /\ Len(Append(seq, c)) = Len(seq) + 1 /\ Len(seq) \in Nat
OBVIOUS

LEMMA InputInitInv == InputInit => InputInv
<1> SUFFICES ASSUME InputInit PROVE InputInv
  OBVIOUS
<1>1. daq \in DaqTypes /\ daq.phase = "running"
  BY DEF InputInit, DaqTypes, Kinds, InputPhases
<1>2. casts \in Seq(Broadcasts) /\ Len(casts) \in Nat
  <2>1. <<"Init">> \in Seq(Broadcasts) /\ <<>> \in Seq(Broadcasts)
    BY DEF Broadcasts
  <2> QED BY <2>1, LenProperties DEF InputInit
<1>3. art_in \in Processes /\ given \in Gifts /\ given.hdr.n = 0 /\ given.R = NoPrincipal
  <2>1. CastHeader \in Headers
    BY DEF CastHeader, Headers
  <2>2. art_in \in Processes
    BY DEF InputInit, NewProcess, NoPrincipal, Processes, InputPcs
  <2>3. given \in Gifts
    BY <2>1 DEF InputInit, NothingGiven, NoPrincipal, Gifts
  <2>4. given.hdr.n = 0 /\ given.R = NoPrincipal
    BY DEF InputInit, NothingGiven, CastHeader
  <2> QED BY <2>2, <2>3, <2>4
<1>4. /\ rd \in [hdr : Headers, todo : SUBSET EventTypes, recvd : SUBSET EventTypes, ours : BOOLEAN]
      /\ rd.recvd = {} /\ ~rd.ours
  BY DEF InputInit, NoRead, CastHeader, Headers
<1>5. InputTypes
  BY <1>1, <1>2, <1>3, <1>4 DEF InputInit, InputTypes
<1>6. ReadSoFar /\ PrincipalsMatch /\ EventWhole
  BY <1>3, <1>4 DEF InputInit, ReadSoFar, PrincipalsMatch, EventWhole, NoRead
<1>7. BuilderMode /\ NewGaveNothing /\ HeldByReader /\ ReadsOn
  BY <1>1, <1>4 DEF InputInit, BuilderMode, NewGaveNothing, HeldByReader, ReadsOn, NewProcess, DataEnded
<1>8. EventsAccounted
  BY DEF InputInit, EventsAccounted
<1> QED BY <1>5, <1>6, <1>7, <1>8 DEF InputInv

\* What a step of the process leaves alone.
LEMMA AroundUnchanged ==
  ASSUME daq' = daq
  PROVE  EventTypes' = EventTypes /\ Broadcasts' = Broadcasts /\ DataEnded' = DataEnded
BY DEF EventTypes, Broadcasts, DataEnded

\* The event builder or logger around the process, but for the end of its data.
LEMMA AroundInv ==
  ASSUME InputInv, EventComplete \/ InitArrives \/ endRun \/ endOfDataBegins \/ BufferTaken
  PROVE  InputInv'
<1>1. /\ daq' \in DaqTypes /\ daq'.kind = daq.kind /\ daq'.resume_after_timeout_ = daq.resume_after_timeout_
      /\ DataEnded' = DataEnded /\ daq'.ranOut = daq.ranOut
  <2>1. daq \in DaqTypes
    BY DEF InputInv, InputTypes
  <2>2. CASE EventComplete  BY <2>1, <2>2 DEF DaqTypes, DataEnded, InputPhases, EventComplete
  <2>3. CASE InitArrives    BY <2>1, <2>3 DEF DaqTypes, DataEnded, InputPhases, InitArrives
  <2>4. CASE endRun         BY <2>1, <2>4 DEF DaqTypes, DataEnded, InputPhases, endRun
  <2>5. CASE endOfDataBegins  BY <2>1, <2>5 DEF DaqTypes, DataEnded, InputPhases, endOfDataBegins
  <2>6. CASE BufferTaken    BY <2>1, <2>6 DEF DaqTypes, DataEnded, InputPhases, BufferTaken
  <2> QED BY <2>2, <2>3, <2>4, <2>5, <2>6
<1>2. EventTypes' = EventTypes /\ Broadcasts' = Broadcasts
  BY <1>1 DEF EventTypes, Broadcasts
<1>3. casts' \in Seq(Broadcasts) /\ cast_seen' \in 0 .. Len(casts')
  <2>1. "Init" \in Broadcasts /\ "EndOfRun" \in Broadcasts
    BY DEF Broadcasts
  <2>2. CASE casts' = casts /\ cast_seen' = cast_seen
    BY <2>2 DEF InputInv, InputTypes
  <2>3. CASE \E c \in Broadcasts : casts' = Append(casts, c) /\ cast_seen' = cast_seen
    BY <2>3, CastAppended DEF InputInv, InputTypes
  <2> QED BY <2>1, <2>2, <2>3 DEF EventComplete, InitArrives, endRun, endOfDataBegins, BufferTaken
<1>4. full' \subseteq Nat \ {0} /\ (full' # {} => full # {} \/ rd.ours \/ ~DataEnded)
  BY DEF InputInv, InputTypes, ReadSoFar, Headers, DaqTypes, DataEnded, EventComplete, InitArrives, endRun,
         endOfDataBegins, BufferTaken
<1>5. /\ rd' \in [hdr : Headers, todo : SUBSET EventTypes, recvd : SUBSET EventTypes, ours : BOOLEAN]
      /\ rd'.recvd = rd.recvd /\ rd'.todo = rd.todo /\ rd'.hdr = rd.hdr /\ (rd'.ours => rd.ours)
  BY DEF InputInv, InputTypes, EventComplete, InitArrives, endRun, endOfDataBegins, BufferTaken
<1>6. art_in' = art_in /\ given' = given /\ shown' = shown /\ binned' = binned
  BY DEF EventComplete, InitArrives, endRun, endOfDataBegins, BufferTaken
<1>7. EventsAccounted'
  <2>1. EventsAccounted /\ daq \in DaqTypes
    BY DEF InputInv, InputTypes
  <2>2. CASE EventComplete
    <3>1. daq'.events = daq.events + 1 /\ full' = full \cup {daq.events + 1} /\ rd' = rd /\ daq.events \in Nat
      BY <2>1, <2>2 DEF EventComplete, DaqTypes
    <3>2. 1 .. daq'.events = 1 .. daq.events \cup {daq.events + 1}
      BY <3>1
    <3> QED BY <1>6, <2>1, <3>1, <3>2 DEF EventsAccounted, BeingRead
  <2>3. CASE InitArrives \/ endRun \/ endOfDataBegins
    <3>1. daq'.events = daq.events /\ full' = full /\ rd' = rd
      BY <2>1, <2>3 DEF InitArrives, endRun, endOfDataBegins, DaqTypes
    <3> QED BY <1>6, <2>1, <3>1 DEF EventsAccounted, BeingRead
  <2>4. CASE BufferTaken
    <3>1. daq'.events = daq.events /\ full' = full \cup {rd.hdr.n}
      BY <2>1, <2>4 DEF BufferTaken, DaqTypes
    <3>2. Whereabouts \subseteq Whereabouts'
      BY <1>6, <3>1 DEF Whereabouts, BeingRead
    <3> QED BY <2>1, <3>1, <3>2, AccountedKept
  <2> QED BY <2>2, <2>3, <2>4
<1>8. InputTypes' /\ ReadSoFar'
  BY <1>1, <1>2, <1>3, <1>4, <1>5, <1>6 DEF InputInv, InputTypes, ReadSoFar
<1>9. BuilderMode' /\ NewGaveNothing' /\ HeldByReader' /\ ReadsOn'
  BY <1>1, <1>4, <1>5, <1>6 DEF InputInv, BuilderMode, NewGaveNothing, HeldByReader, ReadsOn
<1>10. PrincipalsMatch' /\ EventWhole'
  BY <1>1, <1>2, <1>6 DEF InputInv, PrincipalsMatch, EventWhole
<1> QED BY <1>7, <1>8, <1>9, <1>10 DEF InputInv

\* The end of the data: nothing is left in the buffers of a builder whose art reads on, or
\* the wait for them ran out; and what is thrown away is counted.
LEMMA EndInv ==
  ASSUME InputInv, endOfDataBroadcasts \/ ShutdownArtProcesses \/ endOfDataClears \/ RunArtRestarts
  PROVE  InputInv'
<1>1. /\ daq' \in DaqTypes /\ daq'.kind = daq.kind /\ daq'.resume_after_timeout_ = daq.resume_after_timeout_
      /\ EventTypes' = EventTypes /\ Broadcasts \subseteq Broadcasts' /\ daq'.events = daq.events
  <2>1. daq \in DaqTypes
    BY DEF InputInv, InputTypes
  <2>2. CASE endOfDataBroadcasts
    BY <2>1, <2>2 DEF DaqTypes, DataEnded, InputPhases, endOfDataBroadcasts, EventTypes, Broadcasts
  <2>3. CASE endOfDataClears
    BY <2>1, <2>3 DEF DaqTypes, DataEnded, InputPhases, endOfDataClears, EventTypes, Broadcasts
  <2>4. CASE RunArtRestarts
    BY <2>1, <2>4 DEF DaqTypes, DataEnded, InputPhases, RunArtRestarts, EventTypes, Broadcasts
  <2>5. CASE ShutdownArtProcesses
    BY <2>1, <2>5 DEF ShutdownArtProcesses, EventTypes, Broadcasts, DataEnded
  <2> QED BY <2>2, <2>3, <2>4, <2>5
<1>2. EventsAccounted'
  <2>1. CASE endOfDataBroadcasts \/ ShutdownArtProcesses \/ RunArtRestarts
    <3>1. UNCHANGED <<full, rd, shown, binned>>
      BY <2>1 DEF endOfDataBroadcasts, ShutdownArtProcesses, RunArtRestarts
    <3> QED BY <1>1, <3>1 DEF InputInv, EventsAccounted, BeingRead
  <2>2. CASE endOfDataClears
    <3>1. Whereabouts \subseteq Whereabouts'
      BY <2>2 DEF endOfDataClears, Whereabouts
    <3> QED BY <1>1, <3>1, AccountedKept DEF InputInv
  <2> QED BY <2>1, <2>2
<1>3. CASE endOfDataBroadcasts
  <2>1. casts \in Seq(Broadcasts') /\ "EndOfData" \in Broadcasts' /\ DataEnded' /\ ~DataEnded
    BY <1>1, <1>3, SeqMonotonic DEF endOfDataBroadcasts, InputInv, InputTypes, Broadcasts, DataEnded, DaqTypes
  <2>2. casts' \in Seq(Broadcasts') /\ cast_seen' \in 0 .. Len(casts')
    BY <1>3, <2>1, CastAppended DEF endOfDataBroadcasts, InputInv, InputTypes
  <2>3. InputTypes'
    BY <1>1, <1>3, <2>2 DEF endOfDataBroadcasts, InputInv, InputTypes
  <2>4. daq'.ranOut = (Outstanding /\ art_in.pc # "ended") /\ UNCHANGED <<full, art_in, rd, given, binned>>
    BY <1>3 DEF endOfDataBroadcasts, InputInv, InputTypes, DaqTypes
  <2>5. ReadsOn'
    BY <1>1, <2>1, <2>4 DEF InputInv, ReadsOn, Outstanding
  <2>6. ReadSoFar' /\ BuilderMode' /\ NewGaveNothing' /\ HeldByReader'
    BY <1>1, <2>1, <2>4 DEF InputInv, ReadSoFar, BuilderMode, NewGaveNothing, HeldByReader
  <2>7. PrincipalsMatch' /\ EventWhole'
    BY <1>1, <2>4 DEF InputInv, PrincipalsMatch, EventWhole
  <2> QED BY <1>2, <2>3, <2>5, <2>6, <2>7 DEF InputInv
<1>4. CASE ShutdownArtProcesses
  <2>1. DataEnded /\ UNCHANGED <<daq, full, casts, cast_seen, rd, given, binned>>
    BY <1>4 DEF ShutdownArtProcesses, DataEnded
  <2>2. /\ art_in' \in Processes /\ art_in'.pc = "ended"
        /\ art_in'.fragmentsOnlyMode_ = art_in.fragmentsOnlyMode_
    BY <1>4 DEF ShutdownArtProcesses, Ended, InputInv, InputTypes, Processes, InputPcs
  <2>3. InputTypes' /\ ReadSoFar'
    BY <2>1, <2>2, AroundUnchanged DEF InputInv, InputTypes, ReadSoFar
  <2>4. BuilderMode' /\ NewGaveNothing' /\ HeldByReader' /\ ReadsOn'
    BY <2>1, <2>2, AroundUnchanged DEF InputInv, BuilderMode, NewGaveNothing, HeldByReader, ReadsOn
  <2>5. PrincipalsMatch' /\ EventWhole'
    BY <2>1, <2>2, AroundUnchanged DEF InputInv, PrincipalsMatch, EventWhole
  <2> QED BY <1>2, <2>3, <2>4, <2>5 DEF InputInv
<1>5. CASE endOfDataClears
  <2>1. DataEnded' /\ DataEnded /\ Broadcasts' = Broadcasts /\ daq'.ranOut = daq.ranOut
    BY <1>1, <1>5 DEF endOfDataClears, InputInv, InputTypes, Broadcasts, DataEnded, DaqTypes
  <2>2. /\ NoRead \in [hdr : Headers, todo : SUBSET EventTypes, recvd : SUBSET EventTypes, ours : BOOLEAN]
        /\ rd' = NoRead /\ ~NoRead.ours /\ NoRead.recvd = {} /\ full' = {} /\ binned' = binned \cup full \cup BeingRead
        /\ UNCHANGED <<casts, cast_seen, art_in, given>>
    BY <1>5 DEF endOfDataClears, NoRead, CastHeader, Headers
  <2>3. InputTypes'
    BY <1>1, <2>1, <2>2 DEF InputInv, InputTypes
  <2>4. ReadsOn'
    BY <1>1, <2>1, <2>2 DEF InputInv, ReadsOn, BeingRead
  <2>5. ReadSoFar' /\ BuilderMode' /\ NewGaveNothing' /\ HeldByReader'
    BY <1>1, <2>2 DEF InputInv, ReadSoFar, BuilderMode, NewGaveNothing, HeldByReader
  <2>6. PrincipalsMatch' /\ EventWhole'
    BY <1>1, <2>2 DEF InputInv, PrincipalsMatch, EventWhole
  <2> QED BY <1>2, <2>3, <2>4, <2>5, <2>6 DEF InputInv
<1>6. CASE RunArtRestarts
  <2>1. ~DataEnded' /\ ~DataEnded /\ Broadcasts' = Broadcasts /\ "Init" \in Broadcasts
    BY <1>1, <1>6 DEF RunArtRestarts, InputInv, InputTypes, Broadcasts, DataEnded, DaqTypes
  <2>2. casts' \in Seq(Broadcasts) /\ cast_seen' \in 0 .. Len(casts')
    BY <1>6, <2>1, CastAppended DEF RunArtRestarts, InputInv, InputTypes
  <2>3. art_in' \in Processes /\ art_in'.pc = "init"
    BY <1>6 DEF RunArtRestarts, NewProcess, NoPrincipal, Processes, InputPcs
  <2>4. given' \in Gifts /\ given' = NothingGiven /\ given'.hdr.n = 0 /\ given'.R = NoPrincipal
    BY <1>6 DEF RunArtRestarts, NothingGiven, CastHeader, NoPrincipal, Gifts, Headers
  <2>5. InputTypes'
    BY <1>1, <1>6, <2>1, <2>2, <2>3, <2>4 DEF RunArtRestarts, InputInv, InputTypes
  <2>6. UNCHANGED <<full, rd, binned>> /\ art_in.pc = "ended"
    BY <1>6 DEF RunArtRestarts
  <2>7. NewGaveNothing' /\ PrincipalsMatch' /\ EventWhole' /\ BuilderMode'
    BY <2>3, <2>4 DEF NewGaveNothing, PrincipalsMatch, EventWhole, BuilderMode
  <2>8. ReadSoFar' /\ HeldByReader' /\ ReadsOn'
    BY <1>1, <2>1, <2>3, <2>6 DEF InputInv, ReadSoFar, HeldByReader, ReadsOn
  <2> QED BY <1>2, <2>5, <2>7, <2>8 DEF InputInv
<1> QED BY <1>3, <1>4, <1>5, <1>6

\* The process goes on after it gave something to art.
LEMMA GivesGoesOn ==
  ASSUME art_in \in Processes, NEW hdr, NEW types, NEW R \in Nat, NEW SR \in Nat \X Nat, Gives(hdr, types, R, SR)
  PROVE  art_in' \in Processes /\ art_in'.pc = "wait" /\ art_in'.fragmentsOnlyMode_ = art_in.fragmentsOnlyMode_
<1>1. "wait" \in InputPcs
  BY DEF InputPcs
<1> QED BY <1>1 DEF Gives, Processes

\* What art gets of the Fragments of an event or of a broadcast: the principals of its
\* header, and all types of the event, if the process is in the mode of its application; and an
\* event that was read counts as given.
\* Only the end of the data ends a process that reads Fragments.
LEMMA GiftRight ==
  ASSUME InputInv, NEW hdr \in Headers, NEW types, readNext(types, hdr), art_in.pc \in {"wait", "types"},
         \/ types = EventTypes
         \/ hdr.n = 0 /\ \E c \in Broadcasts : types = {c}
  PROVE  /\ art_in' \in Processes /\ art_in'.pc \in {"wait", "ended"}
         /\ art_in'.fragmentsOnlyMode_ = art_in.fragmentsOnlyMode_
         /\ given' \in Gifts /\ PrincipalsMatch'
         /\ given'.hdr.n # 0 /\ (daq.kind = "builder" \/ ~art_in.fragmentsOnlyMode_) => given'.types = EventTypes
         /\ art_in'.pc = "ended" => ~art_in.fragmentsOnlyMode_ \/ types = {"EndOfData"}
         /\ shown \subseteq shown'
         /\ types = EventTypes /\ hdr.n # 0 => hdr.n \in shown'
<1>1. art_in \in Processes /\ given \in Gifts /\ PrincipalsMatch /\ EventWhole
  BY DEF InputInv, InputTypes
<1>2. SubrunPrincipal(hdr) = <<hdr.run, hdr.subrun>> /\ RunPrincipal(hdr) = hdr.run
  BY DEF SubrunPrincipal, RunPrincipal
<1>3. CASE \E why \in {"EndOfData", "no Data"} :
             Ends(why) /\ (~art_in.fragmentsOnlyMode_ \/ types = {"EndOfData"}) /\ types # EventTypes
  BY <1>1, <1>3 DEF Ends, Ended, Processes, InputPcs, PrincipalsMatch, EventWhole
<1>4. CASE types = {"EndOfRun"} /\ Gives(CastHeader, {}, Flush, <<Flush, Flush>>) /\ types # EventTypes
  <2>1. art_in' \in Processes /\ art_in'.pc = "wait" /\ art_in'.fragmentsOnlyMode_ = art_in.fragmentsOnlyMode_
    BY <1>1, <1>4, GivesGoesOn DEF Flush
  <2>2. given' \in Gifts /\ given'.hdr.n = 0 /\ given'.R = Flush
    BY <1>4 DEF Gives, CastHeader, Gifts, Headers, Flush
  <2>3. shown \subseteq shown'
    BY <1>4 DEF Gives
  <2> QED BY <1>4, <2>1, <2>2, <2>3 DEF PrincipalsMatch
<1>5. CASE \E ts \in SUBSET {"A", "B", "Data"} :
             /\ Gives(hdr, ts, RunPrincipal(hdr), SubrunPrincipal(hdr))
             /\ hdr.n # 0 /\ (daq.kind = "builder" \/ ~art_in.fragmentsOnlyMode_) => ts = EventTypes
  <2>1. art_in' \in Processes /\ art_in'.pc = "wait" /\ art_in'.fragmentsOnlyMode_ = art_in.fragmentsOnlyMode_
    BY <1>1, <1>2, <1>5, GivesGoesOn DEF Headers
  <2>2. /\ given' \in Gifts
        /\ given'.hdr = hdr /\ given'.R = hdr.run /\ given'.SR = <<hdr.run, hdr.subrun>>
        /\ hdr.n # 0 /\ (daq.kind = "builder" \/ ~art_in.fragmentsOnlyMode_) => given'.types = EventTypes
    BY <1>2, <1>5 DEF Gives, Gifts, Headers
  <2>3. shown \subseteq shown' /\ (hdr.n # 0 => hdr.n \in shown')
    BY <1>5 DEF Gives, CastHeader
  <2> QED BY <2>1, <2>2, <2>3 DEF PrincipalsMatch
<1>6. types \ SystemTypes \in SUBSET {"A", "B", "Data"} /\ ("Data" \in types => types \in SUBSET {"A", "B", "Data"})
  BY DEF EventTypes, Broadcasts, SystemTypes
<1>7. daq.kind = "builder" => art_in.fragmentsOnlyMode_ /\ EventTypes \ SystemTypes = EventTypes
  BY DEF InputInv, BuilderMode, EventTypes, SystemTypes
<1>8. /\ {"EndOfData"} # EventTypes /\ {"EndOfRun"} # EventTypes
      /\ daq.kind # "builder" => "Data" \in EventTypes
  BY DEF EventTypes
<1>9. CASE art_in.fragmentsOnlyMode_
  BY <1>3, <1>4, <1>5, <1>6, <1>7, <1>8, <1>9 DEF readNext, constructPrincipal
<1>10. CASE ~art_in.fragmentsOnlyMode_
  BY <1>3, <1>5, <1>6, <1>7, <1>8, <1>10 DEF readNext, readAndConstructPrincipal
<1> QED BY <1>9, <1>10

\* Before the Init Fragment: nothing is given to art, and the mode is chosen.
LEMMA BeginningInv ==
  ASSUME InputInv, receiveInitMessage \/ InitTimeout
  PROVE  InputInv'
<1>1. art_in \in Processes /\ art_in.pc = "init" /\ given = NothingGiven /\ daq' = daq
      /\ UNCHANGED <<full, casts, rd, given, shown, binned>>
  BY DEF InputInv, InputTypes, NewGaveNothing, receiveInitMessage, InitTimeout
<1>2. cast_seen' \in 0 .. Len(casts) /\ (cast_seen < Len(casts) => casts[cast_seen + 1] \in Broadcasts)
  BY CastTypes DEF InputInv, InputTypes, receiveInitMessage, InitTimeout
<1>3. /\ art_in' \in Processes
      /\ art_in'.pc = "ended" => DataEnded
      /\ daq.kind = "builder" => (art_in'.pc = "wait" /\ art_in'.fragmentsOnlyMode_) \/ art_in'.pc \in {"init", "ended"}
  <2>1. CASE receiveInitMessage
    <3>1. CASE casts[cast_seen + 1] = "EndOfData"
      BY <1>1, <1>2, <2>1, <3>1 DEF receiveInitMessage, Ended, Processes, InputPcs, Broadcasts
    <3>2. CASE casts[cast_seen + 1] = "Init"
      BY <1>1, <2>1, <3>2 DEF receiveInitMessage, Processes, InputPcs
    <3>3. CASE casts[cast_seen + 1] \notin {"EndOfData", "Init"}
      BY <1>1, <2>1, <3>3 DEF receiveInitMessage
    <3> QED BY <3>1, <3>2, <3>3
  <2>2. CASE InitTimeout
    BY <1>1, <2>2 DEF InitTimeout, Processes, InputPcs
  <2> QED BY <2>1, <2>2
<1>4. InputTypes'
  BY <1>1, <1>2, <1>3, AroundUnchanged DEF InputInv, InputTypes
<1>5. BuilderMode' /\ NewGaveNothing' /\ HeldByReader' /\ ReadsOn'
  BY <1>1, <1>3, AroundUnchanged DEF InputInv, BuilderMode, NewGaveNothing, HeldByReader, ReadsOn
<1>6. PrincipalsMatch' /\ EventWhole' /\ ReadSoFar'
  BY <1>1, AroundUnchanged
  DEF InputInv, PrincipalsMatch, EventWhole, ReadSoFar, NothingGiven, CastHeader, NoPrincipal
<1>7. EventsAccounted'
  BY <1>1 DEF InputInv, EventsAccounted, BeingRead
<1> QED BY <1>4, <1>5, <1>6, <1>7 DEF InputInv

\* A step that gives art what it read: a broadcast or an event.
LEMMA GivingInv ==
  ASSUME InputInv, ReadBroadcast \/ (ReadEvent /\ rd.recvd # {})
  PROVE  InputInv'
<1>1. art_in.pc \in {"wait", "types"} /\ art_in.pc # "init" /\ daq' = daq /\ UNCHANGED <<full, casts, binned>>
  BY DEF ReadBroadcast, ReadEvent
<1>2. cast_seen' \in 0 .. Len(casts)
  BY CastTypes DEF InputInv, InputTypes, ReadBroadcast, ReadEvent
<1>3. /\ rd' \in [hdr : Headers, todo : SUBSET EventTypes, recvd : SUBSET EventTypes, ours : BOOLEAN]
      /\ ReadSoFar' /\ (rd'.ours => rd.ours)
  <2>1. CASE ReadBroadcast
    BY <2>1, AroundUnchanged DEF InputInv, InputTypes, ReadBroadcast, ReadSoFar
  <2>2. CASE ReadEvent
    BY <2>2 DEF ReadEvent, ReadSoFar, NoRead, CastHeader, Headers
  <2> QED BY <2>1, <2>2
<1>4. PICK hdr \in Headers, types \in SUBSET (EventTypes \cup Broadcasts) :
        /\ readNext(types, hdr)
        /\ \/ types = EventTypes /\ hdr = rd.hdr /\ ~rd'.ours
           \/ hdr.n = 0 /\ rd' = rd /\ \E c \in Broadcasts : types = {c}
  <2>1. CASE ReadBroadcast
    BY <2>1, CastTypes DEF InputInv, InputTypes, ReadBroadcast, CastHeader, Headers
  <2>2. CASE ReadEvent /\ rd.recvd # {}
    BY <2>2 DEF InputInv, InputTypes, ReadEvent, ReadSoFar, NoRead
  <2> QED BY <2>1, <2>2
<1>5. /\ art_in' \in Processes /\ art_in'.pc \in {"wait", "ended"}
      /\ art_in'.fragmentsOnlyMode_ = art_in.fragmentsOnlyMode_
      /\ given' \in Gifts /\ PrincipalsMatch'
      /\ given'.hdr.n # 0 /\ (daq.kind = "builder" \/ ~art_in.fragmentsOnlyMode_) => given'.types = EventTypes
      /\ art_in'.pc = "ended" => ~art_in.fragmentsOnlyMode_ \/ types = {"EndOfData"}
      /\ shown \subseteq shown'
      /\ types = EventTypes /\ hdr.n # 0 => hdr.n \in shown'
  BY <1>1, <1>4, GiftRight
<1>6. daq.kind = "builder" => art_in.fragmentsOnlyMode_ /\ (art_in'.pc = "ended" => DataEnded)
  <2>1. daq.kind = "builder" => art_in.fragmentsOnlyMode_
    BY <1>1 DEF InputInv, BuilderMode
  <2>2. types = {"EndOfData"} => DataEnded
    BY <1>4 DEF EventTypes, Broadcasts
  <2> QED BY <1>5, <2>1, <2>2
<1>7. InputTypes'
  BY <1>1, <1>2, <1>3, <1>5, AroundUnchanged DEF InputInv, InputTypes
<1>8. BuilderMode' /\ NewGaveNothing' /\ ReadsOn' /\ EventWhole'
  BY <1>1, <1>3, <1>5, <1>6, AroundUnchanged DEF InputInv, BuilderMode, NewGaveNothing, ReadsOn, EventWhole
<1>9. ~rd'.ours
  BY <1>1, <1>4 DEF InputInv, HeldByReader, ReadBroadcast, ReadEvent, NoRead
<1>10. EventsAccounted'
  <2>1. BeingRead \subseteq shown'
    BY <1>4, <1>5, <1>9 DEF BeingRead, InputInv, ReadSoFar
  <2>2. Whereabouts \subseteq Whereabouts'
    BY <1>1, <1>5, <2>1 DEF Whereabouts
  <2> QED BY <1>1, <2>2, AccountedKept DEF InputInv
<1> QED BY <1>3, <1>5, <1>7, <1>8, <1>9, <1>10 DEF InputInv, HeldByReader

\* The read of an event, as far as art gets nothing.
LEMMA ReadingInv ==
  ASSUME InputInv, TakeBuffer \/ ReadHeader \/ ReadType \/ (ReadEvent /\ rd.recvd = {}) \/ ReadTimeout
  PROVE  InputInv'
<1>1. daq' = daq /\ UNCHANGED <<casts, cast_seen, shown, binned>> /\ given' = given /\ art_in \in Processes
  BY DEF InputInv, InputTypes, TakeBuffer, ReadHeader, ReadType, ReadEvent, ReadTimeout, Ends
<1>2. /\ art_in.pc \in {"wait", "header", "types"}
      /\ art_in' \in Processes /\ art_in'.fragmentsOnlyMode_ = art_in.fragmentsOnlyMode_
      /\ art_in'.pc # "init" /\ (art_in'.pc = "ended" => ~daq.resume_after_timeout_)
  BY <1>1 DEF TakeBuffer, ReadHeader, ReadType, ReadEvent, ReadTimeout, Ends, Ended, Processes, InputPcs
<1>3. full' \subseteq full
  BY DEF TakeBuffer, ReadHeader, ReadType, ReadEvent, ReadTimeout
<1>4. /\ rd' \in [hdr : Headers, todo : SUBSET EventTypes, recvd : SUBSET EventTypes, ours : BOOLEAN]
      /\ ReadSoFar' /\ (rd'.ours => rd.ours \/ full # {})
  <2>1. CASE TakeBuffer
    <3>1. PICK n \in full : rd' = [hdr |-> Header(n), todo |-> EventTypes, recvd |-> {}, ours |-> TRUE]
      BY <2>1 DEF TakeBuffer
    <3>2. Header(n) \in Headers /\ Header(n).n # 0
      BY SubrunIsNat DEF InputInv, InputTypes, Header, Headers
    <3> QED BY <1>1, <3>1, <3>2, AroundUnchanged DEF ReadSoFar
  <2>2. CASE ReadType
    <3>1. PICK t \in rd.todo : GetFragmentsByType(t)
      BY <2>2 DEF ReadType
    <3>2. rd \in [hdr : Headers, todo : SUBSET EventTypes, recvd : SUBSET EventTypes, ours : BOOLEAN] /\ ReadSoFar
      BY DEF InputInv, InputTypes
    <3>3. /\ rd'.hdr = rd.hdr /\ rd'.ours = rd.ours /\ rd'.todo = rd.todo \ {t}
          /\ rd'.recvd = IF rd.ours THEN rd.recvd \cup {t} ELSE {}
      BY <3>1, <3>2 DEF GetFragmentsByType
    <3>4. rd' \in [hdr : Headers, todo : SUBSET EventTypes, recvd : SUBSET EventTypes, ours : BOOLEAN]
      BY <3>1, <3>2 DEF GetFragmentsByType
    <3>5. EventTypes' = EventTypes
      BY <1>1, AroundUnchanged
    <3>6. ReadSoFar'
      BY <3>2, <3>3, <3>5 DEF ReadSoFar
    <3> QED BY <3>3, <3>4, <3>6
  <2>3. CASE rd' = rd
    BY <1>1, <2>3, AroundUnchanged DEF InputInv, InputTypes, ReadSoFar
  <2>4. CASE rd' = NoRead
    <3>1. NoRead \in [hdr : Headers, todo : SUBSET EventTypes, recvd : SUBSET EventTypes, ours : BOOLEAN]
      BY DEF NoRead, CastHeader, Headers
    <3> QED BY <2>4, <3>1 DEF NoRead, ReadSoFar
  <2> QED BY <2>1, <2>2, <2>3, <2>4 DEF ReadHeader, ReadEvent, ReadTimeout
<1>5. InputTypes'
  BY <1>1, <1>2, <1>3, <1>4, AroundUnchanged DEF InputInv, InputTypes
<1>6. BuilderMode' /\ NewGaveNothing' /\ ReadsOn'
  BY <1>1, <1>2, <1>3, <1>4, AroundUnchanged DEF InputInv, BuilderMode, NewGaveNothing, ReadsOn
<1>7. PrincipalsMatch' /\ EventWhole'
  BY <1>1, <1>2, AroundUnchanged DEF InputInv, PrincipalsMatch, EventWhole
<1>8. HeldByReader' /\ full \cup BeingRead \subseteq full' \cup BeingRead'
  <2>1. CASE TakeBuffer
    <3>1. PICK n \in full : rd' = [hdr |-> Header(n), todo |-> EventTypes, recvd |-> {}, ours |-> TRUE] /\ full' = full \ {n}
      BY <2>1 DEF TakeBuffer
    <3>2. ~rd.ours /\ art_in'.pc = "header"
      BY <1>1, <2>1 DEF TakeBuffer, InputInv, HeldByReader, Processes
    <3> QED BY <3>1, <3>2 DEF HeldByReader, BeingRead, Header
  <2>2. CASE ReadHeader
    BY <1>1, <2>2, AroundUnchanged DEF ReadHeader, InputInv, HeldByReader, BeingRead, NoRead, Processes
  <2>3. CASE ReadType
    <3>1. rd'.hdr = rd.hdr /\ rd'.ours = rd.ours /\ UNCHANGED <<full, art_in>>
      BY <2>3 DEF ReadType, GetFragmentsByType, InputInv, InputTypes
    <3> QED BY <1>1, <3>1, AroundUnchanged DEF InputInv, HeldByReader, BeingRead
  <2>4. CASE ReadEvent /\ rd.recvd = {}
    <3>1. EventTypes # {}
      BY DEF EventTypes
    <3>2. ~rd.ours /\ rd' = NoRead /\ full' = full
      BY <2>4, <3>1 DEF ReadEvent, InputInv, ReadSoFar
    <3> QED BY <3>2 DEF HeldByReader, BeingRead, NoRead
  <2>5. CASE ReadTimeout
    <3>1. ~rd.ours /\ UNCHANGED <<full, rd>>
      BY <2>5 DEF ReadTimeout, InputInv, HeldByReader
    <3> QED BY <3>1 DEF HeldByReader, BeingRead
  <2> QED BY <2>1, <2>2, <2>3, <2>4, <2>5
<1>9. EventsAccounted'
  <2>1. Whereabouts \subseteq Whereabouts'
    BY <1>1, <1>8 DEF Whereabouts
  <2> QED BY <1>1, <2>1, AccountedKept DEF InputInv
<1> QED BY <1>4, <1>5, <1>6, <1>7, <1>8, <1>9 DEF InputInv

\* art is given the events of the run, each whole and under its own run and subrun, though
\* buffers are taken away while they are read and runs, subruns and art processes end; every
\* event was given to it, is still in a buffer or is one that endOfData threw away; and it throws
\* away none of a builder whose art reads on after timeouts, unless its wait for the buffers,
\* by default a second for each, ran out.
THEOREM ArtAlwaysSeesEvents == InputSpec => []ArtSeesEvents
<1>1. InputInv /\ [InputNext]_inputVars => InputInv'
  <2> SUFFICES ASSUME InputInv, [InputNext]_inputVars PROVE InputInv'
    OBVIOUS
  <2>1. CASE UNCHANGED inputVars
    BY <2>1 DEF inputVars, InputInv, InputTypes, ReadSoFar, BuilderMode, NewGaveNothing, HeldByReader, ReadsOn,
                PrincipalsMatch, EventWhole, EventsAccounted, BeingRead, EventTypes, Broadcasts, DataEnded
  <2> QED BY <2>1, AroundInv, EndInv, BeginningInv, GivingInv, ReadingInv DEF InputNext
<1>2. InputInv => ArtSeesEvents
  BY DEF InputInv, ArtSeesEvents, NothingBinned, ReadsOn
<1> QED BY <1>1, <1>2, InputInitInv, PTL DEF InputSpec

-----------------------------------------------------------------------------
(* The output to a logger.  Unless outputs select events, an Init message  *)
(* follows the first event and names all the products its sender may send; *)
(* the logger reads events after it has the Init messages of all senders.  *)

Products == UNION {Registered[s] : s \in Senders}

Outputs == [productList_ : SUBSET Products, initMsgSent_ : BOOLEAN, last_sequence_id_ : Int, subrun : Int,
            shown : BOOLEAN, highest : Int]
Loggers == [inits : SUBSET Senders, productList_ : SUBSET Products, threw : BOOLEAN,
            boundaries : SUBSET [at : Int, highest : Int]]

\* The Init messages that may be under way from a sender, and the other messages.
Inits(s) == [type : {"Init"}, products : {p \in SUBSET Products : selects \/ Registered[s] \subseteq p}]
Datas(s) == [type : {"Data"}, seq : Int, products : SUBSET Registered[s]]
Subruns(s) == {m \in [type : {"EndOfSubrun"}, seq : Int, highest : Int] : m.seq > m.highest}
Messages(s) == Inits(s) \cup Datas(s) \cup Subruns(s)

OutputInv ==
  /\ out \in [Senders -> Outputs] /\ logger \in Loggers
  /\ DOMAIN owire = Senders /\ \A s \in Senders : owire[s] \in Seq(Messages(s))
  /\ \A s \in Senders :
       /\ out[s].highest <= out[s].last_sequence_id_
       /\ ~selects /\ out[s].shown => out[s].initMsgSent_
  /\ ~selects => \A s \in logger.inits : Registered[s] \subseteq logger.productList_
  /\ LoggerFollows

LEMMA RegisteredProducts == \A s \in Senders : Registered[s] \subseteq Products
BY DEF Products

LEMMA OutputInitInv == OutputInit => OutputInv
<1> SUFFICES ASSUME OutputInit PROVE OutputInv
  OBVIOUS
<1>1. out \in [Senders -> Outputs] /\ \A s \in Senders : ~out[s].shown /\ out[s].highest = out[s].last_sequence_id_
  BY DEF OutputInit, Outputs
<1>2. logger \in Loggers
  BY DEF OutputInit, Loggers
<1>3. DOMAIN owire = Senders /\ \A s \in Senders : owire[s] \in Seq(Messages(s))
  BY DEF OutputInit
<1> QED BY <1>1, <1>2, <1>3 DEF OutputInit, OutputInv, LoggerFollows, ProductsKnown, BoundaryPastEvents, Outputs

\* An Init message, if one is sent, and another message of a sender.
LEMMA Sends ==
  ASSUME NEW s \in Senders, NEW m \in Messages(s), owire[s] = <<>>,
         NEW products \in SUBSET Products, out[s].initMsgSent_ \/ selects \/ Registered[s] \subseteq products
  PROVE  /\ owire[s] \o InitMessage(s, products) \o <<m>> \in Seq(Messages(s))
         /\ owire[s] \o InitMessage(s, products) \in Seq(Messages(s))
<1>1. CASE out[s].initMsgSent_
  BY <1>1 DEF InitMessage
<1>2. CASE ~out[s].initMsgSent_
  <2>1. [type |-> "Init", products |-> products] \in Messages(s)
    BY <1>2 DEF Messages, Inits
  <2> QED BY <1>2, <2>1 DEF InitMessage
<1> QED BY <1>1, <1>2

LEMMA WriteEventInv ==
  ASSUME OutputInv, NEW s \in Senders, WriteEvent(s)
  PROVE  OutputInv'
<1>1. PICK e \in 1 .. OutEvents, available \in SUBSET Registered[s] :
        LET seqID    == SeqID(out[s].subrun, e)
            products == extractProducts_(s, available)
        IN  /\ owire' = [owire EXCEPT ![s] = @ \o InitMessage(s, products) \o
                           <<[type |-> "Data", seq |-> seqID, products |-> writeDataProducts(s, available)]>>]
            /\ out' = [out EXCEPT ![s].initMsgSent_ = TRUE, ![s].productList_ = products,
                                  ![s].last_sequence_id_ = Greatest(@, seqID),
                                  ![s].highest = IF seqID > @ THEN seqID ELSE @, ![s].shown = TRUE]
  BY DEF WriteEvent
<1>2. owire[s] = <<>> /\ UNCHANGED <<kept, selects, logger>> /\ out[s] \in Outputs
  BY DEF WriteEvent, OutputInv
<1> DEFINE seqID == SeqID(out[s].subrun, e)
           products == extractProducts_(s, available)
<1>3. seqID \in Int
  <2>1. 2 ^ 4 \in Int
    OBVIOUS
  <2>2. out[s].subrun \in Int /\ e \in Int
    BY <1>2, ArtOutputAssumption DEF Outputs
  <2> QED BY <2>1, <2>2 DEF SeqID
<1>4. products \in SUBSET Products /\ Registered[s] \subseteq products
  BY <1>2, RegisteredProducts DEF extractProducts_, Outputs
<1> HIDE DEF products, seqID
<1>5. [type |-> "Data", seq |-> seqID, products |-> writeDataProducts(s, available)] \in Messages(s)
  BY <1>3 DEF writeDataProducts, Messages, Datas
<1>6. DOMAIN owire' = Senders /\ \A r \in Senders : owire'[r] \in Seq(Messages(r))
  BY <1>1, <1>2, <1>4, <1>5, Sends DEF OutputInv, products, seqID
<1>7. out' \in [Senders -> Outputs] /\ \A r \in Senders :
        /\ out'[r].highest <= out'[r].last_sequence_id_
        /\ ~selects /\ out'[r].shown => out'[r].initMsgSent_
  <2>1. out' = [out EXCEPT ![s] = [out[s] EXCEPT !.initMsgSent_ = TRUE, !.productList_ = products,
                                    !.last_sequence_id_ = Greatest(out[s].last_sequence_id_, seqID),
                                    !.highest = IF seqID > out[s].highest THEN seqID ELSE out[s].highest, !.shown = TRUE]]
    BY <1>1 DEF products, seqID
  <2>2. /\ out'[s] \in Outputs /\ out'[s].initMsgSent_
        /\ out'[s].highest <= out'[s].last_sequence_id_
    <3> DEFINE last == Greatest(out[s].last_sequence_id_, seqID)
               high == IF seqID > out[s].highest THEN seqID ELSE out[s].highest
    <3>1. out[s].last_sequence_id_ \in Int /\ out[s].highest \in Int /\ out[s].highest <= out[s].last_sequence_id_
      BY <1>2 DEF OutputInv, Outputs
    <3>2. last \in Int /\ high \in Int /\ high <= last
      BY <1>3, <3>1 DEF Greatest
    <3>3. out'[s] = [out[s] EXCEPT !.initMsgSent_ = TRUE, !.productList_ = products,
                                   !.last_sequence_id_ = last, !.highest = high, !.shown = TRUE]
      BY <2>1 DEF OutputInv
    <3> HIDE DEF last, high
    <3> QED BY <1>2, <1>4, <3>2, <3>3 DEF Outputs
  <2> QED BY <2>1, <2>2 DEF OutputInv
<1>8. \A r \in Senders : Messages(r)' = Messages(r)
  BY <1>2 DEF Messages, Inits, Datas, Subruns
<1> QED BY <1>2, <1>6, <1>7, <1>8 DEF OutputInv, LoggerFollows, ProductsKnown, BoundaryPastEvents

\* The end of a subrun or of the run: its Init message is the first one only if no event was
\* shown to the output, and then it selects events.
LEMMA WriteEndInv ==
  ASSUME OutputInv, NEW s \in Senders, writeSubRun(s) \/ writeRun(s)
  PROVE  OutputInv'
<1>1. /\ out[s].shown \/ selects
      /\ UNCHANGED <<kept, selects, logger>> /\ out[s] \in Outputs
      /\ out[s].highest <= out[s].last_sequence_id_
  BY DEF writeSubRun, writeRun, OutputInv
<1>2. out[s].initMsgSent_ \/ selects
  BY <1>1 DEF OutputInv
<1>3. \A r \in Senders : Messages(r)' = Messages(r)
  BY <1>1 DEF Messages, Inits, Datas, Subruns
<1>4. CASE writeSubRun(s)
  <2> DEFINE boundary == out[s].last_sequence_id_ + 1
  <2>1. boundary \in Int /\ boundary > out[s].highest /\ out[s].subrun + 1 \in Int
    BY <1>1 DEF Outputs
  <2>2. [type |-> "EndOfSubrun", seq |-> boundary, highest |-> out[s].highest] \in Messages(s)
    BY <1>1, <2>1 DEF Messages, Subruns, Outputs
  <2>3. DOMAIN owire' = Senders /\ \A r \in Senders : owire'[r] \in Seq(Messages(r))
    BY <1>1, <1>2, <1>4, <2>2, Sends DEF OutputInv, writeSubRun, Outputs
  <2>4. out' \in [Senders -> Outputs] /\ \A r \in Senders :
          /\ out'[r].highest <= out'[r].last_sequence_id_
          /\ ~selects /\ out'[r].shown => out'[r].initMsgSent_
    <3>1. out' = [out EXCEPT ![s] = [out[s] EXCEPT !.initMsgSent_ = TRUE, !.last_sequence_id_ = boundary,
                                                   !.subrun = out[s].subrun + 1]]
      BY <1>4 DEF writeSubRun
    <3>2. out'[s] \in Outputs /\ out'[s].initMsgSent_ /\ out'[s].highest <= out'[s].last_sequence_id_
      <4>1. out'[s] = [out[s] EXCEPT !.initMsgSent_ = TRUE, !.last_sequence_id_ = boundary,
                                     !.subrun = out[s].subrun + 1]
        BY <3>1 DEF OutputInv
      <4>2. boundary >= out[s].highest
        BY <1>1, <2>1 DEF Outputs
      <4> HIDE DEF boundary
      <4> QED BY <1>1, <2>1, <4>1, <4>2 DEF Outputs
    <3> QED BY <3>1, <3>2 DEF OutputInv
  <2> QED BY <1>1, <1>3, <2>3, <2>4 DEF OutputInv, LoggerFollows, ProductsKnown, BoundaryPastEvents
<1>5. CASE writeRun(s)
  <2>1. selects
    BY <1>2, <1>5 DEF writeRun
  <2>2. [type |-> "Init", products |-> out[s].productList_] \in Messages(s)
    BY <1>1, <2>1 DEF Messages, Inits, Outputs
  <2>3. DOMAIN owire' = Senders /\ \A r \in Senders : owire'[r] \in Seq(Messages(r))
    BY <1>5, <2>2 DEF OutputInv, writeRun, InitMessage
  <2>4. out' \in [Senders -> Outputs] /\ \A r \in Senders :
          /\ out'[r].highest <= out'[r].last_sequence_id_
          /\ ~selects /\ out'[r].shown => out'[r].initMsgSent_
    <3>1. out' = [out EXCEPT ![s] = [out[s] EXCEPT !.initMsgSent_ = TRUE]]
      BY <1>5 DEF writeRun
    <3>2. out'[s] = [out[s] EXCEPT !.initMsgSent_ = TRUE]
      BY <3>1 DEF OutputInv
    <3>3. out'[s] \in Outputs /\ out'[s].initMsgSent_ /\ out'[s].highest <= out'[s].last_sequence_id_
      BY <1>1, <3>2 DEF Outputs
    <3> QED BY <3>1, <3>3 DEF OutputInv
  <2> QED BY <1>1, <1>3, <2>3, <2>4 DEF OutputInv, LoggerFollows, ProductsKnown, BoundaryPastEvents
<1> QED BY <1>4, <1>5

\* The logger knows the products of an event, for it has the Init message of its sender.
LEMMA ReceiveInv ==
  ASSUME OutputInv, NEW s \in Senders, Receive(s)
  PROVE  OutputInv'
<1>1. owire[s] \in Seq(Messages(s)) /\ owire[s] # <<>> /\ UNCHANGED <<kept, selects, out>> /\ logger \in Loggers
  BY DEF Receive, OutputInv
<1>2. Head(owire[s]) \in Messages(s) /\ Tail(owire[s]) \in Seq(Messages(s))
  BY <1>1, HeadTailProperties
<1>3. \A r \in Senders : Messages(r)' = Messages(r)
  BY <1>1 DEF Messages, Inits, Datas, Subruns
<1>4. DOMAIN owire' = Senders /\ \A r \in Senders : owire'[r] \in Seq(Messages(r))
  BY <1>2 DEF Receive, OutputInv
<1> DEFINE msg == Head(owire[s])
<1>5. /\ logger' \in Loggers
      /\ logger'.threw => selects
      /\ \A b \in logger'.boundaries : b.at > b.highest
      /\ ~selects => \A r \in logger'.inits : Registered[r] \subseteq logger'.productList_
  <2>0. /\ logger.threw => selects
        /\ \A b \in logger.boundaries : b.at > b.highest
        /\ ~selects => \A r \in logger.inits : Registered[r] \subseteq logger.productList_
    BY DEF OutputInv, LoggerFollows, ProductsKnown, BoundaryPastEvents
  <2>1. CASE msg.type = "Init" /\ logger' = [logger EXCEPT !.inits = @ \cup {s}, !.productList_ = Merged(@, msg.products)]
    <3>1. msg \in Inits(s)
      BY <1>2, <2>1 DEF Messages, Datas, Subruns
    <3> QED BY <1>1, <2>0, <2>1, <3>1 DEF Inits, Merged, Loggers
  <2>2. CASE /\ msg.type = "Data" /\ logger.inits = Senders
             /\ logger' = [logger EXCEPT !.threw = ~ msg.products \subseteq logger.productList_]
    <3>1. msg \in Datas(s)
      BY <1>2, <2>2 DEF Messages, Inits, Subruns
    <3> QED BY <1>1, <2>0, <2>2, <3>1 DEF Datas, Loggers
  <2>3. CASE /\ msg.type = "EndOfSubrun"
             /\ logger' = [logger EXCEPT !.boundaries = {[at |-> msg.seq, highest |-> msg.highest]}]
    <3>1. msg \in Subruns(s)
      BY <1>2, <2>3 DEF Messages, Datas, Inits
    <3> QED BY <1>1, <2>0, <2>3, <3>1 DEF Subruns, Loggers
  <2> QED BY <2>1, <2>2, <2>3 DEF Receive
<1> QED BY <1>1, <1>3, <1>4, <1>5 DEF OutputInv, LoggerFollows, ProductsKnown, BoundaryPastEvents

\* The logger knows every product it is sent, unless the outputs select events, and a subrun
\* ends past all its events, for any number of senders with whatever products.
THEOREM LoggerAlwaysFollows == OutputSpec => []LoggerFollows
<1>1. OutputInv /\ [OutputNext]_outputVars => OutputInv'
  <2> SUFFICES ASSUME OutputInv, [OutputNext]_outputVars PROVE OutputInv'
    OBVIOUS
  <2>1. CASE UNCHANGED outputVars
    BY <2>1 DEF outputVars, OutputInv, Messages, Inits, Datas, Subruns, LoggerFollows, ProductsKnown, BoundaryPastEvents
  <2> QED BY <2>1, WriteEventInv, WriteEndInv, ReceiveInv DEF OutputNext
<1>2. OutputInv => LoggerFollows
  BY DEF OutputInv
<1> QED BY <1>1, <1>2, OutputInitInv, PTL DEF OutputSpec

-----------------------------------------------------------------------------
(* The monitor.  All messages under way to a registered monitor are of one *)
(* run, that of its last registration; once it has an Init message, it is  *)
(* of that run, and it has to register again before it gets another's.     *)

MessageTypes == {"Init", "Data", "EndOfSubrun", "EndOfData"}
Dispatchers == [status : {"Ready", "Running", "busy"}, run : Int]
SendersOf == [state : {"none", "started", "sending", "ending"}, run : Int, events : Int]
Monitors == [registered : BOOLEAN, initialized : BOOLEAN, fragments_received : Int, closed : BOOLEAN,
             why : MessageTypes \cup {"none", "not registered", "DATA_END", "throw"}]
MessagesOf(runs) == [type : MessageTypes, run : runs]

MonitorTypes ==
  /\ mconf \in [wrapper : {"transfer", "listen"}, multi_run_mode_ : BOOLEAN]
  /\ disp \in Dispatchers /\ sender \in SendersOf /\ mon \in Monitors
  /\ mwire \in Seq(MessagesOf(Int))
  /\ handed \in [type : MessageTypes \cup {"none"}, run : Int, inits : SUBSET Int]

\* r is the run a registered monitor gets messages of.
RunIs(r) ==
  /\ mwire \in Seq(MessagesOf({r}))
  /\ sender.state # "none" => sender.run = r
  /\ mon.initialized => r \in handed.inits

MonitorInv ==
  /\ MonitorTypes
  /\ mconf.wrapper = "transfer" =>
       /\ \E r \in Int : RunIs(r)
       /\ mon.initialized => mon.registered
  /\ mconf.wrapper = "listen" => mon.initialized \/ mon.closed \/ handed.type = "none"
  /\ MonitorsFollow

LEMMA MonitorInitInv == MonitorInit => MonitorInv
<1> SUFFICES ASSUME MonitorInit PROVE MonitorInv
  OBVIOUS
<1>1. disp \in Dispatchers /\ sender \in SendersOf /\ mon \in Monitors
  BY DEF MonitorInit, Dispatchers, SendersOf, Monitors, Silent
<1>2. mwire = <<>> /\ <<>> \in Seq(MessagesOf(Int)) /\ <<>> \in Seq(MessagesOf({0}))
  BY DEF MonitorInit
<1>3. /\ handed \in [type : MessageTypes \cup {"none"}, run : Int, inits : SUBSET Int]
      /\ handed.type = "none" /\ mon.why = "none" /\ ~mon.initialized /\ sender.state = "none"
  BY DEF MonitorInit, Silent
<1>4. MonitorTypes
  BY <1>1, <1>2, <1>3 DEF MonitorInit, MonitorTypes
<1>5. RunIs(0) /\ 0 \in Int
  BY <1>2, <1>3 DEF RunIs
<1>6. MonitorsFollow
  BY <1>3 DEF MonitorsFollow, InitBeforeEvents, ListenerLives
<1> QED BY <1>3, <1>4, <1>5, <1>6 DEF MonitorInv

\* The Dispatcher starts no art process for a monitor that has to register.
LEMMA DispatcherInv ==
  ASSUME MonitorInv, DispatcherStarts \/ DispatcherStops \/ DispatcherStopped
  PROVE  MonitorInv'
<1>1. UNCHANGED <<mconf, mwire, mon, handed>>
  BY DEF DispatcherStarts, DispatcherStops, DispatcherStopped
<1>2. /\ disp' \in Dispatchers /\ sender' \in SendersOf
      /\ mconf.wrapper = "transfer" => sender'.run = sender.run /\ (sender.state = "none" => sender'.state = "none")
  <2>1. disp \in Dispatchers /\ sender \in SendersOf
    BY DEF MonitorInv, MonitorTypes
  <2>2. CASE DispatcherStarts
    <3>1. disp.run + 1 \in Int
      BY <2>1 DEF Dispatchers
    <3>2. Silent \in SendersOf
      BY DEF SendersOf, Silent
    <3>3. [Silent EXCEPT !.state = "started", !.run = disp.run + 1] \in SendersOf
      BY <3>1, <3>2 DEF SendersOf
    <3> QED BY <2>1, <2>2, <3>1, <3>3 DEF DispatcherStarts, Dispatchers
  <2>3. CASE DispatcherStops
    BY <2>1, <2>3 DEF DispatcherStops, Dispatchers, SendersOf
  <2>4. CASE DispatcherStopped
    BY <2>1, <2>4 DEF DispatcherStopped, Dispatchers
  <2> QED BY <2>2, <2>3, <2>4
<1>3. MonitorTypes'
  BY <1>1, <1>2 DEF MonitorInv, MonitorTypes
<1>4. mconf.wrapper = "transfer" => \A r \in Int : RunIs(r) => RunIs(r)'
  BY <1>1, <1>2 DEF RunIs
<1> QED BY <1>1, <1>3, <1>4 DEF MonitorInv, MonitorsFollow, InitBeforeEvents, ListenerLives

\* What is sent is of the run of the sender.
LEMMA SendMessageInv ==
  ASSUME MonitorInv, NEW types \in Seq(MessageTypes), NEW next \in SendersOf, SendMessage(types, next),
         sender.state # "none", next.state # "none" => next.run = sender.run
  PROVE  MonitorInv'
<1>1. PICK arrived \in Arrivals(types) :
        mwire' = mwire \o [i \in DOMAIN arrived |-> [type |-> arrived[i], run |-> sender.run]]
  BY DEF SendMessage
<1>2. UNCHANGED <<mconf, disp, mon, handed>> /\ sender' \in {Silent, next}
  BY DEF SendMessage
<1>3. arrived \in Seq(MessageTypes)
  <2>1. \A i \in DOMAIN types : types[i] \in MessageTypes
    BY LenProperties, ElementOfSeq
  <2>2. \A m \in MessageTypes : <<m>> \in Seq(MessageTypes)
    OBVIOUS
  <2>3. <<>> \in Seq(MessageTypes)
    OBVIOUS
  <2> QED BY <1>1, <2>1, <2>2, <2>3 DEF Arrivals
<1>4. [i \in DOMAIN arrived |-> [type |-> arrived[i], run |-> sender.run]] \in Seq(MessagesOf({sender.run}))
  <2>1. arrived \in [1 .. Len(arrived) -> MessageTypes] /\ Len(arrived) \in Nat /\ DOMAIN arrived = 1 .. Len(arrived)
    BY <1>3, LenProperties
  <2> QED BY <2>1 DEF MessagesOf
<1>5. sender.run \in Int /\ sender' \in SendersOf
  <2>1. sender \in SendersOf
    BY DEF MonitorInv, MonitorTypes
  <2>2. Silent \in SendersOf
    BY DEF SendersOf, Silent
  <2> QED BY <1>2, <2>1, <2>2 DEF SendersOf
<1>6. \A runs \in SUBSET Int : sender.run \in runs /\ mwire \in Seq(MessagesOf(runs)) => mwire' \in Seq(MessagesOf(runs))
  <2> SUFFICES ASSUME NEW runs \in SUBSET Int, sender.run \in runs, mwire \in Seq(MessagesOf(runs))
               PROVE  mwire' \in Seq(MessagesOf(runs))
    OBVIOUS
  <2>1. MessagesOf({sender.run}) \subseteq MessagesOf(runs)
    BY DEF MessagesOf
  <2> QED BY <1>1, <1>4, <2>1, SeqMonotonic, ConcatProperties
<1>7. MonitorTypes'
  BY <1>2, <1>5, <1>6 DEF MonitorInv, MonitorTypes
<1>8. \A r \in Int : RunIs(r) => RunIs(r)'
  BY <1>2, <1>6 DEF RunIs, Silent
<1> QED BY <1>2, <1>7, <1>8 DEF MonitorInv, MonitorsFollow, InitBeforeEvents, ListenerLives

LEMMA SenderInv ==
  ASSUME MonitorInv, SendEvent \/ SendEndOfSubrun \/ SendEndOfData
  PROVE  MonitorInv'
<1>1. sender \in SendersOf
  BY DEF MonitorInv, MonitorTypes
<1>2. CASE SendEvent
  <2> DEFINE types == (IF sender.state = "started" THEN <<"Init">> ELSE <<>>) \o <<"Data">>
             next  == [sender EXCEPT !.state = "sending", !.events = @ + 1]
  <2>1. types \in Seq(MessageTypes)
    <3>1. "Init" \in MessageTypes /\ "Data" \in MessageTypes
      BY DEF MessageTypes
    <3>2. <<"Init">> \in Seq(MessageTypes) /\ <<"Data">> \in Seq(MessageTypes) /\ <<>> \in Seq(MessageTypes)
      BY <3>1
    <3> QED BY <3>2, ConcatProperties
  <2>2. next \in SendersOf /\ next.run = sender.run
    <3>1. sender.events + 1 \in Int
      BY <1>1 DEF SendersOf
    <3> QED BY <1>1, <3>1 DEF SendersOf
  <2>3. SendMessage(types, next) /\ sender.state # "none"
    BY <1>2 DEF SendEvent
  <2> HIDE DEF types, next
  <2> QED BY <2>1, <2>2, <2>3, SendMessageInv
<1>3. CASE SendEndOfSubrun
  <2> DEFINE next == [sender EXCEPT !.events = IF sender.state = "ending" THEN 0 ELSE @]
  <2>1. <<"EndOfSubrun">> \in Seq(MessageTypes)
    BY DEF MessageTypes
  <2>2. next \in SendersOf /\ next.run = sender.run
    BY <1>1 DEF SendersOf
  <2>3. SendMessage(<<"EndOfSubrun">>, next) /\ sender.state # "none"
    BY <1>3 DEF SendEndOfSubrun
  <2> HIDE DEF next
  <2> QED BY <2>1, <2>2, <2>3, SendMessageInv
<1>4. CASE SendEndOfData
  <2>1. <<"EndOfData">> \in Seq(MessageTypes) /\ Silent \in SendersOf /\ Silent.state = "none"
    BY DEF MessageTypes, SendersOf, Silent
  <2>2. SendMessage(<<"EndOfData">>, Silent) /\ sender.state # "none"
    BY <1>4 DEF SendEndOfData
  <2> QED BY <2>1, <2>2, SendMessageInv
<1> QED BY <1>2, <1>3, <1>4

\* A registration begins with an empty connection, and without an Init message.
LEMMA RegisterInv == ASSUME MonitorInv, registerMonitor PROVE MonitorInv'
<1>1. /\ mon \in Monitors /\ sender \in SendersOf /\ disp \in Dispatchers
      /\ mconf.wrapper = "transfer" /\ ~mon.registered /\ ~mon.initialized
      /\ mwire' = <<>> /\ UNCHANGED <<mconf, disp, handed>>
  BY DEF MonitorInv, MonitorTypes, registerMonitor
<1>2. mon' \in Monitors /\ ~mon'.initialized
  BY <1>1 DEF registerMonitor, Quits, Monitors
<1>3. sender' \in SendersOf
  <2>1. Silent \in SendersOf
    BY DEF SendersOf, Silent
  <2>2. [Silent EXCEPT !.state = "started", !.run = disp.run] \in SendersOf
    BY <1>1, <2>1 DEF SendersOf, Dispatchers
  <2> QED BY <1>1, <2>2 DEF registerMonitor
<1>4. <<>> \in Seq(MessagesOf(Int)) /\ \A r \in Int : <<>> \in Seq(MessagesOf({r}))
  OBVIOUS
<1>5. MonitorTypes'
  BY <1>1, <1>2, <1>3, <1>4 DEF MonitorInv, MonitorTypes
<1>6. \E r \in Int : RunIs(r)'
  <2>1. PICK r \in Int : sender'.run = r
    BY <1>3 DEF SendersOf
  <2>2. RunIs(r)'
    BY <1>1, <1>2, <1>4, <2>1 DEF RunIs
  <2> QED BY <2>2
<1> QED BY <1>1, <1>2, <1>5, <1>6 DEF MonitorInv, MonitorsFollow, InitBeforeEvents, ListenerLives

\* What a wrapper takes off the wire was under way.
LEMMA MessageTaken ==
  ASSUME MonitorTypes, mwire # <<>>, mwire' = Tail(mwire)
  PROVE  /\ Head(mwire) \in MessagesOf(Int) /\ mwire' \in Seq(MessagesOf(Int))
         /\ \A r \in Int : mwire \in Seq(MessagesOf({r})) =>
              Head(mwire).run = r /\ mwire' \in Seq(MessagesOf({r}))
<1>1. mwire \in Seq(MessagesOf(Int))
  BY DEF MonitorTypes
<1>2. ASSUME NEW r \in Int, mwire \in Seq(MessagesOf({r}))
      PROVE  Head(mwire).run = r /\ mwire' \in Seq(MessagesOf({r}))
  <2>1. Head(mwire) \in MessagesOf({r}) /\ Tail(mwire) \in Seq(MessagesOf({r}))
    BY <1>2, HeadTailProperties
  <2> QED BY <2>1 DEF MessagesOf
<1>3. Head(mwire) \in MessagesOf(Int) /\ Tail(mwire) \in Seq(MessagesOf(Int))
  BY <1>1, HeadTailProperties
<1> QED BY <1>2, <1>3

\* The wrapper alone: messages may be taken off the wire, and art is handed none.
LEMMA WrapperInv ==
  ASSUME MonitorInv, UNCHANGED <<mconf, disp, sender, handed>>, mon' \in Monitors,
         mwire' = mwire \/ (mwire # <<>> /\ mwire' = Tail(mwire)),
         mon'.initialized => mon.initialized /\ mon'.registered = mon.registered,
         mconf.wrapper = "listen" => mon'.initialized = mon.initialized \/ mon'.closed,
         mconf.wrapper = "listen" => mon'.registered = mon.registered,
         mon.closed => mon'.closed,
         mconf = [wrapper |-> "listen", multi_run_mode_ |-> TRUE] => mon'.why \in {"none", "throw"}
  PROVE  MonitorInv'
<1>1. MonitorTypes'
  BY MessageTaken DEF MonitorInv, MonitorTypes
<1>2. \A r \in Int : RunIs(r) => RunIs(r)'
  BY MessageTaken DEF RunIs, MonitorInv
<1> QED BY <1>1, <1>2 DEF MonitorInv, MonitorsFollow, InitBeforeEvents, ListenerLives

LEMMA CountedInt == ASSUME mon \in Monitors PROVE Counted \in Int
<1>1. mon.fragments_received \in Int
  BY DEF Monitors
<1> QED BY <1>1 DEF Counted

LEMMA QuitsInMonitors ==
  ASSUME mon \in Monitors, NEW why \in MessageTypes \cup {"none", "not registered", "DATA_END", "throw"}, Quits(why)
  PROVE  /\ mon' \in Monitors /\ mon'.why = why
         /\ mon'.initialized = mon.initialized /\ mon'.registered = mon.registered /\ mon'.closed = mon.closed
BY DEF Quits, Monitors

LEMMA DataEndInv == ASSUME MonitorInv, DataEnd PROVE MonitorInv'
<1>1. mon \in Monitors /\ mconf \in [wrapper : {"transfer", "listen"}, multi_run_mode_ : BOOLEAN]
  BY DEF MonitorInv, MonitorTypes
<1>2. CASE ~mconf.multi_run_mode_
  <2>1. Quits("DATA_END")
    BY <1>2 DEF DataEnd
  <2>2. UNCHANGED <<mconf, disp, sender, mwire, handed>>
    BY DEF DataEnd
  <2>3. /\ mon' \in Monitors /\ mon'.initialized = mon.initialized
        /\ mon'.registered = mon.registered /\ mon'.closed = mon.closed
    BY <1>1, <2>1, QuitsInMonitors
  <2>4. mconf # [wrapper |-> "listen", multi_run_mode_ |-> TRUE]
    BY <1>2
  <2> QED BY <2>2, <2>3, <2>4, WrapperInv
<1>3. CASE mconf.multi_run_mode_
  <2>1. PICK registered \in BOOLEAN :
          /\ mon' = [EndsRun(registered) EXCEPT !.closed = TRUE]
          /\ mconf.wrapper = "listen" => registered = mon.registered
    BY <1>1, <1>3 DEF DataEnd, Unregistered, Monitors
  <2>2. mon' \in Monitors /\ ~mon'.initialized /\ mon'.closed /\ mon'.registered = registered /\ mon'.why = mon.why
    BY <1>1, <2>1 DEF EndsRun, Monitors
  <2> QED BY <2>1, <2>2, <1>3, WrapperInv DEF DataEnd, Ready
<1> QED BY <1>1, <1>2, <1>3

\* A message that is handed over is an Init message, or one of the run whose Init message
\* was; a listener that has one gets events only.
LEMMA HandsInv ==
  ASSUME MonitorInv, mwire # <<>>, mwire' = Tail(mwire), UNCHANGED <<mconf, disp, sender>>, Ready,
         mon.initialized \/ Head(mwire).type = "Init",
         mconf.wrapper = "transfer" => mon.registered,
         mconf.wrapper = "listen" /\ mconf.multi_run_mode_ =>
           Head(mwire).type = "Data" \/ (Head(mwire).type = "Init" /\ ~mon.initialized),
         Hands(Head(mwire))
  PROVE  MonitorInv'
<1> DEFINE msg == Head(mwire)
<1>1. msg \in MessagesOf(Int) /\ mwire' \in Seq(MessagesOf(Int)) /\ mon \in Monitors
      /\ handed \in [type : MessageTypes \cup {"none"}, run : Int, inits : SUBSET Int]
  BY MessageTaken DEF MonitorInv, MonitorTypes
<1>2. /\ mon' = [mon EXCEPT !.initialized = TRUE, !.fragments_received = Counted,
                            !.why = IF handed.type = "none" \/ msg.type = "Data" THEN "none" ELSE msg.type]
      /\ handed' = [type |-> msg.type, run |-> msg.run,
                    inits |-> IF msg.type = "Init" THEN handed.inits \cup {msg.run} ELSE handed.inits]
  BY DEF Hands
<1>3. mon' \in Monitors /\ mon'.initialized /\ mon'.registered = mon.registered /\ mon'.closed = mon.closed
      /\ mon'.why = IF handed.type = "none" \/ msg.type = "Data" THEN "none" ELSE msg.type
  <2> DEFINE why == IF handed.type = "none" \/ msg.type = "Data" THEN "none" ELSE msg.type
  <2>1. why \in MessageTypes \cup {"none", "not registered", "DATA_END", "throw"}
    BY <1>1 DEF MessagesOf
  <2>2. Counted \in Int
    BY <1>1, CountedInt
  <2>3. mon' = [mon EXCEPT !.initialized = TRUE, !.fragments_received = Counted, !.why = why]
    BY <1>2
  <2> HIDE DEF why
  <2>4. mon' \in Monitors /\ mon'.initialized /\ mon'.registered = mon.registered /\ mon'.closed = mon.closed /\ mon'.why = why
    BY <1>1, <2>1, <2>2, <2>3 DEF Monitors
  <2> QED BY <2>4 DEF why
<1>4. /\ handed' \in [type : MessageTypes \cup {"none"}, run : Int, inits : SUBSET Int]
      /\ handed.inits \subseteq handed'.inits
  BY <1>1, <1>2 DEF MessagesOf
<1>5. MonitorTypes'
  BY <1>1, <1>3, <1>4 DEF MonitorInv, MonitorTypes
<1>6. ASSUME NEW r \in Int, RunIs(r)
      PROVE  RunIs(r)' /\ handed'.run \in handed'.inits
  <2>1. msg.run = r /\ mwire' \in Seq(MessagesOf({r}))
    BY <1>6, MessageTaken DEF MonitorInv, RunIs
  <2>2. r \in handed'.inits
    BY <1>2, <1>6, <2>1 DEF RunIs
  <2> QED BY <1>2, <1>6, <2>1, <2>2 DEF RunIs
<1>7. ListenerLives'
  <2> SUFFICES ASSUME mconf = [wrapper |-> "listen", multi_run_mode_ |-> TRUE], ~mon.closed, msg.type # "Data"
               PROVE  handed.type = "none"
    BY <1>3 DEF ListenerLives
  <2> QED BY DEF MonitorInv
<1>8. InitBeforeEvents' /\ (mconf.wrapper = "transfer" => \E r \in Int : RunIs(r)')
  BY <1>6 DEF MonitorInv, InitBeforeEvents
<1> QED BY <1>3, <1>5, <1>7, <1>8 DEF MonitorInv, MonitorsFollow

LEMMA ReceiveMessageInv == ASSUME MonitorInv, receiveMessage PROVE MonitorInv'
<1> DEFINE msg == Head(mwire)
<1>1. /\ mon \in Monitors /\ mconf \in [wrapper : {"transfer", "listen"}, multi_run_mode_ : BOOLEAN]
      /\ msg \in MessagesOf(Int) /\ mwire # <<>> /\ mwire' = Tail(mwire)
      /\ Ready /\ (mconf.wrapper = "transfer" => mon.registered) /\ UNCHANGED <<mconf, disp, sender>>
  BY MessageTaken DEF MonitorInv, MonitorTypes, receiveMessage
<1>2. Counted \in Int
  BY <1>1, CountedInt
<1>3. CASE ~mconf.multi_run_mode_ /\ Quits("EndOfData") /\ UNCHANGED handed
  <2>1. "EndOfData" \in MessageTypes
    BY DEF MessageTypes
  <2>2. /\ mon' \in Monitors /\ mon'.initialized = mon.initialized
        /\ mon'.registered = mon.registered /\ mon'.closed = mon.closed
    BY <1>1, <1>3, <2>1, QuitsInMonitors
  <2>3. mconf # [wrapper |-> "listen", multi_run_mode_ |-> TRUE]
    BY <1>3
  <2> QED BY <1>1, <1>3, <2>2, <2>3, WrapperInv
<1>4. CASE Drops
  BY <1>1, <1>2, <1>4, WrapperInv DEF Drops, Monitors, Ready
<1>5. CASE mconf.wrapper = "transfer" /\ (\E registered \in Unregistered : mon' = EndsRun(registered)) /\ UNCHANGED handed
  <2>1. PICK registered \in Unregistered : mon' = EndsRun(registered)
    BY <1>5
  <2>2. registered \in BOOLEAN
    BY <1>1, <2>1 DEF Unregistered, Monitors
  <2>3. mon' \in Monitors /\ ~mon'.initialized /\ mon'.closed = mon.closed
    BY <1>1, <2>1, <2>2 DEF EndsRun, Monitors
  <2> QED BY <1>1, <1>5, <2>3, WrapperInv
<1>6. CASE DropsEarly
  BY <1>1, <1>2, <1>6, WrapperInv DEF DropsEarly, Monitors
<1>7. CASE /\ Hands(msg) /\ (mon.initialized \/ msg.type = "Init")
           /\ msg.type = "EndOfData" => mconf.multi_run_mode_ /\ mconf.wrapper \notin {"listen", "transfer"}
           /\ mconf.wrapper = "listen" => msg.type \notin Ignored
  <2>1. mconf.wrapper = "listen" => msg.type = "Data" \/ (msg.type = "Init" /\ ~mon.initialized)
    BY <1>1, <1>7 DEF Ignored, MessagesOf, MessageTypes
  <2> QED BY <1>1, <1>7, <2>1, HandsInv
<1> QED BY <1>1, <1>3, <1>4, <1>5, <1>6, <1>7 DEF receiveMessage

\* A registered monitor gives art no event of a run whose Init message it did not give it
\* before, whatever is lost and however many runs there were; and one that listens goes on
\* from run to run.
THEOREM MonitorsAlwaysFollow == MonitorSpec => []MonitorsFollow
<1>1. MonitorInv /\ [MonitorNext]_monitorVars => MonitorInv'
  <2> SUFFICES ASSUME MonitorInv, [MonitorNext]_monitorVars PROVE MonitorInv'
    OBVIOUS
  <2>1. CASE UNCHANGED monitorVars
    BY <2>1 DEF monitorVars, MonitorInv, MonitorTypes, RunIs, MonitorsFollow, InitBeforeEvents, ListenerLives
  <2> QED BY <2>1, DispatcherInv, SenderInv, RegisterInv, DataEndInv, ReceiveMessageInv DEF MonitorNext
<1>2. MonitorInv => MonitorsFollow
  BY DEF MonitorInv
<1> QED BY <1>1, <1>2, MonitorInitInv, PTL DEF MonitorSpec
-------------------------------------------------------------------------------
(* The data base of a file *)

\* A data base with rows of ranges, and join rows for range sets and rows there are.
DataBaseOK(d) ==
  /\ d = [EventRanges |-> d.EventRanges, RangeSets |-> d.RangeSets, join |-> d.join]
  /\ \E S : d.EventRanges \in Seq(S)
  /\ d.RangeSets \in [BranchTypes -> Nat]
  /\ \A j \in d.join : /\ j = <<j[1], j[2], j[3]>> /\ j[1] \in BranchTypes
                       /\ j[2] \in Nat /\ j[2] <= d.RangeSets[j[1]]
                       /\ j[3] \in DOMAIN d.EventRanges

\* Ranges of a set of finitely many, each of a subrun of its own.
RangesOK(ranges) ==
  /\ IsFiniteSet(ranges)
  /\ \A r \in ranges : r[1] \in Nat
  /\ \A r, s \in ranges : r[1] = s[1] => r = s

\* What was entered under an ID that was given stays as it is.
Keeps(d, e) ==
  /\ \A bt \in BranchTypes : d.RangeSets[bt] <= e.RangeSets[bt]
  /\ \A bt \in BranchTypes : \A id \in Nat :
       id <= d.RangeSets[bt] => ReadBack(e, bt, id) = ReadBack(d, bt, id)

\* A record whose range set can be read back from d.
RecordOK(d, r) ==
  /\ r.bt \in BranchTypes /\ r.id \in Nat /\ r.id <= d.RangeSets[r.bt]
  /\ ReadBack(d, r.bt, r.id) = r.ranges

LEMMA SubrunsOrdered ==
  ASSUME NEW ranges, RangesOK(ranges)
  PROVE  StrictlyOrders(BySubrun(ranges), ranges)
<1>1. \A x, y \in ranges : <<x, y>> \in BySubrun(ranges) <=> x[1] < y[1]
  BY DEF BySubrun
<1>2. \A x, y \in ranges : x # y => x[1] < y[1] \/ y[1] < x[1]
  BY DEF RangesOK
<1>3. \A x, y, z \in ranges : x[1] < y[1] /\ y[1] < z[1] => x[1] < z[1]
  BY DEF RangesOK
<1>4. \A x \in ranges : ~(x[1] < x[1])
  BY DEF RangesOK
<1> QED BY <1>1, <1>2, <1>3, <1>4 DEF StrictlyOrders

\* Every range has a row, the rows that were there stay.
LEMMA RowsInserted ==
  ASSUME NEW d, DataBaseOK(d), NEW ranges, RangesOK(ranges)
  PROVE  LET e == insertIntoEventRanges(d, ranges)
         IN  /\ e.RangeSets = d.RangeSets /\ e.join = d.join
             /\ e = [EventRanges |-> e.EventRanges, RangeSets |-> e.RangeSets, join |-> e.join]
             /\ \E S : e.EventRanges \in Seq(S)
             /\ DOMAIN d.EventRanges \subseteq DOMAIN e.EventRanges
             /\ \A row \in DOMAIN d.EventRanges : e.EventRanges[row] = d.EventRanges[row]
             /\ \A r \in ranges : \E row \in DOMAIN e.EventRanges : e.EventRanges[row] = r
<1> DEFINE new == {r \in ranges : \A row \in DOMAIN d.EventRanges : d.EventRanges[row] # r}
           rows == d.EventRanges
           more == Ascending(new, BySubrun(new))
           e == insertIntoEventRanges(d, ranges)
<1>1. RangesOK(new)
  <2>1. IsFiniteSet(new)
    BY FS_Subset DEF RangesOK
  <2> QED BY <2>1 DEF RangesOK
<1>2. /\ more \in Seq(new) /\ Len(more) \in Nat /\ DOMAIN more = 1..Len(more)
      /\ \A r \in new : \E i \in 1..Len(more) : more[i] = r
  <2>1. IsFiniteSet(new) /\ StrictlyOrders(BySubrun(new), new)
    BY <1>1, SubrunsOrdered DEF RangesOK
  <2> HIDE DEF new
  <2> QED BY <2>1, AscendingFacts
<1>3. PICK S : rows \in Seq(S)
  BY DEF DataBaseOK
<1>4. e = [d EXCEPT !.EventRanges = rows \o more]
  BY DEF insertIntoEventRanges
<1>5. e = [EventRanges |-> rows \o more, RangeSets |-> d.RangeSets, join |-> d.join]
  BY <1>4 DEF DataBaseOK
<1> HIDE DEF e, more
<1>6. /\ e.RangeSets = d.RangeSets /\ e.join = d.join /\ e.EventRanges = rows \o more
      /\ e = [EventRanges |-> e.EventRanges, RangeSets |-> e.RangeSets, join |-> e.join]
  BY <1>5
<1>7. rows \in Seq(S \cup new) /\ more \in Seq(S \cup new)
  BY <1>2, <1>3
<1> HIDE DEF rows
<1>8. /\ rows \o more \in Seq(S \cup new) /\ Len(rows) \in Nat /\ DOMAIN rows = 1..Len(rows)
      /\ DOMAIN (rows \o more) = 1..Len(rows) + Len(more)
      /\ \A i \in 1..Len(rows) : (rows \o more)[i] = rows[i]
      /\ \A i \in 1..Len(more) : (rows \o more)[Len(rows) + i] = more[i]
  BY <1>2, <1>7
<1>9. ASSUME NEW r \in ranges PROVE \E row \in DOMAIN (rows \o more) : (rows \o more)[row] = r
  <2>1. CASE r \in new
    <3>1. PICK i \in 1..Len(more) : more[i] = r
      BY <1>2, <2>1
    <3>2. Len(rows) + i \in DOMAIN (rows \o more)
      BY <1>2, <1>8
    <3> QED BY <1>8, <3>1, <3>2
  <2>2. CASE r \notin new
    <3>1. PICK row \in DOMAIN rows : rows[row] = r
      BY <2>2 DEF rows
    <3>2. row \in DOMAIN (rows \o more)
      BY <1>2, <1>8
    <3> QED BY <1>8, <3>1, <3>2
  <2> QED BY <2>1, <2>2
<1>10. DOMAIN rows \subseteq DOMAIN (rows \o more)
  BY <1>2, <1>8
<1> QED BY <1>6, <1>8, <1>9, <1>10 DEF e, rows

\* A range set that is entered is read back as it was, and those before stay.
LEMMA RangeSetEntered ==
  ASSUME NEW d, DataBaseOK(d), NEW bt \in BranchTypes, NEW ranges, RangesOK(ranges)
  PROVE  LET e == EnterRangeSet(d, bt, ranges)
         IN  /\ DataBaseOK(e) /\ Keeps(d, e)
             /\ RecordOK(e, Record(bt, e, ranges))
<1> DEFINE i == insertIntoEventRanges(d, ranges)
           id == d.RangeSets[bt] + 1
           rows == getExistingRangeSetIDs(i, ranges)
           e == EnterRangeSet(d, bt, ranges)
<1>1. /\ i.RangeSets = d.RangeSets /\ i.join = d.join
      /\ i = [EventRanges |-> i.EventRanges, RangeSets |-> i.RangeSets, join |-> i.join]
      /\ \E S : i.EventRanges \in Seq(S)
      /\ DOMAIN d.EventRanges \subseteq DOMAIN i.EventRanges
      /\ \A row \in DOMAIN d.EventRanges : i.EventRanges[row] = d.EventRanges[row]
      /\ \A r \in ranges : \E row \in DOMAIN i.EventRanges : i.EventRanges[row] = r
  BY RowsInserted
<1>2. e = [i EXCEPT !.RangeSets = [i.RangeSets EXCEPT ![bt] = id],
                    !.join = i.join \cup {<<bt, id, row>> : row \in rows}]
  BY DEF EnterRangeSet
<1> HIDE DEF i, e
<1>3. /\ e = [EventRanges |-> e.EventRanges, RangeSets |-> e.RangeSets, join |-> e.join]
      /\ e.EventRanges = i.EventRanges
      /\ e.RangeSets = [d.RangeSets EXCEPT ![bt] = id]
      /\ e.join = d.join \cup {<<bt, id, row>> : row \in rows}
  BY <1>1, <1>2
<1>4. d.RangeSets \in [BranchTypes -> Nat] /\ d.RangeSets[bt] \in Nat /\ id \in Nat
  BY DEF DataBaseOK
<1>5. /\ e.RangeSets \in [BranchTypes -> Nat] /\ e.RangeSets[bt] = id
      /\ \A t \in BranchTypes : d.RangeSets[t] <= e.RangeSets[t]
  BY <1>3, <1>4
<1>6. rows = {row \in DOMAIN e.EventRanges : e.EventRanges[row] \in ranges}
  BY <1>3 DEF getExistingRangeSetIDs
<1>7. \A j \in d.join : /\ j = <<j[1], j[2], j[3]>> /\ j[1] \in BranchTypes
                        /\ j[2] \in Nat /\ j[2] <= d.RangeSets[j[1]]
                        /\ j[3] \in DOMAIN d.EventRanges
  BY DEF DataBaseOK
<1>8. DOMAIN d.EventRanges \subseteq DOMAIN e.EventRanges
  BY <1>1, <1>3
<1> HIDE DEF rows, id
<1>9. DataBaseOK(e)
  <2>1. ASSUME NEW j \in e.join
        PROVE  /\ j = <<j[1], j[2], j[3]>> /\ j[1] \in BranchTypes
               /\ j[2] \in Nat /\ j[2] <= e.RangeSets[j[1]]
               /\ j[3] \in DOMAIN e.EventRanges
    <3>1. CASE j \in d.join
      <4>1. /\ j = <<j[1], j[2], j[3]>> /\ j[1] \in BranchTypes
            /\ j[2] \in Nat /\ j[2] <= d.RangeSets[j[1]] /\ j[3] \in DOMAIN e.EventRanges
        BY <1>7, <1>8, <3>1
      <4>2. d.RangeSets[j[1]] \in Nat /\ e.RangeSets[j[1]] \in Nat /\ d.RangeSets[j[1]] <= e.RangeSets[j[1]]
        BY <1>4, <1>5, <4>1
      <4>3. j[2] <= e.RangeSets[j[1]]
        BY <4>1, <4>2
      <4> QED BY <4>1, <4>3
    <3>2. CASE j \notin d.join
      <4>1. PICK row \in rows : j = <<bt, id, row>>
        BY <1>3, <3>2
      <4> QED BY <1>4, <1>5, <1>6, <4>1
    <3> QED BY <3>1, <3>2
  <2>2. \E S : e.EventRanges \in Seq(S)
    BY <1>1, <1>3
  <2> QED BY <1>3, <1>5, <2>1, <2>2 DEF DataBaseOK
<1>10. \A t \in BranchTypes : \A n \in Nat :
         n <= d.RangeSets[t] => ReadBack(e, t, n) = ReadBack(d, t, n)
  <2> SUFFICES ASSUME NEW t \in BranchTypes, NEW n \in Nat, n <= d.RangeSets[t]
               PROVE  ReadBack(e, t, n) = ReadBack(d, t, n)
    OBVIOUS
  <2>1. \A row \in rows : ~(bt = t /\ id = n)
    BY <1>4 DEF id
  <2>2. {x \in e.join : x[1] = t /\ x[2] = n} = {x \in d.join : x[1] = t /\ x[2] = n}
    BY <1>3, <2>1
  <2>3. \A x \in d.join : e.EventRanges[x[3]] = d.EventRanges[x[3]]
    BY <1>1, <1>3, <1>7
  <2> QED BY <2>2, <2>3 DEF ReadBack
<1>11. ReadBack(e, bt, id) = ranges
  <2>1. \A x \in d.join : ~(x[1] = bt /\ x[2] = id)
    BY <1>4, <1>7 DEF id
  <2>2. {x \in e.join : x[1] = bt /\ x[2] = id} = {<<bt, id, row>> : row \in rows}
    BY <1>3, <2>1
  <2>3. ReadBack(e, bt, id) = {e.EventRanges[row] : row \in rows}
    <3> DEFINE joined == {<<bt, id, row>> : row \in rows}
    <3>1. ReadBack(e, bt, id) = {e.EventRanges[j[3]] : j \in joined}
      BY <2>2 DEF ReadBack
    <3>2. \A row \in rows : <<bt, id, row>> \in joined /\ <<bt, id, row>>[3] = row
      OBVIOUS
    <3>3. \A j \in joined : j[3] \in rows
      OBVIOUS
    <3> HIDE DEF joined
    <3> QED BY <3>1, <3>2, <3>3
  <2>4. \A r \in ranges : \E row \in rows : e.EventRanges[row] = r
    BY <1>1, <1>3, <1>6
  <2>5. \A row \in rows : e.EventRanges[row] \in ranges
    BY <1>6
  <2> QED BY <2>3, <2>4, <2>5
<1>12. RecordOK(e, Record(bt, e, ranges))
  <2>1. Record(bt, e, ranges) = [bt |-> bt, id |-> id, ranges |-> ranges]
    BY <1>5 DEF Record
  <2> QED BY <1>4, <1>5, <1>11, <2>1 DEF RecordOK
<1>13. Keeps(d, e)
  BY <1>5, <1>10 DEF Keeps
<1> QED BY <1>9, <1>12, <1>13 DEF e

LEMMA RecordKept ==
  ASSUME NEW d, NEW e, DataBaseOK(d), DataBaseOK(e), Keeps(d, e), NEW r, RecordOK(d, r)
  PROVE  RecordOK(e, r)
<1>1. d.RangeSets[r.bt] \in Nat /\ e.RangeSets[r.bt] \in Nat /\ d.RangeSets[r.bt] <= e.RangeSets[r.bt]
  BY DEF DataBaseOK, Keeps, RecordOK
<1>2. r.id \in Nat /\ r.id <= d.RangeSets[r.bt]
  BY DEF RecordOK
<1>3. r.id <= e.RangeSets[r.bt]
  BY <1>1, <1>2
<1> QED BY <1>2, <1>3 DEF Keeps, RecordOK

LEMMA KeepsOn ==
  ASSUME NEW c, NEW d, NEW e, DataBaseOK(c), DataBaseOK(d), DataBaseOK(e), Keeps(c, d), Keeps(d, e)
  PROVE  Keeps(c, e)
<1>1. ASSUME NEW bt \in BranchTypes
      PROVE  /\ c.RangeSets[bt] \in Nat /\ d.RangeSets[bt] \in Nat /\ e.RangeSets[bt] \in Nat
             /\ c.RangeSets[bt] <= d.RangeSets[bt] /\ d.RangeSets[bt] <= e.RangeSets[bt]
  BY DEF DataBaseOK, Keeps
<1>2. ASSUME NEW bt \in BranchTypes, NEW id \in Nat, id <= c.RangeSets[bt]
      PROVE  ReadBack(e, bt, id) = ReadBack(c, bt, id)
  <2>1. id <= d.RangeSets[bt]
    BY <1>1, <1>2
  <2> QED BY <1>2, <2>1 DEF Keeps
<1>3. \A bt \in BranchTypes : c.RangeSets[bt] <= e.RangeSets[bt]
  BY <1>1
<1> QED BY <1>2, <1>3 DEF Keeps

LEMMA KeepsSelf ==
  ASSUME NEW d, DataBaseOK(d)
  PROVE  Keeps(d, d)
<1>1. \A bt \in BranchTypes : d.RangeSets[bt] \in Nat
  BY DEF DataBaseOK
<1> QED BY <1>1 DEF Keeps

\* Writing to d gives e and the records new.
Written(d, e, new) ==
  /\ DataBaseOK(e) /\ Keeps(d, e)
  /\ \A r \in new : RecordOK(e, r)

LEMMA WrittenOne ==
  ASSUME NEW d, DataBaseOK(d), NEW bt \in BranchTypes, NEW ranges, RangesOK(ranges), NEW e, e = EnterRangeSet(d, bt, ranges)
  PROVE  Written(d, e, {Record(bt, e, ranges)})
BY RangeSetEntered DEF Written

LEMMA WrittenNone ==
  ASSUME NEW d, DataBaseOK(d)
  PROVE  Written(d, d, {})
BY KeepsSelf DEF Written

LEMMA WrittenThen ==
  ASSUME NEW d, DataBaseOK(d), NEW e, NEW f, NEW S, NEW T, Written(d, e, S), Written(e, f, T)
  PROVE  Written(d, f, S \cup T)
<1>1. Keeps(d, f)
  BY KeepsOn DEF Written
<1>2. \A r \in S : RecordOK(f, r)
  BY RecordKept DEF Written
<1> QED BY <1>1, <1>2 DEF Written
-------------------------------------------------------------------------------
(* Ranges of events *)

LEMMA LowestEvent ==
  ASSUME NEW events \in SUBSET Event, events # {}, NEW k \in 1..2
  PROVE  \E x \in events : \A y \in events : x[k] <= y[k]
<1> DEFINE keys == {x[k] : x \in events}
<1>1. keys \in SUBSET Nat /\ keys # {}
  BY DEF Event
<1>2. PICK n \in keys : \A m \in keys : n <= m
  BY <1>1, LeastNatural
<1> QED BY <1>2

LEMMA RangesFacts ==
  ASSUME NEW events \in SUBSET Event, IsFiniteSet(events)
  PROVE  /\ RangesOK(RangesOf(events))
         /\ \A r \in RangesOf(events) : <<r[1], r[2]>> \in events
         /\ events # {} => RangesOf(events) # {}
<1> DEFINE of(s) == {x \in events : x[1] = s}
           b(s) == CHOOSE x \in of(s) : \A y \in of(s) : x[2] <= y[2]
           l(s) == CHOOSE x \in of(s) : \A y \in of(s) : x[2] >= y[2]
           range(s) == <<s, b(s)[2], l(s)[2] + 1>>
           ranges == {range(e[1]) : e \in events}
<1>1. RangesOf(events) = ranges
  BY DEF RangesOf
<1>2. \A s : range(s)[1] = s /\ range(s)[2] = b(s)[2]
  OBVIOUS
<1>3. \A e \in events : b(e[1]) \in of(e[1])
  <2> TAKE e \in events
  <2>1. of(e[1]) \in SUBSET Event /\ of(e[1]) # {}
    OBVIOUS
  <2> HIDE DEF of
  <2>2. \E x \in of(e[1]) : \A y \in of(e[1]) : x[2] <= y[2]
    BY <2>1, LowestEvent
  <2> QED BY <2>2
<1>4. \A e \in events : <<e[1], b(e[1])[2]>> \in events
  <2> TAKE e \in events
  <2>1. b(e[1]) \in events /\ b(e[1])[1] = e[1] /\ b(e[1]) \in Event
    BY <1>3
  <2> HIDE DEF b
  <2>2. b(e[1]) = <<e[1], b(e[1])[2]>>
    BY <2>1 DEF Event
  <2> QED BY <2>1, <2>2
<1>5. \A e \in events : e[1] \in Nat
  BY DEF Event
<1> HIDE DEF range, b
<1>6. IsFiniteSet(ranges)
  <2> DEFINE f == [e \in events |-> range(e[1])]
  <2>1. f \in [events -> ranges] /\ \A r \in ranges : \E e \in events : f[e] = r
    OBVIOUS
  <2> HIDE DEF f, ranges
  <2>2. f \in Surjection(events, ranges)
    BY <2>1 DEF Surjection
  <2> QED BY <2>2, FS_Surjection
<1>7. \A r \in ranges : \E e \in events : r = range(e[1]) /\ r[1] = e[1]
  BY <1>2
<1>8. \A r \in ranges : r[1] \in Nat /\ r = range(r[1]) /\ <<r[1], r[2]>> \in events
  BY <1>2, <1>4, <1>5, <1>7
<1>9. RangesOK(ranges)
  <2>1. \A r, s \in ranges : r[1] = s[1] => r = s
    BY <1>8
  <2> QED BY <1>6, <1>8, <2>1 DEF RangesOK
<1>10. events # {} => ranges # {}
  OBVIOUS
<1> QED BY <1>1, <1>8, <1>9, <1>10

\* The event the ranges of some events begin with.
FirstEvent(events) == <<FirstRange(RangesOf(events))[1], FirstRange(RangesOf(events))[2]>>

LEMMA FirstEventIn ==
  ASSUME NEW events \in SUBSET Event, IsFiniteSet(events), events # {}
  PROVE  FirstEvent(events) \in events
<1> DEFINE ranges == RangesOf(events)
           keys == {r[1] : r \in ranges}
<1>1. RangesOK(ranges) /\ ranges # {} /\ \A r \in ranges : <<r[1], r[2]>> \in events
  BY RangesFacts
<1>2. keys \in SUBSET Nat /\ keys # {}
  BY <1>1 DEF RangesOK
<1>3. PICK n \in keys : \A m \in keys : n <= m
  BY <1>2, LeastNatural
<1>4. \E r \in ranges : \A s \in ranges : r[1] <= s[1]
  BY <1>3
<1> HIDE DEF ranges
<1>5. FirstRange(ranges) \in ranges
  BY <1>4 DEF FirstRange
<1> QED BY <1>1, <1>5 DEF FirstEvent, ranges
-------------------------------------------------------------------------------
(* The output file *)

LEMMA SubRunEntered ==
  ASSUME NEW d, DataBaseOK(d), RangesOK(RangesOf(seenSub))
  PROVE  Written(d, SubRunWritten(d).d, SubRunWritten(d).recs)
<1> DEFINE ranges == RangesOf(seenSub)
           d1 == EnterRangeSet(d, "SubRun", ranges)
<1>1. Written(d, d1, {Record("SubRun", d1, ranges)})
  BY WrittenOne DEF BranchTypes
<1>2. SubRunWritten(d) = [d |-> d1, recs |-> {Record("SubRun", d1, ranges)}]
  BY DEF SubRunWritten
<1> HIDE DEF d1, ranges
<1> QED BY <1>1, <1>2

LEMMA BranchesFilled ==
  ASSUME NEW d, DataBaseOK(d), RangesOK(RangesOf(seenRun)), RangesOK(InputRanges)
  PROVE  /\ Written(d, fillBranches(d).d, fillBranches(d).recs)
         /\ fillBranches(d).valid = StillValid(InputRanges, seenRun)
         /\ fillBranches(d) = [d |-> fillBranches(d).d, recs |-> fillBranches(d).recs, valid |-> fillBranches(d).valid]
<1> DEFINE input == StillValid(InputRanges, seenRun)
           made == RangesOf(seenRun)
           d1 == IF input THEN EnterRangeSet(d, "Run", InputRanges) ELSE d
           d2 == IF input /\ made = InputRanges THEN d1 ELSE EnterRangeSet(d1, "Run", made)
           r1 == IF input THEN {Record("Run", d1, InputRanges)} ELSE {}
           r2 == {Record("Run", d2, made)}
<1>1. fillBranches(d) = [d |-> d2, recs |-> r1 \cup r2, valid |-> input]
  BY DEF fillBranches
<1>2. Written(d, d1, r1)
  BY WrittenOne, WrittenNone DEF BranchTypes
<1>3. DataBaseOK(d1)
  BY <1>2 DEF Written
<1>4. CASE input /\ made = InputRanges
  <2>1. d2 = d1 /\ r2 \subseteq r1
    BY <1>4
  <2> HIDE DEF d1, d2, r1, r2, input
  <2>2. Written(d, d2, r1 \cup r2)
    BY <1>2, <2>1 DEF Written
  <2> QED BY <1>1, <2>2 DEF input
<1>5. CASE ~(input /\ made = InputRanges)
  <2>1. Written(d1, d2, r2)
    <3>1. d2 = EnterRangeSet(d1, "Run", made)
      BY <1>5
    <3> HIDE DEF d1, d2, made
    <3> QED BY <1>3, <3>1, WrittenOne DEF BranchTypes, made
  <2> HIDE DEF d1, d2, r1, r2, input
  <2>2. Written(d, d2, r1 \cup r2)
    BY <1>2, <2>1, WrittenThen
  <2> QED BY <1>1, <2>2 DEF input
<1> QED BY <1>4, <1>5

LEMMA RunEntered ==
  ASSUME NEW d, DataBaseOK(d), RangesOK(RangesOf(seenRun)), RangesOK(InputRanges)
  PROVE  /\ Written(d, RunWritten(d).d, RunWritten(d).recs)
         /\ RunWritten(d).valid = StillValid(InputRanges, seenRun)
<1> DEFINE ranges == RangesOf(seenRun)
           d1 == EnterRangeSet(d, "Run", ranges)
           f == fillBranches(d1)
           r1 == Record("Run", d1, ranges)
<1>1. Written(d, d1, {r1})
  BY WrittenOne DEF BranchTypes
<1>2. RunWritten(d) = [f EXCEPT !.recs = f.recs \cup {r1}]
  BY DEF RunWritten
<1>3. DataBaseOK(d1)
  BY <1>1 DEF Written
<1> HIDE DEF d1, r1
<1>4. /\ Written(d1, f.d, f.recs) /\ f.valid = StillValid(InputRanges, seenRun)
      /\ f = [d |-> f.d, recs |-> f.recs, valid |-> f.valid]
  BY <1>3, BranchesFilled
<1> HIDE DEF f
<1>5. Written(d, f.d, {r1} \cup f.recs)
  BY <1>1, <1>4, WrittenThen
<1>6. RunWritten(d).d = f.d /\ RunWritten(d).recs = f.recs \cup {r1} /\ RunWritten(d).valid = f.valid
  BY <1>2, <1>4
<1>7. {r1} \cup f.recs = f.recs \cup {r1}
  OBVIOUS
<1> QED BY <1>4, <1>5, <1>6, <1>7

FileTypeOK ==
  /\ infile = [n |-> infile.n, left |-> infile.left]
  /\ infile.n \in 0..Len(InputFiles) /\ infile.left \in Seq(Event)
  /\ seenRun \subseteq Event /\ IsFiniteSet(seenRun)
  /\ seenSub \subseteq Event /\ IsFiniteSet(seenSub)
  /\ DOMAIN valid = DOMAIN InputFiles
  /\ infile.n = 0 => infile.left = <<>> /\ seenRun = {} /\ seenSub = {}

DataBaseHolds == DataBaseOK(db) /\ \A r \in recs : RecordOK(db, r)

Distinct(events) == \A k, m \in DOMAIN events : k # m => events[k] # events[m]

\* Each event of the input file is still to come, or was seen since the run was written, or
\* neither, any more.
EventsOnce ==
  /\ Distinct(infile.left)
  /\ EventsOf(infile.left) \cap seenRun = {}
  /\ infile.n # 0 => EventsOf(infile.left) \cup seenRun \subseteq EventsOf(InputFiles[infile.n])

\* Whether the product of input file i has still to be written.
Waits(i) ==
  \/ i > infile.n
  \/ i = infile.n /\ FirstEvent(EventsOf(InputFiles[i])) \in EventsOf(infile.left) \cup seenRun

ProductsOnce ==
  \A i \in DOMAIN InputFiles : IF Waits(i) THEN valid[i] = {} ELSE \E o : valid[i] = {o}

FileInv == FileTypeOK /\ DataBaseHolds /\ EventsOnce /\ ProductsOnce

LEMMA InputFileFacts ==
  /\ Len(InputFiles) \in Nat /\ DOMAIN InputFiles = 1..Len(InputFiles)
  /\ \A i \in 1..Len(InputFiles) :
       /\ InputFiles[i] \in Seq(Event) /\ InputFiles[i] # <<>> /\ Distinct(InputFiles[i])
       /\ EventsOf(InputFiles[i]) \subseteq Event /\ IsFiniteSet(EventsOf(InputFiles[i]))
       /\ EventsOf(InputFiles[i]) # {}
       /\ FirstEvent(EventsOf(InputFiles[i])) \in EventsOf(InputFiles[i])
       /\ RangesOK(RangesOf(EventsOf(InputFiles[i])))
<1>1. /\ Len(InputFiles) \in Nat /\ DOMAIN InputFiles = 1..Len(InputFiles)
      /\ \A i \in 1..Len(InputFiles) : InputFiles[i] \in Seq(Event) /\ InputFiles[i] # <<>>
  BY OutputFileAssumption
<1>2. \A i \in 1..Len(InputFiles) : Distinct(InputFiles[i])
  BY <1>1, OutputFileAssumption DEF Distinct
<1>3. ASSUME NEW i \in 1..Len(InputFiles)
      PROVE  /\ EventsOf(InputFiles[i]) \subseteq Event /\ IsFiniteSet(EventsOf(InputFiles[i]))
             /\ EventsOf(InputFiles[i]) # {}
  <2> DEFINE events == InputFiles[i]
  <2>1. /\ events \in Seq(Event) /\ events # <<>> /\ Len(events) \in Nat /\ DOMAIN events = 1..Len(events)
    BY <1>1
  <2> HIDE DEF events
  <2>2. events \in Surjection(1..Len(events), EventsOf(events))
    <3>1. events \in [1..Len(events) -> EventsOf(events)]
      BY <2>1 DEF EventsOf
    <3> QED BY <2>1, <3>1 DEF Surjection, EventsOf
  <2>3. IsFiniteSet(EventsOf(events))
    BY <2>1, <2>2, FS_Interval, FS_Surjection
  <2>4. EventsOf(events) \subseteq Event /\ EventsOf(events) # {}
    BY <2>1 DEF EventsOf
  <2> QED BY <2>3, <2>4 DEF events
<1> QED BY <1>1, <1>2, <1>3, FirstEventIn, RangesFacts

\* The next event is one that comes once.
LEMMA LeftFacts ==
  ASSUME NEW events \in Seq(Event), events # <<>>, Distinct(events)
  PROVE  /\ Head(events) \in Event /\ Tail(events) \in Seq(Event)
         /\ Distinct(Tail(events)) /\ Head(events) \notin EventsOf(Tail(events))
         /\ EventsOf(events) = {Head(events)} \cup EventsOf(Tail(events))
<1>1. /\ Len(events) \in Nat \ {0} /\ DOMAIN events = 1..Len(events)
      /\ Head(events) = events[1] /\ Head(events) \in Event
      /\ Tail(events) \in Seq(Event) /\ DOMAIN Tail(events) = 1..Len(events) - 1
      /\ \A k \in 1..Len(events) - 1 : Tail(events)[k] = events[k + 1]
  BY HeadTailProperties
<1>2. Distinct(Tail(events))
  <2> SUFFICES ASSUME NEW k \in 1..Len(events) - 1, NEW m \in 1..Len(events) - 1, k # m
               PROVE  Tail(events)[k] # Tail(events)[m]
    BY <1>1 DEF Distinct
  <2>1. k + 1 \in 1..Len(events) /\ m + 1 \in 1..Len(events) /\ k + 1 # m + 1
    BY <1>1
  <2> QED BY <1>1, <2>1 DEF Distinct
<1>3. Head(events) \notin EventsOf(Tail(events))
  <2> SUFFICES ASSUME NEW k \in 1..Len(events) - 1 PROVE Tail(events)[k] # Head(events)
    BY <1>1 DEF EventsOf
  <2>1. k + 1 \in 1..Len(events) /\ 1 \in 1..Len(events) /\ k + 1 # 1
    BY <1>1
  <2> QED BY <1>1, <2>1 DEF Distinct
<1>4. \A x : x \in EventsOf(events) <=> x = Head(events) \/ x \in EventsOf(Tail(events))
  <2> TAKE x
  <2>1. ASSUME x \in EventsOf(events), x # Head(events) PROVE x \in EventsOf(Tail(events))
    <3>1. PICK k \in 1..Len(events) : x = events[k]
      BY <1>1, <2>1 DEF EventsOf
    <3>2. k - 1 \in 1..Len(events) - 1 /\ (k - 1) + 1 = k
      BY <1>1, <2>1, <3>1
    <3> QED BY <1>1, <3>1, <3>2 DEF EventsOf
  <2>2. Head(events) \in EventsOf(events)
    BY <1>1 DEF EventsOf
  <2>3. ASSUME x \in EventsOf(Tail(events)) PROVE x \in EventsOf(events)
    <3>1. PICK k \in 1..Len(events) - 1 : x = events[k + 1]
      BY <1>1, <2>3 DEF EventsOf
    <3>2. k + 1 \in 1..Len(events)
      BY <1>1
    <3> QED BY <1>1, <3>1, <3>2 DEF EventsOf
  <2> QED BY <2>1, <2>2, <2>3
<1> QED BY <1>1, <1>2, <1>3, <1>4

LEMMA EmptyDataBase == DataBaseOK(EmptyDB)
<1>1. <<>> \in Seq({})
  OBVIOUS
<1> QED BY <1>1 DEF DataBaseOK, EmptyDB

LEMMA FileInvInit == FileInit => FileInv
<1> SUFFICES ASSUME FileInit PROVE FileInv
  OBVIOUS
<1>1. infile.n = 0 /\ infile.left = <<>> /\ EventsOf(infile.left) = {}
  BY DEF FileInit, EventsOf
<1>2. FileTypeOK
  BY <1>1, InputFileFacts, FS_EmptySet DEF FileInit, FileTypeOK
<1>3. DataBaseHolds
  BY EmptyDataBase DEF FileInit, DataBaseHolds
<1>4. EventsOnce
  BY <1>1 DEF FileInit, EventsOnce, Distinct
<1>5. ProductsOnce
  BY <1>1, InputFileFacts DEF FileInit, ProductsOnce, Waits
<1> QED BY <1>2, <1>3, <1>4, <1>5 DEF FileInv

LEMMA OpenInputKeeps == FileInv /\ OpenInput => FileInv'
<1> SUFFICES ASSUME FileInv, OpenInput PROVE FileInv'
  OBVIOUS
<1> USE DEF FileInv
<1> DEFINE n == infile.n + 1
<1>1. /\ infile.left = <<>> /\ seenRun = {} /\ n \in 1..Len(InputFiles) /\ n \in Nat /\ infile.n \in Nat
      /\ infile'.n = n /\ infile'.left = InputFiles[n] /\ infile' = [n |-> infile'.n, left |-> infile'.left]
      /\ UNCHANGED <<seenRun, seenSub, valid>>
  BY InputFileFacts DEF FileTypeOK, OpenInput
<1>2. FileTypeOK'
  BY <1>1, InputFileFacts DEF FileTypeOK
<1>3. DataBaseHolds'
  BY EmptyDataBase DEF DataBaseHolds, OpenInput
<1>4. EventsOnce'
  BY <1>1, InputFileFacts DEF EventsOnce
<1>5. ProductsOnce'
  <2> SUFFICES ASSUME NEW i \in 1..Len(InputFiles)
               PROVE  IF Waits(i)' THEN valid[i] = {} ELSE \E o : valid[i] = {o}
    BY <1>1, InputFileFacts DEF ProductsOnce
  <2>1. EventsOf(infile.left) = {}
    BY <1>1 DEF EventsOf
  <2>2. Waits(i) <=> i > infile.n
    BY <1>1, <2>1 DEF Waits
  <2>3. Waits(i)' <=> i > infile.n
    <3>1. CASE i = n
      BY <1>1, <3>1, InputFileFacts DEF Waits
    <3>2. CASE i # n
      BY <1>1, <3>2 DEF Waits
    <3> QED BY <3>1, <3>2
  <2> QED BY <2>2, <2>3, InputFileFacts DEF ProductsOnce
<1> QED BY <1>2, <1>3, <1>4, <1>5

LEMMA OpenOutputKeeps == FileInv /\ OpenOutput => FileInv'
BY EmptyDataBase DEF FileInv, FileTypeOK, DataBaseHolds, EventsOnce, ProductsOnce, Waits, OpenOutput

LEMMA FileEventKeeps == FileInv /\ FileEvent => FileInv'
<1> SUFFICES ASSUME FileInv, FileEvent PROVE FileInv'
  OBVIOUS
<1> USE DEF FileInv
<1> DEFINE e == Head(infile.left)
<1>1. /\ infile.left # <<>> /\ infile.left \in Seq(Event) /\ infile.n \in Nat /\ infile.n # 0
      /\ infile'.n = infile.n /\ infile'.left = Tail(infile.left)
      /\ infile' = [n |-> infile'.n, left |-> infile'.left]
      /\ seenRun' = seenRun \cup {e} /\ seenSub' = seenSub \cup {e}
      /\ UNCHANGED <<outfile, db, recs, valid>>
  <2>1. /\ infile = [n |-> infile.n, left |-> infile.left] /\ infile.left # <<>>
        /\ infile' = [infile EXCEPT !.left = Tail(infile.left)]
    BY DEF FileTypeOK, FileEvent
  <2>2. /\ infile'.n = infile.n /\ infile'.left = Tail(infile.left)
        /\ infile' = [n |-> infile'.n, left |-> infile'.left]
    BY <2>1
  <2>3. infile.left \in Seq(Event) /\ infile.n \in Nat /\ infile.n # 0
    BY <2>1, InputFileFacts DEF FileTypeOK
  <2> QED BY <2>1, <2>2, <2>3 DEF FileEvent
<1>2. /\ e \in Event /\ Tail(infile.left) \in Seq(Event)
      /\ Distinct(Tail(infile.left)) /\ e \notin EventsOf(Tail(infile.left))
      /\ EventsOf(infile.left) = {e} \cup EventsOf(Tail(infile.left))
  BY <1>1, LeftFacts DEF EventsOnce
<1> HIDE DEF e
<1>3. FileTypeOK'
  <2>1. IsFiniteSet(seenRun') /\ IsFiniteSet(seenSub')
    BY <1>1, FS_AddElement DEF FileTypeOK
  <2> QED BY <1>1, <1>2, <2>1 DEF FileTypeOK
<1>4. DataBaseHolds'
  BY <1>1 DEF DataBaseHolds
<1>5. EventsOnce'
  BY <1>1, <1>2 DEF EventsOnce
<1>6. ProductsOnce'
  <2>1. EventsOf(infile.left)' \cup seenRun' = EventsOf(infile.left) \cup seenRun
    BY <1>1, <1>2
  <2>2. \A i : Waits(i)' <=> Waits(i)
    BY <1>1, <2>1 DEF Waits
  <2> QED BY <1>1, <2>2 DEF ProductsOnce
<1> QED BY <1>3, <1>4, <1>5, <1>6

LEMMA FileSubRunKeeps == FileInv /\ FileSubRun => FileInv'
<1> SUFFICES ASSUME FileInv, FileSubRun PROVE FileInv'
  OBVIOUS
<1> USE DEF FileInv
<1>1. Written(db, SubRunWritten(db).d, SubRunWritten(db).recs)
  BY RangesFacts, SubRunEntered DEF FileTypeOK, DataBaseHolds
<1>2. /\ db' = SubRunWritten(db).d /\ recs' = recs \cup SubRunWritten(db).recs
      /\ seenSub' = {} /\ UNCHANGED <<infile, outfile, seenRun, valid>>
  BY DEF FileSubRun
<1>3. DataBaseHolds'
  BY <1>1, <1>2, RecordKept DEF DataBaseHolds, Written
<1> QED BY <1>2, <1>3, FS_EmptySet DEF FileTypeOK, EventsOnce, ProductsOnce, Waits

\* When the run is written, what was seen is; the product goes with the first event.
LEMMA RunWrittenKeeps ==
  ASSUME FileInv, infile.n # 0, UNCHANGED infile, seenRun' = {}, seenSub' = {},
         valid' = [valid EXCEPT ![infile.n] =
                     IF StillValid(InputRanges, seenRun) THEN @ \cup {outfile.n} ELSE @]
  PROVE  FileTypeOK' /\ EventsOnce' /\ ProductsOnce'
<1> USE DEF FileInv
<1>1. infile.n \in 1..Len(InputFiles) /\ infile.n \in Nat
  BY InputFileFacts DEF FileTypeOK
<1>2. FileTypeOK'
  BY FS_EmptySet DEF FileTypeOK
<1>3. EventsOnce'
  BY DEF EventsOnce
<1>4. ProductsOnce'
  <2> SUFFICES ASSUME NEW i \in 1..Len(InputFiles)
               PROVE  IF Waits(i)' THEN valid'[i] = {} ELSE \E o : valid'[i] = {o}
    BY <1>2, InputFileFacts DEF ProductsOnce, FileTypeOK
  <2>1. IF Waits(i) THEN valid[i] = {} ELSE \E o : valid[i] = {o}
    BY InputFileFacts DEF ProductsOnce
  <2>2. CASE i # infile.n
    BY <1>1, <2>1, <2>2, InputFileFacts DEF Waits, FileTypeOK
  <2>3. CASE i = infile.n
    <3> DEFINE first == FirstEvent(EventsOf(InputFiles[i]))
    <3>1. StillValid(InputRanges, seenRun) <=> first \in seenRun
      BY <2>3 DEF StillValid, InputRanges, FirstEvent
    <3>2. Waits(i) <=> first \in EventsOf(infile.left) \cup seenRun
      BY <1>1, <2>3 DEF Waits
    <3>3. Waits(i)' <=> first \in EventsOf(infile.left)
      BY <1>1, <2>3 DEF Waits
    <3> HIDE DEF first
    <3>4. valid'[i] = IF first \in seenRun THEN valid[i] \cup {outfile.n} ELSE valid[i]
      BY <1>1, <2>3, <3>1, InputFileFacts DEF FileTypeOK
    <3>5. EventsOf(infile.left) \cap seenRun = {}
      BY DEF EventsOnce
    <3> QED BY <2>1, <3>2, <3>3, <3>4, <3>5
  <2> QED BY <2>2, <2>3
<1> QED BY <1>2, <1>3, <1>4

LEMMA InputRangesOK ==
  ASSUME FileInv, infile.n # 0
  PROVE  RangesOK(InputRanges) /\ RangesOK(RangesOf(seenRun)) /\ RangesOK(RangesOf(seenSub))
<1>1. infile.n \in 1..Len(InputFiles)
  BY InputFileFacts DEF FileInv, FileTypeOK
<1> QED BY <1>1, InputFileFacts, RangesFacts DEF InputRanges, FileInv, FileTypeOK

LEMMA FileRunKeeps == FileInv /\ FileRun => FileInv'
<1> SUFFICES ASSUME FileInv, FileRun PROVE FileInv'
  OBVIOUS
<1> DEFINE w == RunWritten(db)
<1>1. infile.n # 0 /\ seenSub' = {}
  BY DEF FileInv, FileTypeOK, FileRun
<1>2. Written(db, w.d, w.recs) /\ w.valid = StillValid(InputRanges, seenRun)
  BY <1>1, InputRangesOK, RunEntered DEF FileInv, DataBaseHolds
<1> HIDE DEF w
<1>3. /\ db' = w.d /\ recs' = recs \cup w.recs
      /\ valid' = [valid EXCEPT ![infile.n] = IF w.valid THEN @ \cup {outfile.n} ELSE @]
      /\ seenRun' = {} /\ UNCHANGED <<infile, outfile>>
  BY DEF FileRun, w
<1>4. DataBaseHolds'
  BY <1>2, <1>3, RecordKept DEF DataBaseHolds, Written, FileInv
<1>5. FileTypeOK' /\ EventsOnce' /\ ProductsOnce'
  BY <1>1, <1>2, <1>3, RunWrittenKeeps
<1> QED BY <1>4, <1>5 DEF FileInv

LEMMA SwitchOutputKeeps == FileInv /\ SwitchOutput => FileInv'
<1> SUFFICES ASSUME FileInv, SwitchOutput PROVE FileInv'
  OBVIOUS
<1> DEFINE s == SubRunWritten(db)
           w == RunWritten(s.d)
<1>1. infile.n # 0
  BY DEF FileInv, FileTypeOK, SwitchOutput
<1>2. Written(db, s.d, s.recs) /\ DataBaseOK(db) /\ DataBaseOK(s.d)
  <2>1. Written(db, s.d, s.recs) /\ DataBaseOK(db)
    BY <1>1, InputRangesOK, SubRunEntered DEF FileInv, DataBaseHolds
  <2> HIDE DEF s
  <2> QED BY <2>1 DEF Written
<1> HIDE DEF s
<1>3. Written(s.d, w.d, w.recs) /\ w.valid = StillValid(InputRanges, seenRun)
  BY <1>1, <1>2, InputRangesOK, RunEntered
<1>4. /\ db' = w.d /\ recs' = recs \cup s.recs \cup w.recs
      /\ valid' = [valid EXCEPT ![infile.n] = IF w.valid THEN @ \cup {outfile.n} ELSE @]
      /\ seenRun' = {} /\ seenSub' = {} /\ UNCHANGED infile
  BY DEF SwitchOutput, s
<1> HIDE DEF w
<1>5. Written(db, w.d, s.recs \cup w.recs)
  BY <1>2, <1>3, WrittenThen
<1>6. DataBaseHolds'
  BY <1>2, <1>4, <1>5, RecordKept DEF DataBaseHolds, Written, FileInv
<1>7. FileTypeOK' /\ EventsOnce' /\ ProductsOnce'
  BY <1>1, <1>3, <1>4, RunWrittenKeeps
<1> QED BY <1>6, <1>7 DEF FileInv

\* What a file says of its runs and subruns is what was in them, and the product of an input
\* file goes into one of the output files.
THEOREM AlwaysFilesExact == FileSpec => []FilesExact
<1>1. FileInv /\ [FileNext]_fileVars => FileInv'
  <2> SUFFICES ASSUME FileInv, [FileNext]_fileVars PROVE FileInv'
    OBVIOUS
  <2>1. CASE UNCHANGED fileVars
    BY <2>1 DEF fileVars, FileInv, FileTypeOK, DataBaseHolds, EventsOnce, ProductsOnce, Waits
  <2> QED
    BY <2>1, OpenInputKeeps, OpenOutputKeeps, FileEventKeeps, FileSubRunKeeps, FileRunKeeps, SwitchOutputKeeps
       DEF FileNext
<1>2. FileInv => FilesExact
  <2> SUFFICES ASSUME FileInv PROVE FilesExact
    OBVIOUS
  <2>1. RangeSetsExact
    BY DEF FileInv, DataBaseHolds, RecordOK, RangeSetsExact
  <2>2. ProductWrittenOnce
    <3> SUFFICES ASSUME NEW i \in 1..Len(InputFiles)
                 PROVE  /\ Cardinality(valid[i]) <= 1
                        /\ i < infile.n \/ (i = infile.n /\ infile.left = <<>> /\ seenRun = {}) => valid[i] # {}
      BY InputFileFacts DEF ProductWrittenOnce
    <3>1. IF Waits(i) THEN valid[i] = {} ELSE \E o : valid[i] = {o}
      BY InputFileFacts DEF FileInv, ProductsOnce
    <3>2. Cardinality(valid[i]) <= 1
      <4>1. CASE valid[i] = {}
        BY <4>1, FS_EmptySet
      <4>2. CASE \E o : valid[i] = {o}
        <5>1. PICK o : valid[i] = {o}
          BY <4>2
        <5>2. Cardinality(valid[i]) = 1
          BY <5>1, FS_Singleton
        <5> QED BY <5>2
      <4> QED BY <3>1, <4>1, <4>2
    <3>3. i < infile.n \/ (i = infile.n /\ infile.left = <<>> /\ seenRun = {}) => ~Waits(i)
      BY InputFileFacts DEF Waits, EventsOf, FileInv, FileTypeOK
    <3> QED BY <3>1, <3>2, <3>3
  <2> QED BY <2>1, <2>2 DEF FilesExact
<1> QED BY FileInvInit, <1>1, <1>2, PTL DEF FileSpec
===============================================================================
