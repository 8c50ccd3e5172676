------------------------------ MODULE RequestModes ------------------------------
(***************************************************************************)
(* The other request modes of a board (artdaq/DAQrate/FragmentBuffer.cc).  *)
(* "Single" answers the latest request with a copy of the latest Fragment, *)
(* "Buffer" with all that is buffered, "Window" answers each request with  *)
(* the Fragments of a window of time about its time stamp, once a later    *)
(* Fragment has closed the window or window_close_timeout_us passed, and   *)
(* "Ignored" hands over all data whatever is requested.  Fragments are     *)
(* told apart by their time stamps, which grow: "data is assumed to arrive *)
(* in the buffer in timestamp order" (:596).                               *)
(*                                                                         *)
(* Left out: system Fragments, the size limit in bytes and the end of a    *)
(* run.  Taking --end() of an empty list (:525, :618) gives end() with the *)
(* lists of libstdc++, and is modelled so.                                 *)
(***************************************************************************)
EXTENDS FragmentBuffer

CONSTANTS
  MaxTime,       \* bound: the time stamps are 1..MaxTime
  MaxAcquired,   \* bound: how many Fragments the generator adds per Fragment ID
  RequestTime,   \* the time stamp each request carries
  InvalidTimes,  \* the requests that carry InvalidTimestamp instead
  WindowWidth, WindowOffset,
  StaleTimeout   \* staleTimeout_; 0: Fragments do not get stale

ASSUME ModeConstants ==
  /\ RequestTime \in [ID -> Nat] /\ InvalidTimes \subseteq ID
  /\ {MaxTime, MaxAcquired, WindowWidth, WindowOffset, StaleTimeout} \subseteq Nat

VARIABLES
  mode,      \* mode_
  keeps,     \* does the data handed over stay: bufferModeKeepLatest_, not uniqueWindows_
  stamps,    \* DataBuffer: the time stamps of the Fragments held, per Fragment ID
  kept,      \* BufferFragmentKept
  output,    \* history: the containers the last step handed over
  acquired,  \* history: the time stamps of all Fragments that were added
  handed     \* history: those of the Fragments that were handed over

modeVars == <<mode, keeps, stamps, kept, output, acquired, handed>>
modesVars == <<fbVars, modeVars>>

Time == 1..MaxTime
Newest(S) == CHOOSE t \in S : \A u \in S : u <= t
\* The n highest of S.
Highest(S, n) == {t \in S : Cardinality({u \in S : u > t}) < n}

ModesInit ==
  /\ BoardInit
  /\ mode \in {"SequenceID", "Single", "Buffer", "Window", "Ignored"} /\ keeps \in BOOLEAN
  /\ mode \notin {"Buffer", "Window"} => keeps
  /\ stamps = [f \in FID |-> {}] /\ kept = [f \in FID |-> FALSE] /\ output = {}
  /\ acquired = [f \in FID |-> {}] /\ handed = [f \in FID |-> {}]
-------------------------------------------------------------------------------
(* The data buffers *)

\* DataBuffer becomes S, which lacks Fragments dropped at its front.
Drop(f, S) ==
  /\ stamps' = [stamps EXCEPT ![f] = S]
  /\ kept' = [kept EXCEPT ![f] = @ /\ S \cap stamps[f] = stamps[f]]

\* dataBufferIsTooLarge.
TooLarge(S) == Cardinality(S) > Depth

\* waitForDataBufferReady of a circular buffer: the oldest Fragments go until it is no
\* longer too large.  Another buffer waits to be drained, and nothing is added meanwhile.
BufferReady(S) == IF TooLarge(S) THEN Highest(S, Depth) ELSE S

\* AddFragmentsToBuffer.
AddStamps(f, T) ==
  /\ mode \in {"Single", "Buffer", "Window"}
  /\ \A t \in T, u \in acquired[f] : u < t
  /\ Cardinality(acquired[f] \cup T) <= MaxAcquired
  /\ IF mode = "Single" THEN Drop(f, {Newest(T)}) ELSE Drop(f, BufferReady(stamps[f]) \cup T)
  /\ acquired' = [acquired EXCEPT ![f] = @ \cup T]
  /\ output' = {}
  /\ UNCHANGED <<fbVars, mode, keeps, handed>>

Fresh(S) == {t \in S : StaleTimeout = 0 \/ t + StaleTimeout >= Newest(S)}

\* checkDataBuffer.
CheckDataBuffer(f) ==
  /\ mode \in {"Buffer", "Window"} /\ pass = "idle"
  /\ stamps[f] # Fresh(BufferReady(stamps[f]))
  /\ Drop(f, Fresh(BufferReady(stamps[f])))
  /\ output' = {}
  /\ UNCHANGED <<fbVars, mode, keeps, acquired, handed>>
-------------------------------------------------------------------------------
(* applyRequestsSingleMode and applyRequestsBufferMode *)

\* sendEmptyFragments answers the sequence IDs from next_sequence_id_ up to the request.
SendEmptyFragments(last) ==
  answers' = [f \in FID |-> [id \in ID |->
    IF id \in nextSeq..last THEN answers[f][id] + 1 ELSE answers[f][id]]]

\* RemoveRequest for each of R, lowest first.
RemoveRequests(R) ==
  /\ requests' = requests \ R /\ served' = served \cup R
  /\ Advance(outOfOrder \cup {id \in R : id > highestSeen})

\* The containers hand over, per Fragment ID, the time stamps in what.
HandsOver(what) ==
  /\ output' = {[fid |-> f, stamps |-> what[f]] : f \in FID}
  /\ handed' = [f \in FID |-> handed[f] \cup what[f]]
  /\ UNCHANGED acquired

\* "We only care about the latest request received."
AnswerLatest(what) ==
  LET last == Newest(requests)
  IN /\ pass = "idle" /\ requests # {}
     /\ IF last >= nextSeq
        THEN /\ RemoveRequests(requests)
             /\ nextSeq' = last + 1
             /\ SendEmptyFragments(last)
             /\ HandsOver(what)
        ELSE /\ RemoveRequests(requests \ {last})
             /\ output' = {}
             /\ UNCHANGED <<nextSeq, answers, handed, acquired>>
     /\ UNCHANGED <<data, windows, pass, work, giveUp, receiver, run, mode, keeps>>

Single ==
  /\ mode = "Single"
  /\ AnswerLatest(stamps)
  /\ UNCHANGED <<stamps, kept>>

\* Mutant: a Fragment kept from the last container is put into the next one as well.
Unsent_all(f) == stamps[f]

\* "If we kept a Fragment from the previous iteration, but more data has arrived,
\* discard it."
Unsent(f) ==
  IF kept[f] /\ Cardinality(stamps[f]) > 1
  THEN Highest(stamps[f], Cardinality(stamps[f]) - 1) ELSE stamps[f]

Buffer ==
  /\ mode = "Buffer"
  /\ AnswerLatest([f \in FID |-> Unsent(f)])
  /\ IF nextSeq' = nextSeq THEN UNCHANGED <<stamps, kept>>
     ELSE /\ stamps' = [f \in FID |-> IF keeps THEN Highest(stamps[f], 1) ELSE {}]
          /\ kept' = [f \in FID |-> IF stamps[f] = {} THEN kept[f] ELSE keeps]
-------------------------------------------------------------------------------
(* applyRequestsWindowMode *)

Opens(seq) == IF RequestTime[seq] > WindowOffset THEN RequestTime[seq] - WindowOffset ELSE 0
Closes(seq) ==
  IF RequestTime[seq] + WindowWidth > WindowOffset
  THEN RequestTime[seq] + WindowWidth - WindowOffset ELSE 1

InWindow(seq, S) ==
  {t \in S : Opens(seq) <= t /\ (t < Closes(seq) \/ (t = Closes(seq) /\ WindowWidth = 0))}

WindowClosed(seq, f) == \E t \in stamps[f] : t >= Closes(seq)

\* Mutant: data dropped at the front of the buffer is not looked for.
MissingData_closed(seq, f) == ~WindowClosed(seq, f)

\* The missing_data flag of the container.
MissingData(seq, f) == ~WindowClosed(seq, f) \/ \A t \in stamps[f] : t > Opens(seq)

\* applyRequestsWindowMode_CheckAndFillDataBuffer for the Fragment IDs in by.
CheckAndFill(seq, by) ==
  /\ output' = {[fid |-> f, stamps |-> InWindow(seq, stamps[f]), seq |-> seq,
                 missing |-> MissingData(seq, f)] : f \in by}
  /\ handed' = [f \in FID |-> IF f \in by THEN handed[f] \cup InWindow(seq, stamps[f]) ELSE handed[f]]
  /\ stamps' = [f \in FID |->
       IF f \in by /\ ~keeps THEN stamps[f] \ InWindow(seq, stamps[f]) ELSE stamps[f]]
  /\ answers' = [f \in FID |-> [answers[f] EXCEPT ![seq] = IF f \in by THEN @ + 1 ELSE @]]
  /\ CheckSentWindows(seq, [f \in FID |-> IF f \in by THEN windows[f] \cup {seq} ELSE windows[f]])

BeginWindowPass ==
  /\ mode = "Window" /\ pass = "idle" /\ requests # {}
  /\ pass' = "requests" /\ work' = requests /\ output' = {}
  /\ UNCHANGED <<bufferVars, data, windows, nextSeq, giveUp, answers, receiver, run,
                 mode, keeps, stamps, kept, acquired, handed>>

ServeWindow ==
  LET seq  == Least(work)
      open == {f \in FID : seq \notin windows[f]}
      closed == {f \in open : WindowClosed(seq, f)}
  IN /\ mode = "Window" /\ pass = "requests" /\ work # {} /\ giveUp = 0
     /\ work' = work \ {seq}
     /\ \/ /\ seq < nextSeq /\ RemoveRequest(seq) /\ output' = {}
           /\ UNCHANGED <<windows, nextSeq, giveUp, answers, stamps, handed>>
        \/ /\ seq >= nextSeq /\ seq \in InvalidTimes /\ output' = {}
           /\ UNCHANGED <<bufferVars, windows, nextSeq, giveUp, answers, stamps, handed>>
        \/ /\ seq >= nextSeq /\ seq \notin InvalidTimes
           /\ \E late \in SUBSET (open \ closed) : CheckAndFill(seq, closed \cup late)
     /\ UNCHANGED <<data, pass, receiver, run, mode, keeps, kept, acquired>>

\* The pass over the windows sent is the one of "sequence ID" mode.
WindowPass ==
  /\ mode = "Window" /\ output' = {}
  /\ RecheckWindows \/ RecheckWindow \/ GiveUpRequest \/ EndPass
  /\ UNCHANGED <<mode, keeps, stamps, kept, acquired, handed>>
-------------------------------------------------------------------------------
(* applyRequestsIgnoredMode; without requests the data is known by its sequence ID *)

AddIgnored(f, id) ==
  /\ mode = "Ignored" /\ id \notin data[f] /\ Cardinality(data[f]) <= Depth
  /\ AddFragment(f, id)
  /\ output' = {}
  /\ UNCHANGED <<mode, keeps, stamps, kept, acquired, handed>>

\* The sequence ID goes by the Fragment that came last in each buffer, whichever that is: it is
\* the greatest of those.
LastCame(id) ==
  /\ \E f \in FID : id \in data[f]
  /\ \A f \in FID : data[f] = {} \/ \E d \in data[f] : d <= id

Ignored ==
  /\ mode = "Ignored" /\ pass = "idle"
  /\ \E id \in ID :
     /\ LastCame(id)
     /\ nextSeq' = IF id >= nextSeq THEN id + 1 ELSE nextSeq
     /\ data' = [f \in FID |-> {}]
     /\ output' = {[fid |-> f, stamps |-> data[f]] : f \in FID}
     /\ UNCHANGED <<bufferVars, windows, pass, work, giveUp, receiver, run, answers,
                    mode, keeps, stamps, kept, acquired, handed>>
-------------------------------------------------------------------------------
ReceiverNext ==
  /\ mode \in {"Single", "Buffer", "Window"} /\ output' = {}
  /\ ReceiverStarts \/ ReceiverStops \/ \E id \in ID : PushRequest(id)
  /\ UNCHANGED <<mode, keeps, stamps, kept, acquired, handed>>

ModesNext ==
  \/ mode = "SequenceID" /\ RunNext /\ UNCHANGED modeVars
  \/ ReceiverNext
  \/ \E f \in FID, T \in SUBSET Time : Cardinality(T) \in 1..2 /\ AddStamps(f, T)
  \/ \E f \in FID : CheckDataBuffer(f)
  \/ Single \/ Buffer \/ BeginWindowPass \/ ServeWindow \/ WindowPass
  \/ (\E f \in FID, id \in ID : AddIgnored(f, id)) \/ Ignored

ModesSpec == ModesInit /\ [][ModesNext]_modesVars
-------------------------------------------------------------------------------
(* Properties *)

\* A window that is sent without the flag missing_data holds every Fragment of the window
\* that the board ever acquired, whatever was dropped at the front of the buffer.  With
\* unique windows it may lack those that went out with another window, of which the flag
\* says nothing.
WindowWhole ==
  mode = "Window" => \A c \in output :
    \/ c.missing
    \/ {t \in acquired[c.fid] : Opens(c.seq) <= t /\ t < Closes(c.seq)} \subseteq
         c.stamps \cup (IF keeps THEN {} ELSE handed[c.fid])

\* With unique windows or in Buffer mode a Fragment is handed over once, but for the kept
\* one, again when nothing newer has come; and handing over loses none unsent.
EachFragmentOnce ==
  [][(mode = "Buffer" \/ (mode = "Window" /\ ~keeps)) =>
       /\ \A c \in output' \ output : c.stamps \cap handed[c.fid] = {} \/
            (mode = "Buffer" /\ keeps /\ Cardinality(c.stamps) = 1)
       /\ output' # {} => \A f \in FID : stamps[f] \ stamps'[f] \subseteq handed'[f]]_modesVars

\* In Single and Buffer mode every sequence ID up to the last one answered gets one answer
\* from each Fragment ID, requested or not: its event can be completed.
NoSequenceSkipped ==
  mode \in {"Single", "Buffer"} =>
    \A f \in FID, id \in 1..nextSeq - 1 : answers[f][id] = 1

\* Both counts of how far the board has come agree where each request is answered.
SentCountsAgree == mode \in {"SequenceID", "Window"} => CountsAgree

\* What the board counts as sent, and as served, is what it has answered, and it has passed
\* over no sequence ID without an answer.
ProgressCounted == SentCountsAgree /\ OnlyServedIgnored /\ NoSequenceSkipped
=============================================================================
