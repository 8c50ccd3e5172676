----------------------------- MODULE FragmentBuffer -----------------------------
(***************************************************************************)
(* A board reader in "sequence ID" request mode                            *)
(* (artdaq/DAQrate/FragmentBuffer.cc with its RequestBuffer).  Three       *)
(* threads work at once: the one of the generator adds Fragments, the one  *)
(* of RequestReceiver pushes requests, and the one of BoardReaderCore      *)
(* calls applyRequests again and again.  A call makes two passes: one over *)
(* a copy of the waiting requests, which hands over the Fragments they ask *)
(* for, and one over the requests that were sent so far.  In each,         *)
(* checkSentWindows removes a request that all Fragment IDs have sent, and *)
(* gives up the requests that are missing before one sent too long ago.    *)
(*                                                                         *)
(* Left out: stale_fragment_timeout (0 by default), the other request      *)
(* modes, system Fragments, and HighestRequestSeen, which the first pass   *)
(* has always moved up to the request checkSentWindows looks at.           *)
(***************************************************************************)
EXTENDS RequestBuffer

CONSTANTS
  FID,            \* the fragment IDs of the board: the keys of dataBuffers_
  Depth,          \* data_buffer_depth_fragments
  WindowTimeout,  \* may missing_request_window_timeout_us pass?
  MaxRuns         \* bound: the number of runs

ASSUME BoardConstants ==
  Depth \in Nat \ {0} /\ WindowTimeout \in BOOLEAN /\ MaxRuns \in Nat \ {0}

VARIABLES
  data,      \* DataBuffer: the sequence IDs of the Fragments held, per Fragment ID
  windows,   \* WindowsSent: the requests for which Fragments were handed over
  nextSeq,   \* next_sequence_id_
  pass,      \* the pass of applyRequests: "idle", "requests" or "windows"
  work,      \* the sequence IDs the pass has still to look at
  giveUp,    \* checkSentWindows gives up the requests up to this one; 0: none
  receiver,  \* "starting", "running" or "stopped": the thread of RequestReceiver
  run,       \* number of the run
  answers    \* history: how often a request of this run was answered

boardVars == <<data, windows, nextSeq, pass, work, giveUp, answers>>
fbVars == <<bufferVars, boardVars, receiver, run>>

Least(S) == CHOOSE x \in S : \A y \in S : x <= y

BoardInit ==
  /\ BufferInit
  /\ data = [f \in FID |-> {}] /\ windows = [f \in FID |-> {}] /\ nextSeq = 1
  /\ pass = "idle" /\ work = {} /\ giveUp = 0
  /\ receiver = "starting" /\ run = 1
  /\ answers = [f \in FID |-> [id \in ID |-> 0]]
-------------------------------------------------------------------------------
(* The threads of the generator and of RequestReceiver *)

\* AddFragmentsToBuffer.
AddFragment(f, id) ==
  /\ id \notin data[f]
  /\ data' = [data EXCEPT ![f] = @ \cup {id}]
  /\ UNCHANGED <<bufferVars, windows, nextSeq, pass, work, giveUp, receiver, run, answers>>

\* receiveRequestsLoop forgets the requests of the run before once it has started.
ReceiverStarts ==
  /\ receiver = "starting" /\ receiver' = "running"
  /\ Reset
  /\ UNCHANGED <<boardVars, run>>

\* receiveRequestsLoop ends some time after a datagram with mode EndOfRun.
ReceiverStops ==
  /\ receiver = "running" /\ receiver' = "stopped"
  /\ UNCHANGED <<bufferVars, boardVars, run>>

PushRequest(id) ==
  /\ receiver = "running"
  /\ Push(id)
  /\ UNCHANGED <<boardVars, receiver, run>>
-------------------------------------------------------------------------------
(* checkSentWindows *)

\* Mutant: a request is removed as soon as one Fragment ID has sent it.
SettlePartial(seq, sent) ==
  IF \E f \in FID : seq \in sent[f]
  THEN RemoveRequest(seq) /\ windows' = sent /\ UNCHANGED nextSeq
  ELSE windows' = sent /\ UNCHANGED <<bufferVars, nextSeq>>

\* The windows and requests after request seq was checked, where sent are the windows.
Settle(seq, sent) ==
  IF \A f \in FID : seq \in sent[f]
  THEN /\ RemoveRequest(seq)
       /\ nextSeq' = IF nextSeq = seq THEN nextSeq + 1 ELSE nextSeq
       /\ windows' = IF nextSeq = seq THEN [f \in FID |-> sent[f] \ {seq}] ELSE sent
  ELSE windows' = sent /\ UNCHANGED <<bufferVars, nextSeq>>

CheckSentWindows(seq, sent) ==
  /\ Settle(seq, sent)
  /\ \/ giveUp' = 0
     \/ /\ WindowTimeout /\ \E f \in FID : seq \in sent[f]
        /\ giveUp' = IF nextSeq' <= seq THEN seq ELSE 0

\* Mutant: the request is passed over but not removed.
GiveUpKept ==
  /\ giveUp > 0
  /\ windows' = [f \in FID |-> windows[f] \ {nextSeq}]
  /\ nextSeq' = nextSeq + 1
  /\ giveUp' = IF nextSeq < giveUp THEN giveUp ELSE 0
  /\ UNCHANGED <<bufferVars, data, pass, work, answers, receiver, run>>
\* One round of the loop that gives requests up.
GiveUpRequest ==
  /\ giveUp > 0
  /\ RemoveRequest(nextSeq)
  /\ windows' = [f \in FID |-> windows[f] \ {nextSeq}]
  /\ nextSeq' = nextSeq + 1
  /\ giveUp' = IF nextSeq < giveUp THEN giveUp ELSE 0
  /\ UNCHANGED <<data, pass, work, answers, receiver, run>>

-------------------------------------------------------------------------------
(* applyRequests and applyRequestsSequenceIDMode *)

\* checkDataBuffer drops Fragments while there are more than Depth.
Trimmed(f) ==
  IF Cardinality(data[f]) <= Depth THEN {data[f]}
  ELSE {kept \in SUBSET data[f] : Cardinality(kept) = Depth}

BeginPass ==
  /\ pass = "idle" /\ pass' = "requests"
  /\ data' \in {d \in [FID -> SUBSET ID] : \A f \in FID : d[f] \in Trimmed(f)}
  /\ work' = requests
  /\ UNCHANGED <<bufferVars, windows, nextSeq, giveUp, receiver, run, answers>>

\* Mutant: Fragments are handed over again for a request in WindowsSent.
AnsweredByAgain(seq) == {f \in FID : seq \in data[f]}

\* The Fragment IDs that hold a Fragment for the request and have not sent one yet.
AnsweredBy(seq) == {f \in FID : seq \in data[f] \ windows[f]}

ServeRequest ==
  LET seq == Least(work)
      by  == AnsweredBy(seq)
  IN /\ pass = "requests" /\ work # {} /\ giveUp = 0
     /\ data' = [f \in FID |-> IF f \in by THEN data[f] \ {seq} ELSE data[f]]
     /\ answers' = [f \in FID |-> [answers[f] EXCEPT ![seq] = IF f \in by THEN @ + 1 ELSE @]]
     /\ CheckSentWindows(seq, [f \in FID |-> IF f \in by THEN windows[f] \cup {seq} ELSE windows[f]])
     /\ work' = work \ {seq}
     /\ UNCHANGED <<pass, receiver, run>>

RecheckWindows ==
  /\ pass = "requests" /\ work = {} /\ giveUp = 0
  /\ pass' = "windows"
  /\ work' = UNION {windows[f] : f \in FID}
  /\ UNCHANGED <<bufferVars, data, windows, nextSeq, giveUp, receiver, run, answers>>

RecheckWindow ==
  /\ pass = "windows" /\ work # {} /\ giveUp = 0
  /\ CheckSentWindows(Least(work), windows)
  /\ work' = work \ {Least(work)}
  /\ UNCHANGED <<data, pass, receiver, run, answers>>

EndPass ==
  /\ pass = "windows" /\ work = {} /\ giveUp = 0
  /\ pass' = "idle"
  /\ UNCHANGED <<bufferVars, data, windows, nextSeq, work, giveUp, receiver, run, answers>>

ApplyRequests ==
  BeginPass \/ ServeRequest \/ RecheckWindows \/ RecheckWindow \/ GiveUpRequest \/ EndPass
-------------------------------------------------------------------------------
(* BoardReaderCore::stop and start: the threads are joined, FragmentBuffer::Reset is
   called and the threads are started again. *)

StartRun ==
  /\ run < MaxRuns /\ pass = "idle"
  /\ run' = run + 1 /\ receiver' = "starting"
  /\ data' = [f \in FID |-> {}] /\ nextSeq' = 1
  /\ answers' = [f \in FID |-> [id \in ID |-> 0]]
  /\ UNCHANGED <<bufferVars, windows, pass, work, giveUp>>

RunNext ==
  \/ \E f \in FID, id \in ID : AddFragment(f, id)
  \/ ReceiverStarts \/ ReceiverStops \/ ApplyRequests
  \/ \E id \in ID : PushRequest(id)

FBNext == RunNext \/ StartRun

\* One run of the board.
RunSpec == BoardInit /\ [][RunNext]_fbVars

FBSpec == BoardInit /\ [][FBNext]_fbVars
-------------------------------------------------------------------------------
(* Properties *)

BoardTypeOK ==
  /\ BufferTypeOK
  /\ data \in [FID -> SUBSET ID] /\ windows \in [FID -> SUBSET ID]
  /\ nextSeq \in 1..MaxID + 1 /\ giveUp \in {0} \cup ID
  /\ pass \in {"idle", "requests", "windows"} /\ work \subseteq ID
  /\ receiver \in {"starting", "running", "stopped"} /\ run \in 1..MaxRuns
  /\ answers \in [FID -> [ID -> Nat]]

\* The board counts twice how far it has come: RequestBuffer in highest_seen_request_,
\* FragmentBuffer in next_sequence_id_.  Between two passes the counts agree, whatever
\* the order in which requests and Fragments came and whatever was given up.
CountsAgree ==
  pass = "idle" /\ run = 1 /\ Increment = 1 => nextSeq = highestSeen + 1

\* In a run no Fragment ID answers a request twice, though the request is repeated while
\* only some of them have answered it and after it was removed, and though Fragments of
\* its sequence ID are acquired again.
AnsweredOnce == run = 1 => \A f \in FID, id \in ID : answers[f][id] <= 1

\* "Will not send any data for this sequence ID!": a request that was given up stays so,
\* when it arrives after all and when its data is acquired at last.
SettledForGood ==
  [][run' = 1 => \A f \in FID, id \in ID : id < nextSeq => answers'[f][id] = answers[f][id]]_fbVars

\* A request leaves the buffer only when it is given up or when every Fragment ID has
\* answered it.
Answered(id) == \A f \in FID : answers'[f][id] > 0

RemovedAnswered ==
  [][run = 1 => \A id \in requests \ requests' : giveUp > 0 \/ Answered(id)]_fbVars

=============================================================================
