------------------------------ MODULE RequestPath ------------------------------
(***************************************************************************)
(* The way of a data request from the event builder to a board reader,     *)
(* over several runs: RequestSender.cc keeps the requests of the open      *)
(* events and sends them all in one UDP datagram; the network may lose,    *)
(* repeat, delay and reorder datagrams; the thread of RequestReceiver.cc   *)
(* pushes what a datagram holds, one request at a time, while the threads  *)
(* of FragmentBuffer work.  The model lets each request of a datagram be   *)
(* lost, repeated and delayed by itself, which includes all of this.       *)
(*                                                                         *)
(* A run ends for the event builder with the EndOfData Fragments, which    *)
(* put RequestSender in EndOfRun mode; startRun then makes a new           *)
(* RequestSender.  The board reader starts a run of the same number, when  *)
(* it is told to: earlier or later than the event builder.                 *)
(***************************************************************************)
EXTENDS FragmentBuffer

CONSTANTS
  MaxRequests,  \* RequestMessage::max_request_count(): what one datagram can hold
  MaxSending    \* bound: threads in do_send_request_ at once

ASSUME PathConstants == MaxRequests \in Nat \ {0} /\ MaxSending \in Nat \ {0}

Run == 1..MaxRuns

VARIABLES
  builderRun,  \* number of the event builder's run
  request_mode_, \* "Normal" or "EndOfRun"
  opened,      \* history: the events opened in each run
  active,      \* active_requests_
  sending,     \* request_sending_: threads in do_send_request_
  requested,   \* history: the requests sent in each run, which may arrive at any time
  ended        \* history: the runs of which a datagram with mode EndOfRun was sent

senderVars == <<builderRun, request_mode_, opened, active, sending, requested, ended>>
vars == <<fbVars, senderVars>>

Init ==
  /\ BoardInit
  /\ builderRun = 1 /\ request_mode_ = "Normal" /\ active = {} /\ sending = 0
  /\ opened = [r \in Run |-> {}] /\ requested = [r \in Run |-> {}] /\ ended = {}
-------------------------------------------------------------------------------
(* The event builder: RequestSender *)

\* SendRequest starts a thread if the mode is EndOfRun or endOfRunOnly is false.
SendRequest(endOfRunOnly) ==
  IF endOfRunOnly /\ request_mode_' # "EndOfRun" THEN UNCHANGED sending
  ELSE sending < MaxSending /\ sending' = sending + 1

\* The requests of the MaxRequests highest IDs are kept.
KeepHighest(S) == {x \in S : Cardinality({y \in S : y > x}) < MaxRequests}

\* AddRequest, when the first Fragment of an event arrives; a datagram is sent if
\* min_request_interval_ms_ has passed since the last one.
OpenEvent(id) ==
  /\ id \notin opened[builderRun]
  /\ opened' = [opened EXCEPT ![builderRun] = @ \cup {id}]
  /\ active' = KeepHighest(active \cup {id})
  /\ UNCHANGED request_mode_ /\ \E tooSoon \in BOOLEAN : SendRequest(tooSoon)
  /\ UNCHANGED <<fbVars, builderRun, requested, ended>>

\* DoneWritingFragment; if the Fragment is the last of its event, or if the event timed
\* out, its request is removed.
FragmentDone(id) ==
  /\ id \in opened[builderRun]
  /\ active' \in {active, active \ {id}}
  /\ UNCHANGED request_mode_ /\ SendRequest(TRUE)
  /\ UNCHANGED <<fbVars, builderRun, opened, requested, ended>>

\* Mutant: do_send_request_ is not started when the mode changes.
EndOfDataSilent ==
  /\ request_mode_ = "Normal" /\ request_mode_' = "EndOfRun"
  /\ UNCHANGED <<fbVars, builderRun, opened, active, sending, requested, ended>>

\* SetRequestMode(EndOfRun), when an EndOfData Fragment arrives.
EndOfData ==
  /\ request_mode_ = "Normal" /\ request_mode_' = "EndOfRun"
  /\ SendRequest(TRUE)
  /\ UNCHANGED <<fbVars, builderRun, opened, active, requested, ended>>

\* do_send_request_: the datagram holds what is active when it is put together.
SendMessage ==
  /\ sending > 0 /\ sending' = sending - 1
  /\ requested' = [requested EXCEPT ![builderRun] = @ \cup active]
  /\ ended' = IF request_mode_ = "EndOfRun" THEN ended \cup {builderRun} ELSE ended
  /\ UNCHANGED <<fbVars, builderRun, request_mode_, opened, active>>

\* endRun, which waits for the threads, and startRun.
StartBuilderRun ==
  /\ builderRun < MaxRuns /\ request_mode_ = "EndOfRun" /\ sending = 0
  /\ builderRun' = builderRun + 1
  /\ request_mode_' = "Normal" /\ active' = {}
  /\ UNCHANGED <<fbVars, opened, sending, requested, ended>>
-------------------------------------------------------------------------------
(* The board reader: RequestReceiver and the threads of FragmentBuffer *)

\* Mutant: the run number is not looked at.
AcceptsAnyRun(r) == TRUE

Accepts(r) == r = run

\* A request of run r arrives: for the first time, late or once more.
Receive(r, id) ==
  /\ id \in requested[r] /\ Accepts(r)
  /\ PushRequest(id)
  /\ UNCHANGED senderVars

\* end_of_run_timeout_ms_ after the last datagram with mode EndOfRun.
EndOfRunReceived ==
  /\ \E r \in ended : Accepts(r)
  /\ ReceiverStops
  /\ UNCHANGED senderVars

\* The generator makes one Fragment of each sequence ID in a run.
Acquire(f, id) ==
  answers[f][id] = 0 /\ AddFragment(f, id) /\ UNCHANGED senderVars

BoardStep(A) == A /\ UNCHANGED senderVars
-------------------------------------------------------------------------------
Next ==
  \/ \E id \in ID : OpenEvent(id) \/ FragmentDone(id)
  \/ EndOfData \/ SendMessage \/ StartBuilderRun
  \/ \E r \in Run, id \in ID : Receive(r, id)
  \/ EndOfRunReceived
  \/ BoardStep(ReceiverStarts) \/ BoardStep(ApplyRequests) \/ BoardStep(StartRun)
  \/ \E f \in FID, id \in ID : Acquire(f, id)

Spec == Init /\ [][Next]_vars

\* Threads that can run do, boards acquire data and the sources end every run; whether
\* events are opened and what the network does is up to the environment.
Fairness ==
  /\ WF_vars(SendMessage) /\ WF_vars(EndOfData)
  /\ WF_vars(BoardStep(ReceiverStarts)) /\ WF_vars(BoardStep(ApplyRequests))
  /\ \A f \in FID, id \in ID : WF_vars(Acquire(f, id))

FairSpec == Spec /\ Fairness
-------------------------------------------------------------------------------
(* Properties *)

\* Once its receiver runs, a board waits only to serve events that were opened in its own
\* run: no datagram of the run before, however late, and no leftover in the buffer counts.
WaitingRequestsOpen == receiver # "starting" => requests \subseteq opened[run]

\* "Whether to send DataRequests when new sequence IDs are seen": a request that came too
\* soon after the last datagram, and after which no event was opened, is sent at the
\* latest when the run ends, unless its event was given up or pushed out of a full list.
RequestsSent == \A id \in ID :
  id \in active ~> (id \in requested[builderRun] \/ id \notin active)

\* A request that waits in the board is answered by every Fragment ID, if it is not
\* forgotten at the next start of a run.  (In later runs, see RequestsAnswered.)
WaitingAnswered == \A id \in ID :
  (id \in requests /\ run = 1) ~> (run # 1 \/ \A f \in FID : answers[f][id] > 0)

\* A request goes its whole way: from the event builder, and through the board.
RequestsProceed == RequestsSent /\ WaitingAnswered
=============================================================================
