------------------------------ MODULE EventTokens ------------------------------
(***************************************************************************)
(* The tokens of an event builder: check_pending_buffers_ of               *)
(* SharedMemoryEventManager compares the empty buffers with the tokens     *)
(* that are out, and TokenSender sends each token from a thread of its     *)
(* own, which counts it when it is sent.                                   *)
(*                                                                         *)
(* The routing manager gives an event to this event builder for each       *)
(* token.  Buffers are counted by their state; a buffer is overwritten     *)
(* only when it is empty (overwrite_mode_ is off).                         *)
(***************************************************************************)
EXTENDS Integers, FiniteSets

CONSTANTS queue_size_,
          MaxEvents,     \* bound: the events of a run
          MaxThreads     \* bound: the threads of one kind at a time

ASSUME TokenAssumption ==
  queue_size_ \in Nat \ {0, 1} /\ {MaxEvents, MaxThreads} \subseteq Nat

VARIABLES
  buf,          \* how many buffers are Empty, Writing, Full and Reading
  tokens_sent_,
  sending,      \* the threads that have to send: how many of one token and of queue_size_
  counting,     \* the threads that have sent and have to count
  granted,      \* the tokens the routing manager has
  assigned,     \* the events given out whose first Fragment is under way
  run_event_count_,
  raced         \* a check was made while a thread was not done

tokenVars == <<buf, tokens_sent_, sending, counting, granted, assigned, run_event_count_, raced>>

Slots == {1, queue_size_}
None == [n \in Slots |-> 0]

\* startRun sends a token for every buffer.
TokenInit ==
  /\ buf = [empty |-> queue_size_, writing |-> 0, full |-> 0, reading |-> 0]
  /\ tokens_sent_ = 0
  /\ sending = [None EXCEPT ![queue_size_] = 1]
  /\ counting = None
  /\ granted = 0 /\ assigned = 0 /\ run_event_count_ = 0 /\ raced = FALSE

Unfinished == sending # None \/ counting # None

-----------------------------------------------------------------------------
\* send_routing_token_
TokenThreadSends(n) ==
  /\ sending[n] > 0 /\ counting[n] < MaxThreads
  /\ sending' = [sending EXCEPT ![n] = @ - 1]
  /\ counting' = [counting EXCEPT ![n] = @ + 1]
  /\ granted' = granted + n
  /\ UNCHANGED <<buf, tokens_sent_, assigned, run_event_count_, raced>>

TokenThreadCounts(n) ==
  /\ counting[n] > 0
  /\ counting' = [counting EXCEPT ![n] = @ - 1]
  /\ tokens_sent_' = tokens_sent_ + n
  /\ UNCHANGED <<buf, sending, granted, assigned, run_event_count_, raced>>

\* The routing manager uses a token, and the senders their routes.
AssignEvent ==
  /\ granted > 0 /\ assigned + buf.writing + run_event_count_ < MaxEvents
  /\ granted' = granted - 1 /\ assigned' = assigned + 1
  /\ UNCHANGED <<buf, tokens_sent_, sending, counting, run_event_count_, raced>>

\* Mutant: a buffer that is full counts as available.
Available_full(b) == b.empty + b.full

\* WriteReadyCount
Available(b) == b.empty

\* Mutant: the events of the run are not taken off.
Outstanding_all(released) == tokens_sent_

\* GetSentTokenCount() - run_event_count_, an unsigned number: more than any number of
\* buffers when more events were released than are counted as sent.
Outstanding(released) ==
  IF tokens_sent_ < released THEN 2^16 + tokens_sent_ - released ELSE tokens_sent_ - released

\* check_pending_buffers_ with the buffers b and the events released so far: a thread for
\* every buffer without a token.
Check(b, released) ==
  LET more == Available(b) - Outstanding(released)
  IN  /\ sending[1] + (IF more > 0 THEN more ELSE 0) <= MaxThreads
      /\ sending' = IF more > 0 THEN [sending EXCEPT ![1] = @ + more] ELSE sending
      /\ raced' = (raced \/ Unfinished)

\* getBufferForSequenceID_ checks before it takes a buffer.
OpenBuffer ==
  /\ assigned > 0
  /\ Check(buf, run_event_count_)
  /\ IF buf.empty > 0
     THEN buf' = [buf EXCEPT !.empty = @ - 1, !.writing = @ + 1] /\ assigned' = assigned - 1
     ELSE UNCHANGED <<buf, assigned>>
  /\ UNCHANGED <<tokens_sent_, counting, granted, run_event_count_>>

\* complete_buffer_ or a timeout of the event: it is released, and then tokens are looked at.
ReleaseEvent ==
  /\ buf.writing > 0
  /\ buf' = [buf EXCEPT !.writing = @ - 1, !.full = @ + 1]
  /\ run_event_count_' = run_event_count_ + 1
  /\ Check(buf', run_event_count_')
  /\ UNCHANGED <<tokens_sent_, counting, granted, assigned>>

\* A receive timeout of the first running source.
CheckPendingBuffers ==
  /\ Check(buf, run_event_count_)
  /\ UNCHANGED <<buf, tokens_sent_, counting, granted, assigned, run_event_count_>>

ArtStartsReading ==
  /\ buf.full > 0
  /\ buf' = [buf EXCEPT !.full = @ - 1, !.reading = @ + 1]
  /\ UNCHANGED <<tokens_sent_, sending, counting, granted, assigned, run_event_count_, raced>>

ArtEndsReading ==
  /\ buf.reading > 0
  /\ buf' = [buf EXCEPT !.reading = @ - 1, !.empty = @ + 1]
  /\ UNCHANGED <<tokens_sent_, sending, counting, granted, assigned, run_event_count_, raced>>

TokenNext ==
  \/ \E n \in Slots : TokenThreadSends(n) \/ TokenThreadCounts(n)
  \/ AssignEvent \/ OpenBuffer \/ ReleaseEvent \/ CheckPendingBuffers
  \/ ArtStartsReading \/ ArtEndsReading

(***************************************************************************)
(* Threads run, the routing manager gives out events while it has tokens,  *)
(* Fragments arrive, art reads, and the receivers time out now and then.   *)
(***************************************************************************)
TokenFairness ==
  /\ \A n \in Slots : WF_tokenVars(TokenThreadSends(n)) /\ WF_tokenVars(TokenThreadCounts(n))
  /\ WF_tokenVars(AssignEvent) /\ WF_tokenVars(OpenBuffer) /\ WF_tokenVars(ReleaseEvent)
  /\ WF_tokenVars(CheckPendingBuffers)
  /\ WF_tokenVars(ArtStartsReading) /\ WF_tokenVars(ArtEndsReading)

-----------------------------------------------------------------------------
Promised == sending[1] + queue_size_ * sending[queue_size_] + granted + assigned

\* Events that were promised a buffer find one, if no check was made while the thread of a
\* token was not done: what is out never exceeds what is empty.
NoOvercommit == ~raced => Promised <= buf.empty

\* Whatever the threads do, tokens keep coming until all events are built.
EventsKeepComing == sending # None ~> run_event_count_ = MaxEvents
=============================================================================
