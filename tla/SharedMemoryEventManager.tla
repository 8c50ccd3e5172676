----------------------- MODULE SharedMemoryEventManager -----------------------
(***************************************************************************)
(* Event building in shared memory: the receiver threads of                *)
(* artdaq/DAQrate/DataReceiverManager.cc (one thread per data source) put  *)
(* the Fragments of events into the buffers of                             *)
(* artdaq/DAQrate/SharedMemoryEventManager.cc, and an art process reads    *)
(* the events that were released.                                          *)
(*                                                                         *)
(* Every step between two acquisitions or releases of a lock is one        *)
(* action; pc[t] names the next step of thread t.  Two kinds of locks are  *)
(* modelled: sequence_id_mutex_ (seqLock), held across steps only while a  *)
(* new buffer is being initialised, and buffer_mutexes_[b] (bufLock[b]),   *)
(* held across steps by DoneWritingFragment.                               *)
(*                                                                         *)
(* The configuration modelled sends no routing tokens (the token part of   *)
(* check_pending_buffers_ is not in this module) and runs one run (the     *)
(* run transitions are not in this module).                                *)
(***************************************************************************)
EXTENDS Integers, Sequences, FiniteSets

CONSTANTS
  Thread,        \* receiver threads; thread t serves data source t
  FirstThread,   \* the lowest rank of running_sources_: its idle loop calls CheckPendingBuffers
  Buf,           \* shared memory buffers (buffer_count)
  MaxSeq,        \* bound: events 1..MaxSeq are sent
  N,             \* expected_fragments_per_event
  MaxEventList,  \* max_event_list_length
  Overwrite,     \* overwrite_mode_
  StaleTimeout,  \* whether stale_buffer_timeout_usec is nonzero
  NonReliable,   \* non_reliable_mode_enabled_
  MaxRetries,    \* max_retries of runReceiver_ (non reliable mode only)
  BodyMayFail,   \* whether receiveFragmentData may return an error
  NoThread, NoBuf

SeqID == 1..MaxSeq

ASSUME ConstantsAssumption ==
  /\ FirstThread \in Thread /\ NoThread \notin Thread
  /\ NoBuf \notin Buf
  /\ MaxSeq \in Nat /\ N \in Nat \ {0} /\ MaxEventList \in Nat /\ MaxRetries \in Nat
  /\ {Overwrite, StaleTimeout, NonReliable, BodyMayFail} \subseteq BOOLEAN

ASSUME FinitenessAssumption == IsFiniteSet(Thread) /\ IsFiniteSet(Buf)

VARIABLES
  pc, event, buf, pos, retries, drop,                  \* locals of the receiver threads
  seqLock, bufLock,                                    \* the mutexes
  sem, stale, hdrSeq, isComplete, slots,               \* shared memory
  writesPending, active, pending, released, incomplete, \* the manager's books
  requests, dropped, timesReleased

threadVars == <<event, buf, pos, retries, drop>>
lockVars   == <<seqLock, bufLock>>
shmVars    == <<sem, stale, hdrSeq, isComplete, slots>>
bookVars   == <<writesPending, active, pending, released, incomplete, requests, dropped, timesReleased>>
vars == <<pc, threadVars, lockVars, shmVars, bookVars>>

\* A Fragment in a buffer: its header was written, body tells whether the rest was.
Slot == [src : Thread, seq : SeqID, body : BOOLEAN, valid : BOOLEAN]

PCs == {"recv", "lookup", "init", "reserve", "header", "body",
        "done", "doneInvalid", "update", "finish", "count", "complete", "unrequest",
        "check", "unlock", "threw"}

Init ==
  /\ pc = [t \in Thread |-> "recv"]
  /\ event = [t \in Thread |-> 0]
  /\ buf = [t \in Thread |-> NoBuf]
  /\ pos = [t \in Thread |-> 0]
  /\ retries = [t \in Thread |-> 0]
  /\ drop = [t \in Thread |-> FALSE]
  /\ seqLock = NoThread
  /\ bufLock = [b \in Buf |-> NoThread]
  /\ sem = [b \in Buf |-> "Empty"]
  /\ stale = {}
  /\ hdrSeq = [b \in Buf |-> 0]
  /\ isComplete = [b \in Buf |-> FALSE]
  /\ slots = [b \in Buf |-> << >>]
  /\ writesPending = [b \in Buf |-> 0]
  /\ active = {} /\ pending = {}
  /\ released = {} /\ incomplete = {}
  /\ requests = {}
  /\ dropped = [f \in Thread \X SeqID |-> 0]
  /\ timesReleased = [e \in SeqID |-> 0]

Goto(t, label) == pc' = [pc EXCEPT ![t] = label]

-------------------------------------------------------------------------------
(* Shared helpers *)

\* The buffers GetBuffersOwnedByManager returns that carry event e.
Holding(e) == {b \in Buf : sem[b] = "Writing" /\ hdrSeq[b] = e}

\* Mutants: one of the two lists of released events is not consulted.
ForgetsIncomplete(e) == e \in released

\* getBufferForSequenceID_ answers -2: the event has been released.
AlreadyReleased(e) == e \in incomplete \/ e \in released

\* std::set::erase(begin()) until at most MaxEventList entries are left.
Trim(S) == {e \in S : Cardinality({f \in S : f > e}) < MaxEventList}

\* Abandoned buffers check_pending_buffers_ gives up on.
TimedOut == {b \in active : /\ sem[b] = "Writing" /\ b \in stale
                            /\ b \notin pending /\ writesPending[b] = 0}
ToRelease == pending \cup TimedOut

\* Mutant: complete buffers are taken off the books but not marked Full.
SemAfterCheckForgetful == [b \in Buf |-> IF b \in TimedOut THEN "Full" ELSE sem[b]]

SemAfterCheck == [b \in Buf |-> IF b \in ToRelease THEN "Full" ELSE sem[b]]

\* check_pending_buffers_, without its effect on sem (SemAfterCheck).
CheckPendingBooks ==
  LET timedOutEvents == {hdrSeq[b] : b \in TimedOut}
  IN /\ active' = active \ TimedOut
     /\ pending' = {}
     /\ incomplete' = incomplete \cup timedOutEvents
     /\ requests' = requests \ timedOutEvents
     /\ timesReleased' = [e \in SeqID |->
          timesReleased[e] + Cardinality({b \in ToRelease : hdrSeq[b] = e})]

\* GetBufferForWriting: an empty buffer or, in overwrite mode, one whose event
\* waits for art, or else one that art is reading.
WritableBuffers(s) ==
  LET In(state) == {b \in Buf : s[b] = state}
  IN IF In("Empty") # {} THEN In("Empty")
     ELSE IF ~Overwrite THEN {}
     ELSE IF In("Full") # {} THEN In("Full") ELSE In("Reading")

\* Mutant: the thread that is not the last writer does the bookkeeping.
LastWriterOffByOne(b) == writesPending[b] <= 2

\* DoneWritingFragment's test whether no other thread writes to the buffer.
LastWriter(b) == writesPending[b] <= 1

\* Mutant: the write is never taken back.
EndWriteLost(b) == UNCHANGED writesPending

EndWrite(b) == writesPending' = [writesPending EXCEPT ![b] = @ - 1]

\* Mutant: the bookkeeping is done without the buffer's mutex.
LockBufferSkipped(b, t) == UNCHANGED bufLock

LockBuffer(b, t) == bufLock' = [bufLock EXCEPT ![b] = t]

\* Mutant: the entry of dropped_data_ is not erased.
ForgetDroppedLost(t) == UNCHANGED dropped

\* The first entry of the list with this header is erased, if there is one.
ForgetDropped(t) ==
  dropped' = [dropped EXCEPT ![<<t, event[t]>>] = IF @ = 0 THEN 0 ELSE @ - 1]

Drop(t) == dropped' = [dropped EXCEPT ![<<t, event[t]>>] = @ + 1]

\* What runReceiver_ does when WriteFragmentHeader returns: once the retries are
\* used up in non reliable mode it calls WriteFragmentHeader again, with
\* dropIfNoBuffersAvailable, whether or not the first call returned memory.
WriteReturned(t, gotMemory) ==
  LET giveUp == NonReliable /\ ~drop[t] /\ retries[t] >= MaxRetries
  IN /\ Goto(t, IF giveUp \/ ~gotMemory THEN "lookup" ELSE "body")
     /\ drop' = [drop EXCEPT ![t] = giveUp]
     /\ retries' = [retries EXCEPT ![t] = IF NonReliable /\ @ < MaxRetries THEN @ + 1 ELSE @]

-------------------------------------------------------------------------------
(* runReceiver_ and WriteFragmentHeader *)

MoreToSend(t) == event[t] < MaxSeq

TakeHeader(t) ==
  /\ pc[t] = "recv"
  /\ event' = [event EXCEPT ![t] = @ + 1]
  /\ retries' = [retries EXCEPT ![t] = 0]
  /\ drop' = [drop EXCEPT ![t] = FALSE]
  /\ buf' = [buf EXCEPT ![t] = NoBuf]
  /\ pos' = [pos EXCEPT ![t] = 0]
  /\ Goto(t, "lookup")
  /\ UNCHANGED <<lockVars, shmVars, bookVars>>

\* receiveFragmentHeader succeeds: the source sends its Fragments in event order.
ReceiveHeader(t) == MoreToSend(t) /\ TakeHeader(t)

\* receiveFragmentHeader times out in the thread of the first running source.
IdleCheck(t) ==
  /\ pc[t] = "recv" /\ t = FirstThread
  /\ seqLock = NoThread
  /\ CheckPendingBooks
  /\ sem' = SemAfterCheck
  /\ UNCHANGED <<pc, threadVars, lockVars, stale, hdrSeq, isComplete, slots,
                 writesPending, released, dropped>>

LookupFound(t) ==
  /\ pc[t] = "lookup" /\ seqLock = NoThread
  /\ \E b \in Holding(event[t]) : buf' = [buf EXCEPT ![t] = b]
  /\ Goto(t, "reserve")
  /\ UNCHANGED <<event, pos, retries, drop, lockVars, shmVars, bookVars>>

\* The event has been released: the Fragment goes to dropped_data_.
LookupReleased(t) ==
  /\ pc[t] = "lookup" /\ seqLock = NoThread
  /\ Holding(event[t]) = {} /\ AlreadyReleased(event[t])
  /\ Drop(t)
  /\ buf' = [buf EXCEPT ![t] = NoBuf]
  /\ WriteReturned(t, TRUE)
  /\ UNCHANGED <<event, pos, lockVars, shmVars, writesPending, active, pending, released,
                 incomplete, requests, timesReleased>>

\* No buffer is to be had: drop the Fragment if told to, else report back-pressure.
LookupNoBuffer(t) ==
  /\ pc[t] = "lookup" /\ seqLock = NoThread
  /\ Holding(event[t]) = {} /\ ~AlreadyReleased(event[t])
  /\ WritableBuffers(SemAfterCheck) = {}
  /\ CheckPendingBooks
  /\ sem' = SemAfterCheck
  /\ IF drop[t] THEN Drop(t) ELSE UNCHANGED dropped
  /\ buf' = [buf EXCEPT ![t] = NoBuf]
  /\ WriteReturned(t, drop[t])
  /\ UNCHANGED <<event, pos, lockVars, stale, hdrSeq, isComplete, slots, writesPending, released>>

\* check_pending_buffers_ and GetBufferForWriting; the next event of a buffer that is
\* taken starts with no Fragments.
TakeBuffer(t) ==
  /\ pc[t] = "lookup" /\ seqLock = NoThread
  /\ Holding(event[t]) = {} /\ ~AlreadyReleased(event[t])
  /\ CheckPendingBooks
  /\ \E b \in WritableBuffers(SemAfterCheck) :
       /\ sem' = [SemAfterCheck EXCEPT ![b] = "Writing"]
       /\ slots' = [slots EXCEPT ![b] = << >>]
       /\ stale' = stale \ {b}
       /\ buf' = [buf EXCEPT ![t] = b]
  /\ Goto(t, "init")
  /\ UNCHANGED <<event, pos, retries, drop, bufLock, hdrSeq, isComplete, writesPending,
                 released, dropped>>

\* The thread takes a writable buffer and, still holding sequence_id_mutex_, goes
\* on to wait for the mutex of that buffer.
LookupGrab(t) == TakeBuffer(t) /\ seqLock' = t

InitBuffer(t) ==
  LET b == buf[t] IN
  /\ pc[t] = "init" /\ bufLock[b] = NoThread
  /\ isComplete' = [isComplete EXCEPT ![b] = FALSE]
  /\ hdrSeq' = [hdrSeq EXCEPT ![b] = event[t]]
  /\ writesPending' = [writesPending EXCEPT ![b] = 0]
  /\ active' = active \cup {b}
  /\ requests' = requests \cup {event[t]}
  /\ stale' = stale \ {b}
  /\ seqLock' = NoThread
  /\ Goto(t, "reserve")
  /\ UNCHANGED <<threadVars, bufLock, sem, slots, pending, released, incomplete,
                 dropped, timesReleased>>

\* buffer_writes_pending_[buffer]++, after sequence_id_mutex_ was released.
Reserve(t) ==
  /\ pc[t] = "reserve"
  /\ writesPending' = [writesPending EXCEPT ![buf[t]] = @ + 1]
  /\ Goto(t, "header")
  /\ UNCHANGED <<threadVars, lockVars, shmVars, active, pending, released, incomplete,
                 requests, dropped, timesReleased>>

\* The Fragment's header is written and room for its body set aside.  The shared
\* memory refuses a write to a buffer that is not in the Writing state.
WriteHeader(t) ==
  LET b == buf[t] IN
  /\ pc[t] = "header" /\ bufLock[b] = NoThread
  /\ sem[b] = "Writing"
  /\ slots' = [slots EXCEPT ![b] = Append(@,
       [src |-> t, seq |-> event[t], body |-> FALSE, valid |-> TRUE])]
  /\ pos' = [pos EXCEPT ![t] = Len(slots[b]) + 1]
  /\ stale' = stale \ {b}
  /\ WriteReturned(t, TRUE)
  /\ UNCHANGED <<event, buf, lockVars, sem, hdrSeq, isComplete, bookVars>>

WriteHeaderThrows(t) ==
  /\ pc[t] = "header" /\ bufLock[buf[t]] = NoThread
  /\ sem[buf[t]] # "Writing"
  /\ Goto(t, "threw")
  /\ UNCHANGED <<threadVars, lockVars, shmVars, bookVars>>

\* receiveFragmentData into the memory WriteFragmentHeader returned.
ReceiveBody(t) ==
  LET b == buf[t] IN
  /\ pc[t] = "body"
  /\ slots' = IF b = NoBuf \/ pos[t] \notin DOMAIN slots[b] THEN slots
              ELSE [slots EXCEPT ![b][pos[t]].body = TRUE]
  /\ Goto(t, "done")
  /\ UNCHANGED <<threadVars, lockVars, sem, stale, hdrSeq, isComplete, bookVars>>

\* receiveFragmentData fails: the header passed on is marked invalid.
ReceiveBodyFails(t) ==
  /\ BodyMayFail
  /\ pc[t] = "body"
  /\ Goto(t, "doneInvalid")
  /\ UNCHANGED <<threadVars, lockVars, shmVars, bookVars>>

-------------------------------------------------------------------------------
(* DoneWritingFragment, complete_buffer_ and CheckPendingBuffers *)

DoneFound(t) ==
  /\ pc[t] \in {"done", "doneInvalid"} /\ seqLock = NoThread
  /\ \E b \in Holding(event[t]) : buf' = [buf EXCEPT ![t] = b]
  /\ Goto(t, IF pc[t] = "done" THEN "finish" ELSE "update")
  /\ UNCHANGED <<event, pos, retries, drop, lockVars, shmVars, bookVars>>

\* No buffer holds the event: forget the dropped Fragment; if there is none and
\* the event was never released either, the manager detaches and throws.
DoneDropped(t) ==
  /\ pc[t] \in {"done", "doneInvalid"} /\ seqLock = NoThread
  /\ Holding(event[t]) = {}
  /\ ForgetDropped(t)
  /\ Goto(t, IF dropped[<<t, event[t]>>] > 0 \/ AlreadyReleased(event[t])
             THEN "recv" ELSE "threw")
  /\ UNCHANGED <<threadVars, lockVars, shmVars, writesPending, active, pending, released,
                 incomplete, requests, timesReleased>>

\* Mutant: the header in the buffer is left as it is.
UpdateFragmentHeaderSkipped(t) ==
  /\ pc[t] = "update"
  /\ Goto(t, "finish")
  /\ UNCHANGED <<threadVars, lockVars, shmVars, bookVars>>

\* UpdateFragmentHeader looks only at the first Fragment of the buffer: its loop
\* never moves on to the next one, so for any other Fragment it does not end.
UpdateFragmentHeader(t) ==
  LET b == buf[t] IN
  /\ pc[t] = "update"
  /\ \/ /\ slots[b] = << >>
        /\ UNCHANGED slots
     \/ /\ slots[b] # << >> /\ slots[b][1].src = t
        /\ slots' = [slots EXCEPT ![b][1].valid = FALSE]
  /\ Goto(t, "finish")
  /\ UNCHANGED <<threadVars, lockVars, sem, stale, hdrSeq, isComplete, bookVars>>

\* Another thread is still writing to the buffer: leave the bookkeeping to it.
FinishEarly(t) ==
  LET b == buf[t] IN
  /\ pc[t] = "finish" /\ bufLock[b] = NoThread
  /\ ~LastWriter(b)
  /\ stale' = stale \ {b}
  /\ EndWrite(b)
  /\ Goto(t, "recv")
  /\ UNCHANGED <<threadVars, lockVars, sem, hdrSeq, isComplete, slots, active, pending,
                 released, incomplete, requests, dropped, timesReleased>>

FinishLast(t) ==
  LET b == buf[t] IN
  /\ pc[t] = "finish" /\ bufLock[b] = NoThread
  /\ LastWriter(b)
  /\ stale' = stale \ {b}
  /\ LockBuffer(b, t)
  /\ Goto(t, "count")
  /\ UNCHANGED <<threadVars, seqLock, sem, hdrSeq, isComplete, slots, bookVars>>

\* GetFragmentCount counts headers, whether or not their bodies have arrived.
FragmentCount(e) ==
  IF Holding(e) = {} THEN 0 ELSE Len(slots[CHOOSE b \in Holding(e) : TRUE])

CountFragments(t) ==
  LET whole == FragmentCount(event[t]) >= N IN
  /\ pc[t] = "count" /\ seqLock = NoThread
  /\ isComplete' = [isComplete EXCEPT ![buf[t]] = whole]
  /\ Goto(t, IF whole THEN "complete" ELSE "check")
  /\ UNCHANGED <<threadVars, lockVars, sem, stale, hdrSeq, slots, bookVars>>

\* complete_buffer_, the section under sequence_id_mutex_.
CompleteBuffer(t) ==
  LET b == buf[t] IN
  /\ pc[t] = "complete" /\ seqLock = NoThread
  /\ active' = active \ {b}
  /\ pending' = pending \cup {b}
  /\ released' = Trim(released \cup {hdrSeq[b]})
  /\ Goto(t, "unrequest")
  /\ UNCHANGED <<threadVars, lockVars, shmVars, writesPending, incomplete, requests,
                 dropped, timesReleased>>

\* complete_buffer_: RemoveRequest(hdr->sequence_id), after the lock was released.
RemoveRequest(t) ==
  /\ pc[t] = "unrequest"
  /\ requests' = requests \ {hdrSeq[buf[t]]}
  /\ Goto(t, "check")
  /\ UNCHANGED <<threadVars, lockVars, shmVars, writesPending, active, pending, released,
                 incomplete, dropped, timesReleased>>

CheckPending(t) ==
  /\ pc[t] = "check" /\ seqLock = NoThread
  /\ CheckPendingBooks
  /\ sem' = SemAfterCheck
  /\ Goto(t, "unlock")
  /\ UNCHANGED <<threadVars, lockVars, stale, hdrSeq, isComplete, slots, writesPending,
                 released, dropped>>

\* buffer_writes_pending_[buffer]-- and the end of the scope of the buffer's lock.
DoneUnlock(t) ==
  LET b == buf[t] IN
  /\ pc[t] = "unlock"
  /\ EndWrite(b)
  /\ bufLock' = [bufLock EXCEPT ![b] = NoThread]
  /\ Goto(t, "recv")
  /\ UNCHANGED <<threadVars, seqLock, shmVars, active, pending, released, incomplete,
                 requests, dropped, timesReleased>>

-------------------------------------------------------------------------------
(* The art process and the clock *)

ArtRead(b) ==
  /\ sem[b] = "Full"
  /\ sem' = [sem EXCEPT ![b] = "Reading"]
  /\ UNCHANGED <<pc, threadVars, lockVars, stale, hdrSeq, isComplete, slots, bookVars>>

ArtDone(b) ==
  /\ sem[b] = "Reading"
  /\ sem' = [sem EXCEPT ![b] = "Empty"]
  /\ UNCHANGED <<pc, threadVars, lockVars, stale, hdrSeq, isComplete, slots, bookVars>>

\* stale_buffer_timeout_usec has passed since the buffer was last touched.
BufferTimeout(b) ==
  /\ StaleTimeout /\ sem[b] = "Writing" /\ b \notin stale
  /\ stale' = stale \cup {b}
  /\ UNCHANGED <<pc, threadVars, lockVars, sem, hdrSeq, isComplete, slots, bookVars>>

-------------------------------------------------------------------------------
Lookup(t) == LookupFound(t) \/ LookupReleased(t) \/ LookupNoBuffer(t) \/ LookupGrab(t)
WriteFragmentHeader(t) ==
  Lookup(t) \/ InitBuffer(t) \/ Reserve(t) \/ WriteHeader(t) \/ WriteHeaderThrows(t)
DoneWritingFragment(t) ==
  \/ DoneFound(t) \/ DoneDropped(t) \/ UpdateFragmentHeader(t)
  \/ FinishEarly(t) \/ FinishLast(t) \/ CountFragments(t) \/ CompleteBuffer(t)
  \/ RemoveRequest(t) \/ CheckPending(t) \/ DoneUnlock(t)
ThreadStep(t) ==
  \/ ReceiveHeader(t) \/ WriteFragmentHeader(t)
  \/ ReceiveBody(t) \/ ReceiveBodyFails(t) \/ DoneWritingFragment(t)
ArtStep(b) == ArtRead(b) \/ ArtDone(b)

\* An exception that leaves a receiver thread terminates the process.
Alive == \A t \in Thread : pc[t] # "threw"

Next ==
  /\ Alive
  /\ \/ \E t \in Thread : ThreadStep(t) \/ IdleCheck(t)
     \/ \E b \in Buf : ArtStep(b) \/ BufferTimeout(b)

Spec == Init /\ [][Next]_vars

\* The operating system schedules every thread that can run, sources keep
\* sending, and art keeps reading; the idle loop of the first source comes back.
Fairness ==
  /\ \A t \in Thread : WF_vars(Alive /\ ThreadStep(t))
  /\ \A t \in Thread : WF_vars(Alive /\ IdleCheck(t))
  /\ \A b \in Buf : WF_vars(Alive /\ ArtStep(b))

FairSpec == Spec /\ Fairness
-------------------------------------------------------------------------------
(* Properties *)

ThreadTypeOK ==
  /\ pc \in [Thread -> PCs]
  /\ event \in [Thread -> 0..MaxSeq]
  /\ buf \in [Thread -> Buf \cup {NoBuf}]
  /\ pos \in [Thread -> Nat]
  /\ retries \in [Thread -> 0..MaxRetries]
  /\ drop \in [Thread -> BOOLEAN]

LockTypeOK ==
  /\ seqLock \in Thread \cup {NoThread}
  /\ bufLock \in [Buf -> Thread \cup {NoThread}]

MemoryTypeOK ==
  /\ sem \in [Buf -> {"Empty", "Writing", "Full", "Reading"}]
  /\ stale \subseteq Buf
  /\ hdrSeq \in [Buf -> 0..MaxSeq]
  /\ isComplete \in [Buf -> BOOLEAN]
  /\ slots \in [Buf -> Seq(Slot)]

BooksTypeOK ==
  /\ writesPending \in [Buf -> Int]
  /\ active \subseteq Buf /\ pending \subseteq Buf
  /\ released \subseteq 0..MaxSeq /\ incomplete \subseteq 0..MaxSeq
  /\ requests \subseteq 0..MaxSeq
  /\ dropped \in [Thread \X SeqID -> Nat]
  /\ timesReleased \in [SeqID -> Nat]

TypeOK == ThreadTypeOK /\ LockTypeOK /\ MemoryTypeOK /\ BooksTypeOK

\* The buffers the manager works on: claimed and with an initialised header.
Open == active \cup pending

\* getBufferForSequenceID_ looks an event up and claims a buffer for it in one
\* critical section: no event is ever assembled in two buffers at once.
OneBufferPerEvent ==
  \A a, b \in Open : hdrSeq[a] = hdrSeq[b] => a = b

\* active_buffers_ and pending_buffers_ and the semaphores of the shared memory
\* agree: what is written to is in exactly one of the two, or is just being
\* initialised by the holder of sequence_id_mutex_.  Otherwise a buffer leaks.
BuffersBooked ==
  /\ active \cap pending = {}
  /\ \A b \in Buf : sem[b] = "Writing" <=>
       b \in Open \/ (seqLock # NoThread /\ buf[seqLock] = b)

\* Both hold also when buffers time out and Fragments come late or are surplus.
MemoryBooked == BuffersBooked /\ OneBufferPerEvent

\* The threads between buffer_writes_pending_[b]++ and buffer_writes_pending_[b]--.
Writers(b) == {t \in Thread : buf[t] = b /\
  pc[t] \in PCs \ {"recv", "lookup", "init", "reserve", "threw"}}

\* buffer_writes_pending_ counts the threads writing to the buffer; releasing an
\* event, complete or timed out, relies on it.
WritesPendingExact ==
  \A b \in Open : writesPending[b] = Cardinality(Writers(b))

\* So the books of the manager are right about the memory and the threads.
BooksMatchMemory == BuffersBooked /\ OneBufferPerEvent /\ WritesPendingExact

\* A complete event in the hands of art has the expected number of Fragments, from
\* different sources, all of this event and all wholly received.
CompleteEventsWhole ==
  \A b \in Buf : sem[b] \in {"Full", "Reading"} /\ isComplete[b] =>
    /\ Cardinality({slots[b][i].src : i \in DOMAIN slots[b]}) >= N
    /\ \A i \in DOMAIN slots[b] :
         slots[b][i].seq = hdrSeq[b] /\ (slots[b][i].body \/ ~slots[b][i].valid)

\* An event is given to art at most once (ART_SUPPORTS_DUPLICATE_EVENTS is 0).
ReleasedOnce == \A e \in SeqID : timesReleased[e] <= 1

\* As long as an event waits for Fragments its request is kept, and only then:
\* RemoveRequest reads the sequence ID from the buffer after the lock was released.
OpenEventsRequested ==
  requests = {hdrSeq[b] : b \in active \cup
                {buf[t] : t \in {u \in Thread : pc[u] = "unrequest"}}}

\* Data are consumed also for buffers that have timed out: dropped_data_ has one entry
\* for a Fragment that is dropped while it is received, and forgets it when it is done.
DroppedDataInUse ==
  \A t \in Thread, e \in SeqID : dropped[<<t, e>>] > 0 =>
    dropped[<<t, e>>] = 1 /\ pc[t] \in {"body", "done", "doneInvalid"} /\ event[t] = e

\* "configured to drop data after ... failed attempts": what an attempt has stored is
\* not stored again by the next.
StoredOnce ==
  \A b \in Buf : \A i, j \in DOMAIN slots[b] :
    slots[b][i].src = slots[b][j].src /\ slots[b][i].seq = slots[b][j].seq => i = j

\* A thread that holds sequence_id_mutex_ waits for the mutex of a buffer whose
\* holder waits for sequence_id_mutex_.
LockCycle ==
  \E t, u \in Thread : /\ pc[t] = "init" /\ seqLock = t /\ bufLock[buf[t]] = u
                       /\ pc[u] \in {"count", "complete", "check"}

\* A Fragment whose body failed is not the first in its buffer: UpdateFragmentHeader
\* compares the first one with it, again and again.
SearchForever ==
  \E t \in Thread : /\ pc[t] = "update" /\ slots[buf[t]] # << >>
                    /\ slots[buf[t]][1].src # t

\* Every event all of whose Fragments are sent is given to art in the end, unless
\* the threads lock each other out or one looks for a failed Fragment for ever:
\* nothing else stalls the event builder.
ReleasedUnlessStuck ==
  <>[](\/ \A e \in SeqID : timesReleased[e] = 1
      \/ LockCycle
      \/ SearchForever)

\* DoneWritingFragment: "Will check for buffer completeness, and unset the pending flag."
DoneReturns == \A t \in Thread : pc[t] = "done" ~> pc[t] = "recv"

=============================================================================
