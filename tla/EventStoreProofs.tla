--------------------------- MODULE EventStoreProofs ---------------------------
(***************************************************************************)
(* What the event builder keeps in reliable mode, for any number of        *)
(* threads, buffers and events: its books are right about the memory and   *)
(* the threads, an event that is given to art is whole, and it is given    *)
(* once.  In this mode no time-out gives an event up, a header that finds  *)
(* no room is written again until there is some, and each event has one    *)
(* Fragment of each thread.  Bodies may fail, and with Overwrite the       *)
(* buffers art has not read or is reading are taken again.                 *)
(*                                                                         *)
(* The last part is about time-outs, late and surplus Fragments, as long   *)
(* as the list of released events forgets none of them: there the buffers  *)
(* are still booked, no event is given to art twice, the requests are kept *)
(* and the Fragments that come late are consumed.  What is in the buffers  *)
(* is another matter: a Fragment may be written to the next event.         *)
(***************************************************************************)
EXTENDS EventStoreRefinement, FiniteSetTheorems, TLAPS

-----------------------------------------------------------------------------
(* In every mode: what is of which type, and who has which mutex. *)

\* The steps of a receiver thread at which it works on a buffer of its own choosing.
AtBuffer == {"init", "reserve", "header", "update", "finish", "count", "complete",
             "unrequest", "check", "unlock"}

\* What the types rest on: which threads have a Fragment and which have a buffer.
ThreadInv ==
  /\ ThreadTypeOK
  /\ \A t \in Thread : pc[t] # "recv" => event[t] \in SeqID
  /\ \A t \in Thread : pc[t] \in AtBuffer => buf[t] \in Buf

TypeInv == ThreadInv /\ LockTypeOK /\ MemoryTypeOK /\ BooksTypeOK

\* The initial state is well typed.
LEMMA InitTypeInv == Init => TypeInv
BY ConstantsAssumption
   DEF Init, TypeInv, ThreadInv, ThreadTypeOK, LockTypeOK, MemoryTypeOK, BooksTypeOK, PCs, SeqID, AtBuffer

\* Releasing buffers to art keeps the books and the semaphores of their types: a
\* finite number of buffers is released, so the count of releases is a number.
LEMMA CheckPendingType ==
  ASSUME MemoryTypeOK, BooksTypeOK, CheckPendingBooks
  PROVE  /\ active' \subseteq Buf /\ pending' \subseteq Buf
         /\ incomplete' \subseteq 0..MaxSeq
         /\ requests' \subseteq 0..MaxSeq
         /\ timesReleased' \in [SeqID -> Nat]
         /\ SemAfterCheck \in [Buf -> {"Empty", "Writing", "Full", "Reading"}]
<1>1. TimedOut \subseteq Buf /\ ToRelease \subseteq Buf
  BY DEF BooksTypeOK, TimedOut, ToRelease
<1> DEFINE leaving(e) == Cardinality({b \in ToRelease : hdrSeq[b] = e})
<1>2. \A e \in SeqID : leaving(e) \in Nat
  BY <1>1, FinitenessAssumption, FS_Subset, FS_CardinalityType
<1>3. timesReleased' \in [SeqID -> Nat]
  <2>1. timesReleased' = [e \in SeqID |-> timesReleased[e] + leaving(e)]
    BY DEF CheckPendingBooks
  <2>2. timesReleased \in [SeqID -> Nat]
    BY DEF BooksTypeOK
  <2> HIDE DEF leaving
  <2> QED
    BY <1>2, <2>1, <2>2
<1>4. {hdrSeq[b] : b \in TimedOut} \subseteq 0..MaxSeq
  BY <1>1 DEF MemoryTypeOK
<1>5. SemAfterCheck \in [Buf -> {"Empty", "Writing", "Full", "Reading"}]
  BY DEF MemoryTypeOK, SemAfterCheck
<1> QED
  BY <1>1, <1>3, <1>4, <1>5 DEF BooksTypeOK, CheckPendingBooks

\* What is noted and forgotten of dropped Fragments is counted.
LEMMA DroppedCounts ==
  ASSUME TypeInv, NEW t \in Thread, pc[t] # "recv"
  PROVE  /\ dropped \in [Thread \X SeqID -> Nat] /\ <<t, event[t]>> \in Thread \X SeqID
         /\ Drop(t) \/ ForgetDropped(t) => dropped' \in [Thread \X SeqID -> Nat]
<1>1. dropped \in [Thread \X SeqID -> Nat] /\ <<t, event[t]>> \in Thread \X SeqID
  BY DEF TypeInv, ThreadInv, BooksTypeOK
<1> DEFINE w == <<t, event[t]>>
<1> HIDE DEF w
<1>2. ASSUME NEW n \in Nat PROVE [dropped EXCEPT ![w] = n] \in [Thread \X SeqID -> Nat]
  BY <1>1, <1>2
<1>3. w \in Thread \X SeqID
  BY <1>1 DEF w
<1>4. dropped[w] + 1 \in Nat /\ (IF dropped[w] = 0 THEN 0 ELSE dropped[w] - 1) \in Nat
  BY <1>1, <1>3
<1> QED
  BY <1>1, <1>2, <1>4 DEF w, Drop, ForgetDropped

\* Setting a flag of a Fragment that is in a buffer keeps the buffers' type.
LEMMA SlotUpdateType ==
  ASSUME slots \in [Buf -> Seq(Slot)],
         NEW b \in Buf, NEW i \in DOMAIN slots[b]
  PROVE  /\ [slots EXCEPT ![b][i].body = TRUE] \in [Buf -> Seq(Slot)]
         /\ [slots EXCEPT ![b][i].valid = FALSE] \in [Buf -> Seq(Slot)]
<1>1. slots[b] \in Seq(Slot) /\ slots[b][i] \in Slot
  OBVIOUS
<1>2. /\ [slots[b][i] EXCEPT !.body = TRUE] \in Slot
      /\ [slots[b][i] EXCEPT !.valid = FALSE] \in Slot
  BY <1>1 DEF Slot
<1>3. ASSUME NEW s \in Slot PROVE [slots[b] EXCEPT ![i] = s] \in Seq(Slot)
  BY <1>1
<1> QED
  BY <1>1, <1>2, <1>3

\* Every action keeps the types; one step per action.
LEMMA NextTypeInv == TypeInv /\ [Next]_vars => TypeInv'
<1> SUFFICES ASSUME TypeInv, [Next]_vars
             PROVE  TypeInv'
  OBVIOUS
<1> USE ConstantsAssumption DEF TypeInv, SeqID, threadVars, lockVars, shmVars, bookVars
<1>1. ASSUME NEW t \in Thread, ReceiveHeader(t) PROVE TypeInv'
  <2>1. ThreadInv'
    BY <1>1 DEF ReceiveHeader, ThreadInv, ThreadTypeOK, PCs, AtBuffer, Goto, MoreToSend, TakeHeader
  <2>2. LockTypeOK'
    BY <1>1 DEF ReceiveHeader, LockTypeOK, TakeHeader
  <2>3. MemoryTypeOK'
    BY <1>1 DEF ReceiveHeader, MemoryTypeOK, TakeHeader
  <2>4. BooksTypeOK'
    BY <1>1 DEF ReceiveHeader, BooksTypeOK, TakeHeader
  <2> QED
    BY <2>1, <2>2, <2>3, <2>4
<1>2. ASSUME NEW t \in Thread, LookupFound(t) PROVE TypeInv'
  <2>1. ThreadInv'
    BY <1>2 DEF LookupFound, ThreadInv, ThreadTypeOK, PCs, AtBuffer, Goto, Holding
  <2>2. LockTypeOK'
    BY <1>2 DEF LookupFound, LockTypeOK
  <2>3. MemoryTypeOK'
    BY <1>2 DEF LookupFound, MemoryTypeOK
  <2>4. BooksTypeOK'
    BY <1>2 DEF LookupFound, BooksTypeOK
  <2> QED
    BY <2>1, <2>2, <2>3, <2>4
<1>3. ASSUME NEW t \in Thread, LookupReleased(t) PROVE TypeInv'
  <2>1. ThreadInv'
    BY <1>3 DEF LookupReleased, ThreadInv, ThreadTypeOK, PCs, AtBuffer, Goto, WriteReturned
  <2>2. LockTypeOK'
    BY <1>3 DEF LookupReleased, LockTypeOK
  <2>3. MemoryTypeOK'
    BY <1>3 DEF LookupReleased, MemoryTypeOK
  <2>4. BooksTypeOK'
    BY <1>3, DroppedCounts DEF LookupReleased, BooksTypeOK
  <2> QED
    BY <2>1, <2>2, <2>3, <2>4
<1>4. ASSUME NEW t \in Thread, LookupNoBuffer(t) PROVE TypeInv'
  <2>1. ThreadInv'
    BY <1>4 DEF LookupNoBuffer, ThreadInv, ThreadTypeOK, PCs, AtBuffer, Goto, WriteReturned
  <2>2. LockTypeOK'
    BY <1>4 DEF LookupNoBuffer, LockTypeOK
  <2>3. MemoryTypeOK'
    BY <1>4, CheckPendingType DEF LookupNoBuffer, MemoryTypeOK
  <2>4. BooksTypeOK'
    <3>1. dropped' \in [Thread \X SeqID -> Nat]
      BY <1>4, DroppedCounts DEF LookupNoBuffer, BooksTypeOK
    <3>2. CheckPendingBooks /\ UNCHANGED <<writesPending, released>>
      BY <1>4 DEF LookupNoBuffer
    <3> QED
      BY <3>1, <3>2, CheckPendingType DEF BooksTypeOK
  <2> QED
    BY <2>1, <2>2, <2>3, <2>4
<1>5. ASSUME NEW t \in Thread, LookupGrab(t) PROVE TypeInv'
  <2>1. ThreadInv'
    BY <1>5 DEF LookupGrab, ThreadInv, ThreadTypeOK, PCs, AtBuffer, Goto, TakeBuffer, WritableBuffers
  <2>2. LockTypeOK'
    BY <1>5 DEF LookupGrab, LockTypeOK, TakeBuffer
  <2>3. MemoryTypeOK'
    BY <1>5, CheckPendingType DEF LookupGrab, MemoryTypeOK, TakeBuffer, WritableBuffers
  <2>4. BooksTypeOK'
    BY <1>5, CheckPendingType DEF LookupGrab, BooksTypeOK, TakeBuffer
  <2> QED
    BY <2>1, <2>2, <2>3, <2>4
<1>6. ASSUME NEW t \in Thread, InitBuffer(t) PROVE TypeInv'
  <2>1. ThreadInv'
    BY <1>6 DEF InitBuffer, ThreadInv, ThreadTypeOK, PCs, AtBuffer, Goto
  <2>2. LockTypeOK'
    BY <1>6 DEF InitBuffer, LockTypeOK
  <2>3. MemoryTypeOK'
    BY <1>6 DEF InitBuffer, MemoryTypeOK, ThreadInv, ThreadTypeOK, AtBuffer
  <2>4. BooksTypeOK'
    <3>1. buf[t] \in Buf
      BY <1>6 DEF InitBuffer, ThreadInv, AtBuffer
    <3>2. event[t] \in 0..MaxSeq
      BY DEF ThreadInv, ThreadTypeOK
    <3>3. writesPending' \in [Buf -> Int]
      BY <1>6, <3>1 DEF InitBuffer, BooksTypeOK
    <3> QED
      BY <1>6, <3>1, <3>2, <3>3 DEF InitBuffer, BooksTypeOK
  <2> QED
    BY <2>1, <2>2, <2>3, <2>4
<1>7. ASSUME NEW t \in Thread, Reserve(t) PROVE TypeInv'
  <2>1. ThreadInv'
    BY <1>7 DEF Reserve, ThreadInv, ThreadTypeOK, PCs, AtBuffer, Goto
  <2>2. LockTypeOK'
    BY <1>7 DEF Reserve, LockTypeOK
  <2>3. MemoryTypeOK'
    BY <1>7 DEF Reserve, MemoryTypeOK
  <2>4. BooksTypeOK'
    <3>1. buf[t] \in Buf
      BY <1>7 DEF Reserve, ThreadInv, AtBuffer
    <3>2. writesPending' \in [Buf -> Int]
      BY <1>7, <3>1 DEF Reserve, BooksTypeOK
    <3> QED
      BY <1>7, <3>2 DEF Reserve, BooksTypeOK
  <2> QED
    BY <2>1, <2>2, <2>3, <2>4
<1>8. ASSUME NEW t \in Thread, WriteHeader(t) PROVE TypeInv'
  <2>1. ThreadInv'
    BY <1>8 DEF WriteHeader, ThreadInv, ThreadTypeOK, PCs, AtBuffer, Goto, WriteReturned, MemoryTypeOK
  <2>2. LockTypeOK'
    BY <1>8 DEF WriteHeader, LockTypeOK
  <2>3. MemoryTypeOK'
    <3>1. buf[t] \in Buf
      BY <1>8 DEF WriteHeader, ThreadInv, AtBuffer
    <3> DEFINE new == [src |-> t, seq |-> event[t], body |-> FALSE, valid |-> TRUE]
    <3>2. event[t] \in 1..MaxSeq
      BY <1>8 DEF WriteHeader, ThreadInv
    <3>3. new \in Slot
      BY <3>2 DEF Slot
    <3>4. slots' = [slots EXCEPT ![buf[t]] = Append(slots[buf[t]], new)]
      BY <1>8, <3>1 DEF WriteHeader, MemoryTypeOK
    <3> HIDE DEF new
    <3>5. Append(slots[buf[t]], new) \in Seq(Slot)
      BY <3>1, <3>3 DEF MemoryTypeOK
    <3>6. slots' \in [Buf -> Seq(Slot)]
      BY <3>1, <3>4, <3>5 DEF MemoryTypeOK
    <3> QED
      BY <1>8, <3>6 DEF WriteHeader, MemoryTypeOK
  <2>4. BooksTypeOK'
    BY <1>8 DEF WriteHeader, BooksTypeOK
  <2> QED
    BY <2>1, <2>2, <2>3, <2>4
<1>9. ASSUME NEW t \in Thread, WriteHeaderThrows(t) PROVE TypeInv'
  <2>1. ThreadInv'
    BY <1>9 DEF WriteHeaderThrows, ThreadInv, ThreadTypeOK, PCs, AtBuffer, Goto
  <2>2. LockTypeOK'
    BY <1>9 DEF WriteHeaderThrows, LockTypeOK
  <2>3. MemoryTypeOK'
    BY <1>9 DEF WriteHeaderThrows, MemoryTypeOK
  <2>4. BooksTypeOK'
    BY <1>9 DEF WriteHeaderThrows, BooksTypeOK
  <2> QED
    BY <2>1, <2>2, <2>3, <2>4
<1>10. ASSUME NEW t \in Thread, ReceiveBody(t) PROVE TypeInv'
  <2>1. ThreadInv'
    BY <1>10 DEF ReceiveBody, ThreadInv, ThreadTypeOK, PCs, AtBuffer, Goto
  <2>2. LockTypeOK'
    BY <1>10 DEF ReceiveBody, LockTypeOK
  <2>3. MemoryTypeOK'
    <3>1. slots' \in [Buf -> Seq(Slot)]
      BY <1>10, SlotUpdateType DEF ReceiveBody, MemoryTypeOK
    <3> QED
      BY <1>10, <3>1 DEF ReceiveBody, MemoryTypeOK
  <2>4. BooksTypeOK'
    BY <1>10 DEF ReceiveBody, BooksTypeOK
  <2> QED
    BY <2>1, <2>2, <2>3, <2>4
<1>11. ASSUME NEW t \in Thread, ReceiveBodyFails(t) PROVE TypeInv'
  <2>1. ThreadInv'
    BY <1>11 DEF ReceiveBodyFails, ThreadInv, ThreadTypeOK, PCs, AtBuffer, Goto
  <2>2. LockTypeOK'
    BY <1>11 DEF ReceiveBodyFails, LockTypeOK
  <2>3. MemoryTypeOK'
    BY <1>11 DEF ReceiveBodyFails, MemoryTypeOK
  <2>4. BooksTypeOK'
    BY <1>11 DEF ReceiveBodyFails, BooksTypeOK
  <2> QED
    BY <2>1, <2>2, <2>3, <2>4
<1>12. ASSUME NEW t \in Thread, DoneFound(t) PROVE TypeInv'
  <2>1. ThreadInv'
    BY <1>12 DEF DoneFound, ThreadInv, ThreadTypeOK, PCs, AtBuffer, Goto, Holding
  <2>2. LockTypeOK'
    BY <1>12 DEF DoneFound, LockTypeOK
  <2>3. MemoryTypeOK'
    BY <1>12 DEF DoneFound, MemoryTypeOK
  <2>4. BooksTypeOK'
    BY <1>12 DEF DoneFound, BooksTypeOK
  <2> QED
    BY <2>1, <2>2, <2>3, <2>4
<1>13. ASSUME NEW t \in Thread, DoneDropped(t) PROVE TypeInv'
  <2>1. ThreadInv'
    BY <1>13 DEF DoneDropped, ThreadInv, ThreadTypeOK, PCs, AtBuffer, Goto
  <2>2. LockTypeOK'
    BY <1>13 DEF DoneDropped, LockTypeOK
  <2>3. MemoryTypeOK'
    BY <1>13 DEF DoneDropped, MemoryTypeOK
  <2>4. BooksTypeOK'
    BY <1>13, DroppedCounts DEF DoneDropped, BooksTypeOK
  <2> QED
    BY <2>1, <2>2, <2>3, <2>4
<1>14. ASSUME NEW t \in Thread, UpdateFragmentHeader(t) PROVE TypeInv'
  <2>1. ThreadInv'
    BY <1>14 DEF UpdateFragmentHeader, ThreadInv, ThreadTypeOK, PCs, AtBuffer, Goto
  <2>2. LockTypeOK'
    BY <1>14 DEF UpdateFragmentHeader, LockTypeOK
  <2>3. MemoryTypeOK'
    <3>1. buf[t] \in Buf
      BY <1>14 DEF UpdateFragmentHeader, ThreadInv, AtBuffer
    <3>2. slots[buf[t]] # << >> => 1 \in DOMAIN slots[buf[t]]
      BY <3>1 DEF MemoryTypeOK
    <3>3. slots \in [Buf -> Seq(Slot)]
      BY DEF MemoryTypeOK
    <3>4. slots[buf[t]] # << >> => [slots EXCEPT ![buf[t]][1].valid = FALSE] \in [Buf -> Seq(Slot)]
      BY <3>1, <3>2, <3>3, SlotUpdateType, Zenon
    <3>5. slots' = slots \/ (slots[buf[t]] # << >> /\ slots' = [slots EXCEPT ![buf[t]][1].valid = FALSE])
      BY <1>14, Zenon DEF UpdateFragmentHeader
    <3>6. slots' \in [Buf -> Seq(Slot)]
      BY <3>3, <3>4, <3>5, Zenon
    <3> QED
      BY <1>14, <3>6 DEF UpdateFragmentHeader, MemoryTypeOK
  <2>4. BooksTypeOK'
    BY <1>14 DEF UpdateFragmentHeader, BooksTypeOK
  <2> QED
    BY <2>1, <2>2, <2>3, <2>4
<1>15. ASSUME NEW t \in Thread, FinishEarly(t) PROVE TypeInv'
  <2>1. ThreadInv'
    BY <1>15 DEF FinishEarly, ThreadInv, ThreadTypeOK, PCs, AtBuffer, Goto
  <2>2. LockTypeOK'
    BY <1>15 DEF FinishEarly, LockTypeOK
  <2>3. MemoryTypeOK'
    BY <1>15 DEF FinishEarly, MemoryTypeOK
  <2>4. BooksTypeOK'
    <3>1. buf[t] \in Buf
      BY <1>15 DEF FinishEarly, ThreadInv, AtBuffer
    <3>2. writesPending' \in [Buf -> Int]
      BY <1>15, <3>1 DEF FinishEarly, BooksTypeOK, EndWrite
    <3> QED
      BY <1>15, <3>2 DEF FinishEarly, BooksTypeOK
  <2> QED
    BY <2>1, <2>2, <2>3, <2>4
<1>16. ASSUME NEW t \in Thread, FinishLast(t) PROVE TypeInv'
  <2>1. ThreadInv'
    BY <1>16 DEF FinishLast, ThreadInv, ThreadTypeOK, PCs, AtBuffer, Goto
  <2>2. LockTypeOK'
    BY <1>16 DEF FinishLast, LockTypeOK, LockBuffer
  <2>3. MemoryTypeOK'
    BY <1>16 DEF FinishLast, MemoryTypeOK
  <2>4. BooksTypeOK'
    BY <1>16 DEF FinishLast, BooksTypeOK
  <2> QED
    BY <2>1, <2>2, <2>3, <2>4
<1>17. ASSUME NEW t \in Thread, CountFragments(t) PROVE TypeInv'
  <2>1. ThreadInv'
    BY <1>17 DEF CountFragments, ThreadInv, ThreadTypeOK, PCs, AtBuffer, Goto
  <2>2. LockTypeOK'
    BY <1>17 DEF CountFragments, LockTypeOK
  <2>3. MemoryTypeOK'
    <3>1. isComplete' \in [Buf -> BOOLEAN]
      <4> DEFINE whole == FragmentCount(event[t]) >= N
      <4>1. whole \in BOOLEAN
        OBVIOUS
      <4>2. isComplete' = [isComplete EXCEPT ![buf[t]] = whole]
        BY <1>17 DEF CountFragments
      <4> HIDE DEF whole
      <4> QED
        BY <4>1, <4>2 DEF MemoryTypeOK
    <3> QED
      BY <1>17, <3>1 DEF CountFragments, MemoryTypeOK
  <2>4. BooksTypeOK'
    BY <1>17 DEF CountFragments, BooksTypeOK
  <2> QED
    BY <2>1, <2>2, <2>3, <2>4
<1>18. ASSUME NEW t \in Thread, CompleteBuffer(t) PROVE TypeInv'
  <2>1. ThreadInv'
    BY <1>18 DEF CompleteBuffer, ThreadInv, ThreadTypeOK, PCs, AtBuffer, Goto
  <2>2. LockTypeOK'
    BY <1>18 DEF CompleteBuffer, LockTypeOK
  <2>3. MemoryTypeOK'
    BY <1>18 DEF CompleteBuffer, MemoryTypeOK
  <2>4. BooksTypeOK'
    <3>1. buf[t] \in Buf
      BY <1>18 DEF CompleteBuffer, ThreadInv, AtBuffer
    <3>2. hdrSeq[buf[t]] \in 0..MaxSeq
      BY <3>1 DEF MemoryTypeOK
    <3>3. Trim(released \cup {hdrSeq[buf[t]]}) \subseteq released \cup {hdrSeq[buf[t]]}
      BY DEF Trim
    <3>4. released' \subseteq 0..MaxSeq
      BY <1>18, <3>2, <3>3 DEF CompleteBuffer, BooksTypeOK
    <3> QED
      BY <1>18, <3>1, <3>4 DEF CompleteBuffer, BooksTypeOK
  <2> QED
    BY <2>1, <2>2, <2>3, <2>4
<1>19. ASSUME NEW t \in Thread, RemoveRequest(t) PROVE TypeInv'
  <2>1. ThreadInv'
    BY <1>19 DEF RemoveRequest, ThreadInv, ThreadTypeOK, PCs, AtBuffer, Goto
  <2>2. LockTypeOK'
    BY <1>19 DEF RemoveRequest, LockTypeOK
  <2>3. MemoryTypeOK'
    BY <1>19 DEF RemoveRequest, MemoryTypeOK
  <2>4. BooksTypeOK'
    BY <1>19 DEF RemoveRequest, BooksTypeOK
  <2> QED
    BY <2>1, <2>2, <2>3, <2>4
<1>20. ASSUME NEW t \in Thread, CheckPending(t) PROVE TypeInv'
  <2>1. ThreadInv'
    BY <1>20 DEF CheckPending, ThreadInv, ThreadTypeOK, PCs, AtBuffer, Goto
  <2>2. LockTypeOK'
    BY <1>20 DEF CheckPending, LockTypeOK
  <2>3. MemoryTypeOK'
    BY <1>20, CheckPendingType DEF CheckPending, MemoryTypeOK
  <2>4. BooksTypeOK'
    BY <1>20, CheckPendingType DEF CheckPending, BooksTypeOK
  <2> QED
    BY <2>1, <2>2, <2>3, <2>4
<1>21. ASSUME NEW t \in Thread, DoneUnlock(t) PROVE TypeInv'
  <2>1. ThreadInv'
    BY <1>21 DEF DoneUnlock, ThreadInv, ThreadTypeOK, PCs, AtBuffer, Goto
  <2>2. LockTypeOK'
    BY <1>21 DEF DoneUnlock, LockTypeOK
  <2>3. MemoryTypeOK'
    BY <1>21 DEF DoneUnlock, MemoryTypeOK
  <2>4. BooksTypeOK'
    <3>1. buf[t] \in Buf
      BY <1>21 DEF DoneUnlock, ThreadInv, AtBuffer
    <3>2. writesPending' \in [Buf -> Int]
      BY <1>21, <3>1 DEF DoneUnlock, BooksTypeOK, EndWrite
    <3> QED
      BY <1>21, <3>2 DEF DoneUnlock, BooksTypeOK
  <2> QED
    BY <2>1, <2>2, <2>3, <2>4
<1>22. ASSUME NEW t \in Thread, IdleCheck(t) PROVE TypeInv'
  <2>1. ThreadInv'
    BY <1>22 DEF IdleCheck, ThreadInv, ThreadTypeOK, PCs, AtBuffer, Goto
  <2>2. LockTypeOK'
    BY <1>22 DEF IdleCheck, LockTypeOK
  <2>3. MemoryTypeOK'
    BY <1>22, CheckPendingType DEF IdleCheck, MemoryTypeOK
  <2>4. BooksTypeOK'
    BY <1>22, CheckPendingType DEF IdleCheck, BooksTypeOK
  <2> QED
    BY <2>1, <2>2, <2>3, <2>4
<1>23. ASSUME NEW b \in Buf, ArtRead(b) PROVE TypeInv'
  <2>1. ThreadInv'
    BY <1>23 DEF ArtRead, ThreadInv, ThreadTypeOK, PCs, AtBuffer, Goto
  <2>2. LockTypeOK'
    BY <1>23 DEF ArtRead, LockTypeOK
  <2>3. MemoryTypeOK'
    BY <1>23 DEF ArtRead, MemoryTypeOK
  <2>4. BooksTypeOK'
    BY <1>23 DEF ArtRead, BooksTypeOK
  <2> QED
    BY <2>1, <2>2, <2>3, <2>4
<1>24. ASSUME NEW b \in Buf, ArtDone(b) PROVE TypeInv'
  <2>1. ThreadInv'
    BY <1>24 DEF ArtDone, ThreadInv, ThreadTypeOK, PCs, AtBuffer, Goto
  <2>2. LockTypeOK'
    BY <1>24 DEF ArtDone, LockTypeOK
  <2>3. MemoryTypeOK'
    BY <1>24 DEF ArtDone, MemoryTypeOK
  <2>4. BooksTypeOK'
    BY <1>24 DEF ArtDone, BooksTypeOK
  <2> QED
    BY <2>1, <2>2, <2>3, <2>4
<1>25. ASSUME NEW b \in Buf, BufferTimeout(b) PROVE TypeInv'
  <2>1. ThreadInv'
    BY <1>25 DEF BufferTimeout, ThreadInv, ThreadTypeOK, PCs, AtBuffer, Goto
  <2>2. LockTypeOK'
    BY <1>25 DEF BufferTimeout, LockTypeOK
  <2>3. MemoryTypeOK'
    BY <1>25 DEF BufferTimeout, MemoryTypeOK
  <2>4. BooksTypeOK'
    BY <1>25 DEF BufferTimeout, BooksTypeOK
  <2> QED
    BY <2>1, <2>2, <2>3, <2>4
<1>26. CASE UNCHANGED vars
  BY <1>26 DEF vars, ThreadInv, ThreadTypeOK, LockTypeOK, MemoryTypeOK, BooksTypeOK
<1> QED
  BY <1>1, <1>2, <1>3, <1>4, <1>5, <1>6, <1>7, <1>8, <1>9, <1>10, <1>11, <1>12, <1>13, <1>14, <1>15, <1>16, <1>17, <1>18, <1>19, <1>20, <1>21, <1>22, <1>23, <1>24, <1>25, <1>26
  DEF Next, ThreadStep, WriteFragmentHeader, Lookup, DoneWritingFragment, ArtStep

\* Type correctness of the event builder, for any number of threads, buffers and events.
THEOREM TypeCorrect == Spec => []TypeOK
<1>1. TypeInv => TypeOK
  BY DEF TypeInv, ThreadInv, TypeOK
<1> QED
  BY InitTypeInv, NextTypeInv, <1>1, PTL DEF Spec

-----------------------------------------------------------------------------
(* In reliable mode. *)

Reliable == ~StaleTimeout /\ ~NonReliable /\ N = Cardinality(Thread)

\* The steps at which a thread works on an event that is open, those at which it has the
\* mutex of its buffer, those at which it has still to receive or reject the body, and
\* those before the header of its Fragment is in a buffer.
Working      == {"reserve", "header", "body", "done", "doneInvalid", "update", "finish", "count", "complete"}
Locking      == {"count", "complete", "unrequest", "check", "unlock"}
Receiving    == {"body", "doneInvalid", "update"}
BeforeHeader == {"lookup", "init", "reserve", "header"}

\* <<t, e>>: thread t has written the header of its Fragment of event e.
Written ==
  {w \in Thread \X SeqID :
     w[2] < event[w[1]] \/ (w[2] = event[w[1]] /\ pc[w[1]] \notin BeforeHeader)}
EveryoneWrote(e) == \A t \in Thread : <<t, e>> \in Written

\* <<t, e>>: thread t has the body of its Fragment of event e in hand.
InHand == {w \in Thread \X SeqID : w[2] = event[w[1]] /\ pc[w[1]] \in Receiving}

\* The buffers of completed events whose requests are still to be removed.
Unrequested == {buf[t] : t \in {u \in Thread : pc[u] = "unrequest"}}

\* Nothing is given up or dropped, and no thread throws.
NothingGivenUp ==
  /\ stale = {} /\ incomplete = {} /\ \A d \in Thread \X SeqID : dropped[d] = 0
  /\ \A t \in Thread : ~drop[t] /\ pc[t] # "threw"

\* Who holds which mutex.
LocksHeld ==
  /\ \A t \in Thread : pc[t] = "init" <=> seqLock = t
  /\ \A t \in Thread : pc[t] \in Locking => bufLock[buf[t]] = t
  /\ \A b \in Buf : bufLock[b] # NoThread => buf[bufLock[b]] = b /\ pc[bufLock[b]] \in Locking

\* A thread works on the buffer that carries its event.
WorkOnOpen ==
  /\ \A t \in Thread : pc[t] \in Working => buf[t] \in active
  /\ \A t \in Thread : pc[t] \in Working \cup Locking => hdrSeq[buf[t]] = event[t]

\* The buffer that is being initialised is empty and not on the books, and its event is not
\* on the books either.
InitNew ==
  \A t \in Thread : pc[t] = "init" =>
    /\ buf[t] \notin Open /\ slots[buf[t]] = << >>
    /\ \A b \in Open : hdrSeq[b] # event[t]

\* While a thread has the mutex of a buffer the others have nothing in hand there but a
\* header to write.
LockedAlone ==
  \A t, u \in Thread : t # u /\ pc[t] \in Locking /\ buf[u] = buf[t] =>
                          pc[u] \notin (Working \cup Locking) \ {"reserve", "header"}

\* No event is twice among the buffers whose events are open or have a request.
CarriedOnce ==
  /\ Unrequested \cap active = {}
  /\ \A b \in Open : hdrSeq[b] \in SeqID
  /\ \A a, b \in Open \cup Unrequested : hdrSeq[a] = hdrSeq[b] => a = b

\* The buffer of an open event has the Fragment of each thread that has written one, once,
\* and each is settled, but for those the threads have in hand.
Settled(s) == s.body \/ ~s.valid
SlotsOfEvent ==
  \A b \in Open : \A i \in DOMAIN slots[b] :
    /\ slots[b][i].seq = hdrSeq[b]
    /\ <<slots[b][i].src, hdrSeq[b]>> \in Written
    /\ Settled(slots[b][i]) \/ <<slots[b][i].src, hdrSeq[b]>> \in InHand
SlotsOnce ==
  /\ \A b \in Open : \A i, j \in DOMAIN slots[b] : slots[b][i].src = slots[b][j].src => i = j
  /\ \A b \in Open, t \in Thread :
       <<t, hdrSeq[b]>> \in Written => \E i \in DOMAIN slots[b] : slots[b][i].src = t
OwnSlot ==
  \A t \in Thread : pc[t] = "body" => pos[t] \in DOMAIN slots[buf[t]] /\ slots[buf[t]][pos[t]].src = t

\* What is complete is whole.
Whole(b) ==
  /\ isComplete[b]
  /\ \A i \in DOMAIN slots[b] : slots[b][i].seq = hdrSeq[b] /\ Settled(slots[b][i])
  /\ \A t \in Thread : \E i \in DOMAIN slots[b] : slots[b][i].src = t
CompleteWhole ==
  /\ \A b \in Buf : b \in pending \/ sem[b] \in {"Full", "Reading"} => Whole(b)
  /\ \A t \in Thread : pc[t] = "complete" => Whole(buf[t])

\* An event is completed after all threads have written their Fragments of it, and until
\* they all have, it stays open.
CompleteLast ==
  /\ \A b \in pending : EveryoneWrote(hdrSeq[b])
  /\ \A t \in Thread : pc[t] \in {"complete", "unrequest"} => EveryoneWrote(event[t])
  /\ \A e \in released : e \in SeqID /\ EveryoneWrote(e)
OpenUntilLast ==
  \A w \in Written : EveryoneWrote(w[2]) \/ \E b \in active : hdrSeq[b] = w[2]

\* An event that was given to art is not on the books any longer.
GivenOnce ==
  \A e \in SeqID : timesReleased[e] # 0 =>
    timesReleased[e] = 1 /\ EveryoneWrote(e) /\ \A b \in Open : hdrSeq[b] # e

\* What art is reading or has still to read was given to it, in one buffer.
WithArt == {b \in Buf : sem[b] \in {"Full", "Reading"}}
GivenHeld ==
  /\ \A b \in WithArt : hdrSeq[b] \in SeqID /\ timesReleased[hdrSeq[b]] # 0
  /\ \A a, b \in WithArt : hdrSeq[a] = hdrSeq[b] => a = b

ReliableInv ==
  /\ TypeInv /\ NothingGivenUp /\ LocksHeld /\ WorkOnOpen /\ InitNew /\ LockedAlone
  /\ CarriedOnce /\ BuffersBooked /\ WritesPendingExact
  /\ SlotsOfEvent /\ SlotsOnce /\ OwnSlot /\ CompleteWhole
  /\ CompleteLast /\ OpenUntilLast /\ GivenOnce /\ GivenHeld /\ OpenEventsRequested
-------------------------------------------------------------------------------
\* What a step of thread t leaves as it is.
OtherThreads(t) ==
  \A u \in Thread \ {t} :
    pc'[u] = pc[u] /\ event'[u] = event[u] /\ buf'[u] = buf[u] /\ pos'[u] = pos[u]

\* A thread that neither leaves nor enters the steps before its header is written changes
\* nothing of what is written, and so on for what is in hand, for the requests to remove
\* and for the threads that write to a buffer.
LEMMA WrittenSame ==
  ASSUME NEW t \in Thread, OtherThreads(t), event'[t] = event[t],
         pc[t] \in BeforeHeader <=> pc'[t] \in BeforeHeader
  PROVE  Written' = Written
BY DEF OtherThreads, Written

LEMMA InHandSame ==
  ASSUME NEW t \in Thread, OtherThreads(t), event'[t] = event[t] \/ pc[t] \notin Receiving,
         pc[t] \in Receiving <=> pc'[t] \in Receiving
  PROVE  InHand' = InHand
BY DEF OtherThreads, InHand

LEMMA UnrequestedSame ==
  ASSUME NEW t \in Thread, OtherThreads(t), pc[t] # "unrequest", pc'[t] # "unrequest"
  PROVE  Unrequested' = Unrequested
BY DEF OtherThreads, Unrequested

\* The steps between the two at which a thread counts its write.
WritingAt == PCs \ {"recv", "lookup", "init", "reserve", "threw"}

LEMMA WritersSame ==
  ASSUME NEW t \in Thread, OtherThreads(t), NEW b \in Buf,
         pc[t] \in WritingAt /\ buf[t] = b <=> pc'[t] \in WritingAt /\ buf'[t] = b
  PROVE  Writers(b)' = Writers(b)
BY DEF OtherThreads, Writers, WritingAt

\* The types, flat.
LEMMA FlatTypes ==
  ASSUME TypeInv
  PROVE  /\ pc \in [Thread -> PCs] /\ event \in [Thread -> 0..MaxSeq]
              /\ buf \in [Thread -> Buf \cup {NoBuf}]
         /\ pos \in [Thread -> Nat] /\ retries \in [Thread -> 0..MaxRetries]
              /\ drop \in [Thread -> BOOLEAN]
         /\ seqLock \in Thread \cup {NoThread} /\ bufLock \in [Buf -> Thread \cup {NoThread}]
         /\ sem \in [Buf -> {"Empty", "Writing", "Full", "Reading"}]
         /\ slots \in [Buf -> Seq(Slot)] /\ hdrSeq \in [Buf -> 0..MaxSeq]
              /\ isComplete \in [Buf -> BOOLEAN]
         /\ writesPending \in [Buf -> Int] /\ active \subseteq Buf /\ pending \subseteq Buf
         /\ \A t \in Thread : pc[t] \in AtBuffer => buf[t] \in Buf
         /\ \A t \in Thread : pc[t] # "recv" => event[t] \in SeqID
BY DEF TypeInv, ThreadInv, ThreadTypeOK, LockTypeOK, MemoryTypeOK, BooksTypeOK

\* Setting a flag of one Fragment in a buffer leaves everything else of the buffers.
LEMMA FlagSet ==
  ASSUME slots \in [Buf -> Seq(Slot)], NEW b \in Buf, NEW i \in DOMAIN slots[b], NEW s,
         s \in {[slots EXCEPT ![b][i].body = TRUE], [slots EXCEPT ![b][i].valid = FALSE]}
  PROVE  \A a \in Buf : DOMAIN s[a] = DOMAIN slots[a] /\ \A j \in DOMAIN slots[a] :
           /\ s[a][j].src = slots[a][j].src /\ s[a][j].seq = slots[a][j].seq
           /\ slots[a][j].body => s[a][j].body
           /\ ~slots[a][j].valid => ~s[a][j].valid
           /\ a = b /\ j = i => Settled(s[a][j])
<1>1. \A a \in Buf : slots[a] \in Seq(Slot) /\ \A j \in DOMAIN slots[a] : slots[a][j] \in Slot
  OBVIOUS
<1>2. \A a \in Buf \ {b} : s[a] = slots[a]
  OBVIOUS
<1>3. s[b] \in {[slots[b] EXCEPT ![i].body = TRUE], [slots[b] EXCEPT ![i].valid = FALSE]}
  OBVIOUS
<1>4. DOMAIN s[b] = DOMAIN slots[b]
  BY <1>1, <1>3
<1>5. \A j \in DOMAIN slots[b] \ {i} : s[b][j] = slots[b][j]
  BY <1>1, <1>3
<1>6. s[b][i] \in {[slots[b][i] EXCEPT !.body = TRUE], [slots[b][i] EXCEPT !.valid = FALSE]}
  BY <1>1, <1>3
<1>7. slots[b][i] \in Slot
  BY <1>1
<1>8. /\ s[b][i].src = slots[b][i].src /\ s[b][i].seq = slots[b][i].seq
      /\ slots[b][i].body => s[b][i].body
      /\ ~slots[b][i].valid => ~s[b][i].valid
      /\ s[b][i].body \/ ~s[b][i].valid
  BY <1>6, <1>7 DEF Slot
<1> QED
  BY <1>2, <1>4, <1>5, <1>8 DEF Settled

\* Handing the pending buffers to art: nothing is given up, and an event is given once.
LEMMA CheckPendingGives ==
  ASSUME ReliableInv, CheckPendingBooks
  PROVE  /\ UNCHANGED <<active, incomplete, requests>> /\ pending' = {}
         /\ SemAfterCheck = [b \in Buf |-> IF b \in pending THEN "Full" ELSE sem[b]]
         /\ \A e \in SeqID : timesReleased'[e] = timesReleased[e]
              + IF \E b \in pending : hdrSeq[b] = e THEN 1 ELSE 0
<1>1. TimedOut = {}
  BY DEF ReliableInv, NothingGivenUp, TimedOut
<1>2. ToRelease = pending
  BY <1>1 DEF ToRelease
<1>3. ASSUME NEW e \in SeqID
      PROVE  Cardinality({b \in pending : hdrSeq[b] = e})
               = IF \E b \in pending : hdrSeq[b] = e THEN 1 ELSE 0
  <2>1. CASE \E b \in pending : hdrSeq[b] = e
    <3>1. PICK b \in pending : hdrSeq[b] = e
      BY <2>1
    <3>2. {a \in pending : hdrSeq[a] = e} = {b}
      BY <3>1 DEF ReliableInv, CarriedOnce, Open
    <3> QED
      BY <2>1, <3>2, FS_Singleton
  <2>2. CASE ~\E b \in pending : hdrSeq[b] = e
    BY <2>2, FS_EmptySet
  <2> QED
    BY <2>1, <2>2
<1>4. timesReleased'
        = [e \in SeqID |-> timesReleased[e] + Cardinality({b \in pending : hdrSeq[b] = e})]
  BY <1>2 DEF CheckPendingBooks
<1> QED
  BY <1>1, <1>2, <1>3, <1>4 DEF CheckPendingBooks, SemAfterCheck

\* A buffer with a Fragment of different threads in each place, and as many as there are
\* threads, has one of each thread.
LEMMA EachOnceIsEveryone ==
  ASSUME NEW s \in Seq(Slot), Len(s) >= Cardinality(Thread),
         \A i, j \in DOMAIN s : s[i].src = s[j].src => i = j
  PROVE  \A u \in Thread : \E i \in DOMAIN s : s[i].src = u
<1> DEFINE f == [i \in 1..Len(s) |-> s[i].src]
<1>1. Len(s) \in Nat /\ DOMAIN s = 1..Len(s) /\ \A i \in 1..Len(s) : s[i] \in Slot
  OBVIOUS
<1>2. f \in Injection(1..Len(s), Thread)
  BY <1>1 DEF Injection, IsInjective, Slot
<1>3. Cardinality(1..Len(s)) = Len(s)
  BY <1>1, FS_Interval
<1>4. Cardinality(1..Len(s)) <= Cardinality(Thread)
        /\ (Cardinality(1..Len(s)) = Cardinality(Thread) => f \in Surjection(1..Len(s), Thread))
  BY <1>2, FinitenessAssumption, FS_Injection
<1>5. f \in Surjection(1..Len(s), Thread)
  BY <1>1, <1>3, <1>4, FinitenessAssumption, FS_CardinalityType
<1> QED
  BY <1>1, <1>5 DEF Surjection

\* A body that fails: the Fragment stays in hand.
LEMMA ReceiveBodyFailsKeeps ==
  ASSUME Reliable, ReliableInv, TypeInv', NEW t \in Thread, ReceiveBodyFails(t)
  PROVE  ReliableInv'
<1> USE DEF threadVars, lockVars, shmVars, bookVars
<1>a. TypeInv
  BY DEF ReliableInv
<1>b. /\ pc[t] = "body" /\ pc'[t] = "doneInvalid" /\ \A u \in Thread \ {t} : pc'[u] = pc[u]
      /\ UNCHANGED <<threadVars, lockVars, shmVars, bookVars>>
  BY <1>a, FlatTypes DEF ReceiveBodyFails, Goto
<1>c. Written' = Written
  BY <1>b, WrittenSame DEF OtherThreads, BeforeHeader
<1>d. InHand' = InHand
  BY <1>b, InHandSame DEF OtherThreads, Receiving
<1>e. Unrequested' = Unrequested
  BY <1>b, UnrequestedSame DEF OtherThreads
<1>f. \A b \in Buf : Writers(b)' = Writers(b)
  BY <1>b, WritersSame DEF OtherThreads, WritingAt, PCs
<1>1. NothingGivenUp'
  BY <1>a, <1>b DEF ReliableInv, NothingGivenUp
<1>2. LocksHeld'
  <2>1. \A u \in Thread : (pc'[u] = "init" <=> pc[u] = "init")
          /\ (pc'[u] \in Locking <=> pc[u] \in Locking)
    BY <1>b DEF Locking
  <2> QED
    BY <1>a, <1>b, <2>1, FlatTypes DEF ReliableInv, LocksHeld
<1>3. WorkOnOpen'
  BY <1>b DEF ReliableInv, WorkOnOpen, Working, Locking
<1>4. InitNew'
  BY <1>b DEF ReliableInv, InitNew, Open
<1>5. LockedAlone'
  BY <1>b DEF ReliableInv, LockedAlone, Working, Locking
<1>6. CarriedOnce'
  BY <1>b, <1>e DEF ReliableInv, CarriedOnce, Open
<1>7. BuffersBooked'
  BY <1>b DEF ReliableInv, BuffersBooked, Open
<1>8. WritesPendingExact'
  BY <1>a, <1>b, <1>f, FlatTypes DEF ReliableInv, WritesPendingExact, Open
<1>9. SlotsOfEvent'
  BY <1>b, <1>c, <1>d DEF ReliableInv, SlotsOfEvent, Open, Settled
<1>10. SlotsOnce'
  BY <1>b, <1>c DEF ReliableInv, SlotsOnce, Open
<1>11. OwnSlot'
  BY <1>b DEF ReliableInv, OwnSlot
<1>12. CompleteWhole'
  <2>1. \A b \in Buf \cup {NoBuf} : Whole(b)' = Whole(b)
    BY <1>b DEF Whole, Settled
  <2> QED
    BY <1>a, <1>b, <2>1, FlatTypes DEF ReliableInv, CompleteWhole
<1>13. CompleteLast'
  BY <1>b, <1>c DEF ReliableInv, CompleteLast, EveryoneWrote
<1>14. OpenUntilLast'
  BY <1>b, <1>c DEF ReliableInv, OpenUntilLast, EveryoneWrote
<1>15. GivenOnce'
  BY <1>b, <1>c DEF ReliableInv, GivenOnce, EveryoneWrote, Open
<1>16. GivenHeld'
  BY <1>b DEF ReliableInv, GivenHeld, WithArt
<1>17. OpenEventsRequested'
  BY <1>b, <1>e DEF ReliableInv, OpenEventsRequested, Unrequested
<1> QED
  BY <1>1, <1>2, <1>3, <1>4, <1>5, <1>6, <1>7, <1>8, <1>9, <1>10, <1>11, <1>12, <1>13, <1>14,
     <1>15, <1>16, <1>17 DEF ReliableInv

\* The next header: the thread has nothing in a buffer yet.
LEMMA ReceiveHeaderKeeps ==
  ASSUME Reliable, ReliableInv, TypeInv', NEW t \in Thread, ReceiveHeader(t)
  PROVE  ReliableInv'
<1> USE DEF threadVars, lockVars, shmVars, bookVars
<1>a. TypeInv
  BY DEF ReliableInv
<1>b. /\ pc[t] = "recv" /\ pc'[t] = "lookup" /\ event'[t] = event[t] + 1 /\ ~drop'[t]
      /\ \A u \in Thread \ {t} : /\ pc'[u] = pc[u] /\ event'[u] = event[u] /\ buf'[u] = buf[u]
                                 /\ pos'[u] = pos[u] /\ drop'[u] = drop[u]
      /\ UNCHANGED <<lockVars, shmVars, bookVars>>
  BY <1>a, FlatTypes DEF ReceiveHeader, TakeHeader, Goto
<1>c. Written' = Written
  BY <1>a, <1>b, FlatTypes DEF Written, BeforeHeader, SeqID
<1>d. InHand' = InHand
  BY <1>b, InHandSame DEF OtherThreads, Receiving
<1>e. Unrequested' = Unrequested
  BY <1>b, UnrequestedSame DEF OtherThreads
<1>f. \A b \in Buf : Writers(b)' = Writers(b)
  BY <1>b, WritersSame DEF OtherThreads, WritingAt, PCs
<1>1. NothingGivenUp'
  BY <1>a, <1>b DEF ReliableInv, NothingGivenUp
<1>2. LocksHeld'
  <2>1. \A u \in Thread : pc'[u] = "init" <=> pc[u] = "init"
    BY <1>b
  <2>2. \A u \in Thread : pc'[u] \in Locking => pc[u] \in Locking /\ buf'[u] = buf[u]
    BY <1>b DEF Locking
  <2>3. \A u \in Thread : pc[u] \in Locking => pc'[u] \in Locking /\ buf'[u] = buf[u]
    BY <1>b DEF Locking
  <2>4. \A u \in Thread : pc'[u] = "init" <=> seqLock' = u
    BY <1>b, <2>1 DEF ReliableInv, LocksHeld
  <2>5. ASSUME NEW u \in Thread, pc'[u] \in Locking PROVE bufLock'[buf'[u]] = u
    <3>1. pc[u] \in Locking /\ buf'[u] = buf[u]
      BY <2>2, <2>5
    <3> QED
      BY <1>b, <3>1 DEF ReliableInv, LocksHeld
  <2>6. ASSUME NEW b \in Buf, bufLock'[b] # NoThread
        PROVE  buf'[bufLock'[b]] = b /\ pc'[bufLock'[b]] \in Locking
    <3>1. bufLock[b] \in Thread /\ buf[bufLock[b]] = b /\ pc[bufLock[b]] \in Locking
            /\ bufLock' = bufLock
      BY <1>a, <1>b, <2>6, FlatTypes DEF ReliableInv, LocksHeld
    <3> QED
      BY <2>3, <3>1
  <2> QED
    BY <2>4, <2>5, <2>6 DEF LocksHeld, Locking
<1>3. WorkOnOpen'
  BY <1>b DEF ReliableInv, WorkOnOpen, Working, Locking
<1>4. InitNew'
  BY <1>b DEF ReliableInv, InitNew, Open
<1>5. LockedAlone'
  BY <1>b DEF ReliableInv, LockedAlone, Working, Locking
<1>6. CarriedOnce'
  BY <1>b, <1>e DEF ReliableInv, CarriedOnce, Open
<1>7. BuffersBooked'
  <2>1. seqLock # NoThread => buf'[seqLock] = buf[seqLock]
    BY <1>a, <1>b, FlatTypes DEF ReliableInv, LocksHeld
  <2> QED
    BY <1>b, <2>1 DEF ReliableInv, BuffersBooked, Open
<1>8. WritesPendingExact'
  BY <1>a, <1>b, <1>f, FlatTypes DEF ReliableInv, WritesPendingExact, Open
<1>9. SlotsOfEvent'
  BY <1>b, <1>c, <1>d DEF ReliableInv, SlotsOfEvent, Open, Settled
<1>10. SlotsOnce'
  BY <1>b, <1>c DEF ReliableInv, SlotsOnce, Open
<1>11. OwnSlot'
  BY <1>b DEF ReliableInv, OwnSlot
<1>12. CompleteWhole'
  <2>1. \A b \in Buf \cup {NoBuf} : Whole(b)' = Whole(b)
    BY <1>b DEF Whole, Settled
  <2> QED
    BY <1>a, <1>b, <2>1, FlatTypes DEF ReliableInv, CompleteWhole
<1>13. CompleteLast'
  BY <1>b, <1>c DEF ReliableInv, CompleteLast, EveryoneWrote
<1>14. OpenUntilLast'
  BY <1>b, <1>c DEF ReliableInv, OpenUntilLast, EveryoneWrote
<1>15. GivenOnce'
  BY <1>b, <1>c DEF ReliableInv, GivenOnce, EveryoneWrote, Open
<1>16. GivenHeld'
  BY <1>b DEF ReliableInv, GivenHeld, WithArt
<1>17. OpenEventsRequested'
  BY <1>b, <1>e DEF ReliableInv, OpenEventsRequested, Unrequested
<1> QED
  BY <1>1, <1>2, <1>3, <1>4, <1>5, <1>6, <1>7, <1>8, <1>9, <1>10, <1>11, <1>12, <1>13, <1>14,
     <1>15, <1>16, <1>17 DEF ReliableInv

\* The buffer found is on the books and its event is open, for this thread has not written.
LEMMA LookupFoundKeeps ==
  ASSUME Reliable, ReliableInv, TypeInv', NEW t \in Thread, LookupFound(t)
  PROVE  ReliableInv'
<1> USE DEF threadVars, lockVars, shmVars, bookVars
<1>a. TypeInv
  BY DEF ReliableInv
<1>g. PICK taken \in Holding(event[t]) : buf' = [buf EXCEPT ![t] = taken]
  BY DEF LookupFound
<1>h. pc[t] = "lookup" /\ seqLock = NoThread /\ event[t] \in SeqID /\ taken \in Buf /\ taken \in active
        /\ hdrSeq[taken] = event[t]
  <2>1. pc[t] = "lookup" /\ seqLock = NoThread /\ taken \in Buf /\ sem[taken] = "Writing"
          /\ hdrSeq[taken] = event[t]
    BY <1>g DEF LookupFound, Holding
  <2>2. taken \in Open
    BY <1>a, <2>1, FlatTypes, ConstantsAssumption DEF ReliableInv, BuffersBooked
  <2>3. <<t, event[t]>> \notin Written /\ event[t] \in SeqID
    BY <1>a, <2>1, FlatTypes DEF Written, BeforeHeader, SeqID
  <2> QED
    BY <2>1, <2>2, <2>3 DEF ReliableInv, CompleteLast, EveryoneWrote, Open
<1>b. /\ pc[t] = "lookup" /\ pc'[t] = "reserve" /\ buf'[t] = taken
      /\ \A u \in Thread \ {t} : pc'[u] = pc[u] /\ buf'[u] = buf[u]
      /\ UNCHANGED <<event, pos, drop, lockVars, shmVars, bookVars>>
  BY <1>a, <1>g, <1>h, FlatTypes DEF LookupFound, Goto
<1>c. Written' = Written
  BY <1>b, <1>h, WrittenSame DEF OtherThreads, BeforeHeader
<1>d. InHand' = InHand
  BY <1>b, <1>h, InHandSame DEF OtherThreads, Receiving
<1>e. Unrequested' = Unrequested
  BY <1>b, <1>h, UnrequestedSame DEF OtherThreads
<1>f. \A b \in Buf : Writers(b)' = Writers(b)
  BY <1>b, <1>h, WritersSame DEF OtherThreads, WritingAt, PCs
<1>1. NothingGivenUp'
  BY <1>a, <1>b DEF ReliableInv, NothingGivenUp
<1>2. LocksHeld'
  <2>1. \A u \in Thread : pc'[u] = "init" <=> pc[u] = "init"
    BY <1>b
  <2>2. \A u \in Thread : pc'[u] \in Locking => pc[u] \in Locking /\ buf'[u] = buf[u]
    BY <1>b DEF Locking
  <2>3. \A u \in Thread : pc[u] \in Locking => pc'[u] \in Locking /\ buf'[u] = buf[u]
    BY <1>b DEF Locking
  <2>4. \A u \in Thread : pc'[u] = "init" <=> seqLock' = u
    BY <1>b, <2>1 DEF ReliableInv, LocksHeld
  <2>5. ASSUME NEW u \in Thread, pc'[u] \in Locking PROVE bufLock'[buf'[u]] = u
    <3>1. pc[u] \in Locking /\ buf'[u] = buf[u]
      BY <2>2, <2>5
    <3> QED
      BY <1>b, <3>1 DEF ReliableInv, LocksHeld
  <2>6. ASSUME NEW b \in Buf, bufLock'[b] # NoThread
        PROVE  buf'[bufLock'[b]] = b /\ pc'[bufLock'[b]] \in Locking
    <3>1. bufLock[b] \in Thread /\ buf[bufLock[b]] = b /\ pc[bufLock[b]] \in Locking
            /\ bufLock' = bufLock
      BY <1>a, <1>b, <2>6, FlatTypes DEF ReliableInv, LocksHeld
    <3> QED
      BY <2>3, <3>1
  <2> QED
    BY <2>4, <2>5, <2>6 DEF LocksHeld, Locking
<1>3. WorkOnOpen'
  BY <1>b, <1>h DEF ReliableInv, WorkOnOpen, Working, Locking
<1>4. InitNew'
  BY <1>b DEF ReliableInv, InitNew, Open
<1>5. LockedAlone'
  BY <1>b DEF ReliableInv, LockedAlone, Working, Locking
<1>6. CarriedOnce'
  BY <1>b, <1>e DEF ReliableInv, CarriedOnce, Open
<1>7. BuffersBooked'
  <2>1. seqLock # NoThread => buf'[seqLock] = buf[seqLock]
    BY <1>a, <1>b, FlatTypes DEF ReliableInv, LocksHeld
  <2> QED
    BY <1>b, <2>1 DEF ReliableInv, BuffersBooked, Open
<1>8. WritesPendingExact'
  BY <1>a, <1>b, <1>f, FlatTypes DEF ReliableInv, WritesPendingExact, Open
<1>9. SlotsOfEvent'
  BY <1>b, <1>c, <1>d DEF ReliableInv, SlotsOfEvent, Open, Settled
<1>10. SlotsOnce'
  BY <1>b, <1>c DEF ReliableInv, SlotsOnce, Open
<1>11. OwnSlot'
  BY <1>b DEF ReliableInv, OwnSlot
<1>12. CompleteWhole'
  <2>1. \A b \in Buf \cup {NoBuf} : Whole(b)' = Whole(b)
    BY <1>b DEF Whole, Settled
  <2> QED
    BY <1>a, <1>b, <2>1, FlatTypes DEF ReliableInv, CompleteWhole
<1>13. CompleteLast'
  BY <1>b, <1>c DEF ReliableInv, CompleteLast, EveryoneWrote
<1>14. OpenUntilLast'
  BY <1>b, <1>c DEF ReliableInv, OpenUntilLast, EveryoneWrote
<1>15. GivenOnce'
  BY <1>b, <1>c DEF ReliableInv, GivenOnce, EveryoneWrote, Open
<1>16. GivenHeld'
  BY <1>b DEF ReliableInv, GivenHeld, WithArt
<1>17. OpenEventsRequested'
  BY <1>b, <1>e DEF ReliableInv, OpenEventsRequested, Unrequested
<1> QED
  BY <1>1, <1>2, <1>3, <1>4, <1>5, <1>6, <1>7, <1>8, <1>9, <1>10, <1>11, <1>12, <1>13, <1>14,
     <1>15, <1>16, <1>17 DEF ReliableInv

\* A write is counted when it begins.
LEMMA ReserveKeeps ==
  ASSUME Reliable, ReliableInv, TypeInv', NEW t \in Thread, Reserve(t)
  PROVE  ReliableInv'
<1> USE DEF threadVars, lockVars, shmVars, bookVars
<1>a. TypeInv
  BY DEF ReliableInv
<1>b. /\ pc[t] = "reserve" /\ pc'[t] = "header" /\ \A u \in Thread \ {t} : pc'[u] = pc[u]
      /\ buf[t] \in Buf /\ writesPending' = [writesPending EXCEPT ![buf[t]] = @ + 1]
      /\ UNCHANGED <<threadVars, lockVars, shmVars, active, pending, released, incomplete,
                     requests, dropped, timesReleased>>
  BY <1>a, FlatTypes DEF Reserve, Goto, AtBuffer
<1>c. Written' = Written
  BY <1>b, WrittenSame DEF OtherThreads, BeforeHeader
<1>d. InHand' = InHand
  BY <1>b, InHandSame DEF OtherThreads, Receiving
<1>e. Unrequested' = Unrequested
  BY <1>b, UnrequestedSame DEF OtherThreads
<1>1. NothingGivenUp'
  BY <1>a, <1>b DEF ReliableInv, NothingGivenUp
<1>2. LocksHeld'
  <2>1. \A u \in Thread : (pc'[u] = "init" <=> pc[u] = "init")
          /\ (pc'[u] \in Locking <=> pc[u] \in Locking)
    BY <1>b DEF Locking
  <2> QED
    BY <1>a, <1>b, <2>1, FlatTypes DEF ReliableInv, LocksHeld
<1>3. WorkOnOpen'
  BY <1>b DEF ReliableInv, WorkOnOpen, Working, Locking
<1>4. InitNew'
  BY <1>b DEF ReliableInv, InitNew, Open
<1>5. LockedAlone'
  BY <1>b DEF ReliableInv, LockedAlone, Working, Locking
<1>6. CarriedOnce'
  BY <1>b, <1>e DEF ReliableInv, CarriedOnce, Open
<1>7. BuffersBooked'
  BY <1>b DEF ReliableInv, BuffersBooked, Open
<1>8. WritesPendingExact'
  <2>1. Writers(buf[t])' = Writers(buf[t]) \cup {t} /\ t \notin Writers(buf[t])
    BY <1>a, <1>b, FlatTypes DEF Writers, PCs
  <2>2. \A b \in Buf \ {buf[t]} : Writers(b)' = Writers(b)
    BY <1>b, WritersSame DEF OtherThreads, WritingAt, PCs
  <2>3. IsFiniteSet(Writers(buf[t]))
    BY FinitenessAssumption, FS_Subset DEF Writers
  <2>4. Cardinality(Writers(buf[t])') = Cardinality(Writers(buf[t])) + 1
    BY <2>1, <2>3, FS_AddElement
  <2> QED
    BY <1>a, <1>b, <2>2, <2>4, FlatTypes DEF ReliableInv, WritesPendingExact, Open
<1>9. SlotsOfEvent'
  BY <1>b, <1>c, <1>d DEF ReliableInv, SlotsOfEvent, Open, Settled
<1>10. SlotsOnce'
  BY <1>b, <1>c DEF ReliableInv, SlotsOnce, Open
<1>11. OwnSlot'
  BY <1>b DEF ReliableInv, OwnSlot
<1>12. CompleteWhole'
  <2>1. \A b \in Buf \cup {NoBuf} : Whole(b)' = Whole(b)
    BY <1>b DEF Whole, Settled
  <2> QED
    BY <1>a, <1>b, <2>1, FlatTypes DEF ReliableInv, CompleteWhole
<1>13. CompleteLast'
  BY <1>b, <1>c DEF ReliableInv, CompleteLast, EveryoneWrote
<1>14. OpenUntilLast'
  BY <1>b, <1>c DEF ReliableInv, OpenUntilLast, EveryoneWrote
<1>15. GivenOnce'
  BY <1>b, <1>c DEF ReliableInv, GivenOnce, EveryoneWrote, Open
<1>16. GivenHeld'
  BY <1>b DEF ReliableInv, GivenHeld, WithArt
<1>17. OpenEventsRequested'
  BY <1>b, <1>e DEF ReliableInv, OpenEventsRequested, Unrequested
<1> QED
  BY <1>1, <1>2, <1>3, <1>4, <1>5, <1>6, <1>7, <1>8, <1>9, <1>10, <1>11, <1>12, <1>13, <1>14,
     <1>15, <1>16, <1>17 DEF ReliableInv

\* A body that arrives settles the thread's own slot.
LEMMA ReceiveBodyKeeps ==
  ASSUME Reliable, ReliableInv, TypeInv', NEW t \in Thread, ReceiveBody(t)
  PROVE  ReliableInv'
<1> USE DEF threadVars, lockVars, shmVars, bookVars
<1>a. TypeInv
  BY DEF ReliableInv
<1>g. pc[t] = "body" /\ buf[t] \in active /\ buf[t] \in Buf /\ buf[t] # NoBuf
      /\ hdrSeq[buf[t]] = event[t] /\ pos[t] \in DOMAIN slots[buf[t]]
           /\ slots[buf[t]][pos[t]].src = t
  BY <1>a, FlatTypes, ConstantsAssumption DEF ReceiveBody, ReliableInv, WorkOnOpen, Working, OwnSlot
<1>b. /\ pc[t] = "body" /\ pc'[t] = "done" /\ \A u \in Thread \ {t} : pc'[u] = pc[u]
      /\ UNCHANGED <<threadVars, lockVars, sem, stale, hdrSeq, isComplete, bookVars>>
  BY <1>a, FlatTypes DEF ReceiveBody, Goto
<1>c. Written' = Written
  BY <1>b, WrittenSame DEF OtherThreads, BeforeHeader
<1>e. Unrequested' = Unrequested
  BY <1>b, UnrequestedSame DEF OtherThreads
<1>f. \A b \in Buf : Writers(b)' = Writers(b)
  BY <1>b, WritersSame DEF OtherThreads, WritingAt, PCs
<1>h. \A b \in Buf : DOMAIN slots'[b] = DOMAIN slots[b] /\ \A i \in DOMAIN slots[b] :
        /\ slots'[b][i].src = slots[b][i].src /\ slots'[b][i].seq = slots[b][i].seq
        /\ Settled(slots[b][i]) \/ (b = buf[t] /\ i = pos[t]) => Settled(slots'[b][i])
  <2>1. slots' = [slots EXCEPT ![buf[t]][pos[t]].body = TRUE]
    BY <1>g DEF ReceiveBody
  <2> QED
    BY <1>a, <1>g, <2>1, FlatTypes, FlagSet DEF Settled
<1>j. InHand' = InHand \ {<<t, event[t]>>}
  BY <1>a, <1>b, FlatTypes DEF InHand, Receiving
<1>1. NothingGivenUp'
  BY <1>a, <1>b DEF ReliableInv, NothingGivenUp
<1>2. LocksHeld'
  <2>1. \A u \in Thread : (pc'[u] = "init" <=> pc[u] = "init")
          /\ (pc'[u] \in Locking <=> pc[u] \in Locking)
    BY <1>b DEF Locking
  <2> QED
    BY <1>a, <1>b, <2>1, FlatTypes DEF ReliableInv, LocksHeld
<1>3. WorkOnOpen'
  BY <1>b DEF ReliableInv, WorkOnOpen, Working, Locking
<1>4. InitNew'
  <2>1. \A b \in Buf \ {buf[t]} : slots'[b] = slots[b]
    BY <1>a, <1>g, FlatTypes DEF ReceiveBody
  <2>2. \A u \in Thread : pc[u] = "init" => buf[u] \in Buf \ {buf[t]}
    BY <1>a, <1>g, FlatTypes DEF AtBuffer, ReliableInv, InitNew, Open
  <2> QED
    BY <1>b, <2>1, <2>2 DEF ReliableInv, InitNew, Open
<1>5. LockedAlone'
  BY <1>b DEF ReliableInv, LockedAlone, Working, Locking
<1>6. CarriedOnce'
  BY <1>b, <1>e DEF ReliableInv, CarriedOnce, Open
<1>7. BuffersBooked'
  BY <1>b DEF ReliableInv, BuffersBooked, Open
<1>8. WritesPendingExact'
  BY <1>a, <1>b, <1>f, FlatTypes DEF ReliableInv, WritesPendingExact, Open
<1>9. SlotsOfEvent'
  <2>1. \A b \in Open : \A i \in DOMAIN slots[b] :
         slots[b][i].src = t /\ hdrSeq[b] = event[t] => b = buf[t] /\ i = pos[t]
    BY <1>g DEF ReliableInv, CarriedOnce, SlotsOnce, Open
  <2>2. SUFFICES ASSUME NEW b \in Open, NEW i \in DOMAIN slots[b]
                 PROVE  /\ slots'[b][i].seq = hdrSeq[b]
                             /\ <<slots'[b][i].src, hdrSeq[b]>> \in Written
                        /\ Settled(slots'[b][i]) \/ <<slots'[b][i].src, hdrSeq[b]>> \in InHand'
    BY <1>a, <1>b, <1>c, <1>h, FlatTypes DEF SlotsOfEvent, Open
  <2>3. b \in Buf
    BY <1>a, FlatTypes DEF Open
  <2>4. /\ slots[b][i].seq = hdrSeq[b] /\ <<slots[b][i].src, hdrSeq[b]>> \in Written
        /\ Settled(slots[b][i]) \/ <<slots[b][i].src, hdrSeq[b]>> \in InHand
    BY DEF ReliableInv, SlotsOfEvent
  <2>5. CASE b = buf[t] /\ i = pos[t]
    BY <1>h, <2>3, <2>4, <2>5
  <2>6. CASE ~(b = buf[t] /\ i = pos[t])
    <3>1. <<slots[b][i].src, hdrSeq[b]>> # <<t, event[t]>>
      BY <2>1, <2>6
    <3> QED
      BY <1>h, <1>j, <2>3, <2>4, <3>1
  <2> QED
    BY <2>5, <2>6
<1>10. SlotsOnce'
  <2>1. \A b \in Open : b \in Buf
    BY <1>a, FlatTypes DEF Open
  <2>2. \A b \in Open : \A i, j \in DOMAIN slots'[b] : slots'[b][i].src = slots'[b][j].src => i = j
    BY <1>h, <2>1 DEF ReliableInv, SlotsOnce
  <2>3. \A b \in Open, u \in Thread : <<u, hdrSeq[b]>> \in Written
          => \E i \in DOMAIN slots'[b] : slots'[b][i].src = u
    BY <1>h, <2>1 DEF ReliableInv, SlotsOnce
  <2> QED
    BY <1>b, <1>c, <2>2, <2>3 DEF SlotsOnce, Open
<1>11. OwnSlot'
  <2>1. \A u \in Thread : pc'[u] = "body" => pc[u] = "body" /\ buf[u] \in Buf
    BY <1>a, <1>b, FlatTypes DEF ReliableInv, WorkOnOpen, Working
  <2> QED
    BY <1>b, <1>h, <2>1 DEF ReliableInv, OwnSlot
<1>12. CompleteWhole'
  <2>1. \A b \in Buf : Whole(b) => Whole(b)'
    BY <1>b, <1>h DEF Whole, Settled
  <2> QED
    BY <1>a, <1>b, <2>1, FlatTypes DEF ReliableInv, CompleteWhole, AtBuffer
<1>13. CompleteLast'
  BY <1>b, <1>c DEF ReliableInv, CompleteLast, EveryoneWrote
<1>14. OpenUntilLast'
  BY <1>b, <1>c DEF ReliableInv, OpenUntilLast, EveryoneWrote
<1>15. GivenOnce'
  BY <1>b, <1>c DEF ReliableInv, GivenOnce, EveryoneWrote, Open
<1>16. GivenHeld'
  BY <1>b DEF ReliableInv, GivenHeld, WithArt
<1>17. OpenEventsRequested'
  BY <1>b, <1>e DEF ReliableInv, OpenEventsRequested, Unrequested
<1> QED
  BY <1>1, <1>2, <1>3, <1>4, <1>5, <1>6, <1>7, <1>8, <1>9, <1>10, <1>11, <1>12, <1>13, <1>14,
     <1>15, <1>16, <1>17 DEF ReliableInv

\* A thread that is not the last writer only takes its write back.
LEMMA FinishEarlyKeeps ==
  ASSUME Reliable, ReliableInv, TypeInv', NEW t \in Thread, FinishEarly(t)
  PROVE  ReliableInv'
<1> USE DEF threadVars, lockVars, shmVars, bookVars
<1>a. TypeInv
  BY DEF ReliableInv
<1>b. /\ pc[t] = "finish" /\ pc'[t] = "recv" /\ \A u \in Thread \ {t} : pc'[u] = pc[u]
      /\ buf[t] \in Buf /\ writesPending' = [writesPending EXCEPT ![buf[t]] = @ - 1]
           /\ stale' = stale \ {buf[t]}
      /\ UNCHANGED <<threadVars, lockVars, sem, hdrSeq, isComplete, slots, active, pending,
                     released, incomplete, requests, dropped, timesReleased>>
  BY <1>a, FlatTypes DEF FinishEarly, EndWrite, Goto, AtBuffer
<1>c. Written' = Written
  BY <1>b, WrittenSame DEF OtherThreads, BeforeHeader
<1>d. InHand' = InHand
  BY <1>b, InHandSame DEF OtherThreads, Receiving
<1>e. Unrequested' = Unrequested
  BY <1>b, UnrequestedSame DEF OtherThreads
<1>1. NothingGivenUp'
  BY <1>a, <1>b DEF ReliableInv, NothingGivenUp
<1>2. LocksHeld'
  <2>1. \A u \in Thread : (pc'[u] = "init" <=> pc[u] = "init")
          /\ (pc'[u] \in Locking <=> pc[u] \in Locking)
    BY <1>b DEF Locking
  <2> QED
    BY <1>a, <1>b, <2>1, FlatTypes DEF ReliableInv, LocksHeld
<1>3. WorkOnOpen'
  BY <1>b DEF ReliableInv, WorkOnOpen, Working, Locking
<1>4. InitNew'
  BY <1>b DEF ReliableInv, InitNew, Open
<1>5. LockedAlone'
  BY <1>b DEF ReliableInv, LockedAlone, Working, Locking
<1>6. CarriedOnce'
  BY <1>b, <1>e DEF ReliableInv, CarriedOnce, Open
<1>7. BuffersBooked'
  BY <1>b DEF ReliableInv, BuffersBooked, Open
<1>8. WritesPendingExact'
  <2>1. Writers(buf[t])' = Writers(buf[t]) \ {t} /\ t \in Writers(buf[t])
    BY <1>a, <1>b, FlatTypes DEF Writers, PCs
  <2>2. \A b \in Buf \ {buf[t]} : Writers(b)' = Writers(b)
    BY <1>b, WritersSame DEF OtherThreads, WritingAt, PCs
  <2>3. IsFiniteSet(Writers(buf[t]))
    BY FinitenessAssumption, FS_Subset DEF Writers
  <2>4. Cardinality(Writers(buf[t])') = Cardinality(Writers(buf[t])) - 1
    BY <2>1, <2>3, FS_RemoveElement
  <2> QED
    BY <1>a, <1>b, <2>2, <2>4, FlatTypes DEF ReliableInv, WritesPendingExact, Open
<1>9. SlotsOfEvent'
  BY <1>b, <1>c, <1>d DEF ReliableInv, SlotsOfEvent, Open, Settled
<1>10. SlotsOnce'
  BY <1>b, <1>c DEF ReliableInv, SlotsOnce, Open
<1>11. OwnSlot'
  BY <1>b DEF ReliableInv, OwnSlot
<1>12. CompleteWhole'
  <2>1. \A b \in Buf \cup {NoBuf} : Whole(b)' = Whole(b)
    BY <1>b DEF Whole, Settled
  <2> QED
    BY <1>a, <1>b, <2>1, FlatTypes DEF ReliableInv, CompleteWhole
<1>13. CompleteLast'
  BY <1>b, <1>c DEF ReliableInv, CompleteLast, EveryoneWrote
<1>14. OpenUntilLast'
  BY <1>b, <1>c DEF ReliableInv, OpenUntilLast, EveryoneWrote
<1>15. GivenOnce'
  BY <1>b, <1>c DEF ReliableInv, GivenOnce, EveryoneWrote, Open
<1>16. GivenHeld'
  BY <1>b DEF ReliableInv, GivenHeld, WithArt
<1>17. OpenEventsRequested'
  BY <1>b, <1>e DEF ReliableInv, OpenEventsRequested, Unrequested
<1> QED
  BY <1>1, <1>2, <1>3, <1>4, <1>5, <1>6, <1>7, <1>8, <1>9, <1>10, <1>11, <1>12, <1>13, <1>14,
     <1>15, <1>16, <1>17 DEF ReliableInv

\* The request removed is that of the event just completed: its header has not changed.
LEMMA RemoveRequestKeeps ==
  ASSUME Reliable, ReliableInv, TypeInv', NEW t \in Thread, RemoveRequest(t)
  PROVE  ReliableInv'
<1> USE DEF threadVars, lockVars, shmVars, bookVars
<1>a. TypeInv
  BY DEF ReliableInv
<1>h. Unrequested' = Unrequested \ {buf[t]} /\ buf[t] \in Unrequested
  <2>1. \A u \in Thread : pc[u] = "unrequest" /\ u # t => buf[u] # buf[t]
    BY DEF RemoveRequest, ReliableInv, LockedAlone, Locking, Working
  <2> QED
    BY <2>1, FlatTypes DEF RemoveRequest, Goto, ReliableInv, Unrequested
<1>b. /\ pc[t] = "unrequest" /\ pc'[t] = "check" /\ \A u \in Thread \ {t} : pc'[u] = pc[u]
      /\ buf[t] \in Buf /\ requests' = requests \ {hdrSeq[buf[t]]}
      /\ UNCHANGED <<threadVars, lockVars, shmVars, writesPending, active, pending, released,
                     incomplete, dropped, timesReleased>>
  BY <1>a, FlatTypes DEF RemoveRequest, Goto, AtBuffer
<1>c. Written' = Written
  BY <1>b, WrittenSame DEF OtherThreads, BeforeHeader
<1>d. InHand' = InHand
  BY <1>b, InHandSame DEF OtherThreads, Receiving
<1>f. \A b \in Buf : Writers(b)' = Writers(b)
  BY <1>b, WritersSame DEF OtherThreads, WritingAt, PCs
<1>1. NothingGivenUp'
  BY <1>a, <1>b DEF ReliableInv, NothingGivenUp
<1>2. LocksHeld'
  <2>1. \A u \in Thread : (pc'[u] = "init" <=> pc[u] = "init")
          /\ (pc'[u] \in Locking <=> pc[u] \in Locking)
    BY <1>b DEF Locking
  <2> QED
    BY <1>a, <1>b, <2>1, FlatTypes DEF ReliableInv, LocksHeld
<1>3. WorkOnOpen'
  BY <1>b DEF ReliableInv, WorkOnOpen, Working, Locking
<1>4. InitNew'
  BY <1>b DEF ReliableInv, InitNew, Open
<1>5. LockedAlone'
  BY <1>b DEF ReliableInv, LockedAlone, Working, Locking
<1>6. CarriedOnce'
  BY <1>b, <1>h DEF ReliableInv, CarriedOnce, Open
<1>7. BuffersBooked'
  BY <1>b DEF ReliableInv, BuffersBooked, Open
<1>8. WritesPendingExact'
  BY <1>a, <1>b, <1>f, FlatTypes DEF ReliableInv, WritesPendingExact, Open
<1>9. SlotsOfEvent'
  BY <1>b, <1>c, <1>d DEF ReliableInv, SlotsOfEvent, Open, Settled
<1>10. SlotsOnce'
  BY <1>b, <1>c DEF ReliableInv, SlotsOnce, Open
<1>11. OwnSlot'
  BY <1>b DEF ReliableInv, OwnSlot
<1>12. CompleteWhole'
  <2>1. \A b \in Buf \cup {NoBuf} : Whole(b)' = Whole(b)
    BY <1>b DEF Whole, Settled
  <2> QED
    BY <1>a, <1>b, <2>1, FlatTypes DEF ReliableInv, CompleteWhole
<1>13. CompleteLast'
  BY <1>b, <1>c DEF ReliableInv, CompleteLast, EveryoneWrote
<1>14. OpenUntilLast'
  BY <1>b, <1>c DEF ReliableInv, OpenUntilLast, EveryoneWrote
<1>15. GivenOnce'
  BY <1>b, <1>c DEF ReliableInv, GivenOnce, EveryoneWrote, Open
<1>16. GivenHeld'
  BY <1>b DEF ReliableInv, GivenHeld, WithArt
<1>17. OpenEventsRequested'
  <2>1. \A b \in active \cup Unrequested' : hdrSeq[b] # hdrSeq[buf[t]]
    BY <1>h DEF ReliableInv, CarriedOnce, Open
  <2>2. requests = {hdrSeq[b] : b \in active \cup Unrequested}
    BY DEF ReliableInv, OpenEventsRequested, Unrequested
  <2>3. requests' = {hdrSeq[b] : b \in active \cup Unrequested'}
    BY <1>b, <1>h, <2>1, <2>2
  <2> QED
    BY <1>b, <2>3 DEF OpenEventsRequested, Unrequested
<1> QED
  BY <1>1, <1>2, <1>3, <1>4, <1>5, <1>6, <1>7, <1>8, <1>9, <1>10, <1>11, <1>12, <1>13, <1>14,
     <1>15, <1>16, <1>17 DEF ReliableInv

\* The buffer found again is the one the thread wrote to: no other carries the event.
LEMMA DoneFoundKeeps ==
  ASSUME Reliable, ReliableInv, TypeInv', NEW t \in Thread, DoneFound(t)
  PROVE  ReliableInv'
<1> USE DEF threadVars, lockVars, shmVars, bookVars
<1>a. TypeInv
  BY DEF ReliableInv
<1>g. PICK taken \in Holding(event[t]) : buf' = [buf EXCEPT ![t] = taken]
  BY DEF DoneFound
<1>h. pc[t] \in {"done", "doneInvalid"} /\ buf[t] \in active /\ taken = buf[t]
  <2>1. /\ pc[t] \in {"done", "doneInvalid"} /\ seqLock = NoThread
        /\ taken \in Buf /\ sem[taken] = "Writing" /\ hdrSeq[taken] = event[t]
    BY <1>g DEF DoneFound, Holding
  <2>2. taken \in Open
    BY <1>a, <2>1, FlatTypes, ConstantsAssumption DEF ReliableInv, BuffersBooked
  <2>3. buf[t] \in active /\ hdrSeq[buf[t]] = event[t]
    BY <2>1 DEF ReliableInv, WorkOnOpen, Working
  <2> QED
    BY <2>1, <2>2, <2>3 DEF ReliableInv, CarriedOnce, Open
<1>b. /\ pc[t] \in {"done", "doneInvalid"} /\ pc'[t] = IF pc[t] = "done" THEN "finish" ELSE "update"
      /\ \A u \in Thread \ {t} : pc'[u] = pc[u]
      /\ UNCHANGED <<threadVars, lockVars, shmVars, bookVars>>
  BY <1>a, <1>g, <1>h, FlatTypes DEF DoneFound, Goto
<1>c. Written' = Written
  BY <1>b, WrittenSame DEF OtherThreads, BeforeHeader
<1>d. InHand' = InHand
  BY <1>b, InHandSame DEF OtherThreads, Receiving
<1>e. Unrequested' = Unrequested
  BY <1>b, UnrequestedSame DEF OtherThreads
<1>f. \A b \in Buf : Writers(b)' = Writers(b)
  BY <1>b, WritersSame DEF OtherThreads, WritingAt, PCs
<1>1. NothingGivenUp'
  BY <1>a, <1>b DEF ReliableInv, NothingGivenUp
<1>2. LocksHeld'
  <2>1. \A u \in Thread : (pc'[u] = "init" <=> pc[u] = "init")
          /\ (pc'[u] \in Locking <=> pc[u] \in Locking)
    BY <1>b DEF Locking
  <2> QED
    BY <1>a, <1>b, <2>1, FlatTypes DEF ReliableInv, LocksHeld
<1>3. WorkOnOpen'
  BY <1>b DEF ReliableInv, WorkOnOpen, Working, Locking
<1>4. InitNew'
  BY <1>b DEF ReliableInv, InitNew, Open
<1>5. LockedAlone'
  BY <1>b DEF ReliableInv, LockedAlone, Working, Locking
<1>6. CarriedOnce'
  BY <1>b, <1>e DEF ReliableInv, CarriedOnce, Open
<1>7. BuffersBooked'
  BY <1>b DEF ReliableInv, BuffersBooked, Open
<1>8. WritesPendingExact'
  BY <1>a, <1>b, <1>f, FlatTypes DEF ReliableInv, WritesPendingExact, Open
<1>9. SlotsOfEvent'
  BY <1>b, <1>c, <1>d DEF ReliableInv, SlotsOfEvent, Open, Settled
<1>10. SlotsOnce'
  BY <1>b, <1>c DEF ReliableInv, SlotsOnce, Open
<1>11. OwnSlot'
  BY <1>b DEF ReliableInv, OwnSlot
<1>12. CompleteWhole'
  <2>1. \A b \in Buf \cup {NoBuf} : Whole(b)' = Whole(b)
    BY <1>b DEF Whole, Settled
  <2> QED
    BY <1>a, <1>b, <2>1, FlatTypes DEF ReliableInv, CompleteWhole
<1>13. CompleteLast'
  BY <1>b, <1>c DEF ReliableInv, CompleteLast, EveryoneWrote
<1>14. OpenUntilLast'
  BY <1>b, <1>c DEF ReliableInv, OpenUntilLast, EveryoneWrote
<1>15. GivenOnce'
  BY <1>b, <1>c DEF ReliableInv, GivenOnce, EveryoneWrote, Open
<1>16. GivenHeld'
  BY <1>b DEF ReliableInv, GivenHeld, WithArt
<1>17. OpenEventsRequested'
  BY <1>b, <1>e DEF ReliableInv, OpenEventsRequested, Unrequested
<1> QED
  BY <1>1, <1>2, <1>3, <1>4, <1>5, <1>6, <1>7, <1>8, <1>9, <1>10, <1>11, <1>12, <1>13, <1>14,
     <1>15, <1>16, <1>17 DEF ReliableInv

\* The last writer is the only one, so it has the buffer to itself under the mutex.
LEMMA FinishLastKeeps ==
  ASSUME Reliable, ReliableInv, TypeInv', NEW t \in Thread, FinishLast(t)
  PROVE  ReliableInv'
<1> USE DEF threadVars, lockVars, shmVars, bookVars
<1>a. TypeInv
  BY DEF ReliableInv
<1>g. pc[t] = "finish" /\ buf[t] \in active /\ buf[t] \in Buf /\ hdrSeq[buf[t]] = event[t]
      /\ bufLock[buf[t]] = NoThread /\ writesPending[buf[t]] <= 1
  BY <1>a, FlatTypes DEF FinishLast, LastWriter, ReliableInv, WorkOnOpen, Working, AtBuffer
<1>h. Writers(buf[t]) = {t}
  <2>1. t \in Writers(buf[t])
    BY <1>g DEF Writers, PCs
  <2>2. IsFiniteSet(Writers(buf[t]))
    BY FinitenessAssumption, FS_Subset DEF Writers
  <2>3. Cardinality(Writers(buf[t])) <= 1
    BY <1>g DEF ReliableInv, WritesPendingExact, Open
  <2>4. Cardinality(Writers(buf[t]) \ {t}) = Cardinality(Writers(buf[t])) - 1
    BY <2>1, <2>2, FS_RemoveElement
  <2>5. IsFiniteSet(Writers(buf[t]) \ {t}) /\ Cardinality(Writers(buf[t]) \ {t}) \in Nat
          /\ Cardinality(Writers(buf[t])) \in Nat
    BY <2>2, FS_RemoveElement, FS_CardinalityType
  <2>6. Writers(buf[t]) \ {t} = {}
    BY <2>3, <2>4, <2>5, FS_EmptySet
  <2> QED
    BY <2>1, <2>6
<1>b. /\ pc[t] = "finish" /\ pc'[t] = "count" /\ \A u \in Thread \ {t} : pc'[u] = pc[u]
      /\ bufLock' = [bufLock EXCEPT ![buf[t]] = t]
      /\ UNCHANGED <<threadVars, seqLock, sem, hdrSeq, isComplete, slots, bookVars>>
      /\ stale' = stale \ {buf[t]}
  BY <1>a, FlatTypes DEF FinishLast, LockBuffer, Goto
<1>c. Written' = Written
  BY <1>b, WrittenSame DEF OtherThreads, BeforeHeader
<1>d. InHand' = InHand
  BY <1>b, InHandSame DEF OtherThreads, Receiving
<1>e. Unrequested' = Unrequested
  BY <1>b, UnrequestedSame DEF OtherThreads
<1>f. \A b \in Buf : Writers(b)' = Writers(b)
  BY <1>b, WritersSame DEF OtherThreads, WritingAt, PCs
<1>1. NothingGivenUp'
  BY <1>a, <1>b DEF ReliableInv, NothingGivenUp
<1>2. LocksHeld'
  <2>1. \A u \in Thread : pc'[u] = "init" <=> pc[u] = "init"
    BY <1>b
  <2>2. \A u \in Thread : u # t => (pc'[u] \in Locking <=> pc[u] \in Locking)
    BY <1>b
  <2>3. \A u \in Thread : pc[u] \in Locking => buf[u] # buf[t] /\ buf[u] \in Buf
    BY <1>a, <1>g, FlatTypes, ConstantsAssumption DEF ReliableInv, LocksHeld, Locking, AtBuffer
  <2>4. pc'[t] \in Locking /\ bufLock'[buf[t]] = t
    BY <1>a, <1>b, <1>g, FlatTypes DEF Locking
  <2>5. \A b \in Buf \ {buf[t]} : bufLock'[b] = bufLock[b]
    BY <1>a, <1>b, FlatTypes
  <2>6. \A u \in Thread : pc'[u] = "init" <=> seqLock' = u
    BY <1>b, <2>1 DEF ReliableInv, LocksHeld
  <2>7. ASSUME NEW u \in Thread, pc'[u] \in Locking PROVE bufLock'[buf[u]] = u
    BY <2>2, <2>3, <2>4, <2>5, <2>7 DEF ReliableInv, LocksHeld
  <2>8. ASSUME NEW b \in Buf, bufLock'[b] # NoThread
        PROVE  buf[bufLock'[b]] = b /\ pc'[bufLock'[b]] \in Locking
    <3>1. CASE b = buf[t]
      BY <2>4, <3>1
    <3>2. CASE b # buf[t]
      <4>1. bufLock'[b] = bufLock[b] /\ bufLock[b] \in Thread
        BY <1>a, <2>5, <2>8, <3>2, FlatTypes
      <4> QED
        BY <2>2, <2>4, <2>8, <4>1 DEF ReliableInv, LocksHeld
    <3> QED
      BY <3>1, <3>2
  <2> QED
    BY <1>b, <2>6, <2>7, <2>8 DEF LocksHeld, Locking
<1>3. WorkOnOpen'
  BY <1>b DEF ReliableInv, WorkOnOpen, Working, Locking
<1>4. InitNew'
  BY <1>b DEF ReliableInv, InitNew, Open
<1>5. LockedAlone'
  <2>1. \A u \in Thread : u # t /\ buf[u] = buf[t]
          => pc[u] \notin (Working \cup Locking) \ {"reserve", "header"}
    BY <1>h DEF Writers, PCs, Working, Locking
  <2>2. \A u \in Thread : pc[u] \in Locking => buf[u] # buf[t] /\ buf[u] \in Buf
    BY <1>a, <1>g, FlatTypes, ConstantsAssumption DEF ReliableInv, LocksHeld, Locking, AtBuffer
  <2> QED
    BY <1>b, <2>1, <2>2 DEF ReliableInv, LockedAlone
<1>6. CarriedOnce'
  BY <1>b, <1>e DEF ReliableInv, CarriedOnce, Open
<1>7. BuffersBooked'
  BY <1>b DEF ReliableInv, BuffersBooked, Open
<1>8. WritesPendingExact'
  BY <1>a, <1>b, <1>f, FlatTypes DEF ReliableInv, WritesPendingExact, Open
<1>9. SlotsOfEvent'
  BY <1>b, <1>c, <1>d DEF ReliableInv, SlotsOfEvent, Open, Settled
<1>10. SlotsOnce'
  BY <1>b, <1>c DEF ReliableInv, SlotsOnce, Open
<1>11. OwnSlot'
  BY <1>b DEF ReliableInv, OwnSlot
<1>12. CompleteWhole'
  <2>1. \A b \in Buf \cup {NoBuf} : Whole(b)' = Whole(b)
    BY <1>b DEF Whole, Settled
  <2> QED
    BY <1>a, <1>b, <2>1, FlatTypes DEF ReliableInv, CompleteWhole
<1>13. CompleteLast'
  BY <1>b, <1>c DEF ReliableInv, CompleteLast, EveryoneWrote
<1>14. OpenUntilLast'
  BY <1>b, <1>c DEF ReliableInv, OpenUntilLast, EveryoneWrote
<1>15. GivenOnce'
  BY <1>b, <1>c DEF ReliableInv, GivenOnce, EveryoneWrote, Open
<1>16. GivenHeld'
  BY <1>b DEF ReliableInv, GivenHeld, WithArt
<1>17. OpenEventsRequested'
  BY <1>b, <1>e DEF ReliableInv, OpenEventsRequested, Unrequested
<1> QED
  BY <1>1, <1>2, <1>3, <1>4, <1>5, <1>6, <1>7, <1>8, <1>9, <1>10, <1>11, <1>12, <1>13, <1>14,
     <1>15, <1>16, <1>17 DEF ReliableInv

\* The write is taken back as the mutex is given back.
LEMMA DoneUnlockKeeps ==
  ASSUME Reliable, ReliableInv, TypeInv', NEW t \in Thread, DoneUnlock(t)
  PROVE  ReliableInv'
<1> USE DEF threadVars, lockVars, shmVars, bookVars
<1>a. TypeInv
  BY DEF ReliableInv
<1>g. pc[t] = "unlock" /\ buf[t] \in Buf /\ hdrSeq[buf[t]] = event[t] /\ bufLock[buf[t]] = t
  BY <1>a, FlatTypes DEF DoneUnlock, ReliableInv, WorkOnOpen, LocksHeld, Locking, AtBuffer
<1>b. /\ pc[t] = "unlock" /\ pc'[t] = "recv" /\ \A u \in Thread \ {t} : pc'[u] = pc[u]
      /\ bufLock' = [bufLock EXCEPT ![buf[t]] = NoThread]
           /\ writesPending' = [writesPending EXCEPT ![buf[t]] = @ - 1]
      /\ UNCHANGED <<threadVars, seqLock, shmVars, active, pending, released, incomplete, requests,
                     dropped, timesReleased>>
  BY <1>a, FlatTypes DEF DoneUnlock, EndWrite, Goto
<1>c. Written' = Written
  BY <1>b, WrittenSame DEF OtherThreads, BeforeHeader
<1>d. InHand' = InHand
  BY <1>b, InHandSame DEF OtherThreads, Receiving
<1>e. Unrequested' = Unrequested
  BY <1>b, UnrequestedSame DEF OtherThreads
<1>1. NothingGivenUp'
  BY <1>a, <1>b DEF ReliableInv, NothingGivenUp
<1>2. LocksHeld'
  <2>1. \A u \in Thread : pc'[u] = "init" <=> pc[u] = "init"
    BY <1>b
  <2>2. \A u \in Thread \ {t} : pc'[u] \in Locking <=> pc[u] \in Locking
    BY <1>b
  <2>3. pc'[t] \notin Locking
    BY <1>b DEF Locking
  <2>4. \A u \in Thread \ {t} : pc[u] \in Locking => buf[u] # buf[t] /\ buf[u] \in Buf
    BY <1>a, <1>g, FlatTypes DEF ReliableInv, LocksHeld, Locking, AtBuffer
  <2>5. bufLock'[buf[t]] = NoThread /\ \A b \in Buf \ {buf[t]} : bufLock'[b] = bufLock[b]
    BY <1>a, <1>b, <1>g, FlatTypes
  <2>6. \A u \in Thread : pc'[u] = "init" <=> seqLock' = u
    BY <1>b, <2>1 DEF ReliableInv, LocksHeld
  <2>7. ASSUME NEW u \in Thread, pc'[u] \in Locking PROVE bufLock'[buf[u]] = u
    BY <2>2, <2>3, <2>4, <2>5, <2>7 DEF ReliableInv, LocksHeld
  <2>8. ASSUME NEW b \in Buf, bufLock'[b] # NoThread
        PROVE  buf[bufLock'[b]] = b /\ pc'[bufLock'[b]] \in Locking
    <3>1. b # buf[t] /\ bufLock'[b] = bufLock[b] /\ bufLock[b] \in Thread
      BY <1>a, <2>5, <2>8, FlatTypes
    <3>2. buf[bufLock[b]] = b /\ pc[bufLock[b]] \in Locking
      BY <2>8, <3>1 DEF ReliableInv, LocksHeld
    <3> QED
      BY <2>2, <3>1, <3>2
  <2> QED
    BY <1>b, <2>6, <2>7, <2>8 DEF LocksHeld, Locking
<1>3. WorkOnOpen'
  BY <1>b DEF ReliableInv, WorkOnOpen, Working, Locking
<1>4. InitNew'
  BY <1>b DEF ReliableInv, InitNew, Open
<1>5. LockedAlone'
  BY <1>b DEF ReliableInv, LockedAlone, Working, Locking
<1>6. CarriedOnce'
  BY <1>b, <1>e DEF ReliableInv, CarriedOnce, Open
<1>7. BuffersBooked'
  BY <1>b DEF ReliableInv, BuffersBooked, Open
<1>8. WritesPendingExact'
  <2>1. Writers(buf[t])' = Writers(buf[t]) \ {t} /\ t \in Writers(buf[t])
    BY <1>b, <1>g DEF Writers, PCs
  <2>2. \A b \in Buf \ {buf[t]} : Writers(b)' = Writers(b)
    BY <1>b, WritersSame DEF OtherThreads, WritingAt, PCs
  <2>3. IsFiniteSet(Writers(buf[t]))
    BY FinitenessAssumption, FS_Subset DEF Writers
  <2>4. Cardinality(Writers(buf[t])') = Cardinality(Writers(buf[t])) - 1
    BY <2>1, <2>3, FS_RemoveElement
  <2> QED
    BY <1>a, <1>b, <1>g, <2>2, <2>4, FlatTypes DEF ReliableInv, WritesPendingExact, Open
<1>9. SlotsOfEvent'
  BY <1>b, <1>c, <1>d DEF ReliableInv, SlotsOfEvent, Open, Settled
<1>10. SlotsOnce'
  BY <1>b, <1>c DEF ReliableInv, SlotsOnce, Open
<1>11. OwnSlot'
  BY <1>b DEF ReliableInv, OwnSlot
<1>12. CompleteWhole'
  <2>1. \A b \in Buf \cup {NoBuf} : Whole(b)' = Whole(b)
    BY <1>b DEF Whole, Settled
  <2> QED
    BY <1>a, <1>b, <2>1, FlatTypes DEF ReliableInv, CompleteWhole
<1>13. CompleteLast'
  BY <1>b, <1>c DEF ReliableInv, CompleteLast, EveryoneWrote
<1>14. OpenUntilLast'
  BY <1>b, <1>c DEF ReliableInv, OpenUntilLast, EveryoneWrote
<1>15. GivenOnce'
  BY <1>b, <1>c DEF ReliableInv, GivenOnce, EveryoneWrote, Open
<1>16. GivenHeld'
  BY <1>b DEF ReliableInv, GivenHeld, WithArt
<1>17. OpenEventsRequested'
  BY <1>b, <1>e DEF ReliableInv, OpenEventsRequested, Unrequested
<1> QED
  BY <1>1, <1>2, <1>3, <1>4, <1>5, <1>6, <1>7, <1>8, <1>9, <1>10, <1>11, <1>12, <1>13, <1>14,
     <1>15, <1>16, <1>17 DEF ReliableInv

\* The header marked invalid is the thread's own.
LEMMA UpdateFragmentHeaderKeeps ==
  ASSUME Reliable, ReliableInv, TypeInv', NEW t \in Thread, UpdateFragmentHeader(t)
  PROVE  ReliableInv'
<1> USE DEF threadVars, lockVars, shmVars, bookVars
<1>a. TypeInv
  BY DEF ReliableInv
<1>g. pc[t] = "update" /\ buf[t] \in active /\ buf[t] \in Buf /\ hdrSeq[buf[t]] = event[t]
  BY <1>a, FlatTypes DEF UpdateFragmentHeader, ReliableInv, WorkOnOpen, Working, AtBuffer
<1>k. slots[buf[t]] # << >> /\ 1 \in DOMAIN slots[buf[t]] /\ slots[buf[t]][1].src = t
  <2>1. <<t, event[t]>> \in Written
    BY <1>a, <1>g, FlatTypes DEF Written, BeforeHeader, SeqID
  <2>2. \E i \in DOMAIN slots[buf[t]] : TRUE
    BY <1>g, <2>1 DEF ReliableInv, SlotsOnce, Open
  <2>3. slots[buf[t]] \in Seq(Slot)
    BY <1>a, <1>g, FlatTypes
  <2> QED
    BY <2>2, <2>3 DEF UpdateFragmentHeader
<1>b. /\ pc[t] = "update" /\ pc'[t] = "finish" /\ \A u \in Thread \ {t} : pc'[u] = pc[u]
      /\ UNCHANGED <<threadVars, lockVars, sem, stale, hdrSeq, isComplete, bookVars>>
  BY <1>a, FlatTypes DEF UpdateFragmentHeader, Goto
<1>c. Written' = Written
  BY <1>b, WrittenSame DEF OtherThreads, BeforeHeader
<1>e. Unrequested' = Unrequested
  BY <1>b, UnrequestedSame DEF OtherThreads
<1>f. \A b \in Buf : Writers(b)' = Writers(b)
  BY <1>b, WritersSame DEF OtherThreads, WritingAt, PCs
<1>h. \A b \in Buf : DOMAIN slots'[b] = DOMAIN slots[b] /\ \A i \in DOMAIN slots[b] :
        /\ slots'[b][i].src = slots[b][i].src /\ slots'[b][i].seq = slots[b][i].seq
        /\ Settled(slots[b][i]) \/ (b = buf[t] /\ i = 1) => Settled(slots'[b][i])
  <2>1. slots' = [slots EXCEPT ![buf[t]][1].valid = FALSE]
    BY <1>k DEF UpdateFragmentHeader
  <2> QED
    BY <1>a, <1>g, <1>k, <2>1, FlatTypes, FlagSet DEF Settled
<1>j. InHand' = InHand \ {<<t, event[t]>>}
  BY <1>a, <1>b, FlatTypes DEF InHand, Receiving
<1>1. NothingGivenUp'
  BY <1>a, <1>b DEF ReliableInv, NothingGivenUp
<1>2. LocksHeld'
  <2>1. \A u \in Thread : (pc'[u] = "init" <=> pc[u] = "init")
          /\ (pc'[u] \in Locking <=> pc[u] \in Locking)
    BY <1>b DEF Locking
  <2> QED
    BY <1>a, <1>b, <2>1, FlatTypes DEF ReliableInv, LocksHeld
<1>3. WorkOnOpen'
  BY <1>b DEF ReliableInv, WorkOnOpen, Working, Locking
<1>4. InitNew'
  <2>1. \A b \in Buf \ {buf[t]} : slots'[b] = slots[b]
    BY <1>a, <1>g, FlatTypes DEF UpdateFragmentHeader
  <2>2. \A u \in Thread : pc[u] = "init" => buf[u] \in Buf \ {buf[t]}
    BY <1>a, <1>g, FlatTypes DEF AtBuffer, ReliableInv, InitNew, Open
  <2> QED
    BY <1>b, <2>1, <2>2 DEF ReliableInv, InitNew, Open
<1>5. LockedAlone'
  BY <1>b DEF ReliableInv, LockedAlone, Working, Locking
<1>6. CarriedOnce'
  BY <1>b, <1>e DEF ReliableInv, CarriedOnce, Open
<1>7. BuffersBooked'
  BY <1>b DEF ReliableInv, BuffersBooked, Open
<1>8. WritesPendingExact'
  BY <1>a, <1>b, <1>f, FlatTypes DEF ReliableInv, WritesPendingExact, Open
<1>9. SlotsOfEvent'
  <2>1. \A b \in Open : \A i \in DOMAIN slots[b] :
         slots[b][i].src = t /\ hdrSeq[b] = event[t] => b = buf[t] /\ i = 1
    BY <1>g, <1>k DEF ReliableInv, CarriedOnce, SlotsOnce, Open
  <2>2. SUFFICES ASSUME NEW b \in Open, NEW i \in DOMAIN slots[b]
                 PROVE  /\ slots'[b][i].seq = hdrSeq[b]
                             /\ <<slots'[b][i].src, hdrSeq[b]>> \in Written
                        /\ Settled(slots'[b][i]) \/ <<slots'[b][i].src, hdrSeq[b]>> \in InHand'
    BY <1>a, <1>b, <1>c, <1>h, FlatTypes DEF SlotsOfEvent, Open
  <2>3. b \in Buf
    BY <1>a, FlatTypes DEF Open
  <2>4. /\ slots[b][i].seq = hdrSeq[b] /\ <<slots[b][i].src, hdrSeq[b]>> \in Written
        /\ Settled(slots[b][i]) \/ <<slots[b][i].src, hdrSeq[b]>> \in InHand
    BY DEF ReliableInv, SlotsOfEvent
  <2>5. CASE b = buf[t] /\ i = 1
    BY <1>h, <2>3, <2>4, <2>5
  <2>6. CASE ~(b = buf[t] /\ i = 1)
    <3>1. <<slots[b][i].src, hdrSeq[b]>> # <<t, event[t]>>
      BY <2>1, <2>6
    <3> QED
      BY <1>h, <1>j, <2>3, <2>4, <3>1
  <2> QED
    BY <2>5, <2>6
<1>10. SlotsOnce'
  <2>1. \A b \in Open : b \in Buf
    BY <1>a, FlatTypes DEF Open
  <2>2. \A b \in Open : \A i, j \in DOMAIN slots'[b] : slots'[b][i].src = slots'[b][j].src => i = j
    BY <1>h, <2>1 DEF ReliableInv, SlotsOnce
  <2>3. \A b \in Open, u \in Thread : <<u, hdrSeq[b]>> \in Written
          => \E i \in DOMAIN slots'[b] : slots'[b][i].src = u
    BY <1>h, <2>1 DEF ReliableInv, SlotsOnce
  <2> QED
    BY <1>b, <1>c, <2>2, <2>3 DEF SlotsOnce, Open
<1>11. OwnSlot'
  <2>1. \A u \in Thread : pc'[u] = "body" => pc[u] = "body" /\ buf[u] \in Buf
    BY <1>a, <1>b, FlatTypes DEF ReliableInv, WorkOnOpen, Working
  <2> QED
    BY <1>b, <1>h, <2>1 DEF ReliableInv, OwnSlot
<1>12. CompleteWhole'
  <2>1. \A b \in Buf : Whole(b) => Whole(b)'
    BY <1>b, <1>h DEF Whole, Settled
  <2> QED
    BY <1>a, <1>b, <2>1, FlatTypes DEF ReliableInv, CompleteWhole, AtBuffer
<1>13. CompleteLast'
  BY <1>b, <1>c DEF ReliableInv, CompleteLast, EveryoneWrote
<1>14. OpenUntilLast'
  BY <1>b, <1>c DEF ReliableInv, OpenUntilLast, EveryoneWrote
<1>15. GivenOnce'
  BY <1>b, <1>c DEF ReliableInv, GivenOnce, EveryoneWrote, Open
<1>16. GivenHeld'
  BY <1>b DEF ReliableInv, GivenHeld, WithArt
<1>17. OpenEventsRequested'
  BY <1>b, <1>e DEF ReliableInv, OpenEventsRequested, Unrequested
<1> QED
  BY <1>1, <1>2, <1>3, <1>4, <1>5, <1>6, <1>7, <1>8, <1>9, <1>10, <1>11, <1>12, <1>13, <1>14,
     <1>15, <1>16, <1>17 DEF ReliableInv

\* Complete events are given to art, each once.
LEMMA CheckPendingKeeps ==
  ASSUME Reliable, ReliableInv, TypeInv', NEW t \in Thread, CheckPending(t)
  PROVE  ReliableInv'
<1> USE DEF threadVars, lockVars, shmVars, bookVars
<1>a. TypeInv
  BY DEF ReliableInv
<1>h. /\ UNCHANGED <<active, incomplete, requests>> /\ pending' = {}
      /\ SemAfterCheck = [b \in Buf |-> IF b \in pending THEN "Full" ELSE sem[b]]
      /\ \A e \in SeqID : timesReleased'[e] = timesReleased[e]
           + IF \E b \in pending : hdrSeq[b] = e THEN 1 ELSE 0
  BY CheckPendingGives DEF CheckPending
<1>b. /\ pc[t] = "check" /\ pc'[t] = "unlock" /\ \A u \in Thread \ {t} : pc'[u] = pc[u]
           /\ buf'[u] = buf[u]
      /\ sem' = SemAfterCheck
      /\ UNCHANGED <<threadVars, lockVars, stale, hdrSeq, isComplete, slots, writesPending,
                     released, dropped>>
  BY <1>a, FlatTypes DEF CheckPending, Goto
<1>c. Written' = Written
  BY <1>b, WrittenSame DEF OtherThreads, BeforeHeader
<1>d. InHand' = InHand
  BY <1>b, InHandSame DEF OtherThreads, Receiving
<1>e. Unrequested' = Unrequested
  BY <1>b, UnrequestedSame DEF OtherThreads
<1>f. \A b \in Buf : Writers(b)' = Writers(b)
  BY <1>b, WritersSame DEF OtherThreads, WritingAt, PCs
<1>1. NothingGivenUp'
  BY <1>b, <1>h DEF ReliableInv, NothingGivenUp
<1>2. LocksHeld'
  <2>1. \A u \in Thread : (pc'[u] = "init" <=> pc[u] = "init")
          /\ (pc'[u] \in Locking <=> pc[u] \in Locking)
    BY <1>b DEF Locking
  <2> QED
    BY <1>a, <1>b, <2>1, FlatTypes DEF ReliableInv, LocksHeld
<1>3. WorkOnOpen'
  BY <1>b, <1>h DEF ReliableInv, WorkOnOpen, Working, Locking
<1>4. InitNew'
  BY <1>b, <1>h DEF ReliableInv, InitNew, Open
<1>5. LockedAlone'
  BY <1>b DEF ReliableInv, LockedAlone, Working, Locking
<1>6. CarriedOnce'
  BY <1>b, <1>e, <1>h DEF ReliableInv, CarriedOnce, Open
<1>7. BuffersBooked'
  <2>1. seqLock # NoThread => buf'[seqLock] = buf[seqLock] /\ buf[seqLock] \notin Open
    BY <1>a, <1>b, FlatTypes DEF ReliableInv, LocksHeld, InitNew
  <2>2. \A b \in Buf : sem'[b] = "Writing" <=> sem[b] = "Writing" /\ b \notin pending
    BY <1>a, <1>b, <1>h, FlatTypes
  <2> QED
    BY <1>b, <1>h, <2>1, <2>2 DEF ReliableInv, BuffersBooked, Open
<1>8. WritesPendingExact'
  BY <1>a, <1>b, <1>f, <1>h, FlatTypes DEF ReliableInv, WritesPendingExact, Open
<1>9. SlotsOfEvent'
  BY <1>b, <1>c, <1>d, <1>h DEF ReliableInv, SlotsOfEvent, Open, Settled
<1>10. SlotsOnce'
  BY <1>b, <1>c, <1>h DEF ReliableInv, SlotsOnce, Open
<1>11. OwnSlot'
  BY <1>b DEF ReliableInv, OwnSlot
<1>12. CompleteWhole'
  <2>1. \A b \in Buf : Whole(b)' = Whole(b)
    BY <1>b DEF Whole, Settled
  <2>2. \A b \in Buf : sem'[b] \in {"Full", "Reading"}
          => b \in pending \/ sem[b] \in {"Full", "Reading"}
    BY <1>a, <1>b, <1>h, FlatTypes
  <2> QED
    BY <1>a, <1>b, <1>h, <2>1, <2>2, FlatTypes DEF ReliableInv, CompleteWhole, AtBuffer
<1>13. CompleteLast'
  BY <1>b, <1>c, <1>h DEF ReliableInv, CompleteLast, EveryoneWrote
<1>14. OpenUntilLast'
  BY <1>b, <1>c, <1>h DEF ReliableInv, OpenUntilLast, EveryoneWrote
<1>15. GivenOnce'
  <2>1. SUFFICES ASSUME NEW e \in SeqID, timesReleased'[e] # 0
                 PROVE  timesReleased'[e] = 1 /\ EveryoneWrote(e) /\ \A b \in active : hdrSeq[b] # e
    BY <1>b, <1>c, <1>h DEF GivenOnce, EveryoneWrote, Open
  <2>2. CASE \E b \in pending : hdrSeq[b] = e
    <3>1. timesReleased[e] = 0
      BY <2>2 DEF ReliableInv, GivenOnce, Open
    <3>2. EveryoneWrote(e)
      BY <2>2 DEF ReliableInv, CompleteLast
    <3>3. \A b \in active : hdrSeq[b] # e
      BY <2>2 DEF ReliableInv, CarriedOnce, BuffersBooked, Open
    <3> QED
      BY <1>h, <2>2, <3>1, <3>2, <3>3
  <2>3. CASE ~\E b \in pending : hdrSeq[b] = e
    <3>1. timesReleased[e] = timesReleased'[e]
      BY <1>a, <1>h, <2>3 DEF TypeInv, BooksTypeOK
    <3> QED
      BY <2>1, <3>1 DEF ReliableInv, GivenOnce, Open
  <2> QED
    BY <2>2, <2>3
<1>16. GivenHeld'
  <2>1. \A c \in Buf : sem'[c] \in {"Full", "Reading"}
          => c \in pending \/ sem[c] \in {"Full", "Reading"}
    BY <1>a, <1>b, <1>h, FlatTypes
  <2>2. \A c \in pending : hdrSeq[c] \in SeqID /\ timesReleased[hdrSeq[c]] = 0
    BY DEF ReliableInv, CarriedOnce, GivenOnce, Open
  <2>3. \A e \in SeqID : timesReleased[e] \in Nat
          /\ (timesReleased[e] # 0 \/ (\E c \in pending : hdrSeq[c] = e) => timesReleased'[e] # 0)
    BY <1>a, <1>h DEF TypeInv, BooksTypeOK
  <2>4. \A c \in WithArt' : c \in pending \/ c \in WithArt
    BY <2>1 DEF WithArt
  <2>5. \A c \in WithArt' : hdrSeq[c] \in SeqID /\ timesReleased'[hdrSeq[c]] # 0
    BY <2>2, <2>3, <2>4 DEF ReliableInv, GivenHeld
  <2>6. \A c, d \in pending : hdrSeq[c] = hdrSeq[d] => c = d
    BY DEF ReliableInv, CarriedOnce, Open
  <2>7. \A c, d \in WithArt' : hdrSeq[c] = hdrSeq[d] => c = d
    BY <2>2, <2>4, <2>6 DEF ReliableInv, GivenHeld
  <2> QED
    BY <1>b, <2>5, <2>7 DEF GivenHeld
<1>17. OpenEventsRequested'
  BY <1>b, <1>e, <1>h DEF ReliableInv, OpenEventsRequested, Unrequested
<1> QED
  BY <1>1, <1>2, <1>3, <1>4, <1>5, <1>6, <1>7, <1>8, <1>9, <1>10, <1>11, <1>12, <1>13, <1>14,
     <1>15, <1>16, <1>17 DEF ReliableInv

\* The same from the idle loop.
LEMMA IdleCheckKeeps ==
  ASSUME Reliable, ReliableInv, TypeInv', NEW t \in Thread, IdleCheck(t)
  PROVE  ReliableInv'
<1> USE DEF threadVars, lockVars, shmVars, bookVars
<1>a. TypeInv
  BY DEF ReliableInv
<1>h. /\ UNCHANGED <<active, incomplete, requests>> /\ pending' = {}
      /\ SemAfterCheck = [b \in Buf |-> IF b \in pending THEN "Full" ELSE sem[b]]
      /\ \A e \in SeqID : timesReleased'[e] = timesReleased[e]
           + IF \E b \in pending : hdrSeq[b] = e THEN 1 ELSE 0
  BY CheckPendingGives DEF IdleCheck
<1>b. /\ pc[t] = "recv" /\ pc'[t] = "recv" /\ \A u \in Thread \ {t} : pc'[u] = pc[u]
           /\ buf'[u] = buf[u]
      /\ sem' = SemAfterCheck
      /\ UNCHANGED <<pc, threadVars, lockVars, stale, hdrSeq, isComplete, slots, writesPending,
                     released, dropped>>
  BY <1>a, FlatTypes DEF IdleCheck
<1>c. Written' = Written
  BY <1>b, WrittenSame DEF OtherThreads, BeforeHeader
<1>d. InHand' = InHand
  BY <1>b, InHandSame DEF OtherThreads, Receiving
<1>e. Unrequested' = Unrequested
  BY <1>b, UnrequestedSame DEF OtherThreads
<1>f. \A b \in Buf : Writers(b)' = Writers(b)
  BY <1>b, WritersSame DEF OtherThreads, WritingAt, PCs
<1>1. NothingGivenUp'
  BY <1>b, <1>h DEF ReliableInv, NothingGivenUp
<1>2. LocksHeld'
  <2>1. \A u \in Thread : (pc'[u] = "init" <=> pc[u] = "init")
          /\ (pc'[u] \in Locking <=> pc[u] \in Locking)
    BY <1>b DEF Locking
  <2> QED
    BY <1>a, <1>b, <2>1, FlatTypes DEF ReliableInv, LocksHeld
<1>3. WorkOnOpen'
  BY <1>b, <1>h DEF ReliableInv, WorkOnOpen, Working, Locking
<1>4. InitNew'
  BY <1>b, <1>h DEF ReliableInv, InitNew, Open
<1>5. LockedAlone'
  BY <1>b DEF ReliableInv, LockedAlone, Working, Locking
<1>6. CarriedOnce'
  BY <1>b, <1>e, <1>h DEF ReliableInv, CarriedOnce, Open
<1>7. BuffersBooked'
  <2>1. seqLock # NoThread => buf'[seqLock] = buf[seqLock] /\ buf[seqLock] \notin Open
    BY <1>a, <1>b, FlatTypes DEF ReliableInv, LocksHeld, InitNew
  <2>2. \A b \in Buf : sem'[b] = "Writing" <=> sem[b] = "Writing" /\ b \notin pending
    BY <1>a, <1>b, <1>h, FlatTypes
  <2> QED
    BY <1>b, <1>h, <2>1, <2>2 DEF ReliableInv, BuffersBooked, Open
<1>8. WritesPendingExact'
  BY <1>a, <1>b, <1>f, <1>h, FlatTypes DEF ReliableInv, WritesPendingExact, Open
<1>9. SlotsOfEvent'
  BY <1>b, <1>c, <1>d, <1>h DEF ReliableInv, SlotsOfEvent, Open, Settled
<1>10. SlotsOnce'
  BY <1>b, <1>c, <1>h DEF ReliableInv, SlotsOnce, Open
<1>11. OwnSlot'
  BY <1>b DEF ReliableInv, OwnSlot
<1>12. CompleteWhole'
  <2>1. \A b \in Buf : Whole(b)' = Whole(b)
    BY <1>b DEF Whole, Settled
  <2>2. \A b \in Buf : sem'[b] \in {"Full", "Reading"}
          => b \in pending \/ sem[b] \in {"Full", "Reading"}
    BY <1>a, <1>b, <1>h, FlatTypes
  <2> QED
    BY <1>a, <1>b, <1>h, <2>1, <2>2, FlatTypes DEF ReliableInv, CompleteWhole, AtBuffer
<1>13. CompleteLast'
  BY <1>b, <1>c, <1>h DEF ReliableInv, CompleteLast, EveryoneWrote
<1>14. OpenUntilLast'
  BY <1>b, <1>c, <1>h DEF ReliableInv, OpenUntilLast, EveryoneWrote
<1>15. GivenOnce'
  <2>1. SUFFICES ASSUME NEW e \in SeqID, timesReleased'[e] # 0
                 PROVE  timesReleased'[e] = 1 /\ EveryoneWrote(e) /\ \A b \in active : hdrSeq[b] # e
    BY <1>b, <1>c, <1>h DEF GivenOnce, EveryoneWrote, Open
  <2>2. CASE \E b \in pending : hdrSeq[b] = e
    <3>1. timesReleased[e] = 0
      BY <2>2 DEF ReliableInv, GivenOnce, Open
    <3>2. EveryoneWrote(e)
      BY <2>2 DEF ReliableInv, CompleteLast
    <3>3. \A b \in active : hdrSeq[b] # e
      BY <2>2 DEF ReliableInv, CarriedOnce, BuffersBooked, Open
    <3> QED
      BY <1>h, <2>2, <3>1, <3>2, <3>3
  <2>3. CASE ~\E b \in pending : hdrSeq[b] = e
    <3>1. timesReleased[e] = timesReleased'[e]
      BY <1>a, <1>h, <2>3 DEF TypeInv, BooksTypeOK
    <3> QED
      BY <2>1, <3>1 DEF ReliableInv, GivenOnce, Open
  <2> QED
    BY <2>2, <2>3
<1>16. GivenHeld'
  <2>1. \A c \in Buf : sem'[c] \in {"Full", "Reading"}
          => c \in pending \/ sem[c] \in {"Full", "Reading"}
    BY <1>a, <1>b, <1>h, FlatTypes
  <2>2. \A c \in pending : hdrSeq[c] \in SeqID /\ timesReleased[hdrSeq[c]] = 0
    BY DEF ReliableInv, CarriedOnce, GivenOnce, Open
  <2>3. \A e \in SeqID : timesReleased[e] \in Nat
          /\ (timesReleased[e] # 0 \/ (\E c \in pending : hdrSeq[c] = e) => timesReleased'[e] # 0)
    BY <1>a, <1>h DEF TypeInv, BooksTypeOK
  <2>4. \A c \in WithArt' : c \in pending \/ c \in WithArt
    BY <2>1 DEF WithArt
  <2>5. \A c \in WithArt' : hdrSeq[c] \in SeqID /\ timesReleased'[hdrSeq[c]] # 0
    BY <2>2, <2>3, <2>4 DEF ReliableInv, GivenHeld
  <2>6. \A c, d \in pending : hdrSeq[c] = hdrSeq[d] => c = d
    BY DEF ReliableInv, CarriedOnce, Open
  <2>7. \A c, d \in WithArt' : hdrSeq[c] = hdrSeq[d] => c = d
    BY <2>2, <2>4, <2>6 DEF ReliableInv, GivenHeld
  <2> QED
    BY <1>b, <2>5, <2>7 DEF GivenHeld
<1>17. OpenEventsRequested'
  BY <1>b, <1>e, <1>h DEF ReliableInv, OpenEventsRequested, Unrequested
<1> QED
  BY <1>1, <1>2, <1>3, <1>4, <1>5, <1>6, <1>7, <1>8, <1>9, <1>10, <1>11, <1>12, <1>13, <1>14,
     <1>15, <1>16, <1>17 DEF ReliableInv

\* The same when no buffer is to be had; the thread looks again.
LEMMA LookupNoBufferKeeps ==
  ASSUME Reliable, ReliableInv, TypeInv', NEW t \in Thread, LookupNoBuffer(t)
  PROVE  ReliableInv'
<1> USE DEF threadVars, lockVars, shmVars, bookVars
<1>a. TypeInv
  BY DEF ReliableInv
<1>h. /\ UNCHANGED <<active, incomplete, requests>> /\ pending' = {}
      /\ SemAfterCheck = [b \in Buf |-> IF b \in pending THEN "Full" ELSE sem[b]]
      /\ \A e \in SeqID : timesReleased'[e] = timesReleased[e]
           + IF \E b \in pending : hdrSeq[b] = e THEN 1 ELSE 0
  BY CheckPendingGives DEF LookupNoBuffer
<1>g. ~drop[t] /\ ~NonReliable
  BY DEF Reliable, ReliableInv, NothingGivenUp
<1>b. /\ pc[t] = "lookup" /\ pc'[t] = "lookup"
      /\ \A u \in Thread \ {t} : pc'[u] = pc[u] /\ buf'[u] = buf[u]
      /\ \A u \in Thread : drop'[u] = drop[u]
      /\ sem' = SemAfterCheck
      /\ UNCHANGED <<event, pos, lockVars, stale, hdrSeq, isComplete, slots, writesPending,
                     released, dropped>>
  BY <1>a, <1>g, FlatTypes DEF LookupNoBuffer, WriteReturned, Goto
<1>c. Written' = Written
  BY <1>b, WrittenSame DEF OtherThreads, BeforeHeader
<1>d. InHand' = InHand
  BY <1>b, InHandSame DEF OtherThreads, Receiving
<1>e. Unrequested' = Unrequested
  BY <1>b, UnrequestedSame DEF OtherThreads
<1>f. \A b \in Buf : Writers(b)' = Writers(b)
  BY <1>b, WritersSame DEF OtherThreads, WritingAt, PCs
<1>1. NothingGivenUp'
  BY <1>b, <1>h DEF ReliableInv, NothingGivenUp
<1>2. LocksHeld'
  <2>1. \A u \in Thread : pc'[u] = "init" <=> pc[u] = "init"
    BY <1>b
  <2>2. \A u \in Thread : pc'[u] \in Locking => pc[u] \in Locking /\ buf'[u] = buf[u]
    BY <1>b DEF Locking
  <2>3. \A u \in Thread : pc[u] \in Locking => pc'[u] \in Locking /\ buf'[u] = buf[u]
    BY <1>b DEF Locking
  <2>4. \A u \in Thread : pc'[u] = "init" <=> seqLock' = u
    BY <1>b, <2>1 DEF ReliableInv, LocksHeld
  <2>5. ASSUME NEW u \in Thread, pc'[u] \in Locking PROVE bufLock'[buf'[u]] = u
    <3>1. pc[u] \in Locking /\ buf'[u] = buf[u]
      BY <2>2, <2>5
    <3> QED
      BY <1>b, <3>1 DEF ReliableInv, LocksHeld
  <2>6. ASSUME NEW b \in Buf, bufLock'[b] # NoThread
        PROVE  buf'[bufLock'[b]] = b /\ pc'[bufLock'[b]] \in Locking
    <3>1. bufLock[b] \in Thread /\ buf[bufLock[b]] = b /\ pc[bufLock[b]] \in Locking
            /\ bufLock' = bufLock
      BY <1>a, <1>b, <2>6, FlatTypes DEF ReliableInv, LocksHeld
    <3> QED
      BY <2>3, <3>1
  <2> QED
    BY <2>4, <2>5, <2>6 DEF LocksHeld, Locking
<1>3. WorkOnOpen'
  BY <1>b, <1>h DEF ReliableInv, WorkOnOpen, Working, Locking
<1>4. InitNew'
  BY <1>b, <1>h DEF ReliableInv, InitNew, Open
<1>5. LockedAlone'
  BY <1>b DEF ReliableInv, LockedAlone, Working, Locking
<1>6. CarriedOnce'
  BY <1>b, <1>e, <1>h DEF ReliableInv, CarriedOnce, Open
<1>7. BuffersBooked'
  <2>1. seqLock # NoThread => buf'[seqLock] = buf[seqLock] /\ buf[seqLock] \notin Open
    BY <1>a, <1>b, FlatTypes DEF ReliableInv, LocksHeld, InitNew
  <2>2. \A b \in Buf : sem'[b] = "Writing" <=> sem[b] = "Writing" /\ b \notin pending
    BY <1>a, <1>b, <1>h, FlatTypes
  <2> QED
    BY <1>b, <1>h, <2>1, <2>2 DEF ReliableInv, BuffersBooked, Open
<1>8. WritesPendingExact'
  BY <1>a, <1>b, <1>f, <1>h, FlatTypes DEF ReliableInv, WritesPendingExact, Open
<1>9. SlotsOfEvent'
  BY <1>b, <1>c, <1>d, <1>h DEF ReliableInv, SlotsOfEvent, Open, Settled
<1>10. SlotsOnce'
  BY <1>b, <1>c, <1>h DEF ReliableInv, SlotsOnce, Open
<1>11. OwnSlot'
  BY <1>b DEF ReliableInv, OwnSlot
<1>12. CompleteWhole'
  <2>1. \A b \in Buf : Whole(b)' = Whole(b)
    BY <1>b DEF Whole, Settled
  <2>2. \A b \in Buf : sem'[b] \in {"Full", "Reading"}
          => b \in pending \/ sem[b] \in {"Full", "Reading"}
    BY <1>a, <1>b, <1>h, FlatTypes
  <2> QED
    BY <1>a, <1>b, <1>h, <2>1, <2>2, FlatTypes DEF ReliableInv, CompleteWhole, AtBuffer
<1>13. CompleteLast'
  BY <1>b, <1>c, <1>h DEF ReliableInv, CompleteLast, EveryoneWrote
<1>14. OpenUntilLast'
  BY <1>b, <1>c, <1>h DEF ReliableInv, OpenUntilLast, EveryoneWrote
<1>15. GivenOnce'
  <2>1. SUFFICES ASSUME NEW e \in SeqID, timesReleased'[e] # 0
                 PROVE  timesReleased'[e] = 1 /\ EveryoneWrote(e) /\ \A b \in active : hdrSeq[b] # e
    BY <1>b, <1>c, <1>h DEF GivenOnce, EveryoneWrote, Open
  <2>2. CASE \E b \in pending : hdrSeq[b] = e
    <3>1. timesReleased[e] = 0
      BY <2>2 DEF ReliableInv, GivenOnce, Open
    <3>2. EveryoneWrote(e)
      BY <2>2 DEF ReliableInv, CompleteLast
    <3>3. \A b \in active : hdrSeq[b] # e
      BY <2>2 DEF ReliableInv, CarriedOnce, BuffersBooked, Open
    <3> QED
      BY <1>h, <2>2, <3>1, <3>2, <3>3
  <2>3. CASE ~\E b \in pending : hdrSeq[b] = e
    <3>1. timesReleased[e] = timesReleased'[e]
      BY <1>a, <1>h, <2>3 DEF TypeInv, BooksTypeOK
    <3> QED
      BY <2>1, <3>1 DEF ReliableInv, GivenOnce, Open
  <2> QED
    BY <2>2, <2>3
<1>16. GivenHeld'
  <2>1. \A c \in Buf : sem'[c] \in {"Full", "Reading"}
          => c \in pending \/ sem[c] \in {"Full", "Reading"}
    BY <1>a, <1>b, <1>h, FlatTypes
  <2>2. \A c \in pending : hdrSeq[c] \in SeqID /\ timesReleased[hdrSeq[c]] = 0
    BY DEF ReliableInv, CarriedOnce, GivenOnce, Open
  <2>3. \A e \in SeqID : timesReleased[e] \in Nat
          /\ (timesReleased[e] # 0 \/ (\E c \in pending : hdrSeq[c] = e) => timesReleased'[e] # 0)
    BY <1>a, <1>h DEF TypeInv, BooksTypeOK
  <2>4. \A c \in WithArt' : c \in pending \/ c \in WithArt
    BY <2>1 DEF WithArt
  <2>5. \A c \in WithArt' : hdrSeq[c] \in SeqID /\ timesReleased'[hdrSeq[c]] # 0
    BY <2>2, <2>3, <2>4 DEF ReliableInv, GivenHeld
  <2>6. \A c, d \in pending : hdrSeq[c] = hdrSeq[d] => c = d
    BY DEF ReliableInv, CarriedOnce, Open
  <2>7. \A c, d \in WithArt' : hdrSeq[c] = hdrSeq[d] => c = d
    BY <2>2, <2>4, <2>6 DEF ReliableInv, GivenHeld
  <2> QED
    BY <1>b, <2>5, <2>7 DEF GivenHeld
<1>17. OpenEventsRequested'
  BY <1>b, <1>e, <1>h DEF ReliableInv, OpenEventsRequested, Unrequested
<1> QED
  BY <1>1, <1>2, <1>3, <1>4, <1>5, <1>6, <1>7, <1>8, <1>9, <1>10, <1>11, <1>12, <1>13, <1>14,
     <1>15, <1>16, <1>17 DEF ReliableInv

\* As many headers as there are threads, one of each: with nobody writing, all are settled.
LEMMA CountFragmentsKeeps ==
  ASSUME Reliable, ReliableInv, TypeInv', NEW t \in Thread, CountFragments(t)
  PROVE  ReliableInv'
<1> USE DEF threadVars, lockVars, shmVars, bookVars
<1>a. TypeInv
  BY DEF ReliableInv
<1>g. pc[t] = "count" /\ buf[t] \in active /\ buf[t] \in Buf /\ hdrSeq[buf[t]] = event[t]
        /\ seqLock = NoThread
  BY <1>a, FlatTypes DEF CountFragments, ReliableInv, WorkOnOpen, Working, AtBuffer
<1>h. FragmentCount(event[t]) = Len(slots[buf[t]])
  <2>1. \A b \in Holding(event[t]) : b \in Open /\ hdrSeq[b] = event[t]
    BY <1>a, <1>g, FlatTypes, ConstantsAssumption DEF ReliableInv, BuffersBooked, Holding
  <2>2. buf[t] \in Holding(event[t])
    BY <1>g DEF ReliableInv, BuffersBooked, Holding, Open
  <2>3. Holding(event[t]) = {buf[t]}
    BY <1>g, <2>1, <2>2 DEF ReliableInv, CarriedOnce, Open
  <2> QED
    BY <2>3 DEF FragmentCount
<1>k. ASSUME Len(slots[buf[t]]) >= N
      PROVE  /\ \A i \in DOMAIN slots[buf[t]] : slots[buf[t]][i].seq = event[t]
                  /\ Settled(slots[buf[t]][i])
             /\ \A u \in Thread : \E i \in DOMAIN slots[buf[t]] : slots[buf[t]][i].src = u
  <2>1. ASSUME NEW i \in DOMAIN slots[buf[t]]
        PROVE  slots[buf[t]][i].seq = event[t] /\ Settled(slots[buf[t]][i])
    <3>1. slots[buf[t]][i].seq = event[t]
            /\ (Settled(slots[buf[t]][i]) \/ <<slots[buf[t]][i].src, event[t]>> \in InHand)
      BY <1>g DEF ReliableInv, SlotsOfEvent, Open
    <3>2. ASSUME NEW u \in Thread, <<u, event[t]>> \in InHand PROVE FALSE
      <4>1. pc[u] \in Receiving /\ event[u] = event[t] /\ u # t
        BY <1>g, <3>2 DEF InHand, Receiving
      <4>2. buf[u] = buf[t]
        BY <1>g, <4>1 DEF ReliableInv, WorkOnOpen, CarriedOnce, Working, Receiving, Open
      <4> QED
        BY <1>g, <4>1, <4>2 DEF ReliableInv, LockedAlone, Working, Locking, Receiving
    <3>3. slots[buf[t]][i].src \in Thread
      <4>1. slots[buf[t]] \in Seq(Slot)
        BY <1>a, <1>g, FlatTypes
      <4>2. slots[buf[t]][i] \in Slot
        BY <4>1
      <4> QED
        BY <4>2 DEF Slot
    <3> QED
      BY <3>1, <3>2, <3>3
  <2>2. \A u \in Thread : \E i \in DOMAIN slots[buf[t]] : slots[buf[t]][i].src = u
    BY <1>a, <1>g, <1>k, FlatTypes, EachOnceIsEveryone DEF Reliable, ReliableInv, SlotsOnce, Open
  <2> QED
    BY <2>1, <2>2
<1>b. /\ pc[t] = "count" /\ pc'[t] = IF Len(slots[buf[t]]) >= N THEN "complete" ELSE "check"
      /\ \A u \in Thread \ {t} : pc'[u] = pc[u]
      /\ isComplete'[buf[t]] = (Len(slots[buf[t]]) >= N)
      /\ \A b \in Buf \ {buf[t]} : isComplete'[b] = isComplete[b]
      /\ UNCHANGED <<threadVars, lockVars, sem, stale, hdrSeq, slots, bookVars>>
  BY <1>a, <1>g, <1>h, FlatTypes DEF CountFragments, Goto
<1>c. Written' = Written
  BY <1>b, WrittenSame DEF OtherThreads, BeforeHeader
<1>d. InHand' = InHand
  BY <1>b, InHandSame DEF OtherThreads, Receiving
<1>e. Unrequested' = Unrequested
  BY <1>b, UnrequestedSame DEF OtherThreads
<1>f. \A b \in Buf : Writers(b)' = Writers(b)
  BY <1>b, WritersSame DEF OtherThreads, WritingAt, PCs
<1>1. NothingGivenUp'
  BY <1>a, <1>b DEF ReliableInv, NothingGivenUp
<1>2. LocksHeld'
  <2>1. \A u \in Thread : (pc'[u] = "init" <=> pc[u] = "init")
          /\ (pc'[u] \in Locking <=> pc[u] \in Locking)
    BY <1>b DEF Locking
  <2> QED
    BY <1>a, <1>b, <2>1, FlatTypes DEF ReliableInv, LocksHeld
<1>3. WorkOnOpen'
  BY <1>b DEF ReliableInv, WorkOnOpen, Working, Locking
<1>4. InitNew'
  BY <1>b DEF ReliableInv, InitNew, Open
<1>5. LockedAlone'
  BY <1>b DEF ReliableInv, LockedAlone, Working, Locking
<1>6. CarriedOnce'
  BY <1>b, <1>e DEF ReliableInv, CarriedOnce, Open
<1>7. BuffersBooked'
  BY <1>b DEF ReliableInv, BuffersBooked, Open
<1>8. WritesPendingExact'
  BY <1>a, <1>b, <1>f, FlatTypes DEF ReliableInv, WritesPendingExact, Open
<1>9. SlotsOfEvent'
  BY <1>b, <1>c, <1>d DEF ReliableInv, SlotsOfEvent, Open, Settled
<1>10. SlotsOnce'
  BY <1>b, <1>c DEF ReliableInv, SlotsOnce, Open
<1>11. OwnSlot'
  BY <1>b DEF ReliableInv, OwnSlot
<1>12. CompleteWhole'
  <2>1. \A b \in Buf \ {buf[t]} : Whole(b)' = Whole(b)
    BY <1>b DEF Whole, Settled
  <2>2. Len(slots[buf[t]]) >= N => Whole(buf[t])'
    BY <1>b, <1>g, <1>k DEF Whole, Settled
  <2>3. buf[t] \notin pending /\ sem[buf[t]] = "Writing"
    BY <1>g DEF ReliableInv, BuffersBooked, Open
  <2>4. \A u \in Thread \ {t} : pc[u] = "complete" => buf[u] \in Buf \ {buf[t]}
    BY <1>a, <1>g, FlatTypes DEF ReliableInv, LockedAlone, Working, Locking, AtBuffer
  <2> QED
    BY <1>b, <2>1, <2>2, <2>3, <2>4 DEF ReliableInv, CompleteWhole
<1>13. CompleteLast'
  <2>1. Len(slots[buf[t]]) >= N => EveryoneWrote(event[t])
    BY <1>g, <1>k DEF ReliableInv, SlotsOfEvent, EveryoneWrote, Open
  <2> QED
    BY <1>b, <1>c, <2>1 DEF ReliableInv, CompleteLast, EveryoneWrote
<1>14. OpenUntilLast'
  BY <1>b, <1>c DEF ReliableInv, OpenUntilLast, EveryoneWrote
<1>15. GivenOnce'
  BY <1>b, <1>c DEF ReliableInv, GivenOnce, EveryoneWrote, Open
<1>16. GivenHeld'
  BY <1>b DEF ReliableInv, GivenHeld, WithArt
<1>17. OpenEventsRequested'
  BY <1>b, <1>e DEF ReliableInv, OpenEventsRequested, Unrequested
<1> QED
  BY <1>1, <1>2, <1>3, <1>4, <1>5, <1>6, <1>7, <1>8, <1>9, <1>10, <1>11, <1>12, <1>13, <1>14,
     <1>15, <1>16, <1>17 DEF ReliableInv

\* Nobody else works on the event that is completed.
LEMMA CompleteBufferKeeps ==
  ASSUME Reliable, ReliableInv, TypeInv', NEW t \in Thread, CompleteBuffer(t)
  PROVE  ReliableInv'
<1> USE DEF threadVars, lockVars, shmVars, bookVars
<1>a. TypeInv
  BY DEF ReliableInv
<1>g. pc[t] = "complete" /\ buf[t] \in active /\ buf[t] \in Buf /\ hdrSeq[buf[t]] = event[t]
        /\ event[t] \in SeqID
      /\ Whole(buf[t]) /\ EveryoneWrote(event[t])
  BY <1>a, FlatTypes DEF CompleteBuffer, ReliableInv, WorkOnOpen, Working, AtBuffer, CompleteWhole,
     CompleteLast
<1>h. active' = active \ {buf[t]} /\ pending' = pending \cup {buf[t]}
        /\ released' \subseteq released \cup {event[t]}
  BY <1>g DEF CompleteBuffer, Trim
<1>k. \A u \in Thread \ {t} : pc[u] \in Working => buf[u] # buf[t]
  <2>1. SUFFICES ASSUME NEW u \in Thread \ {t}, pc[u] \in Working, buf[u] = buf[t] PROVE FALSE
    OBVIOUS
  <2>2. pc[u] \in {"reserve", "header"} /\ event[u] = event[t]
    BY <1>g, <2>1 DEF ReliableInv, LockedAlone, WorkOnOpen, Locking
  <2>3. <<u, event[t]>> \in Written
    BY <1>g DEF EveryoneWrote
  <2> QED
    BY <1>a, <2>2, <2>3, FlatTypes DEF Written, BeforeHeader
<1>b. /\ pc[t] = "complete" /\ pc'[t] = "unrequest" /\ \A u \in Thread \ {t} : pc'[u] = pc[u]
      /\ UNCHANGED <<threadVars, lockVars, shmVars, writesPending, incomplete, requests, dropped,
                     timesReleased>>
  BY <1>a, FlatTypes DEF CompleteBuffer, Goto
<1>c. Written' = Written
  BY <1>b, WrittenSame DEF OtherThreads, BeforeHeader
<1>d. InHand' = InHand
  BY <1>b, InHandSame DEF OtherThreads, Receiving
<1>f. \A b \in Buf : Writers(b)' = Writers(b)
  BY <1>b, WritersSame DEF OtherThreads, WritingAt, PCs
<1>e. Unrequested' = Unrequested \cup {buf[t]}
  BY <1>b DEF Unrequested
<1>j. Open' = Open
  BY <1>g, <1>h DEF Open
<1>1. NothingGivenUp'
  BY <1>a, <1>b DEF ReliableInv, NothingGivenUp
<1>2. LocksHeld'
  <2>1. \A u \in Thread : (pc'[u] = "init" <=> pc[u] = "init")
          /\ (pc'[u] \in Locking <=> pc[u] \in Locking)
    BY <1>b DEF Locking
  <2> QED
    BY <1>a, <1>b, <2>1, FlatTypes DEF ReliableInv, LocksHeld
<1>3. WorkOnOpen'
  BY <1>b, <1>h, <1>k DEF ReliableInv, WorkOnOpen, Working, Locking
<1>4. InitNew'
  BY <1>b, <1>j DEF ReliableInv, InitNew
<1>5. LockedAlone'
  BY <1>b DEF ReliableInv, LockedAlone, Working, Locking
<1>6. CarriedOnce'
  BY <1>b, <1>e, <1>g, <1>h, <1>j DEF ReliableInv, CarriedOnce, Open
<1>7. BuffersBooked'
  <2>1. active' \cap pending' = {}
    BY <1>h DEF ReliableInv, BuffersBooked
  <2> QED
    BY <1>b, <1>j, <2>1 DEF ReliableInv, BuffersBooked
<1>8. WritesPendingExact'
  BY <1>a, <1>b, <1>f, <1>j, FlatTypes DEF ReliableInv, WritesPendingExact, Open
<1>9. SlotsOfEvent'
  BY <1>b, <1>c, <1>d, <1>j DEF ReliableInv, SlotsOfEvent, Settled
<1>10. SlotsOnce'
  BY <1>b, <1>c, <1>j DEF ReliableInv, SlotsOnce
<1>11. OwnSlot'
  BY <1>b DEF ReliableInv, OwnSlot
<1>12. CompleteWhole'
  <2>1. \A b \in Buf \cup {NoBuf} : Whole(b)' = Whole(b)
    BY <1>b DEF Whole, Settled
  <2> QED
    BY <1>a, <1>b, <1>g, <1>h, <2>1, FlatTypes DEF ReliableInv, CompleteWhole
<1>13. CompleteLast'
  BY <1>b, <1>c, <1>g, <1>h DEF ReliableInv, CompleteLast, EveryoneWrote
<1>14. OpenUntilLast'
  BY <1>b, <1>c, <1>g, <1>h DEF ReliableInv, OpenUntilLast, EveryoneWrote
<1>15. GivenOnce'
  BY <1>b, <1>c, <1>j DEF ReliableInv, GivenOnce, EveryoneWrote
<1>16. GivenHeld'
  BY <1>b DEF ReliableInv, GivenHeld, WithArt
<1>17. OpenEventsRequested'
  <2>1. active' \cup Unrequested' = active \cup Unrequested
    BY <1>e, <1>g, <1>h
  <2> QED
    BY <1>b, <2>1 DEF ReliableInv, OpenEventsRequested, Unrequested
<1> QED
  BY <1>1, <1>2, <1>3, <1>4, <1>5, <1>6, <1>7, <1>8, <1>9, <1>10, <1>11, <1>12, <1>13, <1>14,
     <1>15, <1>16, <1>17 DEF ReliableInv

\* The buffer that comes on the books is nobody's, and its event has no Fragment yet.
LEMMA InitBufferKeeps ==
  ASSUME Reliable, ReliableInv, TypeInv', NEW t \in Thread, InitBuffer(t)
  PROVE  ReliableInv'
<1> USE DEF threadVars, lockVars, shmVars, bookVars
<1>a. TypeInv
  BY DEF ReliableInv
<1>g. /\ pc[t] = "init" /\ seqLock = t /\ buf[t] \in Buf /\ bufLock[buf[t]] = NoThread
           /\ event[t] \in SeqID
      /\ buf[t] \notin Open /\ slots[buf[t]] = << >> /\ \A b \in Open : hdrSeq[b] # event[t]
  BY <1>a, FlatTypes DEF InitBuffer, AtBuffer, ReliableInv, LocksHeld, InitNew
<1>h. \A u \in Thread \ {t} : pc[u] \in Working \cup Locking => buf[u] # buf[t]
  <2>1. \A u \in Thread : pc[u] \in Locking => buf[u] # buf[t]
    BY <1>g, ConstantsAssumption DEF ReliableInv, LocksHeld
  <2> QED
    BY <1>g, <2>1 DEF ReliableInv, WorkOnOpen, Open
<1>k. \A u \in Thread : <<u, event[t]>> \notin Written
  <2>1. <<t, event[t]>> \notin Written
    BY <1>a, <1>g, FlatTypes DEF Written, BeforeHeader, SeqID
  <2>2. ~EveryoneWrote(event[t])
    BY <2>1 DEF EveryoneWrote
  <2>3. ASSUME NEW u \in Thread, <<u, event[t]>> \in Written PROVE FALSE
    <3>1. \E b \in active : hdrSeq[b] = event[t]
      BY <2>2, <2>3 DEF ReliableInv, OpenUntilLast
    <3> QED
      BY <1>g, <3>1 DEF Open
  <2> QED
    BY <2>3
<1>b. /\ pc[t] = "init" /\ pc'[t] = "reserve" /\ \A u \in Thread \ {t} : pc'[u] = pc[u]
      /\ hdrSeq'[buf[t]] = event[t] /\ writesPending'[buf[t]] = 0
      /\ \A b \in Buf \ {buf[t]} : hdrSeq'[b] = hdrSeq[b]
           /\ writesPending'[b] = writesPending[b] /\ isComplete'[b] = isComplete[b]
      /\ active' = active \cup {buf[t]} /\ requests' = requests \cup {event[t]}
           /\ stale' = stale \ {buf[t]}
      /\ seqLock' = NoThread
      /\ UNCHANGED <<threadVars, bufLock, sem, slots, pending, released, incomplete, dropped,
                     timesReleased>>
  BY <1>a, <1>g, FlatTypes DEF InitBuffer, Goto
<1>c. Written' = Written
  BY <1>b, WrittenSame DEF OtherThreads, BeforeHeader
<1>d. InHand' = InHand
  BY <1>b, InHandSame DEF OtherThreads, Receiving
<1>e. Unrequested' = Unrequested
  BY <1>b, UnrequestedSame DEF OtherThreads
<1>f. \A b \in Buf : Writers(b)' = Writers(b)
  BY <1>b, WritersSame DEF OtherThreads, WritingAt, PCs
<1>i. \A b \in Open : b \in Buf \ {buf[t]} /\ hdrSeq'[b] = hdrSeq[b]
  BY <1>a, <1>b, <1>g, FlatTypes DEF Open
<1>j. Open' = Open \cup {buf[t]}
  BY <1>b DEF Open
<1>l. \A b \in Unrequested : b \in Buf \ {buf[t]} /\ hdrSeq'[b] = hdrSeq[b] /\ hdrSeq[b] # event[t]
  <2>1. ASSUME NEW u \in Thread, pc[u] = "unrequest"
        PROVE  buf[u] \in Buf \ {buf[t]} /\ hdrSeq[buf[u]] # event[t]
    BY <1>a, <1>g, <1>h, <1>k, <2>1, FlatTypes DEF AtBuffer, Locking, ReliableInv, WorkOnOpen,
       CompleteLast, EveryoneWrote
  <2> QED
    BY <1>b, <2>1 DEF Unrequested
<1>1. NothingGivenUp'
  BY <1>a, <1>b DEF ReliableInv, NothingGivenUp
<1>2. LocksHeld'
  <2>1. \A u \in Thread : pc'[u] # "init" /\ seqLock' # u
    BY <1>b, <1>g, ConstantsAssumption DEF ReliableInv, LocksHeld
  <2>2. \A u \in Thread : pc'[u] \in Locking => pc[u] \in Locking /\ buf'[u] = buf[u]
    BY <1>b DEF Locking
  <2>3. \A u \in Thread : pc[u] \in Locking => pc'[u] \in Locking /\ buf'[u] = buf[u]
    BY <1>b DEF Locking
  <2>5. ASSUME NEW u \in Thread, pc'[u] \in Locking PROVE bufLock'[buf'[u]] = u
    <3>1. pc[u] \in Locking /\ buf'[u] = buf[u]
      BY <2>2, <2>5
    <3> QED
      BY <1>b, <3>1 DEF ReliableInv, LocksHeld
  <2>6. ASSUME NEW b \in Buf, bufLock'[b] # NoThread
        PROVE  buf'[bufLock'[b]] = b /\ pc'[bufLock'[b]] \in Locking
    <3>1. bufLock[b] \in Thread /\ buf[bufLock[b]] = b /\ pc[bufLock[b]] \in Locking
            /\ bufLock' = bufLock
      BY <1>a, <1>b, <2>6, FlatTypes DEF ReliableInv, LocksHeld
    <3> QED
      BY <2>3, <3>1
  <2> QED
    BY <2>1, <2>5, <2>6 DEF LocksHeld, Locking
<1>3. WorkOnOpen'
  <2>1. \A u \in Thread \ {t} : pc[u] \in Working \cup Locking => hdrSeq'[buf[u]] = event[u]
    <3>1. \A u \in Thread \ {t} : pc[u] \in Working \cup Locking
            => buf[u] \in Buf /\ hdrSeq[buf[u]] = event[u]
      BY <1>a, FlatTypes DEF ReliableInv, WorkOnOpen, Working, Locking, AtBuffer
    <3> QED
      BY <1>b, <1>h, <3>1
  <2>2. \A u \in Thread \ {t} : pc[u] \in Working => buf[u] \in active
    BY DEF ReliableInv, WorkOnOpen
  <2>3. \A u \in Thread : pc'[u] \in Working => buf'[u] \in active'
    BY <1>b, <2>2
  <2>4. \A u \in Thread : pc'[u] \in Working \cup Locking => hdrSeq'[buf'[u]] = event'[u]
    BY <1>b, <2>1
  <2> QED
    BY <2>3, <2>4 DEF WorkOnOpen, Working, Locking
<1>4. InitNew'
  <2>1. \A u \in Thread : pc'[u] # "init"
    BY <1>b, <1>g DEF ReliableInv, LocksHeld
  <2> QED
    BY <2>1 DEF InitNew
<1>5. LockedAlone'
  BY <1>b, <1>h DEF ReliableInv, LockedAlone, Working, Locking
<1>6. CarriedOnce'
  <2>1. Unrequested' \cap active' = {}
    BY <1>b, <1>e, <1>l DEF ReliableInv, CarriedOnce
  <2>2. \A b \in Open' : hdrSeq'[b] \in SeqID
    BY <1>b, <1>g, <1>i, <1>j DEF ReliableInv, CarriedOnce
  <2>3. \A a, b \in Open \cup Unrequested : hdrSeq'[a] = hdrSeq'[b] => a = b
    BY <1>i, <1>l DEF ReliableInv, CarriedOnce
  <2>4. \A b \in Open \cup Unrequested : hdrSeq'[b] # hdrSeq'[buf[t]]
    BY <1>b, <1>g, <1>i, <1>l
  <2>5. \A a, b \in Open' \cup Unrequested' : hdrSeq'[a] = hdrSeq'[b] => a = b
    BY <1>e, <1>j, <2>3, <2>4
  <2> QED
    BY <2>1, <2>2, <2>5 DEF CarriedOnce
<1>7. BuffersBooked'
  <2>1. active' \cap pending' = {}
    BY <1>b, <1>g DEF ReliableInv, BuffersBooked, Open
  <2>2. ASSUME NEW b \in Buf PROVE sem'[b] = "Writing" <=> b \in Open'
    BY <1>b, <1>g, <1>j, ConstantsAssumption DEF ReliableInv, BuffersBooked
  <2> QED
    BY <1>b, <2>1, <2>2 DEF BuffersBooked
<1>8. WritesPendingExact'
  <2>1. Writers(buf[t]) = {}
    BY <1>g, <1>h DEF Writers, PCs, Working, Locking
  <2>2. Cardinality(Writers(buf[t])') = 0
    BY <1>b, <1>f, <1>g, <2>1, FS_EmptySet
  <2> QED
    BY <1>b, <1>f, <1>g, <1>i, <1>j, <2>2 DEF ReliableInv, WritesPendingExact
<1>9. SlotsOfEvent'
  <2>1. \A b \in Open : \A i \in DOMAIN slots[b] :
        /\ slots[b][i].seq = hdrSeq'[b] /\ <<slots[b][i].src, hdrSeq'[b]>> \in Written
        /\ Settled(slots[b][i]) \/ <<slots[b][i].src, hdrSeq'[b]>> \in InHand
    BY <1>i DEF ReliableInv, SlotsOfEvent
  <2>2. DOMAIN slots[buf[t]] = {}
    BY <1>g
  <2> QED
    BY <1>b, <1>c, <1>d, <1>j, <2>1, <2>2 DEF SlotsOfEvent, Settled
<1>10. SlotsOnce'
  <2>1. DOMAIN slots[buf[t]] = {}
    BY <1>g
  <2>2. \A b \in Open : \A i, j \in DOMAIN slots[b] : slots[b][i].src = slots[b][j].src => i = j
    BY DEF ReliableInv, SlotsOnce
  <2>3. \A b \in Open, u \in Thread : <<u, hdrSeq'[b]>> \in Written
          => \E i \in DOMAIN slots[b] : slots[b][i].src = u
    BY <1>i DEF ReliableInv, SlotsOnce
  <2> QED
    BY <1>b, <1>c, <1>j, <1>k, <2>1, <2>2, <2>3 DEF SlotsOnce
<1>11. OwnSlot'
  BY <1>b DEF ReliableInv, OwnSlot
<1>12. CompleteWhole'
  <2>1. \A b \in Buf \ {buf[t]} : Whole(b)' = Whole(b)
    BY <1>b DEF Whole, Settled
  <2>2. sem[buf[t]] = "Writing" /\ buf[t] \notin pending
    BY <1>g, ConstantsAssumption DEF ReliableInv, BuffersBooked, Open
  <2>3. \A u \in Thread : pc'[u] = "complete" => pc[u] = "complete" /\ buf[u] \in Buf \ {buf[t]}
    BY <1>a, <1>b, <1>h, FlatTypes DEF Locking, AtBuffer
  <2> QED
    BY <1>b, <2>1, <2>2, <2>3 DEF ReliableInv, CompleteWhole
<1>13. CompleteLast'
  <2>1. \A b \in pending : EveryoneWrote(hdrSeq'[b])
    BY <1>i DEF ReliableInv, CompleteLast, Open
  <2> QED
    BY <1>b, <1>c, <2>1 DEF ReliableInv, CompleteLast, EveryoneWrote
<1>14. OpenUntilLast'
  <2>1. \A b \in active : hdrSeq'[b] = hdrSeq[b]
    BY <1>i DEF Open
  <2> QED
    BY <1>b, <1>c, <2>1 DEF ReliableInv, OpenUntilLast, EveryoneWrote
<1>15. GivenOnce'
  <2>1. ~EveryoneWrote(event[t])
    BY <1>k DEF EveryoneWrote
  <2> QED
    BY <1>b, <1>c, <1>i, <1>j, <2>1 DEF ReliableInv, GivenOnce, EveryoneWrote
<1>16. GivenHeld'
  <2>1. \A c \in WithArt : hdrSeq'[c] = hdrSeq[c]
    BY <1>b, <1>g, ConstantsAssumption DEF ReliableInv, BuffersBooked, WithArt
  <2> QED
    BY <1>b, <2>1 DEF ReliableInv, GivenHeld, WithArt
<1>17. OpenEventsRequested'
  <2>1. \A b \in active \cup Unrequested : hdrSeq'[b] = hdrSeq[b]
    BY <1>i, <1>l DEF Open
  <2>2. requests = {hdrSeq[b] : b \in active \cup Unrequested}
    BY DEF ReliableInv, OpenEventsRequested, Unrequested
  <2>3. requests' = {hdrSeq'[b] : b \in active' \cup Unrequested'}
    BY <1>b, <1>e, <2>1, <2>2
  <2> QED
    BY <2>3 DEF OpenEventsRequested, Unrequested
<1> QED
  BY <1>1, <1>2, <1>3, <1>4, <1>5, <1>6, <1>7, <1>8, <1>9, <1>10, <1>11, <1>12, <1>13, <1>14,
     <1>15, <1>16, <1>17 DEF ReliableInv

\* The buffer taken is not on the books, and no buffer on them carries the event.
LEMMA LookupGrabKeeps ==
  ASSUME Reliable, ReliableInv, TypeInv', NEW t \in Thread, LookupGrab(t)
  PROVE  ReliableInv'
<1> USE DEF threadVars, lockVars, shmVars, bookVars
<1>a. TypeInv
  BY DEF ReliableInv
<1>g. PICK taken \in Buf : /\ SemAfterCheck[taken] # "Writing"
                                /\ sem' = [SemAfterCheck EXCEPT ![taken] = "Writing"]
                                /\ slots' = [slots EXCEPT ![taken] = << >>] /\ stale' = stale \ {taken}
                                /\ buf' = [buf EXCEPT ![t] = taken]
  BY DEF LookupGrab, TakeBuffer, WritableBuffers
<1>h. /\ UNCHANGED <<active, incomplete, requests>> /\ pending' = {}
      /\ SemAfterCheck = [a \in Buf |-> IF a \in pending THEN "Full" ELSE sem[a]]
      /\ \A e \in SeqID : timesReleased'[e] = timesReleased[e]
           + IF \E b \in pending : hdrSeq[b] = e THEN 1 ELSE 0
  BY CheckPendingGives DEF LookupGrab, TakeBuffer
<1>k. pc[t] = "lookup" /\ seqLock = NoThread /\ taken \notin active
      /\ \A c \in active : sem[c] = "Writing" /\ hdrSeq[c] # event[t]
  <2>1. pc[t] = "lookup" /\ seqLock = NoThread /\ Holding(event[t]) = {}
    BY DEF LookupGrab, TakeBuffer
  <2>2. \A c \in active : c \in Buf /\ c \notin pending /\ sem[c] = "Writing"
    BY <1>a, FlatTypes DEF ReliableInv, BuffersBooked, Open
  <2>3. \A c \in active : SemAfterCheck[c] = "Writing"
    BY <1>h, <2>2
  <2> QED
    BY <1>g, <2>1, <2>2, <2>3 DEF Holding
<1>b. /\ pc'[t] = "init" /\ buf'[t] = taken /\ \A u \in Thread \ {t} : pc'[u] = pc[u]
           /\ buf'[u] = buf[u]
      /\ pc[t] = "lookup" /\ seqLock' = t
      /\ \A c \in Buf : sem'[c]
           = IF c = taken THEN "Writing" ELSE IF c \in pending THEN "Full" ELSE sem[c]
      /\ slots'[taken] = << >> /\ \A c \in Buf \ {taken} : slots'[c] = slots[c]
      /\ stale' \subseteq stale
      /\ UNCHANGED <<event, pos, retries, drop, bufLock, hdrSeq, isComplete, writesPending,
                     released, dropped>>
  BY <1>a, <1>g, <1>h, <1>k, FlatTypes DEF LookupGrab, TakeBuffer, Goto
<1>c. Written' = Written
  BY <1>b, WrittenSame DEF OtherThreads, BeforeHeader
<1>d. InHand' = InHand
  BY <1>b, InHandSame DEF OtherThreads, Receiving
<1>e. Unrequested' = Unrequested
  BY <1>b, UnrequestedSame DEF OtherThreads
<1>f. \A b \in Buf : Writers(b)' = Writers(b)
  BY <1>b, WritersSame DEF OtherThreads, WritingAt, PCs
<1>i. Open' = active /\ \A c \in active : c \in Open /\ c \in Buf \ {taken} /\ slots'[c] = slots[c]
  BY <1>a, <1>b, <1>h, <1>k, FlatTypes DEF Open
<1>1. NothingGivenUp'
  BY <1>b, <1>h DEF ReliableInv, NothingGivenUp
<1>2. LocksHeld'
  <2>1. \A u \in Thread : pc'[u] = "init" <=> seqLock' = u
    BY <1>b, <1>k, ConstantsAssumption DEF ReliableInv, LocksHeld
  <2>2. \A u \in Thread : pc'[u] \in Locking => pc[u] \in Locking /\ buf'[u] = buf[u]
    BY <1>b DEF Locking
  <2>3. \A u \in Thread : pc[u] \in Locking => pc'[u] \in Locking /\ buf'[u] = buf[u]
    BY <1>b DEF Locking
  <2>5. ASSUME NEW u \in Thread, pc'[u] \in Locking PROVE bufLock'[buf'[u]] = u
    <3>1. pc[u] \in Locking /\ buf'[u] = buf[u]
      BY <2>2, <2>5
    <3> QED
      BY <1>b, <3>1 DEF ReliableInv, LocksHeld
  <2>6. ASSUME NEW b \in Buf, bufLock'[b] # NoThread
        PROVE  buf'[bufLock'[b]] = b /\ pc'[bufLock'[b]] \in Locking
    <3>1. bufLock[b] \in Thread /\ buf[bufLock[b]] = b /\ pc[bufLock[b]] \in Locking
            /\ bufLock' = bufLock
      BY <1>a, <1>b, <2>6, FlatTypes DEF ReliableInv, LocksHeld
    <3> QED
      BY <2>3, <3>1
  <2> QED
    BY <2>1, <2>5, <2>6 DEF LocksHeld, Locking
<1>3. WorkOnOpen'
  BY <1>b, <1>h DEF ReliableInv, WorkOnOpen, Working, Locking
<1>4. InitNew'
  <2>1. \A u \in Thread \ {t} : pc'[u] # "init"
    BY <1>b, <1>k, ConstantsAssumption DEF ReliableInv, LocksHeld
  <2> QED
    BY <1>b, <1>i, <1>k, <2>1 DEF InitNew
<1>5. LockedAlone'
  BY <1>b DEF ReliableInv, LockedAlone, Working, Locking
<1>6. CarriedOnce'
  BY <1>b, <1>e, <1>h, <1>i DEF ReliableInv, CarriedOnce, Open
<1>7. BuffersBooked'
  <2>1. \A c \in Buf : sem'[c] = "Writing" <=> c \in active \/ c = taken
    BY <1>b, <1>k, ConstantsAssumption DEF ReliableInv, BuffersBooked, Open
  <2> QED
    BY <1>b, <1>h, <1>i, <2>1, ConstantsAssumption DEF BuffersBooked
<1>8. WritesPendingExact'
  BY <1>b, <1>f, <1>i DEF ReliableInv, WritesPendingExact
<1>9. SlotsOfEvent'
  BY <1>b, <1>c, <1>d, <1>i DEF ReliableInv, SlotsOfEvent, Settled
<1>10. SlotsOnce'
  BY <1>b, <1>c, <1>i DEF ReliableInv, SlotsOnce
<1>11. OwnSlot'
  <2>1. \A u \in Thread : pc'[u] = "body" => u # t /\ pc[u] = "body" /\ buf[u] \in active
    BY <1>b DEF ReliableInv, WorkOnOpen, Working
  <2> QED
    BY <1>b, <1>i, <2>1 DEF ReliableInv, OwnSlot
<1>12. CompleteWhole'
  <2>1. \A c \in Buf \ {taken} : Whole(c)' = Whole(c)
    BY <1>b DEF Whole, Settled
  <2>2. \A c \in Buf : sem'[c] \in {"Full", "Reading"}
          => c # taken /\ (c \in pending \/ sem[c] \in {"Full", "Reading"})
    BY <1>b
  <2>3. \A u \in Thread : pc'[u] = "complete" => u # t /\ pc[u] = "complete" /\ buf[u] \in active
    BY <1>b DEF ReliableInv, WorkOnOpen, Working
  <2> QED
    BY <1>b, <1>h, <1>i, <2>1, <2>2, <2>3 DEF ReliableInv, CompleteWhole
<1>13. CompleteLast'
  BY <1>b, <1>c, <1>h DEF ReliableInv, CompleteLast, EveryoneWrote
<1>14. OpenUntilLast'
  BY <1>b, <1>c, <1>h DEF ReliableInv, OpenUntilLast, EveryoneWrote
<1>15. GivenOnce'
  <2>1. SUFFICES ASSUME NEW e \in SeqID, timesReleased'[e] # 0
                 PROVE  timesReleased'[e] = 1 /\ EveryoneWrote(e) /\ \A b \in active : hdrSeq[b] # e
    BY <1>b, <1>c, <1>h DEF GivenOnce, EveryoneWrote, Open
  <2>2. CASE \E b \in pending : hdrSeq[b] = e
    <3>1. timesReleased[e] = 0
      BY <2>2 DEF ReliableInv, GivenOnce, Open
    <3>2. EveryoneWrote(e)
      BY <2>2 DEF ReliableInv, CompleteLast
    <3>3. \A b \in active : hdrSeq[b] # e
      BY <2>2 DEF ReliableInv, CarriedOnce, BuffersBooked, Open
    <3> QED
      BY <1>h, <2>2, <3>1, <3>2, <3>3
  <2>3. CASE ~\E b \in pending : hdrSeq[b] = e
    <3>1. timesReleased[e] = timesReleased'[e]
      BY <1>a, <1>h, <2>3 DEF TypeInv, BooksTypeOK
    <3> QED
      BY <2>1, <3>1 DEF ReliableInv, GivenOnce, Open
  <2> QED
    BY <2>2, <2>3
<1>16. GivenHeld'
  <2>1. \A c \in Buf : sem'[c] \in {"Full", "Reading"}
          => c \in pending \/ sem[c] \in {"Full", "Reading"}
    BY <1>a, <1>b, <1>h, FlatTypes
  <2>2. \A c \in pending : hdrSeq[c] \in SeqID /\ timesReleased[hdrSeq[c]] = 0
    BY DEF ReliableInv, CarriedOnce, GivenOnce, Open
  <2>3. \A e \in SeqID : timesReleased[e] \in Nat
          /\ (timesReleased[e] # 0 \/ (\E c \in pending : hdrSeq[c] = e) => timesReleased'[e] # 0)
    BY <1>a, <1>h DEF TypeInv, BooksTypeOK
  <2>4. \A c \in WithArt' : c \in pending \/ c \in WithArt
    BY <2>1 DEF WithArt
  <2>5. \A c \in WithArt' : hdrSeq[c] \in SeqID /\ timesReleased'[hdrSeq[c]] # 0
    BY <2>2, <2>3, <2>4 DEF ReliableInv, GivenHeld
  <2>6. \A c, d \in pending : hdrSeq[c] = hdrSeq[d] => c = d
    BY DEF ReliableInv, CarriedOnce, Open
  <2>7. \A c, d \in WithArt' : hdrSeq[c] = hdrSeq[d] => c = d
    BY <2>2, <2>4, <2>6 DEF ReliableInv, GivenHeld
  <2> QED
    BY <1>b, <2>5, <2>7 DEF GivenHeld
<1>17. OpenEventsRequested'
  BY <1>b, <1>e, <1>h DEF ReliableInv, OpenEventsRequested, Unrequested
<1> QED
  BY <1>1, <1>2, <1>3, <1>4, <1>5, <1>6, <1>7, <1>8, <1>9, <1>10, <1>11, <1>12, <1>13, <1>14,
     <1>15, <1>16, <1>17 DEF ReliableInv

\* A header written adds one Fragment, in hand, to an open event.
LEMMA WriteHeaderKeeps ==
  ASSUME Reliable, ReliableInv, TypeInv', NEW t \in Thread, WriteHeader(t)
  PROVE  ReliableInv'
<1> USE DEF threadVars, lockVars, shmVars, bookVars
<1>a. TypeInv
  BY DEF ReliableInv
<1>g. /\ pc[t] = "header" /\ buf[t] \in active /\ buf[t] \in Buf /\ hdrSeq[buf[t]] = event[t]
           /\ event[t] \in SeqID
      /\ bufLock[buf[t]] = NoThread /\ slots[buf[t]] \in Seq(Slot)
  BY <1>a, FlatTypes DEF WriteHeader, AtBuffer, ReliableInv, WorkOnOpen, Working
<1>h. <<t, event[t]>> \notin Written /\ ~EveryoneWrote(event[t])
        /\ \A u \in Thread : pc[u] \in Locking => buf[u] # buf[t]
  <2>1. <<t, event[t]>> \notin Written
    BY <1>a, <1>g, FlatTypes DEF Written, BeforeHeader, SeqID
  <2>2. \A u \in Thread : pc[u] \in Locking => buf[u] # buf[t]
    BY <1>g, ConstantsAssumption DEF ReliableInv, LocksHeld
  <2> QED
    BY <2>1, <2>2 DEF EveryoneWrote
<1>k. ~drop[t] /\ ~NonReliable
  BY DEF Reliable, ReliableInv, NothingGivenUp
<1>b. /\ pc[t] = "header" /\ pc'[t] = "body" /\ pos'[t] = Len(slots[buf[t]]) + 1
      /\ \A u \in Thread \ {t} : pc'[u] = pc[u] /\ pos'[u] = pos[u]
      /\ \A u \in Thread : drop'[u] = drop[u]
      /\ slots'[buf[t]]
           = Append(slots[buf[t]], [src |-> t, seq |-> event[t], body |-> FALSE, valid |-> TRUE])
      /\ \A b \in Buf \ {buf[t]} : slots'[b] = slots[b]
      /\ stale' \subseteq stale
      /\ UNCHANGED <<event, buf, lockVars, sem, hdrSeq, isComplete, bookVars>>
  BY <1>a, <1>g, <1>k, FlatTypes DEF WriteHeader, WriteReturned, Goto
<1>e. Unrequested' = Unrequested
  BY <1>b, UnrequestedSame DEF OtherThreads
<1>f. \A b \in Buf : Writers(b)' = Writers(b)
  BY <1>b, WritersSame DEF OtherThreads, WritingAt, PCs
<1>c. Written' = Written \cup {<<t, event[t]>>}
  BY <1>a, <1>b, <1>g, FlatTypes DEF Written, BeforeHeader
<1>d. InHand' = InHand \cup {<<t, event[t]>>}
  BY <1>a, <1>b, <1>g, FlatTypes DEF InHand, Receiving
<1>i. LET n == Len(slots[buf[t]]) + 1
      IN  /\ DOMAIN slots'[buf[t]] = DOMAIN slots[buf[t]] \cup {n} /\ n \notin DOMAIN slots[buf[t]]
          /\ \A i \in DOMAIN slots[buf[t]] : slots'[buf[t]][i] = slots[buf[t]][i]
          /\ slots'[buf[t]][n] = [src |-> t, seq |-> event[t], body |-> FALSE, valid |-> TRUE]
  BY <1>b, <1>g
<1>j. \A b \in Open : b \in Buf
  BY <1>a, FlatTypes DEF Open
<1>l. \A e : EveryoneWrote(e) => EveryoneWrote(e)'
  BY <1>c DEF EveryoneWrote
<1>1. NothingGivenUp'
  BY <1>a, <1>b DEF ReliableInv, NothingGivenUp
<1>2. LocksHeld'
  <2>1. \A u \in Thread : pc'[u] = "init" <=> pc[u] = "init"
    BY <1>b
  <2>2. \A u \in Thread : pc'[u] \in Locking => pc[u] \in Locking /\ buf'[u] = buf[u]
    BY <1>b DEF Locking
  <2>3. \A u \in Thread : pc[u] \in Locking => pc'[u] \in Locking /\ buf'[u] = buf[u]
    BY <1>b DEF Locking
  <2>4. \A u \in Thread : pc'[u] = "init" <=> seqLock' = u
    BY <1>b, <2>1 DEF ReliableInv, LocksHeld
  <2>5. ASSUME NEW u \in Thread, pc'[u] \in Locking PROVE bufLock'[buf'[u]] = u
    <3>1. pc[u] \in Locking /\ buf'[u] = buf[u]
      BY <2>2, <2>5
    <3> QED
      BY <1>b, <3>1 DEF ReliableInv, LocksHeld
  <2>6. ASSUME NEW b \in Buf, bufLock'[b] # NoThread
        PROVE  buf'[bufLock'[b]] = b /\ pc'[bufLock'[b]] \in Locking
    <3>1. bufLock[b] \in Thread /\ buf[bufLock[b]] = b /\ pc[bufLock[b]] \in Locking
            /\ bufLock' = bufLock
      BY <1>a, <1>b, <2>6, FlatTypes DEF ReliableInv, LocksHeld
    <3> QED
      BY <2>3, <3>1
  <2> QED
    BY <2>4, <2>5, <2>6 DEF LocksHeld, Locking
<1>3. WorkOnOpen'
  BY <1>b DEF ReliableInv, WorkOnOpen, Working, Locking
<1>4. InitNew'
  <2>1. \A u \in Thread : pc[u] = "init" => buf[u] \in Buf \ {buf[t]}
    BY <1>a, <1>g, FlatTypes DEF AtBuffer, ReliableInv, InitNew, Open
  <2> QED
    BY <1>b, <2>1 DEF ReliableInv, InitNew, Open
<1>5. LockedAlone'
  BY <1>b, <1>h DEF ReliableInv, LockedAlone, Working, Locking
<1>6. CarriedOnce'
  BY <1>b, <1>e DEF ReliableInv, CarriedOnce, Open
<1>7. BuffersBooked'
  BY <1>b DEF ReliableInv, BuffersBooked, Open
<1>8. WritesPendingExact'
  BY <1>a, <1>b, <1>f, FlatTypes DEF ReliableInv, WritesPendingExact, Open
<1>9. SlotsOfEvent'
  <2>1. ASSUME NEW b \in Open, NEW i \in DOMAIN slots'[b]
        PROVE  /\ slots'[b][i].seq = hdrSeq[b] /\ <<slots'[b][i].src, hdrSeq[b]>> \in Written'
               /\ Settled(slots'[b][i]) \/ <<slots'[b][i].src, hdrSeq[b]>> \in InHand'
    <3>1. CASE i \in DOMAIN slots[b] /\ slots'[b][i] = slots[b][i]
      BY <1>c, <1>d, <2>1, <3>1 DEF ReliableInv, SlotsOfEvent
    <3>2. CASE b = buf[t] /\ i = Len(slots[buf[t]]) + 1
      BY <1>c, <1>d, <1>g, <1>i, <3>2
    <3> QED
      BY <1>b, <1>i, <1>j, <2>1, <3>1, <3>2
  <2> QED
    BY <1>b, <2>1 DEF SlotsOfEvent, Open, Settled
<1>10. SlotsOnce'
  <2>1. ASSUME NEW b \in Open, NEW i \in DOMAIN slots'[b], NEW j \in DOMAIN slots'[b],
                 slots'[b][i].src = slots'[b][j].src
        PROVE  i = j
    <3>1. CASE b = buf[t]
      <4>1. \A k \in DOMAIN slots[b] : slots[b][k].src # t
        BY <1>g, <1>h, <3>1 DEF ReliableInv, SlotsOfEvent, Open
      <4>2. \A k, m \in DOMAIN slots[b] : slots[b][k].src = slots[b][m].src => k = m
        BY DEF ReliableInv, SlotsOnce
      <4> QED
        BY <1>i, <2>1, <3>1, <4>1, <4>2
    <3>2. CASE b # buf[t]
      BY <1>b, <1>j, <2>1, <3>2 DEF ReliableInv, SlotsOnce
    <3> QED
      BY <3>1, <3>2
  <2>2. ASSUME NEW b \in Open, NEW u \in Thread, <<u, hdrSeq[b]>> \in Written'
        PROVE  \E i \in DOMAIN slots'[b] : slots'[b][i].src = u
    <3>1. CASE <<u, hdrSeq[b]>> \in Written
      <4>1. PICK i \in DOMAIN slots[b] : slots[b][i].src = u
        BY <3>1 DEF ReliableInv, SlotsOnce
      <4> QED
        BY <1>b, <1>i, <1>j, <4>1
    <3>2. CASE u = t /\ hdrSeq[b] = event[t]
      <4>1. b = buf[t]
        BY <1>g, <3>2 DEF ReliableInv, CarriedOnce, Open
      <4> QED
        BY <1>i, <3>2, <4>1
    <3> QED
      BY <1>c, <2>2, <3>1, <3>2
  <2> QED
    BY <1>b, <2>1, <2>2 DEF SlotsOnce, Open
<1>11. OwnSlot'
  <2>1. ASSUME NEW u \in Thread \ {t}, pc[u] = "body"
        PROVE  pos[u] \in DOMAIN slots'[buf[u]] /\ slots'[buf[u]][pos[u]].src = u
    <3>1. pos[u] \in DOMAIN slots[buf[u]] /\ slots[buf[u]][pos[u]].src = u /\ buf[u] \in Buf
      BY <1>a, <2>1, FlatTypes DEF ReliableInv, OwnSlot, WorkOnOpen, Working
    <3> QED
      BY <1>b, <1>i, <3>1
  <2>2. pos'[t] \in DOMAIN slots'[buf[t]] /\ slots'[buf[t]][pos'[t]].src = t
    BY <1>b, <1>i
  <2> QED
    BY <1>b, <2>1, <2>2 DEF OwnSlot
<1>12. CompleteWhole'
  <2>1. \A b \in Buf \ {buf[t]} : Whole(b)' = Whole(b)
    BY <1>b DEF Whole, Settled
  <2>2. buf[t] \notin pending /\ sem[buf[t]] = "Writing"
    BY <1>g DEF ReliableInv, BuffersBooked, Open
  <2>3. \A u \in Thread : pc'[u] = "complete" => pc[u] = "complete" /\ buf[u] \in Buf \ {buf[t]}
    BY <1>a, <1>b, <1>h, FlatTypes DEF Locking, AtBuffer
  <2> QED
    BY <1>b, <2>1, <2>2, <2>3 DEF ReliableInv, CompleteWhole
<1>13. CompleteLast'
  <2>1. \A b \in pending : EveryoneWrote(hdrSeq[b])'
    BY <1>b, <1>c DEF ReliableInv, CompleteLast, EveryoneWrote
  <2>2. \A u \in Thread : pc[u] \in {"complete", "unrequest"} => EveryoneWrote(event[u])'
    BY <1>b, <1>c DEF ReliableInv, CompleteLast, EveryoneWrote
  <2> QED
    BY <1>b, <1>l, <2>1, <2>2 DEF ReliableInv, CompleteLast
<1>14. OpenUntilLast'
  <2>1. ASSUME NEW w \in Written' PROVE EveryoneWrote(w[2])' \/ \E b \in active : hdrSeq[b] = w[2]
    <3>1. CASE w \in Written
      BY <1>l, <3>1 DEF ReliableInv, OpenUntilLast
    <3>2. CASE w = <<t, event[t]>>
      BY <1>g, <3>2
    <3> QED
      BY <1>c, <2>1, <3>1, <3>2
  <2> QED
    BY <1>b, <2>1 DEF OpenUntilLast
<1>15. GivenOnce'
  BY <1>b, <1>l DEF ReliableInv, GivenOnce, Open
<1>16. GivenHeld'
  BY <1>b DEF ReliableInv, GivenHeld, WithArt
<1>17. OpenEventsRequested'
  BY <1>b, <1>e DEF ReliableInv, OpenEventsRequested, Unrequested
<1> QED
  BY <1>1, <1>2, <1>3, <1>4, <1>5, <1>6, <1>7, <1>8, <1>9, <1>10, <1>11, <1>12, <1>13, <1>14,
     <1>15, <1>16, <1>17 DEF ReliableInv

\* Art reads what it was given.
LEMMA ArtReadKeeps ==
  ASSUME Reliable, ReliableInv, TypeInv', NEW given \in Buf, ArtRead(given)
  PROVE  ReliableInv'
<1> USE DEF threadVars, lockVars, shmVars, bookVars
<1>a. TypeInv
  BY DEF ReliableInv
<1>b. /\ \A a \in Buf : (sem'[a] = "Writing" <=> sem[a] = "Writing")
      /\ \A a \in Buf : (sem'[a] \in {"Full", "Reading"} => sem[a] \in {"Full", "Reading"})
      /\ UNCHANGED <<pc, threadVars, lockVars, stale, hdrSeq, isComplete, slots, bookVars>>
  BY <1>a, FlatTypes DEF ArtRead
<1>c. Written' = Written
  BY <1>b DEF Written
<1>d. InHand' = InHand
  BY <1>b DEF InHand
<1>e. Unrequested' = Unrequested
  BY <1>b DEF Unrequested
<1>f. \A b \in Buf : Writers(b)' = Writers(b)
  BY <1>b DEF Writers
<1>1. NothingGivenUp'
  BY <1>a, <1>b DEF ReliableInv, NothingGivenUp
<1>2. LocksHeld'
  BY <1>b DEF ReliableInv, LocksHeld
<1>3. WorkOnOpen'
  BY <1>b DEF ReliableInv, WorkOnOpen, Working, Locking
<1>4. InitNew'
  BY <1>b DEF ReliableInv, InitNew, Open
<1>5. LockedAlone'
  BY <1>b DEF ReliableInv, LockedAlone, Working, Locking
<1>6. CarriedOnce'
  BY <1>b, <1>e DEF ReliableInv, CarriedOnce, Open
<1>7. BuffersBooked'
  BY <1>b DEF ReliableInv, BuffersBooked, Open
<1>8. WritesPendingExact'
  BY <1>a, <1>b, <1>f, FlatTypes DEF ReliableInv, WritesPendingExact, Open
<1>9. SlotsOfEvent'
  BY <1>b, <1>c, <1>d DEF ReliableInv, SlotsOfEvent, Open, Settled
<1>10. SlotsOnce'
  BY <1>b, <1>c DEF ReliableInv, SlotsOnce, Open
<1>11. OwnSlot'
  BY <1>b DEF ReliableInv, OwnSlot
<1>12. CompleteWhole'
  <2>1. \A b \in Buf \cup {NoBuf} : Whole(b)' = Whole(b)
    BY <1>b DEF Whole, Settled
  <2> QED
    BY <1>a, <1>b, <2>1, FlatTypes DEF ReliableInv, CompleteWhole
<1>13. CompleteLast'
  BY <1>b, <1>c DEF ReliableInv, CompleteLast, EveryoneWrote
<1>14. OpenUntilLast'
  BY <1>b, <1>c DEF ReliableInv, OpenUntilLast, EveryoneWrote
<1>15. GivenOnce'
  BY <1>b, <1>c DEF ReliableInv, GivenOnce, EveryoneWrote, Open
<1>16. GivenHeld'
  BY <1>b DEF ReliableInv, GivenHeld, WithArt
<1>17. OpenEventsRequested'
  BY <1>b, <1>e DEF ReliableInv, OpenEventsRequested, Unrequested
<1> QED
  BY <1>1, <1>2, <1>3, <1>4, <1>5, <1>6, <1>7, <1>8, <1>9, <1>10, <1>11, <1>12, <1>13, <1>14,
     <1>15, <1>16, <1>17 DEF ReliableInv

\* Art gives an emptied buffer back.
LEMMA ArtDoneKeeps ==
  ASSUME Reliable, ReliableInv, TypeInv', NEW given \in Buf, ArtDone(given)
  PROVE  ReliableInv'
<1> USE DEF threadVars, lockVars, shmVars, bookVars
<1>a. TypeInv
  BY DEF ReliableInv
<1>b. /\ \A a \in Buf : (sem'[a] = "Writing" <=> sem[a] = "Writing")
      /\ \A a \in Buf : (sem'[a] \in {"Full", "Reading"} => sem[a] \in {"Full", "Reading"})
      /\ UNCHANGED <<pc, threadVars, lockVars, stale, hdrSeq, isComplete, slots, bookVars>>
  BY <1>a, FlatTypes DEF ArtDone
<1>c. Written' = Written
  BY <1>b DEF Written
<1>d. InHand' = InHand
  BY <1>b DEF InHand
<1>e. Unrequested' = Unrequested
  BY <1>b DEF Unrequested
<1>f. \A b \in Buf : Writers(b)' = Writers(b)
  BY <1>b DEF Writers
<1>1. NothingGivenUp'
  BY <1>a, <1>b DEF ReliableInv, NothingGivenUp
<1>2. LocksHeld'
  BY <1>b DEF ReliableInv, LocksHeld
<1>3. WorkOnOpen'
  BY <1>b DEF ReliableInv, WorkOnOpen, Working, Locking
<1>4. InitNew'
  BY <1>b DEF ReliableInv, InitNew, Open
<1>5. LockedAlone'
  BY <1>b DEF ReliableInv, LockedAlone, Working, Locking
<1>6. CarriedOnce'
  BY <1>b, <1>e DEF ReliableInv, CarriedOnce, Open
<1>7. BuffersBooked'
  BY <1>b DEF ReliableInv, BuffersBooked, Open
<1>8. WritesPendingExact'
  BY <1>a, <1>b, <1>f, FlatTypes DEF ReliableInv, WritesPendingExact, Open
<1>9. SlotsOfEvent'
  BY <1>b, <1>c, <1>d DEF ReliableInv, SlotsOfEvent, Open, Settled
<1>10. SlotsOnce'
  BY <1>b, <1>c DEF ReliableInv, SlotsOnce, Open
<1>11. OwnSlot'
  BY <1>b DEF ReliableInv, OwnSlot
<1>12. CompleteWhole'
  <2>1. \A b \in Buf \cup {NoBuf} : Whole(b)' = Whole(b)
    BY <1>b DEF Whole, Settled
  <2> QED
    BY <1>a, <1>b, <2>1, FlatTypes DEF ReliableInv, CompleteWhole
<1>13. CompleteLast'
  BY <1>b, <1>c DEF ReliableInv, CompleteLast, EveryoneWrote
<1>14. OpenUntilLast'
  BY <1>b, <1>c DEF ReliableInv, OpenUntilLast, EveryoneWrote
<1>15. GivenOnce'
  BY <1>b, <1>c DEF ReliableInv, GivenOnce, EveryoneWrote, Open
<1>16. GivenHeld'
  BY <1>b DEF ReliableInv, GivenHeld, WithArt
<1>17. OpenEventsRequested'
  BY <1>b, <1>e DEF ReliableInv, OpenEventsRequested, Unrequested
<1> QED
  BY <1>1, <1>2, <1>3, <1>4, <1>5, <1>6, <1>7, <1>8, <1>9, <1>10, <1>11, <1>12, <1>13, <1>14,
     <1>15, <1>16, <1>17 DEF ReliableInv

\* What cannot happen in reliable mode.
LEMMA Impossible ==
  ASSUME Reliable, ReliableInv
  PROVE  /\ \A t \in Thread : ~LookupReleased(t) /\ ~DoneDropped(t) /\ ~WriteHeaderThrows(t)
         /\ \A b \in Buf : ~BufferTimeout(b)
<1>a. TypeInv
  BY DEF ReliableInv
<1>1. ASSUME NEW t \in Thread, LookupReleased(t) PROVE FALSE
  <2>1. pc[t] = "lookup" /\ event[t] \in SeqID /\ EveryoneWrote(event[t])
    BY <1>a, <1>1, FlatTypes DEF LookupReleased, AlreadyReleased, ReliableInv, NothingGivenUp,
       CompleteLast
  <2> QED
    <3>1. <<t, event[t]>> \in Written
      BY <2>1 DEF EveryoneWrote
    <3>2. <<t, event[t]>> \notin Written
      BY <1>a, <2>1, FlatTypes DEF Written, BeforeHeader, SeqID
    <3> QED
      BY <3>1, <3>2
<1>2. ASSUME NEW t \in Thread, DoneDropped(t) PROVE FALSE
  <2>1. buf[t] \in active /\ hdrSeq[buf[t]] = event[t]
    BY <1>2 DEF DoneDropped, ReliableInv, WorkOnOpen, Working
  <2>2. buf[t] \in Holding(event[t])
    BY <1>a, <2>1, FlatTypes DEF Holding, ReliableInv, BuffersBooked, Open
  <2> QED
    BY <1>2, <2>2 DEF DoneDropped
<1>3. ASSUME NEW t \in Thread, WriteHeaderThrows(t) PROVE FALSE
  <2>1. buf[t] \in active
    BY <1>3 DEF WriteHeaderThrows, ReliableInv, WorkOnOpen, Working
  <2> QED
    BY <1>a, <1>3, <2>1, FlatTypes DEF WriteHeaderThrows, ReliableInv, BuffersBooked, Open
<1>4. ASSUME NEW b \in Buf, BufferTimeout(b) PROVE FALSE
  BY <1>4 DEF BufferTimeout, Reliable
<1> QED
  BY <1>1, <1>2, <1>3, <1>4

\* Initially there is nothing to keep.
LEMMA InitReliableInv == Init => ReliableInv
<1> SUFFICES ASSUME Init PROVE ReliableInv
  OBVIOUS
<1> USE ConstantsAssumption
<1>1. TypeInv
  BY InitTypeInv
<1>2. Written = {} /\ Open = {} /\ \A t \in Thread : pc[t] = "recv"
  BY DEF Init, Written, Open, SeqID
<1>3. NothingGivenUp
  BY DEF Init, NothingGivenUp
<1>4. LocksHeld
  BY DEF Init, LocksHeld, Locking
<1>5. WorkOnOpen /\ InitNew /\ LockedAlone /\ OwnSlot
  BY <1>2 DEF WorkOnOpen, InitNew, LockedAlone, OwnSlot, Working, Locking
<1>6. CarriedOnce
  BY <1>2 DEF Init, CarriedOnce, Unrequested, Open
<1>7. BuffersBooked /\ WritesPendingExact /\ SlotsOfEvent /\ SlotsOnce
  BY <1>2 DEF Init, BuffersBooked, WritesPendingExact, SlotsOfEvent, SlotsOnce
<1>8. CompleteWhole /\ CompleteLast
  BY <1>2 DEF Init, CompleteWhole, CompleteLast
<1>9. OpenUntilLast /\ GivenOnce /\ GivenHeld
  BY <1>2 DEF Init, OpenUntilLast, GivenOnce, GivenHeld, WithArt
<1>10. OpenEventsRequested
  BY <1>2 DEF Init, OpenEventsRequested
<1> QED
  BY <1>1, <1>3, <1>4, <1>5, <1>6, <1>7, <1>8, <1>9, <1>10 DEF ReliableInv

LEMMA StutterKeeps ==
  ASSUME ReliableInv, UNCHANGED vars
  PROVE  ReliableInv'
<1> USE DEF vars, threadVars, lockVars, shmVars, bookVars
<1>1. TypeInv'
  BY NextTypeInv DEF ReliableInv
<1>2. Written' = Written /\ InHand' = InHand /\ Unrequested' = Unrequested /\ Open' = Open
  BY DEF Written, InHand, Unrequested, Open
<1>3. (\A b : Writers(b)' = Writers(b)) /\ (\A b : Whole(b)' = Whole(b))
        /\ (\A e : EveryoneWrote(e)' = EveryoneWrote(e))
  BY <1>2 DEF Writers, Whole, Settled, EveryoneWrote
<1>4. (NothingGivenUp /\ LocksHeld /\ WorkOnOpen /\ InitNew /\ LockedAlone)'
  BY <1>2 DEF ReliableInv, NothingGivenUp, LocksHeld, WorkOnOpen, InitNew, LockedAlone
<1>5. (CarriedOnce /\ BuffersBooked /\ OwnSlot)'
  BY <1>2 DEF ReliableInv, CarriedOnce, BuffersBooked, OwnSlot
<1>6. (WritesPendingExact)'
  BY <1>2, <1>3 DEF ReliableInv, WritesPendingExact
<1>7. (SlotsOfEvent /\ SlotsOnce)'
  BY <1>2 DEF ReliableInv, SlotsOfEvent, SlotsOnce, Settled
<1>8. (CompleteWhole /\ CompleteLast)'
  BY <1>2, <1>3 DEF ReliableInv, CompleteWhole, CompleteLast
<1>9. (OpenUntilLast /\ GivenOnce /\ GivenHeld /\ OpenEventsRequested)'
  BY <1>2, <1>3 DEF ReliableInv, OpenUntilLast, GivenOnce, GivenHeld, WithArt, OpenEventsRequested,
     Unrequested
<1> QED
  BY <1>1, <1>4, <1>5, <1>6, <1>7, <1>8, <1>9 DEF ReliableInv

\* Every step of the event builder keeps the invariant, in reliable mode.
LEMMA NextReliableInv == Reliable /\ ReliableInv /\ [Next]_vars => ReliableInv'
<1> SUFFICES ASSUME Reliable, ReliableInv, [Next]_vars PROVE ReliableInv'
  OBVIOUS
<1>1. TypeInv'
  BY NextTypeInv DEF ReliableInv
<1>2. ASSUME NEW t \in Thread, ReceiveHeader(t) \/ WriteFragmentHeader(t) PROVE ReliableInv'
  BY <1>1, <1>2, Impossible, ReceiveHeaderKeeps, LookupFoundKeeps, LookupNoBufferKeeps,
     LookupGrabKeeps, InitBufferKeeps,
     ReserveKeeps, WriteHeaderKeeps DEF WriteFragmentHeader, Lookup
<1>3. ASSUME NEW t \in Thread, ReceiveBody(t) \/ ReceiveBodyFails(t) \/ IdleCheck(t)
      PROVE  ReliableInv'
  BY <1>1, <1>3, ReceiveBodyKeeps, ReceiveBodyFailsKeeps, IdleCheckKeeps
<1>4. ASSUME NEW t \in Thread, DoneWritingFragment(t) PROVE ReliableInv'
  BY <1>1, <1>4, Impossible, DoneFoundKeeps, UpdateFragmentHeaderKeeps, FinishEarlyKeeps,
     FinishLastKeeps, CountFragmentsKeeps,
     CompleteBufferKeeps, RemoveRequestKeeps, CheckPendingKeeps,
       DoneUnlockKeeps DEF DoneWritingFragment
<1>5. ASSUME NEW b \in Buf, ArtStep(b) \/ BufferTimeout(b) PROVE ReliableInv'
  BY <1>1, <1>5, Impossible, ArtReadKeeps, ArtDoneKeeps DEF ArtStep
<1>6. CASE UNCHANGED vars
  BY <1>6, StutterKeeps
<1> QED
  BY <1>2, <1>3, <1>4, <1>5, <1>6 DEF Next, ThreadStep

LEMMA SpecReliableInv == Reliable => (Spec => []ReliableInv)
<1> SUFFICES ASSUME Reliable PROVE Spec => []ReliableInv
  OBVIOUS
<1>1. ReliableInv /\ [Next]_vars => ReliableInv'
  BY NextReliableInv
<1> QED
  BY InitReliableInv, <1>1, PTL DEF Spec

-------------------------------------------------------------------------------
\* The manager's books are right about the memory and the threads: what is written to is
\* booked once, no event is in two buffers, and the writes under way are counted exactly.
THEOREM BooksAlwaysMatchMemory == Reliable => (Spec => []BooksMatchMemory)
<1> SUFFICES ASSUME Reliable PROVE Spec => []BooksMatchMemory
  OBVIOUS
<1>1. ReliableInv => BooksMatchMemory
  BY DEF ReliableInv, BooksMatchMemory, OneBufferPerEvent, CarriedOnce
<1> QED
  BY SpecReliableInv, <1>1, PTL

\* What art is given of a complete event is whole: one settled Fragment of each source,
\* all of the same event.
THEOREM CompleteEventsAlwaysWhole == Reliable => (Spec => []CompleteEventsWhole)
<1> SUFFICES ASSUME Reliable PROVE Spec => []CompleteEventsWhole
  OBVIOUS
<1>1. ASSUME ReliableInv PROVE CompleteEventsWhole
  <2>1. SUFFICES ASSUME NEW b \in Buf, sem[b] \in {"Full", "Reading"}
                 PROVE  /\ Cardinality({slots[b][i].src : i \in DOMAIN slots[b]}) >= N
                        /\ \A i \in DOMAIN slots[b] :
                             slots[b][i].seq = hdrSeq[b] /\ (slots[b][i].body \/ ~slots[b][i].valid)
    BY DEF CompleteEventsWhole
  <2>2. Whole(b)
    BY <1>1, <2>1 DEF ReliableInv, CompleteWhole
  <2>3. slots[b] \in Seq(Slot)
    BY <1>1, FlatTypes DEF ReliableInv
  <2>4. \A i \in DOMAIN slots[b] : slots[b][i].src \in Thread
    <3>1. \A i \in DOMAIN slots[b] : slots[b][i] \in Slot
      BY <2>3
    <3> QED
      BY <3>1 DEF Slot
  <2>5. {slots[b][i].src : i \in DOMAIN slots[b]} = Thread
    BY <2>2, <2>4 DEF Whole
  <2> QED
    BY <2>2, <2>5, FinitenessAssumption, FS_CardinalityType DEF Whole, Settled, Reliable
<1> QED
  BY SpecReliableInv, <1>1, PTL

\* An event has a request exactly as long as it waits for Fragments.
THEOREM OpenEventsAlwaysRequested == Reliable => (Spec => []OpenEventsRequested)
<1> SUFFICES ASSUME Reliable PROVE Spec => []OpenEventsRequested
  OBVIOUS
<1>1. ReliableInv => OpenEventsRequested
  BY DEF ReliableInv
<1> QED
  BY SpecReliableInv, <1>1, PTL

\* No event is given to art twice.
THEOREM AlwaysReleasedOnce == Reliable => (Spec => []ReleasedOnce)
<1> SUFFICES ASSUME Reliable PROVE Spec => []ReleasedOnce
  OBVIOUS
<1>1. ReliableInv => ReleasedOnce
  BY DEF ReliableInv, GivenOnce, ReleasedOnce, TypeInv, BooksTypeOK
<1> QED
  BY SpecReliableInv, <1>1, PTL

-------------------------------------------------------------------------------
\* The buffers that carry an event.
Carrying == Open \cup WithArt

\* The step changes nothing of the event store.
StoreSame == eventPhase' = eventPhase /\ eventContent' = eventContent

\* No two buffers carry the same event, so its content is what is settled in one buffer.
LEMMA CarriedOnceEver ==
  ASSUME ReliableInv
  PROVE  /\ \A b \in Carrying : b \in Buf /\ hdrSeq[b] \in SeqID
         /\ \A a, b \in Carrying : hdrSeq[a] = hdrSeq[b] => a = b
         /\ eventContent = [e \in SeqID |-> UNION {SettledSources(b) : b \in {c \in Carrying : hdrSeq[c] = e}}]
<1>1. \A b \in Open : b \in Buf /\ hdrSeq[b] \in SeqID /\ timesReleased[hdrSeq[b]] = 0
  BY FlatTypes DEF ReliableInv, CarriedOnce, GivenOnce, Open
<1>2. \A b \in WithArt : b \in Buf /\ hdrSeq[b] \in SeqID /\ timesReleased[hdrSeq[b]] # 0
  BY DEF ReliableInv, GivenHeld, WithArt
<1>3. \A a, b \in Carrying : hdrSeq[a] = hdrSeq[b] => a = b
  BY <1>1, <1>2 DEF ReliableInv, CarriedOnce, GivenHeld, Carrying
<1>4. \A e \in SeqID : CarriersOf(e) = {c \in Carrying : hdrSeq[c] = e}
  BY <1>1 DEF CarriersOf, Carrying, WithArt
<1>5. \A e \in SeqID :
        UNION {SettledSources(b) : b \in CarriersOf(e)}
          = UNION {SettledSources(b) : b \in {c \in Carrying : hdrSeq[c] = e}}
  BY <1>4
<1> QED
  BY <1>1, <1>2, <1>3, <1>5 DEF eventContent, Carrying

\* The content of an event: that of the buffer which carries it, if there is one.
LEMMA ContentOf ==
  ASSUME ReliableInv, NEW e \in SeqID
  PROVE  /\ \A b \in Carrying : hdrSeq[b] = e => eventContent[e] = SettledSources(b)
         /\ (\A b \in Carrying : hdrSeq[b] # e) => eventContent[e] = {}
<1>1. eventContent[e] = UNION {SettledSources(b) : b \in {c \in Carrying : hdrSeq[c] = e}}
  BY CarriedOnceEver
<1>2. ASSUME NEW b \in Carrying, hdrSeq[b] = e PROVE {c \in Carrying : hdrSeq[c] = e} = {b}
  BY <1>2, CarriedOnceEver
<1>3. ASSUME \A b \in Carrying : hdrSeq[b] # e PROVE {c \in Carrying : hdrSeq[c] = e} = {}
  BY <1>3
<1> QED
  BY <1>1, <1>2, <1>3

LEMMA PhaseOf ==
  ASSUME ReliableInv, NEW e \in SeqID
  PROVE  eventPhase[e]
           = IF Completed(e) THEN "complete" ELSE IF BeingBuilt(e) THEN "open" ELSE "unseen"
BY DEF ReliableInv, NothingGivenUp, eventPhase

\* Steps of threads that only move on, take or leave a mutex, count a write or forget a
\* request change nothing of the event store.
LEMMA QuietStep ==
  ASSUME UNCHANGED <<sem, hdrSeq, slots, active, pending, incomplete, timesReleased>>
  PROVE  StoreSame
<1>1. Open' = Open
  BY DEF Open
<1>2. \A e : Completed(e)' = Completed(e) /\ BeingBuilt(e)' = BeingBuilt(e)
        /\ CarriersOf(e)' = CarriersOf(e)
  BY <1>1 DEF Completed, BeingBuilt, CarriersOf
<1>3. \A b : SettledSources(b)' = SettledSources(b)
  BY DEF SettledSources
<1>4. eventPhase' = eventPhase
  BY <1>2 DEF eventPhase
<1>5. \A e : UNION {SettledSources(b)' : b \in CarriersOf(e)'}
        = UNION {SettledSources(b) : b \in CarriersOf(e)}
  BY <1>2, <1>3
<1>6. eventContent' = eventContent
  BY <1>5 DEF eventContent
<1> QED
  BY <1>4, <1>6 DEF StoreSame

\* What the phase and the content of each event are, in terms of the buffers that carry it.
ReadOff ==
  /\ eventPhase = [e \in SeqID |-> eventPhase[e]]
  /\ eventContent = [e \in SeqID |-> eventContent[e]]
  /\ \A e \in SeqID :
       eventPhase[e]
         = IF Completed(e) THEN "complete" ELSE IF BeingBuilt(e) THEN "open" ELSE "unseen"
  /\ \A e \in SeqID, b \in Carrying : hdrSeq[b] = e => eventContent[e] = SettledSources(b)
  /\ \A e \in SeqID : (\A b \in Carrying : hdrSeq[b] # e) => eventContent[e] = {}

LEMMA ReadOffHolds == ReliableInv => ReadOff
<1> SUFFICES ASSUME ReliableInv PROVE ReadOff
  OBVIOUS
<1>1. eventPhase = [e \in SeqID |-> eventPhase[e]]
        /\ eventContent = [e \in SeqID |-> eventContent[e]]
  BY DEF eventPhase, eventContent
<1> QED
  BY <1>1, ContentOf, PhaseOf DEF ReadOff

LEMMA ReadOffAfter == ReliableInv' => ReadOff'
BY ReadOffHolds, PTL

\* A step after which the same buffers carry the same events, with the same Fragments
\* settled in them, leaves the contents of all events as they are.
LEMMA ContentSame ==
  ASSUME ReadOff, ReadOff', Carrying' = Carrying,
         \A b \in Carrying : hdrSeq'[b] = hdrSeq[b] /\ SettledSources(b)' = SettledSources(b)
  PROVE  eventContent' = eventContent
<1>1. ASSUME NEW e \in SeqID PROVE eventContent'[e] = eventContent[e]
  <2>1. CASE \E b \in Carrying : hdrSeq[b] = e
    <3>1. PICK b \in Carrying : hdrSeq[b] = e
      BY <2>1
    <3>2. eventContent[e] = SettledSources(b)
      BY <3>1 DEF ReadOff
    <3>3. b \in Carrying' /\ hdrSeq'[b] = e
      BY <3>1
    <3>4. eventContent'[e] = SettledSources(b)'
      BY <3>3 DEF ReadOff
    <3> QED
      BY <3>1, <3>2, <3>4
  <2>2. CASE \A b \in Carrying : hdrSeq[b] # e
    BY <2>2 DEF ReadOff
  <2> QED
    BY <2>1, <2>2
<1> QED
  BY <1>1 DEF ReadOff

\* The same for the phases.
LEMMA PhaseSame ==
  ASSUME ReadOff, ReadOff',
         \A e \in SeqID : (Completed(e)' <=> Completed(e)) /\ (BeingBuilt(e)' <=> BeingBuilt(e))
  PROVE  eventPhase' = eventPhase
BY DEF ReadOff

\* Handing complete events to art changes nothing of the event store.
LEMMA CheckStep ==
  ASSUME ReliableInv, ReliableInv', CheckPendingBooks, sem' = SemAfterCheck, UNCHANGED <<hdrSeq, slots>>
  PROVE  StoreSame
<1>1. /\ UNCHANGED <<active, incomplete, requests>> /\ pending' = {}
      /\ SemAfterCheck = [b \in Buf |-> IF b \in pending THEN "Full" ELSE sem[b]]
      /\ \A e \in SeqID : timesReleased'[e] = timesReleased[e]
           + IF \E b \in pending : hdrSeq[b] = e THEN 1 ELSE 0
  BY CheckPendingGives
<1>2. \A e \in SeqID : timesReleased[e] \in Nat
  BY DEF ReliableInv, TypeInv, BooksTypeOK
<1>3. Open' \cup WithArt' = Open \cup WithArt
  BY <1>1, FlatTypes DEF ReliableInv, Open, WithArt
<1>4. \A b : SettledSources(b)' = SettledSources(b)
  BY DEF SettledSources
<1>5. \A e \in SeqID : (Completed(e)' <=> Completed(e)) /\ (BeingBuilt(e)' <=> BeingBuilt(e))
  BY <1>1, <1>2 DEF Completed, BeingBuilt
<1> QED
  BY <1>3, <1>4, <1>5, ReadOffHolds, ReadOffAfter, ContentSame, PhaseSame DEF StoreSame, Carrying

\* Taking a buffer for a new event consumes the event art had not read or was reading, or
\* changes nothing.
LEMMA GrabStep ==
  ASSUME ReliableInv, ReliableInv', NEW t \in Thread, LookupGrab(t)
  PROVE  StoreSame \/ \E e \in SeqID : Store!Consume(e)
<1>a. TypeInv
  BY DEF ReliableInv
<1>b. ReadOff /\ ReadOff'
  BY ReadOffHolds, ReadOffAfter
<1>1. PICK b \in Buf : /\ SemAfterCheck[b] # "Writing"
                            /\ sem' = [SemAfterCheck EXCEPT ![b] = "Writing"]
                      /\ slots' = [slots EXCEPT ![b] = << >>]
  BY DEF LookupGrab, TakeBuffer, WritableBuffers
<1>2. /\ UNCHANGED <<active, incomplete, requests, hdrSeq>> /\ pending' = {}
      /\ SemAfterCheck = [c \in Buf |-> IF c \in pending THEN "Full" ELSE sem[c]]
      /\ \A e \in SeqID : timesReleased'[e] = timesReleased[e]
           + IF \E c \in pending : hdrSeq[c] = e THEN 1 ELSE 0
  BY CheckPendingGives DEF LookupGrab, TakeBuffer
<1>3. b \notin active
  BY <1>1, <1>2 DEF ReliableInv, BuffersBooked, Open
<1>4. Open' \cup WithArt' = (Open \cup WithArt) \ {b}
  BY <1>a, <1>1, <1>2, <1>3, FlatTypes DEF Open, WithArt
<1>5. \A c \in Buf \ {b} : SettledSources(c)' = SettledSources(c)
  BY <1>a, <1>1, FlatTypes DEF SettledSources
<1>6. \A e \in SeqID : timesReleased[e] \in Nat
  BY <1>a DEF TypeInv, BooksTypeOK
<1>7. \A e \in SeqID : (Completed(e)' <=> Completed(e)) /\ (BeingBuilt(e)' <=> BeingBuilt(e))
  BY <1>2, <1>6 DEF Completed, BeingBuilt
<1>8. eventPhase' = eventPhase
  BY <1>b, <1>7, PhaseSame
<1>9. \A c \in Carrying : c \in Buf
  BY CarriedOnceEver
<1>10. CASE b \in Carrying
  <2>1. hdrSeq[b] \in SeqID
    BY <1>10, CarriedOnceEver
  <2>2. Completed(hdrSeq[b])
    BY <1>3, <1>10 DEF Completed, ReliableInv, GivenHeld, Carrying, Open
  <2>3. eventPhase[hdrSeq[b]] = "complete"
    BY <1>b, <2>1, <2>2 DEF ReadOff
  <2>4. ASSUME NEW e \in SeqID, e # hdrSeq[b] PROVE eventContent'[e] = eventContent[e]
    <3>1. CASE \E c \in Carrying : hdrSeq[c] = e
      <4>1. PICK c \in Carrying : hdrSeq[c] = e
        BY <3>1
      <4>2. c \in Carrying' /\ hdrSeq'[c] = e /\ SettledSources(c)' = SettledSources(c)
        BY <1>2, <1>4, <1>5, <1>9, <2>4, <4>1 DEF Carrying
      <4>3. eventContent[e] = SettledSources(c)
        BY <1>b, <4>1 DEF ReadOff
      <4>4. eventContent'[e] = SettledSources(c)'
        BY <1>b, <4>2 DEF ReadOff
      <4> QED
        BY <4>2, <4>3, <4>4
    <3>2. CASE \A c \in Carrying : hdrSeq[c] # e
      <4>1. \A c \in Carrying' : hdrSeq'[c] # e
        BY <1>2, <1>4, <3>2 DEF Carrying
      <4> QED
        BY <1>b, <3>2, <4>1 DEF ReadOff
    <3> QED
      BY <3>1, <3>2
  <2>5. eventContent'[hdrSeq[b]] = {}
    <3>1. \A c \in Carrying' : hdrSeq'[c] # hdrSeq[b]
      BY <1>2, <1>4, <1>10, CarriedOnceEver DEF Carrying
    <3> QED
      BY <1>b, <2>1, <3>1 DEF ReadOff
  <2>6. eventContent' = [eventContent EXCEPT ![hdrSeq[b]] = {}]
    BY <1>b, <2>1, <2>4, <2>5 DEF ReadOff
  <2> QED
    BY <1>8, <2>1, <2>3, <2>6 DEF Store!Consume
<1>11. CASE b \notin Carrying
  <2>1. Carrying' = Carrying
    BY <1>4, <1>11 DEF Carrying
  <2>2. \A c \in Carrying : hdrSeq'[c] = hdrSeq[c] /\ SettledSources(c)' = SettledSources(c)
    BY <1>2, <1>5, <1>9, <1>11
  <2>3. eventContent' = eventContent
    BY <1>b, <2>1, <2>2, ContentSame
  <2> QED
    BY <1>8, <2>3 DEF StoreSame
<1> QED
  BY <1>10, <1>11

\* Initialising a buffer opens the event.
LEMMA InitStep ==
  ASSUME ReliableInv, ReliableInv', NEW t \in Thread, InitBuffer(t)
  PROVE  Store!OpenEvent(event[t])
<1>a. TypeInv
  BY DEF ReliableInv
<1>b. ReadOff /\ ReadOff'
  BY ReadOffHolds, ReadOffAfter
<1>1. /\ pc[t] = "init" /\ seqLock = t /\ buf[t] \in Buf /\ event[t] \in SeqID
      /\ buf[t] \notin Open /\ slots[buf[t]] = << >> /\ \A b \in Open : hdrSeq[b] # event[t]
  BY <1>a, FlatTypes DEF InitBuffer, AtBuffer, ReliableInv, LocksHeld, InitNew
<1>2. /\ hdrSeq' = [hdrSeq EXCEPT ![buf[t]] = event[t]] /\ active' = active \cup {buf[t]}
      /\ UNCHANGED <<sem, slots, pending, incomplete, timesReleased>>
  BY DEF InitBuffer
<1>3. sem[buf[t]] = "Writing"
  BY <1>1, ConstantsAssumption DEF ReliableInv, BuffersBooked
<1>4. \A b \in Carrying : b \in Buf \ {buf[t]} /\ hdrSeq'[b] = hdrSeq[b]
  BY <1>a, <1>1, <1>2, <1>3, CarriedOnceEver, FlatTypes DEF Carrying, WithArt
<1>5. Carrying' = Carrying \cup {buf[t]} /\ hdrSeq'[buf[t]] = event[t]
  BY <1>a, <1>1, <1>2, FlatTypes DEF Carrying, WithArt, Open
<1>6. \A b : SettledSources(b)' = SettledSources(b)
  BY <1>2 DEF SettledSources
<1>7. SettledSources(buf[t]) = {}
  BY <1>1 DEF SettledSources
<1>8. ~EveryoneWrote(event[t])
  <2>1. <<t, event[t]>> \notin Written
    BY <1>a, <1>1, FlatTypes DEF Written, BeforeHeader, SeqID
  <2> QED
    BY <2>1 DEF EveryoneWrote
<1>9. timesReleased[event[t]] = 0 /\ \A b \in Carrying : hdrSeq[b] # event[t]
  BY <1>1, <1>8 DEF ReliableInv, GivenOnce, GivenHeld, Carrying
<1>10. ~Completed(event[t]) /\ ~BeingBuilt(event[t]) /\ ~Completed(event[t])'
         /\ BeingBuilt(event[t])'
  <2>1. event'[t] = event[t] /\ pending' = pending /\ timesReleased' = timesReleased
    BY <1>2 DEF InitBuffer, threadVars
  <2>2. ~Completed(event[t]) /\ ~BeingBuilt(event[t])
    BY <1>9 DEF Completed, BeingBuilt, Carrying, Open
  <2>3. \A b \in pending : hdrSeq'[b] # event[t]
    BY <1>4, <1>9 DEF Carrying, Open
  <2>4. buf[t] \in active' /\ hdrSeq'[buf[t]] = event[t]
    BY <1>2, <1>5
  <2> QED
    BY <1>9, <2>1, <2>2, <2>3, <2>4 DEF Completed, BeingBuilt
<1>11. ASSUME NEW e \in SeqID \ {event[t]}
       PROVE  (Completed(e)' <=> Completed(e)) /\ (BeingBuilt(e)' <=> BeingBuilt(e))
  BY <1>2, <1>4, <1>5 DEF Completed, BeingBuilt, Carrying, Open
<1>12. eventPhase[event[t]] = "unseen" /\ eventPhase' = [eventPhase EXCEPT ![event[t]] = "open"]
  <2>1. eventPhase[event[t]] = "unseen"
    BY <1>b, <1>1, <1>10 DEF ReadOff
  <2>2. event'[t] = event[t]
    BY DEF InitBuffer, threadVars
  <2>3. eventPhase'[event[t]] = "open"
    BY <1>b, <1>1, <1>10, <2>2 DEF ReadOff, Completed, BeingBuilt
  <2>4. \A e \in SeqID \ {event[t]} : eventPhase'[e] = eventPhase[e]
    BY <1>b, <1>11 DEF ReadOff
  <2> QED
    BY <1>b, <1>1, <2>1, <2>3, <2>4 DEF ReadOff
<1>13. eventContent' = eventContent
  <2>1. ASSUME NEW e \in SeqID \ {event[t]} PROVE eventContent'[e] = eventContent[e]
    <3>1. CASE \E c \in Carrying : hdrSeq[c] = e
      <4>1. PICK c \in Carrying : hdrSeq[c] = e
        BY <3>1
      <4>2. c \in Carrying' /\ hdrSeq'[c] = e
        BY <1>4, <1>5, <4>1
      <4>3. eventContent[e] = SettledSources(c) /\ eventContent'[e] = SettledSources(c)'
        BY <1>b, <4>1, <4>2 DEF ReadOff
      <4> QED
        BY <1>6, <4>3
    <3>2. CASE \A c \in Carrying : hdrSeq[c] # e
      <4>1. \A c \in Carrying' : hdrSeq'[c] # e
        BY <1>4, <1>5, <3>2
      <4> QED
        BY <1>b, <3>2, <4>1 DEF ReadOff
    <3> QED
      BY <3>1, <3>2
  <2>2. eventContent[event[t]] = {}
    BY <1>b, <1>1, <1>9 DEF ReadOff
  <2>3. \A c \in Carrying' : hdrSeq'[c] = event[t] => eventContent'[event[t]] = SettledSources(c)'
    BY <1>b, <1>1 DEF ReadOff
  <2>4. ASSUME NEW c \in Carrying', c = buf[t] PROVE eventContent'[event[t]] = {}
    BY <1>5, <1>6, <1>7, <2>3, <2>4
  <2>5. eventContent'[event[t]] = {}
    BY <1>5, <2>4
  <2> QED
    BY <1>b, <2>1, <2>2, <2>5 DEF ReadOff
<1> QED
  BY <1>1, <1>12, <1>13 DEF Store!OpenEvent

\* A header alone is not a settled Fragment.
LEMMA HeaderStep ==
  ASSUME ReliableInv, ReliableInv', NEW t \in Thread, WriteHeader(t)
  PROVE  StoreSame
<1>a. TypeInv
  BY DEF ReliableInv
<1>b. ReadOff /\ ReadOff'
  BY ReadOffHolds, ReadOffAfter
<1>1. buf[t] \in Buf /\ slots[buf[t]] \in Seq(Slot)
  BY <1>a, FlatTypes DEF WriteHeader, AtBuffer
<1> DEFINE new == [src |-> t, seq |-> event[t], body |-> FALSE, valid |-> TRUE]
<1>2. slots' = [slots EXCEPT ![buf[t]] = Append(slots[buf[t]], new)] /\ UNCHANGED <<sem, hdrSeq,
                                                                                    bookVars>>
  BY <1>a, <1>1, FlatTypes DEF WriteHeader
<1>3. slots'[buf[t]] = Append(slots[buf[t]], new) /\ \A b \in Buf \ {buf[t]} : slots'[b] = slots[b]
  BY <1>a, <1>1, <1>2, FlatTypes
<1>4. ~new.body /\ new.valid
  OBVIOUS
<1> HIDE DEF new
<1>5. LET n == Len(slots[buf[t]]) + 1
      IN  /\ DOMAIN slots'[buf[t]] = DOMAIN slots[buf[t]] \cup {n} /\ n \notin DOMAIN slots[buf[t]]
          /\ \A i \in DOMAIN slots[buf[t]] : slots'[buf[t]][i] = slots[buf[t]][i]
          /\ slots'[buf[t]][n] = new
  BY <1>1, <1>3
<1>6. buf' = buf
  BY DEF WriteHeader
<1>7. \A b \in Buf : SettledSources(b)' = SettledSources(b)
  <2>1. ASSUME NEW b \in Buf, b # buf[t] PROVE SettledSources(b)' = SettledSources(b)
    BY <1>3, <2>1 DEF SettledSources
  <2>2. ASSUME NEW b \in Buf, b = buf[t] PROVE SettledSources(b)' = SettledSources(b)
    BY <1>4, <1>5, <2>2 DEF SettledSources
  <2> QED
    BY <2>1, <2>2
<1>8. Carrying' = Carrying /\ \A e \in SeqID : (Completed(e)' <=> Completed(e))
        /\ (BeingBuilt(e)' <=> BeingBuilt(e))
  BY <1>2 DEF Carrying, Open, WithArt, Completed, BeingBuilt, bookVars
<1> QED
  BY <1>b, <1>2, <1>7, <1>8, CarriedOnceEver, ContentSame, PhaseSame DEF StoreSame

\* What settles one Fragment of an open event stores it, or changes nothing.
LEMMA SettleStep ==
  ASSUME ReliableInv, ReliableInv', NEW t \in Thread, NEW i \in DOMAIN slots[buf[t]],
         buf[t] \in active, hdrSeq[buf[t]] = event[t], slots[buf[t]][i].src = t,
         slots' \in {[slots EXCEPT ![buf[t]][i].body = TRUE],
           [slots EXCEPT ![buf[t]][i].valid = FALSE]},
         UNCHANGED <<sem, hdrSeq, bookVars>>
  PROVE  StoreSame \/ \E e \in SeqID : Store!Store(e, t)
<1>a. TypeInv /\ buf[t] \in Buf
  BY FlatTypes DEF ReliableInv
<1>b. ReadOff /\ ReadOff'
  BY ReadOffHolds, ReadOffAfter
<1>c. active' = active /\ pending' = pending /\ timesReleased' = timesReleased
  BY DEF bookVars
<1>1. \A a \in Buf : DOMAIN slots'[a] = DOMAIN slots[a] /\ \A j \in DOMAIN slots[a] :
           /\ slots'[a][j].src = slots[a][j].src
           /\ Settled(slots[a][j]) \/ (a = buf[t] /\ j = i) => Settled(slots'[a][j])
           /\ slots[a][j].body => slots'[a][j].body
           /\ ~slots[a][j].valid => ~slots'[a][j].valid
  <2>1. CASE slots' = [slots EXCEPT ![buf[t]][i].body = TRUE]
    BY <1>a, <2>1, FlatTypes, FlagSet DEF Settled
  <2>2. CASE slots' = [slots EXCEPT ![buf[t]][i].valid = FALSE]
    BY <1>a, <2>2, FlatTypes, FlagSet DEF Settled
  <2> QED
    BY <2>1, <2>2
<1>2. \A a \in Buf \ {buf[t]} : slots'[a] = slots[a]
  BY <1>a, FlatTypes
<1>3. \A j \in DOMAIN slots[buf[t]] \ {i} : slots'[buf[t]][j] = slots[buf[t]][j]
  BY <1>a, FlatTypes
<1>4. \A a \in Buf \ {buf[t]} : SettledSources(a)' = SettledSources(a)
  BY <1>2 DEF SettledSources
<1>5. ASSUME NEW a \in Buf, a = buf[t] PROVE SettledSources(a)' = SettledSources(a) \cup {t}
  <2>1. \A j \in DOMAIN slots[a] \ {i} : slots'[a][j] = slots[a][j]
    BY <1>3, <1>5
  <2>2. Settled(slots'[a][i]) /\ slots'[a][i].src = t /\ slots[a][i].src = t
    BY <1>1, <1>5
  <2>3. DOMAIN slots'[a] = DOMAIN slots[a] /\ i \in DOMAIN slots[a]
    BY <1>1, <1>5
  <2> QED
    BY <2>1, <2>2, <2>3 DEF SettledSources, Settled
<1>6. Carrying' = Carrying /\ \A e \in SeqID : (Completed(e)' <=> Completed(e))
        /\ (BeingBuilt(e)' <=> BeingBuilt(e))
  BY <1>c DEF Carrying, Open, WithArt, Completed, BeingBuilt
<1>7. eventPhase' = eventPhase
  BY <1>b, <1>6, PhaseSame
<1>8. buf[t] \in Carrying /\ event[t] \in SeqID
  BY CarriedOnceEver DEF Carrying, Open
<1>9. eventPhase[event[t]] = "open"
  <2>1. BeingBuilt(event[t])
    BY DEF BeingBuilt
  <2>2. ~Completed(event[t])
    BY <1>8 DEF Completed, ReliableInv, GivenOnce, CarriedOnce, BuffersBooked, Open
  <2> QED
    BY <1>b, <1>8, <2>1, <2>2 DEF ReadOff
<1>10. \A e \in SeqID \ {event[t]} : eventContent'[e] = eventContent[e]
  <2>1. ASSUME NEW e \in SeqID \ {event[t]} PROVE eventContent'[e] = eventContent[e]
    <3>1. CASE \E c \in Carrying : hdrSeq[c] = e
      <4>1. PICK c \in Carrying : hdrSeq[c] = e
        BY <3>1
      <4>2. c \in Carrying' /\ hdrSeq'[c] = e /\ c \in Buf \ {buf[t]}
        BY <1>6, <4>1, CarriedOnceEver
      <4>3. eventContent[e] = SettledSources(c) /\ eventContent'[e] = SettledSources(c)'
        BY <1>b, <4>1, <4>2 DEF ReadOff
      <4> QED
        BY <1>4, <4>2, <4>3
    <3>2. CASE \A c \in Carrying : hdrSeq[c] # e
      BY <1>b, <1>6, <3>2 DEF ReadOff
    <3> QED
      BY <3>1, <3>2
  <2> QED
    BY <2>1
<1>11. ASSUME NEW a \in Buf, a = buf[t]
       PROVE  eventContent'[event[t]] = eventContent[event[t]] \cup {t}
  <2>1. a \in Carrying' /\ hdrSeq'[a] = event[t]
    BY <1>6, <1>8, <1>11
  <2>2. eventContent'[event[t]] = SettledSources(a)' /\ eventContent[event[t]] = SettledSources(a)
    BY <1>b, <1>8, <1>11, <2>1 DEF ReadOff
  <2> QED
    BY <1>5, <1>11, <2>2
<1>12. eventContent' = [eventContent EXCEPT ![event[t]] = @ \cup {t}]
  BY <1>a, <1>b, <1>8, <1>10, <1>11 DEF ReadOff
<1>13. CASE t \in eventContent[event[t]]
  <2>1. eventContent'[event[t]] = eventContent[event[t]]
    BY <1>a, <1>11, <1>13
  <2>2. eventContent' = eventContent
    BY <1>b, <1>10, <2>1 DEF ReadOff
  <2> QED
    BY <1>7, <2>2 DEF StoreSame
<1>14. CASE t \notin eventContent[event[t]]
  BY <1>7, <1>8, <1>9, <1>12, <1>14 DEF Store!Store
<1> QED
  BY <1>13, <1>14

LEMMA BodyStep ==
  ASSUME ReliableInv, ReliableInv', NEW t \in Thread, ReceiveBody(t)
  PROVE  StoreSame \/ \E e \in SeqID : Store!Store(e, t)
<1>1. /\ pc[t] = "body" /\ buf[t] \in active /\ buf[t] \in Buf /\ buf[t] # NoBuf
           /\ hdrSeq[buf[t]] = event[t]
      /\ pos[t] \in DOMAIN slots[buf[t]] /\ slots[buf[t]][pos[t]].src = t
  BY FlatTypes, ConstantsAssumption DEF ReceiveBody, ReliableInv, WorkOnOpen, Working, OwnSlot
<1>2. slots' = [slots EXCEPT ![buf[t]][pos[t]].body = TRUE] /\ UNCHANGED <<sem, hdrSeq, bookVars>>
  BY <1>1 DEF ReceiveBody
<1> QED
  BY <1>1, <1>2, SettleStep

LEMMA UpdateStep ==
  ASSUME ReliableInv, ReliableInv', NEW t \in Thread, UpdateFragmentHeader(t)
  PROVE  StoreSame \/ \E e \in SeqID : Store!Store(e, t)
<1>1. pc[t] = "update" /\ buf[t] \in active /\ buf[t] \in Buf /\ hdrSeq[buf[t]] = event[t]
  BY FlatTypes DEF UpdateFragmentHeader, ReliableInv, WorkOnOpen, Working, AtBuffer
<1>2. CASE slots' = slots
  <2>1. UNCHANGED <<sem, hdrSeq, slots, active, pending, incomplete, timesReleased>>
    BY <1>2 DEF UpdateFragmentHeader, bookVars
  <2> QED
    BY <2>1, QuietStep
<1>3. CASE slots[buf[t]] # << >> /\ slots[buf[t]][1].src = t
             /\ slots' = [slots EXCEPT ![buf[t]][1].valid = FALSE]
  <2>1. 1 \in DOMAIN slots[buf[t]] /\ UNCHANGED <<sem, hdrSeq, bookVars>>
    BY <1>1, <1>3, FlatTypes DEF UpdateFragmentHeader, ReliableInv
  <2> QED
    BY <1>1, <1>3, <2>1, SettleStep
<1> QED
  BY <1>2, <1>3 DEF UpdateFragmentHeader

\* An event is completed with the Fragments of all sources.
LEMMA CompleteStep ==
  ASSUME Reliable, ReliableInv, ReliableInv', NEW t \in Thread, CompleteBuffer(t)
  PROVE  \E e \in SeqID : Store!Complete(e)
<1>a. TypeInv
  BY DEF ReliableInv
<1>b. ReadOff /\ ReadOff'
  BY ReadOffHolds, ReadOffAfter
<1>1. buf[t] \in active /\ buf[t] \in Buf /\ hdrSeq[buf[t]] = event[t] /\ event[t] \in SeqID
        /\ Whole(buf[t])
  BY <1>a, FlatTypes DEF CompleteBuffer, ReliableInv, WorkOnOpen, Working, AtBuffer, CompleteWhole
<1>2. /\ active' = active \ {buf[t]} /\ pending' = pending \cup {buf[t]}
      /\ UNCHANGED <<sem, hdrSeq, slots, incomplete, timesReleased>>
  BY DEF CompleteBuffer, shmVars
<1>3. Carrying' = Carrying /\ buf[t] \in Carrying
  BY <1>1, <1>2 DEF Carrying, Open, WithArt
<1>4. eventContent' = eventContent
  <2>1. \A b \in Carrying : hdrSeq'[b] = hdrSeq[b] /\ SettledSources(b)' = SettledSources(b)
    BY <1>2 DEF SettledSources
  <2> QED
    BY <1>b, <1>3, <2>1, ContentSame
<1>5. SettledSources(buf[t]) = Thread
  <2>1. slots[buf[t]] \in Seq(Slot)
    BY <1>a, <1>1, FlatTypes
  <2>2. \A i \in DOMAIN slots[buf[t]] : slots[buf[t]][i] \in Slot
    BY <2>1
  <2>3. \A i \in DOMAIN slots[buf[t]] : slots[buf[t]][i].src \in Thread
    BY <2>2 DEF Slot
  <2>4. \A i \in DOMAIN slots[buf[t]] : slots[buf[t]][i].body \/ ~slots[buf[t]][i].valid
    BY <1>1 DEF Whole, Settled
  <2> QED
    BY <1>1, <2>3, <2>4 DEF SettledSources, Whole
<1>6. Cardinality(eventContent[event[t]]) >= N
  <2>1. eventContent[event[t]] = Thread
    BY <1>b, <1>1, <1>3, <1>5 DEF ReadOff
  <2> QED
    BY <2>1, FinitenessAssumption, FS_CardinalityType DEF Reliable
<1>7. eventPhase[event[t]] = "open"
  <2>1. BeingBuilt(event[t])
    BY <1>1 DEF BeingBuilt
  <2>2. ~Completed(event[t])
    BY <1>1 DEF Completed, ReliableInv, GivenOnce, CarriedOnce, BuffersBooked, Open
  <2> QED
    BY <1>b, <1>1, <2>1, <2>2 DEF ReadOff
<1>8. ASSUME NEW e \in SeqID
      PROVE  eventPhase'[e] = IF e = event[t] THEN "complete" ELSE eventPhase[e]
  <2>1. Completed(e)' <=> Completed(e) \/ e = event[t]
    BY <1>1, <1>2 DEF Completed
  <2>2. e # event[t] => (BeingBuilt(e)' <=> BeingBuilt(e))
    BY <1>1, <1>2 DEF BeingBuilt
  <2> QED
    BY <1>b, <2>1, <2>2 DEF ReadOff
<1>9. eventPhase' = [eventPhase EXCEPT ![event[t]] = "complete"]
  BY <1>b, <1>1, <1>8 DEF ReadOff
<1>10. Store!Complete(event[t])
  <2>1. Store!Cardinality(eventContent[event[t]]) = Cardinality(eventContent[event[t]])
    BY DEF Store!Cardinality, Cardinality
  <2> QED
    BY <1>4, <1>6, <1>7, <1>9, <2>1 DEF Store!Complete
<1> QED
  BY <1>1, <1>10

\* Art consumes an event when it has emptied the buffer.
LEMMA ArtDoneStep ==
  ASSUME ReliableInv, ReliableInv', NEW b \in Buf, ArtDone(b)
  PROVE  \E e \in SeqID : Store!Consume(e)
<1>a. TypeInv
  BY DEF ReliableInv
<1>b. ReadOff /\ ReadOff'
  BY ReadOffHolds, ReadOffAfter
<1>1. /\ sem[b] = "Reading" /\ sem' = [sem EXCEPT ![b] = "Empty"]
      /\ UNCHANGED <<hdrSeq, slots, active, pending, incomplete, timesReleased>>
  BY DEF ArtDone, bookVars
<1>2. b \in WithArt /\ b \notin Open /\ hdrSeq[b] \in SeqID /\ timesReleased[hdrSeq[b]] # 0
  BY <1>a, <1>1, FlatTypes DEF WithArt, ReliableInv, BuffersBooked, GivenHeld
<1>3. Carrying' = Carrying \ {b}
  BY <1>a, <1>1, <1>2, FlatTypes DEF Carrying, Open, WithArt
<1>4. \A c : SettledSources(c)' = SettledSources(c)
  BY <1>1 DEF SettledSources
<1>5. eventPhase' = eventPhase
  <2>1. \A e \in SeqID : (Completed(e)' <=> Completed(e)) /\ (BeingBuilt(e)' <=> BeingBuilt(e))
    BY <1>1 DEF Completed, BeingBuilt
  <2> QED
    BY <1>b, <2>1, PhaseSame
<1>6. eventPhase[hdrSeq[b]] = "complete"
  BY <1>b, <1>2 DEF ReadOff, Completed
<1>7. ASSUME NEW e \in SeqID, e # hdrSeq[b] PROVE eventContent'[e] = eventContent[e]
  <2>1. CASE \E c \in Carrying : hdrSeq[c] = e
    <3>1. PICK c \in Carrying : hdrSeq[c] = e
      BY <2>1
    <3>2. c \in Carrying' /\ hdrSeq'[c] = e
      BY <1>1, <1>3, <1>7, <3>1
    <3>3. eventContent[e] = SettledSources(c) /\ eventContent'[e] = SettledSources(c)'
      BY <1>b, <3>1, <3>2 DEF ReadOff
    <3> QED
      BY <1>4, <3>3
  <2>2. CASE \A c \in Carrying : hdrSeq[c] # e
    <3>1. \A c \in Carrying' : hdrSeq'[c] # e
      BY <1>1, <1>3, <2>2
    <3> QED
      BY <1>b, <2>2, <3>1 DEF ReadOff
  <2> QED
    BY <2>1, <2>2
<1>8. eventContent'[hdrSeq[b]] = {}
  <2>1. \A c \in Carrying' : hdrSeq'[c] # hdrSeq[b]
    BY <1>1, <1>2, <1>3, CarriedOnceEver DEF Carrying
  <2> QED
    BY <1>b, <1>2, <2>1 DEF ReadOff
<1>9. eventContent' = [eventContent EXCEPT ![hdrSeq[b]] = {}]
  BY <1>b, <1>2, <1>7, <1>8 DEF ReadOff
<1> QED
  BY <1>2, <1>5, <1>6, <1>9 DEF Store!Consume

LEMMA ArtReadStep ==
  ASSUME ReliableInv, ReliableInv', NEW b \in Buf, ArtRead(b)
  PROVE  StoreSame
<1>a. TypeInv
  BY DEF ReliableInv
<1>b. ReadOff /\ ReadOff'
  BY ReadOffHolds, ReadOffAfter
<1>1. /\ sem[b] = "Full" /\ sem' = [sem EXCEPT ![b] = "Reading"]
      /\ UNCHANGED <<hdrSeq, slots, active, pending, incomplete, timesReleased>>
  BY DEF ArtRead, bookVars
<1>2. Carrying' = Carrying
  BY <1>a, <1>1, FlatTypes DEF Carrying, Open, WithArt
<1>3. \A c : SettledSources(c)' = SettledSources(c)
  BY <1>1 DEF SettledSources
<1>4. \A e \in SeqID : (Completed(e)' <=> Completed(e)) /\ (BeingBuilt(e)' <=> BeingBuilt(e))
  BY <1>1 DEF Completed, BeingBuilt
<1> QED
  BY <1>b, <1>1, <1>2, <1>3, <1>4, ContentSame, PhaseSame DEF StoreSame

-------------------------------------------------------------------------------
LEMMA StoreInit == Init => Store!Init
<1> SUFFICES ASSUME Init PROVE Store!Init
  OBVIOUS
<1>1. \A e \in SeqID : ~Completed(e) /\ ~BeingBuilt(e) /\ CarriersOf(e) = {}
  BY DEF Init, Completed, BeingBuilt, CarriersOf, Open
<1>2. eventPhase = [e \in SeqID |-> "unseen"]
  BY <1>1 DEF Init, eventPhase
<1>3. \A e \in SeqID : UNION {SettledSources(b) : b \in CarriersOf(e)} = {}
  BY <1>1
<1>4. eventContent = [e \in SeqID |-> {}]
  BY <1>3 DEF eventContent
<1> QED
  BY <1>2, <1>4 DEF Store!Init

\* Every step of the event builder is a step of the event store, or changes nothing there.
LEMMA StoreNext ==
  ASSUME Reliable, ReliableInv, ReliableInv', [Next]_vars
  PROVE  [Store!Next]_(Store!vars)
<1>1. SUFFICES StoreSame \/ Store!Next
  BY DEF StoreSame, Store!vars
<1> USE DEF threadVars, lockVars, shmVars, bookVars
<1>2. ASSUME NEW t \in Thread,
               ReceiveHeader(t) \/ Lookup(t) \/ Reserve(t) \/ WriteHeader(t) \/ WriteHeaderThrows(t)
      PROVE  StoreSame \/ Store!Next
  <2>1. CASE ReceiveHeader(t) \/ LookupFound(t) \/ Reserve(t)
    BY <2>1, QuietStep DEF ReceiveHeader, TakeHeader, LookupFound, Reserve
  <2>2. CASE LookupNoBuffer(t)
    BY <2>2, CheckStep DEF LookupNoBuffer
  <2>3. CASE LookupGrab(t)
    BY <2>3, GrabStep DEF Store!Next
  <2> QED
    BY <1>2, <2>1, <2>2, <2>3, Impossible, HeaderStep DEF Lookup
<1>3. ASSUME NEW t \in Thread, InitBuffer(t) PROVE Store!Next
  <2>1. event[t] \in SeqID
    BY <1>3, FlatTypes DEF InitBuffer, ReliableInv
  <2> QED
    BY <1>3, <2>1, InitStep DEF Store!Next
<1>4. ASSUME NEW t \in Thread, ReceiveBody(t) \/ ReceiveBodyFails(t) \/ IdleCheck(t)
      PROVE  StoreSame \/ Store!Next
  <2>1. CASE ReceiveBody(t)
    BY <2>1, BodyStep DEF Store!Next
  <2>2. CASE ReceiveBodyFails(t)
    BY <2>2, QuietStep DEF ReceiveBodyFails
  <2>3. CASE IdleCheck(t)
    BY <2>3, CheckStep DEF IdleCheck
  <2> QED
    BY <1>4, <2>1, <2>2, <2>3
<1>5. ASSUME NEW t \in Thread, DoneWritingFragment(t) PROVE StoreSame \/ Store!Next
  <2>1. CASE DoneFound(t) \/ FinishEarly(t) \/ FinishLast(t) \/ CountFragments(t) \/ RemoveRequest(t) \/ DoneUnlock(t)
    BY <2>1, QuietStep DEF DoneFound, FinishEarly, FinishLast, CountFragments, RemoveRequest,
       DoneUnlock
  <2>2. CASE CheckPending(t)
    BY <2>2, CheckStep DEF CheckPending
  <2>3. CASE UpdateFragmentHeader(t)
    BY <2>3, UpdateStep DEF Store!Next
  <2>4. CASE CompleteBuffer(t)
    BY <2>4, CompleteStep DEF Store!Next
  <2> QED
    BY <1>5, <2>1, <2>2, <2>3, <2>4, Impossible DEF DoneWritingFragment
<1>6. ASSUME NEW b \in Buf, ArtStep(b) \/ BufferTimeout(b) PROVE StoreSame \/ Store!Next
  BY <1>6, Impossible, ArtReadStep, ArtDoneStep DEF ArtStep, Store!Next
<1>7. CASE UNCHANGED vars
  BY <1>7, QuietStep DEF vars
<1> QED
  BY <1>2, <1>3, <1>4, <1>5, <1>6, <1>7 DEF Next, ThreadStep, WriteFragmentHeader

\* The event builder implements the event store: an event is opened once, collects
\* Fragments only while it is open, is completed with enough of them, and does not change
\* from then on until art has consumed it.
THEOREM EventBuilderImplementsStore == Reliable => (Spec => ImplementsEventStore)
<1> SUFFICES ASSUME Reliable PROVE Spec => ImplementsEventStore
  OBVIOUS
<1>1. ReliableInv /\ ReliableInv' /\ [Next]_vars => [Store!Next]_(Store!vars)
  BY StoreNext
<1> QED
  BY StoreInit, SpecReliableInv, <1>1, PTL DEF Spec, ImplementsEventStore, Store!Spec

-------------------------------------------------------------------------------
(* With time-outs, late and surplus Fragments. *)

\* A Fragment is dropped only if its event was released, and no event is forgotten.
Remembering == ~NonReliable /\ MaxSeq <= MaxEventList

\* The steps of a thread between the lookup of a buffer and the end of DoneWritingFragment,
\* and those among them at which its event cannot be given up.
OnWay == {"reserve", "header", "body", "done", "doneInvalid", "update", "finish"} \cup Locking
Held  == {"update", "finish", "count", "complete"}

\* The event of thread t is open in the buffer of t.
InBuffer(t) == buf[t] \in Open /\ hdrSeq[buf[t]] = event[t]

\* Event e was given to art, complete or not, and nothing more is done for it.
Gone(e) == AlreadyReleased(e) /\ \A b \in Open : hdrSeq[b] # e

\* The threads that write to buffer b for the event it carries, and have said so.
Counted(b) == {t \in Thread : buf[t] = b /\ event[t] = hdrSeq[b] /\ pc[t] \in OnWay \ {"reserve"}}

NeverTold  == \A t \in Thread : ~drop[t]
EventsSent == released \cup incomplete \subseteq SeqID /\ \A b \in Open : hdrSeq[b] \in SeqID

\* A thread with the mutex of a buffer has the event of that buffer.
LockedEvent == \A t \in Thread : pc[t] \in Locking => hdrSeq[buf[t]] = event[t]

\* A buffer is initialised for an event that is neither open nor released.
ClaimNew ==
  \A t \in Thread : pc[t] = "init" =>
    /\ buf[t] \notin Open /\ ~AlreadyReleased(event[t])
    /\ \A b \in Open : hdrSeq[b] # event[t]

ActiveNotReleased == \A b \in active : ~AlreadyReleased(hdrSeq[b])

\* A pending buffer has its last writer on the way to give it to art.
PendingLocked ==
  \A b \in pending :
    /\ hdrSeq[b] \in released /\ hdrSeq[b] \notin incomplete
    /\ bufLock[b] # NoThread /\ pc[bufLock[b]] \in {"unrequest", "check"}

GivenGone == \A e \in SeqID : timesReleased[e] # 0 => timesReleased[e] = 1 /\ Gone(e)

\* A thread that found a buffer for its event is still in it, or the event is gone; from
\* DoneWritingFragment's lookup to the completion it is still in it.
OpenOrGone == \A t \in Thread : pc[t] \in OnWay => InBuffer(t) \/ Gone(event[t])
HeldOpen   == \A t \in Thread : pc[t] \in Held => InBuffer(t)

\* The count of pending writes may be too high, for a thread that was late in saying that
\* it writes never takes it back, but it is not too low.
CountedAtLeast == \A b \in Open : writesPending[b] >= Cardinality(Counted(b))

\* While a thread has the mutex no other has more to do there than write its header.
LockedFirst ==
  \A t, u \in Thread : t # u /\ pc[t] \in Locking /\ u \in Counted(buf[t]) => pc[u] = "header"

DroppedGone == DroppedDataInUse /\ \A t \in Thread, e \in SeqID : dropped[<<t, e>>] > 0 => Gone(e)

\* The requests, with what keeps the events of several completed buffers apart.
RequestsKept ==
  /\ OpenEventsRequested
  /\ \A t \in Thread : pc[t] = "unrequest" => event[t] \in released
  /\ \A t, u \in Thread : pc[t] = "unrequest" /\ pc[u] = "unrequest" /\ event[t] = event[u] => t = u

TimeoutInv ==
  /\ TypeInv /\ NeverTold /\ EventsSent /\ MemoryBooked /\ LocksHeld /\ LockedEvent /\ ClaimNew
  /\ ActiveNotReleased /\ PendingLocked /\ GivenGone /\ OpenOrGone /\ HeldOpen
  /\ CountedAtLeast /\ LockedFirst /\ DroppedGone /\ RequestsKept
-----------------------------------------------------------------------------
\* What most steps of a thread leave as it is: the memory and the lists.
BooksStay ==
  UNCHANGED <<seqLock, sem, hdrSeq, active, pending, released, incomplete, timesReleased>>

\* When they stay, so does which events are open and which are gone.
LEMMA GoneSame ==
  ASSUME BooksStay
  PROVE  Open' = Open /\ (\A e : Gone(e)' = Gone(e)) /\ (\A e : AlreadyReleased(e)' = AlreadyReleased(e))
BY DEF BooksStay, Open, Gone, AlreadyReleased

\* What such a step of a thread keeps, wherever it is in DoneWritingFragment.
LEMMA BooksStayKeeps ==
  ASSUME TimeoutInv, TypeInv', NEW t \in Thread, OtherThreads(t), BooksStay,
         pc[t] # "init", pc'[t] # "init", UNCHANGED drop,
         pc'[t] \in OnWay => InBuffer(t)' \/ Gone(event[t])',
         pc'[t] \in Held => InBuffer(t)'
  PROVE  /\ NeverTold' /\ EventsSent' /\ MemoryBooked' /\ ClaimNew' /\ ActiveNotReleased'
         /\ GivenGone' /\ OpenOrGone' /\ HeldOpen'
<1> USE DEF BooksStay
<1>a. TypeInv /\ MemoryBooked /\ LocksHeld
  BY DEF TimeoutInv
<1>b. /\ pc[t] # "init" /\ pc'[t] # "init"
      /\ \A u \in Thread \ {t} : pc'[u] = pc[u] /\ event'[u] = event[u] /\ buf'[u] = buf[u]
  BY DEF OtherThreads
<1>1. NeverTold'
  BY DEF TimeoutInv, NeverTold
<1>2. EventsSent'
  BY GoneSame DEF TimeoutInv, EventsSent
<1>3. MemoryBooked'
  <2>1. seqLock # NoThread => seqLock \in Thread /\ pc[seqLock] = "init"
    BY <1>a, FlatTypes DEF LocksHeld
  <2>2. seqLock # NoThread => buf'[seqLock] = buf[seqLock]
    BY <1>b, <2>1
  <2>3. BuffersBooked'
    BY <1>a, <2>2, GoneSame DEF MemoryBooked, BuffersBooked
  <2> QED
    BY <1>a, <2>3, GoneSame DEF MemoryBooked, OneBufferPerEvent
<1>4. ClaimNew'
  <2> SUFFICES ASSUME NEW u \in Thread, pc'[u] = "init"
               PROVE  /\ buf'[u] \notin Open' /\ ~AlreadyReleased(event[u])'
                      /\ \A b \in Open' : hdrSeq'[b] # event'[u]
    BY DEF ClaimNew
  <2>1. u # t /\ pc[u] = "init" /\ buf'[u] = buf[u] /\ event'[u] = event[u]
    BY <1>b
  <2>2. AlreadyReleased(event[u])' = AlreadyReleased(event[u])
    BY <2>1 DEF AlreadyReleased
  <2> QED
    BY <2>1, <2>2, GoneSame DEF TimeoutInv, ClaimNew
<1>5. ActiveNotReleased'
  BY DEF TimeoutInv, ActiveNotReleased, AlreadyReleased
<1>6. GivenGone'
  BY GoneSame DEF TimeoutInv, GivenGone
<1>7. ASSUME NEW u \in Thread, u # t
      PROVE  InBuffer(u)' = InBuffer(u) /\ Gone(event[u])' = Gone(event[u]) /\ pc'[u] = pc[u]
  BY <1>b, <1>7 DEF InBuffer, Open, Gone, AlreadyReleased
<1>8. OpenOrGone'
  BY <1>7 DEF TimeoutInv, OpenOrGone
<1>9. HeldOpen'
  BY <1>7 DEF TimeoutInv, HeldOpen
<1> QED
  BY <1>1, <1>2, <1>3, <1>4, <1>5, <1>6, <1>8, <1>9

\* No request comes or goes, and the thread has none to remove.
LEMMA RequestsStayKeep ==
  ASSUME TimeoutInv, NEW t \in Thread, OtherThreads(t), BooksStay, UNCHANGED requests,
         pc[t] # "unrequest", pc'[t] # "unrequest"
  PROVE  RequestsKept'
<1>1. \A u \in Thread : pc'[u] = "unrequest" => u # t /\ pc[u] = "unrequest" /\ event'[u] = event[u]
  BY DEF OtherThreads
<1>2. Unrequested' = Unrequested
  BY UnrequestedSame
<1>3. OpenEventsRequested'
  BY <1>2 DEF TimeoutInv, RequestsKept, OpenEventsRequested, Unrequested, BooksStay
<1> QED
  BY <1>1, <1>3 DEF TimeoutInv, RequestsKept, BooksStay

\* What a step keeps that neither takes nor gives back the mutex of a buffer.
LEMMA LocksStayKeep ==
  ASSUME TimeoutInv, TypeInv', NEW t \in Thread, OtherThreads(t), BooksStay, UNCHANGED bufLock,
         pc[t] \notin Locking \cup {"init"}, pc'[t] \notin Locking \cup {"init"},
         /\ pc'[t] \in OnWay \ {"reserve", "header"} /\ buf'[t] \in Buf /\ event'[t] = hdrSeq[buf'[t]]
         => \/ bufLock[buf'[t]] = NoThread
            \/ pc[t] \in OnWay \ {"reserve", "header"} /\ buf'[t] = buf[t] /\ event'[t] = event[t]
  PROVE  LocksHeld' /\ LockedEvent' /\ PendingLocked' /\ LockedFirst'
<1> USE DEF BooksStay
<1>a. TypeInv /\ LocksHeld /\ LockedEvent /\ PendingLocked /\ LockedFirst
  BY DEF TimeoutInv
<1>b. \A u \in Thread \ {t} : pc'[u] = pc[u] /\ event'[u] = event[u] /\ buf'[u] = buf[u]
  BY DEF OtherThreads
<1>c. \A u \in Thread : pc'[u] \in Locking \/ pc[u] \in Locking =>
        u # t /\ pc'[u] = pc[u] /\ buf'[u] = buf[u] /\ event'[u] = event[u] /\ buf[u] \in Buf
  BY <1>a, <1>b, FlatTypes DEF Locking, AtBuffer
<1>d. \A b \in Buf : bufLock[b] # NoThread =>
        bufLock[b] \in Thread /\ buf[bufLock[b]] = b /\ pc[bufLock[b]] \in Locking
  BY <1>a, FlatTypes DEF LocksHeld
<1>1. LocksHeld'
  <2>1. \A u \in Thread : pc'[u] = "init" <=> seqLock' = u
    BY <1>a, <1>b DEF LocksHeld
  <2>2. \A u \in Thread : pc'[u] \in Locking => bufLock'[buf'[u]] = u
    BY <1>a, <1>c DEF LocksHeld
  <2>3. \A b \in Buf : bufLock'[b] # NoThread => buf'[bufLock'[b]] = b /\ pc'[bufLock'[b]] \in Locking
    BY <1>c, <1>d
  <2> QED
    BY <2>1, <2>2, <2>3 DEF LocksHeld, Locking
<1>2. LockedEvent'
  BY <1>a, <1>c DEF LockedEvent
<1>3. PendingLocked'
  <2>1. pending \subseteq Buf
    BY <1>a, FlatTypes
  <2>2. ASSUME NEW b \in pending
        PROVE  bufLock[b] # NoThread /\ pc'[bufLock[b]] \in {"unrequest", "check"}
    BY <1>a, <1>c, <1>d, <2>1 DEF PendingLocked
  <2> QED
    BY <1>a, <2>2 DEF PendingLocked
<1>4. LockedFirst'
  <2> SUFFICES ASSUME NEW v \in Thread, NEW u \in Thread, v # u, pc'[v] \in Locking,
                      u \in Counted(buf[v])'
               PROVE  pc'[u] = "header"
    BY DEF LockedFirst
  <2>1. v # t /\ pc[v] \in Locking /\ buf'[v] = buf[v] /\ buf[v] \in Buf /\ bufLock[buf[v]] = v
    BY <1>a, <1>c DEF LocksHeld
  <2>2. buf'[u] = buf[v] /\ event'[u] = hdrSeq[buf[v]] /\ pc'[u] \in OnWay \ {"reserve"}
    BY <2>1 DEF Counted
  <2>3. v # NoThread
    BY ConstantsAssumption
  <2>4. CASE u # t
    <3>1. u \in Counted(buf[v])
      BY <1>b, <2>2, <2>4 DEF Counted
    <3> QED
      BY <1>a, <1>b, <2>1, <2>4, <3>1 DEF LockedFirst
  <2>5. CASE u = t /\ pc'[t] # "header"
    <3>1. pc[t] \in OnWay \ {"reserve", "header"} /\ buf'[t] = buf[t] /\ event'[t] = event[t]
      BY <2>1, <2>2, <2>3, <2>5
    <3>2. t \in Counted(buf[v])
      BY <2>2, <2>5, <3>1 DEF Counted
    <3> QED
      BY <1>a, <2>1, <3>1, <3>2 DEF LockedFirst
  <2> QED
    BY <2>4, <2>5
<1> QED
  BY <1>1, <1>2, <1>3, <1>4

\* Nothing is said of a write, and none is taken back.
LEMMA CountsStayKeep ==
  ASSUME TimeoutInv, TypeInv', NEW t \in Thread, OtherThreads(t), Open' \subseteq Open,
         UNCHANGED <<hdrSeq, writesPending>>,
         \A b \in Open : t \in Counted(b)' => t \in Counted(b)
  PROVE  CountedAtLeast'
<1> SUFFICES ASSUME NEW b \in Open
             PROVE  writesPending[b] >= Cardinality(Counted(b)')
  BY DEF CountedAtLeast
<1>1. Counted(b)' \subseteq Counted(b)
  BY DEF Counted, OtherThreads
<1>2. IsFiniteSet(Counted(b))
  BY FinitenessAssumption, FS_Subset DEF Counted
<1>3. Cardinality(Counted(b)') <= Cardinality(Counted(b))
        /\ Cardinality(Counted(b)') \in Nat /\ Cardinality(Counted(b)) \in Nat
  BY <1>1, <1>2, FS_Subset, FS_CardinalityType
<1>4. writesPending[b] >= Cardinality(Counted(b)) /\ writesPending[b] \in Int
  BY FlatTypes DEF TimeoutInv, CountedAtLeast, Open
<1> QED
  BY <1>3, <1>4

\* No Fragment is dropped or forgotten, and the thread has none it is to forget.
LEMMA DropsStayKeep ==
  ASSUME TimeoutInv, TypeInv', NEW t \in Thread, OtherThreads(t), BooksStay, UNCHANGED dropped,
         \/ \A e \in SeqID : dropped[<<t, e>>] = 0
         \/ pc'[t] \in {"body", "done", "doneInvalid"} /\ event'[t] = event[t]
  PROVE  DroppedGone'
<1>1. DroppedGone /\ dropped \in [Thread \X SeqID -> Nat]
  BY DEF TimeoutInv, TypeInv, BooksTypeOK
<1> QED
  BY <1>1, GoneSame DEF DroppedGone, DroppedDataInUse, OtherThreads

\* A thread that is not between header and the end of its Fragment has dropped nothing.
LEMMA NothingDropped ==
  ASSUME TimeoutInv, NEW t \in Thread, pc[t] \notin {"body", "done", "doneInvalid"}
  PROVE  \A e \in SeqID : dropped[<<t, e>>] = 0
BY DEF TimeoutInv, TypeInv, BooksTypeOK, DroppedGone, DroppedDataInUse

\* A step that takes no mutex and says nothing of a write, put together from the above.
LEMMA LightStep ==
  ASSUME TimeoutInv, TypeInv', NEW t \in Thread, OtherThreads(t), BooksStay,
         UNCHANGED <<drop, bufLock, writesPending, requests, dropped>>,
         pc[t] \notin Locking \cup {"init"}, pc'[t] \notin Locking \cup {"init"},
         pc'[t] \in OnWay => InBuffer(t)' \/ Gone(event[t])',
         pc'[t] \in Held => InBuffer(t)',
         /\ pc'[t] \in OnWay \ {"reserve", "header"} /\ buf'[t] \in Buf /\ event'[t] = hdrSeq[buf'[t]]
         => \/ bufLock[buf'[t]] = NoThread
            \/ pc[t] \in OnWay \ {"reserve", "header"} /\ buf'[t] = buf[t] /\ event'[t] = event[t],
         \A b \in Open : t \in Counted(b)' => t \in Counted(b),
         \/ pc[t] \notin {"body", "done", "doneInvalid"}
         \/ \A e \in SeqID : dropped[<<t, e>>] = 0
         \/ pc'[t] \in {"body", "done", "doneInvalid"} /\ event'[t] = event[t]
  PROVE  TimeoutInv'
<1>1. /\ NeverTold' /\ EventsSent' /\ MemoryBooked' /\ ClaimNew' /\ ActiveNotReleased'
      /\ GivenGone' /\ OpenOrGone' /\ HeldOpen'
  BY BooksStayKeeps
<1>2. LocksHeld' /\ LockedEvent' /\ PendingLocked' /\ LockedFirst'
  BY LocksStayKeep
<1>3. CountedAtLeast'
  BY CountsStayKeep, GoneSame DEF BooksStay
<1>4. DroppedGone'
  BY DropsStayKeep, NothingDropped
<1>5. RequestsKept'
  BY RequestsStayKeep DEF Locking
<1> QED
  BY <1>1, <1>2, <1>3, <1>4, <1>5 DEF TimeoutInv

\* The next header: the thread has nothing to do with a buffer.
LEMMA ReceiveHeaderKeepsBooks ==
  ASSUME Remembering, TimeoutInv, TypeInv', NEW t \in Thread, ReceiveHeader(t)
  PROVE  TimeoutInv'
<1> USE DEF threadVars, lockVars, shmVars, bookVars
<1>1. TypeInv /\ NeverTold
  BY DEF TimeoutInv
<1>2. /\ pc[t] = "recv" /\ pc'[t] = "lookup" /\ OtherThreads(t) /\ BooksStay
      /\ UNCHANGED <<drop, bufLock, writesPending, requests, dropped>>
  BY <1>1, FlatTypes DEF ReceiveHeader, TakeHeader, Goto, OtherThreads, BooksStay, NeverTold
<1> QED
  BY <1>2, LightStep DEF OnWay, Held, Locking, Counted

\* A buffer that is found carries the event of the thread.
LEMMA LookupFoundKeepsBooks ==
  ASSUME Remembering, TimeoutInv, TypeInv', NEW t \in Thread, LookupFound(t)
  PROVE  TimeoutInv'
<1> USE DEF threadVars, lockVars, shmVars, bookVars
<1>1. TypeInv /\ BuffersBooked
  BY DEF TimeoutInv, MemoryBooked
<1>2. PICK b \in Holding(event[t]) : buf' = [buf EXCEPT ![t] = b]
  BY DEF LookupFound
<1>3. b \in Open /\ hdrSeq[b] = event[t]
  BY <1>1, <1>2, FlatTypes, ConstantsAssumption DEF LookupFound, Holding, BuffersBooked
<1>4. /\ pc[t] = "lookup" /\ pc'[t] = "reserve" /\ buf'[t] = b /\ OtherThreads(t) /\ BooksStay
      /\ UNCHANGED <<event, drop, bufLock, writesPending, requests, dropped>>
  BY <1>1, <1>2, FlatTypes DEF LookupFound, Goto, OtherThreads, BooksStay
<1>5. InBuffer(t)'
  BY <1>3, <1>4, GoneSame DEF InBuffer, BooksStay
<1> QED
  BY <1>4, <1>5, LightStep DEF OnWay, Held, Locking, Counted

\* The thread goes on from one step to the next with the event and the buffer it has.
LEMMA OnWithBuffer ==
  ASSUME TimeoutInv, TypeInv', NEW t \in Thread, OtherThreads(t), BooksStay,
         UNCHANGED <<event, buf, drop, bufLock, writesPending, requests, dropped>>,
         pc[t] \in OnWay \ (Locking \cup {"reserve"}),
         pc'[t] \notin Locking \cup {"init", "reserve", "header"},
         pc'[t] \in Held => pc[t] \in Held,
         pc[t] = "header" => bufLock[buf[t]] = NoThread,
         pc[t] \in {"body", "done", "doneInvalid"} => pc'[t] \in {"body", "done", "doneInvalid"}
  PROVE  TimeoutInv'
<1>1. pc'[t] \in Held => InBuffer(t)'
  BY GoneSame DEF TimeoutInv, HeldOpen, InBuffer, BooksStay
<1>2. pc'[t] \in OnWay => InBuffer(t)' \/ Gone(event[t])'
  <2>1. InBuffer(t) \/ Gone(event[t])
    BY DEF TimeoutInv, OpenOrGone
  <2>2. InBuffer(t)' = InBuffer(t) /\ Gone(event[t])' = Gone(event[t])
    BY DEF InBuffer, Open, BooksStay, Gone, AlreadyReleased
  <2> QED
    BY <2>1, <2>2
<1>3. \A b \in Open : t \in Counted(b)' => t \in Counted(b)
  BY DEF Counted, BooksStay
<1>4. pc[t] = "header" \/ pc[t] \in OnWay \ {"reserve", "header"}
  OBVIOUS
<1>5. pc[t] \notin Locking \cup {"init"} /\ pc'[t] \notin Locking \cup {"init"}
  BY DEF OnWay, Locking
<1> QED
  BY <1>1, <1>2, <1>3, <1>4, <1>5, LightStep

LEMMA WriteHeaderKeepsBooks ==
  ASSUME Remembering, TimeoutInv, TypeInv', NEW t \in Thread, WriteHeader(t) \/ WriteHeaderThrows(t)
  PROVE  TimeoutInv'
<1> USE DEF threadVars, lockVars, shmVars, bookVars
<1>1. TypeInv /\ ~drop[t] /\ drop \in [Thread -> BOOLEAN]
  BY DEF TimeoutInv, NeverTold, TypeInv, ThreadInv, ThreadTypeOK
<1>2. /\ pc[t] = "header" /\ pc'[t] \in {"body", "threw"} /\ bufLock[buf[t]] = NoThread
      /\ OtherThreads(t) /\ BooksStay
      /\ UNCHANGED <<event, buf, drop, bufLock, writesPending, requests, dropped>>
  BY <1>1, FlatTypes
     DEF WriteHeader, WriteHeaderThrows, WriteReturned, Goto, OtherThreads, BooksStay, Remembering
<1> QED
  BY <1>2, OnWithBuffer DEF OnWay, Held, Locking

LEMMA ReceiveBodyKeepsBooks ==
  ASSUME Remembering, TimeoutInv, TypeInv', NEW t \in Thread, ReceiveBody(t) \/ ReceiveBodyFails(t)
  PROVE  TimeoutInv'
<1> USE DEF threadVars, lockVars, shmVars, bookVars
<1>1. TypeInv
  BY DEF TimeoutInv
<1>2. /\ pc[t] = "body" /\ pc'[t] \in {"done", "doneInvalid"} /\ OtherThreads(t) /\ BooksStay
      /\ UNCHANGED <<event, buf, drop, bufLock, writesPending, requests, dropped>>
  BY <1>1, FlatTypes DEF ReceiveBody, ReceiveBodyFails, Goto, OtherThreads, BooksStay
<1> QED
  BY <1>2, OnWithBuffer DEF OnWay, Held, Locking

LEMMA UpdateFragmentHeaderKeepsBooks ==
  ASSUME Remembering, TimeoutInv, TypeInv', NEW t \in Thread, UpdateFragmentHeader(t)
  PROVE  TimeoutInv'
<1> USE DEF threadVars, lockVars, shmVars, bookVars
<1>1. TypeInv
  BY DEF TimeoutInv
<1>2. /\ pc[t] = "update" /\ pc'[t] = "finish" /\ OtherThreads(t) /\ BooksStay
      /\ UNCHANGED <<event, buf, drop, bufLock, writesPending, requests, dropped>>
  BY <1>1, FlatTypes DEF UpdateFragmentHeader, Goto, OtherThreads, BooksStay
<1> QED
  BY <1>2, OnWithBuffer DEF OnWay, Held, Locking

\* A buffer that is found for an event in hand is the one the thread is in.
LEMMA DoneFoundKeepsBooks ==
  ASSUME Remembering, TimeoutInv, TypeInv', NEW t \in Thread, DoneFound(t)
  PROVE  TimeoutInv'
<1> USE DEF threadVars, lockVars, shmVars, bookVars
<1>1. TypeInv /\ BuffersBooked /\ OneBufferPerEvent
  BY DEF TimeoutInv, MemoryBooked
<1>2. PICK b \in Holding(event[t]) : buf' = [buf EXCEPT ![t] = b]
  BY DEF DoneFound
<1>3. b \in Open /\ hdrSeq[b] = event[t]
  BY <1>1, <1>2, FlatTypes, ConstantsAssumption DEF DoneFound, Holding, BuffersBooked
<1>4. pc[t] \in {"done", "doneInvalid"} /\ pc'[t] \in {"finish", "update"}
  BY <1>1, FlatTypes DEF DoneFound, Goto
<1>5. ~Gone(event[t]) /\ InBuffer(t)
  BY <1>3, <1>4 DEF Gone, TimeoutInv, OpenOrGone, OnWay
<1>6. b = buf[t]
  BY <1>1, <1>3, <1>5 DEF InBuffer, OneBufferPerEvent
<1>7. /\ OtherThreads(t) /\ BooksStay
      /\ UNCHANGED <<event, buf, drop, bufLock, writesPending, requests, dropped>>
  BY <1>1, <1>2, <1>6, FlatTypes DEF DoneFound, Goto, OtherThreads, BooksStay
<1>8. InBuffer(t)'
  BY <1>5, <1>7, GoneSame DEF InBuffer, BooksStay
<1>9. \A e \in SeqID : dropped[<<t, e>>] = 0
  BY <1>5 DEF TimeoutInv, TypeInv, BooksTypeOK, DroppedGone, DroppedDataInUse
<1>10. \A a \in Open : t \in Counted(a)' => t \in Counted(a)
  BY <1>4, <1>7 DEF Counted, BooksStay, OnWay
<1> QED
  BY <1>4, <1>7, <1>8, <1>9, <1>10, LightStep DEF OnWay, Locking

\* While nobody is initialising a buffer, the buffers of the events on the books are those
\* a thread finds.
LEMMA HoldingOpen ==
  ASSUME TimeoutInv, seqLock = NoThread, NEW e
  PROVE  Holding(e) = {b \in Open : hdrSeq[b] = e}
<1>1. BuffersBooked /\ Open \subseteq Buf
  BY FlatTypes DEF TimeoutInv, MemoryBooked, Open
<1> QED
  BY <1>1 DEF Holding, BuffersBooked

\* The dropped Fragment is noted, and its event is gone.
LEMMA LookupReleasedKeepsBooks ==
  ASSUME Remembering, TimeoutInv, TypeInv', NEW t \in Thread, LookupReleased(t)
  PROVE  TimeoutInv'
<1> USE DEF threadVars, lockVars, shmVars, bookVars
<1>1. TypeInv /\ ~drop[t] /\ drop \in [Thread -> BOOLEAN]
  BY DEF TimeoutInv, NeverTold, TypeInv, ThreadInv, ThreadTypeOK
<1>2. /\ pc[t] = "lookup" /\ pc'[t] = "body" /\ buf'[t] = NoBuf /\ OtherThreads(t) /\ BooksStay
      /\ UNCHANGED <<event, drop, bufLock, writesPending, requests>> /\ Drop(t) /\ event[t] \in SeqID
  BY <1>1, FlatTypes DEF LookupReleased, WriteReturned, Goto, OtherThreads, BooksStay, Remembering
<1>3. Gone(event[t])
  BY HoldingOpen DEF LookupReleased, Gone
<1>4. NoBuf \notin Buf /\ \A e : Gone(e)' = Gone(e)
  BY <1>2, ConstantsAssumption, GoneSame
<1>5. Gone(event[t])'
  BY <1>2, <1>3 DEF Gone, Open, AlreadyReleased, BooksStay
<1>6. /\ NeverTold' /\ EventsSent' /\ MemoryBooked' /\ ClaimNew' /\ ActiveNotReleased'
      /\ GivenGone' /\ OpenOrGone' /\ HeldOpen'
  BY <1>2, <1>5, BooksStayKeeps DEF Held
<1>7. LocksHeld' /\ LockedEvent' /\ PendingLocked' /\ LockedFirst'
  BY <1>2, <1>4, LocksStayKeep DEF Locking
<1>8. CountedAtLeast'
  <2>1. \A b \in Open : t \notin Counted(b)'
    BY <1>1, <1>2, <1>4, FlatTypes DEF Counted, Open
  <2> QED
    BY <1>2, <2>1, CountsStayKeep, GoneSame DEF BooksStay
<1>9. RequestsKept'
  BY <1>2, RequestsStayKeep
<1>10. DroppedGone'
  <2>1. dropped \in [Thread \X SeqID -> Nat] /\ <<t, event[t]>> \in Thread \X SeqID
    BY <1>1, <1>2 DEF TypeInv, BooksTypeOK
  <2>2. \A e \in SeqID : dropped[<<t, e>>] = 0
    BY <1>2, NothingDropped
  <2>3. dropped'[<<t, event[t]>>] = 1
    BY <1>2, <2>1, <2>2 DEF Drop
  <2>4. \A u \in Thread, e \in SeqID :
          u # t \/ e # event[t] => dropped'[<<u, e>>] = dropped[<<u, e>>]
    BY <1>2, <2>1 DEF Drop
  <2>5. \A u \in Thread, e \in SeqID : dropped'[<<u, e>>] > 0 =>
          /\ dropped'[<<u, e>>] = 1 /\ pc'[u] \in {"body", "done", "doneInvalid"} /\ event'[u] = e
          /\ Gone(e)
    <3> SUFFICES ASSUME NEW u \in Thread, NEW e \in SeqID, dropped'[<<u, e>>] > 0
                 PROVE  /\ dropped'[<<u, e>>] = 1 /\ pc'[u] \in {"body", "done", "doneInvalid"}
                        /\ event'[u] = e /\ Gone(e)
      OBVIOUS
    <3>1. CASE u = t
      BY <1>2, <1>3, <2>2, <2>3, <2>4, <3>1
    <3>2. CASE u # t
      BY <1>2, <2>4, <3>2 DEF TimeoutInv, DroppedGone, DroppedDataInUse, OtherThreads
    <3> QED
      BY <3>1, <3>2
  <2> QED
    BY <1>4, <2>5 DEF DroppedGone, DroppedDataInUse
<1> QED
  BY <1>6, <1>7, <1>8, <1>9, <1>10 DEF TimeoutInv

\* The dropped Fragment, whose event has no buffer, is forgotten.
LEMMA DoneDroppedKeepsBooks ==
  ASSUME Remembering, TimeoutInv, TypeInv', NEW t \in Thread, DoneDropped(t)
  PROVE  TimeoutInv'
<1> USE DEF threadVars, lockVars, shmVars, bookVars
<1>1. TypeInv
  BY DEF TimeoutInv
<1>2. /\ pc[t] \in {"done", "doneInvalid"} /\ pc'[t] \in {"recv", "threw"} /\ OtherThreads(t) /\ BooksStay
      /\ UNCHANGED <<event, buf, drop, bufLock, writesPending, requests>> /\ ForgetDropped(t)
      /\ event[t] \in SeqID
  BY <1>1, FlatTypes DEF DoneDropped, Goto, OtherThreads, BooksStay
<1>3. \A e : Gone(e)' = Gone(e)
  BY <1>2, GoneSame
<1>4. /\ NeverTold' /\ EventsSent' /\ MemoryBooked' /\ ClaimNew' /\ ActiveNotReleased'
      /\ GivenGone' /\ OpenOrGone' /\ HeldOpen'
  BY <1>2, BooksStayKeeps DEF OnWay, Held, Locking
<1>5. LocksHeld' /\ LockedEvent' /\ PendingLocked' /\ LockedFirst'
  BY <1>2, LocksStayKeep DEF OnWay, Locking
<1>6. CountedAtLeast'
  BY <1>2, CountsStayKeep, GoneSame DEF BooksStay, Counted, OnWay, Locking
<1>7. RequestsKept'
  BY <1>2, RequestsStayKeep
<1>8. DroppedGone'
  <2>1. dropped \in [Thread \X SeqID -> Nat] /\ <<t, event[t]>> \in Thread \X SeqID
    BY <1>1, <1>2 DEF TypeInv, BooksTypeOK
  <2>2. DroppedDataInUse
    BY DEF TimeoutInv, DroppedGone
  <2>3. dropped'[<<t, event[t]>>] = 0
    BY <1>2, <2>1, <2>2 DEF ForgetDropped, DroppedDataInUse
  <2>4. \A u \in Thread, e \in SeqID :
          u # t \/ e # event[t] => dropped'[<<u, e>>] = dropped[<<u, e>>]
    BY <1>2, <2>1 DEF ForgetDropped
  <2>5. \A u \in Thread, e \in SeqID : dropped'[<<u, e>>] > 0 =>
          u # t /\ dropped'[<<u, e>>] = dropped[<<u, e>>]
    BY <2>2, <2>3, <2>4 DEF DroppedDataInUse
  <2>6. \A u \in Thread, e \in SeqID : dropped'[<<u, e>>] > 0 =>
          /\ dropped'[<<u, e>>] = 1 /\ pc'[u] \in {"body", "done", "doneInvalid"} /\ event'[u] = e
          /\ Gone(e)
    BY <1>2, <2>5 DEF TimeoutInv, DroppedGone, DroppedDataInUse, OtherThreads
  <2> QED
    BY <1>3, <2>6 DEF DroppedGone, DroppedDataInUse
<1> QED
  BY <1>4, <1>5, <1>6, <1>7, <1>8 DEF TimeoutInv

\* A write that is said of counts one writer more at most.
LEMMA ReserveKeepsBooks ==
  ASSUME Remembering, TimeoutInv, TypeInv', NEW t \in Thread, Reserve(t)
  PROVE  TimeoutInv'
<1> USE DEF threadVars, lockVars, shmVars, bookVars
<1>1. TypeInv
  BY DEF TimeoutInv
<1>2. /\ pc[t] = "reserve" /\ pc'[t] = "header" /\ OtherThreads(t) /\ BooksStay /\ buf[t] \in Buf
      /\ UNCHANGED <<event, buf, drop, bufLock, requests, dropped>>
      /\ writesPending' = [writesPending EXCEPT ![buf[t]] = @ + 1]
  BY <1>1, FlatTypes DEF Reserve, Goto, OtherThreads, BooksStay, AtBuffer
<1>3. InBuffer(t)' \/ Gone(event[t])'
  <2>1. InBuffer(t) \/ Gone(event[t])
    BY <1>2 DEF TimeoutInv, OpenOrGone, OnWay
  <2>2. InBuffer(t)' = InBuffer(t) /\ Gone(event[t])' = Gone(event[t])
    BY <1>2 DEF InBuffer, Open, BooksStay, Gone, AlreadyReleased
  <2> QED
    BY <2>1, <2>2
<1>4. /\ NeverTold' /\ EventsSent' /\ MemoryBooked' /\ ClaimNew' /\ ActiveNotReleased'
      /\ GivenGone' /\ OpenOrGone' /\ HeldOpen'
  BY <1>2, <1>3, BooksStayKeeps DEF Held
<1>5. LocksHeld' /\ LockedEvent' /\ PendingLocked' /\ LockedFirst'
  BY <1>2, LocksStayKeep DEF Locking
<1>6. CountedAtLeast'
  <2> SUFFICES ASSUME NEW b \in Open
               PROVE  writesPending'[b] >= Cardinality(Counted(b)')
    BY <1>2, GoneSame DEF CountedAtLeast
  <2>1. /\ writesPending \in [Buf -> Int] /\ b \in Buf /\ IsFiniteSet(Counted(b))
        /\ writesPending[b] >= Cardinality(Counted(b)) /\ Cardinality(Counted(b)) \in Nat
    BY <1>1, FlatTypes, FinitenessAssumption, FS_Subset, FS_CardinalityType
       DEF Counted, Open, TimeoutInv, CountedAtLeast
  <2>2. CASE b = buf[t]
    <3>1. Counted(b)' \subseteq Counted(b) \cup {t} /\ t \notin Counted(b)
      BY <1>2 DEF Counted, OtherThreads, BooksStay
    <3>2. Cardinality(Counted(b) \cup {t}) = Cardinality(Counted(b)) + 1
            /\ IsFiniteSet(Counted(b) \cup {t})
      BY <2>1, <3>1, FS_AddElement
    <3>3. Cardinality(Counted(b)') <= Cardinality(Counted(b)) + 1 /\ Cardinality(Counted(b)') \in Nat
      BY <3>1, <3>2, FS_Subset, FS_CardinalityType
    <3>4. writesPending'[b] = writesPending[b] + 1
      BY <1>2, <2>1, <2>2
    <3> QED
      BY <2>1, <3>3, <3>4
  <2>3. CASE b # buf[t]
    <3>1. Counted(b)' = Counted(b) /\ writesPending'[b] = writesPending[b]
      BY <1>2, <2>1, <2>3 DEF Counted, OtherThreads, BooksStay
    <3> QED
      BY <2>1, <3>1
  <2> QED
    BY <2>2, <2>3
<1>7. DroppedGone'
  BY <1>2, DropsStayKeep, NothingDropped
<1>8. RequestsKept'
  BY <1>2, RequestsStayKeep
<1> QED
  BY <1>4, <1>5, <1>6, <1>7, <1>8 DEF TimeoutInv

\* What is taken back was said by the thread, which is counted no longer.
LEMMA EndWriteKeeps ==
  ASSUME TimeoutInv, TypeInv', NEW t \in Thread, OtherThreads(t), BooksStay,
         pc[t] \in OnWay \ {"reserve"}, pc'[t] \notin OnWay, buf[t] \in Buf, hdrSeq[buf[t]] = event[t],
         writesPending' = [writesPending EXCEPT ![buf[t]] = @ - 1]
  PROVE  CountedAtLeast'
<1> SUFFICES ASSUME NEW b \in Open
             PROVE  writesPending'[b] >= Cardinality(Counted(b)')
  BY GoneSame DEF CountedAtLeast
<1>1. /\ writesPending \in [Buf -> Int] /\ b \in Buf /\ IsFiniteSet(Counted(b))
      /\ writesPending[b] >= Cardinality(Counted(b)) /\ Cardinality(Counted(b)) \in Nat
  BY FlatTypes, FinitenessAssumption, FS_Subset, FS_CardinalityType
     DEF Counted, Open, TimeoutInv, CountedAtLeast
<1>2. Counted(b)' = Counted(b) \ {t} /\ (t \in Counted(b) <=> b = buf[t])
  BY DEF Counted, OtherThreads, BooksStay
<1>3. Cardinality(Counted(b)') = IF b = buf[t] THEN Cardinality(Counted(b)) - 1 ELSE Cardinality(Counted(b))
  BY <1>1, <1>2, FS_RemoveElement
<1>4. writesPending'[b] = IF b = buf[t] THEN writesPending[b] - 1 ELSE writesPending[b]
  BY <1>1
<1> QED
  BY <1>1, <1>3, <1>4

LEMMA FinishEarlyKeepsBooks ==
  ASSUME Remembering, TimeoutInv, TypeInv', NEW t \in Thread, FinishEarly(t)
  PROVE  TimeoutInv'
<1> USE DEF threadVars, lockVars, shmVars, bookVars
<1>1. TypeInv
  BY DEF TimeoutInv
<1>2. /\ pc[t] = "finish" /\ pc'[t] = "recv" /\ OtherThreads(t) /\ BooksStay /\ buf[t] \in Buf
      /\ UNCHANGED <<event, buf, drop, bufLock, requests, dropped>>
      /\ writesPending' = [writesPending EXCEPT ![buf[t]] = @ - 1]
  BY <1>1, FlatTypes DEF FinishEarly, EndWrite, Goto, OtherThreads, BooksStay, AtBuffer
<1>3. hdrSeq[buf[t]] = event[t]
  BY <1>2 DEF TimeoutInv, HeldOpen, Held, InBuffer
<1>4. /\ NeverTold' /\ EventsSent' /\ MemoryBooked' /\ ClaimNew' /\ ActiveNotReleased'
      /\ GivenGone' /\ OpenOrGone' /\ HeldOpen'
  BY <1>2, BooksStayKeeps DEF OnWay, Held, Locking
<1>5. LocksHeld' /\ LockedEvent' /\ PendingLocked' /\ LockedFirst'
  BY <1>2, LocksStayKeep DEF OnWay, Locking
<1>6. CountedAtLeast'
  BY <1>2, <1>3, EndWriteKeeps DEF OnWay, Locking
<1>7. DroppedGone'
  BY <1>2, DropsStayKeep, NothingDropped
<1>8. RequestsKept'
  BY <1>2, RequestsStayKeep
<1> QED
  BY <1>4, <1>5, <1>6, <1>7, <1>8 DEF TimeoutInv

\* The last writer gives the mutex back; its buffer is not pending any longer.
LEMMA DoneUnlockKeepsBooks ==
  ASSUME Remembering, TimeoutInv, TypeInv', NEW t \in Thread, DoneUnlock(t)
  PROVE  TimeoutInv'
<1> USE DEF threadVars, lockVars, shmVars, bookVars
<1>1. TypeInv /\ LocksHeld /\ LockedEvent /\ PendingLocked /\ LockedFirst
  BY DEF TimeoutInv
<1>2. /\ pc[t] = "unlock" /\ pc'[t] = "recv" /\ OtherThreads(t) /\ BooksStay /\ buf[t] \in Buf
      /\ UNCHANGED <<event, buf, drop, requests, dropped>>
      /\ writesPending' = [writesPending EXCEPT ![buf[t]] = @ - 1]
      /\ bufLock' = [bufLock EXCEPT ![buf[t]] = NoThread]
  BY <1>1, FlatTypes DEF DoneUnlock, EndWrite, Goto, OtherThreads, BooksStay, AtBuffer
<1>3. hdrSeq[buf[t]] = event[t] /\ bufLock[buf[t]] = t
  BY <1>1, <1>2 DEF LockedEvent, LocksHeld, Locking
<1>4. /\ NeverTold' /\ EventsSent' /\ MemoryBooked' /\ ClaimNew' /\ ActiveNotReleased'
      /\ GivenGone' /\ OpenOrGone' /\ HeldOpen'
  BY <1>2, BooksStayKeeps DEF OnWay, Held, Locking
<1>5. \A u \in Thread : pc'[u] \in Locking => u # t /\ pc[u] \in Locking /\ buf[u] # buf[t]
        /\ pc'[u] = pc[u] /\ buf[u] \in Buf
  <2> SUFFICES ASSUME NEW u \in Thread, pc'[u] \in Locking
               PROVE  u # t /\ pc[u] \in Locking /\ buf[u] # buf[t] /\ pc'[u] = pc[u] /\ buf[u] \in Buf
    OBVIOUS
  <2>1. u # t
    BY <1>2 DEF Locking
  <2>2. pc'[u] = pc[u]
    BY <1>2, <2>1 DEF OtherThreads
  <2>3. bufLock[buf[u]] = u /\ buf[u] \in Buf
    BY <1>1, <2>2, FlatTypes DEF LocksHeld, Locking, AtBuffer
  <2> QED
    BY <1>3, <2>1, <2>2, <2>3
<1>6. LocksHeld'
  <2>1. \A u \in Thread : pc'[u] = "init" <=> seqLock' = u
    BY <1>1, <1>2 DEF LocksHeld, OtherThreads, BooksStay
  <2>2. \A u \in Thread : pc'[u] \in Locking => bufLock'[buf'[u]] = u
    BY <1>1, <1>2, <1>5, FlatTypes DEF LocksHeld
  <2>3. ASSUME NEW b \in Buf, bufLock'[b] # NoThread
        PROVE  buf'[bufLock'[b]] = b /\ pc'[bufLock'[b]] \in Locking
    <3>1. b # buf[t] /\ bufLock'[b] = bufLock[b]
      BY <1>1, <1>2, <2>3, FlatTypes
    <3>2. bufLock[b] \in Thread /\ buf[bufLock[b]] = b /\ pc[bufLock[b]] \in Locking
      BY <1>1, <2>3, <3>1, FlatTypes DEF LocksHeld
    <3> QED
      BY <1>2, <3>1, <3>2 DEF OtherThreads
  <2> QED
    BY <2>1, <2>2, <2>3 DEF LocksHeld, Locking
<1>7. LockedEvent'
  BY <1>1, <1>2, <1>5 DEF LockedEvent, BooksStay
<1>8. PendingLocked'
  <2>1. pending \subseteq Buf /\ pending' = pending
    BY <1>1, <1>2, FlatTypes DEF BooksStay
  <2>2. ASSUME NEW b \in pending
        PROVE  bufLock'[b] # NoThread /\ pc'[bufLock'[b]] \in {"unrequest", "check"}
    <3>1. bufLock[b] # NoThread /\ bufLock[b] \in Thread /\ pc[bufLock[b]] \in {"unrequest", "check"}
      BY <1>1, <2>1, FlatTypes DEF PendingLocked
    <3>2. b # buf[t] /\ bufLock[b] # t
      BY <1>2, <1>3, <3>1
    <3>3. bufLock'[b] = bufLock[b]
      BY <1>1, <1>2, <2>1, <3>2, FlatTypes
    <3> QED
      BY <1>2, <3>1, <3>2, <3>3 DEF OtherThreads
  <2> QED
    BY <1>1, <1>2, <2>1, <2>2 DEF PendingLocked, BooksStay
<1>9. LockedFirst'
  <2> SUFFICES ASSUME NEW v \in Thread, NEW u \in Thread, v # u, pc'[v] \in Locking,
                      u \in Counted(buf[v])'
               PROVE  pc'[u] = "header"
    BY DEF LockedFirst
  <2>1. v # t /\ pc[v] \in Locking /\ buf'[v] = buf[v]
    BY <1>2, <1>5
  <2>2. u # t
    BY <1>2 DEF Counted, OnWay, Locking
  <2>3. u \in Counted(buf[v])
    BY <1>2, <2>1, <2>2 DEF Counted, OtherThreads, BooksStay
  <2> QED
    BY <1>1, <1>2, <2>1, <2>2, <2>3 DEF LockedFirst, OtherThreads
<1>10. CountedAtLeast'
  BY <1>2, <1>3, EndWriteKeeps DEF OnWay, Locking
<1>11. DroppedGone'
  BY <1>2, DropsStayKeep, NothingDropped
<1>12. RequestsKept'
  BY <1>2, RequestsStayKeep
<1> QED
  BY <1>4, <1>6, <1>7, <1>8, <1>9, <1>10, <1>11, <1>12 DEF TimeoutInv

\* The thread that finds that nobody else writes is the only one that is counted.
LEMMA FinishLastKeepsBooks ==
  ASSUME Remembering, TimeoutInv, TypeInv', NEW t \in Thread, FinishLast(t)
  PROVE  TimeoutInv'
<1> USE DEF threadVars, lockVars, shmVars, bookVars
<1>1. TypeInv /\ LocksHeld /\ LockedEvent /\ PendingLocked /\ LockedFirst
  BY DEF TimeoutInv
<1>2. /\ pc[t] = "finish" /\ pc'[t] = "count" /\ OtherThreads(t) /\ BooksStay /\ buf[t] \in Buf
      /\ UNCHANGED <<event, buf, drop, writesPending, requests, dropped>>
      /\ bufLock[buf[t]] = NoThread /\ bufLock' = [bufLock EXCEPT ![buf[t]] = t]
      /\ writesPending[buf[t]] <= 1
  BY <1>1, FlatTypes DEF FinishLast, LastWriter, LockBuffer, Goto, OtherThreads, BooksStay, AtBuffer
<1>3. InBuffer(t) /\ InBuffer(t)'
  <2>1. InBuffer(t)
    BY <1>2 DEF TimeoutInv, HeldOpen, Held
  <2> QED
    BY <1>2, <2>1 DEF InBuffer, Open, BooksStay
<1>4. Counted(buf[t]) = {t}
  <2>1. t \in Counted(buf[t]) /\ IsFiniteSet(Counted(buf[t]))
    BY <1>2, <1>3, FinitenessAssumption, FS_Subset DEF Counted, InBuffer, OnWay
  <2>2. Cardinality(Counted(buf[t])) \in Nat /\ Cardinality(Counted(buf[t])) <= 1
    BY <1>1, <1>2, <1>3, <2>1, FlatTypes, FS_CardinalityType DEF TimeoutInv, CountedAtLeast, InBuffer
  <2>3. Cardinality(Counted(buf[t]) \ {t}) = Cardinality(Counted(buf[t])) - 1
          /\ IsFiniteSet(Counted(buf[t]) \ {t})
    BY <2>1, FS_RemoveElement
  <2>4. Cardinality(Counted(buf[t]) \ {t}) \in Nat
    BY <2>3, FS_CardinalityType
  <2>5. Cardinality(Counted(buf[t]) \ {t}) = 0
    BY <2>2, <2>3, <2>4
  <2>6. Counted(buf[t]) \ {t} = {}
    BY <2>3, <2>5, FS_EmptySet
  <2> QED
    BY <2>1, <2>6
<1>5. /\ NeverTold' /\ EventsSent' /\ MemoryBooked' /\ ClaimNew' /\ ActiveNotReleased'
      /\ GivenGone' /\ OpenOrGone' /\ HeldOpen'
  BY <1>2, <1>3, BooksStayKeeps
<1>6. \A u \in Thread : u # t /\ pc'[u] \in Locking =>
        pc[u] \in Locking /\ buf[u] # buf[t] /\ pc'[u] = pc[u] /\ buf[u] \in Buf
  BY <1>1, <1>2, FlatTypes, ConstantsAssumption DEF OtherThreads, LocksHeld, Locking, AtBuffer
<1>7. LocksHeld'
  <2>1. \A u \in Thread : pc'[u] = "init" <=> seqLock' = u
    BY <1>1, <1>2 DEF LocksHeld, OtherThreads, BooksStay
  <2>2. \A u \in Thread : pc'[u] \in Locking => bufLock'[buf'[u]] = u
    BY <1>1, <1>2, <1>6, FlatTypes DEF LocksHeld
  <2>3. ASSUME NEW b \in Buf, bufLock'[b] # NoThread
        PROVE  buf'[bufLock'[b]] = b /\ pc'[bufLock'[b]] \in Locking
    <3>1. CASE b = buf[t]
      BY <1>1, <1>2, <3>1, FlatTypes DEF Locking
    <3>2. CASE b # buf[t]
      <4>1. bufLock'[b] = bufLock[b]
        BY <1>1, <1>2, <3>2, FlatTypes
      <4>2. bufLock[b] \in Thread /\ buf[bufLock[b]] = b /\ pc[bufLock[b]] \in Locking
        BY <1>1, <2>3, <4>1, FlatTypes DEF LocksHeld
      <4> QED
        BY <1>2, <3>2, <4>1, <4>2 DEF OtherThreads
    <3> QED
      BY <3>1, <3>2
  <2> QED
    BY <2>1, <2>2, <2>3 DEF LocksHeld, Locking
<1>8. LockedEvent'
  BY <1>1, <1>2, <1>3, <1>6 DEF LockedEvent, BooksStay, InBuffer
<1>9. PendingLocked'
  <2>1. pending \subseteq Buf /\ pending' = pending
    BY <1>1, <1>2, FlatTypes DEF BooksStay
  <2>2. ASSUME NEW b \in pending
        PROVE  bufLock'[b] # NoThread /\ pc'[bufLock'[b]] \in {"unrequest", "check"}
    <3>1. bufLock[b] # NoThread /\ bufLock[b] \in Thread /\ pc[bufLock[b]] \in {"unrequest", "check"}
      BY <1>1, <2>1, FlatTypes DEF PendingLocked
    <3>2. b # buf[t] /\ bufLock[b] # t
      BY <1>2, <3>1
    <3>3. bufLock'[b] = bufLock[b]
      BY <1>1, <1>2, <2>1, <3>2, FlatTypes
    <3> QED
      BY <1>2, <3>1, <3>2, <3>3 DEF OtherThreads
  <2> QED
    BY <1>1, <1>2, <2>1, <2>2 DEF PendingLocked, BooksStay
<1>10. LockedFirst'
  <2> SUFFICES ASSUME NEW v \in Thread, NEW u \in Thread, v # u, pc'[v] \in Locking,
                      u \in Counted(buf[v])'
               PROVE  pc'[u] = "header"
    BY DEF LockedFirst
  <2>1. buf'[v] = buf[v]
    BY <1>2
  <2>2. u \in Counted(buf[v])
    BY <1>2, <2>1 DEF Counted, OtherThreads, BooksStay, OnWay, Locking
  <2>3. CASE v = t
    BY <1>4, <2>2, <2>3
  <2>4. CASE v # t
    <3>1. pc[v] \in Locking /\ buf[v] # buf[t]
      BY <1>6, <2>4
    <3>2. u # t
      BY <2>2, <3>1 DEF Counted
    <3> QED
      BY <1>1, <1>2, <2>2, <3>1, <3>2 DEF LockedFirst, OtherThreads
  <2> QED
    BY <2>3, <2>4
<1>11. CountedAtLeast'
  BY <1>2, CountsStayKeep, GoneSame DEF BooksStay, Counted, OnWay, Locking
<1>12. DroppedGone'
  BY <1>2, DropsStayKeep, NothingDropped
<1>13. RequestsKept'
  BY <1>2, RequestsStayKeep
<1> QED
  BY <1>5, <1>7, <1>8, <1>9, <1>10, <1>11, <1>12, <1>13 DEF TimeoutInv

\* A thread that has the mutex of its buffer goes on to the next step and keeps it.
LEMMA LockedMoveKeeps ==
  ASSUME TimeoutInv, NEW t \in Thread, OtherThreads(t), pc[t] \in Locking, pc'[t] \in Locking,
         UNCHANGED <<event, buf, bufLock, hdrSeq, seqLock>>
  PROVE  LocksHeld' /\ LockedEvent' /\ LockedFirst'
<1>1. TypeInv /\ LocksHeld /\ LockedEvent /\ LockedFirst
  BY DEF TimeoutInv
<1>2. \A u \in Thread : /\ pc'[u] = "init" <=> pc[u] = "init"
                        /\ pc'[u] \in Locking <=> pc[u] \in Locking
  BY DEF OtherThreads, Locking
<1>3. LocksHeld'
  <2>1. \A b \in Buf : bufLock[b] # NoThread => bufLock[b] \in Thread
    BY <1>1, FlatTypes
  <2> QED
    BY <1>1, <1>2, <2>1 DEF LocksHeld, Locking
<1>4. LockedEvent'
  BY <1>1, <1>2 DEF LockedEvent
<1>5. LockedFirst'
  <2> SUFFICES ASSUME NEW v \in Thread, NEW u \in Thread, v # u, pc'[v] \in Locking,
                      u \in Counted(buf[v])'
               PROVE  pc'[u] = "header"
    BY DEF LockedFirst
  <2>1. u \in Counted(buf[v]) /\ pc[v] \in Locking
    BY <1>2 DEF Counted, OtherThreads, OnWay, Locking
  <2>2. pc[u] = "header"
    BY <1>1, <2>1 DEF LockedFirst
  <2>3. u # t
    BY <2>2 DEF Locking
  <2> QED
    BY <2>2, <2>3 DEF OtherThreads
<1> QED
  BY <1>3, <1>4, <1>5

\* The thread that counts has its buffer open; a buffer that is not complete is checked next.
LEMMA CountFragmentsKeepsBooks ==
  ASSUME Remembering, TimeoutInv, TypeInv', NEW t \in Thread, CountFragments(t)
  PROVE  TimeoutInv'
<1> USE DEF threadVars, lockVars, shmVars, bookVars
<1>1. TypeInv /\ PendingLocked
  BY DEF TimeoutInv
<1>2. /\ pc[t] = "count" /\ pc'[t] \in {"complete", "check"} /\ OtherThreads(t) /\ BooksStay
      /\ UNCHANGED <<event, buf, drop, bufLock, writesPending, requests, dropped>>
  BY <1>1, FlatTypes DEF CountFragments, Goto, OtherThreads, BooksStay
<1>3. InBuffer(t)'
  <2>1. InBuffer(t)
    BY <1>2 DEF TimeoutInv, HeldOpen, Held
  <2> QED
    BY <1>2, <2>1 DEF InBuffer, Open, BooksStay
<1>4. /\ NeverTold' /\ EventsSent' /\ MemoryBooked' /\ ClaimNew' /\ ActiveNotReleased'
      /\ GivenGone' /\ OpenOrGone' /\ HeldOpen'
  BY <1>2, <1>3, BooksStayKeeps
<1>5. LocksHeld' /\ LockedEvent' /\ LockedFirst'
  BY <1>2, LockedMoveKeeps DEF BooksStay, Locking
<1>6. PendingLocked'
  <2>1. \A b \in pending : bufLock[b] \in Thread /\ bufLock[b] # t
    BY <1>1, <1>2, FlatTypes DEF PendingLocked
  <2> QED
    BY <1>1, <1>2, <2>1 DEF PendingLocked, OtherThreads, BooksStay
<1>7. CountedAtLeast'
  BY <1>2, CountsStayKeep, GoneSame DEF BooksStay, Counted, OnWay, Locking
<1>8. DroppedGone'
  BY <1>2, DropsStayKeep, NothingDropped
<1>9. RequestsKept'
  BY <1>2, RequestsStayKeep
<1> QED
  BY <1>4, <1>5, <1>6, <1>7, <1>8, <1>9 DEF TimeoutInv

\* The request that is removed is that of the thread's event, which nobody else waits for.
LEMMA RemoveRequestKeepsBooks ==
  ASSUME Remembering, TimeoutInv, TypeInv', NEW t \in Thread, RemoveRequest(t)
  PROVE  TimeoutInv'
<1> USE DEF threadVars, lockVars, shmVars, bookVars
<1>1. TypeInv /\ PendingLocked /\ LockedEvent /\ RequestsKept
  BY DEF TimeoutInv
<1>2. /\ pc[t] = "unrequest" /\ pc'[t] = "check" /\ OtherThreads(t) /\ BooksStay
      /\ UNCHANGED <<event, buf, drop, bufLock, writesPending, dropped>>
      /\ requests' = requests \ {hdrSeq[buf[t]]}
  BY <1>1, FlatTypes DEF RemoveRequest, Goto, OtherThreads, BooksStay
<1>3. InBuffer(t)' \/ Gone(event[t])'
  <2>1. InBuffer(t) \/ Gone(event[t])
    BY <1>2 DEF TimeoutInv, OpenOrGone, OnWay, Locking
  <2>2. InBuffer(t)' = InBuffer(t) /\ Gone(event[t])' = Gone(event[t])
    BY <1>2 DEF InBuffer, Open, BooksStay, Gone, AlreadyReleased
  <2> QED
    BY <2>1, <2>2
<1>4. /\ NeverTold' /\ EventsSent' /\ MemoryBooked' /\ ClaimNew' /\ ActiveNotReleased'
      /\ GivenGone' /\ OpenOrGone' /\ HeldOpen'
  BY <1>2, <1>3, BooksStayKeeps DEF Held
<1>5. LocksHeld' /\ LockedEvent' /\ LockedFirst'
  BY <1>2, LockedMoveKeeps DEF BooksStay, Locking
<1>6. PendingLocked'
  <2>1. \A b \in pending : bufLock[b] \in Thread
    BY <1>1, FlatTypes DEF PendingLocked
  <2> QED
    BY <1>1, <1>2, <2>1 DEF PendingLocked, OtherThreads, BooksStay
<1>7. CountedAtLeast'
  BY <1>2, CountsStayKeep, GoneSame DEF BooksStay, Counted, OnWay, Locking
<1>8. DroppedGone'
  BY <1>2, DropsStayKeep, NothingDropped
<1>9. RequestsKept'
  <2>1. \A u \in Thread : pc'[u] = "unrequest" => u # t /\ pc[u] = "unrequest"
    BY <1>2 DEF OtherThreads
  <2>2. hdrSeq[buf[t]] = event[t] /\ event[t] \in released
    BY <1>1, <1>2 DEF LockedEvent, Locking, RequestsKept
  <2>3. \A b \in active : hdrSeq[b] # event[t]
    BY <2>2 DEF TimeoutInv, ActiveNotReleased, AlreadyReleased
  <2>4. \A u \in Thread : pc'[u] = "unrequest" => hdrSeq[buf[u]] # event[t]
    BY <1>1, <1>2, <2>1 DEF LockedEvent, Locking, RequestsKept
  <2>5. Unrequested = Unrequested' \cup {buf[t]}
    BY <1>2 DEF Unrequested, OtherThreads
  <2>6. \A b \in Unrequested' : hdrSeq[b] # event[t]
    BY <1>2, <2>4 DEF Unrequested
  <2>7. requests = {hdrSeq[b] : b \in active \cup Unrequested}
    BY <1>1 DEF RequestsKept, OpenEventsRequested, Unrequested
  <2>8. requests' = {hdrSeq[b] : b \in active \cup Unrequested'}
    BY <1>2, <2>2, <2>3, <2>5, <2>6, <2>7
  <2>9. OpenEventsRequested'
    BY <1>2, <2>8 DEF OpenEventsRequested, Unrequested, BooksStay
  <2> QED
    BY <1>1, <1>2, <2>1, <2>9 DEF RequestsKept, BooksStay
<1> QED
  BY <1>4, <1>5, <1>6, <1>7, <1>8, <1>9 DEF TimeoutInv

\* The list of released events is long enough for all of them.
LEMMA TrimAll ==
  ASSUME Remembering, NEW S \in SUBSET SeqID
  PROVE  Trim(S) = S
<1>1. MaxSeq \in Nat /\ MaxEventList \in Nat /\ MaxSeq <= MaxEventList
  BY ConstantsAssumption DEF Remembering
<1>2. IsFiniteSet(SeqID) /\ Cardinality(SeqID) = MaxSeq
  BY <1>1, FS_Interval DEF SeqID
<1>3. ASSUME NEW e \in S
      PROVE  Cardinality({f \in S : f > e}) < MaxEventList
  <2>1. e \in SeqID /\ {f \in S : f > e} \subseteq SeqID \ {e}
    <3>1. e \in SeqID /\ e \in Nat
      BY DEF SeqID
    <3>2. ASSUME NEW f \in S, f > e PROVE f \in SeqID \ {e}
      BY <3>1, <3>2 DEF SeqID
    <3> QED
      BY <3>1, <3>2
  <2>2. IsFiniteSet(SeqID \ {e}) /\ Cardinality(SeqID \ {e}) = MaxSeq - 1
    BY <1>2, <2>1, FS_RemoveElement
  <2>3. Cardinality({f \in S : f > e}) <= MaxSeq - 1 /\ Cardinality({f \in S : f > e}) \in Nat
    BY <2>1, <2>2, FS_Subset, FS_CardinalityType
  <2> HIDE DEF SeqID
  <2> QED
    BY <1>1, <2>3
<1> QED
  BY <1>3 DEF Trim

\* The buffer of the event that is complete was active; now the event is released.
LEMMA CompleteBufferKeepsBooks ==
  ASSUME Remembering, TimeoutInv, TypeInv', NEW t \in Thread, CompleteBuffer(t)
  PROVE  TimeoutInv'
<1> USE DEF threadVars, lockVars, shmVars, bookVars
<1>1. /\ TypeInv /\ LocksHeld /\ LockedEvent /\ PendingLocked /\ ActiveNotReleased
      /\ MemoryBooked /\ EventsSent /\ RequestsKept
  BY DEF TimeoutInv
<1>2. /\ pc[t] = "complete" /\ pc'[t] = "unrequest" /\ OtherThreads(t) /\ seqLock = NoThread
      /\ UNCHANGED <<event, buf, drop, seqLock, bufLock, sem, hdrSeq, writesPending, incomplete,
                     requests, dropped, timesReleased>>
      /\ active' = active \ {buf[t]} /\ pending' = pending \cup {buf[t]}
      /\ released' = Trim(released \cup {hdrSeq[buf[t]]}) /\ buf[t] \in Buf
  BY <1>1, FlatTypes DEF CompleteBuffer, Goto, OtherThreads, AtBuffer
<1>3. InBuffer(t) /\ bufLock[buf[t]] = t
  BY <1>1, <1>2 DEF TimeoutInv, HeldOpen, Held, LocksHeld, Locking
<1>4. buf[t] \in active /\ buf[t] \notin pending /\ hdrSeq[buf[t]] = event[t]
  BY <1>1, <1>2, <1>3 DEF PendingLocked, InBuffer, Open
<1>5. event[t] \in SeqID /\ ~AlreadyReleased(event[t])
  BY <1>1, <1>3, <1>4 DEF EventsSent, InBuffer, ActiveNotReleased
<1>6. released' = released \cup {event[t]}
  BY <1>1, <1>2, <1>4, <1>5, TrimAll DEF EventsSent
<1>7. Open' = Open
  BY <1>2, <1>4 DEF Open
<1>8. \A e : Gone(e) => Gone(e)'
  BY <1>2, <1>6, <1>7 DEF Gone, AlreadyReleased
<1>9. \A u \in Thread : InBuffer(u)' = InBuffer(u) /\ (Gone(event[u]) => Gone(event[u])')
  BY <1>2, <1>6, <1>7 DEF InBuffer, Gone, AlreadyReleased
<1>10. NeverTold' /\ EventsSent'
  BY <1>1, <1>2, <1>5, <1>6, <1>7 DEF TimeoutInv, NeverTold, EventsSent
<1>11. MemoryBooked'
  <2>1. BuffersBooked'
    BY <1>1, <1>2, <1>4, <1>7 DEF MemoryBooked, BuffersBooked
  <2> QED
    BY <1>1, <1>2, <1>7, <2>1 DEF MemoryBooked, OneBufferPerEvent
<1>12. ClaimNew'
  BY <1>1, <1>2, ConstantsAssumption DEF LocksHeld, ClaimNew, OtherThreads
<1>13. ActiveNotReleased'
  <2>1. \A b \in active' : b \in active /\ hdrSeq[b] # event[t]
    BY <1>1, <1>2, <1>4 DEF MemoryBooked, OneBufferPerEvent, Open
  <2> QED
    BY <1>1, <1>2, <1>6, <2>1 DEF ActiveNotReleased, AlreadyReleased
<1>14. PendingLocked'
  <2>1. \A b \in pending : bufLock[b] \in Thread /\ bufLock[b] # t
    BY <1>1, <1>2, FlatTypes DEF PendingLocked
  <2>2. \A b \in pending : /\ hdrSeq[b] \in released' /\ hdrSeq[b] \notin incomplete
                           /\ bufLock[b] # NoThread /\ pc'[bufLock[b]] \in {"unrequest", "check"}
    BY <1>1, <1>2, <1>6, <2>1 DEF PendingLocked, OtherThreads
  <2>3. t # NoThread
    BY ConstantsAssumption
  <2> QED
    BY <1>2, <1>3, <1>4, <1>5, <1>6, <2>2, <2>3 DEF PendingLocked, AlreadyReleased
<1>15. GivenGone'
  BY <1>2, <1>8 DEF TimeoutInv, GivenGone
<1>16. OpenOrGone' /\ HeldOpen'
  <2>1. \A u \in Thread : (pc'[u] \in OnWay => pc[u] \in OnWay) /\ (pc'[u] \in Held => pc[u] \in Held)
    BY <1>2 DEF OtherThreads, OnWay, Held, Locking
  <2> QED
    BY <1>9, <2>1 DEF TimeoutInv, OpenOrGone, HeldOpen
<1>17. LocksHeld' /\ LockedEvent' /\ LockedFirst'
  BY <1>2, LockedMoveKeeps DEF Locking
<1>18. CountedAtLeast'
  BY <1>2, <1>7, CountsStayKeep DEF Counted, OnWay, Locking
<1>19. DroppedGone'
  <2>1. \A u \in Thread, e \in SeqID : dropped[<<u, e>>] > 0 => pc'[u] = pc[u]
    BY <1>2 DEF TimeoutInv, DroppedGone, DroppedDataInUse, OtherThreads
  <2> QED
    BY <1>2, <1>8, <2>1 DEF TimeoutInv, DroppedGone, DroppedDataInUse
<1>20. RequestsKept'
  <2>1. \A u \in Thread : pc'[u] = "unrequest" => u = t \/ pc[u] = "unrequest"
    BY <1>2 DEF OtherThreads
  <2>2. Unrequested' = Unrequested \cup {buf[t]}
    BY <1>2 DEF Unrequested, OtherThreads
  <2>3. active' \cup Unrequested' = active \cup Unrequested
    BY <1>2, <1>4, <2>2
  <2>4. OpenEventsRequested'
    BY <1>1, <1>2, <2>3 DEF RequestsKept, OpenEventsRequested, Unrequested
  <2>5. \A u \in Thread : pc'[u] = "unrequest" => event[u] \in released'
    BY <1>1, <1>6, <2>1 DEF RequestsKept
  <2>6. \A u \in Thread : pc[u] = "unrequest" => event[u] # event[t]
    BY <1>1, <1>5 DEF RequestsKept, AlreadyReleased
  <2> QED
    BY <1>1, <1>2, <2>1, <2>4, <2>5, <2>6 DEF RequestsKept
<1> QED
  BY <1>10, <1>11, <1>12, <1>13, <1>14, <1>15, <1>16, <1>17, <1>18, <1>19, <1>20 DEF TimeoutInv

\* What giving away the pending and the abandoned buffers does to the books.
LEMMA CheckPendingLeaves ==
  ASSUME TimeoutInv, CheckPendingBooks, UNCHANGED <<hdrSeq, released>>
  PROVE  /\ active' = active \ TimedOut /\ pending' = {} /\ Open' = active' /\ active' \subseteq Open
         /\ \A e : AlreadyReleased(e) => AlreadyReleased(e)'
         /\ \A e : Gone(e) => Gone(e)'
         /\ \A b \in Open \ active' : Gone(hdrSeq[b])'
         /\ \A b \in TimedOut : b \in active /\ writesPending[b] = 0
         /\ \A b \in Buf : SemAfterCheck[b] = "Writing" => b \in active' \/ (seqLock # NoThread /\ buf[seqLock] = b)
         /\ \A b \in active' : SemAfterCheck[b] = "Writing"
         /\ incomplete' = incomplete \cup {hdrSeq[b] : b \in TimedOut}
         /\ requests' = requests \ {hdrSeq[b] : b \in TimedOut}
<1>1. TypeInv /\ BuffersBooked /\ OneBufferPerEvent /\ PendingLocked
  BY DEF TimeoutInv, MemoryBooked
<1>2. /\ active' = active \ TimedOut /\ pending' = {} /\ Open' = active' /\ active' \subseteq Open
      /\ incomplete' = incomplete \cup {hdrSeq[b] : b \in TimedOut}
      /\ requests' = requests \ {hdrSeq[b] : b \in TimedOut}
  BY DEF CheckPendingBooks, Open
<1>3. \A e : AlreadyReleased(e) => AlreadyReleased(e)'
  BY <1>2 DEF AlreadyReleased
<1>4. \A e : Gone(e) => Gone(e)'
  BY <1>2, <1>3 DEF Gone
<1>5. ASSUME NEW b \in Open \ active'
      PROVE  Gone(hdrSeq[b])'
  <2>1. b \in pending \/ b \in TimedOut
    BY <1>2 DEF Open
  <2>2. AlreadyReleased(hdrSeq[b])'
    BY <1>1, <1>2, <2>1 DEF PendingLocked, AlreadyReleased
  <2>3. \A a \in Open' : hdrSeq'[a] # hdrSeq'[b]
    BY <1>1, <1>2 DEF OneBufferPerEvent
  <2> QED
    BY <2>2, <2>3 DEF Gone
<1>6. \A b \in TimedOut : b \in active /\ writesPending[b] = 0
  BY DEF TimedOut
<1>7. ASSUME NEW b \in Buf
      PROVE  /\ SemAfterCheck[b] = "Writing" => b \in active' \/ (seqLock # NoThread /\ buf[seqLock] = b)
             /\ b \in active' => SemAfterCheck[b] = "Writing"
  <2>1. SemAfterCheck[b] = IF b \in pending \/ b \in TimedOut THEN "Full" ELSE sem[b]
    BY DEF SemAfterCheck, ToRelease
  <2> QED
    BY <1>1, <1>2, <2>1 DEF BuffersBooked, Open
<1>8. active' \subseteq Buf
  BY <1>1, <1>2, FlatTypes
<1> QED
  BY <1>2, <1>3, <1>4, <1>5, <1>6, <1>7, <1>8

\* No event is given twice, and one that is given is done with.
LEMMA GivenOnceOnly ==
  ASSUME TimeoutInv, CheckPendingBooks, UNCHANGED <<hdrSeq, released>>
  PROVE  GivenGone'
<1>1. TypeInv /\ OneBufferPerEvent /\ GivenGone /\ timesReleased \in [SeqID -> Nat]
  BY DEF TimeoutInv, MemoryBooked, TypeInv, BooksTypeOK
<1>2. ToRelease \subseteq Open /\ ToRelease \cap active' = {}
  BY DEF ToRelease, TimedOut, Open, CheckPendingBooks, TimeoutInv, MemoryBooked, BuffersBooked
<1> SUFFICES ASSUME NEW e \in SeqID, timesReleased'[e] # 0
             PROVE  timesReleased'[e] = 1 /\ Gone(e)'
  BY DEF GivenGone
<1> DEFINE n == Cardinality({b \in ToRelease : hdrSeq[b] = e})
<1>3. timesReleased'[e] = timesReleased[e] + n
  BY DEF CheckPendingBooks
<1>4. CASE \E b \in ToRelease : hdrSeq[b] = e
  <2>1. PICK b \in ToRelease : hdrSeq[b] = e
    BY <1>4
  <2>2. {a \in ToRelease : hdrSeq[a] = e} = {b}
    BY <1>1, <1>2, <2>1 DEF OneBufferPerEvent
  <2>3. n = 1
    BY <2>2, FS_Singleton
  <2>4. timesReleased[e] = 0
    BY <1>1, <1>2, <2>1 DEF GivenGone, Gone
  <2>5. Gone(e)'
    BY <1>2, <2>1, CheckPendingLeaves
  <2> HIDE DEF n
  <2> QED
    BY <1>3, <2>3, <2>4, <2>5
<1>5. CASE ~\E b \in ToRelease : hdrSeq[b] = e
  <2>1. n = 0
    BY <1>5, FS_EmptySet
  <2> HIDE DEF n
  <2>2. timesReleased'[e] = timesReleased[e]
    BY <1>1, <1>3, <2>1
  <2> QED
    BY <1>1, <2>2, CheckPendingLeaves DEF GivenGone
<1> QED
  BY <1>4, <1>5

\* A thread with work to do in a buffer has counted its write, and the last writer of a pending
\* buffer would not have left it behind.
LEMMA HeldStayOpen ==
  ASSUME TimeoutInv, CheckPendingBooks, UNCHANGED <<hdrSeq, released>>,
         NEW t \in Thread, pc[t] \in Held
  PROVE  buf[t] \in active' /\ hdrSeq[buf[t]] = event[t]
<1>1. TypeInv /\ PendingLocked /\ LocksHeld /\ LockedFirst
  BY DEF TimeoutInv
<1>2. buf[t] \in Open /\ hdrSeq[buf[t]] = event[t] /\ buf[t] \in Buf
  BY <1>1, FlatTypes DEF TimeoutInv, HeldOpen, InBuffer, Open
<1>3. t \in Counted(buf[t])
  BY <1>2 DEF Counted, Held, OnWay, Locking
<1>4. writesPending[buf[t]] >= 1 /\ writesPending[buf[t]] \in Int
  <2>1. IsFiniteSet(Counted(buf[t]))
    BY FinitenessAssumption, FS_Subset DEF Counted
  <2>2. Cardinality({t}) = 1 /\ Cardinality({t}) <= Cardinality(Counted(buf[t]))
          /\ Cardinality(Counted(buf[t])) \in Nat
    BY <1>3, <2>1, FS_Subset, FS_Singleton, FS_CardinalityType
  <2>3. writesPending[buf[t]] >= Cardinality(Counted(buf[t])) /\ writesPending[buf[t]] \in Int
    BY <1>1, <1>2, FlatTypes DEF TimeoutInv, CountedAtLeast
  <2> QED
    BY <2>2, <2>3
<1>5. buf[t] \notin TimedOut
  BY <1>4 DEF TimedOut
<1>6. buf[t] \notin pending
  <2> SUFFICES ASSUME buf[t] \in pending PROVE FALSE
    OBVIOUS
  <2>1. PICK u \in Thread : bufLock[buf[t]] = u /\ pc[u] \in {"unrequest", "check"}
    BY <1>1, <1>2, FlatTypes DEF PendingLocked
  <2>2. u # t /\ buf[u] = buf[t] /\ pc[u] \in Locking
    BY <1>1, <1>2, <2>1, ConstantsAssumption DEF LocksHeld, Held, Locking
  <2> QED
    BY <1>1, <1>3, <2>2 DEF LockedFirst, Held
<1> QED
  BY <1>2, <1>5, <1>6, CheckPendingLeaves DEF Open

\* What a step keeps in which a thread that is not at work on its Fragment, or is just done
\* with the check, gives away the buffers.
LEMMA HandingOverKeeps ==
  ASSUME TimeoutInv, TypeInv', NEW t \in Thread, OtherThreads(t), CheckPendingBooks,
         UNCHANGED <<event, drop, bufLock, hdrSeq, released, writesPending, dropped>>,
         \/ pc[t] \notin OnWay /\ pc'[t] \notin OnWay
         \/ pc[t] = "check" /\ pc'[t] = "unlock" /\ buf'[t] = buf[t]
  PROVE  /\ NeverTold' /\ EventsSent' /\ OneBufferPerEvent' /\ LockedEvent' /\ ActiveNotReleased'
         /\ PendingLocked' /\ GivenGone' /\ OpenOrGone' /\ HeldOpen' /\ CountedAtLeast'
         /\ LockedFirst' /\ DroppedGone' /\ RequestsKept'
         /\ \A u \in Thread : pc'[u] \in Locking => bufLock[buf'[u]] = u
         /\ \A b \in Buf : bufLock[b] # NoThread => buf'[bufLock[b]] = b /\ pc'[bufLock[b]] \in Locking
<1>1. /\ TypeInv /\ LocksHeld /\ LockedEvent /\ ActiveNotReleased /\ LockedFirst /\ DroppedGone
      /\ OneBufferPerEvent /\ RequestsKept /\ EventsSent
  BY DEF TimeoutInv, MemoryBooked
<1>2. /\ active' = active \ TimedOut /\ pending' = {} /\ Open' = active' /\ active' \subseteq Open
      /\ \A e : Gone(e) => Gone(e)'
      /\ \A b \in Open \ active' : Gone(hdrSeq[b])'
      /\ incomplete' = incomplete \cup {hdrSeq[b] : b \in TimedOut}
      /\ requests' = requests \ {hdrSeq[b] : b \in TimedOut}
      /\ \A b \in TimedOut : b \in active
  BY CheckPendingLeaves
<1>3. \A u \in Thread : pc'[u] \in OnWay =>
        /\ pc[u] \in OnWay /\ buf'[u] = buf[u] /\ event'[u] = event[u]
        /\ pc'[u] \in Locking <=> pc[u] \in Locking
        /\ pc'[u] # pc[u] => u = t /\ pc[u] = "check" /\ pc'[u] = "unlock"
  BY DEF OtherThreads, OnWay, Locking
<1>4. \A u \in Thread : pc'[u] \in Locking <=> pc[u] \in Locking
  BY DEF OtherThreads, OnWay, Locking
<1>5. \A u \in Thread : pc'[u] \in Held => pc[u] \in Held
  BY <1>3 DEF Held, OnWay, Locking
<1>6. \A u \in Thread : pc'[u] \in Locking => buf'[u] = buf[u]
  BY <1>3 DEF OnWay
<1>7. NeverTold' /\ EventsSent'
  <2>1. \A b \in TimedOut : hdrSeq[b] \in SeqID
    BY <1>1, <1>2 DEF EventsSent, Open
  <2> QED
    BY <1>1, <1>2, <2>1 DEF TimeoutInv, NeverTold, EventsSent
<1>8. OneBufferPerEvent'
  BY <1>1, <1>2 DEF OneBufferPerEvent
<1>9. LockedEvent'
  BY <1>1, <1>4, <1>6 DEF LockedEvent
<1>10. ActiveNotReleased'
  <2> SUFFICES ASSUME NEW b \in active'
               PROVE  ~AlreadyReleased(hdrSeq[b])'
    BY DEF ActiveNotReleased
  <2>1. b \in active /\ ~AlreadyReleased(hdrSeq[b])
    BY <1>1, <1>2 DEF ActiveNotReleased
  <2>2. \A a \in TimedOut : hdrSeq[a] # hdrSeq[b]
    BY <1>1, <1>2 DEF OneBufferPerEvent, Open
  <2> QED
    BY <1>2, <2>1, <2>2 DEF AlreadyReleased
<1>11. PendingLocked'
  BY <1>2 DEF PendingLocked
<1>12. GivenGone'
  BY GivenOnceOnly
<1>13. OpenOrGone'
  <2> SUFFICES ASSUME NEW u \in Thread, pc'[u] \in OnWay
               PROVE  InBuffer(u)' \/ Gone(event[u])'
    BY DEF OpenOrGone
  <2>1. pc[u] \in OnWay /\ buf'[u] = buf[u] /\ event'[u] = event[u]
    BY <1>3
  <2>2. InBuffer(u) \/ Gone(event[u])
    BY <2>1 DEF TimeoutInv, OpenOrGone
  <2>3. CASE InBuffer(u) /\ buf[u] \in active'
    BY <1>2, <2>1, <2>3 DEF InBuffer
  <2>4. CASE InBuffer(u) /\ buf[u] \notin active'
    <3>1. Gone(hdrSeq[buf[u]])' /\ hdrSeq[buf[u]] = event[u]
      <4>1. buf[u] \in Open \ active' /\ hdrSeq[buf[u]] = event[u]
        BY <2>4 DEF InBuffer
      <4>2. \A b \in Open \ active' : AlreadyReleased(hdrSeq[b])' /\ \A a \in Open' : hdrSeq'[a] # hdrSeq[b]
        BY <1>2 DEF Gone
      <4>3. AlreadyReleased(event[u])' /\ \A a \in Open' : hdrSeq'[a] # event[u]
        BY <2>1, <4>1, <4>2 DEF AlreadyReleased
      <4> QED
        BY <2>1, <4>1, <4>3 DEF Gone, AlreadyReleased
    <3> QED
      BY <2>1, <3>1 DEF Gone, AlreadyReleased
  <2>5. CASE Gone(event[u])
    <3>1. \A e : Gone(e) => AlreadyReleased(e)' /\ \A a \in Open' : hdrSeq'[a] # e
      BY <1>2 DEF Gone
    <3> QED
      BY <2>1, <2>5, <3>1 DEF Gone, AlreadyReleased
  <2> QED
    BY <2>2, <2>3, <2>4, <2>5
<1>14. HeldOpen'
  <2> SUFFICES ASSUME NEW u \in Thread, pc'[u] \in Held
               PROVE  InBuffer(u)'
    BY DEF HeldOpen
  <2>1. pc[u] \in Held /\ buf'[u] = buf[u] /\ event'[u] = event[u]
    BY <1>3, <1>5 DEF Held, OnWay, Locking
  <2>2. buf[u] \in active' /\ hdrSeq[buf[u]] = event[u]
    BY <2>1, HeldStayOpen
  <2> QED
    BY <1>2, <2>1, <2>2 DEF InBuffer
<1>15. CountedAtLeast'
  <2>1. \A b \in Open : t \in Counted(b)' => t \in Counted(b)
    BY DEF Counted, OnWay, Locking
  <2> QED
    BY <1>2, <2>1, CountsStayKeep
<1>16. LockedFirst'
  <2> SUFFICES ASSUME NEW v \in Thread, NEW u \in Thread, v # u, pc'[v] \in Locking,
                      u \in Counted(buf[v])'
               PROVE  pc'[u] = "header"
    BY DEF LockedFirst
  <2>1. pc[v] \in Locking /\ buf'[v] = buf[v]
    BY <1>4, <1>6
  <2>2. pc'[u] \in OnWay \ {"reserve"}
    BY DEF Counted
  <2>3. u \in Counted(buf[v])
    BY <1>3, <2>1, <2>2 DEF Counted
  <2>4. pc[u] = "header"
    BY <1>1, <2>1, <2>3 DEF LockedFirst
  <2> QED
    BY <1>3, <2>2, <2>4
<1>17. DroppedGone'
  <2>1. \A u \in Thread, e \in SeqID : dropped[<<u, e>>] > 0 => pc'[u] = pc[u]
    BY <1>1 DEF DroppedGone, DroppedDataInUse, OtherThreads, OnWay, Locking
  <2> QED
    BY <1>1, <1>2, <2>1 DEF DroppedGone, DroppedDataInUse
<1>18. RequestsKept'
  <2>1. \A u \in Thread : pc'[u] = "unrequest" <=> pc[u] = "unrequest"
    BY DEF OtherThreads, OnWay, Locking
  <2>2. \A u \in Thread : pc[u] = "unrequest" => buf'[u] = buf[u]
    BY <1>4, <1>6 DEF Locking
  <2>3. Unrequested' = Unrequested
    BY <2>1, <2>2 DEF Unrequested
  <2>4. requests = {hdrSeq[b] : b \in active \cup Unrequested}
    BY <1>1 DEF RequestsKept, OpenEventsRequested, Unrequested
  <2>5. \A b \in Unrequested : hdrSeq[b] \in released
    BY <1>1 DEF RequestsKept, LockedEvent, Locking, Unrequested
  <2>6. \A a \in TimedOut, b \in active' \cup Unrequested : hdrSeq[a] # hdrSeq[b]
    <3>1. \A a \in TimedOut, b \in active' : hdrSeq[a] # hdrSeq[b]
      BY <1>1, <1>2 DEF OneBufferPerEvent, Open
    <3>2. \A a \in TimedOut, b \in Unrequested : hdrSeq[a] # hdrSeq[b]
      BY <1>1, <1>2, <2>5 DEF ActiveNotReleased, AlreadyReleased
    <3> QED
      BY <3>1, <3>2
  <2>7. requests' = {hdrSeq[b] : b \in active' \cup Unrequested}
    BY <1>2, <2>4, <2>6
  <2>8. OpenEventsRequested'
    BY <2>3, <2>7 DEF OpenEventsRequested, Unrequested
  <2> QED
    BY <1>1, <2>1, <2>8 DEF RequestsKept
<1>19. \A u \in Thread : pc'[u] \in Locking => bufLock[buf'[u]] = u
  BY <1>1, <1>4, <1>6 DEF LocksHeld
<1>20. \A b \in Buf : bufLock[b] # NoThread => buf'[bufLock[b]] = b /\ pc'[bufLock[b]] \in Locking
  <2>1. \A b \in Buf : bufLock[b] # NoThread =>
          bufLock[b] \in Thread /\ buf[bufLock[b]] = b /\ pc[bufLock[b]] \in Locking
    BY <1>1, FlatTypes DEF LocksHeld
  <2> QED
    BY <1>4, <1>6, <2>1
<1> QED
  BY <1>7, <1>8, <1>9, <1>10, <1>11, <1>12, <1>13, <1>14, <1>15, <1>16, <1>17, <1>18, <1>19, <1>20

\* The steps that only give the buffers away: nobody is initialising a buffer.
LEMMA HandingOverStep ==
  ASSUME TimeoutInv, TypeInv', NEW t \in Thread, OtherThreads(t), CheckPendingBooks,
         seqLock = NoThread, sem' = SemAfterCheck,
         UNCHANGED <<event, drop, seqLock, bufLock, hdrSeq, released, writesPending, dropped>>,
         \/ pc[t] \notin OnWay /\ pc'[t] \notin OnWay \cup {"init"}
         \/ pc[t] = "check" /\ pc'[t] = "unlock" /\ buf'[t] = buf[t]
  PROVE  TimeoutInv'
<1>1. /\ NeverTold' /\ EventsSent' /\ OneBufferPerEvent' /\ LockedEvent' /\ ActiveNotReleased'
      /\ PendingLocked' /\ GivenGone' /\ OpenOrGone' /\ HeldOpen' /\ CountedAtLeast'
      /\ LockedFirst' /\ DroppedGone' /\ RequestsKept'
      /\ \A u \in Thread : pc'[u] \in Locking => bufLock[buf'[u]] = u
      /\ \A b \in Buf : bufLock[b] # NoThread => buf'[bufLock[b]] = b /\ pc'[bufLock[b]] \in Locking
  BY HandingOverKeeps
<1>2. \A u \in Thread : pc'[u] # "init"
  <2>1. \A u \in Thread : pc[u] # "init"
    BY ConstantsAssumption DEF TimeoutInv, LocksHeld
  <2> QED
    BY <2>1 DEF OtherThreads
<1>3. LocksHeld'
  BY <1>1, <1>2, ConstantsAssumption DEF LocksHeld, Locking
<1>4. ClaimNew'
  BY <1>2 DEF ClaimNew
<1>5. BuffersBooked'
  BY CheckPendingLeaves DEF BuffersBooked
<1> QED
  BY <1>1, <1>3, <1>4, <1>5 DEF TimeoutInv, MemoryBooked

LEMMA IdleCheckKeepsBooks ==
  ASSUME Remembering, TimeoutInv, TypeInv', NEW t \in Thread, IdleCheck(t)
  PROVE  TimeoutInv'
<1> USE DEF threadVars, lockVars, shmVars, bookVars
<1>1. /\ pc[t] = "recv" /\ pc'[t] = "recv" /\ OtherThreads(t) /\ seqLock = NoThread
      /\ CheckPendingBooks /\ sem' = SemAfterCheck
      /\ UNCHANGED <<event, drop, seqLock, bufLock, hdrSeq, released, writesPending, dropped>>
  BY DEF IdleCheck, OtherThreads
<1> QED
  BY <1>1, HandingOverStep DEF OnWay, Locking

LEMMA CheckPendingKeepsBooks ==
  ASSUME Remembering, TimeoutInv, TypeInv', NEW t \in Thread, CheckPending(t)
  PROVE  TimeoutInv'
<1> USE DEF threadVars, lockVars, shmVars, bookVars
<1>1. TypeInv
  BY DEF TimeoutInv
<1>2. /\ pc[t] = "check" /\ pc'[t] = "unlock" /\ buf'[t] = buf[t] /\ OtherThreads(t)
      /\ seqLock = NoThread /\ CheckPendingBooks /\ sem' = SemAfterCheck
      /\ UNCHANGED <<event, drop, seqLock, bufLock, hdrSeq, released, writesPending, dropped>>
  BY <1>1, FlatTypes DEF CheckPending, Goto, OtherThreads
<1> QED
  BY <1>2, HandingOverStep

\* No buffer is to be had: the thread, which is not to drop its Fragment, comes back.
LEMMA LookupNoBufferKeepsBooks ==
  ASSUME Remembering, TimeoutInv, TypeInv', NEW t \in Thread, LookupNoBuffer(t)
  PROVE  TimeoutInv'
<1> USE DEF threadVars, lockVars, shmVars, bookVars
<1>1. TypeInv /\ ~drop[t] /\ drop \in [Thread -> BOOLEAN]
  BY DEF TimeoutInv, NeverTold, TypeInv, ThreadInv, ThreadTypeOK
<1>2. /\ pc[t] = "lookup" /\ pc'[t] = "lookup" /\ OtherThreads(t) /\ seqLock = NoThread
      /\ CheckPendingBooks /\ sem' = SemAfterCheck
      /\ UNCHANGED <<event, drop, seqLock, bufLock, hdrSeq, released, writesPending, dropped>>
  BY <1>1, FlatTypes DEF LookupNoBuffer, WriteReturned, Goto, OtherThreads, Remembering
<1> QED
  BY <1>2, HandingOverStep DEF OnWay, Locking

\* The buffer that is taken is on none of the lists, and the event is new.
LEMMA LookupGrabKeepsBooks ==
  ASSUME Remembering, TimeoutInv, TypeInv', NEW t \in Thread, LookupGrab(t)
  PROVE  TimeoutInv'
<1> USE DEF threadVars, lockVars, shmVars, bookVars
<1>1. TypeInv /\ LocksHeld /\ t # NoThread
  BY ConstantsAssumption DEF TimeoutInv
<1>2. PICK b \in WritableBuffers(SemAfterCheck) :
        sem' = [SemAfterCheck EXCEPT ![b] = "Writing"] /\ buf' = [buf EXCEPT ![t] = b]
  BY DEF LookupGrab, TakeBuffer
<1>3. b \in Buf /\ SemAfterCheck[b] # "Writing"
  BY <1>2 DEF WritableBuffers
<1>4. /\ pc[t] = "lookup" /\ pc'[t] = "init" /\ buf'[t] = b /\ OtherThreads(t)
      /\ seqLock = NoThread /\ seqLock' = t /\ CheckPendingBooks
      /\ UNCHANGED <<event, drop, bufLock, hdrSeq, released, writesPending, dropped>>
  BY <1>1, <1>2, FlatTypes DEF LookupGrab, TakeBuffer, Goto, OtherThreads
<1>5. /\ NeverTold' /\ EventsSent' /\ OneBufferPerEvent' /\ LockedEvent' /\ ActiveNotReleased'
      /\ PendingLocked' /\ GivenGone' /\ OpenOrGone' /\ HeldOpen' /\ CountedAtLeast'
      /\ LockedFirst' /\ DroppedGone' /\ RequestsKept'
      /\ \A u \in Thread : pc'[u] \in Locking => bufLock[buf'[u]] = u
      /\ \A a \in Buf : bufLock[a] # NoThread => buf'[bufLock[a]] = a /\ pc'[bufLock[a]] \in Locking
  BY <1>4, HandingOverKeeps DEF OnWay, Locking
<1>6. /\ active' = active \ TimedOut /\ pending' = {} /\ Open' = active' /\ active' \subseteq Open
      /\ \A a \in Buf : SemAfterCheck[a] = "Writing" <=> a \in active'
      /\ incomplete' = incomplete \cup {hdrSeq[a] : a \in TimedOut}
      /\ \A a \in TimedOut : a \in active
  BY <1>4, CheckPendingLeaves
<1>7. \A u \in Thread : pc'[u] = "init" <=> u = t
  BY <1>1, <1>4, ConstantsAssumption DEF LocksHeld, OtherThreads
<1>8. LocksHeld'
  BY <1>4, <1>5, <1>7 DEF LocksHeld, Locking
<1>9. ClaimNew'
  <2>1. \A a \in Open : hdrSeq[a] # event[t]
    BY <1>4, HoldingOpen DEF LookupGrab, TakeBuffer
  <2>2. ~AlreadyReleased(event[t])
    BY DEF LookupGrab, TakeBuffer
  <2>3. event[t] \notin released' /\ event[t] \notin incomplete'
    BY <1>4, <1>6, <2>1, <2>2 DEF AlreadyReleased, Open
  <2> QED
    BY <1>3, <1>4, <1>6, <1>7, <2>1, <2>3 DEF ClaimNew, AlreadyReleased
<1>10. BuffersBooked'
  <2>1. \A a \in Buf : sem'[a] = IF a = b THEN "Writing" ELSE SemAfterCheck[a]
    BY <1>2 DEF SemAfterCheck
  <2> QED
    BY <1>1, <1>3, <1>4, <1>6, <2>1 DEF BuffersBooked
<1> QED
  BY <1>5, <1>8, <1>9, <1>10 DEF TimeoutInv, MemoryBooked

\* Nobody is counted in a new event: whoever had it was still in its buffer or saw it released.
LEMMA InitBufferKeepsBooks ==
  ASSUME Remembering, TimeoutInv, TypeInv', NEW t \in Thread, InitBuffer(t)
  PROVE  TimeoutInv'
<1> USE DEF threadVars, lockVars, shmVars, bookVars
<1> DEFINE b == buf[t]
<1>1. /\ TypeInv /\ LocksHeld /\ LockedEvent /\ PendingLocked /\ LockedFirst /\ ClaimNew /\ ActiveNotReleased
      /\ BuffersBooked /\ OneBufferPerEvent /\ EventsSent /\ RequestsKept /\ OpenOrGone /\ HeldOpen
      /\ CountedAtLeast /\ GivenGone /\ DroppedGone /\ NeverTold /\ t # NoThread
  BY ConstantsAssumption DEF TimeoutInv, MemoryBooked
<1>2. /\ pc[t] = "init" /\ pc'[t] = "reserve" /\ OtherThreads(t) /\ buf[t] \in Buf /\ event[t] \in SeqID
      /\ seqLock' = NoThread /\ bufLock[b] = NoThread
      /\ hdrSeq' = [hdrSeq EXCEPT ![b] = event[t]]
      /\ writesPending' = [writesPending EXCEPT ![b] = 0]
      /\ active' = active \cup {b} /\ requests' = requests \cup {event[t]}
      /\ UNCHANGED <<event, buf, drop, bufLock, sem, pending, released, incomplete, dropped, timesReleased>>
  BY <1>1, FlatTypes DEF InitBuffer, Goto, OtherThreads, AtBuffer
<1>3. seqLock = t /\ b \notin Open /\ ~AlreadyReleased(event[t]) /\ \A a \in Open : hdrSeq[a] # event[t]
  BY <1>1, <1>2 DEF LocksHeld, ClaimNew
<1>4. Open' = Open \cup {b} /\ Open \subseteq Buf
  BY <1>1, <1>2, FlatTypes DEF Open
<1>5. hdrSeq'[b] = event[t] /\ \A a \in Buf \ {b} : hdrSeq'[a] = hdrSeq[a]
  BY <1>1, <1>2, FlatTypes
<1>6. \A e : AlreadyReleased(e)' = AlreadyReleased(e)
  BY <1>2 DEF AlreadyReleased
<1>7. \A e : Gone(e) => AlreadyReleased(e) /\ \A a \in Open' : hdrSeq'[a] # e
  BY <1>3, <1>4, <1>5 DEF Gone
<1>8. \A e : Gone(e) => Gone(e)'
  BY <1>2, <1>7 DEF Gone, AlreadyReleased
<1>9. \A u \in Thread : (InBuffer(u) => InBuffer(u)') /\ (Gone(event[u]) => Gone(event[u])')
  BY <1>2, <1>3, <1>4, <1>5, <1>7 DEF InBuffer, Gone, AlreadyReleased
<1>10. \A u \in Thread : pc'[u] \in Locking => u # t /\ pc[u] \in Locking /\ buf[u] \in Buf \ {b}
  <2>1. \A u \in Thread : pc'[u] \in Locking => u # t /\ pc[u] \in Locking
    BY <1>2 DEF OtherThreads, Locking
  <2>2. \A u \in Thread : pc[u] \in Locking => buf[u] \in Buf /\ bufLock[buf[u]] = u
    BY <1>1, FlatTypes DEF LocksHeld, AtBuffer, Locking
  <2> QED
    BY <1>2, <2>1, <2>2, ConstantsAssumption
<1> HIDE DEF b
<1>11. NeverTold' /\ EventsSent'
  BY <1>1, <1>2, <1>4, <1>5 DEF NeverTold, EventsSent
<1>12. MemoryBooked'
  <2>1. BuffersBooked'
    BY <1>1, <1>2, <1>3, <1>4 DEF BuffersBooked, Open, b
  <2>2. OneBufferPerEvent'
    BY <1>1, <1>3, <1>4, <1>5 DEF OneBufferPerEvent
  <2> QED
    BY <2>1, <2>2 DEF MemoryBooked
<1>13. \A u \in Thread : pc'[u] # "init"
  BY <1>1, <1>2, <1>3 DEF LocksHeld, OtherThreads
<1>14. LocksHeld'
  <2>1. \A u \in Thread : pc'[u] \in Locking => bufLock'[buf'[u]] = u
    BY <1>1, <1>2, <1>10 DEF LocksHeld
  <2>2. \A a \in Buf : bufLock'[a] # NoThread => buf'[bufLock'[a]] = a /\ pc'[bufLock'[a]] \in Locking
    <3>1. \A a \in Buf : bufLock[a] # NoThread =>
            bufLock[a] \in Thread \ {t} /\ buf[bufLock[a]] = a /\ pc[bufLock[a]] \in Locking
      BY <1>1, <1>2, FlatTypes DEF LocksHeld, Locking
    <3> QED
      BY <1>2, <3>1 DEF OtherThreads
  <2> QED
    BY <1>2, <1>13, <2>1, <2>2, ConstantsAssumption DEF LocksHeld, Locking
<1>15. LockedEvent'
  BY <1>1, <1>2, <1>5, <1>10 DEF LockedEvent
<1>16. ClaimNew'
  BY <1>13 DEF ClaimNew
<1>17. ActiveNotReleased'
  <2>1. \A a \in active' : hdrSeq'[a] = IF a = b THEN event[t] ELSE hdrSeq[a]
    BY <1>2, <1>4, <1>5 DEF Open
  <2> QED
    BY <1>1, <1>2, <1>3, <2>1 DEF ActiveNotReleased, AlreadyReleased
<1>18. PendingLocked'
  <2>1. \A a \in pending : a \in Buf /\ a # b /\ hdrSeq'[a] = hdrSeq[a]
    BY <1>3, <1>4, <1>5 DEF Open
  <2>2. \A a \in pending : bufLock[a] \in Thread \ {t}
    BY <1>1, <1>2, <2>1, FlatTypes DEF PendingLocked
  <2> QED
    BY <1>1, <1>2, <2>1, <2>2 DEF PendingLocked, OtherThreads
<1>19. GivenGone'
  BY <1>1, <1>2, <1>8 DEF GivenGone
<1>20. OpenOrGone'
  <2>1. InBuffer(t)'
    BY <1>2, <1>4, <1>5 DEF InBuffer, b
  <2>2. \A u \in Thread : u # t => pc'[u] = pc[u]
    BY <1>2 DEF OtherThreads
  <2> QED
    BY <1>1, <1>9, <2>1, <2>2 DEF OpenOrGone
<1>21. HeldOpen'
  <2>1. \A u \in Thread : pc'[u] \in Held => pc[u] \in Held
    BY <1>2 DEF OtherThreads, Held
  <2> QED
    BY <1>1, <1>9, <2>1 DEF HeldOpen
<1>22. CountedAtLeast'
  <2> SUFFICES ASSUME NEW a \in Open'
               PROVE  writesPending'[a] >= Cardinality(Counted(a)')
    BY DEF CountedAtLeast
  <2>1. CASE a = b
    <3>1. ASSUME NEW u \in Thread, buf'[u] = b, event'[u] = event[t], pc'[u] \in OnWay \ {"reserve"}
          PROVE  FALSE
      <4>1. u # t /\ pc[u] \in OnWay /\ buf[u] = b /\ event[u] = event[t]
        BY <1>2, <3>1 DEF OtherThreads
      <4>2. InBuffer(u) \/ Gone(event[u])
        BY <1>1, <4>1 DEF OpenOrGone
      <4> QED
        BY <1>3, <4>1, <4>2 DEF InBuffer, Gone
    <3>2. Counted(a)' = {}
      BY <1>5, <2>1, <3>1 DEF Counted
    <3>3. writesPending'[a] = 0
      BY <1>1, <1>2, <2>1, FlatTypes DEF b
    <3> QED
      BY <3>2, <3>3, FS_EmptySet
  <2>2. CASE a # b
    <3>1. a \in Open /\ a \in Buf /\ hdrSeq'[a] = hdrSeq[a]
      BY <1>4, <1>5, <2>2
    <3>2. writesPending'[a] = writesPending[a] /\ writesPending[a] \in Int
            /\ writesPending[a] >= Cardinality(Counted(a))
      BY <1>1, <1>2, <2>2, <3>1, FlatTypes DEF CountedAtLeast
    <3>3. Counted(a)' \subseteq Counted(a)
      BY <1>2, <3>1 DEF Counted, OtherThreads
    <3>4. IsFiniteSet(Counted(a))
      BY FinitenessAssumption, FS_Subset DEF Counted
    <3>5. Cardinality(Counted(a)') <= Cardinality(Counted(a))
            /\ Cardinality(Counted(a)') \in Nat /\ Cardinality(Counted(a)) \in Nat
      BY <3>3, <3>4, FS_Subset, FS_CardinalityType
    <3> QED
      BY <3>2, <3>5
  <2> QED
    BY <2>1, <2>2
<1>23. LockedFirst'
  <2> SUFFICES ASSUME NEW v \in Thread, NEW u \in Thread, v # u, pc'[v] \in Locking,
                      u \in Counted(buf[v])'
               PROVE  pc'[u] = "header"
    BY DEF LockedFirst
  <2>1. v # t /\ pc[v] \in Locking /\ buf'[v] = buf[v] /\ hdrSeq'[buf[v]] = hdrSeq[buf[v]]
    BY <1>2, <1>5, <1>10
  <2>2. u # t
    BY <1>2 DEF Counted
  <2>3. u \in Counted(buf[v])
    BY <1>2, <2>1, <2>2 DEF Counted, OtherThreads
  <2> QED
    BY <1>1, <1>2, <2>1, <2>2, <2>3 DEF LockedFirst, OtherThreads
<1>24. DroppedGone'
  <2>1. \A u \in Thread, e \in SeqID : dropped[<<u, e>>] > 0 => pc'[u] = pc[u]
    BY <1>1, <1>2 DEF DroppedGone, DroppedDataInUse, OtherThreads
  <2> QED
    BY <1>1, <1>2, <1>8, <2>1 DEF DroppedGone, DroppedDataInUse
<1>25. RequestsKept'
  <2>1. \A u \in Thread : pc'[u] = "unrequest" <=> pc[u] = "unrequest"
    BY <1>2 DEF OtherThreads
  <2>2. Unrequested' = Unrequested
    BY <1>2, <2>1 DEF Unrequested
  <2>3. active \cup Unrequested \subseteq Buf \ {b}
    BY <1>2, <1>3, <1>4, <1>10, <2>1 DEF Unrequested, Open, Locking
  <2>4. requests = {hdrSeq[a] : a \in active \cup Unrequested}
    BY <1>1 DEF RequestsKept, OpenEventsRequested, Unrequested
  <2>5. requests' = {hdrSeq'[a] : a \in active' \cup Unrequested}
    <3>1. {hdrSeq'[a] : a \in active \cup Unrequested} = {hdrSeq[a] : a \in active \cup Unrequested}
      BY <1>5, <2>3
    <3>2. {hdrSeq'[a] : a \in active' \cup Unrequested}
            = {hdrSeq'[a] : a \in active \cup Unrequested} \cup {hdrSeq'[b]}
      BY <1>2
    <3> QED
      BY <1>2, <1>5, <2>4, <3>1, <3>2
  <2>6. OpenEventsRequested'
    BY <2>2, <2>5 DEF OpenEventsRequested, Unrequested
  <2> QED
    BY <1>1, <1>2, <2>1, <2>6 DEF RequestsKept
<1> QED
  BY <1>11, <1>12, <1>14, <1>15, <1>16, <1>17, <1>18, <1>19, <1>20, <1>21, <1>22, <1>23, <1>24, <1>25
     DEF TimeoutInv

\* Art, and time, do nothing to the buffers that are written to.
LEMMA QuietStepKeepsBooks ==
  ASSUME TimeoutInv, TypeInv', \A b \in Buf : sem'[b] = "Writing" <=> sem[b] = "Writing",
         UNCHANGED <<pc, event, buf, drop, seqLock, bufLock, hdrSeq, bookVars>>
  PROVE  TimeoutInv'
<1> USE DEF bookVars
<1>1. Open' = Open /\ (\A e : Gone(e)' = Gone(e)) /\ (\A b : Counted(b)' = Counted(b))
        /\ \A t : (InBuffer(t)' = InBuffer(t)) /\ (Gone(event[t])' = Gone(event[t]))
  BY DEF Open, Gone, AlreadyReleased, Counted, InBuffer
<1>2. NeverTold' /\ EventsSent' /\ LocksHeld' /\ LockedEvent' /\ ActiveNotReleased' /\ PendingLocked'
  BY <1>1 DEF TimeoutInv, NeverTold, EventsSent, LocksHeld, LockedEvent, ActiveNotReleased, PendingLocked,
              AlreadyReleased
<1>3. MemoryBooked'
  BY <1>1 DEF TimeoutInv, MemoryBooked, BuffersBooked, OneBufferPerEvent
<1>4. ClaimNew'
  BY <1>1 DEF TimeoutInv, ClaimNew, AlreadyReleased
<1>5. GivenGone' /\ OpenOrGone' /\ HeldOpen' /\ DroppedGone'
  BY <1>1 DEF TimeoutInv, GivenGone, OpenOrGone, HeldOpen, DroppedGone, DroppedDataInUse
<1>6. CountedAtLeast'
  BY <1>1 DEF TimeoutInv, CountedAtLeast
<1>7. LockedFirst'
  BY DEF TimeoutInv, LockedFirst, Counted
<1>8. RequestsKept'
  BY DEF TimeoutInv, RequestsKept, OpenEventsRequested
<1> QED
  BY <1>2, <1>3, <1>4, <1>5, <1>6, <1>7, <1>8 DEF TimeoutInv

LEMMA InitTimeoutInv == Init => TimeoutInv
<1> SUFFICES ASSUME Init PROVE TimeoutInv
  OBVIOUS
<1> USE ConstantsAssumption
<1>1. TypeInv
  BY InitTypeInv
<1>2. Open = {} /\ \A t \in Thread : pc[t] = "recv"
  BY DEF Init, Open
<1>3. NeverTold /\ EventsSent /\ LocksHeld /\ LockedEvent /\ ClaimNew /\ ActiveNotReleased /\ PendingLocked
  BY <1>2 DEF Init, NeverTold, EventsSent, LocksHeld, LockedEvent, ClaimNew, ActiveNotReleased,
              PendingLocked, Locking
<1>4. MemoryBooked
  BY <1>2 DEF Init, MemoryBooked, BuffersBooked, OneBufferPerEvent
<1>5. GivenGone /\ OpenOrGone /\ HeldOpen /\ DroppedGone
  BY <1>2 DEF Init, GivenGone, OpenOrGone, HeldOpen, DroppedGone, DroppedDataInUse, OnWay, Held, Locking
<1>6. CountedAtLeast /\ LockedFirst /\ RequestsKept
  BY <1>2 DEF Init, CountedAtLeast, LockedFirst, RequestsKept, OpenEventsRequested, Locking
<1> QED
  BY <1>1, <1>3, <1>4, <1>5, <1>6 DEF TimeoutInv

\* Every step of the event builder keeps the invariant, also with time-outs.
LEMMA NextTimeoutInv == Remembering /\ TimeoutInv /\ [Next]_vars => TimeoutInv'
<1> SUFFICES ASSUME Remembering, TimeoutInv, [Next]_vars PROVE TimeoutInv'
  OBVIOUS
<1>1. TypeInv /\ TypeInv'
  BY NextTypeInv DEF TimeoutInv
<1>2. ASSUME NEW t \in Thread, ReceiveHeader(t) \/ WriteFragmentHeader(t) PROVE TimeoutInv'
  BY <1>1, <1>2, ReceiveHeaderKeepsBooks, LookupFoundKeepsBooks, LookupReleasedKeepsBooks,
     LookupNoBufferKeepsBooks, LookupGrabKeepsBooks, InitBufferKeepsBooks, ReserveKeepsBooks,
     WriteHeaderKeepsBooks DEF WriteFragmentHeader, Lookup
<1>3. ASSUME NEW t \in Thread, ReceiveBody(t) \/ ReceiveBodyFails(t) \/ IdleCheck(t)
      PROVE  TimeoutInv'
  BY <1>1, <1>3, ReceiveBodyKeepsBooks, IdleCheckKeepsBooks
<1>4. ASSUME NEW t \in Thread, DoneWritingFragment(t) PROVE TimeoutInv'
  BY <1>1, <1>4, DoneFoundKeepsBooks, DoneDroppedKeepsBooks, UpdateFragmentHeaderKeepsBooks,
     FinishEarlyKeepsBooks, FinishLastKeepsBooks, CountFragmentsKeepsBooks, CompleteBufferKeepsBooks,
     RemoveRequestKeepsBooks, CheckPendingKeepsBooks, DoneUnlockKeepsBooks DEF DoneWritingFragment
<1>5. ASSUME NEW b \in Buf, ArtStep(b) \/ BufferTimeout(b) PROVE TimeoutInv'
  <2>1. UNCHANGED <<pc, event, buf, drop, seqLock, bufLock, hdrSeq, bookVars>>
    BY <1>5 DEF ArtStep, ArtRead, ArtDone, BufferTimeout, threadVars, lockVars
  <2>2. \A a \in Buf : sem'[a] = "Writing" <=> sem[a] = "Writing"
    BY <1>1, <1>5, FlatTypes DEF ArtStep, ArtRead, ArtDone, BufferTimeout
  <2> QED
    BY <1>1, <2>1, <2>2, QuietStepKeepsBooks
<1>6. CASE UNCHANGED vars
  BY <1>1, <1>6, QuietStepKeepsBooks DEF vars, threadVars, lockVars, shmVars
<1> QED
  BY <1>2, <1>3, <1>4, <1>5, <1>6 DEF Next, ThreadStep

LEMMA SpecTimeoutInv == Remembering => (Spec => []TimeoutInv)
<1> SUFFICES ASSUME Remembering PROVE Spec => []TimeoutInv
  OBVIOUS
<1>1. TimeoutInv /\ [Next]_vars => TimeoutInv'
  BY NextTimeoutInv
<1> QED
  BY InitTimeoutInv, <1>1, PTL DEF Spec

\* Also with time-outs, late and surplus Fragments: what is written to is booked once, and no
\* event is in two buffers.
THEOREM BuffersAlwaysBooked == Remembering => (Spec => []MemoryBooked)
<1> SUFFICES ASSUME Remembering PROVE Spec => []MemoryBooked
  OBVIOUS
<1>1. TimeoutInv => MemoryBooked
  BY DEF TimeoutInv
<1> QED
  BY SpecTimeoutInv, <1>1, PTL

\* Also with time-outs: an event whose buffer was given away, whole or not, is not assembled and
\* given to art a second time when the rest of its Fragments arrive.
THEOREM ReleasedOnceDespiteTimeouts == Remembering => (Spec => []ReleasedOnce)
<1> SUFFICES ASSUME Remembering PROVE Spec => []ReleasedOnce
  OBVIOUS
<1>1. TimeoutInv => ReleasedOnce
  <2> SUFFICES ASSUME TimeoutInv PROVE ReleasedOnce
    OBVIOUS
  <2>1. timesReleased \in [SeqID -> Nat]
    BY DEF TimeoutInv, TypeInv, BooksTypeOK
  <2> QED
    BY <2>1 DEF TimeoutInv, GivenGone, ReleasedOnce
<1> QED
  BY SpecTimeoutInv, <1>1, PTL

\* The Fragments that come late are consumed: none is left behind in dropped_data_.
THEOREM DroppedDataAlwaysConsumed == Remembering => (Spec => []DroppedDataInUse)
<1> SUFFICES ASSUME Remembering PROVE Spec => []DroppedDataInUse
  OBVIOUS
<1>1. TimeoutInv => DroppedDataInUse
  BY DEF TimeoutInv, DroppedGone
<1> QED
  BY SpecTimeoutInv, <1>1, PTL

\* Also with time-outs: the requests are those of the events that wait for Fragments.
THEOREM RequestsKeptDespiteTimeouts == Remembering => (Spec => []OpenEventsRequested)
<1> SUFFICES ASSUME Remembering PROVE Spec => []OpenEventsRequested
  OBVIOUS
<1>1. TimeoutInv => OpenEventsRequested
  BY DEF TimeoutInv, RequestsKept
<1> QED
  BY SpecTimeoutInv, <1>1, PTL
===============================================================================
