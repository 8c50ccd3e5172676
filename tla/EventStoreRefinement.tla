------------------------- MODULE EventStoreRefinement -------------------------
(***************************************************************************)
(* The event builder of SharedMemoryEventManager implements EventStore.    *)
(*                                                                         *)
(* The phase of an event is read off the manager's books and off what was  *)
(* given to art, which the manager's list of released events need not      *)
(* remember.  Its content is what the buffer that carries it holds, from   *)
(* the moment the buffer's header names the event until art has emptied    *)
(* the buffer or another event has taken it over.                          *)
(***************************************************************************)
EXTENDS SharedMemoryEventManager

\* Event e waits to be given to art, or was given to it; and it is being built.
Completed(e) == timesReleased[e] # 0 \/ \E b \in pending : hdrSeq[b] = e
BeingBuilt(e) == \E b \in active : hdrSeq[b] = e

eventPhase == [e \in SeqID |->
  IF e \in incomplete THEN "incomplete"
  ELSE IF Completed(e) THEN "complete"
  ELSE IF BeingBuilt(e) THEN "open" ELSE "unseen"]

CarriersOf(e) == {b \in Buf : hdrSeq[b] = e /\ (b \in Open \/ sem[b] \in {"Full", "Reading"})}

SettledSources(b) ==
  {slots[b][i].src : i \in {j \in DOMAIN slots[b] : slots[b][j].body \/ ~slots[b][j].valid}}

eventContent == [e \in SeqID |-> UNION {SettledSources(b) : b \in CarriersOf(e)}]

Store == INSTANCE EventStore
           WITH Event <- SeqID, Source <- Thread, Expected <- N,
                phase <- eventPhase, content <- eventContent

\* Every step of the event builder is a step of EventStore, or changes nothing there:
\* an event is opened once, a Fragment is stored only while its own event is open,
\* and an event is completed only when enough Fragments are settled.
ImplementsEventStore == Store!Spec
=============================================================================
