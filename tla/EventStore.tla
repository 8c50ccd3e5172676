------------------------------ MODULE EventStore ------------------------------
(***************************************************************************)
(* What the shared memory event builder promises, without buffers, locks   *)
(* or threads.  An event is opened by its first Fragment, collects         *)
(* Fragments from its sources while it is open, and leaves the store once: *)
(* complete, with at least Expected Fragments settled, that is received    *)
(* whole or marked invalid, or incomplete, given up on.  What the event    *)
(* contains is fixed from then until the reader has consumed it.           *)
(***************************************************************************)
EXTENDS Naturals, FiniteSets

CONSTANTS Event, Source, Expected

VARIABLES
  phase,    \* phase[e]: where event e is in its life
  content   \* content[e]: the sources whose Fragment of event e is settled

vars == <<phase, content>>

Init ==
  /\ phase = [e \in Event |-> "unseen"]
  /\ content = [e \in Event |-> {}]

OpenEvent(e) ==
  /\ phase[e] = "unseen"
  /\ phase' = [phase EXCEPT ![e] = "open"]
  /\ UNCHANGED content

Store(e, s) ==
  /\ phase[e] = "open" /\ s \notin content[e]
  /\ content' = [content EXCEPT ![e] = @ \cup {s}]
  /\ UNCHANGED phase

Complete(e) ==
  /\ phase[e] = "open" /\ Cardinality(content[e]) >= Expected
  /\ phase' = [phase EXCEPT ![e] = "complete"]
  /\ UNCHANGED content

GiveUp(e) ==
  /\ phase[e] = "open"
  /\ phase' = [phase EXCEPT ![e] = "incomplete"]
  /\ UNCHANGED content

Consume(e) ==
  /\ phase[e] \in {"complete", "incomplete"}
  /\ content' = [content EXCEPT ![e] = {}]
  /\ UNCHANGED phase

Next ==
  \E e \in Event :
    OpenEvent(e) \/ Complete(e) \/ GiveUp(e) \/ Consume(e) \/ \E s \in Source : Store(e, s)

Spec == Init /\ [][Next]_vars
=============================================================================
