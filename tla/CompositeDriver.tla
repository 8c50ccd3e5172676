---------------------------- MODULE CompositeDriver -----------------------------
(***************************************************************************)
(* CompositeDriver: a board reader with several generators has them as     *)
(* the children of one that passes commands on to them and asks them for   *)
(* data in turn.  All of them are CommandableFragmentGenerators.  The      *)
(* thread that calls getNext and the thread of the commands meet at the    *)
(* flags and at the mutexes of all of them.                                *)
(*                                                                         *)
(* A child appends its Fragments to the list that has those of the         *)
(* children before it, and then looks for foreign Fragment IDs in the      *)
(* whole list: a child after one that had data gives up, although nothing  *)
(* is wrong with it.                                                       *)
(*                                                                         *)
(* Left out: children that wait for data until they are told to stop, and  *)
(* the check of the hardware by getNext itself, for generators that have   *)
(* no thread for it.                                                       *)
(***************************************************************************)
EXTENDS Integers, FiniteSets

CONSTANTS Children,     \* the children are 1 .. Children
          MaxCommands   \* bound: the commands sent

ASSUME CompositeAssumption == Children \in Nat \ {0} /\ MaxCommands \in Nat

VARIABLES
  gens,    \* the composite, 0, and its children: should_stop_, exception_, isHardwareOK_, monitoring
  generator_active_list_,
  getter,  \* the thread in getNext: where, at which child, whose Fragments are in the list, is any active
  order,   \* the thread of the commands: the command and the generator it has come to
  brState, \* the board reader: "Ready", "Running", "Paused", "Error"
  ordersSent,    \* commands so far
  declares \* does the configuration of the composite list the Fragment IDs of its children

compositeVars == <<gens, generator_active_list_, getter, order, brState, ordersSent, declares>>

ChildGen == 1 .. Children
Generator == 0 .. Children

CompositeInit ==
  /\ gens = [g \in Generator |-> [stop |-> TRUE, exception |-> FALSE, hardwareOK |-> TRUE, monitoring |-> FALSE]]
  /\ generator_active_list_ = [c \in ChildGen |-> TRUE]
  /\ getter = [pc |-> "none", at |-> 1, frags |-> {}, any |-> FALSE]
  /\ order = [name |-> "none", at |-> 0]
  /\ brState = "Ready" /\ ordersSent = 0
  /\ declares \in BOOLEAN

\* Which mutexes the thread in getNext holds: the composite's from the lock on, a child's
\* while it is in its getNext_.
HeldByGetter(g) ==
  IF g = 0 THEN getter.pc \in {"child", "passed child", "in child"}
           ELSE getter.pc = "in child" /\ getter.at = g

-----------------------------------------------------------------------------
(* getNext *)

commandVars == <<order, brState, ordersSent, declares>>

\* The check getNext makes before it locks.
MayRead(g) == ~gens[g].exception /\ ~gens[g].stop

EnterGetNext ==
  /\ getter.pc = "idle"
  /\ getter' = [getter EXCEPT !.pc = IF MayRead(0) THEN "passed" ELSE "ended"]
  /\ UNCHANGED <<gens, generator_active_list_, commandVars>>

\* The command thread has the mutex of the composite while it pauses the children.
LockComposite ==
  /\ getter.pc = "passed" /\ order.name # "pause"
  /\ getter' = [pc |-> "child", at |-> 1, frags |-> {}, any |-> FALSE]
  /\ UNCHANGED <<gens, generator_active_list_, commandVars>>

\* The end of getNext_ of the composite: it ends when no child is active, or has Fragments
\* with IDs that the composite does not list.
NextChild(any, frags) ==
  IF getter.at < Children
  THEN [getter EXCEPT !.pc = "child", !.at = @ + 1, !.any = any, !.frags = frags]
  ELSE [pc |-> IF any /\ (declares \/ frags = {}) THEN "idle" ELSE "ended", at |-> 1, frags |-> {}, any |-> FALSE]

\* A child that is not active any more is passed over.
SkipChild ==
  /\ getter.pc = "child" /\ ~generator_active_list_[getter.at]
  /\ getter' = NextChild(getter.any, getter.frags)
  /\ UNCHANGED <<gens, generator_active_list_, commandVars>>

\* Its getNext checks before it locks.
EnterChild ==
  /\ getter.pc = "child" /\ generator_active_list_[getter.at] /\ MayRead(getter.at)
  /\ getter' = [getter EXCEPT !.pc = "passed child"]
  /\ UNCHANGED <<gens, generator_active_list_, commandVars>>

\* The child returned status; an exception of it becomes one of the composite.
ChildReturns(c, status, exception, frags) ==
  IF ~status /\ exception
  THEN /\ getter' = [pc |-> "ended", at |-> 1, frags |-> {}, any |-> FALSE]
       /\ gens' = [gens EXCEPT ![0].exception = TRUE, ![c].exception = exception]
       /\ UNCHANGED generator_active_list_
  ELSE /\ getter' = NextChild(getter.any \/ status, frags)
       /\ gens' = [gens EXCEPT ![c].exception = exception]
       /\ generator_active_list_' = [generator_active_list_ EXCEPT ![c] = status]

RefusedByChild ==
  /\ getter.pc = "child" /\ generator_active_list_[getter.at] /\ ~MayRead(getter.at)
  /\ ChildReturns(getter.at, FALSE, gens[getter.at].exception, getter.frags)
  /\ UNCHANGED commandVars

\* The child has its mutex; bad hardware ends it there.
BeginRead ==
  /\ getter.pc = "passed child" /\ gens[getter.at].hardwareOK
  /\ getter' = [getter EXCEPT !.pc = "in child"]
  /\ UNCHANGED <<gens, generator_active_list_, commandVars>>

BadHardware ==
  /\ getter.pc = "passed child" /\ ~gens[getter.at].hardwareOK
  /\ ChildReturns(getter.at, FALSE, FALSE, getter.frags)
  /\ UNCHANGED commandVars

\* Every Fragment of the list must be one of the child.
ForeignIDs(c, frags) == frags \ {c} # {}

\* getNext_ of the child: it has data or none, it is at the end, or it throws.
EndRead ==
  /\ getter.pc = "in child"
  /\ LET c == getter.at IN
     \/ \E frags \in {getter.frags, getter.frags \cup {c}}, ok \in BOOLEAN :
          ChildReturns(c, ok /\ ~ForeignIDs(c, frags), FALSE, frags)
     \/ ChildReturns(c, FALSE, TRUE, getter.frags)
  /\ UNCHANGED commandVars

\* getMonitoringDataLoop of a child.
MonitorChild(c) ==
  /\ gens[c].monitoring
  /\ \E ok \in BOOLEAN :
       gens' = [gens EXCEPT ![c].hardwareOK = ok, ![c].monitoring = ~gens[c].stop]
  /\ UNCHANGED <<generator_active_list_, getter, commandVars>>

-----------------------------------------------------------------------------
(* The commands *)

BeginOrder(name, state, at) ==
  /\ order.name = "none" /\ brState = state /\ ordersSent < MaxCommands
  /\ order' = [name |-> name, at |-> at] /\ ordersSent' = ordersSent + 1

OrderDone(state) == order' = [name |-> "none", at |-> 0] /\ brState' = state

NewGetter == [pc |-> "idle", at |-> 1, frags |-> {}, any |-> FALSE]

\* StartCmd of a generator.
ResetGenerator(g) == [gens EXCEPT ![g].stop = FALSE, ![g].exception = FALSE, ![g].monitoring = g # 0]

\* The composite is reset, then its children are started in their order; the thread that read
\* in the run before has been joined.
BeginStart ==
  /\ BeginOrder("start", "Ready", 1) /\ getter.pc \in {"none", "ended"}
  /\ gens' = ResetGenerator(0)
  /\ generator_active_list_' = [c \in ChildGen |-> TRUE]
  /\ UNCHANGED <<getter, brState, declares>>

\* The last one started: the thread that reads begins.
StartChild ==
  /\ order.name = "start"
  /\ gens' = ResetGenerator(order.at)
  /\ IF order.at < Children
     THEN order' = [order EXCEPT !.at = @ + 1] /\ UNCHANGED <<getter, brState>>
     ELSE getter' = NewGetter /\ OrderDone("Running")
  /\ UNCHANGED <<generator_active_list_, ordersSent, declares>>

\* start() of a child throws; those before it stay started.  What the board reader can still be
\* told is in Application.
StartFails ==
  /\ order.name = "start"
  /\ gens' = [gens EXCEPT ![order.at].stop = FALSE, ![order.at].exception = FALSE]
  /\ OrderDone("Error")
  /\ UNCHANGED <<generator_active_list_, getter, ordersSent, declares>>

\* stopNoMutex stops the children in reverse order, before the composite itself.
BeginStop ==
  /\ \/ BeginOrder("stop", "Running", Children) \/ BeginOrder("stop", "Paused", Children)
  /\ UNCHANGED <<gens, generator_active_list_, getter, brState, declares>>

\* StopCmd and PauseCmd set the flag, and go on when they get the mutex.
FlagStop(g) ==
  /\ ~gens[g].stop
  /\ gens' = [gens EXCEPT ![g].stop = TRUE]
  /\ UNCHANGED order

StopGenerator ==
  /\ order.name = "stop" /\ order.at # 0
  /\ \/ FlagStop(order.at)
     \/ /\ gens[order.at].stop /\ ~HeldByGetter(order.at)
        /\ gens' = [gens EXCEPT ![order.at].monitoring = FALSE]
        /\ order' = [order EXCEPT !.at = @ - 1]
  /\ UNCHANGED <<generator_active_list_, getter, brState, ordersSent, declares>>

\* Mutant: StopCmd does not wait for the mutex.
CompositeLocked_not == FALSE

\* Another thread has the mutex of the composite.
CompositeLocked == HeldByGetter(0)

StopComposite ==
  /\ order.name = "stop" /\ order.at = 0
  /\ \/ FlagStop(0) /\ UNCHANGED brState
     \/ /\ gens[0].stop /\ ~CompositeLocked
        /\ OrderDone("Ready")
        /\ UNCHANGED gens
  /\ UNCHANGED <<generator_active_list_, getter, ordersSent, declares>>

\* PauseCmd of the composite has the mutex while its children are paused.
BeginPause ==
  /\ BeginOrder("pausing", "Running", 0)
  /\ gens' = [gens EXCEPT ![0].stop = TRUE]
  /\ UNCHANGED <<generator_active_list_, getter, brState, declares>>

LockForPause ==
  /\ order.name = "pausing" /\ ~CompositeLocked
  /\ order' = [name |-> "pause", at |-> Children]
  /\ UNCHANGED <<gens, generator_active_list_, getter, brState, ordersSent, declares>>

PauseChild ==
  /\ order.name = "pause"
  /\ gens' = [gens EXCEPT ![order.at].stop = TRUE]
  /\ IF order.at > 1 THEN order' = [order EXCEPT !.at = @ - 1] /\ UNCHANGED brState
                     ELSE OrderDone("Paused")
  /\ UNCHANGED <<generator_active_list_, getter, ordersSent, declares>>

\* The thread that read has ended and been joined; nobody else reads while the flags go.
\* The monitoring threads are not started again.
ResumeAll ==
  /\ BeginOrder("resume", "Paused", 0) /\ getter.pc = "ended"
  /\ UNCHANGED <<gens, generator_active_list_, getter, brState, declares>>

FinishResume ==
  /\ order.name = "resume"
  /\ gens' = [g \in Generator |-> [gens[g] EXCEPT !.stop = FALSE]]
  /\ generator_active_list_' = [c \in ChildGen |-> TRUE]
  /\ getter' = NewGetter /\ OrderDone("Running")
  /\ UNCHANGED <<ordersSent, declares>>

GetNext ==
  \/ EnterGetNext \/ LockComposite \/ SkipChild \/ EnterChild \/ RefusedByChild
  \/ BeginRead \/ BadHardware \/ EndRead

CompositeNext ==
  \/ GetNext \/ \E c \in ChildGen : MonitorChild(c)
  \/ BeginStart \/ StartChild \/ StartFails
  \/ BeginStop \/ StopGenerator \/ StopComposite
  \/ BeginPause \/ LockForPause \/ PauseChild \/ ResumeAll \/ FinishResume

CompositeSpec == CompositeInit /\ [][CompositeNext]_compositeVars
-----------------------------------------------------------------------------
(* Properties *)

\* The exception of a child is one of the board reader, whatever the other children do;
\* and once a stop or a pause has returned no child reads, wherever the thread that reads was.
ChildrenFollow ==
  /\ brState = "Running" /\ getter.pc \in {"idle", "ended"} =>
       \A c \in ChildGen : gens[c].exception => gens[0].exception
  /\ brState # "Running" /\ order.name = "none" => getter.pc # "in child"
===============================================================================
