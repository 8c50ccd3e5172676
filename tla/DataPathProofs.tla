---------------------------- MODULE DataPathProofs ----------------------------
(* The parts of the data path, each for any number of Fragments, connections, children, *)
(* destinations and failures: a composite generator and its children follow each other; *)
(* a receiver thread that ends by its count has left nothing behind; and no transfer    *)
(* plugin hands over a Fragment it was not given, or parts of several as one.           *)
EXTENDS CompositeDriver, DataLink, Transfers, SortingProofs, FiniteSetTheorems, SequenceTheorems, TLAPS

(***************************************************************************)
(* A composite generator and its children.                                 *)
(***************************************************************************)

Flags == [stop : BOOLEAN, exception : BOOLEAN, hardwareOK : BOOLEAN, monitoring : BOOLEAN]

Places == {"none", "idle", "passed", "child", "passed child", "in child", "ended"}

Getters == [pc : Places, at : ChildGen, frags : SUBSET ChildGen, any : BOOLEAN]

CompositeTypeOK ==
  /\ gens \in [Generator -> Flags]
  /\ generator_active_list_ \in [ChildGen -> BOOLEAN]
  /\ getter \in Getters
  /\ order \in [name : {"none", "start", "stop", "pausing", "pause", "resume"}, at : Generator]
  /\ order.name \in {"start", "pause"} => order.at \in ChildGen
  /\ brState \in {"Ready", "Running", "Paused", "Error"}

\* The flag of the composite is set, and those of the children after n.
StoppedPast(n) == gens[0].stop /\ \A c \in ChildGen : c > n => gens[c].stop

GetterReading == getter.pc \in {"passed child", "in child"}

\* Which thread is where during each command: nobody reads while the flags of a stop are
\* taken back, and a thread that comes late finds the flag of every child set.
OrderInv ==
  /\ order.name \in {"start", "resume"} => getter.pc \in {"none", "ended"}
  /\ order.name = "start" => brState = "Ready"
  /\ order.name # "none" => brState # "Error"
  /\ order.name = "stop" => \A c \in ChildGen : c > order.at => gens[c].stop
  /\ order.name = "pausing" => gens[0].stop
  /\ order.name = "pause" => ~HeldByGetter(0) /\ StoppedPast(order.at)

RestInv ==
  order.name = "none" /\ brState # "Running" =>
    \/ getter.pc \in {"none", "ended"}
    \/ ~GetterReading /\ StoppedPast(0)

\* No exception of a child stays with it, but for those of the run before while the
\* children are started one after the other.
ExceptionInv ==
  /\ order.name = "start" => \A c \in ChildGen : c < order.at => ~gens[c].exception
  /\ order.name # "start" /\ brState # "Error" =>
       \A c \in ChildGen : gens[c].exception => gens[0].exception

CompositeInv == CompositeTypeOK /\ OrderInv /\ RestInv /\ ExceptionInv
-------------------------------------------------------------------------------
\* The composite is 0 and its children are numbered from 1.
LEMMA Numbers ==
  /\ 1 \in ChildGen /\ Children \in ChildGen
  /\ 0 \in Generator /\ 0 \notin ChildGen /\ ChildGen \subseteq Generator
  /\ \A c \in ChildGen : c > 0 /\ c <= Children
  /\ \A c \in ChildGen : c < Children => c + 1 \in ChildGen
  /\ \A c \in ChildGen : c > 1 => c - 1 \in ChildGen
BY CompositeAssumption DEF ChildGen, Generator

LEMMA CompositeInvInit == CompositeInit => CompositeInv
<1> SUFFICES ASSUME CompositeInit PROVE CompositeInv
  OBVIOUS
<1>1. CompositeTypeOK
  BY CompositeAssumption DEF CompositeInit, CompositeTypeOK, Flags, Getters, Places, ChildGen, Generator
<1>2. OrderInv /\ RestInv
  BY DEF CompositeInit, OrderInv, RestInv
<1>3. ExceptionInv
  BY DEF CompositeInit, ExceptionInv, ChildGen, Generator
<1> QED BY <1>1, <1>2, <1>3 DEF CompositeInv

\* The three ways a step of the thread in getNext changes what the invariant is about: its
\* place only, its place and the flags of a child, or those of the composite.
LEMMA PlaceKeeps ==
  ASSUME CompositeInv, UNCHANGED <<gens, generator_active_list_, commandVars>>,
         getter' \in Getters, getter.pc \notin {"none", "ended"},
         order.name = "pause" => getter'.pc \notin {"child", "passed child", "in child"},
         getter'.pc \in {"passed child", "in child"} =>
           \/ getter.pc \in {"passed child", "in child"}
           \/ getter.pc = "child" /\ ~gens[getter.at].stop
  PROVE  CompositeInv'
<1> USE DEF CompositeInv
<1>1. CompositeTypeOK'
  BY DEF CompositeTypeOK, commandVars
<1>2. OrderInv'
  BY DEF OrderInv, commandVars, HeldByGetter, StoppedPast, ChildGen
<1>3. RestInv'
  <2> SUFFICES ASSUME order.name = "none", brState # "Running"
               PROVE  (getter.pc \in {"none", "ended"} \/ (~GetterReading /\ StoppedPast(0)))'
    BY DEF RestInv, commandVars
  <2>1. getter.at \in ChildGen
    BY DEF CompositeTypeOK, Getters
  <2>2. ~GetterReading /\ StoppedPast(0)
    BY DEF RestInv
  <2>3. gens[getter.at].stop
    BY <2>1, <2>2, Numbers DEF StoppedPast
  <2>4. StoppedPast(0)'
    BY <2>2 DEF StoppedPast
  <2> QED BY <2>2, <2>3, <2>4 DEF GetterReading
<1>4. ExceptionInv'
  BY DEF ExceptionInv, commandVars
<1> QED BY <1>1, <1>2, <1>3, <1>4

LEMMA ReturnKeeps ==
  ASSUME CompositeInv, UNCHANGED commandVars,
         getter.pc \in {"child", "passed child", "in child"},
         NEW c \in ChildGen, NEW status \in BOOLEAN, NEW exception \in BOOLEAN,
         NEW frags \in SUBSET ChildGen, status => ~exception,
         ChildReturns(c, status, exception, frags)
  PROVE  CompositeInv'
<1> USE DEF CompositeInv
<1>1. getter' \in Getters /\ getter'.pc \in {"child", "idle", "ended"}
  <2>1. getter \in Getters /\ getter.at \in ChildGen /\ 1 \in ChildGen
    BY Numbers DEF CompositeTypeOK, Getters
  <2>2. getter.at < Children => getter.at + 1 \in ChildGen
    BY <2>1, Numbers
  <2>3. NextChild(getter.any \/ status, frags) \in Getters
    BY <2>1, <2>2 DEF NextChild, Getters, Places
  <2>4. NextChild(getter.any \/ status, frags).pc \in {"child", "idle", "ended"}
    BY <2>1 DEF NextChild, Getters
  <2>5. CASE ~status /\ exception
    <3>1. getter' = [pc |-> "ended", at |-> 1, frags |-> {}, any |-> FALSE]
      BY <2>5 DEF ChildReturns
    <3> QED BY <2>1, <3>1 DEF Getters, Places
  <2>6. CASE ~(~status /\ exception)
    BY <2>3, <2>4, <2>6 DEF ChildReturns
  <2> QED BY <2>5, <2>6
<1>2. generator_active_list_' \in [ChildGen -> BOOLEAN]
  BY DEF ChildReturns, CompositeTypeOK
<1>3. gens' \in [Generator -> Flags] /\ \A g \in Generator : gens'[g].stop = gens[g].stop
  <2>1. c \in Generator /\ 0 \in Generator /\ c # 0
    BY Numbers
  <2>2. gens \in [Generator -> Flags]
    BY DEF CompositeTypeOK
  <2>3. CASE ~status /\ exception
    <3>1. gens' = [gens EXCEPT ![0].exception = TRUE, ![c].exception = exception]
      BY <2>3 DEF ChildReturns
    <3> QED BY <2>1, <2>2, <3>1 DEF Flags
  <2>4. CASE ~(~status /\ exception)
    <3>1. gens' = [gens EXCEPT ![c].exception = exception]
      BY <2>4 DEF ChildReturns
    <3> QED BY <2>1, <2>2, <3>1 DEF Flags
  <2> QED BY <2>3, <2>4
<1>4. \A d \in ChildGen : gens'[d].exception => gens'[0].exception \/ (gens[d].exception /\ gens[0].exception = gens'[0].exception)
  <2>1. c \in Generator /\ 0 \in Generator /\ ChildGen \subseteq Generator /\ 0 \notin ChildGen
    BY Numbers
  <2>2. gens \in [Generator -> Flags]
    BY DEF CompositeTypeOK
  <2>3. CASE ~status /\ exception
    <3>1. gens' = [gens EXCEPT ![0].exception = TRUE, ![c].exception = exception]
      BY <2>3 DEF ChildReturns
    <3> QED BY <2>1, <2>2, <3>1 DEF Flags
  <2>4. CASE ~(~status /\ exception)
    <3>1. gens' = [gens EXCEPT ![c].exception = exception] /\ ~exception
      BY <2>4 DEF ChildReturns
    <3> QED BY <2>1, <2>2, <3>1 DEF Flags
  <2> QED BY <2>3, <2>4
<1>5. order.name \notin {"start", "resume", "pause"}
  BY DEF OrderInv, HeldByGetter
<1>6. CompositeTypeOK'
  BY <1>1, <1>2, <1>3 DEF CompositeTypeOK, commandVars
<1>7. ChildGen \subseteq Generator /\ 0 \in Generator
  BY Numbers
<1>8. OrderInv'
  BY <1>3, <1>5, <1>7 DEF OrderInv, commandVars
<1>9. RestInv'
  BY <1>1, <1>3, <1>7 DEF RestInv, commandVars, GetterReading, StoppedPast
<1>10. ExceptionInv'
  BY <1>4, <1>5 DEF ExceptionInv, commandVars
<1> QED BY <1>6, <1>8, <1>9, <1>10

LEMMA GetNextKeeps ==
  ASSUME CompositeInv, GetNext
  PROVE  CompositeInv'
<1>1. getter \in Getters /\ getter.at \in ChildGen /\ getter.frags \in SUBSET ChildGen
  BY DEF CompositeInv, CompositeTypeOK, Getters
<1>2. CASE EnterGetNext
  BY <1>1, <1>2, PlaceKeeps DEF EnterGetNext, Getters, Places
<1>3. CASE LockComposite
  <2>1. getter' \in Getters /\ getter'.pc = "child"
    BY <1>3, Numbers DEF LockComposite, Getters, Places
  <2> QED BY <1>3, <2>1, PlaceKeeps DEF LockComposite
<1>4. CASE SkipChild
  <2>1. getter' \in Getters /\ getter'.pc \in {"child", "idle", "ended"}
    BY <1>1, <1>4, Numbers DEF SkipChild, NextChild, Getters, Places
  <2>2. order.name # "pause"
    BY <1>4 DEF SkipChild, CompositeInv, OrderInv, HeldByGetter
  <2> QED BY <1>4, <2>1, <2>2, PlaceKeeps DEF SkipChild
<1>5. CASE EnterChild
  BY <1>1, <1>5, PlaceKeeps DEF EnterChild, MayRead, Getters, Places, CompositeInv, OrderInv, HeldByGetter
<1>6. CASE BeginRead
  BY <1>1, <1>6, PlaceKeeps DEF BeginRead, Getters, Places, CompositeInv, OrderInv, HeldByGetter
<1>7. CASE RefusedByChild
  <2>1. gens[getter.at].exception \in BOOLEAN
    BY <1>1 DEF CompositeInv, CompositeTypeOK, Flags, ChildGen, Generator
  <2> QED BY <1>1, <1>7, <2>1, ReturnKeeps DEF RefusedByChild
<1>8. CASE BadHardware
  BY <1>1, <1>8, ReturnKeeps DEF BadHardware
<1>9. CASE EndRead
  <2>1. CASE ChildReturns(getter.at, FALSE, TRUE, getter.frags)
    BY <1>1, <1>9, <2>1, ReturnKeeps DEF EndRead
  <2>2. ASSUME NEW frags \in {getter.frags, getter.frags \cup {getter.at}}, NEW ok \in BOOLEAN,
               ChildReturns(getter.at, ok /\ ~ForeignIDs(getter.at, frags), FALSE, frags)
        PROVE  CompositeInv'
    <3>1. frags \in SUBSET ChildGen /\ (ok /\ ~ForeignIDs(getter.at, frags)) \in BOOLEAN
      BY <1>1
    <3> QED BY <1>1, <1>9, <2>2, <3>1, ReturnKeeps DEF EndRead
  <2> QED BY <1>9, <2>1, <2>2 DEF EndRead
<1> QED BY <1>2, <1>3, <1>4, <1>5, <1>6, <1>7, <1>8, <1>9 DEF GetNext

\* A flag that is set changes no other one, and no exception.
LEMMA FlagFacts ==
  ASSUME gens \in [Generator -> Flags], NEW g \in Generator,
         gens' = [gens EXCEPT ![g].stop = TRUE]
  PROVE  /\ gens' \in [Generator -> Flags] /\ gens'[g].stop
         /\ \A d \in Generator : gens'[d].exception = gens[d].exception
         /\ \A d \in Generator : gens[d].stop => gens'[d].stop
BY DEF Flags

\* Starting a generator changes that one only.
LEMMA StartFacts ==
  ASSUME gens \in [Generator -> Flags], NEW g \in Generator, NEW m \in BOOLEAN,
         \/ gens' = [gens EXCEPT ![g].stop = FALSE, ![g].exception = FALSE, ![g].monitoring = m]
         \/ gens' = [gens EXCEPT ![g].stop = FALSE, ![g].exception = FALSE]
  PROVE  /\ gens' \in [Generator -> Flags] /\ ~gens'[g].exception
         /\ \A d \in Generator \ {g} : gens'[d] = gens[d]
<1>1. CASE gens' = [gens EXCEPT ![g].stop = FALSE, ![g].exception = FALSE, ![g].monitoring = m]
  <2> DEFINE reset == [gens EXCEPT ![g].stop = FALSE, ![g].exception = FALSE]
  <2>1. reset \in [Generator -> Flags] /\ ~reset[g].exception
    BY DEF Flags
  <2>2. \A d \in Generator \ {g} : reset[d] = gens[d]
    OBVIOUS
  <2>3. gens' = [reset EXCEPT ![g].monitoring = m]
    BY <1>1
  <2> HIDE DEF reset
  <2>4. gens' \in [Generator -> Flags] /\ ~gens'[g].exception
    BY <2>1, <2>3 DEF Flags
  <2>5. \A d \in Generator \ {g} : gens'[d] = reset[d]
    BY <2>1, <2>3
  <2> QED BY <2>2, <2>4, <2>5
<1>2. CASE gens' = [gens EXCEPT ![g].stop = FALSE, ![g].exception = FALSE]
  <2>1. gens'[g] = [stop |-> FALSE, exception |-> FALSE, hardwareOK |-> gens[g].hardwareOK, monitoring |-> gens[g].monitoring]
    BY <1>2 DEF Flags
  <2>2. \A d \in Generator \ {g} : gens'[d] = gens[d]
    BY <1>2
  <2>3. gens' \in [Generator -> Flags]
    BY <1>2, <2>1, <2>2 DEF Flags
  <2> QED BY <2>1, <2>2, <2>3
<1> QED BY <1>1, <1>2

LEMMA MonitorKeeps ==
  ASSUME CompositeInv, NEW c \in ChildGen, MonitorChild(c)
  PROVE  CompositeInv'
<1> USE DEF CompositeInv
<1>1. PICK ok \in BOOLEAN :
        gens' = [gens EXCEPT ![c].hardwareOK = ok, ![c].monitoring = ~gens[c].stop]
  BY DEF MonitorChild
<1>2. gens \in [Generator -> Flags] /\ c \in Generator
  BY Numbers DEF CompositeTypeOK
<1>3. gens' \in [Generator -> Flags]
  BY <1>1, <1>2 DEF Flags
<1>4. \A d \in Generator : gens'[d].stop = gens[d].stop /\ gens'[d].exception = gens[d].exception
  BY <1>1, <1>2 DEF Flags
<1>5. CompositeTypeOK'
  BY <1>3 DEF MonitorChild, CompositeTypeOK, commandVars
<1>6. OrderInv' /\ RestInv'
  BY <1>4, Numbers
  DEF MonitorChild, OrderInv, RestInv, commandVars, GetterReading, HeldByGetter, StoppedPast
<1>7. ExceptionInv'
  BY <1>4, Numbers DEF MonitorChild, ExceptionInv, commandVars
<1> QED BY <1>5, <1>6, <1>7

LEMMA StartPassKeeps ==
  ASSUME CompositeInv, BeginStart \/ StartChild \/ StartFails
  PROVE  CompositeInv'
<1> USE DEF CompositeInv
<1>1. gens \in [Generator -> Flags] /\ order.at \in Generator
  BY DEF CompositeTypeOK
<1>2. NewGetter \in Getters /\ NewGetter.pc = "idle"
  BY Numbers DEF NewGetter, Getters, Places
<1>3. CASE BeginStart
  <2>1. gens' = [gens EXCEPT ![0].stop = FALSE, ![0].exception = FALSE, ![0].monitoring = FALSE]
    BY <1>3 DEF BeginStart, ResetGenerator
  <2>2. gens' \in [Generator -> Flags] /\ \A c \in ChildGen : gens'[c] = gens[c]
    BY <1>1, <2>1, Numbers, StartFacts
  <2>3. order' = [name |-> "start", at |-> 1] /\ brState' = "Ready" /\ getter' = getter
    BY <1>3 DEF BeginStart, BeginOrder
  <2>4. CompositeTypeOK'
    BY <1>3, <2>2, <2>3, Numbers DEF BeginStart, CompositeTypeOK
  <2>5. OrderInv' /\ RestInv'
    BY <1>3, <2>3 DEF BeginStart, OrderInv, RestInv
  <2>6. ExceptionInv'
    BY <2>3, Numbers DEF ExceptionInv, ChildGen
  <2> QED BY <2>4, <2>5, <2>6
<1>4. CASE StartChild
  <2>1. order.at \in ChildGen
    BY <1>4 DEF StartChild, CompositeTypeOK
  <2>2. gens' = [gens EXCEPT ![order.at].stop = FALSE, ![order.at].exception = FALSE, ![order.at].monitoring = TRUE]
    BY <1>4, <2>1, Numbers DEF StartChild, ResetGenerator
  <2>3. gens' \in [Generator -> Flags] /\ \A c \in ChildGen : c <= order.at => ~gens'[c].exception
    <3>1. /\ gens' \in [Generator -> Flags] /\ ~gens'[order.at].exception
          /\ \A d \in Generator \ {order.at} : gens'[d] = gens[d]
      BY <1>1, <2>2, StartFacts
    <3>2. \A c \in ChildGen : c < order.at => ~gens[c].exception
      BY <1>4 DEF StartChild, ExceptionInv
    <3>3. ASSUME NEW c \in ChildGen, c <= order.at PROVE ~gens'[c].exception
      BY <2>1, <3>1, <3>2, <3>3, Numbers DEF ChildGen
    <3> QED BY <3>1, <3>3
  <2>4. CASE order.at < Children
    <3>1. order' = [order EXCEPT !.at = @ + 1] /\ getter' = getter /\ brState' = brState
      BY <1>4, <2>4 DEF StartChild
    <3>2. order'.name = "start" /\ order'.at = order.at + 1 /\ order.at + 1 \in ChildGen
      BY <1>4, <2>1, <2>4, <3>1, Numbers DEF StartChild, CompositeTypeOK
    <3>3. CompositeTypeOK'
      BY <1>4, <2>3, <3>1, <3>2, Numbers DEF StartChild, CompositeTypeOK
    <3>4. OrderInv' /\ RestInv'
      BY <1>4, <3>1, <3>2 DEF StartChild, OrderInv, RestInv
    <3>5. ExceptionInv'
      BY <2>1, <2>3, <3>2 DEF ExceptionInv, ChildGen
    <3> QED BY <3>3, <3>4, <3>5
  <2>5. CASE ~(order.at < Children)
    <3>1. getter' = NewGetter /\ order' = [name |-> "none", at |-> 0] /\ brState' = "Running"
      BY <1>4, <2>5 DEF StartChild, OrderDone
    <3>2. CompositeTypeOK'
      BY <1>2, <1>4, <2>3, <3>1, Numbers DEF StartChild, CompositeTypeOK
    <3>3. OrderInv' /\ RestInv'
      BY <3>1 DEF OrderInv, RestInv
    <3>4. \A c \in ChildGen : ~gens'[c].exception
      BY <2>1, <2>3, <2>5, Numbers DEF ChildGen
    <3>5. ExceptionInv'
      BY <3>1, <3>4 DEF ExceptionInv
    <3> QED BY <3>2, <3>3, <3>5
  <2> QED BY <2>4, <2>5
<1>5. CASE StartFails
  <2>1. gens' \in [Generator -> Flags]
    BY <1>1, <1>5, StartFacts DEF StartFails
  <2>2. order' = [name |-> "none", at |-> 0] /\ brState' = "Error" /\ getter' = getter
    BY <1>5 DEF StartFails, OrderDone
  <2>3. CompositeTypeOK'
    BY <1>5, <2>1, <2>2, Numbers DEF StartFails, CompositeTypeOK
  <2>4. OrderInv' /\ RestInv' /\ ExceptionInv'
    BY <1>5, <2>2 DEF StartFails, OrderInv, RestInv, ExceptionInv
  <2> QED BY <2>3, <2>4
<1> QED BY <1>3, <1>4, <1>5

LEMMA StopKeeps ==
  ASSUME CompositeInv, BeginStop \/ StopGenerator \/ StopComposite
  PROVE  CompositeInv'
<1> USE DEF CompositeInv
<1>1. gens \in [Generator -> Flags] /\ order.at \in Generator
  BY DEF CompositeTypeOK
<1>2. CASE BeginStop
  <2>1. /\ order' = [name |-> "stop", at |-> Children] /\ brState # "Error" /\ order.name = "none"
        /\ UNCHANGED <<gens, generator_active_list_, getter, brState, declares>>
    BY <1>2 DEF BeginStop, BeginOrder
  <2>2. CompositeTypeOK'
    BY <2>1, Numbers DEF CompositeTypeOK
  <2>3. OrderInv'
    <3>1. \A c \in ChildGen : ~(c > Children)
      BY Numbers, CompositeAssumption DEF ChildGen
    <3> QED BY <2>1, <3>1 DEF OrderInv
  <2>4. RestInv' /\ ExceptionInv'
    BY <2>1 DEF RestInv, ExceptionInv
  <2> QED BY <2>2, <2>3, <2>4
<1>3. CASE StopGenerator
  <2>1. order.name = "stop" /\ order.at \in ChildGen /\ brState # "Error"
    BY <1>1, <1>3 DEF StopGenerator, ChildGen, Generator, OrderInv
  <2>2. CASE FlagStop(order.at)
    <3>1. /\ gens' \in [Generator -> Flags]
          /\ \A d \in Generator : gens'[d].exception = gens[d].exception
          /\ \A d \in Generator : gens[d].stop => gens'[d].stop
          /\ order' = order
      BY <1>1, <2>2, FlagFacts DEF FlagStop
    <3>2. CompositeTypeOK'
      BY <1>3, <3>1 DEF StopGenerator, CompositeTypeOK
    <3>3. OrderInv'
      BY <1>3, <2>1, <3>1, Numbers DEF StopGenerator, OrderInv
    <3>4. RestInv' /\ ExceptionInv'
      BY <1>3, <2>1, <3>1, Numbers DEF StopGenerator, RestInv, ExceptionInv
    <3> QED BY <3>2, <3>3, <3>4
  <2>3. CASE ~FlagStop(order.at)
    <3>1. /\ gens[order.at].stop
          /\ gens' = [gens EXCEPT ![order.at].monitoring = FALSE]
          /\ order' = [order EXCEPT !.at = @ - 1]
          /\ UNCHANGED <<getter, brState, generator_active_list_>>
      BY <1>3, <2>3 DEF StopGenerator
    <3>2. /\ gens' \in [Generator -> Flags]
          /\ \A d \in Generator : gens'[d].exception = gens[d].exception
          /\ \A d \in Generator : gens'[d].stop = gens[d].stop
      BY <1>1, <3>1 DEF Flags
    <3>3. order'.name = "stop" /\ order'.at = order.at - 1 /\ order.at - 1 \in Generator
      <4>1. order.at - 1 \in Generator
        BY <2>1, CompositeAssumption DEF ChildGen, Generator
      <4>2. order'.name = "stop" /\ order'.at = order.at - 1
        BY <2>1, <3>1 DEF CompositeTypeOK
      <4> QED BY <4>1, <4>2
    <3>4. CompositeTypeOK'
      BY <2>1, <3>1, <3>2, <3>3 DEF CompositeTypeOK
    <3>5. \A c \in ChildGen : c > order.at - 1 => gens[c].stop
      BY <2>1, <3>1 DEF OrderInv, ChildGen
    <3>6. OrderInv'
      BY <2>1, <3>1, <3>2, <3>3, <3>5, Numbers DEF OrderInv
    <3>7. RestInv' /\ ExceptionInv'
      BY <2>1, <3>1, <3>2, <3>3, Numbers DEF RestInv, ExceptionInv
    <3> QED BY <3>4, <3>6, <3>7
  <2> QED BY <2>2, <2>3
<1>4. CASE StopComposite
  <2>1. order.name = "stop" /\ order.at = 0 /\ brState # "Error"
    BY <1>4 DEF StopComposite, OrderInv
  <2>2. CASE FlagStop(0) /\ UNCHANGED brState
    <3>1. /\ gens' \in [Generator -> Flags]
          /\ \A d \in Generator : gens'[d].exception = gens[d].exception
          /\ \A d \in Generator : gens[d].stop => gens'[d].stop
          /\ order' = order
      BY <1>1, <2>2, FlagFacts, Numbers DEF FlagStop
    <3>2. CompositeTypeOK'
      BY <1>4, <2>2, <3>1 DEF StopComposite, CompositeTypeOK
    <3>3. OrderInv'
      BY <1>4, <2>1, <2>2, <3>1, Numbers DEF StopComposite, OrderInv
    <3>4. RestInv' /\ ExceptionInv'
      BY <1>4, <2>1, <2>2, <3>1, Numbers DEF StopComposite, RestInv, ExceptionInv
    <3> QED BY <3>2, <3>3, <3>4
  <2>3. CASE ~(FlagStop(0) /\ UNCHANGED brState)
    <3>1. /\ gens[0].stop /\ ~HeldByGetter(0)
          /\ order' = [name |-> "none", at |-> 0] /\ brState' = "Ready"
          /\ UNCHANGED <<gens, generator_active_list_, getter>>
      BY <1>4, <2>3 DEF StopComposite, CompositeLocked, OrderDone
    <3>2. CompositeTypeOK'
      BY <3>1, Numbers DEF CompositeTypeOK
    <3>3. OrderInv' /\ ExceptionInv'
      BY <2>1, <3>1 DEF OrderInv, ExceptionInv
    <3>4. ~GetterReading /\ StoppedPast(0)
      BY <2>1, <3>1, Numbers DEF OrderInv, StoppedPast, GetterReading, HeldByGetter
    <3>5. RestInv'
      BY <3>1, <3>4 DEF RestInv, StoppedPast, GetterReading
    <3> QED BY <3>2, <3>3, <3>5
  <2> QED BY <2>2, <2>3
<1> QED BY <1>2, <1>3, <1>4

LEMMA PauseKeeps ==
  ASSUME CompositeInv, BeginPause \/ LockForPause \/ PauseChild
  PROVE  CompositeInv'
<1> USE DEF CompositeInv
<1>1. gens \in [Generator -> Flags] /\ order.at \in Generator
  BY DEF CompositeTypeOK
<1>2. CASE BeginPause
  <2>1. /\ order' = [name |-> "pausing", at |-> 0] /\ brState = "Running" /\ order.name = "none"
        /\ gens' = [gens EXCEPT ![0].stop = TRUE]
        /\ UNCHANGED <<generator_active_list_, getter, brState, declares>>
    BY <1>2 DEF BeginPause, BeginOrder
  <2>2. /\ gens' \in [Generator -> Flags] /\ gens'[0].stop
        /\ \A d \in Generator : gens'[d].exception = gens[d].exception
    BY <1>1, <2>1, FlagFacts, Numbers
  <2>3. CompositeTypeOK'
    BY <2>1, <2>2, Numbers DEF CompositeTypeOK
  <2>4. OrderInv' /\ RestInv'
    BY <2>1, <2>2 DEF OrderInv, RestInv
  <2>5. ExceptionInv'
    BY <2>1, <2>2, Numbers DEF ExceptionInv
  <2> QED BY <2>3, <2>4, <2>5
<1>3. CASE LockForPause
  <2>1. /\ order' = [name |-> "pause", at |-> Children] /\ order.name = "pausing" /\ ~HeldByGetter(0)
        /\ UNCHANGED <<gens, generator_active_list_, getter, brState, declares>>
    BY <1>3 DEF LockForPause, CompositeLocked
  <2>2. CompositeTypeOK'
    BY <2>1, Numbers DEF CompositeTypeOK
  <2>3. OrderInv'
    <3>1. \A c \in ChildGen : ~(c > Children)
      BY Numbers, CompositeAssumption DEF ChildGen
    <3>2. gens[0].stop /\ brState # "Error"
      BY <2>1 DEF OrderInv
    <3> QED BY <2>1, <3>1, <3>2 DEF OrderInv, HeldByGetter, StoppedPast
  <2>4. RestInv' /\ ExceptionInv'
    BY <2>1 DEF RestInv, ExceptionInv
  <2> QED BY <2>2, <2>3, <2>4
<1>4. CASE PauseChild
  <2>1. order.name = "pause" /\ order.at \in ChildGen /\ brState # "Error" /\ ~HeldByGetter(0)
    BY <1>4 DEF PauseChild, CompositeTypeOK, OrderInv
  <2>2. /\ gens' \in [Generator -> Flags] /\ gens'[order.at].stop
        /\ \A d \in Generator : gens'[d].exception = gens[d].exception
        /\ \A d \in Generator : gens[d].stop => gens'[d].stop
    BY <1>1, <1>4, FlagFacts DEF PauseChild
  <2>3. gens'[0].stop /\ \A c \in ChildGen : c > order.at - 1 => gens'[c].stop
    <3>1. StoppedPast(order.at)
      BY <2>1 DEF OrderInv
    <3>2. ASSUME NEW c \in ChildGen, c > order.at - 1 PROVE gens'[c].stop
      BY <2>1, <2>2, <3>1, <3>2, Numbers DEF StoppedPast, ChildGen
    <3>3. gens'[0].stop
      BY <2>2, <3>1, Numbers DEF StoppedPast
    <3> QED BY <3>2, <3>3
  <2>4. getter' = getter /\ UNCHANGED generator_active_list_
    BY <1>4 DEF PauseChild
  <2>5. CASE order.at > 1
    <3>1. order' = [order EXCEPT !.at = @ - 1] /\ UNCHANGED brState
      BY <1>4, <2>5 DEF PauseChild
    <3>2. order'.name = "pause" /\ order'.at = order.at - 1 /\ order.at - 1 \in ChildGen
      BY <2>1, <2>5, <3>1, Numbers DEF CompositeTypeOK
    <3>3. CompositeTypeOK'
      BY <2>2, <2>4, <3>1, <3>2, Numbers DEF CompositeTypeOK
    <3>4. OrderInv'
      BY <2>1, <2>3, <2>4, <3>1, <3>2 DEF OrderInv, HeldByGetter, StoppedPast
    <3>5. RestInv' /\ ExceptionInv'
      BY <2>1, <2>2, <3>1, <3>2, Numbers DEF RestInv, ExceptionInv
    <3> QED BY <3>3, <3>4, <3>5
  <2>6. CASE ~(order.at > 1)
    <3>1. order' = [name |-> "none", at |-> 0] /\ brState' = "Paused"
      BY <1>4, <2>6 DEF PauseChild, OrderDone
    <3>2. CompositeTypeOK'
      BY <2>2, <2>4, <3>1, Numbers DEF CompositeTypeOK
    <3>3. order.at = 1
      BY <2>1, <2>6 DEF ChildGen
    <3>4. OrderInv' /\ RestInv'
      <4>1. order'.name = "none" /\ (~GetterReading)'
        BY <2>1, <2>4, <3>1 DEF HeldByGetter, GetterReading
      <4>2. StoppedPast(0)'
        BY <2>3, <3>3, Numbers DEF StoppedPast
      <4> QED BY <3>1, <4>1, <4>2 DEF OrderInv, RestInv
    <3>5. ExceptionInv'
      BY <2>1, <2>2, <3>1, Numbers DEF ExceptionInv
    <3> QED BY <3>2, <3>4, <3>5
  <2> QED BY <2>5, <2>6
<1> QED BY <1>2, <1>3, <1>4

LEMMA ResumeKeeps ==
  ASSUME CompositeInv, ResumeAll \/ FinishResume
  PROVE  CompositeInv'
<1> USE DEF CompositeInv
<1>1. gens \in [Generator -> Flags]
  BY DEF CompositeTypeOK
<1>2. CASE ResumeAll
  <2>1. /\ order' = [name |-> "resume", at |-> 0] /\ brState = "Paused" /\ order.name = "none"
        /\ getter.pc = "ended" /\ UNCHANGED <<gens, generator_active_list_, getter, brState, declares>>
    BY <1>2 DEF ResumeAll, BeginOrder
  <2>2. CompositeTypeOK'
    BY <2>1, Numbers DEF CompositeTypeOK
  <2> QED BY <2>1, <2>2 DEF OrderInv, RestInv, ExceptionInv
<1>3. CASE FinishResume
  <2>1. /\ order.name = "resume" /\ order' = [name |-> "none", at |-> 0] /\ brState' = "Running"
        /\ gens' = [g \in Generator |-> [gens[g] EXCEPT !.stop = FALSE]]
        /\ generator_active_list_' = [c \in ChildGen |-> TRUE] /\ getter' = NewGetter
    BY <1>3 DEF FinishResume, OrderDone
  <2>2. gens' \in [Generator -> Flags] /\ \A g \in Generator : gens'[g].exception = gens[g].exception
    BY <1>1, <2>1 DEF Flags
  <2>3. NewGetter \in Getters
    BY Numbers DEF NewGetter, Getters, Places
  <2>4. CompositeTypeOK'
    BY <2>1, <2>2, <2>3, Numbers DEF CompositeTypeOK
  <2>5. OrderInv' /\ RestInv'
    BY <2>1 DEF OrderInv, RestInv
  <2>6. brState # "Error"
    BY <2>1 DEF OrderInv
  <2>7. ExceptionInv'
    BY <2>1, <2>2, <2>6, Numbers DEF ExceptionInv
  <2> QED BY <2>4, <2>5, <2>7
<1> QED BY <1>2, <1>3

LEMMA CompositeStep == CompositeInv /\ [CompositeNext]_compositeVars => CompositeInv'
<1> SUFFICES ASSUME CompositeInv, [CompositeNext]_compositeVars PROVE CompositeInv'
  OBVIOUS
<1>1. CASE GetNext
  BY <1>1, GetNextKeeps
<1>2. CASE \E c \in ChildGen : MonitorChild(c)
  BY <1>2, MonitorKeeps
<1>3. CASE BeginStart \/ StartChild \/ StartFails
  BY <1>3, StartPassKeeps
<1>4. CASE BeginStop \/ StopGenerator \/ StopComposite
  BY <1>4, StopKeeps
<1>5. CASE BeginPause \/ LockForPause \/ PauseChild
  BY <1>5, PauseKeeps
<1>6. CASE ResumeAll \/ FinishResume
  BY <1>6, ResumeKeeps
<1>7. CASE UNCHANGED compositeVars
  BY <1>7 DEF compositeVars, CompositeInv, CompositeTypeOK, OrderInv, RestInv, ExceptionInv,
              StoppedPast, GetterReading, HeldByGetter
<1> QED BY <1>1, <1>2, <1>3, <1>4, <1>5, <1>6, <1>7 DEF CompositeNext

\* Whatever the number of children: an exception of a child is one of the board reader, and no
\* child reads once a stop or a pause has returned, although getNext looks at the stop flags
\* before it locks (CommandableFragmentGenerator.cc, CompositeDriver_generator.cc).
THEOREM ChildrenFollowAlways == CompositeSpec => []ChildrenFollow
<1>1. CompositeInv => ChildrenFollow
  <2> SUFFICES ASSUME CompositeInv PROVE ChildrenFollow
    OBVIOUS
  <2>1. brState = "Running" => order.name # "start"
    BY DEF CompositeInv, OrderInv
  <2> QED BY <2>1 DEF CompositeInv, RestInv, ExceptionInv, GetterReading, ChildrenFollow
<1> QED BY <1>1, CompositeInvInit, CompositeStep, PTL DEF CompositeSpec

(***************************************************************************)
(* A sender and a receiver thread.                                         *)
(***************************************************************************)

LinkMessage == [type : {"Data", "System", "EndOfData"}, n : Nat]

SenderStates == [managers : Nat, next : Nat, pc : {"idle", "send", "eod", "gone"},
                 todo : SUBSET LinkDest, type : {"Data", "System"}, retries : Nat]

LinkTypeOK ==
  /\ lconf \in [mode : {"broadcast", "nonblocking", "blocking"}, dest : LinkDest]
  /\ lsnd \in SenderStates /\ lsnd.next > 0
  /\ sent_frag_count_ \in [LinkDest -> Nat]
  /\ linked \in BOOLEAN /\ lwire \in Seq(LinkMessage)
  /\ lthread \in [running : BOOLEAN, eod : Int, recv : Nat] /\ lthread.eod >= -1
  /\ stop_requested_ \in BOOLEAN
  /\ missing \in SUBSET Nat /\ IsFiniteSet(missing)
  /\ counts \in {"agree", "differ", "lost"}

\* What an EndOfData Fragment adds to the count of a thread, and what all of a wire add to base.
EodOf(m) == IF m.type = "EndOfData" THEN m.n ELSE 0

Announces(wire, base, total) ==
  \E sum \in [0 .. Len(wire) -> Nat] :
    /\ sum[0] = base /\ sum[Len(wire)] = total
    /\ \A i \in 1 .. Len(wire) : sum[i] = sum[i - 1] + EodOf(wire[i])

Base == IF lthread.eod = -1 THEN 0 ELSE lthread.eod

\* What the sender that is connected has counted for the destination and not yet said.
Unsaid ==
  IF linked /\ (lsnd.pc \in {"idle", "send"} \/ (lsnd.pc = "eod" /\ lconf.dest \in lsnd.todo))
  THEN sent_frag_count_[lconf.dest] ELSE 0

\* The next number of a data Fragment for the destination is at least this.
Fresh == IF lsnd.pc = "send" /\ lsnd.type = "Data" /\ lconf.dest \in lsnd.todo THEN lsnd.next - 1 ELSE lsnd.next

\* The data under way is missing, each Fragment of it is under way once, and the next one is new.
WireInv ==
  /\ \A i \in 1 .. Len(lwire) : lwire[i].type = "Data" => lwire[i].n \in missing
  /\ \A i, j \in 1 .. Len(lwire) :
       i # j /\ lwire[i].type = "Data" /\ lwire[j].type = "Data" => lwire[i].n # lwire[j].n
  /\ \A n \in missing : n < Fresh

\* What the thread has, and what it lacks, is at most what the senders have said, will say
\* in a Fragment under way, or have counted.
CountInv ==
  lthread.running /\ counts # "lost" =>
    \E total \in Nat : /\ Announces(lwire, Base, total)
                       /\ lthread.recv + Cardinality(missing) <= total + Unsaid

LinkInv == LinkTypeOK /\ WireInv /\ CountInv /\ NothingLeftBehind
-------------------------------------------------------------------------------
LEMMA AnnouncesEmpty ==
  \A base, total \in Nat : Announces(<< >>, base, total) <=> total = base
<1> SUFFICES ASSUME NEW base \in Nat, NEW total \in Nat
             PROVE  Announces(<< >>, base, total) <=> total = base
  OBVIOUS
<1>1. ASSUME total = base PROVE Announces(<< >>, base, total)
  <2> DEFINE sum == [i \in 0 .. 0 |-> base]
  <2>1. sum \in [0 .. Len(<< >>) -> Nat] /\ sum[0] = base
    OBVIOUS
  <2>2. sum[Len(<< >>)] = total /\ 1 .. Len(<< >>) = {}
    BY <1>1
  <2> QED BY <2>1, <2>2 DEF Announces
<1>2. ASSUME Announces(<< >>, base, total) PROVE total = base
  BY <1>2 DEF Announces
<1> QED BY <1>1, <1>2

LEMMA AnnouncesAppend ==
  ASSUME NEW w \in Seq(LinkMessage), NEW m \in LinkMessage, NEW base \in Nat, NEW total \in Nat,
         Announces(w, base, total)
  PROVE  Announces(Append(w, m), base, total + EodOf(m))
<1>1. PICK sum \in [0 .. Len(w) -> Nat] :
        /\ sum[0] = base /\ sum[Len(w)] = total
        /\ \A i \in 1 .. Len(w) : sum[i] = sum[i - 1] + EodOf(w[i])
  BY DEF Announces
<1>2. Len(w) \in Nat /\ Len(Append(w, m)) = Len(w) + 1 /\ EodOf(m) \in Nat
  BY DEF EodOf, LinkMessage
<1> DEFINE more == [i \in 0 .. Len(w) + 1 |-> IF i <= Len(w) THEN sum[i] ELSE total + EodOf(m)]
<1>3. more \in [0 .. Len(Append(w, m)) -> Nat] /\ more[0] = base
  BY <1>1, <1>2
<1>4. more[Len(w) + 1] = total + EodOf(m) /\ more[Len(w)] = total
  BY <1>1, <1>2
<1>5. ASSUME NEW i \in 1 .. Len(w) + 1
      PROVE  more[i] = more[i - 1] + EodOf(Append(w, m)[i])
  <2>1. CASE i <= Len(w)
    BY <1>1, <1>2, <2>1
  <2>2. CASE i = Len(w) + 1
    BY <1>2, <1>4, <2>2
  <2> QED BY <1>2, <2>1, <2>2
<1> QED BY <1>2, <1>3, <1>4, <1>5 DEF Announces

LEMMA AnnouncesTail ==
  ASSUME NEW w \in Seq(LinkMessage), w # << >>, NEW base \in Nat, NEW total \in Nat,
         Announces(w, base, total)
  PROVE  Announces(Tail(w), base + EodOf(Head(w)), total)
<1>1. PICK sum \in [0 .. Len(w) -> Nat] :
        /\ sum[0] = base /\ sum[Len(w)] = total
        /\ \A i \in 1 .. Len(w) : sum[i] = sum[i - 1] + EodOf(w[i])
  BY DEF Announces
<1>2. Len(w) \in Nat \ {0} /\ Len(Tail(w)) = Len(w) - 1 /\ Head(w) = w[1]
  OBVIOUS
<1> DEFINE less == [i \in 0 .. Len(w) - 1 |-> sum[i + 1]]
<1>3. less \in [0 .. Len(Tail(w)) -> Nat]
  BY <1>1, <1>2
<1>4. less[0] = base + EodOf(Head(w)) /\ less[Len(w) - 1] = total
  BY <1>1, <1>2
<1>5. ASSUME NEW i \in 1 .. Len(w) - 1
      PROVE  less[i] = less[i - 1] + EodOf(Tail(w)[i])
  BY <1>1, <1>2
<1> QED BY <1>2, <1>3, <1>4, <1>5 DEF Announces

LEMMA LinkInvInit == LinkInit => LinkInv
<1> SUFFICES ASSUME LinkInit PROVE LinkInv
  OBVIOUS
<1>1. LinkTypeOK
  <2>1. IsFiniteSet(missing)
    BY FS_EmptySet DEF LinkInit
  <2>2. lwire \in Seq(LinkMessage)
    BY DEF LinkInit
  <2>3. lsnd \in SenderStates /\ lsnd.next > 0
    BY DEF LinkInit, SenderStates
  <2>4. lthread \in [running : BOOLEAN, eod : Int, recv : Nat] /\ lthread.eod >= -1
    BY DEF LinkInit
  <2>5. sent_frag_count_ \in [LinkDest -> Nat]
    BY DEF LinkInit
  <2> QED BY <2>1, <2>2, <2>3, <2>4, <2>5 DEF LinkInit, LinkTypeOK
<1>2. WireInv /\ NothingLeftBehind
  BY DEF LinkInit, WireInv, NothingLeftBehind
<1>3. CountInv
  <2>1. Announces(lwire, Base, 0) /\ Base = 0
    BY AnnouncesEmpty DEF LinkInit, Base
  <2>2. Cardinality(missing) = 0 /\ Unsaid \in Nat /\ lthread.recv = 0
    BY <1>1, FS_EmptySet DEF LinkInit, Unsaid, LinkTypeOK, SenderStates
  <2> QED BY <2>1, <2>2 DEF CountInv
<1> QED BY <1>1, <1>2, <1>3 DEF LinkInv

\* A step of the sender that delivers nothing to the thread.
LEMMA LinkSenderKeeps ==
  ASSUME LinkInv, LinkTypeOK', UNCHANGED <<lwire, lthread, stop_requested_, missing>>,
         Fresh <= Fresh', counts = "lost" => counts' = "lost",
         lthread.running /\ counts' # "lost" => Unsaid <= Unsaid'
  PROVE  LinkInv'
<1>1. WireInv'
  <2>1. Fresh \in Int /\ Fresh' \in Int
    BY DEF Fresh, LinkInv, LinkTypeOK, SenderStates
  <2>2. missing \subseteq Int
    BY DEF LinkInv, LinkTypeOK, SenderStates
  <2> QED BY <2>1, <2>2 DEF WireInv, LinkInv
<1>2. CountInv'
  <2> SUFFICES ASSUME lthread.running, counts' # "lost"
               PROVE  \E total \in Nat : /\ Announces(lwire, Base, total)
                                         /\ lthread.recv + Cardinality(missing) <= total + Unsaid'
    BY DEF CountInv, Base
  <2>1. PICK total \in Nat : /\ Announces(lwire, Base, total)
                             /\ lthread.recv + Cardinality(missing) <= total + Unsaid
    BY DEF LinkInv, CountInv
  <2>2. Unsaid \in Nat /\ Unsaid' \in Nat
    BY DEF Unsaid, LinkInv, LinkTypeOK, SenderStates
  <2>3. lthread.recv \in Nat /\ Cardinality(missing) \in Nat
    BY FS_CardinalityType DEF LinkInv, LinkTypeOK, SenderStates
  <2> QED BY <2>1, <2>2, <2>3
<1>3. NothingLeftBehind'
  BY DEF LinkInv, NothingLeftBehind, ThreadEnded
<1> QED BY <1>1, <1>2, <1>3 DEF LinkInv

\* A Fragment that the thread will get.
LEMMA DeliverKeeps ==
  ASSUME LinkInv, LinkTypeOK', UNCHANGED <<lthread, stop_requested_>>, lthread.running,
         NEW m \in LinkMessage, lwire' = Append(lwire, m),
         missing' = IF m.type = "Data" THEN missing \cup {m.n} ELSE missing,
         m.type = "Data" => Fresh <= m.n /\ m.n < Fresh',
         Fresh <= Fresh', counts = "lost" => counts' = "lost",
         m.type = "Data" => Unsaid + 1 <= Unsaid' + EodOf(m),
         m.type # "Data" => Unsaid <= Unsaid' + EodOf(m)
  PROVE  LinkInv'
<1>1. /\ lwire \in Seq(LinkMessage) /\ Len(lwire) \in Nat /\ Len(lwire') = Len(lwire) + 1
      /\ \A i \in 1 .. Len(lwire) : lwire'[i] = lwire[i] /\ lwire[i].n \in Nat
      /\ lwire'[Len(lwire) + 1] = m
  <2>1. lwire \in Seq(LinkMessage) /\ Len(lwire) \in Nat
    BY DEF LinkInv, LinkTypeOK
  <2>2. Len(lwire') = Len(lwire) + 1 /\ lwire'[Len(lwire) + 1] = m
    BY <2>1
  <2>3. ASSUME NEW i \in 1 .. Len(lwire) PROVE lwire'[i] = lwire[i] /\ lwire[i].n \in Nat
    <3>1. lwire[i] \in LinkMessage
      BY <2>1
    <3>2. lwire'[i] = lwire[i]
      BY <2>1
    <3> QED BY <3>1, <3>2 DEF LinkMessage
  <2> QED BY <2>1, <2>2, <2>3
<1>2. missing \subseteq Nat /\ IsFiniteSet(missing) /\ Fresh \in Int /\ Fresh' \in Int /\ m.n \in Nat
  <2>1. missing \subseteq Nat /\ IsFiniteSet(missing)
    BY DEF LinkInv, LinkTypeOK
  <2>2. Fresh \in Int
    BY DEF LinkInv, LinkTypeOK, SenderStates, Fresh
  <2>3. Fresh' \in Int
    BY DEF LinkTypeOK, SenderStates, Fresh
  <2>4. m.n \in Nat
    BY DEF LinkMessage
  <2> QED BY <2>1, <2>2, <2>3, <2>4
<1>3. m.type = "Data" => m.n \notin missing
  BY <1>2 DEF LinkInv, WireInv
<1>4. WireInv'
  <2>1. ASSUME NEW i \in 1 .. Len(lwire) + 1, lwire'[i].type = "Data"
        PROVE  lwire'[i].n \in missing'
    BY <1>1, <2>1 DEF LinkInv, WireInv
  <2>2. ASSUME NEW i \in 1 .. Len(lwire) + 1, NEW j \in 1 .. Len(lwire) + 1, i # j,
               lwire'[i].type = "Data", lwire'[j].type = "Data"
        PROVE  lwire'[i].n # lwire'[j].n
    <3>1. CASE i <= Len(lwire) /\ j <= Len(lwire)
      BY <1>1, <2>2, <3>1 DEF LinkInv, WireInv
    <3>2. CASE i = Len(lwire) + 1
      BY <1>1, <1>3, <2>2, <3>2 DEF LinkInv, WireInv
    <3>3. CASE j = Len(lwire) + 1
      BY <1>1, <1>3, <2>2, <3>3 DEF LinkInv, WireInv
    <3> QED BY <1>1, <3>1, <3>2, <3>3
  <2>3. ASSUME NEW n \in missing' PROVE n < Fresh'
    BY <1>2 DEF LinkInv, WireInv
  <2> QED BY <1>1, <2>1, <2>2, <2>3 DEF WireInv
<1>5. CountInv'
  <2> SUFFICES ASSUME counts' # "lost"
               PROVE  \E total \in Nat : /\ Announces(lwire', Base, total)
                                         /\ lthread.recv + Cardinality(missing') <= total + Unsaid'
    BY DEF CountInv, Base
  <2>1. PICK total \in Nat : /\ Announces(lwire, Base, total)
                             /\ lthread.recv + Cardinality(missing) <= total + Unsaid
    BY DEF LinkInv, CountInv
  <2>2. Base \in Nat /\ EodOf(m) \in Nat
    BY DEF Base, EodOf, LinkInv, LinkTypeOK, SenderStates, LinkMessage
  <2>3. Announces(lwire', Base, total + EodOf(m))
    BY <1>1, <2>1, <2>2, AnnouncesAppend
  <2>4. Unsaid \in Nat /\ Unsaid' \in Nat /\ lthread.recv \in Nat
    BY DEF Unsaid, LinkInv, LinkTypeOK, SenderStates
  <2>5. Cardinality(missing) \in Nat
    BY <1>2, FS_CardinalityType
  <2>6. lthread.recv + Cardinality(missing') <= (total + EodOf(m)) + Unsaid'
    <3>1. CASE m.type = "Data"
      <4>1. Cardinality(missing') = Cardinality(missing) + 1
        BY <1>2, <1>3, <3>1, FS_AddElement
      <4>2. Unsaid + 1 <= Unsaid' + EodOf(m)
        BY <3>1
      <4> QED BY <2>1, <2>2, <2>4, <2>5, <4>1, <4>2
    <3>2. CASE m.type # "Data"
      <4>1. Cardinality(missing') = Cardinality(missing) /\ Unsaid <= Unsaid' + EodOf(m)
        BY <3>2
      <4> QED BY <2>1, <2>2, <2>4, <2>5, <4>1
    <3> QED BY <3>1, <3>2
  <2> QED BY <2>1, <2>2, <2>3, <2>6
<1>6. NothingLeftBehind'
  BY DEF NothingLeftBehind, ThreadEnded
<1> QED BY <1>4, <1>5, <1>6 DEF LinkInv

LEMMA AttemptKeeps ==
  ASSUME LinkInv, NEW d \in LinkDest, NEW sts \in {"Success", "Timeout", "Error"}, Attempt(d, sts)
  PROVE  LinkInv'
<1>1. LinkTypeOK
  BY DEF LinkInv
<1> DEFINE delivers == d = lconf.dest /\ sts = "Success"
           message == [type |-> lsnd.type, n |-> lsnd.next - 1]
<1>2. /\ lsnd.pc = "send" /\ d \in lsnd.todo
      /\ UNCHANGED <<lconf, lthread, stop_requested_>>
  BY DEF Attempt, senderOnly
<1>3. /\ lsnd' \in SenderStates
      /\ lsnd'.next = lsnd.next /\ lsnd'.pc \in {"idle", "send"}
      /\ lsnd'.pc = "send" => lsnd'.type = lsnd.type /\ lsnd'.todo \subseteq lsnd.todo
      /\ ~Again(sts) => d \notin lsnd'.todo
  <2>1. CASE Again(sts)
    <3>1. lsnd' = [lsnd EXCEPT !.retries = @ + 1]
      BY <2>1 DEF Attempt
    <3>2. lsnd \in SenderStates /\ lsnd.retries + 1 \in Nat
      BY <1>1 DEF LinkTypeOK, SenderStates
    <3>3. lsnd' \in SenderStates
      BY <3>1, <3>2 DEF SenderStates
    <3>4. /\ lsnd'.next = lsnd.next /\ lsnd'.pc = lsnd.pc
          /\ lsnd'.type = lsnd.type /\ lsnd'.todo = lsnd.todo
      BY <3>1, <3>2 DEF SenderStates
    <3> QED BY <1>2, <2>1, <3>3, <3>4
  <2>2. CASE ~Again(sts)
    <3>1. lsnd' = [lsnd EXCEPT !.todo = @ \ {d}, !.retries = 0,
                               !.pc = IF lsnd.todo = {d} THEN "idle" ELSE "send",
                               !.type = IF lsnd.todo = {d} THEN "Data" ELSE @]
      BY <2>2 DEF Attempt
    <3> QED BY <1>1, <1>2, <2>2, <3>1 DEF LinkTypeOK, SenderStates
  <2> QED BY <2>1, <2>2
<1>4. /\ sent_frag_count_' \in [LinkDest -> Nat]
      /\ \A x \in LinkDest : sent_frag_count_[x] <= sent_frag_count_'[x]
      /\ ~Again(sts) => sent_frag_count_'[d] = sent_frag_count_[d] + 1
  <2>1. sent_frag_count_ \in [LinkDest -> Nat]
    BY <1>1 DEF LinkTypeOK
  <2>2. CASE Again(sts)
    BY <2>1, <2>2 DEF Attempt
  <2>3. CASE ~Again(sts)
    <3>1. sent_frag_count_' = [sent_frag_count_ EXCEPT ![d] = @ + 1]
      BY <2>3 DEF Attempt, Counts
    <3> QED BY <2>1, <3>1
  <2> QED BY <2>2, <2>3
<1>5. counts' \in {"agree", "differ", "lost"} /\ (counts = "lost" => counts' = "lost")
  BY <1>1 DEF Attempt, Differ, LinkTypeOK, SenderStates
<1>6. message \in LinkMessage /\ lsnd.next \in Nat /\ lsnd.next > 0 /\ lconf.dest \in LinkDest
  BY <1>1 DEF LinkMessage, LinkTypeOK, SenderStates
<1>7. Fresh <= Fresh'
  BY <1>1, <1>2, <1>3, <1>6 DEF Fresh
<1>8. Unsaid <= Unsaid' \/ (linked' # linked /\ ~delivers)
  BY <1>2, <1>3, <1>4, <1>6, <1>1 DEF Unsaid, LinkTypeOK, SenderStates, Attempt, Deliver
<1>9. CASE ~delivers
  <2>1. UNCHANGED <<linked, lwire, missing>>
    BY <1>9 DEF Attempt
  <2>2. LinkTypeOK'
    BY <1>1, <1>2, <1>3, <1>4, <1>5, <2>1 DEF LinkTypeOK, SenderStates
  <2> QED BY <1>2, <1>5, <1>7, <1>8, <2>1, <2>2, LinkSenderKeeps
<1>10. CASE delivers /\ ThreadEnded
  <2>1. UNCHANGED <<lwire, missing>> /\ linked' = TRUE
    BY <1>10 DEF Attempt, Deliver
  <2>2. LinkTypeOK'
    BY <1>1, <1>2, <1>3, <1>4, <1>5, <2>1 DEF LinkTypeOK, SenderStates
  <2> QED BY <1>2, <1>5, <1>7, <1>10, <2>1, <2>2, LinkSenderKeeps DEF ThreadEnded
<1>11. CASE delivers /\ ~ThreadEnded
  <2>1. /\ lwire' = Append(lwire, message) /\ linked' = TRUE
        /\ missing' = IF message.type = "Data" THEN missing \cup {message.n} ELSE missing
    BY <1>11 DEF Attempt, Deliver
  <2>2. ~Again(sts)
    BY <1>11 DEF Again
  <2>3. missing' \in SUBSET Nat /\ IsFiniteSet(missing')
    BY <1>1, <1>6, <2>1, FS_AddElement DEF LinkTypeOK, SenderStates, LinkMessage
  <2>4. lwire' \in Seq(LinkMessage)
    BY <1>1, <1>6, <2>1 DEF LinkTypeOK, SenderStates
  <2>5. LinkTypeOK'
    BY <1>1, <1>2, <1>3, <1>4, <1>5, <2>1, <2>3, <2>4 DEF LinkTypeOK, SenderStates
  <2>6. message.type = "Data" => Fresh <= message.n /\ message.n < Fresh'
    BY <1>2, <1>3, <1>6, <1>11, <2>2 DEF Fresh
  <2>7. Unsaid + 1 <= Unsaid' /\ Unsaid \in Nat /\ Unsaid' \in Nat
    <3>1. Unsaid' = sent_frag_count_[lconf.dest] + 1
      BY <1>2, <1>3, <1>4, <1>11, <2>1, <2>2 DEF Unsaid
    <3>2. Unsaid \in {0, sent_frag_count_[lconf.dest]} /\ sent_frag_count_[lconf.dest] \in Nat
      BY <1>1, <1>6 DEF Unsaid, LinkTypeOK, SenderStates
    <3> QED BY <3>1, <3>2
  <2>8. EodOf(message) = 0
    BY <1>1 DEF EodOf, LinkTypeOK, SenderStates
  <2>9. /\ message.type = "Data" => Unsaid + 1 <= Unsaid' + EodOf(message)
        /\ message.type # "Data" => Unsaid <= Unsaid' + EodOf(message)
    <3>1. \A x, y, z \in Int : x + 1 <= y /\ z = 0 => x + 1 <= y + z /\ x <= y + z
      OBVIOUS
    <3>2. Unsaid \in Int /\ Unsaid' \in Int /\ EodOf(message) \in Int
      BY <2>7, <2>8
    <3> HIDE DEF message
    <3>3. Unsaid + 1 <= Unsaid' + EodOf(message) /\ Unsaid <= Unsaid' + EodOf(message)
      BY <2>7, <2>8, <3>1, <3>2
    <3> QED BY <3>3
  <2> HIDE DEF message
  <2> QED BY <1>2, <1>5, <1>6, <1>7, <1>11, <2>1, <2>5, <2>6, <2>9, DeliverKeeps DEF ThreadEnded
<1> QED BY <1>9, <1>10, <1>11

LEMMA SendEodKeeps ==
  ASSUME LinkInv, NEW d \in LinkDest, NEW ok \in BOOLEAN, SendEod(d, ok)
  PROVE  LinkInv'
<1>1. LinkTypeOK
  BY DEF LinkInv
<1> DEFINE message == [type |-> "EndOfData", n |-> EodCount(d)]
<1>2. /\ lsnd.pc = "eod" /\ d \in lsnd.todo /\ lsnd' = [lsnd EXCEPT !.todo = @ \ {d}]
      /\ UNCHANGED <<lconf, lthread, stop_requested_, sent_frag_count_, missing>>
      /\ counts' = IF d = lconf.dest /\ ~ok THEN "lost" ELSE counts
  BY DEF SendEod, senderOnly
<1>3. /\ lsnd' \in SenderStates
      /\ lsnd'.next = lsnd.next /\ lsnd'.pc = "eod" /\ lsnd'.todo = lsnd.todo \ {d}
  BY <1>1, <1>2 DEF LinkTypeOK, SenderStates
<1>4. Fresh <= Fresh' /\ message \in LinkMessage
  BY <1>1, <1>2, <1>3 DEF Fresh, LinkTypeOK, SenderStates, LinkMessage, EodCount
<1>5. lconf.dest \in LinkDest /\ sent_frag_count_[lconf.dest] \in Nat
  BY <1>1 DEF LinkTypeOK, SenderStates
<1>6. CASE d # lconf.dest \/ ~ok
  <2>1. UNCHANGED <<linked, lwire>>
    BY <1>6 DEF SendEod
  <2>2. LinkTypeOK'
    BY <1>1, <1>2, <1>3, <2>1 DEF LinkTypeOK, SenderStates
  <2>3. counts' # "lost" => Unsaid <= Unsaid'
    BY <1>2, <1>3, <1>5, <1>6, <2>1 DEF Unsaid
  <2> QED BY <1>2, <1>4, <2>1, <2>2, <2>3, LinkSenderKeeps
<1>7. CASE d = lconf.dest /\ ok /\ ThreadEnded
  <2>1. UNCHANGED lwire /\ linked' = TRUE
    BY <1>7 DEF SendEod, Deliver
  <2>2. LinkTypeOK'
    BY <1>1, <1>2, <1>3, <2>1 DEF LinkTypeOK, SenderStates
  <2> QED BY <1>2, <1>4, <1>7, <2>1, <2>2, LinkSenderKeeps DEF ThreadEnded
<1>8. CASE d = lconf.dest /\ ok /\ ~ThreadEnded
  <2>1. lwire' = Append(lwire, message) /\ linked' = TRUE
    BY <1>8 DEF SendEod, Deliver
  <2>2. lwire' \in Seq(LinkMessage)
    BY <1>1, <1>4, <2>1 DEF LinkTypeOK, SenderStates
  <2>3. LinkTypeOK'
    BY <1>1, <1>2, <1>3, <2>1, <2>2 DEF LinkTypeOK, SenderStates
  <2>4. EodOf(message) = sent_frag_count_[lconf.dest] /\ message.type # "Data"
    BY <1>8 DEF EodOf, EodCount
  <2>5. Unsaid \in {0, sent_frag_count_[lconf.dest]} /\ Unsaid' = 0
    BY <1>2, <1>3, <1>8 DEF Unsaid
  <2>6. Unsaid <= Unsaid' + EodOf(message)
    BY <1>5, <2>4, <2>5
  <2> HIDE DEF message
  <2> QED BY <1>2, <1>4, <1>8, <2>1, <2>3, <2>4, <2>6, DeliverKeeps DEF ThreadEnded
<1> QED BY <1>6, <1>7, <1>8

LEMMA SenderStepKeeps ==
  ASSUME LinkInv, LinkSender
  PROVE  LinkInv'
<1>1. LinkTypeOK
  BY DEF LinkInv
<1>2. CASE SendFragmentTo
  <2>1. PICK type \in {"Data", "System"} :
          lsnd' = [lsnd EXCEPT !.next = @ + 1, !.type = type, !.pc = "send",
            !.todo = IF lconf.mode = "broadcast" \/ type = "System" THEN LinkDest ELSE {CalcDest(lsnd.next)}]
    BY <1>2 DEF SendFragmentTo
  <2>2. /\ lsnd.pc = "idle"
        /\ UNCHANGED <<lconf, lthread, stop_requested_, sent_frag_count_, linked, lwire, missing, counts>>
    BY <1>2 DEF SendFragmentTo, senderOnly
  <2>3. CalcDest(lsnd.next) \in LinkDest
    BY <1>1, LinkAssumption DEF LinkTypeOK, SenderStates, CalcDest, LinkDest
  <2> DEFINE todo == IF lconf.mode = "broadcast" \/ type = "System" THEN LinkDest ELSE {CalcDest(lsnd.next)}
  <2>4. lsnd \in SenderStates /\ lsnd.next + 1 \in Nat /\ lsnd.next \in Nat /\ todo \in SUBSET LinkDest
    BY <1>1, <2>3 DEF LinkTypeOK, SenderStates
  <2>5. lsnd' \in SenderStates /\ lsnd'.next = lsnd.next + 1 /\ lsnd'.pc = "send"
    <3>1. lsnd' = [lsnd EXCEPT !.next = @ + 1, !.type = type, !.pc = "send", !.todo = todo]
      BY <2>1
    <3> HIDE DEF todo
    <3> QED BY <2>4, <3>1 DEF SenderStates
  <2>7. LinkTypeOK'
    BY <1>1, <2>2, <2>4, <2>5 DEF LinkTypeOK
  <2>6. Fresh <= Fresh' /\ Unsaid' = Unsaid /\ Unsaid \in Nat
    BY <1>1, <2>2, <2>4, <2>5 DEF Fresh, Unsaid, LinkTypeOK, SenderStates
  <2> QED BY <2>2, <2>6, <2>7, LinkSenderKeeps
<1>3. CASE DestroySender
  <2>1. /\ lsnd' = [lsnd EXCEPT !.pc = "eod", !.todo = LinkDest] /\ lsnd.pc = "idle"
        /\ UNCHANGED <<lconf, lthread, stop_requested_, sent_frag_count_, linked, lwire, missing, counts>>
    BY <1>3 DEF DestroySender, senderOnly
  <2>2. LinkTypeOK'
    BY <1>1, <2>1 DEF LinkTypeOK, SenderStates
  <2>3. Fresh <= Fresh' /\ Unsaid' = Unsaid /\ Unsaid \in Nat
    BY <1>1, <2>1 DEF Fresh, Unsaid, LinkTypeOK, SenderStates
  <2> QED BY <2>1, <2>2, <2>3, LinkSenderKeeps
<1>4. CASE SenderGone
  <2>1. /\ lsnd' = [lsnd EXCEPT !.pc = "gone"] /\ lsnd.pc = "eod" /\ lsnd.todo = {}
        /\ sent_frag_count_' = [d \in LinkDest |-> 0] /\ linked' = FALSE
        /\ UNCHANGED <<lconf, lthread, stop_requested_, lwire, missing, counts>>
    BY <1>4 DEF SenderGone, senderOnly
  <2>2. LinkTypeOK'
    BY <1>1, <2>1 DEF LinkTypeOK, SenderStates
  <2>3. Fresh <= Fresh' /\ Unsaid = 0 /\ Unsaid' = 0
    BY <1>1, <2>1 DEF Fresh, Unsaid, LinkTypeOK, SenderStates
  <2> QED BY <2>1, <2>2, <2>3, LinkSenderKeeps
<1>5. CASE NewSender
  <2>1. /\ lsnd' = [lsnd EXCEPT !.pc = "idle", !.managers = @ + 1] /\ lsnd.pc = "gone"
        /\ UNCHANGED <<lconf, lthread, stop_requested_, sent_frag_count_, linked, lwire, missing, counts>>
    BY <1>5 DEF NewSender, senderOnly
  <2>2. LinkTypeOK'
    <3>1. lsnd \in SenderStates /\ lsnd.managers + 1 \in Nat
      BY <1>1 DEF LinkTypeOK, SenderStates
    <3>2. lsnd' \in SenderStates /\ lsnd'.next = lsnd.next
      BY <2>1, <3>1 DEF SenderStates
    <3> QED BY <1>1, <2>1, <3>2 DEF LinkTypeOK
  <2>3. Fresh <= Fresh' /\ Unsaid = 0 /\ Unsaid' \in Nat
    BY <1>1, <2>1, <2>2 DEF Fresh, Unsaid, LinkTypeOK, SenderStates
  <2> QED BY <2>1, <2>2, <2>3, LinkSenderKeeps
<1> QED BY <1>2, <1>3, <1>4, <1>5, AttemptKeeps, SendEodKeeps DEF LinkSender

\* The thread has ended, for good and not by its count.
LEMMA EndKeeps ==
  ASSUME LinkInv, EndThread, UNCHANGED <<receiverOnly, stop_requested_, missing, counts>>,
         stop_requested_ \/ counts = "lost" \/ missing = {}
  PROVE  LinkInv'
<1>1. lthread' = [lthread EXCEPT !.running = FALSE] /\ lwire' = << >>
  BY DEF EndThread
<1>2. lwire' \in Seq(LinkMessage)
  BY <1>1
<1>3. LinkTypeOK'
  BY <1>1, <1>2 DEF LinkInv, LinkTypeOK, SenderStates, receiverOnly
<1>4. ~lthread'.running
  BY <1>1 DEF LinkInv, LinkTypeOK, SenderStates
<1>5. WireInv'
  BY <1>1 DEF LinkInv, WireInv, Fresh, receiverOnly
<1>6. CountInv' /\ NothingLeftBehind'
  BY <1>4 DEF CountInv, NothingLeftBehind
<1> QED BY <1>3, <1>5, <1>6 DEF LinkInv

\* The count is met only when nothing is missing: what was said is no less than what is here
\* and what is missing together.
LEMMA EndByCountKeeps ==
  ASSUME LinkInv, EndByCount
  PROVE  LinkInv'
<1>1. /\ lthread.running /\ lthread.eod # -1 /\ lthread.eod <= lthread.recv
      /\ ~linked /\ lwire = << >> /\ EndThread
      /\ UNCHANGED <<receiverOnly, stop_requested_, missing, counts>>
  BY DEF EndByCount, AllReceived, IsRunning
<1>2. ASSUME counts # "lost" PROVE missing = {}
  <2>1. PICK total \in Nat : /\ Announces(lwire, Base, total)
                             /\ lthread.recv + Cardinality(missing) <= total + Unsaid
    BY <1>1, <1>2 DEF LinkInv, CountInv
  <2>2. Base = lthread.eod /\ Base \in Nat /\ Unsaid = 0 /\ lthread.recv \in Nat
    BY <1>1 DEF Base, Unsaid, LinkInv, LinkTypeOK, SenderStates
  <2>3. total = Base
    BY <1>1, <2>1, <2>2, AnnouncesEmpty
  <2>4. IsFiniteSet(missing)
    BY DEF LinkInv, LinkTypeOK, SenderStates
  <2>5. Cardinality(missing) \in Nat
    BY <2>4, FS_CardinalityType
  <2>6. Cardinality(missing) = 0
    BY <1>1, <2>1, <2>2, <2>3, <2>5
  <2> QED BY <2>4, <2>6, FS_EmptySet
<1> QED BY <1>1, <1>2, EndKeeps

\* The thread takes the first message of the wire.
LEMMA ReceiveKeeps ==
  ASSUME LinkInv, UNCHANGED <<receiverOnly, stop_requested_>>,
         lthread.running, lwire # << >>, lwire' = Tail(lwire),
         lthread' \in [running : {TRUE}, eod : Int, recv : Nat] /\ lthread'.eod >= -1,
         Base' = Base + EodOf(Head(lwire)),
         missing' = missing \/ (Head(lwire).type = "Data" /\ missing' = missing \ {Head(lwire).n}),
         lthread'.recv + Cardinality(missing') <= lthread.recv + Cardinality(missing),
         counts = "lost" => counts' = "lost", counts' \in {"agree", "differ", "lost"}
  PROVE  LinkInv'
<1>1. /\ lwire \in Seq(LinkMessage) /\ Len(lwire) \in Nat \ {0}
      /\ lwire' \in Seq(LinkMessage) /\ Len(lwire') = Len(lwire) - 1 /\ Head(lwire) = lwire[1]
      /\ \A i \in 1 .. Len(lwire) - 1 : lwire'[i] = lwire[i + 1] /\ i + 1 \in 1 .. Len(lwire)
      /\ 1 \in 1 .. Len(lwire)
  BY DEF LinkInv, LinkTypeOK, SenderStates
<1>2. IsFiniteSet(missing) /\ missing' \subseteq missing
  BY DEF LinkInv, LinkTypeOK, SenderStates
<1>3. IsFiniteSet(missing') /\ Cardinality(missing) \in Nat /\ Cardinality(missing') \in Nat
  BY <1>2, FS_Subset, FS_CardinalityType
<1>4. LinkTypeOK'
  BY <1>1, <1>2, <1>3 DEF LinkInv, LinkTypeOK, SenderStates, receiverOnly
<1>5. WireInv'
  <2>1. \A i \in 1 .. Len(lwire) : lwire[i].type = "Data" => lwire[i].n \in missing
    BY DEF LinkInv, WireInv
  <2>2. \A i, j \in 1 .. Len(lwire) :
          i # j /\ lwire[i].type = "Data" /\ lwire[j].type = "Data" => lwire[i].n # lwire[j].n
    BY DEF LinkInv, WireInv
  <2>3. ASSUME NEW i \in 1 .. Len(lwire) - 1, lwire'[i].type = "Data"
        PROVE  lwire'[i].n \in missing'
    <3>1. i + 1 # 1 /\ i + 1 \in 1 .. Len(lwire) /\ lwire'[i] = lwire[i + 1]
      BY <1>1
    <3> QED BY <1>1, <2>1, <2>2, <2>3, <3>1
  <2>4. ASSUME NEW i \in 1 .. Len(lwire) - 1, NEW j \in 1 .. Len(lwire) - 1, i # j,
               lwire'[i].type = "Data", lwire'[j].type = "Data"
        PROVE  lwire'[i].n # lwire'[j].n
    <3>1. i + 1 # j + 1
      BY <2>4
    <3> QED BY <1>1, <2>2, <2>4, <3>1
  <2>5. \A n \in missing' : n < Fresh'
    BY <1>2 DEF LinkInv, WireInv, Fresh, receiverOnly
  <2> QED BY <1>1, <2>3, <2>4, <2>5 DEF WireInv
<1>6. CountInv'
  <2> SUFFICES ASSUME counts' # "lost"
               PROVE  \E total \in Nat : /\ Announces(lwire', Base', total)
                                         /\ lthread'.recv + Cardinality(missing') <= total + Unsaid'
    BY DEF CountInv
  <2>1. PICK total \in Nat : /\ Announces(lwire, Base, total)
                             /\ lthread.recv + Cardinality(missing) <= total + Unsaid
    BY DEF LinkInv, CountInv
  <2>2. Base \in Nat
    BY DEF Base, LinkInv, LinkTypeOK, SenderStates
  <2>3. Announces(lwire', Base', total)
    BY <1>1, <2>1, <2>2, AnnouncesTail
  <2>4. Unsaid' = Unsaid /\ Unsaid \in Nat /\ lthread.recv \in Nat /\ lthread'.recv \in Nat
    BY DEF Unsaid, LinkInv, LinkTypeOK, SenderStates, receiverOnly
  <2>5. lthread'.recv + Cardinality(missing') <= total + Unsaid'
    BY <1>3, <2>1, <2>4
  <2> QED BY <2>1, <2>3, <2>5
<1>7. NothingLeftBehind'
  BY DEF NothingLeftBehind, ThreadEnded
<1> QED BY <1>4, <1>5, <1>6, <1>7 DEF LinkInv

LEMMA ReceiverStepKeeps ==
  ASSUME LinkInv, ReceiveData \/ ReceiveDataFails \/ ReceiveSystem
  PROVE  LinkInv'
<1>1. LinkTypeOK
  BY DEF LinkInv
<1>2. /\ lwire # << >> /\ lthread.running /\ lwire' = Tail(lwire)
      /\ UNCHANGED <<receiverOnly, stop_requested_>>
  BY DEF ReceiveData, ReceiveDataFails, ReceiveSystem, NextIsData
<1>3. Head(lwire) = lwire[1] /\ lwire[1] \in LinkMessage /\ 1 \in 1 .. Len(lwire)
  BY <1>1, <1>2 DEF LinkTypeOK, SenderStates
<1>4. IsFiniteSet(missing) /\ Cardinality(missing) \in Nat
  BY <1>1, FS_CardinalityType DEF LinkTypeOK, SenderStates
<1>5. CASE ReceiveData
  <2>1. /\ lthread' = [lthread EXCEPT !.recv = @ + 1] /\ counts' = counts
        /\ missing' = missing \ {Head(lwire).n} /\ Head(lwire).type = "Data"
    BY <1>5 DEF ReceiveData, NextIsData
  <2>2. /\ lthread' \in [running : {TRUE}, eod : Int, recv : Nat] /\ lthread'.eod >= -1
        /\ lthread'.recv = lthread.recv + 1 /\ lthread'.eod = lthread.eod /\ lthread.recv \in Nat
    <3>1. lthread \in [running : BOOLEAN, eod : Int, recv : Nat] /\ lthread.eod >= -1
      BY <1>1 DEF LinkTypeOK
    <3>2. lthread.recv + 1 \in Nat
      BY <3>1
    <3> QED BY <1>2, <2>1, <3>1, <3>2
  <2>3. Base' = Base + EodOf(Head(lwire))
    BY <1>1, <2>1, <2>2 DEF Base, EodOf, LinkTypeOK, SenderStates
  <2>4. Head(lwire).n \in missing
    BY <1>3, <2>1 DEF LinkInv, WireInv
  <2>5. Cardinality(missing') = Cardinality(missing) - 1
    BY <1>4, <2>1, <2>4, FS_RemoveElement
  <2>6. lthread'.recv + Cardinality(missing') <= lthread.recv + Cardinality(missing)
    BY <1>4, <2>2, <2>5
  <2>7. counts \in {"agree", "differ", "lost"}
    BY <1>1 DEF LinkTypeOK, SenderStates
  <2> QED BY <1>2, <2>1, <2>2, <2>3, <2>6, <2>7, ReceiveKeeps
<1>6. CASE ReceiveDataFails
  <2>1. lthread' = lthread /\ counts' = Differ /\ missing' = missing /\ Head(lwire).type = "Data"
    BY <1>6 DEF ReceiveDataFails, NextIsData, DataLost
  <2>2. lthread' \in [running : {TRUE}, eod : Int, recv : Nat] /\ lthread'.eod >= -1 /\ lthread.recv \in Nat
    BY <1>1, <1>2, <2>1 DEF LinkTypeOK, SenderStates
  <2>3. Base' = Base + EodOf(Head(lwire))
    BY <1>1, <2>1 DEF Base, EodOf, LinkTypeOK, SenderStates
  <2>4. counts' \in {"agree", "differ", "lost"} /\ (counts = "lost" => counts' = "lost")
    BY <1>1, <2>1 DEF LinkTypeOK, SenderStates, Differ
  <2>5. lthread'.recv + Cardinality(missing') <= lthread.recv + Cardinality(missing)
    BY <1>4, <2>1, <2>2
  <2> QED BY <1>2, <2>1, <2>2, <2>3, <2>4, <2>5, ReceiveKeeps
<1>7. CASE ReceiveSystem
  <2>1. /\ lthread' = IF Head(lwire).type # "EndOfData" THEN lthread
                      ELSE [lthread EXCEPT !.eod = IF @ = -1 THEN Head(lwire).n ELSE @ + Head(lwire).n]
        /\ counts' = counts /\ missing' = missing
    BY <1>7 DEF ReceiveSystem
  <2>2. Head(lwire).n \in Nat
    BY <1>3 DEF LinkMessage
  <2>3. /\ lthread' \in [running : {TRUE}, eod : Int, recv : Nat] /\ lthread'.eod >= -1
        /\ lthread'.recv = lthread.recv /\ lthread.recv \in Nat
        /\ Base' = Base + EodOf(Head(lwire))
    <3>1. lthread \in [running : BOOLEAN, eod : Int, recv : Nat] /\ lthread.eod >= -1
      BY <1>1 DEF LinkTypeOK
    <3>2. CASE Head(lwire).type # "EndOfData"
      <4>1. lthread' = lthread /\ EodOf(Head(lwire)) = 0
        BY <2>1, <3>2 DEF EodOf
      <4>2. Base' = Base /\ Base \in Int
        BY <3>1, <4>1 DEF Base
      <4>3. Base' = Base + EodOf(Head(lwire))
        BY <4>1, <4>2
      <4>4. lthread' \in [running : {TRUE}, eod : Int, recv : Nat]
        BY <1>2, <3>1, <4>1
      <4> QED BY <3>1, <4>1, <4>3, <4>4
    <3>3. CASE Head(lwire).type = "EndOfData"
      <4> DEFINE sum == IF lthread.eod = -1 THEN Head(lwire).n ELSE lthread.eod + Head(lwire).n
      <4>1. lthread' = [lthread EXCEPT !.eod = sum]
        BY <2>1, <3>3
      <4>2. sum \in Nat
        BY <2>2, <3>1
      <4>3. sum = Base + EodOf(Head(lwire))
        BY <2>2, <3>3 DEF Base, EodOf
      <4> HIDE DEF sum
      <4>4. /\ lthread'.running /\ lthread'.eod = sum /\ lthread'.recv = lthread.recv
            /\ lthread' \in [running : BOOLEAN, eod : Int, recv : Nat]
        BY <1>2, <3>1, <4>1, <4>2
      <4>5. Base' = sum
        <5>1. sum # -1
          BY <4>2
        <5> QED BY <4>4, <5>1 DEF Base
      <4>6. lthread' \in [running : {TRUE}, eod : Int, recv : Nat]
        BY <4>4
      <4>7. lthread'.eod >= -1 /\ lthread'.recv = lthread.recv /\ lthread.recv \in Nat
        BY <3>1, <4>2, <4>4
      <4> QED BY <4>3, <4>5, <4>6, <4>7
    <3> QED BY <3>2, <3>3
  <2>4. lthread'.recv + Cardinality(missing') <= lthread.recv + Cardinality(missing)
    BY <1>4, <2>1, <2>3
  <2>5. counts \in {"agree", "differ", "lost"}
    BY <1>1 DEF LinkTypeOK, SenderStates
  <2> QED BY <1>2, <2>1, <2>3, <2>4, <2>5, ReceiveKeeps
<1> QED BY <1>5, <1>6, <1>7

LEMMA LinkStep == LinkInv /\ [LinkNext]_linkVars => LinkInv'
<1> SUFFICES ASSUME LinkInv, [LinkNext]_linkVars PROVE LinkInv'
  OBVIOUS
<1>1. CASE EndByTimeout \/ EndWithoutRoom
  BY <1>1, EndKeeps DEF EndByTimeout, EndWithoutRoom
<1>2. CASE StopThreads
  <2>1. stop_requested_' = TRUE /\ UNCHANGED <<receiverOnly, lwire, lthread, missing, counts>>
    BY <1>2 DEF StopThreads
  <2> QED BY <2>1 DEF LinkInv, LinkTypeOK, SenderStates, WireInv, CountInv, NothingLeftBehind, Base, Unsaid, Fresh,
                      ThreadEnded, receiverOnly
<1>3. CASE LoseConnection
  <2>1. /\ counts' = "lost" /\ lwire' = << >> /\ linked' = FALSE
        /\ UNCHANGED <<lconf, lsnd, sent_frag_count_, lthread, stop_requested_, missing>>
    BY <1>3 DEF LoseConnection
  <2>2. lwire' \in Seq(LinkMessage)
    BY <2>1
  <2>3. LinkTypeOK'
    BY <2>1, <2>2 DEF LinkInv, LinkTypeOK
  <2>4. WireInv'
    BY <2>1 DEF LinkInv, WireInv, Fresh
  <2> QED BY <2>1, <2>3, <2>4 DEF LinkInv, CountInv, NothingLeftBehind
<1>4. CASE UNCHANGED linkVars
  BY <1>4 DEF linkVars, LinkInv, LinkTypeOK, SenderStates, WireInv, CountInv, NothingLeftBehind, Base, Unsaid, Fresh,
              ThreadEnded
<1> QED BY <1>1, <1>2, <1>3, <1>4, SenderStepKeeps, EndByCountKeeps, ReceiverStepKeeps
        DEF LinkNext, ThreadStep

\* For any number of senders one after the other, of Fragments, retries and failures: a thread
\* that meets the count of its EndOfData Fragments has received everything that was delivered
\* to it (DataReceiverManager::runReceiver_, DataSenderManager).
THEOREM NothingLeftBehindEver == LinkSpec => []NothingLeftBehind
<1>1. LinkInv => NothingLeftBehind
  BY DEF LinkInv
<1> QED BY <1>1, LinkInvInit, LinkStep, PTL DEF LinkSpec

(***************************************************************************)
(* TCPSocketTransfer's sendData_: the indices stand for the place in the   *)
(* message.                                                                *)
(***************************************************************************)

\* The place in the message at which buffer i begins; buffer 2 is its end.
Start(i) == IF i = 0 THEN 0 ELSE IF i = 1 THEN HeadSize ELSE Total

\* The place in the buffer the next call begins with.
Offset == io.total - Start(io.in)

AtMostOf(n, max) == IF n > max THEN max ELSE n

\* What is left of buffer i from a place of it, as much as there is room for.
Piece(i, offset, room) == Iov(iov_in[i].base + offset, AtMostOf(iov_in[i].len - offset, room))

Buffers ==
  /\ iov_in = [i \in 0..1 |-> IF i = 0 THEN Iov(0, HeadSize) ELSE Iov(PayloadAt, iov_in[1].len)]
  /\ iov_in[1].len \in Nat

Indices ==
  /\ io = [in |-> io.in, out |-> io.out, this |-> io.this, total |-> io.total]
  /\ io.in \in 0..2 /\ io.out \in 0..1 /\ io.this \in Nat /\ io.total \in 0..Total
  /\ DOMAIN iovv = 0..2
  /\ io.out = 0 => io.this = 0 /\ Offset = 0
  /\ io.out = 1 => /\ io.in # 2 /\ Offset \in 0..iov_in[io.in].len - 1
                   /\ iovv[0] = Piece(io.in, Offset, per_write_max_bytes)
                   /\ io.this = iovv[0].len

\* The byte at a place of the message: the payload does not follow the head at once.
ByteAt(k) == IF k <= HeadSize THEN k - 1 ELSE k

Sending ==
  /\ written \in Seq(Nat) /\ Len(written) = io.total
  /\ \A k \in 1..io.total : written[k] = ByteAt(k)

SendInv == Buffers /\ Indices /\ Sending

LEMMA BufferFacts ==
  ASSUME Buffers
  PROVE  /\ iov_in[0] = Iov(0, HeadSize) /\ iov_in[1] = Iov(PayloadAt, iov_in[1].len)
         /\ iov_in[0].base = 0 /\ iov_in[0].len = HeadSize /\ iov_in[1].base = HeadSize + 1
         /\ iov_in[1].len \in Nat /\ HeadSize \in Nat \ {0} /\ per_write_max_bytes \in Nat \ {0}
         /\ Total = HeadSize + iov_in[1].len
BY SendDataAssumption DEF Buffers, Iov, PayloadAt, Total

\* The message by its places.
LEMMA PlacesOfMessage ==
  ASSUME Buffers
  PROVE  /\ Message \in Seq(Nat) /\ Len(Message) = Total /\ Total \in Nat
         /\ \A k \in 1..Total : Message[k] = ByteAt(k)
<1> DEFINE head == Bytes(iov_in[0])
           payload == Bytes(iov_in[1])
<1>1. head \in Seq(Nat) /\ Len(head) = HeadSize /\ \A k \in 1..HeadSize : head[k] = k - 1
  <2>1. head = [k \in 1..HeadSize |-> k - 1]
    BY BufferFacts DEF Bytes
  <2>2. head \in [1..HeadSize -> Nat]
    BY <2>1, BufferFacts
  <2> QED BY <2>1, <2>2, BufferFacts
<1>2. /\ payload \in Seq(Nat) /\ Len(payload) = iov_in[1].len
      /\ \A k \in 1..iov_in[1].len : payload[k] = HeadSize + k
  <2> DEFINE n == iov_in[1].len
  <2>1. payload = [k \in 1..n |-> HeadSize + 1 + k - 1]
    BY BufferFacts DEF Bytes
  <2>2. n \in Nat /\ HeadSize \in Nat
    BY BufferFacts
  <2> HIDE DEF n, payload
  <2>3. \A k \in 1..n : payload[k] = HeadSize + k /\ HeadSize + k \in Nat
    BY <2>1, <2>2
  <2>4. payload \in [1..n -> Nat]
    BY <2>1, <2>2, <2>3
  <2> QED BY <2>2, <2>3, <2>4 DEF n
<1> HIDE DEF head, payload
<1>3. Message = head \o payload
  BY DEF Message, head, payload
<1>4. /\ Message \in Seq(Nat) /\ Len(Message) = HeadSize + iov_in[1].len
      /\ \A k \in 1..HeadSize + iov_in[1].len :
           Message[k] = IF k <= HeadSize THEN head[k] ELSE payload[k - HeadSize]
  <2>1. /\ Message \in Seq(Nat) /\ Len(Message) = Len(head) + Len(payload)
        /\ \A k \in 1..Len(head) + Len(payload) :
             Message[k] = IF k <= Len(head) THEN head[k] ELSE payload[k - Len(head)]
    BY <1>1, <1>2, <1>3, ConcatProperties
  <2> QED BY <1>1, <1>2, <2>1
<1>5. ASSUME NEW k \in 1..HeadSize + iov_in[1].len PROVE Message[k] = ByteAt(k)
  <2>1. CASE k <= HeadSize
    <3>1. k \in 1..HeadSize
      BY <2>1, BufferFacts
    <3> QED BY <1>1, <1>4, <2>1, <3>1 DEF ByteAt
  <2>2. CASE ~(k <= HeadSize)
    <3>1. k - HeadSize \in 1..iov_in[1].len /\ HeadSize + (k - HeadSize) = k
      BY <2>2, BufferFacts
    <3> QED BY <1>2, <1>4, <2>2, <3>1 DEF ByteAt
  <2> QED BY <2>1, <2>2
<1> QED BY <1>4, <1>5, BufferFacts

LEMMA PieceFacts ==
  ASSUME Buffers, NEW i \in 0..1, NEW offset \in 0..iov_in[i].len, NEW room \in Nat
  PROVE  LET p == Piece(i, offset, room)
         IN  /\ p = [base |-> p.base, len |-> p.len]
             /\ p.base = iov_in[i].base + offset
             /\ p.len = AtMostOf(iov_in[i].len - offset, room)
             /\ p.len \in Nat /\ p.len <= room /\ p.len <= iov_in[i].len - offset
             /\ p.len < room => p.len = iov_in[i].len - offset
BY BufferFacts DEF Piece, Iov, AtMostOf

\* The bytes of a piece are those of the message from its place on.
LEMMA PieceBytes ==
  ASSUME Buffers, NEW i \in 0..1, NEW offset \in 0..iov_in[i].len, NEW room \in Nat
  PROVE  LET p == Piece(i, offset, room)
         IN  /\ Bytes(p) \in Seq(Nat) /\ Len(Bytes(p)) = p.len
             /\ \A k \in 1..p.len : Bytes(p)[k] = ByteAt(Start(i) + offset + k)
<1> DEFINE p == Piece(i, offset, room)
<1>1. p.base = iov_in[i].base + offset /\ p.len \in Nat /\ p.len <= iov_in[i].len - offset
  BY PieceFacts
<1>2. iov_in[i].base \in Nat /\ iov_in[i].len \in Nat
  BY BufferFacts
<1> HIDE DEF p
<1>3. Bytes(p) = [k \in 1..p.len |-> p.base + k - 1]
  BY DEF Bytes
<1>4. \A k \in 1..p.len : p.base + k - 1 \in Nat
  BY <1>1, <1>2
<1>5. ASSUME NEW k \in 1..p.len PROVE p.base + k - 1 = ByteAt(Start(i) + offset + k)
  <2>1. CASE i = 0
    BY <1>1, <2>1, BufferFacts DEF ByteAt, Start
  <2>2. CASE i = 1
    BY <1>1, <2>2, BufferFacts DEF ByteAt, Start
  <2> QED BY <2>1, <2>2
<1>6. Bytes(p) \in [1..p.len -> Nat]
  BY <1>3, <1>4
<1>7. Bytes(p) \in Seq(Nat) /\ Len(Bytes(p)) = p.len
  BY <1>1, <1>6
<1>8. \A k \in 1..p.len : Bytes(p)[k] = ByteAt(Start(i) + offset + k)
  BY <1>3, <1>5
<1> QED BY <1>7, <1>8 DEF p

\* What a call is offered: the rest of a buffer, and the next one if there is room.
Offer ==
  LET first == Piece(io.in, Offset, per_write_max_bytes)
      second == Piece(1, 0, per_write_max_bytes - first.len)
  IN  /\ DOMAIN Offered = 0..2
      /\ Offered[0] = first
      /\ IF io.in = 0 /\ first.len < per_write_max_bytes
         THEN Out = 2 /\ Offered[1] = second /\ AtMost(This) = first.len + second.len
         ELSE Out = 1 /\ AtMost(This) = first.len

LEMMA OfferFacts ==
  ASSUME Buffers, Indices, io.total < Total
  PROVE  /\ io.in \in 0..1 /\ Offset \in 0..iov_in[io.in].len - 1
         /\ Offer
<1>1. io.in \in 0..1 /\ Offset \in 0..iov_in[io.in].len - 1
  <2>1. CASE io.out = 1
    BY <2>1, BufferFacts DEF Indices
  <2>2. CASE io.out = 0
    <3>1. Offset = 0 /\ io.in \in 0..2 /\ io.total \in Int
      BY <2>2, BufferFacts DEF Indices
    <3>2. io.in # 2
      BY <3>1, BufferFacts DEF Offset, Start
    <3>3. CASE io.in = 0
      BY <3>1, <3>3, BufferFacts
    <3>4. CASE io.in = 1
      BY <3>1, <3>4, BufferFacts DEF Offset, Start
    <3> QED BY <3>1, <3>2, <3>3, <3>4
  <2> QED BY <2>1, <2>2, BufferFacts DEF Indices
<1> DEFINE per == per_write_max_bytes
           first == Piece(io.in, Offset, per)
           second == Piece(1, 0, per - first.len)
           taken == [i \in 0..2 |-> IF i \in io.out..Out - 1 THEN iov_in[io.in + i] ELSE iovv[i]]
           rest == iov_in[io.in].len - Offset
<1>2. /\ first = Iov(iov_in[io.in].base + Offset, AtMostOf(rest, per))
      /\ first.len \in Nat \ {0} /\ first.len = AtMostOf(rest, per) /\ rest \in Nat \ {0} /\ per \in Nat \ {0}
      /\ first.len <= per
  <2>1. per \in Nat \ {0} /\ iov_in[io.in].len \in Nat
    BY <1>1, BufferFacts
  <2>2. Offset \in 0..iov_in[io.in].len /\ rest \in Nat \ {0}
    BY <1>1, <2>1
  <2> QED BY <1>1, <2>1, <2>2 DEF Piece, Iov, AtMostOf
<1>3. ASSUME NEW n \in Nat, n = per - first.len
      PROVE  second = Iov(iov_in[1].base, AtMostOf(iov_in[1].len, n)) /\ second.len = AtMostOf(iov_in[1].len, n)
  BY <1>3, BufferFacts DEF Piece, Iov
<1>4. \A i \in 0..1 : iov_in[i] = Iov(iov_in[i].base, iov_in[i].len) /\ iov_in[i].len \in Nat
  BY BufferFacts DEF Iov
<1>5. /\ Offered = IF Out = 0 THEN taken ELSE [taken EXCEPT ![Out - 1] = Cut(@, This)]
      /\ DOMAIN taken = 0..2
  BY DEF Offered
<1> HIDE DEF first, second, rest, taken
<1>6. CASE io.out = 0
  <2>1. Offset = 0 /\ rest = iov_in[io.in].len /\ io.this = 0
    BY <1>1, <1>4, <1>6 DEF Indices, rest
  <2>2. FirstOut = 1 /\ FirstThis = rest
    BY <1>1, <1>2, <1>6, <2>1 DEF Wanted, FirstOut, FirstThis
  <2>3. Twice <=> io.in = 0 /\ rest < per
    BY <1>1, <1>2, <1>6, <2>1, <2>2 DEF Twice, Wanted
  <2>4. CASE io.in = 0 /\ rest < per
    <3>1. Out = 2 /\ This = rest + iov_in[1].len
      BY <2>2, <2>3, <2>4 DEF Out, This
    <3>2. taken[0] = iov_in[0] /\ taken[1] = iov_in[1]
      BY <1>6, <2>4, <3>1 DEF taken
    <3>3. first = iov_in[0] /\ first.len = rest
      BY <1>2, <1>4, <2>1, <2>4, BufferFacts DEF AtMostOf
    <3>4. DOMAIN Offered = 0..2 /\ Offered[0] = iov_in[0] /\ Offered[1] = Cut(iov_in[1], This)
      BY <1>5, <3>1, <3>2
    <3>5. Offered[1] = second /\ AtMost(This) = first.len + second.len
      <4>1. per - first.len \in Nat
        BY <1>2
      <4>2. second = Iov(iov_in[1].base, AtMostOf(iov_in[1].len, per - first.len)) /\ second.len = AtMostOf(iov_in[1].len, per - first.len)
        BY <1>3, <4>1
      <4> QED BY <1>2, <1>4, <3>1, <3>3, <3>4, <4>1, <4>2, BufferFacts DEF Cut, Iov, AtMostOf, AtMost
    <3> QED BY <1>1, <2>4, <3>1, <3>3, <3>4, <3>5 DEF Offer, first, second
  <2>5. CASE ~(io.in = 0 /\ rest < per)
    <3>1. Out = 1 /\ This = rest
      BY <2>2, <2>3, <2>5 DEF Out, This
    <3>2. taken[0] = iov_in[io.in]
      BY <1>1, <1>6, <3>1 DEF taken
    <3>3. DOMAIN Offered = 0..2 /\ Offered[0] = Cut(iov_in[io.in], This)
      BY <1>5, <3>1, <3>2
    <3>4. Cut(iov_in[io.in], This) = first /\ AtMost(This) = first.len
      BY <1>1, <1>2, <1>4, <2>1, <3>1, BufferFacts DEF Cut, Iov, AtMostOf, AtMost
    <3>5. ~(io.in = 0 /\ first.len < per)
      BY <1>2, <2>5 DEF AtMostOf
    <3> QED BY <1>1, <3>1, <3>3, <3>4, <3>5 DEF Offer, first, second
  <2> QED BY <1>1, <2>4, <2>5
<1>7. CASE io.out = 1
  <2>1. iovv[0] = first /\ io.this = first.len
    BY <1>7 DEF Indices, first
  <2>2. CASE io.in = 0 /\ first.len < per
    <3>1. FirstOut = 2 /\ FirstThis = first.len + iov_in[1].len
      BY <1>7, <2>1, <2>2 DEF FirstOut, FirstThis, Wanted
    <3>2. Out = 2 /\ This = first.len + iov_in[1].len
      BY <2>2, <3>1 DEF Twice, Out, This, Wanted
    <3>3. taken[0] = first /\ taken[1] = iov_in[1]
      BY <1>7, <2>1, <2>2, <3>2 DEF taken
    <3>4. DOMAIN Offered = 0..2 /\ Offered[0] = first /\ Offered[1] = Cut(iov_in[1], This)
      BY <1>5, <3>2, <3>3
    <3>5. Offered[1] = second /\ AtMost(This) = first.len + second.len
      <4>1. per - first.len \in Nat
        BY <1>2
      <4>2. second = Iov(iov_in[1].base, AtMostOf(iov_in[1].len, per - first.len)) /\ second.len = AtMostOf(iov_in[1].len, per - first.len)
        BY <1>3, <4>1
      <4> QED BY <1>2, <1>4, <3>2, <3>4, <4>1, <4>2, BufferFacts DEF Cut, Iov, AtMostOf, AtMost
    <3> QED BY <1>1, <2>2, <3>2, <3>4, <3>5 DEF Offer, first, second
  <2>3. CASE ~(io.in = 0 /\ first.len < per)
    <3>1. ~Wanted(io.out, io.this)
      BY <1>1, <1>7, <2>1, <2>3 DEF Wanted
    <3>2. Out = 1 /\ This = first.len
      BY <1>7, <2>1, <3>1 DEF FirstOut, FirstThis, Twice, Out, This
    <3>3. taken[0] = first
      BY <1>7, <2>1, <3>2 DEF taken
    <3>4. Cut(first, This) = first /\ AtMost(This) = first.len
      BY <1>2, <3>2 DEF Cut, AtMost
    <3>5. DOMAIN Offered = 0..2 /\ Offered[0] = first
      BY <1>5, <3>2, <3>3, <3>4
    <3> QED BY <1>1, <2>3, <3>2, <3>4, <3>5 DEF Offer, first, second
  <2> QED BY <1>1, <2>2, <2>3
<1> QED BY <1>6, <1>7 DEF Indices

\* The bytes a call is offered are the next ones of the message.
LEMMA OfferedFacts ==
  ASSUME Buffers, Indices, io.total < Total
  PROVE  /\ AtMost(This) \in Nat \ {0} /\ io.total + AtMost(This) <= Total
         /\ OfferedBytes \in Seq(Nat) /\ Len(OfferedBytes) = AtMost(This)
         /\ \A k \in 1..AtMost(This) : OfferedBytes[k] = ByteAt(io.total + k)
<1> DEFINE per == per_write_max_bytes
           first == Piece(io.in, Offset, per)
           second == Piece(1, 0, per - first.len)
<1>1. /\ io.in \in 0..1 /\ Offset \in 0..iov_in[io.in].len - 1
      /\ Offer
  BY OfferFacts
<1>2. /\ per \in Nat \ {0} /\ HeadSize \in Nat /\ Total = HeadSize + iov_in[1].len
      /\ iov_in[0].len = HeadSize /\ iov_in[1].len \in Nat /\ iov_in[io.in].len \in Nat
  BY <1>1, BufferFacts
<1>3. Offset \in 0..iov_in[io.in].len
  BY <1>1, <1>2
<1>4. io.total \in Nat /\ Start(io.in) \in Nat /\ io.total = Start(io.in) + Offset
  BY <1>1, <1>2 DEF Indices, Start, Offset
<1>5. /\ first.len \in Nat \ {0} /\ first.len <= per /\ first.len <= iov_in[io.in].len - Offset
      /\ first.len < per => first.len = iov_in[io.in].len - Offset
  BY <1>1, <1>2, <1>3, PieceFacts DEF AtMostOf
<1>6. /\ Bytes(first) \in Seq(Nat) /\ Len(Bytes(first)) = first.len
      /\ \A k \in 1..first.len : Bytes(first)[k] = ByteAt(Start(io.in) + Offset + k)
  BY <1>1, <1>2, <1>3, PieceBytes
<1> HIDE DEF first
<1>7. CASE io.in = 0 /\ first.len < per
  <2>1. Out = 2 /\ Offered[0] = first /\ Offered[1] = second /\ AtMost(This) = first.len + second.len
    BY <1>1, <1>7 DEF Offer, first
  <2>2. per - first.len \in Nat /\ 0 \in 0..iov_in[1].len
    BY <1>2, <1>5
  <2>3. /\ second.len \in Nat /\ second.len <= iov_in[1].len - 0
        /\ Bytes(second) \in Seq(Nat) /\ Len(Bytes(second)) = second.len
        /\ \A k \in 1..second.len : Bytes(second)[k] = ByteAt(Start(1) + 0 + k)
    BY <2>2, PieceFacts, PieceBytes
  <2> HIDE DEF second
  <2>4. OfferedBytes = Bytes(first) \o Bytes(second)
    BY <2>1 DEF OfferedBytes
  <2>5. /\ OfferedBytes \in Seq(Nat) /\ Len(OfferedBytes) = first.len + second.len
        /\ \A k \in 1..first.len + second.len :
             OfferedBytes[k] = IF k <= first.len THEN Bytes(first)[k] ELSE Bytes(second)[k - first.len]
    <3>1. /\ OfferedBytes \in Seq(Nat) /\ Len(OfferedBytes) = Len(Bytes(first)) + Len(Bytes(second))
          /\ \A k \in 1..Len(Bytes(first)) + Len(Bytes(second)) :
             OfferedBytes[k] = IF k <= Len(Bytes(first)) THEN Bytes(first)[k]
                               ELSE Bytes(second)[k - Len(Bytes(first))]
      BY <1>6, <2>3, <2>4, ConcatProperties
    <3> QED BY <1>6, <2>3, <3>1
  <2>6. io.total + first.len = HeadSize /\ Start(1) = HeadSize /\ Start(io.in) = 0
    BY <1>2, <1>3, <1>4, <1>5, <1>7 DEF Start
  <2>7. ASSUME NEW k \in 1..first.len + second.len PROVE OfferedBytes[k] = ByteAt(io.total + k)
    <3>1. CASE k <= first.len
      <4>1. k \in 1..first.len
        BY <1>5, <3>1
      <4> QED BY <1>4, <1>6, <2>5, <3>1, <4>1
    <3>2. CASE ~(k <= first.len)
      <4>1. k - first.len \in 1..second.len
        BY <1>5, <2>3, <3>2
      <4>2. HeadSize + 0 + (k - first.len) = io.total + k
        BY <1>2, <1>4, <1>5, <2>3, <2>6
      <4> QED BY <2>3, <2>5, <2>6, <3>2, <4>1, <4>2
    <3> QED BY <3>1, <3>2
  <2>8. io.total + (first.len + second.len) <= Total /\ first.len + second.len \in Nat \ {0}
    <3>1. PICK a \in Nat \ {0}, b \in Nat, t \in Nat, h \in Nat, p \in Nat :
            /\ a = first.len /\ b = second.len /\ t = io.total /\ h = HeadSize /\ p = iov_in[1].len
      BY <1>2, <1>4, <1>5, <2>3
    <3>2. t + a = h /\ b <= p /\ Total = h + p
      BY <1>2, <2>3, <2>6, <3>1
    <3>3. t + (a + b) <= h + p /\ a + b \in Nat \ {0}
      BY <3>2
    <3> QED BY <3>1, <3>2, <3>3
  <2> QED BY <2>1, <2>5, <2>7, <2>8
<1>8. CASE ~(io.in = 0 /\ first.len < per)
  <2>1. Out = 1 /\ Offered[0] = first /\ AtMost(This) = first.len
    BY <1>1, <1>8 DEF Offer, first
  <2>2. OfferedBytes = Bytes(first) \o << >>
    BY <2>1 DEF OfferedBytes
  <2>3. OfferedBytes = Bytes(first)
    BY <1>6, <2>2
  <2>4. Start(io.in) + iov_in[io.in].len <= Total
    BY <1>1, <1>2 DEF Start
  <2>5. io.total + first.len <= Total
    BY <1>2, <1>3, <1>4, <1>5, <2>4
  <2>6. \A k \in 1..first.len : Bytes(first)[k] = ByteAt(io.total + k)
    BY <1>4, <1>6
  <2> QED BY <1>5, <1>6, <2>1, <2>3, <2>5, <2>6
<1> QED BY <1>7, <1>8

\* What is left of a buffer from a place on, extended by all that was cut.
LEMMA ExtendFacts ==
  ASSUME Buffers, NEW i \in 0..1, NEW offset \in 0..iov_in[i].len, NEW n \in 0..iov_in[i].len - offset
  PROVE  /\ Extend(Iov(iov_in[i].base + offset, n), i) = Piece(i, offset, per_write_max_bytes)
         /\ Piece(i, offset, per_write_max_bytes).len \in Nat
<1> DEFINE len == iov_in[i].len
           base == iov_in[i].base
           rest == Iov(base + offset, n)
<1>1. len \in Nat /\ base \in Nat /\ offset \in Nat /\ offset <= len /\ n \in Nat /\ per_write_max_bytes \in Nat
  BY BufferFacts
<1>2. rest.base = base + offset /\ rest.len = n /\ rest = [base |-> base + offset, len |-> n]
  BY DEF Iov
<1>3. End(iov_in[i]) - End(rest) = len - offset - n
  BY <1>1, <1>2 DEF End
<1> HIDE DEF rest, len, base
<1>4. Extend(rest, i) = Cut([rest EXCEPT !.len = @ + (len - offset - n)], n + (len - offset - n))
  BY <1>2, <1>3 DEF Extend
<1>5. n + (len - offset - n) = len - offset
  BY <1>1
<1>6. Extend(rest, i) = Cut([base |-> base + offset, len |-> len - offset], len - offset)
  BY <1>2, <1>4, <1>5
<1>7. Extend(rest, i) = Iov(base + offset, AtMostOf(len - offset, per_write_max_bytes))
  BY <1>1, <1>6 DEF Cut, Iov, AtMostOf
<1>8. Piece(i, offset, per_write_max_bytes).len \in Nat
  BY <1>1 DEF Piece, Iov, AtMostOf, len, base
<1> QED BY <1>7, <1>8 DEF Piece, rest, len, base

\* The place of a call that goes on within a buffer, and of one that begins the next.
LEMMA GoesOn ==
  ASSUME Buffers, Buffers', UNCHANGED iov_in, NEW i \in 0..1, NEW offset \in 0..iov_in[i].len - 1,
         NEW v, DOMAIN v = 0..2,
         iovv' = [v EXCEPT ![0] = Piece(i, offset, per_write_max_bytes)],
         io' = [in |-> i, out |-> 1, this |-> Piece(i, offset, per_write_max_bytes).len, total |-> Start(i) + offset]
  PROVE  Indices'
<1> DEFINE p == Piece(i, offset, per_write_max_bytes)
<1>1. iov_in[i].len \in Nat /\ Start(i) \in Nat /\ Start(i) + iov_in[i].len <= Total /\ Total \in Nat
  BY BufferFacts DEF Start
<1>2. offset \in 0..iov_in[i].len /\ offset \in Nat /\ offset < iov_in[i].len
  BY <1>1
<1>3. p.len \in Nat
  BY <1>2, PieceFacts, BufferFacts
<1>4. /\ io'.in = i /\ io'.out = 1 /\ io'.this = p.len /\ io'.total = Start(i) + offset
      /\ io' = [in |-> io'.in, out |-> io'.out, this |-> io'.this, total |-> io'.total]
  OBVIOUS
<1>5. Start(i)' = Start(i) /\ Total' = Total /\ Piece(i, offset, per_write_max_bytes)' = p
  BY DEF Start, Total, Piece
<1>6. Offset' = offset
  <2>1. Offset' = io'.total - Start(io.in)'
    BY DEF Offset
  <2>2. Start(io.in)' = Start(i)
    BY <1>4 DEF Start, Total
  <2> QED BY <1>1, <1>2, <1>4, <2>1, <2>2
<1> HIDE DEF p
<1>7. iovv'[0] = p /\ DOMAIN iovv' = 0..2
  BY DEF p
<1>8. io'.total \in 0..Total
  BY <1>1, <1>2, <1>4
<1>9. Piece(io.in, Offset, per_write_max_bytes)' = p
  BY <1>4, <1>6 DEF Piece, p
<1> QED BY <1>1, <1>2, <1>3, <1>4, <1>5, <1>6, <1>7, <1>8, <1>9 DEF Indices

LEMMA BeginsNext ==
  ASSUME Buffers, UNCHANGED iov_in, NEW i \in 0..1, DOMAIN iovv' = 0..2,
         io' = [in |-> i + 1, out |-> 0, this |-> 0, total |-> Start(i) + iov_in[i].len]
  PROVE  Indices'
<1>1. iov_in[i].len \in Nat /\ Start(i) + iov_in[i].len = Start(i + 1) /\ Start(i + 1) \in 0..Total /\ Total \in Nat
  BY BufferFacts DEF Start
<1>2. /\ io'.in = i + 1 /\ io'.out = 0 /\ io'.this = 0 /\ io'.total = Start(i + 1)
      /\ io' = [in |-> io'.in, out |-> io'.out, this |-> io'.this, total |-> io'.total]
  BY <1>1
<1>3. Offset' = 0
  <2>1. Offset' = io'.total - Start(io.in)'
    BY DEF Offset
  <2>2. Start(io.in)' = Start(i + 1)
    BY <1>2 DEF Start, Total
  <2> QED BY <1>1, <1>2, <2>1, <2>2
<1>4. i + 1 \in 0..2 /\ Total' = Total
  BY DEF Total
<1> QED BY <1>1, <1>2, <1>3, <1>4 DEF Indices

\* A call that took all it was offered.
LEMMA AllTakenKeeps ==
  ASSUME Buffers, Buffers', Indices, io.total < Total, UNCHANGED iov_in, AllTaken
  PROVE  Indices' /\ io'.total = io.total + AtMost(This)
<1> DEFINE per == per_write_max_bytes
           last == Out - 1
           in   == io.in + last
           rest == Iov(End(Offered[last]), 0)
           left == End(iov_in[in]) - rest.base
           next == Extend(rest, in)
           offset == IF Out = 2 THEN Offered[1].len ELSE Offset + Offered[0].len
<1>1. /\ io.in \in 0..1 /\ Offset \in 0..iov_in[io.in].len - 1
      /\ Offer
  BY OfferFacts
<1>2. /\ io.total = Start(io.in) + Offset /\ Start(io.in) \in Nat /\ io.total \in Nat
      /\ Start(0) = 0 /\ Start(1) = HeadSize /\ per \in Nat \ {0}
      /\ iov_in[0].len = HeadSize /\ HeadSize \in Nat
  BY <1>1, BufferFacts DEF Indices, Start, Offset
<1>3. \A i \in 0..1 : iov_in[i].len \in Nat /\ iov_in[i].base \in Nat
  BY BufferFacts
<1>4. /\ in \in 0..1 /\ offset \in 0..iov_in[in].len
      /\ End(Offered[last]) = iov_in[in].base + offset
      /\ io.total + AtMost(This) = Start(in) + offset
      /\ last \in 0..1 /\ DOMAIN Offered = 0..2
  <2> DEFINE first == Piece(io.in, Offset, per)
             second == Piece(1, 0, per - first.len)
  <2>1. Offset \in 0..iov_in[io.in].len
    BY <1>1, <1>3
  <2>2. /\ first.base = iov_in[io.in].base + Offset
        /\ first.len \in Nat /\ first.len <= per /\ first.len <= iov_in[io.in].len - Offset
        /\ first.len < per => first.len = iov_in[io.in].len - Offset
    BY <1>1, <1>2, <2>1, PieceFacts
  <2> HIDE DEF first
  <2>3. CASE io.in = 0 /\ first.len < per
    <3>1. Out = 2 /\ Offered[1] = second /\ AtMost(This) = first.len + second.len
      BY <1>1, <2>3 DEF Offer, first
    <3>2. per - first.len \in Nat /\ 0 \in 0..iov_in[1].len
      BY <1>2, <1>3, <2>2
    <3>3. second.base = iov_in[1].base + 0 /\ second.len \in Nat /\ second.len <= iov_in[1].len - 0
      BY <3>2, PieceFacts
    <3> HIDE DEF second
    <3>4. in = 1 /\ last = 1 /\ offset = second.len
      BY <2>3, <3>1
    <3>5. offset \in 0..iov_in[in].len /\ End(Offered[last]) = iov_in[in].base + offset
      BY <1>3, <3>1, <3>3, <3>4 DEF End
    <3>6. io.total + first.len = HeadSize
      BY <1>2, <2>1, <2>2, <2>3
    <3> QED BY <1>1, <1>2, <2>2, <3>1, <3>3, <3>4, <3>5, <3>6 DEF Offer
  <2>4. CASE ~(io.in = 0 /\ first.len < per)
    <3>1. Out = 1 /\ Offered[0] = first /\ AtMost(This) = first.len
      BY <1>1, <2>4 DEF Offer, first
    <3>2. in = io.in /\ last = 0 /\ offset = Offset + first.len
      BY <1>1, <3>1
    <3>3. offset \in 0..iov_in[in].len
      BY <1>1, <1>3, <2>1, <2>2, <3>2
    <3>4. End(Offered[last]) = iov_in[in].base + offset
      BY <1>1, <1>3, <2>1, <2>2, <3>1, <3>2 DEF End
    <3> QED BY <1>1, <1>2, <2>1, <2>2, <3>1, <3>2, <3>3, <3>4 DEF Offer
  <2> QED BY <2>3, <2>4
<1> HIDE DEF in, offset, last
<1>5. rest = Iov(iov_in[in].base + offset, 0) /\ rest.base = iov_in[in].base + offset
  BY <1>4 DEF Iov
<1> HIDE DEF rest
<1>6. left = iov_in[in].len - offset
  BY <1>3, <1>4, <1>5 DEF End
<1>7. next = Piece(in, offset, per)
  BY <1>3, <1>4, <1>5, ExtendFacts
<1>8. IF left # 0
      THEN /\ iovv' = [Offered EXCEPT ![last] = next, ![0] = next]
           /\ io' = [in |-> in, out |-> 1, this |-> next.len, total |-> io.total + AtMost(This)]
      ELSE /\ iovv' = [Offered EXCEPT ![last] = rest]
           /\ io' = [in |-> in + 1, out |-> 0, this |-> 0, total |-> io.total + AtMost(This)]
  BY DEF AllTaken, last, in, rest
<1> HIDE DEF left, next
<1>9. CASE left # 0
  <2> DEFINE v == [Offered EXCEPT ![last] = next]
  <2>1. DOMAIN v = 0..2 /\ iovv' = [v EXCEPT ![0] = next]
    BY <1>4, <1>8, <1>9
  <2>2. offset \in 0..iov_in[in].len - 1
    BY <1>3, <1>4, <1>6, <1>9
  <2>3. io' = [in |-> in, out |-> 1, this |-> next.len, total |-> Start(in) + offset]
    BY <1>4, <1>8, <1>9
  <2> HIDE DEF v
  <2>4. Indices'
    BY <1>4, <1>7, <2>1, <2>2, <2>3, GoesOn
  <2> QED BY <1>8, <1>9, <2>4
<1>10. CASE left = 0
  <2>1. offset = iov_in[in].len
    BY <1>3, <1>4, <1>6, <1>10
  <2>2. DOMAIN iovv' = 0..2
    BY <1>4, <1>8, <1>10
  <2>3. io' = [in |-> in + 1, out |-> 0, this |-> 0, total |-> Start(in) + iov_in[in].len]
    BY <1>4, <1>8, <1>10, <2>1
  <2>4. Indices'
    BY <1>4, <2>2, <2>3, BeginsNext
  <2> QED BY <1>8, <1>10, <2>4
<1> QED BY <1>9, <1>10

\* A call that took less.
LEMMA SomeTakenKeeps ==
  ASSUME Buffers, Buffers', Indices, io.total < Total, UNCHANGED iov_in,
         NEW sts \in 1..AtMost(This), sts # AtMost(This), SomeTaken(sts)
  PROVE  Indices' /\ io'.total = io.total + sts
<1> DEFINE per == per_write_max_bytes
           ii == Done(sts)
           handed == IF ii = 0 THEN sts ELSE sts - Offered[0].len
           rest == Iov(Offered[ii].base + handed, Offered[ii].len - handed)
           in == io.in + ii
           offset == IF ii = 0 THEN Offset + sts ELSE sts - Offered[0].len
           next == Extend(rest, in)
<1>1. /\ io.in \in 0..1 /\ Offset \in 0..iov_in[io.in].len - 1
      /\ Offer
  BY OfferFacts
<1>2. /\ io.total = Start(io.in) + Offset /\ Start(io.in) \in Nat /\ io.total \in Nat
      /\ Start(0) = 0 /\ Start(1) = HeadSize /\ per \in Nat \ {0}
      /\ iov_in[0].len = HeadSize /\ HeadSize \in Nat
  BY <1>1, BufferFacts DEF Indices, Start, Offset
<1>3. \A i \in 0..1 : iov_in[i].len \in Nat /\ iov_in[i].base \in Nat
  BY BufferFacts
<1>4. /\ in \in 0..1 /\ offset \in 0..iov_in[in].len - 1
      /\ Offered[ii].base + handed = iov_in[in].base + offset
      /\ Offered[ii].len - handed \in 0..iov_in[in].len - offset
      /\ io.total + sts = Start(in) + offset
      /\ ii \in 0..1 /\ DOMAIN Offered = 0..2
  <2> DEFINE first == Piece(io.in, Offset, per)
             second == Piece(1, 0, per - first.len)
  <2>1. Offset \in 0..iov_in[io.in].len /\ sts \in Nat \ {0} /\ sts <= AtMost(This)
    <3>1. AtMost(This) \in Nat
      BY OfferedFacts
    <3> QED BY <1>1, <1>3, <3>1
  <2>2. /\ first.base = iov_in[io.in].base + Offset
        /\ first.len \in Nat /\ first.len <= per /\ first.len <= iov_in[io.in].len - Offset
        /\ first.len < per => first.len = iov_in[io.in].len - Offset
    BY <1>1, <1>2, <2>1, PieceFacts
  <2>3. Offered[0] = first /\ DOMAIN Offered = 0..2
    BY <1>1 DEF Offer
  <2> HIDE DEF first
  <2>4. CASE sts < first.len
    <3>1. ii = 0 /\ in = io.in /\ handed = sts /\ offset = Offset + sts
      BY <1>1, <2>1, <2>2, <2>3, <2>4 DEF Done
    <3>2. offset \in 0..iov_in[in].len - 1
      BY <1>1, <1>3, <2>1, <2>2, <2>4, <3>1
    <3>3. Offered[ii].base + handed = iov_in[in].base + offset
      BY <1>1, <1>3, <2>1, <2>2, <2>3, <3>1
    <3>4. Offered[ii].len - handed \in 0..iov_in[in].len - offset
      BY <1>1, <1>3, <2>1, <2>2, <2>3, <2>4, <3>1
    <3>5. io.total + sts = Start(in) + offset
      BY <1>2, <2>1, <3>1
    <3> QED BY <1>1, <2>3, <3>1, <3>2, <3>3, <3>4, <3>5
  <2>5. CASE ~(sts < first.len)
    <3>1. io.in = 0 /\ first.len < per
      <4>1. AtMost(This) # first.len
        BY <2>1, <2>2, <2>5
      <4> QED BY <1>1, <4>1 DEF Offer, first
    <3>2. Offered[1] = second /\ AtMost(This) = first.len + second.len
      BY <1>1, <3>1 DEF Offer, first
    <3>3. per - first.len \in Nat /\ 0 \in 0..iov_in[1].len
      BY <1>2, <1>3, <2>2
    <3>4. second.base = iov_in[1].base + 0 /\ second.len \in Nat /\ second.len <= iov_in[1].len - 0
      BY <3>3, PieceFacts
    <3> HIDE DEF second
    <3>5. ii = 1 /\ in = 1 /\ handed = sts - first.len /\ offset = sts - first.len
      BY <2>1, <2>2, <2>3, <2>5, <3>1 DEF Done
    <3>6. sts - first.len \in Nat /\ sts - first.len < second.len
      BY <2>1, <2>2, <2>5, <3>2, <3>4
    <3>7. offset \in 0..iov_in[in].len - 1
      BY <1>3, <3>4, <3>5, <3>6
    <3>8. Offered[ii].base + handed = iov_in[in].base + offset
      BY <1>3, <3>2, <3>4, <3>5, <3>6
    <3>9. Offered[ii].len - handed \in 0..iov_in[in].len - offset
      BY <1>3, <3>2, <3>4, <3>5, <3>6
    <3>10. io.total + sts = Start(in) + offset
      BY <1>2, <2>1, <2>2, <3>1, <3>5
    <3> QED BY <2>3, <3>5, <3>7, <3>8, <3>9, <3>10
  <2> QED BY <2>4, <2>5
<1>5. /\ iovv' = [Offered EXCEPT ![ii] = rest, ![0] = next]
      /\ io' = [in |-> in, out |-> 1, this |-> next.len, total |-> io.total + sts]
  BY DEF SomeTaken
<1> HIDE DEF in, offset, handed, ii
<1>6. next = Piece(in, offset, per)
  <2>1. offset \in 0..iov_in[in].len
    BY <1>3, <1>4
  <2>2. rest = Iov(iov_in[in].base + offset, Offered[ii].len - handed)
    BY <1>4
  <2> HIDE DEF rest
  <2> QED BY <1>4, <2>1, <2>2, ExtendFacts
<1> DEFINE v == [Offered EXCEPT ![ii] = rest]
<1> HIDE DEF next, rest
<1>7. DOMAIN v = 0..2 /\ iovv' = [v EXCEPT ![0] = next]
  BY <1>4, <1>5
<1>8. io' = [in |-> in, out |-> 1, this |-> next.len, total |-> Start(in) + offset]
  BY <1>4, <1>5
<1> HIDE DEF v
<1>9. Indices'
  BY <1>4, <1>6, <1>7, <1>8, GoesOn
<1> QED BY <1>5, <1>9

LEMMA SendInvInit == SendInit => SendInv
<1> SUFFICES ASSUME SendInit PROVE SendInv
  OBVIOUS
<1>1. Buffers
  BY SendDataAssumption DEF SendInit, Buffers, Iov
<1>2. Indices
  <2>1. Total \in Nat
    BY <1>1, PlacesOfMessage
  <2>2. Start(io.in) = 0 /\ io = [in |-> 0, out |-> 0, this |-> 0, total |-> 0]
    BY DEF SendInit, Start
  <2>3. DOMAIN iovv = 0..2
    BY DEF SendInit
  <2> QED BY <2>1, <2>2, <2>3 DEF Indices, Offset
<1>3. Sending
  BY DEF SendInit, Sending
<1> QED BY <1>1, <1>2, <1>3 DEF SendInv

LEMMA SendMsgKeeps == SendInv /\ SendMsg => SendInv'
<1> SUFFICES ASSUME SendInv, SendMsg PROVE SendInv'
  OBVIOUS
<1>1. Buffers /\ Indices /\ Sending /\ io.total < Total /\ UNCHANGED iov_in
  BY DEF SendInv, SendMsg
<1>2. Buffers'
  BY <1>1 DEF Buffers
<1>3. PICK sts \in 1..AtMost(This) :
        /\ written' = written \o SubSeq(OfferedBytes, 1, sts)
        /\ IF sts = AtMost(This) THEN AllTaken ELSE SomeTaken(sts)
  BY DEF SendMsg
<1>4. Indices' /\ io'.total = io.total + sts
  BY <1>1, <1>2, <1>3, AllTakenKeeps, SomeTakenKeeps
<1>5. /\ AtMost(This) \in Nat \ {0}
      /\ OfferedBytes \in Seq(Nat) /\ Len(OfferedBytes) = AtMost(This)
      /\ \A k \in 1..AtMost(This) : OfferedBytes[k] = ByteAt(io.total + k)
  BY <1>1, OfferedFacts
<1>6. io.total \in Nat /\ sts \in Nat /\ sts <= AtMost(This)
  BY <1>1, <1>5, PlacesOfMessage DEF Indices
<1> DEFINE taken == SubSeq(OfferedBytes, 1, sts)
<1>7. taken \in Seq(Nat) /\ Len(taken) = sts /\ \A k \in 1..sts : taken[k] = OfferedBytes[k]
  BY <1>5, <1>6
<1> HIDE DEF taken
<1>8. /\ written' \in Seq(Nat) /\ Len(written') = Len(written) + Len(taken)
      /\ \A k \in 1..Len(written) + Len(taken) :
           written'[k] = IF k <= Len(written) THEN written[k] ELSE taken[k - Len(written)]
  BY <1>1, <1>3, <1>7, ConcatProperties DEF Sending, taken
<1>9. ASSUME NEW k \in 1..io'.total PROVE written'[k] = ByteAt(k)
  <2>1. Len(written) = io.total /\ k \in 1..Len(written) + Len(taken)
    BY <1>1, <1>4, <1>7 DEF Sending
  <2>2. CASE k <= io.total
    <3>1. k \in 1..io.total
      BY <1>6, <2>2
    <3> QED BY <1>1, <1>8, <2>1, <2>2, <3>1 DEF Sending
  <2>3. CASE ~(k <= io.total)
    <3>1. k - io.total \in 1..sts /\ io.total + (k - io.total) = k /\ k - io.total \in 1..AtMost(This)
      BY <1>4, <1>5, <1>6, <2>3
    <3> QED BY <1>5, <1>7, <1>8, <2>1, <2>3, <3>1
  <2> QED BY <2>2, <2>3
<1>10. Sending'
  <2>1. Len(written') = io'.total
    BY <1>1, <1>4, <1>7, <1>8 DEF Sending
  <2> QED BY <1>8, <1>9, <2>1 DEF Sending
<1> QED BY <1>2, <1>4, <1>10 DEF SendInv

LEMMA SendInvExact == SendInv => MessageExact
<1> SUFFICES ASSUME SendInv PROVE MessageExact
  OBVIOUS
<1>1. Buffers /\ Indices /\ Sending
  BY DEF SendInv
<1>2. io.total < Total => AtMost(This) > 0
  BY <1>1, OfferedFacts
<1>3. /\ Message \in Seq(Nat) /\ Len(Message) = Total /\ Total \in Nat
      /\ \A k \in 1..Total : Message[k] = ByteAt(k)
  BY <1>1, PlacesOfMessage
<1>4. io.total \in 0..Total
  BY <1>1 DEF Indices
<1> DEFINE handed == SubSeq(Message, 1, io.total)
<1>5. handed \in Seq(Nat) /\ Len(handed) = io.total /\ \A k \in 1..io.total : handed[k] = ByteAt(k)
  BY <1>3, <1>4
<1> HIDE DEF handed
<1>6. Len(written) = Len(handed) /\ \A k \in 1..Len(written) : written[k] = handed[k]
  BY <1>1, <1>5 DEF Sending
<1>7. written = handed
  BY <1>1, <1>5, <1>6, SeqEqual DEF Sending
<1> QED BY <1>1, <1>2, <1>7 DEF MessageExact, Sending, handed

(***************************************************************************)
(* TCPSocketTransfer.  Every header is written once, over all connections, *)
(* and its data behind it; what a receiver reads next is therefore the data *)
(* of the header it holds, or the header after it.                         *)
(***************************************************************************)

TCPMessage == [type : {"header", "data", "stop", "cut"}, frag : 0..MaxFrag]
Connection == [st : {"none", "backlog", "connected", "closed"}, fd : 0..MaxConn, wire : Seq(TCPMessage),
               end : {"open", "fin", "silent"}]
TCPReceived == [header : 0..MaxFrag, data : 0..MaxFrag]
TCPSender == [up : BOOLEAN, conn : 0..MaxConn, lost : BOOLEAN, pc : {"idle", "data"}, frag : 0..MaxFrag]
TCPReceiver == [active : 0..MaxConn, last : 0..MaxConn, pc : {"idle", "header", "body", "out_of_step"},
                state : {"Metadata", "Data"}, header : 0..MaxFrag]

GotHeaders(g) == {g[i].header : i \in DOMAIN g}

TCPTypeOK ==
  /\ snd \in TCPSender /\ (snd.pc = "data" => snd.frag # 0)
  /\ conns \in [Conn -> Connection] /\ rcv \in TCPReceiver
  /\ got \in Seq(TCPReceived) /\ GotHeaders(got) \subseteq 0..snd.frag

\* Each connection that was accepted has a descriptor of its own.
OwnDescriptors ==
  \A c \in Connected : conns[c].fd # 0 /\ \A d \in Connected : conns[c].fd = conns[d].fd => c = d

IsHeader(m) == m.type = "header"
HeadersIn(w) == {w[i].frag : i \in {j \in DOMAIN w : IsHeader(w[j])}}

\* The messages of a connection: each header once, and data behind its header.
GoodWire(w) ==
  /\ \A i, j \in DOMAIN w : IsHeader(w[i]) /\ IsHeader(w[j]) /\ w[i].frag = w[j].frag => i = j
  /\ \A i, j \in DOMAIN w : j = i + 1 /\ w[j].type = "data" => w[i] = Msg("header", w[j].frag)

\* The Fragments whose header was received, that of the call in hand among them.
Taken(g, r) == GotHeaders(g) \cup IF r.pc = "body" THEN {r.header} ELSE {}

\* The messages W of the connections: of Fragments up to n but for those of T, none twice.
WiresGood(W, n, T) ==
  \A c \in Conn : /\ GoodWire(W[c])
                  /\ HeadersIn(W[c]) \subseteq (1..n) \ T
                  /\ \A d \in Conn : c # d => HeadersIn(W[c]) \cap HeadersIn(W[d]) = {}
Wires == [c \in Conn |-> conns[c].wire]

\* The data that is due is that of the last header.
Due(w, f) == w = << >> \/ w[Len(w)] = Msg("header", f)
DataDue ==
  snd.pc = "data" /\ snd.conn # 0 /\ conns[snd.conn].st # "closed" => Due(conns[snd.conn].wire, snd.frag)

\* The data that is read next is that of the header in hand.
BodyHeld ==
  rcv.pc = "body" =>
    LET c == conns[rcv.active] IN
    /\ rcv.active # 0 /\ rcv.header \in (1..snd.frag) \ GotHeaders(got)
    /\ c.wire # << >> /\ c.wire[1].type = "data" => c.wire[1].frag = rcv.header
    /\ c.wire = << >> /\ snd.conn = rcv.active /\ snd.pc = "data" /\ c.st # "closed" => rcv.header = snd.frag

StepsHeld ==
  /\ rlife # "up" => rcv.pc = "idle"
  /\ rcv.pc = "out_of_step" => lost = Frag
  /\ NoFragment \in GotHeaders(got) => rcv.pc = "out_of_step"

TCPInv ==
  /\ TCPTypeOK /\ OwnDescriptors /\ WiresGood(Wires, snd.frag, Taken(got, rcv))
  /\ DataDue /\ BodyHeld /\ StepsHeld /\ FragmentsWhole

\* v is w with m at its end.
Longer(v, w, m) ==
  Len(w) \in Nat /\ Len(v) = Len(w) + 1 /\ v[Len(w) + 1] = m /\ \A i \in 1..Len(w) : v[i] = w[i]
\* v is w without its first message.
Shorter(v, w) == Len(v) \in Nat /\ Len(w) = Len(v) + 1 /\ \A i \in 1..Len(v) : v[i] = w[i + 1]

LEMMA HeadersInFacts ==
  ASSUME NEW w \in Seq(TCPMessage), NEW f
  PROVE  f \in HeadersIn(w) <=> \E i \in 1..Len(w) : IsHeader(w[i]) /\ w[i].frag = f
<1>1. DOMAIN w = 1..Len(w)
  OBVIOUS
<1> QED BY <1>1 DEF HeadersIn

LEMMA AppendLonger ==
  ASSUME NEW w \in Seq(TCPMessage), NEW m \in TCPMessage
  PROVE  Append(w, m) \in Seq(TCPMessage) /\ Longer(Append(w, m), w, m)
BY DEF Longer

LEMMA TailShorter ==
  ASSUME NEW w \in Seq(TCPMessage), w # << >>
  PROVE  /\ Tail(w) \in Seq(TCPMessage) /\ Shorter(Tail(w), w) /\ 1 \in 1..Len(w) /\ w[1] \in TCPMessage
BY DEF Shorter

LEMMA LongerWire ==
  ASSUME NEW w \in Seq(TCPMessage), NEW v \in Seq(TCPMessage), NEW m \in TCPMessage, Longer(v, w, m), GoodWire(w),
         IsHeader(m) => m.frag \notin HeadersIn(w),
         m.type = "data" => Due(w, m.frag)
  PROVE  GoodWire(v) /\ \A f \in HeadersIn(v) : f \in HeadersIn(w) \/ (IsHeader(m) /\ f = m.frag)
<1> DEFINE L == Len(w)
<1>1. /\ L \in Nat /\ DOMAIN w = 1..L /\ DOMAIN v = 1..L + 1 /\ Len(v) = L + 1
      /\ v[L + 1] = m /\ \A i \in 1..L : v[i] = w[i]
  BY DEF Longer
<1>2. \A i \in 1..L + 1 : i \in 1..L \/ i = L + 1
  BY <1>1
<1>3. \A f \in HeadersIn(v) : f \in HeadersIn(w) \/ (IsHeader(m) /\ f = m.frag)
  BY <1>1, <1>2, HeadersInFacts
<1>4. \A i \in 1..L : IsHeader(w[i]) => w[i].frag \in HeadersIn(w)
  BY HeadersInFacts
<1>5. w # << >> => L # 0
  BY <1>1
<1> HIDE DEF L
<1>6. ASSUME NEW i \in 1..L + 1, NEW j \in 1..L + 1, IsHeader(v[i]), IsHeader(v[j]), v[i].frag = v[j].frag
      PROVE  i = j
  <2>1. CASE i \in 1..L /\ j \in 1..L
    BY <1>1, <1>6, <2>1 DEF GoodWire
  <2>2. CASE i = L + 1 /\ j \in 1..L
    BY <1>1, <1>4, <1>6, <2>2
  <2>3. CASE j = L + 1 /\ i \in 1..L
    BY <1>1, <1>4, <1>6, <2>3
  <2> QED BY <1>2, <2>1, <2>2, <2>3
<1>7. ASSUME NEW i \in 1..L + 1, NEW j \in 1..L + 1, j = i + 1, v[j].type = "data"
      PROVE  v[i] = Msg("header", v[j].frag)
  <2>1. CASE j \in 1..L
    <3>1. i \in 1..L
      BY <1>1, <1>7, <2>1
    <3> QED BY <1>1, <1>7, <2>1, <3>1 DEF GoodWire
  <2>2. CASE j = L + 1
    <3>1. i = L /\ L \in 1..L /\ w # << >>
      BY <1>1, <1>7, <2>2
    <3>2. v[i] = w[L] /\ v[j] = m
      BY <1>1, <2>2, <3>1
    <3> QED BY <1>7, <3>1, <3>2 DEF Due, L
  <2> QED BY <1>2, <2>1, <2>2
<1> QED BY <1>1, <1>3, <1>6, <1>7 DEF GoodWire

LEMMA ShorterWire ==
  ASSUME NEW w \in Seq(TCPMessage), NEW v \in Seq(TCPMessage), Shorter(v, w), GoodWire(w)
  PROVE  /\ GoodWire(v) /\ HeadersIn(v) \subseteq HeadersIn(w)
         /\ IsHeader(w[1]) => w[1].frag \in HeadersIn(w) /\ w[1].frag \notin HeadersIn(v)
         /\ IsHeader(w[1]) /\ Len(v) # 0 /\ v[1].type = "data" => v[1].frag = w[1].frag
<1> DEFINE L == Len(v)
<1>1. /\ L \in Nat /\ DOMAIN v = 1..L /\ DOMAIN w = 1..L + 1 /\ Len(w) = L + 1
      /\ \A i \in 1..L : v[i] = w[i + 1] /\ i + 1 \in 1..L + 1
  BY DEF Shorter
<1>2. 1 \in 1..L + 1 /\ \A i \in 1..L : i + 1 # 1
  BY <1>1
<1>3. /\ \A f : f \in HeadersIn(v) <=> \E i \in 1..L : IsHeader(v[i]) /\ v[i].frag = f
      /\ \A f : f \in HeadersIn(w) <=> \E i \in 1..L + 1 : IsHeader(w[i]) /\ w[i].frag = f
  <2>1. \A f : f \in HeadersIn(v) <=> \E i \in 1..L : IsHeader(v[i]) /\ v[i].frag = f
    BY HeadersInFacts
  <2>2. \A f : f \in HeadersIn(w) <=> \E i \in 1..Len(w) : IsHeader(w[i]) /\ w[i].frag = f
    BY HeadersInFacts
  <2> QED BY <1>1, <2>1, <2>2
<1>4. HeadersIn(v) \subseteq HeadersIn(w)
  BY <1>1, <1>3
<1> HIDE DEF L
<1>5. ASSUME NEW i \in 1..L, NEW j \in 1..L, IsHeader(v[i]), IsHeader(v[j]), v[i].frag = v[j].frag
      PROVE  i = j
  <2>1. PICK a \in 1..L + 1, b \in 1..L + 1 : a = i + 1 /\ b = j + 1
    BY <1>1
  <2>2. w[a] = v[i] /\ w[b] = v[j]
    BY <1>1, <2>1
  <2>3. a = b
    BY <1>1, <1>5, <2>2 DEF GoodWire
  <2> QED BY <1>1, <2>1, <2>3
<1>6. ASSUME NEW i \in 1..L, NEW j \in 1..L, j = i + 1, v[j].type = "data"
      PROVE  v[i] = Msg("header", v[j].frag)
  <2>1. PICK a \in 1..L + 1, b \in 1..L + 1 : a = i + 1 /\ b = j + 1 /\ b = a + 1
    BY <1>1, <1>6
  <2>2. w[a] = v[i] /\ w[b] = v[j]
    BY <1>1, <2>1
  <2>3. w[b].type = "data" => w[a] = Msg("header", w[b].frag)
    BY <1>1, <2>1 DEF GoodWire
  <2> QED BY <1>6, <2>2, <2>3
<1>7. ASSUME IsHeader(w[1]), w[1].frag \in HeadersIn(v) PROVE FALSE
  <2>1. PICK i \in 1..L : IsHeader(v[i]) /\ v[i].frag = w[1].frag
    BY <1>3, <1>7
  <2>2. IsHeader(w[i + 1]) /\ w[i + 1].frag = w[1].frag /\ i + 1 \in 1..L + 1
    BY <1>1, <2>1
  <2>3. PICK k \in 1..L + 1 : k = i + 1
    BY <2>2
  <2>4. k = 1
    BY <1>1, <1>2, <1>7, <2>2, <2>3 DEF GoodWire
  <2> QED BY <1>2, <2>3, <2>4
<1>8. ASSUME IsHeader(w[1]), L # 0, v[1].type = "data" PROVE v[1].frag = w[1].frag
  <2>1. 1 \in 1..L /\ 1 \in 1..L + 1 /\ 2 \in 1..L + 1 /\ v[1] = w[2] /\ 2 = 1 + 1
    <3>1. 1 \in 1..L
      BY <1>1, <1>8
    <3>2. 1 + 1 = 2
      OBVIOUS
    <3> QED BY <1>1, <1>2, <3>1, <3>2
  <2>2. w[1] = Msg("header", w[2].frag)
    <3>1. PICK a \in 1..L + 1, b \in 1..L + 1 : a = 1 /\ b = 2 /\ b = a + 1
      BY <2>1
    <3>2. w[b].type = "data" => w[a] = Msg("header", w[b].frag)
      BY <1>1, <3>1 DEF GoodWire
    <3> QED BY <1>8, <2>1, <3>1, <3>2
  <2> QED BY <2>1, <2>2 DEF Msg
<1> QED BY <1>1, <1>2, <1>3, <1>4, <1>5, <1>6, <1>7, <1>8 DEF GoodWire, L

LEMMA WiresShrink ==
  ASSUME NEW W \in [Conn -> Seq(TCPMessage)], NEW V \in [Conn -> Seq(TCPMessage)], NEW n \in Int, NEW p \in Int, n <= p,
         NEW T \in SUBSET Int, NEW U \in SUBSET Int, WiresGood(W, n, T), \A f \in U : f \in 1..n => f \in T,
         \A c \in Conn : V[c] = W[c] \/ Len(V[c]) = 0
  PROVE  WiresGood(V, p, U)
<1>1. \A c \in Conn : GoodWire(V[c]) /\ HeadersIn(V[c]) \subseteq HeadersIn(W[c])
  <2> SUFFICES ASSUME NEW c \in Conn PROVE GoodWire(V[c]) /\ HeadersIn(V[c]) \subseteq HeadersIn(W[c])
    OBVIOUS
  <2>1. CASE V[c] = W[c]
    BY <2>1 DEF WiresGood
  <2>2. CASE Len(V[c]) = 0
    <3>1. DOMAIN V[c] = {}
      BY <2>2
    <3> QED BY <3>1 DEF GoodWire, HeadersIn
  <2> QED BY <2>1, <2>2
<1>2. \A c \in Conn : HeadersIn(W[c]) \subseteq (1..p) \ U
  <2> SUFFICES ASSUME NEW c \in Conn, NEW f \in HeadersIn(W[c]) PROVE f \in 1..p /\ f \notin U
    OBVIOUS
  <2>1. f \in 1..n /\ f \notin T
    BY DEF WiresGood
  <2>2. f \in 1..p
    BY <2>1
  <2> QED BY <2>1, <2>2
<1> QED BY <1>1, <1>2 DEF WiresGood

LEMMA WiresLonger ==
  ASSUME NEW W \in [Conn -> Seq(TCPMessage)], NEW V \in [Conn -> Seq(TCPMessage)], NEW n \in Int, NEW p \in Int, n <= p,
         NEW T \in SUBSET Int, WiresGood(W, n, T), NEW s \in Conn, NEW m \in TCPMessage, Longer(V[s], W[s], m),
         \A c \in Conn : c # s => V[c] = W[c],
         IsHeader(m) => m.frag \in (1..p) \ T /\ m.frag > n,
         m.type = "data" => Due(W[s], m.frag)
  PROVE  WiresGood(V, p, T)
<1>1. \A c \in Conn : \A f \in HeadersIn(W[c]) : f \in 1..n /\ f \notin T
  BY DEF WiresGood
<1>2. \A c \in Conn : \A f \in HeadersIn(W[c]) : f \in 1..p /\ f \notin T /\ ~(IsHeader(m) /\ f = m.frag)
  <2> SUFFICES ASSUME NEW c \in Conn, NEW f \in HeadersIn(W[c])
               PROVE  f \in 1..p /\ f \notin T /\ ~(IsHeader(m) /\ f = m.frag)
    OBVIOUS
  <2>1. f \in 1..n /\ f \notin T
    BY <1>1
  <2>2. f \in 1..p /\ (IsHeader(m) => m.frag > n /\ m.frag \in 1..p)
    BY <2>1
  <2>3. IsHeader(m) => f # m.frag
    BY <2>1, <2>2
  <2> QED BY <2>1, <2>2, <2>3
<1>3. GoodWire(V[s]) /\ \A f \in HeadersIn(V[s]) : f \in HeadersIn(W[s]) \/ (IsHeader(m) /\ f = m.frag)
  <2>1. GoodWire(W[s]) /\ W[s] \in Seq(TCPMessage) /\ V[s] \in Seq(TCPMessage)
    BY DEF WiresGood
  <2>2. IsHeader(m) => m.frag \notin HeadersIn(W[s])
    BY <1>2
  <2> QED BY <2>1, <2>2, LongerWire
<1>4. \A c \in Conn : \A f \in HeadersIn(V[c]) : f \in HeadersIn(W[c]) \/ (c = s /\ IsHeader(m) /\ f = m.frag)
  BY <1>3
<1>5. \A c \in Conn : GoodWire(V[c]) /\ HeadersIn(V[c]) \subseteq (1..p) \ T
  <2> SUFFICES ASSUME NEW c \in Conn PROVE GoodWire(V[c]) /\ HeadersIn(V[c]) \subseteq (1..p) \ T
    OBVIOUS
  <2>1. GoodWire(V[c])
    BY <1>3 DEF WiresGood
  <2>2. \A f \in HeadersIn(V[c]) : f \in 1..p /\ f \notin T
    BY <1>2, <1>4
  <2> QED BY <2>1, <2>2
<1>6. \A c, d \in Conn : c # d => HeadersIn(V[c]) \cap HeadersIn(V[d]) = {}
  <2> SUFFICES ASSUME NEW c \in Conn, NEW d \in Conn, c # d, NEW f \in HeadersIn(V[c]), f \in HeadersIn(V[d])
               PROVE  FALSE
    OBVIOUS
  <2>1. HeadersIn(W[c]) \cap HeadersIn(W[d]) = {}
    BY DEF WiresGood
  <2> QED BY <1>2, <1>4, <2>1
<1> QED BY <1>5, <1>6 DEF WiresGood

StartsWith(w, f) == IsHeader(w[1]) /\ w[1].frag = f

LEMMA WiresShorter ==
  ASSUME NEW W \in [Conn -> Seq(TCPMessage)], NEW V \in [Conn -> Seq(TCPMessage)], NEW n \in Int,
         NEW T \in SUBSET Int, NEW U \in SUBSET Int, WiresGood(W, n, T), NEW s \in Conn, Shorter(V[s], W[s]),
         \A c \in Conn : c # s => V[c] = W[c],
         \A x \in U : x \in T \/ StartsWith(W[s], x)
  PROVE  WiresGood(V, n, U)
<1>1. W[s] \in Seq(TCPMessage) /\ V[s] \in Seq(TCPMessage) /\ GoodWire(W[s])
  BY DEF WiresGood
<1>2. /\ GoodWire(V[s]) /\ HeadersIn(V[s]) \subseteq HeadersIn(W[s])
      /\ IsHeader(W[s][1]) => W[s][1].frag \in HeadersIn(W[s]) /\ W[s][1].frag \notin HeadersIn(V[s])
  BY <1>1, ShorterWire
<1>3. \A c \in Conn : HeadersIn(V[c]) \subseteq HeadersIn(W[c])
  BY <1>2
<1>4. \A c \in Conn : GoodWire(V[c]) /\ HeadersIn(V[c]) \subseteq (1..n) \ U
  <2> SUFFICES ASSUME NEW c \in Conn PROVE GoodWire(V[c]) /\ HeadersIn(V[c]) \subseteq (1..n) \ U
    OBVIOUS
  <2>1. GoodWire(V[c])
    BY <1>2 DEF WiresGood
  <2>2. HeadersIn(V[c]) \subseteq (1..n) \ T
    BY <1>3 DEF WiresGood
  <2>3. \A f \in HeadersIn(V[c]) : ~StartsWith(W[s], f)
    <3>1. CASE c = s
      BY <1>2, <3>1 DEF StartsWith
    <3>2. CASE c # s
      BY <1>2, <1>3, <3>2 DEF WiresGood, StartsWith
    <3> QED BY <3>1, <3>2
  <2> QED BY <2>1, <2>2, <2>3
<1> QED BY <1>3, <1>4 DEF WiresGood
LEMMA TCPFacts ==
  ASSUME TCPInv
  PROVE  /\ MaxFrag \in Nat \ {0} /\ MaxConn \in Nat \ {0} /\ Conn = 1..MaxConn /\ Frag = 1..MaxFrag
         /\ snd \in TCPSender /\ rcv \in TCPReceiver /\ got \in Seq(TCPReceived)
         /\ snd.conn \in 0..MaxConn /\ snd.frag \in 0..MaxFrag /\ snd.frag \in Int
         /\ rcv.active \in 0..MaxConn /\ rcv.header \in 0..MaxFrag
         /\ (snd.conn # 0 => snd.conn \in Conn) /\ (rcv.active # 0 => rcv.active \in Conn)
         /\ \A c \in Conn : /\ conns[c] \in Connection /\ conns[c].wire \in Seq(TCPMessage)
                            /\ Wires[c] = conns[c].wire
         /\ Wires \in [Conn -> Seq(TCPMessage)]
         /\ GotHeaders(got) \subseteq 0..MaxFrag /\ Taken(got, rcv) \in SUBSET Int
<1>1. MaxFrag \in Nat \ {0} /\ MaxConn \in Nat \ {0} /\ Conn = 1..MaxConn /\ Frag = 1..MaxFrag
  BY TCPAssumption DEF Conn, Frag
<1>2. snd \in TCPSender /\ rcv \in TCPReceiver /\ got \in Seq(TCPReceived) /\ conns \in [Conn -> Connection]
  BY DEF TCPInv, TCPTypeOK
<1>3. snd.conn \in 0..MaxConn /\ snd.frag \in 0..MaxFrag /\ rcv.active \in 0..MaxConn /\ rcv.header \in 0..MaxFrag
  BY <1>2 DEF TCPSender, TCPReceiver
<1>4. \A c \in Conn : conns[c] \in Connection
  BY <1>2
<1>5. \A c \in Conn : conns[c].wire \in Seq(TCPMessage) /\ Wires[c] = conns[c].wire
  BY <1>4 DEF Connection, Wires
<1>6. Wires \in [Conn -> Seq(TCPMessage)]
  BY <1>5 DEF Wires
<1>7. GotHeaders(got) \subseteq 0..MaxFrag
  <2>1. \A i \in DOMAIN got : got[i] \in TCPReceived
    BY <1>2
  <2>2. \A i \in DOMAIN got : got[i].header \in 0..MaxFrag
    BY <2>1 DEF TCPReceived
  <2> QED BY <2>2 DEF GotHeaders
<1>8. Taken(got, rcv) \in SUBSET Int
  BY <1>1, <1>3, <1>7 DEF Taken
<1>9. (snd.conn # 0 => snd.conn \in Conn) /\ (rcv.active # 0 => rcv.active \in Conn) /\ snd.frag \in Int
  BY <1>1, <1>3
<1> QED BY <1>1, <1>2, <1>3, <1>4, <1>5, <1>6, <1>7, <1>8, <1>9

\* The wires after a step.
LEMMA WiresAfter ==
  ASSUME conns' \in [Conn -> Connection]
  PROVE  /\ Wires' \in [Conn -> Seq(TCPMessage)] /\ \A c \in Conn : Wires'[c] = conns'[c].wire
         /\ \A c \in Conn : conns'[c].wire \in Seq(TCPMessage)
<1>1. \A c \in Conn : conns'[c] \in Connection
  OBVIOUS
<1>2. \A c \in Conn : conns'[c].wire \in Seq(TCPMessage)
  BY <1>1 DEF Connection
<1> QED BY <1>2 DEF Wires

\* Connections that stay as they are, but for their messages, keep their descriptors.
LEMMA DescriptorsKept ==
  ASSUME TCPInv, \A c \in Conn : conns'[c].st = "connected" => conns[c].st = "connected" /\ conns'[c].fd = conns[c].fd
  PROVE  OwnDescriptors'
<1>1. OwnDescriptors
  BY DEF TCPInv
<1>2. \A c \in Connected' : c \in Connected /\ conns'[c].fd = conns[c].fd
  BY DEF Connected
<1> QED BY <1>1, <1>2 DEF OwnDescriptors

\* A step of the receiver that hands nothing over: connections may be closed.
LEMMA ReceiverKeeps ==
  ASSUME TCPInv, UNCHANGED <<snd, got>>, conns' \in [Conn -> Connection],
         \A c \in Conn : conns'[c] = conns[c] \/ (conns'[c].st = "closed" /\ Len(conns'[c].wire) = 0),
         rcv' \in TCPReceiver, rcv'.pc \in {"idle", "header"}, rcv.pc # "out_of_step",
         rlife' # "up" => rcv'.pc = "idle"
  PROVE  TCPInv'
<1>1. TCPTypeOK'
  BY DEF TCPInv, TCPTypeOK
<1>2. OwnDescriptors'
  <2>1. \A c \in Conn : conns'[c].st = "connected" => conns[c].st = "connected" /\ conns'[c].fd = conns[c].fd
    OBVIOUS
  <2> QED BY <2>1, DescriptorsKept
<1>3. WiresGood(Wires', snd'.frag, Taken(got', rcv'))
  <2> DEFINE V == Wires'
             T == Taken(got, rcv)
             U == Taken(got', rcv')
             n == snd.frag
  <2>1. V \in [Conn -> Seq(TCPMessage)] /\ Wires \in [Conn -> Seq(TCPMessage)]
    BY WiresAfter, TCPFacts
  <2>2. \A c \in Conn : V[c] = Wires[c] \/ Len(V[c]) = 0
    <3>1. \A c \in Conn : V[c] = conns'[c].wire
      BY WiresAfter
    <3>2. \A c \in Conn : Wires[c] = conns[c].wire
      BY TCPFacts
    <3>3. \A c \in Conn : conns'[c].wire = conns[c].wire \/ Len(conns'[c].wire) = 0
      OBVIOUS
    <3> HIDE DEF V
    <3> QED BY <3>1, <3>2, <3>3
  <2>3. T \in SUBSET Int /\ U \in SUBSET Int /\ U \subseteq T /\ n \in Int
    BY TCPFacts DEF Taken
  <2>4. WiresGood(Wires, n, T) /\ n <= n
    BY <2>3 DEF TCPInv
  <2> HIDE DEF V, T, U, n
  <2>5. WiresGood(V, n, U)
    BY <2>1, <2>2, <2>3, <2>4, WiresShrink
  <2> QED BY <2>5 DEF V, U, n
<1>4. DataDue'
  <2> SUFFICES ASSUME snd.pc = "data", snd.conn # 0, conns'[snd.conn].st # "closed"
               PROVE  Due(conns'[snd.conn].wire, snd.frag)
    BY DEF DataDue
  <2>1. conns'[snd.conn] = conns[snd.conn]
    BY TCPFacts
  <2> QED BY <2>1 DEF TCPInv, DataDue
<1>5. BodyHeld'
  BY DEF BodyHeld
<1>6. StepsHeld'
  BY DEF TCPInv, StepsHeld
<1>7. FragmentsWhole'
  <2>1. \A i \in DOMAIN got : got[i].header # NoFragment
    BY DEF TCPInv, StepsHeld, GotHeaders
  <2> QED BY <2>1 DEF TCPInv, FragmentsWhole
<1> QED BY <1>1, <1>2, <1>3, <1>4, <1>5, <1>6, <1>7 DEF TCPInv

\* A step of the sender or of the listen thread.
LEMMA SenderKeeps ==
  ASSUME TCPInv, UNCHANGED <<rcv, got, rlife>>, TCPTypeOK', OwnDescriptors',
         WiresGood(Wires', snd'.frag, Taken(got, rcv)), DataDue', snd.frag <= snd'.frag,
         lost = Frag => lost' = Frag,
         rcv.pc = "body" =>
           /\ \/ conns'[rcv.active].wire = << >>
              \/ conns'[rcv.active].wire[1].type # "data"
              \/ conns'[rcv.active].wire[1].frag = rcv.header
           /\ \/ snd'.conn # rcv.active \/ conns'[rcv.active].wire # << >> \/ snd'.pc # "data"
              \/ conns'[rcv.active].st = "closed" \/ rcv.header = snd'.frag
  PROVE  TCPInv'
<1>1. WiresGood(Wires', snd'.frag, Taken(got', rcv'))
  OBVIOUS
<1>2. BodyHeld'
  <2>1. snd'.frag \in Int /\ snd.frag \in Int
    BY TCPFacts DEF TCPTypeOK, TCPSender
  <2>2. rcv.pc = "body" => rcv.active # 0 /\ rcv.header \in (1..snd.frag) \ GotHeaders(got)
    BY DEF TCPInv, BodyHeld
  <2>3. rcv.pc = "body" => rcv.header \in (1..snd'.frag) \ GotHeaders(got)
    BY <2>1, <2>2
  <2> QED BY <2>2, <2>3 DEF BodyHeld
<1>3. StepsHeld'
  BY DEF TCPInv, StepsHeld
<1>4. FragmentsWhole'
  <2>1. (\E i \in DOMAIN got : got[i].header = NoFragment) => lost = Frag
    BY DEF TCPInv, FragmentsWhole
  <2> QED BY <2>1 DEF TCPInv, FragmentsWhole
<1> QED BY <1>1, <1>2, <1>3, <1>4 DEF TCPInv
LEMMA TimeoutFacts ==
  ASSUME NEW r \in TCPReceiver, NEW d \in 0..MaxConn
  PROVE  /\ Timeout(r) \in TCPReceiver /\ Timeout(r).pc = "idle"
         /\ Timeout([r EXCEPT !.active = 0]) \in TCPReceiver /\ Timeout([r EXCEPT !.active = 0]).pc = "idle"
         /\ Timeout([r EXCEPT !.last = d, !.active = 0]) \in TCPReceiver
         /\ Timeout([r EXCEPT !.last = d, !.active = 0]).pc = "idle"
<1>1. 0 \in 0..MaxFrag /\ 0 \in 0..MaxConn
  BY TCPAssumption
<1>2. \A q \in TCPReceiver : Timeout(q) \in TCPReceiver /\ Timeout(q).pc = "idle"
  <2> TAKE q \in TCPReceiver
  <2> QED BY <1>1 DEF TCPReceiver, Timeout, NoFragment
<1>3. [r EXCEPT !.active = 0] \in TCPReceiver /\ [r EXCEPT !.last = d, !.active = 0] \in TCPReceiver
  BY <1>1 DEF TCPReceiver
<1> QED BY <1>2, <1>3

LEMMA ClosedFacts ==
  ASSUME TCPInv, NEW C \in SUBSET Conn, conns' = Closed(C)
  PROVE  /\ conns' \in [Conn -> Connection]
         /\ \A c \in Conn : conns'[c] = conns[c] \/ (conns'[c].st = "closed" /\ Len(conns'[c].wire) = 0)
<1>1. conns \in [Conn -> Connection] /\ MaxConn \in Nat
  BY TCPFacts DEF TCPInv, TCPTypeOK
<1>2. \A c \in Conn : [conns[c] EXCEPT !.st = "closed", !.fd = 0, !.wire = << >>] \in Connection
  <2> TAKE c \in Conn
  <2> DEFINE e == << >>
  <2>1. conns[c] \in Connection
    BY <1>1
  <2>2. e \in Seq(TCPMessage)
    OBVIOUS
  <2> HIDE DEF e
  <2>3. PICK k \in Connection : k = conns[c]
    BY <2>1
  <2>4. 0 \in 0..MaxConn
    BY <1>1
  <2>5. [k EXCEPT !.st = "closed", !.fd = 0, !.wire = e] \in Connection
    BY <2>2, <2>4 DEF Connection
  <2> QED BY <2>3, <2>5 DEF e
<1>3. conns' \in [Conn -> Connection]
  BY <1>1, <1>2 DEF Closed
<1>4. ASSUME NEW c \in Conn PROVE conns'[c] = conns[c] \/ (conns'[c].st = "closed" /\ Len(conns'[c].wire) = 0)
  <2>1. CASE c \in C
    <3>1. conns'[c] = [conns[c] EXCEPT !.st = "closed", !.fd = 0, !.wire = << >>]
      BY <2>1 DEF Closed
    <3>2. conns[c] \in Connection
      BY <1>1
    <3>3. conns'[c].st = "closed" /\ conns'[c].wire = << >>
      BY <3>1, <3>2 DEF Connection
    <3> QED BY <3>3
  <2>2. CASE c \notin C
    BY <2>2 DEF Closed
  <2> QED BY <2>1, <2>2
<1> QED BY <1>3, <1>4

\* The search for data looks at connections only.
LEMMA CandidateConnected ==
  ASSUME TCPInv, Connected # {}, NEW k \in Nat
  PROVE  Candidate(k) \in Connected
<1> DEFINE R == {e \in Connected \X Connected : conns[e[1]].fd < conns[e[2]].fd}
           n == Cardinality(Connected)
<1>1. Connected \subseteq Conn /\ IsFiniteSet(Conn) /\ IsFiniteSet(Connected) /\ n \in Nat \ {0}
  <2>1. Connected \subseteq Conn
    BY DEF Connected
  <2>2. IsFiniteSet(Conn)
    BY TCPFacts, FS_Interval
  <2>3. IsFiniteSet(Connected)
    BY <2>1, <2>2, FS_Subset
  <2>4. n \in Nat /\ n # 0
    BY <2>3, FS_CardinalityType, FS_EmptySet
  <2> QED BY <2>1, <2>2, <2>3, <2>4
<1>2. \A c \in Connected : conns[c].fd \in Int
  BY <1>1, TCPFacts DEF Connection
<1>3. \A c, d \in Connected : <<c, d>> \in R <=> conns[c].fd < conns[d].fd
  OBVIOUS
<1>4. \A c \in Connected : Before(c, Connected, R) = {d \in Connected : conns[d].fd < conns[c].fd}
  BY <1>3 DEF Before
<1> HIDE DEF R, n
<1>5. StrictlyOrders(R, Connected)
  <2>1. \A c, d \in Connected : c # d => conns[c].fd # conns[d].fd
    BY DEF TCPInv, OwnDescriptors
  <2>2. \A c, d \in Connected : c # d => conns[c].fd < conns[d].fd \/ conns[d].fd < conns[c].fd
    BY <1>2, <2>1
  <2>3. \A c, d, e \in Connected : conns[c].fd < conns[d].fd /\ conns[d].fd < conns[e].fd
                                     => conns[c].fd < conns[e].fd
    BY <1>2
  <2>4. \A c \in Connected : ~(conns[c].fd < conns[c].fd)
    BY <1>2
  <2> QED BY <1>3, <2>2, <2>3, <2>4 DEF StrictlyOrders
<1>6. \A c \in Connected : Place(c) = Cardinality(Before(c, Connected, R)) /\ Place(c) \in Nat
  <2> SUFFICES ASSUME NEW c \in Connected
               PROVE  Place(c) = Cardinality(Before(c, Connected, R)) /\ Place(c) \in Nat
    OBVIOUS
  <2>1. IsFiniteSet(Before(c, Connected, R))
    BY <1>1, FS_Subset DEF Before
  <2> QED BY <1>4, <2>1, FS_CardinalityType DEF Place
<1>7. Index \in Nat
  <2>1. CASE LastActive = {}
    BY <1>1, <2>1 DEF Index, n
  <2>2. CASE LastActive # {}
    <3>1. (CHOOSE c \in LastActive : TRUE) \in Connected
      BY <2>2 DEF LastActive
    <3> QED BY <1>6, <2>2, <3>1 DEF Index
  <2> QED BY <2>1, <2>2
<1>8. (2 * Index + k) % n \in 0..n - 1
  <2>1. PICK a \in Nat : a = 2 * Index + k
    BY <1>7
  <2>2. a % n \in 0..n - 1
    BY <1>1
  <2> QED BY <2>1, <2>2
<1>9. PICK i \in 1..n : i - 1 = (2 * Index + k) % n
  <2>1. PICK a \in 0..n - 1 : a = (2 * Index + k) % n
    BY <1>8
  <2>2. a + 1 \in 1..n /\ (a + 1) - 1 = a
    BY <1>1
  <2> QED BY <2>1, <2>2
<1>10. \E c \in Connected : Cardinality(Before(c, Connected, R)) = i - 1
  BY <1>1, <1>5, OneAtEachPlace DEF n
<1>11. \E c \in Connected : Place(c) = (2 * Index + k) % n
  BY <1>6, <1>9, <1>10
<1> QED BY <1>11 DEF Candidate, n

LEMMA HeaderPollKeeps == TCPInv /\ HeaderPoll => TCPInv'
<1> SUFFICES ASSUME TCPInv, HeaderPoll PROVE TCPInv'
  OBVIOUS
<1>1. /\ Connected # {} /\ rcv.pc = "header" /\ rlife = "up" /\ UNCHANGED <<snd, conns, rlife, got>>
      /\ rcv' = IF ReadyPlaces = {} THEN Timeout(rcv)
                ELSE [rcv EXCEPT !.active = Candidate(CHOOSE k \in ReadyPlaces : \A j \in ReadyPlaces : k <= j)]
  BY DEF HeaderPoll, At
<1>2. rcv' \in TCPReceiver /\ rcv'.pc \in {"idle", "header"}
  <2>1. CASE ReadyPlaces = {}
    <3>1. rcv' = Timeout(rcv) /\ rcv \in TCPReceiver /\ 0 \in 0..MaxConn
      BY <1>1, <2>1, TCPFacts
    <3> QED BY <3>1, TimeoutFacts
  <2>2. CASE ReadyPlaces # {}
    <3>1. ReadyPlaces \subseteq Nat /\ ReadyPlaces # {}
      <4>1. ReadyPlaces \subseteq Nat
        BY DEF ReadyPlaces
      <4> QED BY <2>2, <4>1
    <3>2. PICK k \in ReadyPlaces : \A j \in ReadyPlaces : k <= j
      BY <3>1, LeastNatural
    <3> DEFINE b == CHOOSE i \in ReadyPlaces : \A j \in ReadyPlaces : i <= j
    <3>3. b \in Nat
      BY <3>1, <3>2
    <3> HIDE DEF b
    <3>4. Candidate(b) \in Connected
      BY <1>1, <3>3, CandidateConnected
    <3>5. Candidate(b) \in 0..MaxConn
      BY <3>4, TCPFacts DEF Connected
    <3>6. rcv' = [rcv EXCEPT !.active = Candidate(b)]
      BY <1>1, <2>2 DEF b
    <3> QED BY <1>1, <3>5, <3>6, TCPFacts DEF TCPReceiver
  <2> QED BY <2>1, <2>2
<1>3. conns' \in [Conn -> Connection]
  BY <1>1 DEF TCPInv, TCPTypeOK
<1> QED BY <1>1, <1>2, <1>3, ReceiverKeeps

\* The steps of the receiver that hand nothing over.
LEMMA ReceiverWaits ==
  TCPInv /\ (HeaderStart \/ HeaderNoConnection \/ HeaderNoData \/ BodyAtEnd \/ BodyInterrupted \/ StartReceiver)
    => TCPInv'
<1> SUFFICES ASSUME TCPInv, HeaderStart \/ HeaderNoConnection \/ HeaderNoData \/ BodyAtEnd \/ BodyInterrupted
                            \/ StartReceiver
             PROVE TCPInv'
  OBVIOUS
<1>1. conns' = conns /\ UNCHANGED <<snd, got>>
  BY DEF HeaderStart, HeaderNoConnection, HeaderNoData, BodyAtEnd, BodyInterrupted, StartReceiver
<1>2. conns' \in [Conn -> Connection] /\ rcv \in TCPReceiver /\ 0 \in 0..MaxConn
  BY <1>1, TCPFacts DEF TCPInv, TCPTypeOK
<1>3. /\ rcv' \in TCPReceiver /\ rcv'.pc \in {"idle", "header"} /\ rcv.pc # "out_of_step"
      /\ rlife' # "up" => rcv'.pc = "idle"
  <2>1. CASE HeaderStart
    BY <1>2, <2>1 DEF HeaderStart, At, TCPReceiver
  <2>2. CASE HeaderNoConnection
    BY <1>2, <2>2, TimeoutFacts DEF HeaderNoConnection, At
  <2>3. CASE HeaderNoData
    <3>1. rcv' = Timeout(rcv) \/ rcv' = Timeout([rcv EXCEPT !.active = 0])
      BY <2>3 DEF HeaderNoData
    <3>2. rcv.pc = "header" /\ rlife' = "up"
      BY <2>3 DEF HeaderNoData, Reading, At
    <3> QED BY <1>2, <3>1, <3>2, TimeoutFacts
  <2>4. CASE BodyAtEnd
    <3>1. rcv' = Timeout([rcv EXCEPT !.active = 0]) /\ rcv.pc = "body" /\ rlife' = "up"
      BY <2>4 DEF BodyAtEnd, Reading, At
    <3> QED BY <1>2, <3>1, TimeoutFacts
  <2>5. CASE BodyInterrupted
    <3> DEFINE d == conns[rcv.active].fd
    <3>1. rcv' = Timeout([rcv EXCEPT !.last = d, !.active = 0]) /\ rcv.pc = "body" /\ rlife' = "up"
          /\ rcv.active # 0
      BY <2>5 DEF BodyInterrupted, Reading, At
    <3>2. d \in 0..MaxConn
      BY <3>1, TCPFacts DEF Connection
    <3> HIDE DEF d
    <3> QED BY <1>2, <3>1, <3>2, TimeoutFacts
  <2>6. CASE StartReceiver
    <3>1. rlife = "down" /\ rcv' = rcv /\ rlife' = "up"
      BY <2>6 DEF StartReceiver
    <3>2. rcv.pc = "idle"
      BY <3>1 DEF TCPInv, StepsHeld
    <3> QED BY <1>2, <3>1, <3>2
  <2> QED BY <2>1, <2>2, <2>3, <2>4, <2>5, <2>6
<1> QED BY <1>1, <1>2, <1>3, ReceiverKeeps

\* The steps that close connections.
LEMMA ReceiverCloses ==
  TCPInv /\ (FlushBuffers \/ ListenEnds \/ HeaderStop \/ HeaderDesync \/ BodyTimeout) => TCPInv'
<1> SUFFICES ASSUME TCPInv, FlushBuffers \/ ListenEnds \/ HeaderStop \/ HeaderDesync \/ BodyTimeout PROVE TCPInv'
  OBVIOUS
<1>1. UNCHANGED <<snd, got>>
  BY DEF FlushBuffers, ListenEnds, HeaderStop, HeaderDesync, BodyTimeout
<1>2. PICK C \in SUBSET Conn : conns' = Closed(C)
  <2>1. CASE FlushBuffers
    BY <2>1 DEF FlushBuffers, Connected
  <2>2. CASE ListenEnds
    BY <2>2 DEF ListenEnds
  <2>3. CASE HeaderStop \/ HeaderDesync \/ BodyTimeout
    <3>1. conns' = Closed({rcv.active}) /\ rcv.active \in Conn
      BY <2>3, TCPFacts DEF HeaderStop, HeaderDesync, BodyTimeout, CloseOne, Reading
    <3> QED BY <3>1
  <2> QED BY <2>1, <2>2, <2>3
<1>3. /\ conns' \in [Conn -> Connection]
      /\ \A c \in Conn : conns'[c] = conns[c] \/ (conns'[c].st = "closed" /\ Len(conns'[c].wire) = 0)
  BY <1>2, ClosedFacts
<1>4. rcv \in TCPReceiver /\ 0 \in 0..MaxConn /\ 0 \in 0..MaxFrag
  BY TCPFacts
<1>5. /\ rcv' \in TCPReceiver /\ rcv'.pc \in {"idle", "header"} /\ rcv.pc # "out_of_step"
      /\ rlife' # "up" => rcv'.pc = "idle"
  <2>1. CASE FlushBuffers
    BY <1>4, <2>1 DEF FlushBuffers, IdleRcv, TCPReceiver, NoFragment
  <2>2. CASE ListenEnds
    <3>1. rlife = "flushed" /\ rcv' = rcv
      BY <2>2 DEF ListenEnds
    <3>2. rcv.pc = "idle"
      BY <3>1 DEF TCPInv, StepsHeld
    <3> QED BY <1>4, <3>1, <3>2
  <2>3. CASE HeaderStop
    <3>1. rcv' = Timeout([rcv EXCEPT !.active = 0]) /\ rcv.pc = "header" /\ rlife' = "up"
      BY <2>3 DEF HeaderStop, Reading, At
    <3> QED BY <1>4, <3>1, TimeoutFacts
  <2>4. CASE HeaderDesync
    <3>1. /\ rcv.pc = "header" /\ rlife' = "up"
          /\ \/ rcv' = Timeout([rcv EXCEPT !.active = 0])
             \/ rcv' = [rcv EXCEPT !.active = 0, !.state = "Data"]
      BY <2>4 DEF HeaderDesync, Reading, At
    <3>2. CASE rcv' = Timeout([rcv EXCEPT !.active = 0])
      BY <1>4, <3>1, <3>2, TimeoutFacts
    <3>3. CASE rcv' = [rcv EXCEPT !.active = 0, !.state = "Data"]
      BY <1>4, <3>1, <3>3 DEF TCPReceiver
    <3> QED BY <3>1, <3>2, <3>3
  <2>5. CASE BodyTimeout
    <3>1. rcv' = Timeout([rcv EXCEPT !.active = 0]) /\ rcv.pc = "body" /\ rlife' = "up"
      BY <2>5 DEF BodyTimeout, Reading, At
    <3> QED BY <1>4, <3>1, TimeoutFacts
  <2> QED BY <2>1, <2>2, <2>3, <2>4, <2>5
<1> QED BY <1>1, <1>3, <1>5, ReceiverKeeps
LEMMA GotAppended ==
  ASSUME NEW g \in Seq(TCPReceived), NEW e \in TCPReceived
  PROVE  /\ Append(g, e) \in Seq(TCPReceived)
         /\ \A x : x \in GotHeaders(Append(g, e)) <=> x \in GotHeaders(g) \/ x = e.header
<1> DEFINE L == Len(g)
           h == Append(g, e)
<1>1. /\ L \in Nat /\ h \in Seq(TCPReceived) /\ DOMAIN g = 1..L /\ DOMAIN h = 1..L + 1
      /\ h[L + 1] = e /\ \A i \in 1..L : h[i] = g[i]
  OBVIOUS
<1>2. \A i \in 1..L + 1 : i \in 1..L \/ i = L + 1
  BY <1>1
<1>3. L + 1 \in 1..L + 1 /\ \A i \in 1..L : i \in 1..L + 1
  BY <1>1
<1> HIDE DEF h, L
<1>4. \A x : x \in GotHeaders(h) <=> x \in GotHeaders(g) \/ x = e.header
  BY <1>1, <1>2, <1>3 DEF GotHeaders
<1> QED BY <1>1, <1>4 DEF h

\* A Fragment is received: whole, and not one that was received before.
LEMMA GotOnce ==
  ASSUME TCPInv, rcv.pc # "out_of_step", NEW e \in TCPReceived, got' = Append(got, e), e.header = e.data,
         e.header \notin GotHeaders(got), e.header = NoFragment => lost' = Frag
  PROVE  FragmentsWhole'
<1> DEFINE L == Len(got)
<1>1. /\ L \in Nat /\ DOMAIN got = 1..L /\ DOMAIN got' = 1..L + 1
      /\ got'[L + 1] = e /\ \A i \in 1..L : got'[i] = got[i]
  BY TCPFacts
<1>2. \A i \in 1..L + 1 : i \in 1..L \/ i = L + 1
  BY <1>1
<1>3. \A i \in 1..L : got[i].header # NoFragment /\ got[i].header # e.header
  BY <1>1 DEF TCPInv, StepsHeld, GotHeaders
<1> HIDE DEF L
<1>4. \A i \in 1..L : got[i].header = got[i].data
  BY <1>1 DEF TCPInv, FragmentsWhole
<1>5. \A i, j \in 1..L : i < j => got[i].header # got[j].header
  BY <1>1, <1>3 DEF TCPInv, FragmentsWhole
<1>6. \A i \in 1..L + 1 : got'[i].header = got'[i].data
  BY <1>1, <1>2, <1>4
<1>7. ASSUME NEW i \in 1..L + 1, NEW j \in 1..L + 1, i < j PROVE got'[i].header # got'[j].header
  <2>1. i \in 1..L
    BY <1>1, <1>7
  <2>2. CASE j \in 1..L
    BY <1>1, <1>5, <1>7, <2>1, <2>2
  <2>3. CASE j = L + 1
    BY <1>1, <1>3, <2>1, <2>3
  <2> QED BY <1>2, <2>2, <2>3
<1>8. \A i \in 1..L + 1 : got'[i].header = NoFragment => lost' = Frag
  BY <1>1, <1>2, <1>3
<1> QED BY <1>1, <1>6, <1>7, <1>8 DEF FragmentsWhole

\* The next message of a connection is taken.
LEMMA ConsumedFacts ==
  ASSUME TCPInv, NEW a \in Conn, conns[a].wire # << >>, conns' = Consume(a), snd' = snd
  PROVE  /\ conns' \in [Conn -> Connection] /\ OwnDescriptors' /\ DataDue'
         /\ Wires' \in [Conn -> Seq(TCPMessage)] /\ Shorter(Wires'[a], Wires[a])
         /\ \A c \in Conn : c # a => Wires'[c] = Wires[c] /\ conns'[c] = conns[c]
         /\ conns'[a].st = conns[a].st /\ conns'[a].wire = Wires'[a]
<1> DEFINE t == Tail(conns[a].wire)
<1>1. conns \in [Conn -> Connection] /\ conns[a] \in Connection /\ conns[a].wire \in Seq(TCPMessage)
  BY TCPFacts DEF TCPInv, TCPTypeOK
<1>2. t \in Seq(TCPMessage) /\ Shorter(t, conns[a].wire)
  BY <1>1, TailShorter
<1>3. conns' = [conns EXCEPT ![a].wire = t]
  BY DEF Consume
<1> HIDE DEF t
<1>4. /\ conns' \in [Conn -> Connection] /\ conns'[a].wire = t /\ conns'[a].st = conns[a].st
      /\ conns'[a].fd = conns[a].fd /\ \A c \in Conn : c # a => conns'[c] = conns[c]
  <2>1. PICK k \in Connection : k = conns[a]
    BY <1>1
  <2>2. [k EXCEPT !.wire = t] \in Connection
    BY <1>2 DEF Connection
  <2>3. conns' = [conns EXCEPT ![a] = [k EXCEPT !.wire = t]]
    BY <1>3, <2>1
  <2>4. conns' \in [Conn -> Connection] /\ \A c \in Conn : c # a => conns'[c] = conns[c]
    BY <1>1, <2>2, <2>3
  <2>5. conns'[a] = [k EXCEPT !.wire = t]
    BY <1>1, <2>3
  <2> QED BY <1>2, <2>1, <2>4, <2>5 DEF Connection
<1>5. OwnDescriptors'
  BY <1>4, DescriptorsKept
<1>6. /\ Wires' \in [Conn -> Seq(TCPMessage)] /\ \A c \in Conn : Wires'[c] = conns'[c].wire
      /\ \A c \in Conn : Wires[c] = conns[c].wire
  BY <1>4, WiresAfter, TCPFacts
<1>7. DataDue'
  <2> SUFFICES ASSUME snd.pc = "data", snd.conn # 0, conns'[snd.conn].st # "closed"
               PROVE  Due(conns'[snd.conn].wire, snd.frag)
    BY DEF DataDue
  <2>1. snd.conn \in Conn /\ Due(conns[snd.conn].wire, snd.frag)
    BY <1>4, TCPFacts DEF TCPInv, DataDue
  <2>2. CASE snd.conn # a
    BY <1>4, <2>1, <2>2
  <2>3. CASE snd.conn = a
    <3> DEFINE w == conns[a].wire
    <3>1. w[Len(w)] = Msg("header", snd.frag) /\ Len(t) \in Nat /\ Len(w) = Len(t) + 1
          /\ \A i \in 1..Len(t) : t[i] = w[i + 1]
      BY <1>2, <2>1, <2>3 DEF Due, Shorter
    <3>2. CASE Len(t) = 0
      <4>1. t = << >>
        BY <1>2, <3>2
      <4> QED BY <1>4, <2>3, <4>1 DEF Due
    <3>3. CASE Len(t) # 0
      <4>1. Len(t) \in 1..Len(t)
        BY <3>1, <3>3
      <4>2. t[Len(t)] = w[Len(w)]
        BY <3>1, <4>1
      <4> QED BY <1>4, <2>3, <3>1, <4>2 DEF Due
    <3> QED BY <3>2, <3>3
  <2> QED BY <2>2, <2>3
<1> QED BY <1>2, <1>4, <1>5, <1>6, <1>7

LEMMA OutOfStepKeeps == TCPInv /\ HeaderOutOfStep => TCPInv'
<1> SUFFICES ASSUME TCPInv, HeaderOutOfStep PROVE TCPInv'
  OBVIOUS
<1> DEFINE e == [header |-> NoFragment, data |-> NoFragment]
<1>1. /\ rcv.pc = "header" /\ rlife = "up" /\ got' = Append(got, e) /\ rcv' = [rcv EXCEPT !.pc = "out_of_step"]
      /\ lost' = Frag /\ UNCHANGED <<snd, conns, rlife>>
  BY DEF HeaderOutOfStep, Reading, At
<1>2. e \in TCPReceived /\ e.header = NoFragment /\ e.data = NoFragment /\ NoFragment = 0
  BY TCPFacts DEF TCPReceived, NoFragment
<1> HIDE DEF e
<1>3. /\ got' \in Seq(TCPReceived)
      /\ \A x : x \in GotHeaders(got') <=> x \in GotHeaders(got) \/ x = 0
  <2>1. got \in Seq(TCPReceived)
    BY TCPFacts
  <2>2. /\ Append(got, e) \in Seq(TCPReceived)
        /\ \A x : x \in GotHeaders(Append(got, e)) <=> x \in GotHeaders(got) \/ x = e.header
    BY <1>2, <2>1, GotAppended
  <2> QED BY <1>1, <1>2, <2>2
<1>4. rcv' \in TCPReceiver /\ rcv'.pc = "out_of_step"
  BY <1>1, TCPFacts DEF TCPReceiver
<1>5. TCPTypeOK' /\ OwnDescriptors' /\ DataDue' /\ BodyHeld'
  <2>1. TCPTypeOK' /\ BodyHeld'
    <3>1. GotHeaders(got') \subseteq 0..snd.frag
      BY <1>3, TCPFacts DEF TCPInv, TCPTypeOK
    <3> QED BY <1>1, <1>3, <1>4, <3>1 DEF TCPInv, TCPTypeOK, BodyHeld
  <2>2. OwnDescriptors'
    BY <1>1, DescriptorsKept
  <2>3. DataDue'
    BY <1>1 DEF TCPInv, DataDue
  <2> QED BY <2>1, <2>2, <2>3
<1>6. WiresGood(Wires', snd'.frag, Taken(got', rcv'))
  <2> DEFINE T == Taken(got, rcv)
             U == Taken(got', rcv')
             n == snd.frag
  <2>1. T \in SUBSET Int /\ U \in SUBSET Int /\ n \in Int /\ \A f \in U : f \in 1..n => f \in T
    <3>1. U = GotHeaders(got') /\ T = GotHeaders(got)
      BY <1>1, <1>4 DEF Taken
    <3> QED BY <1>3, <3>1, TCPFacts
  <2>2. WiresGood(Wires, n, T) /\ Wires \in [Conn -> Seq(TCPMessage)] /\ n <= n
    BY <2>1, TCPFacts DEF TCPInv
  <2> HIDE DEF T, U, n
  <2>3. WiresGood(Wires, n, U)
    BY <2>1, <2>2, WiresShrink
  <2>4. Wires' = Wires
    BY <1>1 DEF Wires
  <2> QED BY <1>1, <2>3, <2>4 DEF U, n
<1>7. StepsHeld'
  BY <1>1, <1>4 DEF StepsHeld
<1>8. FragmentsWhole'
  <2>1. NoFragment \notin GotHeaders(got)
    BY <1>1 DEF TCPInv, StepsHeld
  <2> QED BY <1>1, <1>2, <2>1, GotOnce
<1> QED BY <1>5, <1>6, <1>7, <1>8 DEF TCPInv

LEMMA HeaderReceivedKeeps == TCPInv /\ HeaderReceived => TCPInv'
<1> SUFFICES ASSUME TCPInv, HeaderReceived PROVE TCPInv'
  OBVIOUS
<1> DEFINE a == rcv.active
           w == conns[a].wire
           f == w[1].frag
           v == conns'[a].wire
<1>1. /\ rcv.pc = "header" /\ rlife = "up" /\ a # 0 /\ w # << >> /\ w[1].type = "header"
      /\ conns' = Consume(a) /\ rcv' = [rcv EXCEPT !.pc = "body", !.header = f]
      /\ UNCHANGED <<snd, rlife, got, lost>>
  BY DEF HeaderReceived, Reading, At, NextIs, HasMessage, Head1, Wire
<1>2. a \in Conn /\ w \in Seq(TCPMessage) /\ Wires[a] = w
  BY <1>1, TCPFacts
<1>3. /\ conns' \in [Conn -> Connection] /\ OwnDescriptors' /\ DataDue'
      /\ Wires' \in [Conn -> Seq(TCPMessage)] /\ Shorter(Wires'[a], Wires[a])
      /\ \A c \in Conn : c # a => Wires'[c] = Wires[c] /\ conns'[c] = conns[c]
      /\ conns'[a].st = conns[a].st /\ v = Wires'[a]
  <2> HIDE DEF a
  <2> QED BY <1>1, <1>2, ConsumedFacts
<1>4. /\ f \in HeadersIn(w) /\ GoodWire(w) /\ f \in (1..snd.frag) \ GotHeaders(got) /\ f \in 0..MaxFrag
      /\ v \in Seq(TCPMessage)
      /\ Len(v) # 0 /\ v[1].type = "data" => v[1].frag = f
  <2>1. WiresGood(Wires, snd.frag, GotHeaders(got))
    BY <1>1 DEF TCPInv, Taken
  <2>2. GoodWire(w) /\ HeadersIn(w) \subseteq (1..snd.frag) \ GotHeaders(got)
    BY <1>2, <2>1 DEF WiresGood
  <2>3. IsHeader(w[1])
    BY <1>1 DEF IsHeader
  <2>4. Shorter(v, w) /\ v \in Seq(TCPMessage)
    BY <1>2, <1>3
  <2> HIDE DEF w, v
  <2>5. f \in HeadersIn(w) /\ (Len(v) # 0 /\ v[1].type = "data" => v[1].frag = f)
    BY <1>2, <2>2, <2>3, <2>4, ShorterWire
  <2>6. f \in 0..MaxFrag
    <3>1. f \in 1..snd.frag
      BY <2>2, <2>5
    <3> HIDE DEF f
    <3> QED BY <3>1, TCPFacts
  <2> QED BY <2>2, <2>4, <2>5, <2>6
<1>5. rcv' \in TCPReceiver /\ rcv'.pc = "body" /\ rcv'.header = f /\ rcv'.active = a
  <2> HIDE DEF f
  <2> QED BY <1>1, <1>4, TCPFacts DEF TCPReceiver
<1>6. TCPTypeOK'
  BY <1>1, <1>3, <1>5 DEF TCPInv, TCPTypeOK
<1>7. WiresGood(Wires', snd'.frag, Taken(got', rcv'))
  <2> DEFINE T == Taken(got, rcv)
             U == Taken(got', rcv')
             n == snd.frag
             V == Wires'
             W == Wires
  <2>1. /\ T \in SUBSET Int /\ U \in SUBSET Int /\ n \in Int
        /\ \A x \in U : x \in T \/ StartsWith(W[a], x)
    <3>1. U = GotHeaders(got) \cup {f} /\ T = GotHeaders(got)
      BY <1>1, <1>5 DEF Taken
    <3>2. GotHeaders(got) \subseteq 0..MaxFrag /\ n \in Int
      BY TCPFacts
    <3>3. f \in Int
      BY <1>4
    <3>4. StartsWith(W[a], f)
      BY <1>1, <1>2 DEF IsHeader, StartsWith
    <3> HIDE DEF f, n, U, T, W
    <3> QED BY <3>1, <3>2, <3>3, <3>4
  <2>2. WiresGood(W, n, T) /\ W \in [Conn -> Seq(TCPMessage)] /\ V \in [Conn -> Seq(TCPMessage)]
    BY <1>3, TCPFacts DEF TCPInv
  <2>3. Shorter(V[a], W[a]) /\ \A c \in Conn : c # a => V[c] = W[c]
    BY <1>3
  <2> HIDE DEF T, U, n, V, W, f, w, a
  <2>4. WiresGood(V, n, U)
    BY <1>2, <2>1, <2>2, <2>3, WiresShorter
  <2> QED BY <1>1, <2>4 DEF U, n, V
<1>8. BodyHeld'
  <2>1. v # << >> => Len(v) # 0
    BY <1>4
  <2>2. ASSUME v = << >>, snd.conn = a, snd.pc = "data", conns[a].st # "closed" PROVE f = snd.frag
    <3>1. Due(w, snd.frag)
      BY <1>1, <2>2 DEF TCPInv, DataDue
    <3>2. Len(w) = 1
      BY <1>2, <1>3, <2>2 DEF Shorter
    <3> QED BY <1>1, <3>1, <3>2 DEF Due, Msg
  <2> HIDE DEF a, w, v, f
  <2> QED BY <1>1, <1>3, <1>4, <1>5, <2>1, <2>2 DEF BodyHeld, v
<1>9. StepsHeld'
  BY <1>1, <1>5 DEF TCPInv, StepsHeld
<1>10. FragmentsWhole'
  BY <1>1 DEF TCPInv, FragmentsWhole
<1> QED BY <1>3, <1>6, <1>7, <1>8, <1>9, <1>10 DEF TCPInv

LEMMA BodyReceivedKeeps == TCPInv /\ BodyReceived => TCPInv'
<1> SUFFICES ASSUME TCPInv, BodyReceived PROVE TCPInv'
  OBVIOUS
<1> DEFINE a == rcv.active
           w == conns[a].wire
           e == [header |-> rcv.header, data |-> w[1].frag]
           d == conns[a].fd
<1>1. /\ rcv.pc = "body" /\ rlife = "up" /\ a # 0 /\ w # << >> /\ w[1].type = "data"
      /\ conns' = Consume(a) /\ got' = Append(got, e) /\ rcv' = Timeout([rcv EXCEPT !.last = d, !.active = 0])
      /\ UNCHANGED <<snd, rlife, lost>>
  BY DEF BodyReceived, Reading, At, HasMessage, Head1, Wire, BodyFrom
<1>2. a \in Conn /\ w \in Seq(TCPMessage) /\ Wires[a] = w /\ d \in 0..MaxConn
  BY <1>1, TCPFacts DEF Connection
<1>3. /\ conns' \in [Conn -> Connection] /\ OwnDescriptors' /\ DataDue'
      /\ Wires' \in [Conn -> Seq(TCPMessage)] /\ Shorter(Wires'[a], Wires[a])
      /\ \A c \in Conn : c # a => Wires'[c] = Wires[c]
  <2> HIDE DEF a
  <2> QED BY <1>1, <1>2, ConsumedFacts
<1>4. w[1].frag = rcv.header /\ rcv.header \in (1..snd.frag) \ GotHeaders(got) /\ rcv.header \in 0..MaxFrag
  BY <1>1, TCPFacts DEF TCPInv, BodyHeld
<1>5. e \in TCPReceived /\ e.header = rcv.header /\ e.data = rcv.header /\ rcv.header # NoFragment
  BY <1>4 DEF TCPReceived, NoFragment
<1> HIDE DEF e
<1>6. /\ got' \in Seq(TCPReceived)
      /\ \A x : x \in GotHeaders(got') <=> x \in GotHeaders(got) \/ x = rcv.header
  <2>1. got \in Seq(TCPReceived)
    BY TCPFacts
  <2>2. /\ Append(got, e) \in Seq(TCPReceived)
        /\ \A x : x \in GotHeaders(Append(got, e)) <=> x \in GotHeaders(got) \/ x = e.header
    BY <1>5, <2>1, GotAppended
  <2> QED BY <1>1, <1>5, <2>2
<1>7. rcv' \in TCPReceiver /\ rcv'.pc = "idle"
  <2>1. rcv \in TCPReceiver
    BY TCPFacts
  <2> HIDE DEF d
  <2> QED BY <1>1, <1>2, <2>1, TimeoutFacts
<1>8. TCPTypeOK' /\ BodyHeld'
  <2>1. GotHeaders(got') \subseteq 0..snd.frag
    BY <1>4, <1>6, TCPFacts DEF TCPInv, TCPTypeOK
  <2> QED BY <1>1, <1>3, <1>6, <1>7, <2>1 DEF TCPInv, TCPTypeOK, BodyHeld
<1>9. WiresGood(Wires', snd'.frag, Taken(got', rcv'))
  <2> DEFINE T == Taken(got, rcv)
             U == Taken(got', rcv')
             n == snd.frag
             V == Wires'
             W == Wires
  <2>1. /\ T \in SUBSET Int /\ U \in SUBSET Int /\ n \in Int
        /\ \A x \in U : x \in T \/ StartsWith(W[a], x)
    <3>1. U = GotHeaders(got') /\ T = GotHeaders(got) \cup {rcv.header}
      BY <1>1, <1>7 DEF Taken
    <3>2. \A x \in U : x \in T
      BY <1>6, <3>1
    <3> QED BY <1>4, <3>1, <3>2, TCPFacts
  <2>2. WiresGood(W, n, T) /\ W \in [Conn -> Seq(TCPMessage)] /\ V \in [Conn -> Seq(TCPMessage)]
    BY <1>3, TCPFacts DEF TCPInv
  <2>3. Shorter(V[a], W[a]) /\ \A c \in Conn : c # a => V[c] = W[c]
    BY <1>3
  <2>4. a \in Conn
    BY <1>2
  <2> HIDE DEF T, U, n, V, W, w, a, d
  <2>5. WiresGood(V, n, U)
    BY <2>1, <2>2, <2>3, <2>4, WiresShorter
  <2> QED BY <1>1, <2>5 DEF U, n, V
<1>10. StepsHeld'
  <2>1. NoFragment \notin GotHeaders(got')
    BY <1>1, <1>5, <1>6 DEF TCPInv, StepsHeld
  <2> QED BY <1>1, <1>7, <2>1 DEF StepsHeld
<1>11. FragmentsWhole'
  <2>1. rcv.pc # "out_of_step" /\ e.header = e.data /\ e.header \notin GotHeaders(got) /\ e.header # NoFragment
    BY <1>1, <1>4, <1>5
  <2> QED BY <1>1, <1>5, <2>1, GotOnce
<1> QED BY <1>3, <1>8, <1>9, <1>10, <1>11 DEF TCPInv
\* A step that changes no message, or takes those of a connection away.
LEMMA WiresKept ==
  ASSUME TCPInv, conns' \in [Conn -> Connection], snd.frag <= snd'.frag, snd'.frag \in Int,
         \A c \in Conn : conns'[c].wire = conns[c].wire \/ Len(conns'[c].wire) = 0
  PROVE  WiresGood(Wires', snd'.frag, Taken(got, rcv))
<1> DEFINE V == Wires'
           T == Taken(got, rcv)
           n == snd.frag
           p == snd'.frag
<1>1. V \in [Conn -> Seq(TCPMessage)] /\ Wires \in [Conn -> Seq(TCPMessage)]
  BY WiresAfter, TCPFacts
<1>2. \A c \in Conn : V[c] = Wires[c] \/ Len(V[c]) = 0
  <2>1. \A c \in Conn : V[c] = conns'[c].wire
    BY WiresAfter
  <2>2. \A c \in Conn : Wires[c] = conns[c].wire
    BY TCPFacts
  <2>3. \A c \in Conn : conns'[c].wire = conns[c].wire \/ Len(conns'[c].wire) = 0
    OBVIOUS
  <2> HIDE DEF V
  <2> QED BY <2>1, <2>2, <2>3
<1>3. T \in SUBSET Int /\ n \in Int /\ p \in Int /\ n <= p /\ \A f \in T : f \in 1..n => f \in T
  BY TCPFacts
<1>4. WiresGood(Wires, n, T)
  BY DEF TCPInv
<1> HIDE DEF V, T, n, p
<1>5. WiresGood(V, p, T)
  BY <1>1, <1>2, <1>3, <1>4, WiresShrink
<1> QED BY <1>5 DEF V, T, p

\* A step of the sender that writes nothing.
LEMMA SenderQuiet ==
  ASSUME TCPInv, UNCHANGED <<rcv, got, rlife>>, conns' \in [Conn -> Connection],
         \A c \in Conn : conns'[c].wire = conns[c].wire \/ (Len(conns'[c].wire) = 0 /\ snd'.pc = "idle"),
         \A c \in Conn : conns'[c].st = "closed" <=> conns[c].st = "closed",
         OwnDescriptors', snd' \in TCPSender, snd'.pc = "data" => snd'.frag # 0, snd.frag <= snd'.frag,
         \/ snd'.conn = 0 \/ snd'.pc = "idle" \/ conns[snd'.conn].st = "closed"
         \/ snd'.conn = snd.conn /\ snd'.pc = snd.pc /\ snd'.frag = snd.frag,
         lost = Frag => lost' = Frag
  PROVE  TCPInv'
<1>1. snd'.frag \in Int /\ snd.frag \in Int /\ (snd'.conn # 0 => snd'.conn \in Conn)
  BY TCPFacts DEF TCPSender
<1>2. TCPTypeOK'
  <2>1. GotHeaders(got) \subseteq 0..snd'.frag
    BY <1>1, TCPFacts DEF TCPInv, TCPTypeOK
  <2> QED BY <2>1, TCPFacts DEF TCPTypeOK
<1>3. WiresGood(Wires', snd'.frag, Taken(got, rcv))
  BY <1>1, WiresKept
<1>4. \A c \in Conn : conns'[c].wire = conns[c].wire \/ (conns'[c].wire = << >> /\ snd'.pc = "idle")
  BY WiresAfter
<1>5. DataDue'
  <2> SUFFICES ASSUME snd'.pc = "data", snd'.conn # 0, conns'[snd'.conn].st # "closed"
               PROVE  Due(conns'[snd'.conn].wire, snd'.frag)
    BY DEF DataDue
  <2>1. conns[snd'.conn].st # "closed"
    BY <1>1
  <2>2. snd'.conn = snd.conn /\ snd'.pc = snd.pc /\ snd'.frag = snd.frag
    BY <2>1
  <2>3. Due(conns[snd'.conn].wire, snd'.frag)
    BY <2>1, <2>2 DEF TCPInv, DataDue
  <2> QED BY <1>1, <1>4, <2>3 DEF Due
<1>6. rcv.pc = "body" =>
        /\ \/ conns'[rcv.active].wire = << >>
           \/ conns'[rcv.active].wire[1].type # "data"
           \/ conns'[rcv.active].wire[1].frag = rcv.header
        /\ \/ snd'.conn # rcv.active \/ conns'[rcv.active].wire # << >> \/ snd'.pc # "data"
           \/ conns'[rcv.active].st = "closed" \/ rcv.header = snd'.frag
  <2> SUFFICES ASSUME rcv.pc = "body"
               PROVE  /\ \/ conns'[rcv.active].wire = << >>
                         \/ conns'[rcv.active].wire[1].type # "data"
                         \/ conns'[rcv.active].wire[1].frag = rcv.header
                      /\ \/ snd'.conn # rcv.active \/ conns'[rcv.active].wire # << >> \/ snd'.pc # "data"
                         \/ conns'[rcv.active].st = "closed" \/ rcv.header = snd'.frag
    OBVIOUS
  <2>1. BodyHeld /\ DataDue
    BY DEF TCPInv
  <2>2. rcv.active \in Conn
    BY <2>1, TCPFacts DEF BodyHeld
  <2>3. \/ conns'[rcv.active].wire = << >>
        \/ conns'[rcv.active].wire[1].type # "data"
        \/ conns'[rcv.active].wire[1].frag = rcv.header
    BY <1>4, <2>1, <2>2 DEF BodyHeld
  <2>4. ASSUME snd'.conn = rcv.active, conns'[rcv.active].wire = << >>, snd'.pc = "data",
               conns'[rcv.active].st # "closed"
        PROVE  rcv.header = snd'.frag
    <3>1. conns[snd'.conn].st # "closed" /\ snd'.conn # 0
      BY <2>1, <2>2, <2>4 DEF BodyHeld
    <3>2. snd'.conn = snd.conn /\ snd'.pc = snd.pc /\ snd'.frag = snd.frag
      BY <2>4, <3>1
    <3>3. CASE conns[rcv.active].wire = << >>
      BY <2>1, <2>4, <3>1, <3>2, <3>3 DEF BodyHeld
    <3>4. CASE conns[rcv.active].wire # << >>
      BY <1>4, <2>2, <2>4, <3>4
    <3> QED BY <3>3, <3>4
  <2> QED BY <2>3, <2>4
<1> QED BY <1>2, <1>3, <1>5, <1>6, SenderKeeps
\* A step of the sender that writes a message.
LEMMA SenderWrites ==
  ASSUME TCPInv, UNCHANGED <<rcv, got, rlife>>, conns' \in [Conn -> Connection],
         NEW s \in Conn, NEW m \in TCPMessage, Longer(conns'[s].wire, conns[s].wire, m),
         conns'[s].st = conns[s].st, conns'[s].fd = conns[s].fd, \A c \in Conn : c # s => conns'[c] = conns[c],
         snd' \in TCPSender, snd'.pc = "data" => snd'.frag # 0, snd.frag <= snd'.frag, snd'.conn \in {s, 0},
         snd'.conn # 0 /\ snd'.pc = "data" => IsHeader(m),
         IsHeader(m) => m = Msg("header", snd'.frag) /\ snd'.frag # snd.frag,
         m.type = "data" => /\ m = Msg("data", snd.frag) /\ snd.conn = s /\ snd.pc = "data"
                            /\ conns[s].st # "closed",
         lost = Frag => lost' = Frag
  PROVE  TCPInv'
<1> DEFINE w == conns[s].wire
           v == conns'[s].wire
           n == snd.frag
           p == snd'.frag
           T == Taken(got, rcv)
<1>1. n \in Int /\ p \in Int /\ n <= p /\ n >= 0 /\ T \in SUBSET Int
  BY TCPFacts DEF TCPSender
<1>2. TCPTypeOK'
  <2>1. GotHeaders(got) \subseteq 0..p
    BY <1>1, TCPFacts DEF TCPInv, TCPTypeOK
  <2> QED BY <2>1, TCPFacts DEF TCPTypeOK
<1>3. OwnDescriptors'
  <2>1. \A c \in Conn : conns'[c].st = "connected" => conns[c].st = "connected" /\ conns'[c].fd = conns[c].fd
    OBVIOUS
  <2> QED BY <2>1, DescriptorsKept
<1>4. /\ w \in Seq(TCPMessage) /\ v \in Seq(TCPMessage) /\ Len(w) \in Nat /\ Len(v) = Len(w) + 1
      /\ v[Len(v)] = m /\ v # << >> /\ (w = << >> => v[1] = m) /\ (w # << >> => v[1] = w[1])
  <2>1. w \in Seq(TCPMessage) /\ v \in Seq(TCPMessage) /\ Longer(v, w, m)
    BY TCPFacts, WiresAfter
  <2> HIDE DEF w, v
  <2>2. /\ Len(w) \in Nat /\ Len(v) = Len(w) + 1 /\ v[Len(w) + 1] = m
        /\ \A i \in 1..Len(w) : v[i] = w[i]
    BY <2>1 DEF Longer
  <2>3. v # << >>
    BY <2>2
  <2>4. ASSUME w = << >> PROVE v[1] = m
    <3>1. Len(w) + 1 = 1
      BY <2>4
    <3> QED BY <2>2, <3>1
  <2>5. ASSUME w # << >> PROVE v[1] = w[1]
    <3>1. 1 \in 1..Len(w)
      BY <2>1, <2>5
    <3> QED BY <2>2, <3>1
  <2> QED BY <2>1, <2>2, <2>3, <2>4, <2>5
<1>5. m.type = "data" => Due(w, m.frag)
  <2>1. DataDue
    BY DEF TCPInv
  <2> SUFFICES ASSUME m.type = "data" PROVE Due(w, m.frag)
    OBVIOUS
  <2>2. Due(w, snd.frag) /\ m.frag = snd.frag
    BY <2>1, TCPFacts DEF DataDue, Msg
  <2> QED BY <2>2
<1>6. WiresGood(Wires', p, T)
  <2> DEFINE V == Wires'
             W == Wires
  <2>1. /\ V \in [Conn -> Seq(TCPMessage)] /\ W \in [Conn -> Seq(TCPMessage)] /\ W[s] = w /\ V[s] = v
        /\ \A c \in Conn : c # s => V[c] = W[c]
    <3>1. V \in [Conn -> Seq(TCPMessage)] /\ \A c \in Conn : V[c] = conns'[c].wire
      BY WiresAfter
    <3>2. W \in [Conn -> Seq(TCPMessage)] /\ \A c \in Conn : W[c] = conns[c].wire
      BY TCPFacts
    <3>3. \A c \in Conn : c # s => conns'[c].wire = conns[c].wire
      OBVIOUS
    <3> HIDE DEF V, W
    <3> QED BY <3>1, <3>2, <3>3
  <2>2. WiresGood(W, n, T)
    BY DEF TCPInv
  <2>3. IsHeader(m) => m.frag \in (1..p) \ T /\ m.frag > n
    <3> SUFFICES ASSUME IsHeader(m) PROVE m.frag \in (1..p) \ T /\ m.frag > n
      OBVIOUS
    <3>1. m.frag = p /\ p > n
      BY <1>1 DEF Msg
    <3>2. \A f \in T : f <= n
      <4>1. \A f \in GotHeaders(got) : f <= n
        BY <1>1 DEF TCPInv, TCPTypeOK
      <4>2. rcv.pc = "body" => rcv.header <= n
        BY <1>1 DEF TCPInv, BodyHeld
      <4> QED BY <4>1, <4>2 DEF Taken
    <3> HIDE DEF p, n, T
    <3>3. p \notin T
      BY <1>1, <3>1, <3>2
    <3> QED BY <1>1, <3>1, <3>3
  <2>4. Longer(V[s], W[s], m) /\ (m.type = "data" => Due(W[s], m.frag))
    BY <1>5, <2>1
  <2> HIDE DEF V, W, w, v, n, p, T
  <2>5. WiresGood(V, p, T)
    BY <1>1, <2>1, <2>2, <2>3, <2>4, WiresLonger
  <2> QED BY <2>5 DEF V
<1>7. DataDue'
  <2> SUFFICES ASSUME snd'.pc = "data", snd'.conn # 0 PROVE Due(conns'[snd'.conn].wire, snd'.frag)
    BY DEF DataDue
  <2> QED BY <1>4 DEF Due
<1>8. rcv.pc = "body" =>
        /\ \/ conns'[rcv.active].wire = << >>
           \/ conns'[rcv.active].wire[1].type # "data"
           \/ conns'[rcv.active].wire[1].frag = rcv.header
        /\ \/ snd'.conn # rcv.active \/ conns'[rcv.active].wire # << >> \/ snd'.pc # "data"
           \/ conns'[rcv.active].st = "closed" \/ rcv.header = snd'.frag
  <2> DEFINE a == rcv.active
  <2> SUFFICES ASSUME rcv.pc = "body"
               PROVE  /\ \/ conns'[a].wire = << >>
                         \/ conns'[a].wire[1].type # "data"
                         \/ conns'[a].wire[1].frag = rcv.header
                      /\ snd'.conn # a \/ conns'[a].wire # << >>
    OBVIOUS
  <2>1. BodyHeld
    BY DEF TCPInv
  <2>2. a \in Conn /\ a # 0
    BY <2>1, TCPFacts DEF BodyHeld
  <2>3. /\ conns[a].wire # << >> /\ conns[a].wire[1].type = "data" => conns[a].wire[1].frag = rcv.header
        /\ conns[a].wire = << >> /\ snd.conn = a /\ snd.pc = "data" /\ conns[a].st # "closed" => rcv.header = n
    BY <2>1 DEF BodyHeld
  <2>4. CASE a # s
    BY <2>2, <2>3, <2>4
  <2>5. CASE a = s /\ w # << >>
    BY <1>4, <2>3, <2>5
  <2>6. CASE a = s /\ w = << >>
    <3>1. m.type = "data" => m.frag = n /\ rcv.header = n
      BY <2>3, <2>6 DEF Msg
    <3>2. v[1] = m /\ v # << >>
      BY <1>4, <2>6
    <3> QED BY <2>6, <3>1, <3>2
  <2> QED BY <2>4, <2>5, <2>6
<1> HIDE DEF T, p, n
<1>9. WiresGood(Wires', snd'.frag, Taken(got, rcv))
  BY <1>6 DEF p, T
<1> QED BY <1>2, <1>3, <1>7, <1>8, <1>9, SenderKeeps
LEMMA SenderFacts ==
  ASSUME TCPInv
  PROVE  /\ snd.up \in BOOLEAN /\ snd.lost \in BOOLEAN /\ snd.pc \in {"idle", "data"}
         /\ snd.conn \in 0..MaxConn /\ snd.frag \in 0..MaxFrag /\ (snd.pc = "data" => snd.frag # 0)
         /\ snd = [up |-> snd.up, conn |-> snd.conn, lost |-> snd.lost, pc |-> snd.pc, frag |-> snd.frag]
         /\ conns \in [Conn -> Connection]
BY DEF TCPInv, TCPTypeOK, TCPSender

LEMMA ConnectKeeps == TCPInv /\ connect_ => TCPInv'
<1> SUFFICES ASSUME TCPInv, connect_ PROVE TCPInv'
  OBVIOUS
<1> DEFINE b == [NoConn EXCEPT !.st = "backlog"]
<1>1. PICK first \in Unused : \A d \in Unused : first <= d
  <2>1. Unused \subseteq Conn /\ Unused # {} /\ Conn \subseteq Nat
    <3>1. Unused # {}
      BY DEF connect_
    <3>2. Unused \subseteq Conn
      BY DEF Unused
    <3>3. Conn \subseteq Nat
      BY TCPFacts
    <3> QED BY <3>1, <3>2, <3>3
  <2> QED BY <2>1, LeastNatural
<1>2. PICK s \in Unused : conns' = [conns EXCEPT ![s] = b] /\ snd' = [snd EXCEPT !.conn = s, !.lost = FALSE]
  BY <1>1 DEF connect_
<1>3. UNCHANGED <<rcv, rlife, got, lost>> /\ snd.pc = "idle"
  BY DEF connect_
<1>4. s \in Conn /\ s \in 0..MaxConn /\ conns[s].st = "none"
  BY TCPFacts DEF Unused
<1>5. b \in Connection /\ b.st = "backlog" /\ Len(b.wire) = 0
  <2> DEFINE e == << >>
             k == [st |-> "none", fd |-> 0, wire |-> e, end |-> "open"]
  <2>1. e \in Seq(TCPMessage) /\ Len(e) = 0 /\ 0 \in 0..MaxConn
    BY TCPFacts
  <2>2. b = [k EXCEPT !.st = "backlog"]
    BY DEF NoConn
  <2> HIDE DEF e, b
  <2>3. b = [st |-> "backlog", fd |-> 0, wire |-> e, end |-> "open"]
    BY <2>2
  <2> QED BY <2>1, <2>3 DEF Connection
<1> HIDE DEF b
<1>6. /\ conns' \in [Conn -> Connection] /\ conns'[s] = b
      /\ \A c \in Conn : c # s => conns'[c] = conns[c]
  BY <1>2, <1>4, <1>5, SenderFacts
<1>7. snd' \in TCPSender /\ snd'.pc = "idle" /\ snd'.frag = snd.frag
  BY <1>2, <1>3, <1>4, SenderFacts DEF TCPSender
<1>8. OwnDescriptors'
  <2>1. \A c \in Conn : conns'[c].st = "connected" => conns[c].st = "connected" /\ conns'[c].fd = conns[c].fd
    BY <1>5, <1>6
  <2> QED BY <2>1, DescriptorsKept
<1>9. \A c \in Conn : conns'[c].wire = conns[c].wire \/ (Len(conns'[c].wire) = 0 /\ snd'.pc = "idle")
  BY <1>5, <1>6, <1>7
<1>10. \A c \in Conn : conns'[c].st = "closed" <=> conns[c].st = "closed"
  BY <1>4, <1>5, <1>6
<1>11. snd.frag <= snd'.frag
  BY <1>7, TCPFacts
<1> QED BY <1>3, <1>6, <1>7, <1>8, <1>9, <1>10, <1>11, SenderQuiet

\* The steps of the sender that touch no connection.
LEMMA SenderAlone == TCPInv /\ (SendNot \/ sendToClosed \/ StartSender) => TCPInv'
<1> SUFFICES ASSUME TCPInv, SendNot \/ sendToClosed \/ StartSender PROVE TCPInv'
  OBVIOUS
<1>1. UNCHANGED <<conns, rcv, rlife, got>>
  BY DEF SendNot, sendToClosed, StartSender
<1>2. conns' \in [Conn -> Connection] /\ OwnDescriptors'
  BY <1>1, SenderFacts, DescriptorsKept
<1>3. /\ \A c \in Conn : conns'[c].wire = conns[c].wire
      /\ \A c \in Conn : conns'[c].st = "closed" <=> conns[c].st = "closed"
  BY <1>1
<1>4. /\ MaxFrag \in Nat \ {0} /\ Frag = 1..MaxFrag /\ snd.frag \in 0..MaxFrag /\ 0 \in 0..MaxConn
      /\ snd.conn \in 0..MaxConn
  BY TCPFacts
<1>5. /\ snd' \in TCPSender /\ (snd'.pc = "data" => snd'.frag # 0) /\ snd.frag <= snd'.frag
      /\ \/ snd'.conn = 0 \/ snd'.pc = "idle" \/ conns[snd'.conn].st = "closed"
         \/ snd'.conn = snd.conn /\ snd'.pc = snd.pc /\ snd'.frag = snd.frag
      /\ lost = Frag => lost' = Frag
  <2>1. CASE SendNot
    <3>1. /\ snd.frag < MaxFrag /\ snd' = [snd EXCEPT !.frag = snd.frag + 1] /\ lost' = lost \cup {snd.frag + 1}
          /\ snd.conn = 0 /\ snd.pc = "idle"
      BY <2>1 DEF SendNot
    <3>2. snd.frag + 1 \in 0..MaxFrag /\ snd.frag + 1 \in Frag /\ snd.frag <= snd.frag + 1
      BY <1>4, <3>1
    <3>3. /\ snd'.frag = snd.frag + 1 /\ snd'.conn = 0 /\ snd'.pc = "idle"
          /\ snd' \in TCPSender
      BY <3>1, <3>2, SenderFacts DEF TCPSender
    <3> QED BY <3>1, <3>2, <3>3
  <2>2. CASE sendToClosed
    <3> DEFINE f == IF snd.pc = "idle" THEN snd.frag + 1 ELSE snd.frag
    <3>1. PICK error \in BOOLEAN :
            /\ snd' = IF error THEN [snd EXCEPT !.conn = 0, !.lost = TRUE, !.pc = "idle", !.frag = f]
                      ELSE [snd EXCEPT !.frag = f, !.pc = IF snd.pc = "idle" THEN "data" ELSE "idle"]
            /\ lost' = lost \cup {f}
      BY <2>2 DEF sendToClosed
    <3>2. /\ snd.conn # 0 /\ conns[snd.conn].st = "closed" /\ (snd.pc = "idle" => snd.frag < MaxFrag)
      BY <2>2 DEF sendToClosed, PeerClosed
    <3>3. f \in 0..MaxFrag /\ f \in Frag /\ snd.frag <= f /\ f # 0
      BY <1>4, <3>2, SenderFacts
    <3> HIDE DEF f
    <3>4. CASE error
      <4>1. snd' = [snd EXCEPT !.conn = 0, !.lost = TRUE, !.pc = "idle", !.frag = f]
        BY <3>1, <3>4
      <4>2. snd' \in TCPSender /\ snd'.conn = 0 /\ snd'.pc = "idle" /\ snd'.frag = f
        BY <1>4, <3>3, <4>1, SenderFacts DEF TCPSender
      <4> QED BY <3>1, <3>3, <4>2
    <3>5. CASE ~error
      <4>1. PICK pc \in {"data", "idle"} : snd' = [snd EXCEPT !.frag = f, !.pc = pc]
        BY <3>1, <3>5
      <4>2. snd' \in TCPSender /\ snd'.conn = snd.conn /\ snd'.frag = f
        BY <3>3, <4>1, SenderFacts DEF TCPSender
      <4> QED BY <3>1, <3>2, <3>3, <4>2
    <3> QED BY <3>4, <3>5
  <2>3. CASE StartSender
    <3>1. snd' = [snd EXCEPT !.up = TRUE, !.lost = FALSE] /\ lost' = lost
      BY <2>3 DEF StartSender
    <3>2. snd' \in TCPSender /\ snd'.conn = snd.conn /\ snd'.pc = snd.pc /\ snd'.frag = snd.frag
      BY <3>1, SenderFacts DEF TCPSender
    <3> QED BY <1>4, <3>1, <3>2, SenderFacts
  <2> QED BY <2>1, <2>2, <2>3
<1> QED BY <1>1, <1>2, <1>3, <1>5, SenderQuiet

LEMMA AcceptKeeps == TCPInv /\ Accept => TCPInv'
<1> SUFFICES ASSUME TCPInv, Accept PROVE TCPInv'
  OBVIOUS
<1>1. UNCHANGED <<snd, rcv, rlife, got, lost>>
  BY DEF Accept
<1>2. PICK a \in Conn, fd \in FreeFDs :
        conns[a].st = "backlog" /\ conns' = [conns EXCEPT ![a].st = "connected", ![a].fd = fd]
  BY DEF Accept
<1>3. fd \in 1..MaxConn /\ fd \in 0..MaxConn /\ \A c \in Connected : conns[c].fd # fd
  BY TCPFacts DEF FreeFDs, FD
<1>4. PICK k \in Connection : k = conns[a]
  BY SenderFacts
<1> DEFINE b == [k EXCEPT !.st = "connected", !.fd = fd]
<1>5. b \in Connection /\ b.st = "connected" /\ b.fd = fd /\ b.wire = k.wire
  BY <1>3 DEF Connection
<1>6. conns' = [conns EXCEPT ![a] = b]
  BY <1>2, <1>4, SenderFacts
<1> HIDE DEF b
<1>7. conns' \in [Conn -> Connection] /\ conns'[a] = b /\ \A c \in Conn : c # a => conns'[c] = conns[c]
  BY <1>5, <1>6, SenderFacts
<1>8. OwnDescriptors'
  <2>1. OwnDescriptors
    BY DEF TCPInv
  <2>2. \A c \in Connected' : (c = a /\ conns'[c].fd = fd)
                               \/ (c # a /\ c \in Connected /\ conns'[c].fd = conns[c].fd)
    BY <1>5, <1>7 DEF Connected
  <2>3. fd # 0
    BY <1>3
  <2> QED BY <1>3, <2>1, <2>2, <2>3 DEF OwnDescriptors
<1>9. /\ \A c \in Conn : conns'[c].wire = conns[c].wire
      /\ \A c \in Conn : conns'[c].st = "closed" <=> conns[c].st = "closed"
  BY <1>2, <1>4, <1>5, <1>7
<1>10. snd' \in TCPSender /\ (snd'.pc = "data" => snd'.frag # 0) /\ snd.frag <= snd'.frag
  BY <1>1, TCPFacts, SenderFacts
<1> QED BY <1>1, <1>7, <1>8, <1>9, <1>10, SenderQuiet

\* A message at the end of those of a connection.
LEMMA WrittenFacts ==
  ASSUME TCPInv, NEW s \in Conn, NEW m \in TCPMessage, NEW end \in {"open", "fin", "silent"},
         conns' = [conns EXCEPT ![s].wire = Append(conns[s].wire, m), ![s].end = end]
  PROVE  /\ conns' \in [Conn -> Connection] /\ Longer(conns'[s].wire, conns[s].wire, m)
         /\ conns'[s].st = conns[s].st /\ conns'[s].fd = conns[s].fd
         /\ \A c \in Conn : c # s => conns'[c] = conns[c]
<1> DEFINE v == Append(conns[s].wire, m)
<1>1. v \in Seq(TCPMessage) /\ Longer(v, conns[s].wire, m)
  BY TCPFacts, AppendLonger
<1>2. conns' = [conns EXCEPT ![s].wire = v, ![s].end = end]
  OBVIOUS
<1> HIDE DEF v
<1>3. PICK k \in Connection : k = conns[s]
  BY SenderFacts
<1> DEFINE b == [k EXCEPT !.wire = v, !.end = end]
<1>4. b \in Connection /\ b.st = k.st /\ b.fd = k.fd /\ b.wire = v
  BY <1>1 DEF Connection
<1>5. conns' = [conns EXCEPT ![s] = b]
  BY <1>2, <1>3, SenderFacts
<1> HIDE DEF b
<1>6. conns' \in [Conn -> Connection] /\ conns'[s] = b /\ \A c \in Conn : c # s => conns'[c] = conns[c]
  BY <1>4, <1>5, SenderFacts
<1> QED BY <1>1, <1>3, <1>4, <1>6

\* Only the end of the stream changes.
LEMMA EndedFacts ==
  ASSUME TCPInv, NEW s \in Conn, NEW end \in {"open", "fin", "silent"}, conns' = [conns EXCEPT ![s].end = end]
  PROVE  /\ conns' \in [Conn -> Connection]
         /\ \A c \in Conn : /\ conns'[c].wire = conns[c].wire /\ conns'[c].st = conns[c].st
                            /\ conns'[c].fd = conns[c].fd
<1>1. PICK k \in Connection : k = conns[s]
  BY SenderFacts
<1> DEFINE b == [k EXCEPT !.end = end]
<1>2. b \in Connection /\ b.st = k.st /\ b.fd = k.fd /\ b.wire = k.wire
  BY DEF Connection
<1>3. conns' = [conns EXCEPT ![s] = b]
  BY <1>1, SenderFacts
<1> HIDE DEF b
<1>4. conns' \in [Conn -> Connection] /\ conns'[s] = b /\ \A c \in Conn : c # s => conns'[c] = conns[c]
  BY <1>2, <1>3, SenderFacts
<1> QED BY <1>1, <1>2, <1>4

LEMMA MessageFacts ==
  ASSUME NEW f \in 0..MaxFrag, NEW type \in {"header", "data", "stop", "cut"}
  PROVE  Msg(type, f) \in TCPMessage /\ Msg(type, f).type = type /\ (IsHeader(Msg(type, f)) <=> type = "header")
BY DEF Msg, TCPMessage, IsHeader

\* One field changed twice is changed once more.
LEMMA WrittenWithEnd ==
  ASSUME TCPInv, NEW s \in Conn, NEW w
  PROVE  [conns EXCEPT ![s].wire = w] = [conns EXCEPT ![s].wire = w, ![s].end = conns[s].end]
<1>1. conns \in [Conn -> Connection] /\ conns[s] \in Connection
  BY SenderFacts
<1>2. PICK k \in Connection : k = conns[s]
  BY <1>1
<1>3. [k EXCEPT !.wire = w] = [k EXCEPT !.wire = w, !.end = k.end]
  BY DEF Connection
<1> QED BY <1>1, <1>2, <1>3

LEMMA SendKeeps == TCPInv /\ (sendHeader \/ sendData) => TCPInv'
<1> SUFFICES ASSUME TCPInv, sendHeader \/ sendData PROVE TCPInv'
  OBVIOUS
<1> DEFINE s == snd.conn
           f == snd'.frag
           type == IF snd.pc = "idle" THEN "header" ELSE "data"
           m == Msg(type, f)
           end == conns[s].end
<1>1. /\ s \in Conn /\ conns[s].st # "closed" /\ UNCHANGED <<rcv, rlife, got, lost>>
      /\ snd.frag \in 0..MaxFrag /\ MaxFrag \in Nat
  BY TCPFacts DEF sendHeader, sendData, PeerClosed
<1>2. /\ conns' = [conns EXCEPT ![s].wire = Append(conns[s].wire, m)] /\ f \in 0..MaxFrag
      /\ snd' \in TCPSender /\ (snd'.pc = "data" => snd'.frag # 0) /\ snd.frag <= f /\ snd'.conn = s
      /\ \/ snd.pc = "idle" /\ type = "header" /\ f # snd.frag
         \/ snd.pc = "data" /\ type = "data" /\ f = snd.frag /\ snd'.pc = "idle"
  <2>1. CASE sendHeader
    <3>1. /\ snd.pc = "idle" /\ snd.frag < MaxFrag /\ snd' = [snd EXCEPT !.pc = "data", !.frag = snd.frag + 1]
          /\ conns' = [conns EXCEPT ![s].wire = Append(conns[s].wire, Msg("header", snd.frag + 1))]
      BY <2>1 DEF sendHeader, Writes
    <3>2. /\ snd.frag + 1 \in 0..MaxFrag /\ snd.frag + 1 # 0 /\ snd.frag <= snd.frag + 1
          /\ snd.frag + 1 # snd.frag
      BY <1>1, <3>1
    <3>3. snd' \in TCPSender /\ snd'.frag = snd.frag + 1 /\ snd'.conn = s
      BY <3>1, <3>2, SenderFacts DEF TCPSender
    <3> QED BY <3>1, <3>2, <3>3
  <2>2. CASE sendData
    <3>1. /\ snd.pc = "data" /\ snd' = [snd EXCEPT !.pc = "idle"]
          /\ conns' = [conns EXCEPT ![s].wire = Append(conns[s].wire, Msg("data", snd.frag))]
      BY <2>2 DEF sendData, Writes
    <3>2. snd' \in TCPSender /\ snd'.frag = snd.frag /\ snd'.conn = s /\ snd'.pc = "idle"
      BY <3>1, SenderFacts DEF TCPSender
    <3> QED BY <1>1, <3>1, <3>2
  <2> QED BY <2>1, <2>2
<1>3. m \in TCPMessage /\ m.type = type /\ (IsHeader(m) <=> type = "header") /\ end \in {"open", "fin", "silent"}
  <2>1. conns[s] \in Connection
    BY <1>1, TCPFacts
  <2> QED BY <1>2, <2>1, MessageFacts DEF Connection
<1>4. /\ conns' \in [Conn -> Connection] /\ Longer(conns'[s].wire, conns[s].wire, m)
      /\ conns'[s].st = conns[s].st /\ conns'[s].fd = conns[s].fd
      /\ \A c \in Conn : c # s => conns'[c] = conns[c]
  <2>1. conns' = [conns EXCEPT ![s].wire = Append(conns[s].wire, m), ![s].end = end]
    BY <1>1, <1>2, WrittenWithEnd
  <2> HIDE DEF m, s, end
  <2> QED BY <1>1, <1>3, <2>1, WrittenFacts
<1>5. /\ IsHeader(m) => m = Msg("header", snd'.frag) /\ snd'.frag # snd.frag
      /\ m.type = "data" => m = Msg("data", snd.frag) /\ snd.conn = s /\ snd.pc = "data" /\ conns[s].st # "closed"
      /\ snd'.conn # 0 /\ snd'.pc = "data" => IsHeader(m)
  BY <1>1, <1>2, <1>3
<1> HIDE DEF m, type, end
<1> QED BY <1>1, <1>2, <1>3, <1>4, <1>5, SenderWrites

\* The sender goes away; it may leave a last message.
LEMMA SenderLeaves ==
  ASSUME TCPInv, UNCHANGED <<rcv, got, rlife>>, lost = Frag => lost' = Frag,
         snd' = [snd EXCEPT !.up = FALSE, !.conn = 0, !.pc = "idle"],
         \/ conns' = conns
         \/ /\ snd.conn # 0
            /\ \E end \in {"fin", "silent"} :
                 \/ conns' = [conns EXCEPT ![snd.conn].end = end]
                 \/ \E type \in {"stop", "cut"} :
                      conns' = [conns EXCEPT ![snd.conn].wire = Append(conns[snd.conn].wire, Msg(type, 0)),
                                             ![snd.conn].end = end]
  PROVE  TCPInv'
<1>1. /\ snd' \in TCPSender /\ snd'.pc = "idle" /\ snd'.conn = 0 /\ snd'.frag = snd.frag /\ snd.frag <= snd'.frag
      /\ 0 \in 0..MaxFrag
  <2>1. 0 \in 0..MaxFrag /\ 0 \in 0..MaxConn /\ snd.frag <= snd.frag
    BY TCPFacts
  <2>2. PICK k \in TCPSender : k = snd
    BY TCPFacts
  <2>3. snd' = [k EXCEPT !.up = FALSE, !.conn = 0, !.pc = "idle"]
    BY <2>2
  <2>4. snd' \in TCPSender /\ snd'.pc = "idle" /\ snd'.conn = 0 /\ snd'.frag = k.frag
    BY <2>1, <2>3 DEF TCPSender
  <2> QED BY <2>1, <2>2, <2>4
<1>2. CASE conns' = conns
  BY <1>1, <1>2, SenderFacts, DescriptorsKept, SenderQuiet
<1>3. CASE snd.conn # 0 /\ \E end \in {"fin", "silent"} : conns' = [conns EXCEPT ![snd.conn].end = end]
  <2> DEFINE s == snd.conn
  <2>1. s \in Conn
    BY <1>3, TCPFacts
  <2>2. PICK end \in {"open", "fin", "silent"} : conns' = [conns EXCEPT ![s].end = end]
    BY <1>3
  <2> HIDE DEF s
  <2>3. /\ conns' \in [Conn -> Connection]
        /\ \A c \in Conn : /\ conns'[c].wire = conns[c].wire /\ conns'[c].st = conns[c].st
                           /\ conns'[c].fd = conns[c].fd
    BY <2>1, <2>2, EndedFacts
  <2>4. OwnDescriptors'
    BY <2>3, DescriptorsKept
  <2> QED BY <1>1, <2>3, <2>4, SenderQuiet
<1>4. ASSUME snd.conn # 0, NEW end \in {"open", "fin", "silent"}, NEW type \in {"stop", "cut"},
             conns' = [conns EXCEPT ![snd.conn].wire = Append(conns[snd.conn].wire, Msg(type, 0)),
                                    ![snd.conn].end = end]
      PROVE  TCPInv'
  <2> DEFINE s == snd.conn
             m == Msg(type, 0)
  <2>1. s \in Conn /\ m \in TCPMessage /\ ~IsHeader(m) /\ m.type # "data"
    BY <1>1, <1>4, TCPFacts, MessageFacts
  <2>2. conns' = [conns EXCEPT ![s].wire = Append(conns[s].wire, m), ![s].end = end]
    BY <1>4
  <2> HIDE DEF s, m
  <2>3. /\ conns' \in [Conn -> Connection] /\ Longer(conns'[s].wire, conns[s].wire, m)
        /\ conns'[s].st = conns[s].st /\ conns'[s].fd = conns[s].fd
        /\ \A c \in Conn : c # s => conns'[c] = conns[c]
    BY <2>1, <2>2, WrittenFacts
  <2> QED BY <1>1, <2>1, <2>3, SenderWrites
<1> QED BY <1>2, <1>3, <1>4

LEMMA SenderLifeKeeps == TCPInv /\ (StopSender \/ CrashSender) => TCPInv'
<1>1. ASSUME TCPInv, StopSender PROVE TCPInv'
  <2>1. UNCHANGED <<rcv, rlife, got, lost>> /\ snd.pc = "idle"
    BY <1>1 DEF StopSender
  <2>2. snd' = [snd EXCEPT !.up = FALSE, !.conn = 0, !.pc = "idle"]
    <3>1. snd' = [snd EXCEPT !.up = FALSE, !.conn = 0]
      BY <1>1 DEF StopSender
    <3> QED BY <1>1, <2>1, <3>1, SenderFacts
  <2>3. CASE snd.conn # 0 /\ ~PeerClosed
    <3>1. conns' = [conns EXCEPT ![snd.conn].wire = Append(conns[snd.conn].wire, Msg("stop", 0)),
                                 ![snd.conn].end = "fin"]
      BY <1>1, <2>3 DEF StopSender, Goodbye, NoFragment
    <3>2. \E end \in {"fin", "silent"} : \E type \in {"stop", "cut"} :
            conns' = [conns EXCEPT ![snd.conn].wire = Append(conns[snd.conn].wire, Msg(type, 0)),
                                   ![snd.conn].end = end]
      BY <3>1
    <3> QED BY <1>1, <2>1, <2>2, <2>3, <3>2, SenderLeaves
  <2>4. CASE ~(snd.conn # 0 /\ ~PeerClosed)
    <3>1. conns' = conns
      BY <1>1, <2>4 DEF StopSender
    <3> QED BY <1>1, <2>1, <2>2, <3>1, SenderLeaves
  <2> QED BY <2>3, <2>4
<1>2. ASSUME TCPInv, CrashSender PROVE TCPInv'
  <2>1. /\ UNCHANGED <<rcv, rlife, got>> /\ lost' = lost \cup Frag /\ snd.conn # 0
        /\ snd' = [snd EXCEPT !.up = FALSE, !.conn = 0, !.pc = "idle"]
    BY <1>2 DEF CrashSender
  <2>2. PICK end \in {"fin", "silent"}, cut \in BOOLEAN :
          conns' = [conns EXCEPT ![snd.conn].end = end,
                                 ![snd.conn].wire = IF cut THEN Append(@, Msg("cut", NoFragment)) ELSE @]
    BY <1>2 DEF CrashSender
  <2>3. conns \in [Conn -> Connection] /\ snd.conn \in Conn /\ conns[snd.conn] \in Connection
    BY <1>2, <2>1, TCPFacts, SenderFacts
  <2>4. PICK k \in Connection : k = conns[snd.conn]
    BY <2>3
  <2>5. CASE cut
    <3>1. [k EXCEPT !.end = end, !.wire = Append(k.wire, Msg("cut", 0))]
            = [k EXCEPT !.wire = Append(k.wire, Msg("cut", 0)), !.end = end]
      BY DEF Connection
    <3>2. conns' = [conns EXCEPT ![snd.conn].wire = Append(conns[snd.conn].wire, Msg("cut", 0)),
                                 ![snd.conn].end = end]
      BY <2>2, <2>3, <2>4, <2>5, <3>1 DEF NoFragment
    <3>3. \E e \in {"fin", "silent"} : \E type \in {"stop", "cut"} :
            conns' = [conns EXCEPT ![snd.conn].wire = Append(conns[snd.conn].wire, Msg(type, 0)),
                                   ![snd.conn].end = e]
      BY <3>2
    <3> QED BY <1>2, <2>1, <3>3, SenderLeaves
  <2>6. CASE ~cut
    <3>1. [k EXCEPT !.end = end, !.wire = k.wire] = [k EXCEPT !.end = end]
      BY DEF Connection
    <3>2. conns' = [conns EXCEPT ![snd.conn].end = end]
      BY <2>2, <2>3, <2>4, <2>6, <3>1
    <3> QED BY <1>2, <2>1, <3>2, SenderLeaves
  <2> QED BY <2>5, <2>6
<1> QED BY <1>1, <1>2

LEMMA TCPInvInit == TCPInit => TCPInv
<1> SUFFICES ASSUME TCPInit PROVE TCPInv
  OBVIOUS
<1>1. MaxFrag \in Nat \ {0} /\ MaxConn \in Nat \ {0} /\ 0 \in 0..MaxFrag /\ 0 \in 0..MaxConn
  BY TCPAssumption
<1>2. got \in Seq(TCPReceived) /\ DOMAIN got = {} /\ GotHeaders(got) = {}
  BY DEF TCPInit, GotHeaders
<1>3. NoConn \in Connection /\ DOMAIN NoConn.wire = {} /\ NoConn.st = "none"
  BY <1>1 DEF NoConn, Connection
<1>4. conns \in [Conn -> Connection] /\ \A c \in Conn : conns[c] = NoConn
  BY <1>3 DEF TCPInit
<1>5. TCPTypeOK
  BY <1>1, <1>2, <1>4 DEF TCPTypeOK, TCPInit, TCPSender, TCPReceiver, IdleRcv, NoFragment
<1>6. OwnDescriptors
  BY <1>3, <1>4 DEF OwnDescriptors, Connected
<1>7. \A c \in Conn : DOMAIN Wires[c] = {}
  BY <1>3, <1>4 DEF Wires
<1>8. WiresGood(Wires, snd.frag, Taken(got, rcv))
  <2>1. \A c \in Conn : HeadersIn(Wires[c]) = {}
    BY <1>7 DEF HeadersIn
  <2>2. \A c \in Conn : GoodWire(Wires[c])
    BY <1>7 DEF GoodWire
  <2> QED BY <2>1, <2>2 DEF WiresGood
<1>9. DataDue /\ BodyHeld /\ StepsHeld /\ FragmentsWhole
  BY <1>2 DEF TCPInit, DataDue, BodyHeld, StepsHeld, FragmentsWhole, IdleRcv
<1> QED BY <1>5, <1>6, <1>8, <1>9 DEF TCPInv

LEMMA TCPInvNext == TCPInv /\ TCPNext => TCPInv'
BY ConnectKeeps, SenderAlone, AcceptKeeps, SendKeeps, SenderLifeKeeps, HeaderPollKeeps, ReceiverWaits, ReceiverCloses,
   OutOfStepKeeps, HeaderReceivedKeeps, BodyReceivedKeeps
   DEF TCPNext, Sender, SenderLife, Receiver, ReceiverLife

(***************************************************************************)
(* MulticastTransfer: a datagram is used once.                             *)
(***************************************************************************)

Datagram == [frag : Nat \ {0}, subs : SUBSET Sub]

MulticastTypeOK ==
  /\ sending = [frag |-> sending.frag, batch |-> sending.batch]
  /\ sending.frag \in Nat \ {0} /\ sending.batch \in Nat
  /\ net \subseteq Datagram
  /\ mc = [cur |-> mc.cur, count |-> mc.count, expected |-> mc.expected, pc |-> mc.pc, buffer |-> mc.buffer]
  /\ mc.cur \in Nat /\ mc.count \in Nat /\ mc.expected \in {0, num_subfragments, Unknown}
  /\ slots \in [Sub -> Nat] /\ repeated \in BOOLEAN

\* Part s of Fragment f was sent already.
SentAlready(f, s) == f < sending.frag \/ (f = sending.frag /\ s < FirstOf(sending.batch))

\* What is under way was sent, and so was what is in the slots.
OnlySent ==
  /\ \A d \in net : \A s \in d.subs : SentAlready(d.frag, s)
  /\ \A s \in Sub : slots[s] # 0 => SentAlready(slots[s], s)

\* No part is under way twice, or under way and in its slot.
NoneTwice ==
  ~repeated =>
    /\ \A d, e \in net : d.frag = e.frag /\ d # e => d.subs \cap e.subs = {}
    /\ \A d \in net : \A s \in d.subs : slots[s] # d.frag

\* The slots that hold parts of Fragment f.
Filled(f) == {s \in Sub : slots[s] = f}

Counted == ~repeated /\ mc.pc = "receive" => mc.count <= Cardinality(Filled(mc.cur))

MulticastInv == MulticastTypeOK /\ OnlySent /\ NoneTwice /\ Counted /\ MulticastWhole

LEMMA BatchFacts ==
  ASSUME NEW b \in Nat
  PROVE  /\ FirstOf(b) \in Nat
         /\ Batch(b) \subseteq Sub /\ \A s \in Batch(b) : s \in Nat /\ FirstOf(b) <= s
         /\ LastOf(b) # num_subfragments - 1 => \A s \in Batch(b) : s < FirstOf(b + 1)
         /\ FirstOf(b) <= FirstOf(b + 1)
<1> DEFINE n == num_subfragments
           p == subfragments_per_send_
<1>1. n \in Nat \ {0} /\ p \in Nat \ {0}
  BY MulticastAssumption
<1>2. FirstOf(b) \in Nat /\ FirstOf(b + 1) \in Nat /\ FirstOf(b + 1) = FirstOf(b) + p
  BY <1>1 DEF FirstOf
<1> HIDE DEF n, p
<1>3. LastOf(b) = IF FirstOf(b + 1) >= n THEN n - 1 ELSE FirstOf(b + 1) - 1
  BY DEF LastOf, n
<1>4. \A s \in Batch(b) : s \in Int /\ FirstOf(b) <= s /\ s <= LastOf(b)
  BY <1>1, <1>2, <1>3 DEF Batch
<1>5. LastOf(b) <= n - 1
  BY <1>1, <1>2, <1>3
<1>6. \A s \in Batch(b) : s \in Nat /\ s \in 0..n - 1
  BY <1>1, <1>2, <1>3, <1>4, <1>5
<1>7. LastOf(b) # n - 1 => \A s \in Batch(b) : s < FirstOf(b + 1)
  BY <1>1, <1>2, <1>3, <1>4
<1>8. FirstOf(b) <= FirstOf(b + 1)
  BY <1>1, <1>2
<1> QED BY <1>2, <1>4, <1>6, <1>7, <1>8 DEF Sub, n

LEMMA SubFacts ==
  /\ IsFiniteSet(Sub) /\ Cardinality(Sub) = num_subfragments /\ Sub \subseteq Nat
  /\ \A T \in SUBSET Sub : IsFiniteSet(T) /\ Cardinality(T) \in Nat /\ Cardinality(T) <= num_subfragments
<1>1. num_subfragments \in Nat \ {0}
  BY MulticastAssumption
<1>2. IsFiniteSet(Sub) /\ Cardinality(Sub) = num_subfragments
  BY <1>1, FS_Interval DEF Sub
<1>3. Sub \subseteq Nat
  BY <1>1 DEF Sub
<1>4. ASSUME NEW T \in SUBSET Sub
      PROVE  IsFiniteSet(T) /\ Cardinality(T) \in Nat /\ Cardinality(T) <= num_subfragments
  BY <1>2, FS_Subset, FS_CardinalityType
<1> QED BY <1>2, <1>3, <1>4

LEMMA MulticastInvInit == MulticastInit => MulticastInv
<1> SUFFICES ASSUME MulticastInit PROVE MulticastInv
  OBVIOUS
<1>1. MulticastTypeOK
  <2>1. slots \in [Sub -> Nat] /\ net \subseteq Datagram /\ repeated = FALSE
    BY DEF MulticastInit, Untouched
  <2>2. /\ sending.frag \in Nat \ {0} /\ sending.batch \in Nat
        /\ sending = [frag |-> sending.frag, batch |-> sending.batch]
    BY DEF MulticastInit
  <2>3. /\ mc.cur \in Nat /\ mc.count \in Nat /\ mc.expected \in {0, num_subfragments, Unknown}
        /\ mc = [cur |-> mc.cur, count |-> mc.count, expected |-> mc.expected, pc |-> mc.pc, buffer |-> mc.buffer]
    BY DEF MulticastInit
  <2> QED BY <2>1, <2>2, <2>3 DEF MulticastTypeOK
<1>2. OnlySent /\ NoneTwice /\ Counted /\ MulticastWhole
  BY DEF MulticastInit, OnlySent, NoneTwice, Counted, MulticastWhole, Untouched
<1> QED BY <1>1, <1>2 DEF MulticastInv

LEMMA SendBatchKeeps == MulticastInv /\ transfer_fragment_min_blocking_mode => MulticastInv'
<1> SUFFICES ASSUME MulticastInv, transfer_fragment_min_blocking_mode PROVE MulticastInv'
  OBVIOUS
<1> DEFINE f == sending.frag
           b == sending.batch
           d == [frag |-> f, subs |-> Batch(b)]
<1>1. /\ f \in Nat \ {0} /\ b \in Nat /\ net' = net \cup {d} /\ UNCHANGED <<mc, slots, mcGot, repeated>>
      /\ sending = [frag |-> f, batch |-> b]
      /\ sending' = IF LastOf(b) = num_subfragments - 1 THEN [frag |-> f + 1, batch |-> 0]
                    ELSE [sending EXCEPT !.batch = b + 1]
  BY DEF MulticastInv, MulticastTypeOK, transfer_fragment_min_blocking_mode
<1>2. /\ FirstOf(b) \in Nat /\ Batch(b) \subseteq Sub /\ \A s \in Batch(b) : s \in Nat /\ FirstOf(b) <= s
      /\ LastOf(b) # num_subfragments - 1 => \A s \in Batch(b) : s < FirstOf(b + 1)
      /\ FirstOf(b) <= FirstOf(b + 1)
  BY <1>1, BatchFacts
<1>3. d \in Datagram /\ d.frag = f /\ d.subs = Batch(b)
  BY <1>1, <1>2 DEF Datagram
<1>4. FirstOf(b + 1) \in Nat
  BY <1>1, BatchFacts
<1> HIDE DEF f, b, d
<1>5. /\ sending'.frag \in Nat \ {0} /\ sending'.batch \in Nat
      /\ sending' = [frag |-> sending'.frag, batch |-> sending'.batch]
      /\ IF LastOf(b) = num_subfragments - 1 THEN sending'.frag = f + 1 ELSE sending'.frag = f /\ sending'.batch = b + 1
  BY <1>1
<1> DEFINE After(g, s) == g < sending'.frag \/ (g = sending'.frag /\ s < FirstOf(sending'.batch))
<1>6. \A g \in Nat, s \in Sub : SentAlready(g, s) => After(g, s)
  <2> SUFFICES ASSUME NEW g \in Nat, NEW s \in Sub, SentAlready(g, s) PROVE After(g, s)
    OBVIOUS
  <2>1. g < f \/ (g = f /\ s < FirstOf(b))
    BY DEF SentAlready, f, b
  <2>2. s \in Nat
    BY SubFacts
  <2>3. CASE LastOf(b) = num_subfragments - 1
    BY <1>1, <1>5, <2>1, <2>3
  <2>4. CASE LastOf(b) # num_subfragments - 1
    <3>1. s < FirstOf(b) => s < FirstOf(b + 1)
      BY <1>2, <1>4, <2>2
    <3> QED BY <1>1, <1>5, <2>1, <2>4, <3>1
  <2> QED BY <2>3, <2>4
<1>7. \A s \in Batch(b) : After(f, s) /\ ~SentAlready(f, s)
  <2> TAKE s \in Batch(b)
  <2>1. ~SentAlready(f, s)
    BY <1>1, <1>2 DEF SentAlready, f, b
  <2>2. CASE LastOf(b) = num_subfragments - 1
    <3>1. f < sending'.frag
      BY <1>1, <1>5, <2>2
    <3> QED BY <2>1, <3>1
  <2>3. CASE LastOf(b) # num_subfragments - 1
    <3>1. f = sending'.frag /\ s < FirstOf(sending'.batch)
      BY <1>2, <1>5, <2>3
    <3> QED BY <2>1, <3>1
  <2> QED BY <2>2, <2>3
<1> HIDE DEF After
<1>8. MulticastTypeOK'
  BY <1>1, <1>3, <1>5 DEF MulticastInv, MulticastTypeOK
<1>9. OnlySent'
  <2>1. \A e \in net : e.frag \in Nat /\ e.subs \subseteq Sub
    BY DEF MulticastInv, MulticastTypeOK, Datagram
  <2>2. \A s \in Sub : slots[s] \in Nat
    BY DEF MulticastInv, MulticastTypeOK
  <2>3. \A e \in net' : \A s \in e.subs : After(e.frag, s)
    <3>1. \A s \in d.subs : After(d.frag, s)
      BY <1>3, <1>7
    <3>2. \A e \in net : \A s \in e.subs : After(e.frag, s)
      BY <1>6, <2>1 DEF MulticastInv, OnlySent
    <3> QED BY <1>1, <3>1, <3>2
  <2>4. \A s \in Sub : slots'[s] # 0 => After(slots'[s], s)
    BY <1>1, <1>6, <2>2 DEF MulticastInv, OnlySent
  <2> QED BY <2>3, <2>4 DEF OnlySent, SentAlready, After, FirstOf
<1>10. NoneTwice'
  <2>1. \A e \in net : e.frag = d.frag => e.subs \cap d.subs = {}
    BY <1>3, <1>7 DEF MulticastInv, OnlySent
  <2>2. \A s \in d.subs : slots[s] # d.frag
    BY <1>1, <1>2, <1>3, <1>7 DEF MulticastInv, OnlySent
  <2> QED BY <1>1, <2>1, <2>2 DEF MulticastInv, NoneTwice
<1>11. Counted' /\ MulticastWhole'
  BY <1>1 DEF MulticastInv, Counted, Filled, MulticastWhole
<1> QED BY <1>8, <1>9, <1>10, <1>11 DEF MulticastInv

LEMMA LoseDatagramKeeps == MulticastInv /\ LoseDatagram => MulticastInv'
<1> SUFFICES ASSUME MulticastInv, LoseDatagram PROVE MulticastInv'
  OBVIOUS
<1>1. net' \subseteq net /\ UNCHANGED <<sending, mc, slots, mcGot, repeated>>
  BY DEF LoseDatagram
<1> QED
  BY <1>1 DEF MulticastInv, MulticastTypeOK, OnlySent, SentAlready, NoneTwice, Counted, Filled, MulticastWhole

\* A call begins with nothing.
LEMMA StartKeeps ==
  ASSUME MulticastInv, UNCHANGED <<sending, net, mcGot, repeated>>, slots' = Untouched,
         NEW buffer, mc' = [mc EXCEPT !.count = 0, !.expected = 0, !.pc = "receive", !.buffer = buffer]
  PROVE  MulticastInv'
<1>1. /\ mc'.cur = mc.cur /\ mc'.count = 0 /\ mc'.expected = 0
      /\ mc' = [cur |-> mc'.cur, count |-> mc'.count, expected |-> mc'.expected, pc |-> mc'.pc, buffer |-> mc'.buffer]
  BY DEF MulticastInv, MulticastTypeOK
<1>2. slots' \in [Sub -> Nat] /\ \A s \in Sub : slots'[s] = 0
  BY DEF Untouched
<1>3. MulticastTypeOK'
  BY <1>1, <1>2 DEF MulticastInv, MulticastTypeOK
<1>4. OnlySent'
  BY <1>2 DEF MulticastInv, OnlySent, SentAlready
<1>5. NoneTwice'
  BY <1>2 DEF MulticastInv, MulticastTypeOK, Datagram, NoneTwice
<1>6. Counted'
  <2>1. Filled(mc.cur)' \in SUBSET Sub
    BY DEF Filled
  <2>2. Cardinality(Filled(mc.cur)') \in Nat
    BY <2>1, SubFacts
  <2> QED BY <1>1, <2>2 DEF Counted
<1> QED BY <1>3, <1>4, <1>5, <1>6 DEF MulticastInv, MulticastWhole

LEMMA ReceiveDatagramKeeps == MulticastInv /\ ReceiveDatagram => MulticastInv'
<1> SUFFICES ASSUME MulticastInv, ReceiveDatagram PROVE MulticastInv'
  OBVIOUS
<1> DEFINE AtOf(d) == IF d.frag # mc.cur THEN Restart(d) ELSE mc
           ExpectedOf(d) == IF 0 \in d.subs THEN num_subfragments ELSE AtOf(d).expected
           CountOf(d) == AtOf(d).count + Cardinality(d.subs)
           TruncatedOf(d) == d.frag # mc.cur /\ mc.count < mc.expected
           CompleteOf(d) == /\ ExpectedOf(d) # Unknown
                            /\ ExpectedOf(d) \in AtOf(d).count + 1 .. CountOf(d)
<1>1. PICK d \in net, again \in BOOLEAN :
        /\ again => ~repeated
        /\ net' = IF again THEN net ELSE net \ {d}
        /\ repeated' = (repeated \/ again)
        /\ slots' = [s \in Sub |-> IF s \in d.subs THEN d.frag ELSE slots[s]]
        /\ mc' = [AtOf(d) EXCEPT !.expected = ExpectedOf(d), !.count = CountOf(d),
                                 !.pc = IF TruncatedOf(d) \/ CompleteOf(d) THEN "idle" ELSE "receive"]
        /\ mcGot' = IF CompleteOf(d) /\ ~TruncatedOf(d) THEN [frag |-> AtOf(d).cur, slots |-> slots'] ELSE mcGot
  BY DEF ReceiveDatagram
<1>2. mc.pc = "receive" /\ UNCHANGED sending
  BY DEF ReceiveDatagram
<1> DEFINE at == AtOf(d)
           n == Cardinality(d.subs)
<1>3. d.frag \in Nat \ {0} /\ d.subs \in SUBSET Sub /\ n \in Nat /\ IsFiniteSet(d.subs)
  BY SubFacts DEF MulticastInv, MulticastTypeOK, Datagram
<1>4. /\ at = [cur |-> at.cur, count |-> at.count, expected |-> at.expected, pc |-> at.pc, buffer |-> at.buffer]
      /\ at.cur = d.frag /\ at.count \in Nat /\ at.expected \in {0, num_subfragments, Unknown}
      /\ at.count = IF d.frag # mc.cur THEN 0 ELSE mc.count
  BY <1>3 DEF MulticastInv, MulticastTypeOK, Restart
<1> DEFINE expected == ExpectedOf(d)
           complete == CompleteOf(d)
           truncated == TruncatedOf(d)
<1>5. expected \in {0, num_subfragments, Unknown}
  BY <1>4
<1>6. /\ complete <=> expected # Unknown /\ expected \in at.count + 1 .. at.count + n
      /\ mc' = [at EXCEPT !.expected = expected, !.count = at.count + n,
                          !.pc = IF truncated \/ complete THEN "idle" ELSE "receive"]
      /\ mcGot' = IF complete /\ ~truncated THEN [frag |-> at.cur, slots |-> slots'] ELSE mcGot
  BY <1>1
<1> HIDE DEF AtOf, ExpectedOf, CountOf, TruncatedOf, CompleteOf
<1>7. /\ mc'.cur = d.frag /\ mc'.count = at.count + n /\ mc'.expected = expected
      /\ mc' = [cur |-> mc'.cur, count |-> mc'.count, expected |-> mc'.expected, pc |-> mc'.pc, buffer |-> mc'.buffer]
  BY <1>4, <1>6
<1>8. /\ slots' \in [Sub -> Nat]
      /\ \A s \in Sub : slots'[s] = IF s \in d.subs THEN d.frag ELSE slots[s]
  BY <1>1, <1>3 DEF MulticastInv, MulticastTypeOK
<1>9. MulticastTypeOK'
  <2>1. net' \subseteq net /\ repeated' \in BOOLEAN
    BY <1>1 DEF MulticastInv, MulticastTypeOK
  <2>2. mc'.count \in Nat
    BY <1>3, <1>4, <1>7
  <2> QED BY <1>2, <1>3, <1>5, <1>7, <1>8, <2>1, <2>2 DEF MulticastInv, MulticastTypeOK
<1>10. OnlySent'
  <2>1. \A f, s : SentAlready(f, s)' <=> SentAlready(f, s)
    BY <1>2 DEF SentAlready
  <2>2. net' \subseteq net
    BY <1>1
  <2> QED BY <1>3, <1>8, <2>1, <2>2 DEF MulticastInv, OnlySent
<1>11. ASSUME ~repeated' PROVE ~repeated /\ net' = net \ {d} /\ \A s \in d.subs : slots[s] # d.frag
  BY <1>1, <1>11 DEF MulticastInv, NoneTwice
<1>12. NoneTwice'
  <2> SUFFICES ASSUME ~repeated'
               PROVE  /\ \A e, g \in net' : e.frag = g.frag /\ e # g => e.subs \cap g.subs = {}
                      /\ \A e \in net' : \A s \in e.subs : slots'[s] # e.frag
    BY DEF NoneTwice
  <2>1. \A e \in net' : e \in net /\ e # d /\ e.subs \in SUBSET Sub
    BY <1>11 DEF MulticastInv, MulticastTypeOK, Datagram
  <2>2. \A e, g \in net : e.frag = g.frag /\ e # g => e.subs \cap g.subs = {}
    BY <1>11 DEF MulticastInv, NoneTwice
  <2>3. \A e \in net : \A s \in e.subs : slots[s] # e.frag
    BY <1>11 DEF MulticastInv, NoneTwice
  <2>4. \A e \in net' : \A s \in e.subs : slots'[s] # e.frag
    BY <1>1, <1>8, <2>1, <2>2, <2>3
  <2> QED BY <2>1, <2>2, <2>4
<1>13. ASSUME ~repeated' PROVE at.count + n <= Cardinality(Filled(d.frag)')
  <2>1. Filled(d.frag)' = Filled(d.frag) \cup d.subs /\ Filled(d.frag) \cap d.subs = {}
    BY <1>3, <1>8, <1>11, <1>13 DEF Filled
  <2>2. Filled(d.frag) \in SUBSET Sub
    BY DEF Filled
  <2>3. IsFiniteSet(Filled(d.frag)) /\ Cardinality(Filled(d.frag)) \in Nat
    BY <2>2, SubFacts
  <2>4. Cardinality(Filled(d.frag)') = Cardinality(Filled(d.frag)) + n
    <3>1. PICK F, T, G : F = Filled(d.frag) /\ T = d.subs /\ G = Filled(d.frag)'
      OBVIOUS
    <3>2. G = F \cup T /\ F \cap T = {}
      BY <2>1, <3>1
    <3>3. IsFiniteSet(F) /\ IsFiniteSet(T) /\ n = Cardinality(T)
      BY <1>3, <2>3, <3>1
    <3>4. Cardinality(F \cup T) = Cardinality(F) + Cardinality(T)
      BY <3>2, <3>3, DisjointUnion
    <3> QED BY <3>1, <3>2, <3>3, <3>4
  <2>5. at.count <= Cardinality(Filled(d.frag))
    BY <1>2, <1>4, <1>11, <1>13, <2>3 DEF MulticastInv, Counted
  <2> HIDE DEF at, n
  <2> QED BY <1>3, <1>4, <2>3, <2>4, <2>5 DEF n
<1>14. Counted'
  BY <1>7, <1>13 DEF Counted
<1>15. MulticastWhole'
  <2>1. CASE ~(complete /\ ~truncated)
    BY <1>1, <1>6, <2>1 DEF MulticastInv, MulticastWhole
  <2>2. CASE complete /\ ~truncated
    <3> SUFFICES ASSUME ~repeated' PROVE \A s \in Sub : mcGot'.slots[s] = mcGot'.frag
      BY DEF MulticastWhole
    <3>1. mcGot' = [frag |-> d.frag, slots |-> slots']
      BY <1>4, <1>6, <2>2
    <3>2. num_subfragments \in Nat \ {0} /\ Unknown = num_subfragments + 1
      BY MulticastAssumption DEF Unknown
    <3> HIDE DEF at, n, expected
    <3>3. expected = num_subfragments /\ num_subfragments <= at.count + n
      BY <1>3, <1>4, <1>5, <1>6, <2>2, <3>2 DEF n
    <3>4. Filled(d.frag)' \in SUBSET Sub
      BY DEF Filled
    <3>5. Cardinality(Filled(d.frag)') \in Nat /\ Cardinality(Filled(d.frag)') <= num_subfragments
      BY <3>4, SubFacts
    <3>6. Cardinality(Filled(d.frag)') = Cardinality(Sub)
      BY <1>3, <1>4, <1>13, <3>2, <3>3, <3>5, SubFacts DEF n
    <3>7. Filled(d.frag)' = Sub
      BY <3>4, <3>6, SubFacts, FS_Subset
    <3> QED BY <3>1, <3>7 DEF Filled
  <2> QED BY <2>1, <2>2
<1> QED BY <1>9, <1>10, <1>12, <1>14, <1>15 DEF MulticastInv

LEMMA MulticastInvNext == MulticastInv /\ [MulticastNext]_mcVars => MulticastInv'
<1> SUFFICES ASSUME MulticastInv, [MulticastNext]_mcVars PROVE MulticastInv'
  OBVIOUS
<1>1. CASE StartReceive
  <2>1. mc' = [mc EXCEPT !.count = 0, !.expected = 0, !.pc = "receive", !.buffer = mc.buffer]
    BY <1>1 DEF StartReceive, MulticastInv, MulticastTypeOK
  <2> QED BY <1>1, <2>1, StartKeeps DEF StartReceive
<1>2. CASE StartReceiveHeader
  BY <1>2, StartKeeps DEF StartReceiveHeader
<1>3. CASE ReceiveHeaderThrows
  <2>1. /\ UNCHANGED <<sending, net, slots, mcGot, repeated>>
        /\ mc'.cur = mc.cur /\ mc'.count = mc.count /\ mc'.expected = mc.expected /\ mc'.pc = "thrown"
        /\ mc' = [cur |-> mc'.cur, count |-> mc'.count, expected |-> mc'.expected, pc |-> mc'.pc, buffer |-> mc'.buffer]
    BY <1>3 DEF ReceiveHeaderThrows, MulticastInv, MulticastTypeOK
  <2> QED BY <2>1 DEF MulticastInv, MulticastTypeOK, OnlySent, SentAlready, NoneTwice, Counted, MulticastWhole
<1>4. CASE UNCHANGED mcVars
  BY <1>4 DEF mcVars, MulticastInv, MulticastTypeOK, OnlySent, SentAlready, NoneTwice, Counted, Filled, MulticastWhole
<1> QED
  BY <1>1, <1>2, <1>3, <1>4, SendBatchKeeps, LoseDatagramKeeps, ReceiveDatagramKeeps DEF MulticastNext

(***************************************************************************)
(* ShmemTransfer: the Fragments received, the one that is being read and   *)
(* those in the buffers are three stages, and Fragments move from a stage  *)
(* to the one before it.                                                   *)
(***************************************************************************)

ShmemAnswer == {"none", "success", "invalid", "detached", "overwritten", "timeout", "error", "flushed"}

ShmemTypeOK ==
  /\ segment = [id |-> segment.id, up |-> segment.up, full |-> segment.full]
  /\ segment.id \in Nat /\ segment.up \in BOOLEAN /\ segment.full \in Seq(Nat)
  /\ reading \in Nat /\ sgot \in Seq(Nat)
  /\ ssnd = [next |-> ssnd.next, pc |-> ssnd.pc, reliable |-> ssnd.reliable]
  /\ ssnd.next \in Nat \ {0} /\ ssnd.next <= ShmemFrags + 1
  /\ answers \in [1..ShmemFrags -> ShmemAnswer]

\* A sender that writes has a Fragment; a receiver that is not there holds none.
ShmemInv ==
  /\ ShmemTypeOK
  /\ ssnd.pc = "write" => ssnd.next <= ShmemFrags
  /\ ~segment.up => segment.full = << >> /\ reading = 0
  /\ ShmemInOrder

Answered(a, next) == {f \in 1..next - 1 : a[f] = "success"}
ReadingStage(r) == IF r = 0 THEN << >> ELSE <<r>>

Three(a, b, c) == <<a, b, c>>

LEMMA ThreeFacts ==
  ASSUME NEW a \in Seq(Nat), NEW b \in Seq(Nat), NEW c \in Seq(Nat)
  PROVE  /\ Three(a, b, c) \in [1..3 -> Seq(Nat)] /\ DOMAIN Three(a, b, c) = {1, 2, 3}
         /\ Three(a, b, c)[1] = a /\ Three(a, b, c)[2] = b /\ Three(a, b, c)[3] = c
BY DEF Three

LEMMA ThreeChanged ==
  ASSUME NEW a \in Seq(Nat), NEW b \in Seq(Nat), NEW c \in Seq(Nat), NEW x \in Nat
  PROVE  /\ Appended(Three(a, b, c), 3, x) = Three(a, b, Append(c, x))
         /\ Appended(Three(a, b, c), 2, x) = Three(a, Append(b, x), c)
         /\ Appended(Three(a, b, c), 1, x) = Three(Append(a, x), b, c)
<1>1. DOMAIN <<a, b, c>> = {1, 2, 3} /\ 1..3 = {1, 2, 3}
  OBVIOUS
<1>2. Appended(Three(a, b, c), 3, x) = Three(a, b, Append(c, x))
  BY <1>1 DEF Appended, Three
<1>3. Appended(Three(a, b, c), 2, x) = Three(a, Append(b, x), c)
  BY <1>1 DEF Appended, Three
<1>4. Appended(Three(a, b, c), 1, x) = Three(Append(a, x), b, c)
  BY <1>1 DEF Appended, Three
<1> QED BY <1>2, <1>3, <1>4

LEMMA ThreeShortened ==
  ASSUME NEW a \in Seq(Nat), NEW b \in Seq(Nat), NEW c \in Seq(Nat)
  PROVE  /\ Stepped(Three(a, b, c), 3) = Three(a, b, Tail(c))
         /\ Stepped(Three(a, b, c), 2) = Three(a, Tail(b), c)
         /\ Cleared(Three(a, b, c), {2, 3}) = Three(a, ReadingStage(0), << >>)
<1>1. DOMAIN <<a, b, c>> = {1, 2, 3} /\ 1..3 = {1, 2, 3}
  OBVIOUS
<1>2. Stepped(Three(a, b, c), 3) = Three(a, b, Tail(c))
  BY <1>1 DEF Stepped, Three
<1>3. Stepped(Three(a, b, c), 2) = Three(a, Tail(b), c)
  BY <1>1 DEF Stepped, Three
<1>4. Cleared(Three(a, b, c), {2, 3}) = Three(a, ReadingStage(0), << >>)
  BY <1>1 DEF Cleared, Three, ReadingStage
<1> QED BY <1>2, <1>3, <1>4

LEMMA ReadingFacts ==
  ASSUME NEW r \in Nat
  PROVE  /\ ReadingStage(r) \in Seq(Nat)
         /\ r # 0 => /\ Append(ReadingStage(0), r) = ReadingStage(r)
                     /\ ReadingStage(r) # << >> /\ Head(ReadingStage(r)) = r
                     /\ Tail(ReadingStage(r)) = ReadingStage(0)
         /\ ReadingStage(0) = << >>
BY DEF ReadingStage

\* The three stages of a state, and what the invariant says of them.
LEMMA StagesOf ==
  ASSUME ShmemInv
  PROVE  /\ ShmemStages = Three(sgot, ReadingStage(reading), segment.full)
         /\ sgot \in Seq(Nat) /\ ReadingStage(reading) \in Seq(Nat) /\ segment.full \in Seq(Nat)
         /\ ShmemStages \in [1..3 -> Seq(Nat)]
         /\ AllRising(ShmemStages)
         /\ AllElements(ShmemStages) = Answered(answers, ssnd.next)
         /\ Occupied <= buffer_count_
         /\ Elements(ShmemStages[1]) \subseteq Answered(answers, ssnd.next)
         /\ Elements(ShmemStages[2]) \subseteq Answered(answers, ssnd.next)
         /\ Elements(ShmemStages[3]) \subseteq Answered(answers, ssnd.next)
<1>1. ShmemStages = Three(sgot, ReadingStage(reading), segment.full)
  BY DEF ShmemStages, ReadingStage, Three
<1>2. sgot \in Seq(Nat) /\ ReadingStage(reading) \in Seq(Nat) /\ segment.full \in Seq(Nat)
  BY DEF ShmemInv, ShmemTypeOK, ReadingStage
<1>3. /\ AllRising(ShmemStages) /\ Occupied <= buffer_count_
      /\ AllElements(ShmemStages) = Answered(answers, ssnd.next)
  BY DEF ShmemInv, ShmemInOrder, Answered
<1>4. ShmemStages \in [1..3 -> Seq(Nat)] /\ DOMAIN ShmemStages = {1, 2, 3}
  BY <1>1, <1>2, ThreeFacts
<1>5. \A k \in {1, 2, 3} : Elements(ShmemStages[k]) \subseteq Answered(answers, ssnd.next)
  BY <1>3, <1>4, InStages
<1> QED BY <1>1, <1>2, <1>3, <1>4, <1>5

\* The answers given: a success adds the Fragment, another answer does not.
LEMMA AnswerFacts ==
  ASSUME ShmemInv, ssnd.next <= ShmemFrags, NEW a \in ShmemAnswer,
         NEW n, n = ssnd.next,
         answers' = [answers EXCEPT ![n] = a], ssnd'.next = n + 1
  PROVE  /\ answers' \in [1..ShmemFrags -> ShmemAnswer]
         /\ Answered(answers', ssnd'.next) = IF a = "success" THEN Answered(answers, n) \cup {n} ELSE Answered(answers, n)
<1>0. "success" \in ShmemAnswer
  BY DEF ShmemAnswer
<1>1. n \in Nat \ {0} /\ n <= ShmemFrags /\ ShmemFrags \in Nat /\ answers \in [1..ShmemFrags -> ShmemAnswer]
  BY ShmemAssumption DEF ShmemInv, ShmemTypeOK
<1>2. n \in 1..ShmemFrags
  BY <1>1
<1>3. answers' \in [1..ShmemFrags -> ShmemAnswer] /\ \A f \in 1..ShmemFrags : answers'[f] = IF f = n THEN a ELSE answers[f]
  BY <1>1, <1>2
<1>4. \A f : f \in 1..(n + 1) - 1 <=> f \in 1..n - 1 \/ f = n
  BY <1>1
<1>5. \A f \in 1..n - 1 : f \in 1..ShmemFrags /\ f # n
  BY <1>1
<1>6. \A f : f \in Answered(answers', n + 1) <=> IF a = "success" THEN f \in Answered(answers, n) \/ f = n ELSE f \in Answered(answers, n)
  BY <1>2, <1>3, <1>4, <1>5 DEF Answered
<1>7. CASE a = "success"
  <2>1. \A f : f \in Answered(answers', n + 1) <=> f \in Answered(answers, n) \cup {n}
    BY <1>6, <1>7
  <2> QED BY <1>3, <1>7, <2>1
<1>8. CASE a # "success"
  <2>1. \A f : f \in Answered(answers', n + 1) <=> f \in Answered(answers, n)
    BY <1>6, <1>8
  <2>2. Answered(answers', n + 1) = Answered(answers, n)
    BY <2>1
  <2> QED BY <1>3, <1>8, <2>2
<1> QED BY <1>7, <1>8

\* A state after a step, from its stages.
LEMMA ShmemInvFrom ==
  ASSUME ShmemTypeOK',
         ssnd'.pc = "write" => ssnd'.next <= ShmemFrags,
         ~segment'.up => segment'.full = << >> /\ reading' = 0,
         NEW S, S = Three(sgot', ReadingStage(reading'), segment'.full),
         AllRising(S), AllElements(S) = Answered(answers', ssnd'.next),
         Len(segment'.full) + (IF reading' = 0 THEN 0 ELSE 1) <= buffer_count_
  PROVE  ShmemInv'
<1>1. ShmemStages' = S
  BY DEF ShmemStages, ReadingStage, Three
<1> QED BY <1>1 DEF ShmemInv, ShmemInOrder, Answered, Occupied

\* A step that gives an answer that is no success, or none, and moves no Fragment.
LEMMA NothingMoves ==
  ASSUME ShmemInv, UNCHANGED <<segment, reading, sgot>>, ShmemTypeOK',
         Answered(answers', ssnd'.next) = Answered(answers, ssnd.next),
         ssnd'.pc = "write" => ssnd'.next <= ShmemFrags
  PROVE  ShmemInv'
<1>1. ShmemStages' = ShmemStages /\ Occupied' = Occupied
  BY DEF ShmemStages, Occupied
<1>2. AllElements(ShmemStages) = Answered(answers', ssnd'.next)
  BY StagesOf
<1> QED BY <1>1, <1>2 DEF ShmemInv, ShmemInOrder, Answered

LEMMA SendFragmentKeeps == ShmemInv /\ sendFragment => ShmemInv'
<1> SUFFICES ASSUME ShmemInv, sendFragment PROVE ShmemInv'
  OBVIOUS
<1>1. ssnd.next <= ShmemFrags /\ UNCHANGED <<segment, reading, sgot>>
  BY DEF sendFragment
<1>2. CASE ssnd' = [ssnd EXCEPT !.pc = "write", !.reliable = ssnd'.reliable] /\ UNCHANGED answers
  <2>1. ssnd'.next = ssnd.next /\ ssnd' = [next |-> ssnd'.next, pc |-> ssnd'.pc, reliable |-> ssnd'.reliable]
    BY <1>2 DEF ShmemInv, ShmemTypeOK
  <2>2. ShmemTypeOK'
    BY <1>1, <1>2, <2>1 DEF ShmemInv, ShmemTypeOK
  <2> QED BY <1>1, <1>2, <2>1, <2>2, NothingMoves
<1>3. ASSUME NEW a \in {"invalid", "detached"}, Answer(a) PROVE ShmemInv'
  <2>1. /\ ssnd'.next = ssnd.next + 1 /\ ssnd'.pc = "idle"
        /\ ssnd' = [next |-> ssnd'.next, pc |-> ssnd'.pc, reliable |-> ssnd'.reliable]
    BY <1>3 DEF Answer, ShmemInv, ShmemTypeOK
  <2>2. /\ answers' \in [1..ShmemFrags -> ShmemAnswer]
        /\ Answered(answers', ssnd'.next) = Answered(answers, ssnd.next)
    BY <1>1, <1>3, <2>1, AnswerFacts DEF Answer, ShmemAnswer
  <2>3. ShmemTypeOK'
    BY <1>1, <2>1, <2>2, ShmemAssumption DEF ShmemInv, ShmemTypeOK
  <2> QED BY <1>1, <2>1, <2>2, <2>3, NothingMoves
<1>4. CASE \E reliable \in BOOLEAN : ssnd' = [ssnd EXCEPT !.pc = "write", !.reliable = reliable] /\ UNCHANGED answers
  <2>1. PICK reliable \in BOOLEAN : ssnd' = [ssnd EXCEPT !.pc = "write", !.reliable = reliable] /\ UNCHANGED answers
    BY <1>4
  <2>2. ssnd' = [ssnd EXCEPT !.pc = "write", !.reliable = ssnd'.reliable]
    BY <2>1 DEF ShmemInv, ShmemTypeOK
  <2> QED BY <1>2, <2>1, <2>2
<1> QED BY <1>3, <1>4 DEF sendFragment

LEMMA FitsLast ==
  ASSUME NEW S \in [1..3 -> Seq(Nat)], NEW x, \A y \in AllElements(S) : y < x
  PROVE  Fits(S, 3, x)
<1>1. \A m \in 1..3 : \A y \in Elements(S[m]) : y \in AllElements(S)
  BY InStages
<1> QED BY <1>1 DEF Fits

LEMMA WriteFragmentKeeps == ShmemInv /\ WriteFragment => ShmemInv'
<1> SUFFICES ASSUME ShmemInv, WriteFragment PROVE ShmemInv'
  OBVIOUS
<1> DEFINE n == ssnd.next
           full == segment.full
           mid == ReadingStage(reading)
<1>1. /\ ssnd.pc = "write" /\ segment.up /\ Occupied < buffer_count_ /\ UNCHANGED <<reading, sgot>>
      /\ segment' = [segment EXCEPT !.full = Append(full, n)] /\ Answer("success")
  BY DEF WriteFragment, SenderRunning, HasEmpty
<1>2. n \in Nat \ {0} /\ n <= ShmemFrags /\ full \in Seq(Nat) /\ mid \in Seq(Nat) /\ sgot \in Seq(Nat)
  BY <1>1, StagesOf DEF ShmemInv, ShmemTypeOK
<1>3. /\ ssnd'.next = n + 1 /\ ssnd'.pc = "idle"
      /\ ssnd' = [next |-> ssnd'.next, pc |-> ssnd'.pc, reliable |-> ssnd'.reliable]
  BY <1>1 DEF Answer, ShmemInv, ShmemTypeOK
<1>4. /\ answers' \in [1..ShmemFrags -> ShmemAnswer]
      /\ Answered(answers', ssnd'.next) = Answered(answers, n) \cup {n}
  BY <1>1, <1>2, <1>3, AnswerFacts DEF Answer, ShmemAnswer
<1>5. /\ segment'.id = segment.id /\ segment'.up = segment.up /\ segment'.full = Append(full, n)
      /\ segment' = [id |-> segment'.id, up |-> segment'.up, full |-> segment'.full]
      /\ segment'.full \in Seq(Nat) /\ Len(segment'.full) = Len(full) + 1
  <2>1. Append(full, n) \in Seq(Nat) /\ Len(Append(full, n)) = Len(full) + 1
    BY <1>2
  <2> HIDE DEF n
  <2> QED BY <1>1, <2>1 DEF ShmemInv, ShmemTypeOK
<1>6. ShmemTypeOK'
  <2>1. ssnd'.next \in Nat \ {0} /\ ssnd'.next <= ShmemFrags + 1
    BY <1>2, <1>3, ShmemAssumption
  <2>2. segment.id \in Nat /\ segment.up \in BOOLEAN /\ reading \in Nat
    BY DEF ShmemInv, ShmemTypeOK
  <2> QED BY <1>1, <1>2, <1>3, <1>4, <1>5, <2>1, <2>2 DEF ShmemTypeOK
<1>7. /\ ShmemStages = Three(sgot, mid, full) /\ ShmemStages \in [1..3 -> Seq(Nat)]
      /\ AllRising(ShmemStages) /\ AllElements(ShmemStages) = Answered(answers, n)
  BY StagesOf
<1>8. Fits(ShmemStages, 3, n)
  <2>1. \A y \in Answered(answers, n) : y < n
    BY <1>2 DEF Answered
  <2> QED BY <1>7, <2>1, FitsLast
<1> DEFINE S == Appended(ShmemStages, 3, n)
<1>9. AllRising(S) /\ AllElements(S) = Answered(answers', ssnd'.next)
  <2>1. AllRising(S) /\ Adds(S, ShmemStages, n)
    <3>1. 3 \in Nat /\ 3 \in 1..3
      OBVIOUS
    <3> QED BY <1>2, <1>7, <1>8, <3>1, StageAppended
  <2> QED BY <1>4, <1>7, <2>1 DEF Adds
<1>10. S = Three(sgot', ReadingStage(reading'), segment'.full)
  BY <1>1, <1>2, <1>5, <1>7, ThreeChanged
<1>11. Len(segment'.full) + (IF reading' = 0 THEN 0 ELSE 1) <= buffer_count_
  <2>1. Len(full) \in Nat /\ buffer_count_ \in Nat
    BY <1>2, ShmemAssumption
  <2>2. Len(full) + (IF reading = 0 THEN 0 ELSE 1) < buffer_count_
    BY <1>1 DEF Occupied
  <2>3. Len(segment'.full) = Len(full) + 1 /\ reading' = reading
    BY <1>1, <1>5
  <2> HIDE DEF full
  <2> QED BY <2>1, <2>2, <2>3
<1> HIDE DEF S
<1> QED BY <1>1, <1>3, <1>5, <1>6, <1>9, <1>10, <1>11, ShmemInvFrom

LEMMA OverwriteKeeps == ShmemInv /\ Overwrite => ShmemInv'
<1> SUFFICES ASSUME ShmemInv, Overwrite PROVE ShmemInv'
  OBVIOUS
<1> DEFINE n == ssnd.next
           full == segment.full
           h == Head(full)
           mid == ReadingStage(reading)
<1>1. /\ ssnd.pc = "write" /\ segment.up /\ full # << >> /\ UNCHANGED <<reading, sgot>>
      /\ segment' = [segment EXCEPT !.full = Append(Tail(full), n)]
      /\ answers' = [answers EXCEPT ![h] = "overwritten", ![n] = "success"]
      /\ ssnd' = [ssnd EXCEPT !.next = n + 1, !.pc = "idle"]
  BY DEF Overwrite, SenderRunning
<1>2. n \in Nat \ {0} /\ n <= ShmemFrags /\ full \in Seq(Nat) /\ mid \in Seq(Nat) /\ sgot \in Seq(Nat)
  BY <1>1, StagesOf DEF ShmemInv, ShmemTypeOK
<1>3. /\ ssnd'.next = n + 1 /\ ssnd'.pc = "idle"
      /\ ssnd' = [next |-> ssnd'.next, pc |-> ssnd'.pc, reliable |-> ssnd'.reliable]
  BY <1>1 DEF ShmemInv, ShmemTypeOK
<1>4. /\ ShmemStages = Three(sgot, mid, full) /\ ShmemStages \in [1..3 -> Seq(Nat)]
      /\ AllRising(ShmemStages) /\ AllElements(ShmemStages) = Answered(answers, n)
      /\ Elements(ShmemStages[3]) \subseteq Answered(answers, n) /\ ShmemStages[3] = full
  BY StagesOf, ThreeFacts
<1> DEFINE R == Stepped(ShmemStages, 3)
           S == Appended(R, 3, n)
<1>5. /\ R \in [1..3 -> Seq(Nat)] /\ AllRising(R) /\ h \in Nat /\ h \in Answered(answers, n)
      /\ AllElements(R) = Answered(answers, n) \ {h}
  <2>1. 3 \in Nat /\ 3 \in 1..3
    OBVIOUS
  <2>2. /\ R \in [1..3 -> Seq(Nat)] /\ AllRising(R)
        /\ Head(ShmemStages[3]) \in Nat /\ Head(ShmemStages[3]) \in AllElements(ShmemStages)
        /\ AllElements(R) = AllElements(ShmemStages) \ {Head(ShmemStages[3])}
    BY <1>1, <1>4, <2>1, StageTail
  <2> QED BY <1>4, <2>2
<1>6. /\ answers' \in [1..ShmemFrags -> ShmemAnswer]
      /\ Answered(answers', n + 1) = (Answered(answers, n) \ {h}) \cup {n}
  <2> HIDE DEF n, h
  <2>1. h \in 1..n - 1 /\ ShmemFrags \in Nat /\ answers \in [1..ShmemFrags -> ShmemAnswer]
    BY <1>5, ShmemAssumption DEF Answered, ShmemInv, ShmemTypeOK
  <2>2. n \in 1..ShmemFrags /\ h \in 1..ShmemFrags /\ h # n
    BY <1>2, <2>1
  <2>3. /\ answers' \in [1..ShmemFrags -> ShmemAnswer]
        /\ answers'[n] = "success" /\ answers'[h] = "overwritten"
        /\ \A f \in 1..ShmemFrags : f # n /\ f # h => answers'[f] = answers[f]
    BY <1>1, <2>1, <2>2 DEF ShmemAnswer
  <2>4. \A f : f \in 1..(n + 1) - 1 <=> f \in 1..n - 1 \/ f = n
    BY <1>2
  <2>5. \A f \in 1..n - 1 : f \in 1..ShmemFrags /\ f # n
    BY <1>2, <2>1
  <2>6. \A f : f \in Answered(answers', n + 1) <=> f \in (Answered(answers, n) \ {h}) \cup {n}
    BY <2>1, <2>2, <2>3, <2>4, <2>5 DEF Answered
  <2>7. Answered(answers', n + 1) = (Answered(answers, n) \ {h}) \cup {n}
    BY <2>6
  <2> QED BY <2>3, <2>7
<1>7. /\ segment'.id = segment.id /\ segment'.up = segment.up /\ segment'.full = Append(Tail(full), n)
      /\ segment' = [id |-> segment'.id, up |-> segment'.up, full |-> segment'.full]
      /\ segment'.full \in Seq(Nat) /\ Tail(full) \in Seq(Nat) /\ Len(segment'.full) = Len(full)
  <2>1. /\ Append(Tail(full), n) \in Seq(Nat) /\ Tail(full) \in Seq(Nat)
        /\ Len(Append(Tail(full), n)) = Len(full)
    BY <1>1, <1>2
  <2> HIDE DEF n
  <2> QED BY <1>1, <2>1 DEF ShmemInv, ShmemTypeOK
<1>8. ShmemTypeOK'
  <2>1. ssnd'.next \in Nat \ {0} /\ ssnd'.next <= ShmemFrags + 1
    BY <1>2, <1>3, ShmemAssumption
  <2>2. segment.id \in Nat /\ segment.up \in BOOLEAN /\ reading \in Nat
    BY DEF ShmemInv, ShmemTypeOK
  <2> QED BY <1>1, <1>2, <1>3, <1>6, <1>7, <2>1, <2>2 DEF ShmemTypeOK
<1>9. AllRising(S) /\ AllElements(S) = Answered(answers', ssnd'.next)
  <2> HIDE DEF R, h, n
  <2>1. Fits(R, 3, n)
    <3>1. \A y \in Answered(answers, n) : y < n
      BY <1>2 DEF Answered
    <3> QED BY <1>5, <3>1, FitsLast
  <2>2. AllRising(S) /\ Adds(S, R, n)
    <3>1. 3 \in Nat /\ 3 \in 1..3
      OBVIOUS
    <3> QED BY <1>2, <1>5, <2>1, <3>1, StageAppended
  <2> QED BY <1>3, <1>5, <1>6, <2>2 DEF Adds
<1>10. S = Three(sgot', ReadingStage(reading'), segment'.full)
  <2>1. R = Three(sgot, mid, Tail(full))
    BY <1>2, <1>4, ThreeShortened
  <2>2. S = Three(sgot, mid, Append(Tail(full), n))
    <3> DEFINE rest == Tail(full)
    <3>1. rest \in Seq(Nat) /\ R = Three(sgot, mid, rest)
      BY <1>7, <2>1
    <3> HIDE DEF rest, R, mid, n, full
    <3>2. S = Three(sgot, mid, Append(rest, n))
      BY <1>2, <3>1, ThreeChanged
    <3> QED BY <3>2 DEF rest
  <2> QED BY <1>1, <1>7, <2>2
<1>11. Len(segment'.full) + (IF reading' = 0 THEN 0 ELSE 1) <= buffer_count_
  BY <1>1, <1>7, StagesOf DEF Occupied
<1> HIDE DEF S
<1> QED BY <1>1, <1>3, <1>7, <1>8, <1>9, <1>10, <1>11, ShmemInvFrom

LEMMA WriteFailsKeeps == ShmemInv /\ WriteFails => ShmemInv'
<1> SUFFICES ASSUME ShmemInv, WriteFails PROVE ShmemInv'
  OBVIOUS
<1>1. PICK a \in {"error", "timeout"} : Answer(a)
  BY DEF WriteFails
<1>2. ssnd.next <= ShmemFrags /\ UNCHANGED <<segment, reading, sgot>>
  BY DEF WriteFails, ShmemInv
<1>3. /\ ssnd'.next = ssnd.next + 1 /\ ssnd'.pc = "idle"
      /\ ssnd' = [next |-> ssnd'.next, pc |-> ssnd'.pc, reliable |-> ssnd'.reliable]
  BY <1>1 DEF Answer, ShmemInv, ShmemTypeOK
<1>4. /\ answers' \in [1..ShmemFrags -> ShmemAnswer]
      /\ Answered(answers', ssnd'.next) = Answered(answers, ssnd.next)
  BY <1>1, <1>2, <1>3, AnswerFacts DEF Answer, ShmemAnswer
<1>5. ShmemTypeOK'
  BY <1>2, <1>3, <1>4, ShmemAssumption DEF ShmemInv, ShmemTypeOK
<1> QED BY <1>2, <1>3, <1>4, <1>5, NothingMoves

\* A Fragment goes from one stage to an earlier one.
LEMMA ReadKeeps ==
  ASSUME ShmemInv, NEW l \in {1, 2}, NEW k \in {2, 3}, l < k,
         ShmemStages[k] # << >>, l = 1 /\ k = 3 => ShmemStages[2] = << >>,
         Three(sgot', ReadingStage(reading'), segment'.full) = Moved(ShmemStages, k, l),
         UNCHANGED <<answers, ssnd>>, ShmemTypeOK', segment'.up,
         Occupied' <= Occupied
  PROVE  ShmemInv'
<1>1. /\ ShmemStages \in [1..3 -> Seq(Nat)] /\ AllRising(ShmemStages)
      /\ AllElements(ShmemStages) = Answered(answers, ssnd.next) /\ Occupied <= buffer_count_
  BY StagesOf
<1> DEFINE S == Moved(ShmemStages, k, l)
<1>2. AllRising(S) /\ AllElements(S) = AllElements(ShmemStages)
  <2>1. 3 \in Nat /\ k \in 1..3 /\ l \in 1..3
    OBVIOUS
  <2>2. EmptyBetween(ShmemStages, l, k)
    BY <1>1 DEF EmptyBetween
  <2> QED BY <1>1, <2>1, <2>2, StageMoved
<1> HIDE DEF S
<1>3. ShmemStages' = S
  BY DEF ShmemStages, ReadingStage, Three, S
<1>4. Occupied \in Int /\ Occupied' \in Int /\ buffer_count_ \in Int
  BY ShmemAssumption DEF Occupied, ShmemInv, ShmemTypeOK
<1>5. Occupied' <= buffer_count_
  BY <1>1, <1>4
<1> QED BY <1>1, <1>2, <1>3, <1>5 DEF ShmemInv, ShmemInOrder, Answered

LEMMA ReadHeaderKeeps == ShmemInv /\ ShmemReadFragmentHeader => ShmemInv'
<1> SUFFICES ASSUME ShmemInv, ShmemReadFragmentHeader PROVE ShmemInv'
  OBVIOUS
<1> DEFINE full == segment.full
           h == Head(full)
           mid == ReadingStage(0)
<1>1. /\ segment.up /\ reading = 0 /\ full # << >> /\ reading' = h
      /\ segment' = [segment EXCEPT !.full = Tail(full)] /\ UNCHANGED <<ssnd, answers, sgot>>
  BY DEF ShmemReadFragmentHeader
<1>2. full \in Seq(Nat) /\ sgot \in Seq(Nat) /\ mid \in Seq(Nat) /\ mid = << >>
  BY ReadingFacts DEF ShmemInv, ShmemTypeOK
<1>3. /\ ShmemStages = Three(sgot, mid, full)
      /\ ShmemStages[1] = sgot /\ ShmemStages[2] = mid /\ ShmemStages[3] = full
      /\ Elements(ShmemStages[3]) \subseteq Answered(answers, ssnd.next)
  BY <1>1, <1>2, StagesOf, ThreeFacts
<1>4. h \in Nat \ {0}
  <2>1. h \in Elements(full)
    BY <1>1, <1>2 DEF Elements
  <2> QED BY <1>3, <2>1 DEF Answered
<1>5. /\ segment'.id = segment.id /\ segment'.up = segment.up /\ segment'.full = Tail(full)
      /\ segment' = [id |-> segment'.id, up |-> segment'.up, full |-> segment'.full]
      /\ Tail(full) \in Seq(Nat) /\ Len(Tail(full)) = Len(full) - 1 /\ Len(full) \in Nat
  <2>1. Tail(full) \in Seq(Nat) /\ Len(Tail(full)) = Len(full) - 1 /\ Len(full) \in Nat
    BY <1>1, <1>2
  <2> QED BY <1>1, <2>1 DEF ShmemInv, ShmemTypeOK
<1>6. ShmemTypeOK'
  BY <1>1, <1>4, <1>5 DEF ShmemInv, ShmemTypeOK
<1>7. Three(sgot', ReadingStage(reading'), segment'.full) = Moved(ShmemStages, 3, 2)
  <2>1. Stepped(ShmemStages, 3) = Three(sgot, mid, Tail(full))
    BY <1>2, <1>3, ThreeShortened
  <2>2. Appended(Stepped(ShmemStages, 3), 2, h) = Three(sgot, Append(mid, h), Tail(full))
    <3> DEFINE rest == Tail(full)
               R == Stepped(ShmemStages, 3)
    <3>1. rest \in Seq(Nat) /\ R = Three(sgot, mid, rest) /\ sgot \in Seq(Nat) /\ mid \in Seq(Nat) /\ h \in Nat
      BY <1>2, <1>4, <1>5, <2>1
    <3> HIDE DEF rest, R, h, mid, full
    <3>2. Appended(R, 2, h) = Three(sgot, Append(mid, h), rest)
      BY <3>1, ThreeChanged
    <3> QED BY <3>2 DEF rest, R
  <2>3. Append(mid, h) = ReadingStage(h)
    BY <1>4, ReadingFacts
  <2> QED BY <1>1, <1>3, <1>5, <2>2, <2>3 DEF Moved
<1>8. Occupied' <= Occupied
  <2>1. Occupied' = Len(full) - 1 + 1 /\ Occupied = Len(full) + 0
    BY <1>1, <1>4, <1>5 DEF Occupied
  <2> HIDE DEF full
  <2> QED BY <1>5, <2>1
<1>9. segment'.up /\ UNCHANGED <<answers, ssnd>> /\ ShmemStages[3] # << >>
  BY <1>1, <1>3, <1>5
<1>10. ShmemStages[2] = << >>
  BY <1>2, <1>3
<1> HIDE DEF h, mid, full
<1> QED BY <1>6, <1>7, <1>8, <1>9, <1>10, ReadKeeps

LEMMA ReadDataKeeps == ShmemInv /\ ShmemReadFragmentData => ShmemInv'
<1> SUFFICES ASSUME ShmemInv, ShmemReadFragmentData PROVE ShmemInv'
  OBVIOUS
<1> DEFINE full == segment.full
<1>1. /\ segment.up /\ reading # 0 /\ reading' = 0 /\ sgot' = Append(sgot, reading)
      /\ UNCHANGED <<segment, ssnd, answers>>
  BY DEF ShmemReadFragmentData
<1>2. full \in Seq(Nat) /\ sgot \in Seq(Nat) /\ reading \in Nat
  BY DEF ShmemInv, ShmemTypeOK
<1> DEFINE mid == ReadingStage(reading)
           none == ReadingStage(0)
<1>0. /\ mid \in Seq(Nat) /\ none \in Seq(Nat) /\ mid # << >>
      /\ Head(mid) = reading /\ Tail(mid) = none
  BY <1>1, <1>2, ReadingFacts
<1>3. /\ ShmemStages = Three(sgot, mid, full) /\ ShmemStages[2] = mid
  BY StagesOf, ThreeFacts
<1>4. ShmemTypeOK'
  <2>1. Append(sgot, reading) \in Seq(Nat)
    BY <1>2
  <2> QED BY <1>1, <2>1 DEF ShmemInv, ShmemTypeOK
<1>5. Three(sgot', ReadingStage(reading'), segment'.full) = Moved(ShmemStages, 2, 1)
  <2> HIDE DEF mid, none, full
  <2>1. Stepped(ShmemStages, 2) = Three(sgot, none, full)
    BY <1>0, <1>2, <1>3, ThreeShortened
  <2>2. Appended(Three(sgot, none, full), 1, reading) = Three(Append(sgot, reading), none, full)
    BY <1>0, <1>2, ThreeChanged
  <2> QED BY <1>0, <1>1, <1>3, <2>1, <2>2 DEF Moved, none, full
<1>6. Occupied' <= Occupied
  BY <1>1, <1>2 DEF Occupied
<1>7. ShmemStages[2] # << >>
  BY <1>0, <1>3
<1> QED BY <1>1, <1>4, <1>5, <1>6, <1>7, ReadKeeps

LEMMA ReadFragmentKeeps == ShmemInv /\ ReadFragment => ShmemInv'
<1> SUFFICES ASSUME ShmemInv, ReadFragment PROVE ShmemInv'
  OBVIOUS
<1> DEFINE full == segment.full
           h == Head(full)
           mid == ReadingStage(0)
<1>1. /\ segment.up /\ reading = 0 /\ full # << >> /\ sgot' = Append(sgot, h)
      /\ segment' = [segment EXCEPT !.full = Tail(full)] /\ UNCHANGED <<reading, ssnd, answers>>
  BY DEF ReadFragment
<1>2. full \in Seq(Nat) /\ sgot \in Seq(Nat) /\ mid \in Seq(Nat) /\ mid = << >>
  BY ReadingFacts DEF ShmemInv, ShmemTypeOK
<1>3. /\ ShmemStages = Three(sgot, mid, full)
      /\ ShmemStages[1] = sgot /\ ShmemStages[2] = mid /\ ShmemStages[3] = full
  BY <1>1, <1>2, StagesOf, ThreeFacts
<1>4. h \in Nat
  BY <1>1, <1>2
<1>5. /\ segment'.id = segment.id /\ segment'.up = segment.up /\ segment'.full = Tail(full)
      /\ segment' = [id |-> segment'.id, up |-> segment'.up, full |-> segment'.full]
      /\ Tail(full) \in Seq(Nat) /\ Len(Tail(full)) = Len(full) - 1 /\ Len(full) \in Nat
  <2>1. Tail(full) \in Seq(Nat) /\ Len(Tail(full)) = Len(full) - 1 /\ Len(full) \in Nat
    BY <1>1, <1>2
  <2> QED BY <1>1, <2>1 DEF ShmemInv, ShmemTypeOK
<1>6. ShmemTypeOK'
  <2>1. sgot' \in Seq(Nat)
    BY <1>1, <1>2, <1>4
  <2> QED BY <1>1, <1>5, <2>1 DEF ShmemInv, ShmemTypeOK
<1>7. Three(sgot', ReadingStage(reading'), segment'.full) = Moved(ShmemStages, 3, 1)
  <2>1. Stepped(ShmemStages, 3) = Three(sgot, mid, Tail(full))
    BY <1>2, <1>3, ThreeShortened
  <2>2. Appended(Stepped(ShmemStages, 3), 1, h) = Three(Append(sgot, h), mid, Tail(full))
    <3> DEFINE rest == Tail(full)
               R == Stepped(ShmemStages, 3)
    <3>1. rest \in Seq(Nat) /\ R = Three(sgot, mid, rest) /\ sgot \in Seq(Nat) /\ mid \in Seq(Nat) /\ h \in Nat
      BY <1>2, <1>4, <1>5, <2>1
    <3> HIDE DEF rest, R, h, mid, full
    <3>2. Appended(R, 1, h) = Three(Append(sgot, h), mid, rest)
      BY <3>1, ThreeChanged
    <3> QED BY <3>2 DEF rest, R
  <2> QED BY <1>1, <1>3, <1>5, <2>2 DEF Moved
<1>8. Occupied' <= Occupied
  BY <1>1, <1>5 DEF Occupied
<1>9. segment'.up /\ UNCHANGED <<answers, ssnd>> /\ ShmemStages[3] # << >>
  BY <1>1, <1>3, <1>5
<1>10. ShmemStages[2] = << >>
  BY <1>2, <1>3
<1> HIDE DEF h, mid, full
<1> QED BY <1>6, <1>7, <1>8, <1>9, <1>10, ReadKeeps

\* The buffers are emptied.
LEMMA EmptiedKeeps ==
  ASSUME ShmemInv, UNCHANGED <<ssnd, sgot>>, reading' = 0,
         answers' = [f \in DOMAIN answers |-> IF f \in InBuffers THEN "flushed" ELSE answers[f]],
         NEW up \in BOOLEAN, segment' = [segment EXCEPT !.up = up, !.full = << >>]
  PROVE  ShmemInv'
<1> DEFINE n == ssnd.next
           mid == ReadingStage(reading)
           S == Cleared(ShmemStages, {2, 3})
<1>1. /\ ShmemStages = Three(sgot, mid, segment.full) /\ ShmemStages \in [1..3 -> Seq(Nat)]
      /\ AllRising(ShmemStages) /\ AllElements(ShmemStages) = Answered(answers, n)
      /\ ShmemStages[2] = mid /\ ShmemStages[3] = segment.full
      /\ sgot \in Seq(Nat) /\ mid \in Seq(Nat) /\ segment.full \in Seq(Nat)
  BY StagesOf, ThreeFacts
<1>2. AllRising(S) /\ Clears(S, ShmemStages, {2, 3})
  <2>1. 3 \in Nat /\ {2, 3} \in SUBSET (1..3)
    OBVIOUS
  <2> QED BY <1>1, <2>1, StagesCleared
<1>3. UNION {Elements(ShmemStages[m]) : m \in {2, 3}} = InBuffers
  <2>1. Elements(mid) = {reading} \ {0}
    <3>1. Elements(<< >>) = {} /\ Elements(<<reading>>) = {reading}
      BY DEF Elements
    <3> QED BY <3>1 DEF ReadingStage
  <2>2. UNION {Elements(ShmemStages[m]) : m \in {2, 3}} = Elements(ShmemStages[2]) \cup Elements(ShmemStages[3])
    OBVIOUS
  <2> QED BY <1>1, <2>1, <2>2 DEF InBuffers
<1>4. /\ answers' \in [1..ShmemFrags -> ShmemAnswer]
      /\ Answered(answers', n) = Answered(answers, n) \ InBuffers
  <2>1. /\ answers \in [1..ShmemFrags -> ShmemAnswer] /\ n \in Nat /\ n <= ShmemFrags + 1 /\ ShmemFrags \in Nat
    BY ShmemAssumption DEF ShmemInv, ShmemTypeOK
  <2>2. /\ answers' \in [1..ShmemFrags -> ShmemAnswer]
        /\ \A f \in 1..ShmemFrags : answers'[f] = IF f \in InBuffers THEN "flushed" ELSE answers[f]
    BY <2>1 DEF ShmemAnswer
  <2>3. \A f \in 1..n - 1 : f \in 1..ShmemFrags
    BY <2>1
  <2> HIDE DEF n
  <2>4. \A f : f \in Answered(answers', n) <=> f \in Answered(answers, n) \ InBuffers
    BY <2>2, <2>3 DEF Answered
  <2> QED BY <2>2, <2>4
<1>5. /\ segment'.id = segment.id /\ segment'.up = up /\ segment'.full = << >>
      /\ segment' = [id |-> segment'.id, up |-> segment'.up, full |-> segment'.full]
  BY DEF ShmemInv, ShmemTypeOK
<1>6. ShmemTypeOK'
  <2>1. << >> \in Seq(Nat)
    OBVIOUS
  <2> QED BY <1>4, <1>5, <2>1 DEF ShmemInv, ShmemTypeOK
<1>7. S = Three(sgot', ReadingStage(reading'), segment'.full)
  BY <1>1, <1>5, ThreeShortened
<1>8. Len(segment'.full) + (IF reading' = 0 THEN 0 ELSE 1) <= buffer_count_
  BY <1>5, ShmemAssumption
<1>9. AllElements(S) = Answered(answers', ssnd'.next)
  BY <1>1, <1>2, <1>3, <1>4 DEF Clears
<1> HIDE DEF S, n
<1> QED BY <1>2, <1>5, <1>6, <1>7, <1>8, <1>9, ShmemInvFrom DEF ShmemInv

LEMMA MakeSegmentKeeps == ShmemInv /\ MakeSegment => ShmemInv'
<1> SUFFICES ASSUME ShmemInv, MakeSegment PROVE ShmemInv'
  OBVIOUS
<1>1. /\ segment' = [id |-> segment.id + 1, up |-> TRUE, full |-> << >>] /\ segment.full = << >>
      /\ UNCHANGED <<reading, ssnd, answers, sgot>>
  BY DEF MakeSegment, ShmemInv
<1>2. ShmemTypeOK'
  <2>1. << >> \in Seq(Nat)
    OBVIOUS
  <2> QED BY <1>1, <2>1 DEF ShmemInv, ShmemTypeOK
<1>3. ShmemStages' = ShmemStages /\ Occupied' = Occupied
  BY <1>1 DEF ShmemStages, Occupied
<1> QED BY <1>1, <1>2, <1>3 DEF ShmemInv, ShmemInOrder

LEMMA ShmemInvInit == ShmemInit => ShmemInv
<1> SUFFICES ASSUME ShmemInit PROVE ShmemInv
  OBVIOUS
<1>1. /\ segment.up /\ segment.full = << >> /\ segment.id = 1 /\ reading = 0 /\ sgot = << >>
      /\ segment = [id |-> segment.id, up |-> segment.up, full |-> segment.full]
      /\ ssnd = [next |-> ssnd.next, pc |-> ssnd.pc, reliable |-> ssnd.reliable]
      /\ ssnd.next = 1 /\ ssnd.pc = "idle" /\ answers \in [1..ShmemFrags -> ShmemAnswer]
  BY DEF ShmemInit, ShmemAnswer
<1>2. << >> \in Seq(Nat) /\ Len(<< >>) = 0 /\ ShmemFrags \in Nat /\ buffer_count_ \in Nat
  BY ShmemAssumption
<1>3. ShmemTypeOK
  BY <1>1, <1>2 DEF ShmemTypeOK, ShmemInit
<1>4. ShmemStages = <<<< >>, << >>, << >>>>
  BY <1>1 DEF ShmemStages
<1>5. DOMAIN ShmemStages = {1, 2, 3} /\ \A k \in {1, 2, 3} : ShmemStages[k] = << >>
  BY <1>4
<1>6. \A k \in {1, 2, 3} : Elements(ShmemStages[k]) = {} /\ Rising(ShmemStages[k])
  <2>1. Elements(<< >>) = {} /\ Rising(<< >>)
    BY DEF Elements, Rising
  <2> QED BY <1>5, <2>1
<1>7. AllRising(ShmemStages) /\ AllElements(ShmemStages) = {}
  BY <1>5, <1>6, InStages DEF AllRising
<1>8. {f \in 1..ssnd.next - 1 : answers[f] = "success"} = {}
  BY <1>1
<1> QED BY <1>1, <1>2, <1>3, <1>7, <1>8 DEF ShmemInv, ShmemInOrder, Occupied

LEMMA ShmemInvNext == ShmemInv /\ [ShmemNext]_shmemVars => ShmemInv'
<1> SUFFICES ASSUME ShmemInv, [ShmemNext]_shmemVars PROVE ShmemInv'
  OBVIOUS
<1>1. CASE ShmemFlush
  <2>1. segment' = [segment EXCEPT !.up = TRUE, !.full = << >>]
    BY <1>1 DEF ShmemFlush, ShmemInv, ShmemTypeOK
  <2> QED BY <1>1, <2>1, EmptiedKeeps DEF ShmemFlush
<1>2. CASE DestroySegment
  BY <1>2, EmptiedKeeps DEF DestroySegment
<1>3. CASE UNCHANGED shmemVars
  BY <1>3 DEF shmemVars, ShmemInv, ShmemTypeOK, ShmemInOrder, ShmemStages, Occupied
<1> QED
  BY <1>1, <1>2, <1>3, SendFragmentKeeps, WriteFragmentKeeps, OverwriteKeeps, WriteFailsKeeps, ReadHeaderKeeps,
     ReadDataKeeps, ReadFragmentKeeps, MakeSegmentKeeps DEF ShmemNext

(***************************************************************************)
(* BundleTransfer: what was received, what is left of a bundle, the bundles *)
(* under way and the one that is filled are stages.                        *)
(***************************************************************************)

Bundled == [header : Nat, data : Nat]

BundleTypeOK ==
  /\ bundle \in Seq(Nat) /\ bwire \in Seq(Seq(Nat)) /\ bgot \in Seq(Bundled)
  /\ bsnd = [pc |-> bsnd.pc, next |-> bsnd.next] /\ bsnd.next \in Nat \ {0}
  /\ brcv = [bundle |-> brcv.bundle, index |-> brcv.index, header |-> brcv.header]
  /\ brcv.bundle \in Seq(Nat) /\ brcv.index \in Nat /\ brcv.header \in Nat
  /\ dropped \subseteq 1..Added

\* No bundle is empty, and a header that was read is that of the next data.
BundleHeld ==
  /\ holder # "nobody" => bundle # << >>
  /\ \A i \in DOMAIN bwire : bwire[i] # << >>
  /\ brcv.bundle # << >> => brcv.index < Len(brcv.bundle)
  /\ brcv.header # 0 => brcv.bundle # << >> /\ brcv.header = Block

BundleInv == BundleTypeOK /\ BundleHeld /\ BundleInOrder

Pile(g, r, w, b) == <<g, r>> \o w \o <<b>>
PileHeight(w) == Len(w) + 3
Datas(g) == [i \in DOMAIN g |-> g[i].data]

LEMMA PileFacts ==
  ASSUME NEW g \in Seq(Nat), NEW r \in Seq(Nat), NEW w \in Seq(Seq(Nat)), NEW b \in Seq(Nat)
  PROVE  /\ Len(w) \in Nat /\ PileHeight(w) \in Nat
         /\ Pile(g, r, w, b) \in [1..PileHeight(w) -> Seq(Nat)]
         /\ Pile(g, r, w, b)[1] = g /\ Pile(g, r, w, b)[2] = r
         /\ \A i \in 1..Len(w) : Pile(g, r, w, b)[i + 2] = w[i]
         /\ Pile(g, r, w, b)[PileHeight(w)] = b
<1> DEFINE u == <<g, r>> \o w
           p == u \o <<b>>
<1>1. /\ <<g, r>> \in Seq(Seq(Nat)) /\ Len(<<g, r>>) = 2 /\ <<g, r>>[1] = g /\ <<g, r>>[2] = r
      /\ <<b>> \in Seq(Seq(Nat)) /\ Len(<<b>>) = 1 /\ <<b>>[1] = b
  OBVIOUS
<1>2. /\ u \in Seq(Seq(Nat)) /\ Len(u) = 2 + Len(w)
      /\ \A i \in 1..2 : u[i] = <<g, r>>[i]
      /\ \A i \in 1..Len(w) : u[2 + i] = w[i]
  BY <1>1, ConcatProperties
<1> HIDE DEF u
<1>3. /\ p \in Seq(Seq(Nat)) /\ Len(p) = Len(u) + 1
      /\ \A i \in 1..Len(u) : p[i] = u[i]
      /\ p[Len(u) + 1] = b
  BY <1>1, <1>2, ConcatProperties
<1> HIDE DEF p
<1>4. Len(w) \in Nat /\ p \in [1..Len(p) -> Seq(Nat)]
  BY <1>3
<1>5. p[1] = g /\ p[2] = r
  BY <1>1, <1>2, <1>3, <1>4
<1>6. \A i \in 1..Len(w) : p[i + 2] = w[i]
  <2> TAKE i \in 1..Len(w)
  <2>1. i + 2 \in 1..Len(u) /\ i + 2 = 2 + i
    BY <1>2, <1>4
  <2> QED BY <1>2, <1>3, <2>1
<1>7. PileHeight(w) = Len(p) /\ p[PileHeight(w)] = b /\ PileHeight(w) \in Nat
  BY <1>2, <1>3, <1>4 DEF PileHeight
<1> QED BY <1>4, <1>5, <1>6, <1>7 DEF Pile, p, u

IsPile(S, g, r, w, b) ==
  /\ Len(w) \in Nat /\ PileHeight(w) \in Nat
  /\ S \in [1..PileHeight(w) -> Seq(Nat)] /\ S[1] = g /\ S[2] = r
  /\ \A i \in 1..Len(w) : S[i + 2] = w[i]
  /\ S[PileHeight(w)] = b

LEMMA PileIs ==
  ASSUME NEW g \in Seq(Nat), NEW r \in Seq(Nat), NEW w \in Seq(Seq(Nat)), NEW b \in Seq(Nat)
  PROVE  IsPile(Pile(g, r, w, b), g, r, w, b)
BY PileFacts DEF IsPile

\* Every stage of a pile is one of the first two, one of the middle or the last.
LEMMA PlaceInPile ==
  ASSUME NEW w \in Seq(Seq(Nat)), NEW k \in 1..PileHeight(w)
  PROVE  k = 1 \/ k = 2 \/ k = PileHeight(w) \/ \E i \in 1..Len(w) : k = i + 2
<1>1. Len(w) \in Nat
  OBVIOUS
<1>2. ASSUME k # 1, k # 2, k # PileHeight(w) PROVE k - 2 \in 1..Len(w) /\ k = (k - 2) + 2
  BY <1>1, <1>2 DEF PileHeight
<1> QED BY <1>2

LEMMA PileAppended ==
  ASSUME NEW g \in Seq(Nat), NEW r \in Seq(Nat), NEW w \in Seq(Seq(Nat)), NEW b \in Seq(Nat), NEW x \in Nat
  PROVE  Appended(Pile(g, r, w, b), PileHeight(w), x) = Pile(g, r, w, Append(b, x))
<1> DEFINE c == Append(b, x)
           n == PileHeight(w)
           S == Pile(g, r, w, b)
           T == Pile(g, r, w, c)
<1>1. c \in Seq(Nat)
  OBVIOUS
<1>2. /\ n \in Nat /\ S \in [1..n -> Seq(Nat)] /\ S[1] = g /\ S[2] = r /\ S[n] = b
      /\ \A i \in 1..Len(w) : S[i + 2] = w[i]
  BY PileFacts
<1>3. /\ T \in [1..n -> Seq(Nat)] /\ T[1] = g /\ T[2] = r /\ T[n] = c
      /\ \A i \in 1..Len(w) : T[i + 2] = w[i]
  <2> HIDE DEF c
  <2> QED BY <1>1, PileFacts
<1>4. n \in 1..n /\ n # 1 /\ n # 2 /\ \A i \in 1..Len(w) : i + 2 # n /\ i + 2 \in 1..n
  BY DEF PileHeight
<1>5. \A k \in 1..n : k = 1 \/ k = 2 \/ k = n \/ \E i \in 1..Len(w) : k = i + 2
  BY PlaceInPile
<1>6. \A k \in 1..n : k # n => S[k] = T[k]
  <2> HIDE DEF S, T, n, c
  <2> SUFFICES ASSUME NEW k \in 1..n, k # n PROVE S[k] = T[k]
    OBVIOUS
  <2>1. CASE k = 1 \/ k = 2
    BY <1>2, <1>3, <2>1
  <2>2. CASE \E i \in 1..Len(w) : k = i + 2
    BY <1>2, <1>3, <2>2
  <2> QED BY <1>5, <2>1, <2>2
<1> HIDE DEF S, T, n
<1>7. T = [S EXCEPT ![n] = Append(S[n], x)]
  BY <1>2, <1>3, <1>4, <1>6
<1> QED BY <1>7 DEF Appended, S, T, n

LEMMA PileMoved ==
  ASSUME NEW g \in Seq(Nat), NEW r \in Seq(Nat), NEW w \in Seq(Seq(Nat)), NEW b \in Seq(Nat), r # << >>
  PROVE  Moved(Pile(g, r, w, b), 2, 1) = Pile(Append(g, Head(r)), Tail(r), w, b)
<1> DEFINE h == Append(g, Head(r))
           t == Tail(r)
           n == PileHeight(w)
           S == Pile(g, r, w, b)
           T == Pile(h, t, w, b)
<1>1. h \in Seq(Nat) /\ t \in Seq(Nat)
  OBVIOUS
<1>2. /\ n \in Nat /\ S \in [1..n -> Seq(Nat)] /\ S[1] = g /\ S[2] = r /\ S[n] = b
      /\ \A i \in 1..Len(w) : S[i + 2] = w[i]
  BY PileFacts
<1>3. /\ T \in [1..n -> Seq(Nat)] /\ T[1] = h /\ T[2] = t /\ T[n] = b
      /\ \A i \in 1..Len(w) : T[i + 2] = w[i]
  <2> HIDE DEF h, t
  <2> QED BY <1>1, PileFacts
<1>4. 1 \in 1..n /\ 2 \in 1..n
  BY DEF PileHeight
<1>5. \A k \in 1..n : k = 1 \/ k = 2 \/ k = n \/ \E i \in 1..Len(w) : k = i + 2
  BY PlaceInPile
<1>6. \A k \in 1..n : k # 1 /\ k # 2 => S[k] = T[k]
  <2> HIDE DEF S, T, n, h, t
  <2> SUFFICES ASSUME NEW k \in 1..n, k # 1, k # 2 PROVE S[k] = T[k]
    OBVIOUS
  <2>1. CASE k = n
    BY <1>2, <1>3, <2>1
  <2>2. CASE \E i \in 1..Len(w) : k = i + 2
    BY <1>2, <1>3, <2>2
  <2> QED BY <1>5, <2>1, <2>2
<1> HIDE DEF S, T, n
<1> DEFINE U == [S EXCEPT ![2] = Tail(S[2])]
<1>7. U \in [1..n -> Seq(Nat)] /\ U[1] = g /\ U[2] = t /\ \A k \in 1..n : k # 2 => U[k] = S[k]
  <2> HIDE DEF h
  <2> QED BY <1>1, <1>2, <1>4
<1> HIDE DEF U
<1>8. T = [U EXCEPT ![1] = Append(U[1], Head(S[2]))]
  <2>1. Append(U[1], Head(S[2])) = h
    BY <1>2, <1>7
  <2>2. \A k \in 1..n : T[k] = IF k = 1 THEN h ELSE U[k]
    <3> HIDE DEF h, t
    <3> SUFFICES ASSUME NEW k \in 1..n PROVE T[k] = IF k = 1 THEN h ELSE U[k]
      OBVIOUS
    <3>1. CASE k = 1 \/ k = 2
      BY <1>3, <1>4, <1>7, <3>1
    <3>2. CASE k # 1 /\ k # 2
      BY <1>6, <1>7, <3>2
    <3> QED BY <3>1, <3>2
  <2>3. T = [U EXCEPT ![1] = h]
    <3> HIDE DEF h
    <3> QED BY <1>3, <1>7, <2>2
  <2> QED BY <2>1, <2>3
<1> QED BY <1>8 DEF Moved, Appended, Stepped, S, T, n, U

LEMMA PileCleared ==
  ASSUME NEW g \in Seq(Nat), NEW r \in Seq(Nat), NEW w \in Seq(Seq(Nat)), NEW b \in Seq(Nat)
  PROVE  Cleared(Pile(g, r, w, b), {PileHeight(w)}) = Pile(g, r, w, << >>)
<1> DEFINE n == PileHeight(w)
           S == Pile(g, r, w, b)
           e == << >>
           T == Pile(g, r, w, e)
<1>1. e \in Seq(Nat)
  OBVIOUS
<1>2. /\ n \in Nat /\ S \in [1..n -> Seq(Nat)] /\ S[1] = g /\ S[2] = r /\ S[n] = b
      /\ \A i \in 1..Len(w) : S[i + 2] = w[i]
  BY PileFacts
<1>3. /\ T \in [1..n -> Seq(Nat)] /\ T[1] = g /\ T[2] = r /\ T[n] = e
      /\ \A i \in 1..Len(w) : T[i + 2] = w[i]
  <2> HIDE DEF e
  <2> QED BY <1>1, PileFacts
<1>5. \A k \in 1..n : k = 1 \/ k = 2 \/ k = n \/ \E i \in 1..Len(w) : k = i + 2
  BY PlaceInPile
<1>6. \A k \in 1..n : k # n => S[k] = T[k]
  <2> HIDE DEF S, T, n
  <2> SUFFICES ASSUME NEW k \in 1..n, k # n PROVE S[k] = T[k]
    OBVIOUS
  <2>1. CASE k = 1 \/ k = 2
    BY <1>2, <1>3, <2>1
  <2>2. CASE \E i \in 1..Len(w) : k = i + 2
    BY <1>2, <1>3, <2>2
  <2> QED BY <1>5, <2>1, <2>2
<1> HIDE DEF S, T, n
<1>7. T = [k \in DOMAIN S |-> IF k \in {n} THEN e ELSE S[k]]
  BY <1>2, <1>3, <1>6
<1> QED BY <1>7 DEF Cleared, S, T, n, e

\* The bundle is sent.
LEMMA PilePushed ==
  ASSUME NEW g \in Seq(Nat), NEW r \in Seq(Nat), NEW w \in Seq(Seq(Nat)), NEW b \in Seq(Nat)
  PROVE  Pile(g, r, w, b) = Without(Pile(g, r, Append(w, b), << >>), PileHeight(w), PileHeight(w) + 1)
<1> DEFINE n == PileHeight(w)
           v == Append(w, b)
           e == << >>
           S == Pile(g, r, v, e)
           T == Pile(g, r, w, b)
<1>1. /\ e \in Seq(Nat) /\ v \in Seq(Seq(Nat)) /\ Len(v) = Len(w) + 1 /\ Len(w) \in Nat
      /\ v[Len(w) + 1] = b /\ \A i \in 1..Len(w) : v[i] = w[i] /\ i \in 1..Len(v)
  OBVIOUS
<1> HIDE DEF v, e
<1>2. /\ PileHeight(v) = n + 1 /\ n = Len(w) + 3 /\ Len(w) + 1 \in 1..Len(v)
  BY <1>1 DEF PileHeight
<1>3. /\ T \in [1..n -> Seq(Nat)] /\ T[1] = g /\ T[2] = r /\ T[n] = b
      /\ \A i \in 1..Len(w) : T[i + 2] = w[i]
  BY PileFacts
<1>4. /\ S \in [1..PileHeight(v) -> Seq(Nat)] /\ S[1] = g /\ S[2] = r
      /\ \A i \in 1..Len(v) : S[i + 2] = v[i]
  <2>1. IsPile(S, g, r, v, e)
    BY <1>1, PileIs
  <2> QED BY <2>1 DEF IsPile
<1>5. \A k \in 1..n : k = 1 \/ k = 2 \/ k = n \/ \E i \in 1..Len(w) : k = i + 2
  BY PlaceInPile
<1> HIDE DEF S, T
<1>6. S[n] = b
  <2>1. PICK j \in 1..Len(v) : j = Len(w) + 1
    BY <1>2
  <2>2. S[j + 2] = v[j] /\ j + 2 = Len(w) + 3
    BY <1>1, <1>4, <2>1
  <2> QED BY <1>1, <1>2, <2>1, <2>2
<1>7. \A i \in 1..Len(w) : S[i + 2] = w[i]
  BY <1>1, <1>4
<1> HIDE DEF n
<1>8. \A k \in 1..n : S[k] = T[k]
  BY <1>3, <1>4, <1>5, <1>6, <1>7
<1>9. n \in Nat
  BY <1>1, <1>2
<1>10. T = [m \in 1..n |-> IF m < n + 1 THEN S[m] ELSE S[m + 1]]
  BY <1>3, <1>8, <1>9
<1> QED BY <1>10 DEF Without, S, T, n, v, e

\* The receiver takes the first bundle under way.
LEMMA PilePulled ==
  ASSUME NEW g \in Seq(Nat), NEW w \in Seq(Seq(Nat)), NEW b \in Seq(Nat), w # << >>
  PROVE  /\ Pile(g, Head(w), Tail(w), b) = Without(Pile(g, << >>, w, b), PileHeight(w) - 1, 2)
         /\ PileHeight(Tail(w)) = PileHeight(w) - 1
<1> DEFINE n == PileHeight(w)
           v == Tail(w)
           h == Head(w)
           e == << >>
           S == Pile(g, e, w, b)
           T == Pile(g, h, v, b)
<1>1. /\ e \in Seq(Nat) /\ v \in Seq(Seq(Nat)) /\ h \in Seq(Nat)
      /\ Len(v) = Len(w) - 1 /\ Len(w) \in Nat \ {0}
      /\ h = w[1] /\ \A i \in 1..Len(v) : v[i] = w[i + 1] /\ i + 1 \in 1..Len(w)
  OBVIOUS
<1> HIDE DEF v, h, e
<1>2. PileHeight(v) = n - 1 /\ n = Len(w) + 3 /\ 1 \in 1..Len(w)
  BY <1>1 DEF PileHeight
<1>3. /\ S \in [1..n -> Seq(Nat)] /\ S[1] = g /\ S[n] = b
      /\ \A i \in 1..Len(w) : S[i + 2] = w[i]
  <2>1. IsPile(S, g, e, w, b)
    BY <1>1, PileIs
  <2> QED BY <2>1 DEF IsPile
<1>4. /\ T \in [1..PileHeight(v) -> Seq(Nat)] /\ T[1] = g /\ T[2] = h /\ T[PileHeight(v)] = b
      /\ \A i \in 1..Len(v) : T[i + 2] = v[i]
  <2>1. IsPile(T, g, h, v, b)
    BY <1>1, PileIs
  <2> QED BY <2>1 DEF IsPile
<1>5. \A k \in 1..PileHeight(v) : k = 1 \/ k = 2 \/ k = PileHeight(v) \/ \E i \in 1..Len(v) : k = i + 2
  BY <1>1, PlaceInPile
<1> HIDE DEF S, T, n
<1>6. S[3] = h
  <2>1. S[1 + 2] = w[1]
    BY <1>2, <1>3
  <2> QED BY <1>1, <2>1
<1>7. \A k \in 1..n - 1 : T[k] = IF k < 2 THEN S[k] ELSE S[k + 1]
  <2> SUFFICES ASSUME NEW k \in 1..n - 1 PROVE T[k] = IF k < 2 THEN S[k] ELSE S[k + 1]
    OBVIOUS
  <2>1. CASE k = 1
    BY <1>3, <1>4, <2>1
  <2>2. CASE k = 2
    BY <1>4, <1>6, <2>2
  <2>3. CASE k = n - 1 /\ k # 1 /\ k # 2
    BY <1>1, <1>2, <1>3, <1>4, <2>3
  <2>4. CASE k # 1 /\ k # 2 /\ \E i \in 1..Len(v) : k = i + 2
    <3>1. PICK i \in 1..Len(v) : k = i + 2
      BY <2>4
    <3>2. PICK j \in 1..Len(w) : j = i + 1
      BY <1>1
    <3>3. S[j + 2] = w[j] /\ j + 2 = k + 1 /\ ~(k < 2)
      BY <1>3, <3>1, <3>2
    <3>4. T[k] = v[i] /\ v[i] = w[j]
      BY <1>1, <1>4, <3>1, <3>2
    <3> QED BY <3>3, <3>4
  <2> QED BY <1>2, <1>5, <2>1, <2>2, <2>3, <2>4
<1>8. T = [m \in 1..n - 1 |-> IF m < 2 THEN S[m] ELSE S[m + 1]]
  BY <1>2, <1>4, <1>7
<1> QED BY <1>2, <1>8 DEF Without, S, T, n, v, h, e

\* What is left of a bundle.
LEMMA RestFacts ==
  ASSUME NEW s \in Seq(Nat), NEW i \in Nat
  PROVE  /\ SubSeq(s, i + 1, Len(s)) \in Seq(Nat)
         /\ i < Len(s) => /\ SubSeq(s, i + 1, Len(s)) # << >>
                          /\ Head(SubSeq(s, i + 1, Len(s))) = s[i + 1] /\ s[i + 1] \in Nat
                          /\ Tail(SubSeq(s, i + 1, Len(s))) = SubSeq(s, i + 2, Len(s))
         /\ Len(s) <= i => SubSeq(s, i + 1, Len(s)) = << >>
         /\ i = 0 => SubSeq(s, i + 1, Len(s)) = s
<1>1. Len(s) \in Nat /\ DOMAIN s = 1..Len(s) /\ \A j \in 1..Len(s) : s[j] \in Nat
  OBVIOUS
<1> DEFINE r == SubSeq(s, i + 1, Len(s))
<1>2. /\ r \in Seq(Nat) /\ Len(r) = IF i + 1 <= Len(s) THEN Len(s) - i ELSE 0
      /\ \A j \in 1..Len(r) : r[j] = s[i + j]
  BY <1>1
<1>3. ASSUME i < Len(s)
      PROVE  r # << >> /\ Head(r) = s[i + 1] /\ s[i + 1] \in Nat /\ Tail(r) = SubSeq(s, i + 2, Len(s))
  <2>1. Len(r) = Len(s) - i /\ Len(r) > 0 /\ 1 \in 1..Len(r) /\ i + 1 \in 1..Len(s)
    BY <1>1, <1>2, <1>3
  <2> HIDE DEF r
  <2>2. r # << >> /\ Head(r) = s[i + 1]
    BY <1>2, <2>1
  <2> DEFINE q == SubSeq(s, i + 2, Len(s))
  <2>3. /\ q \in Seq(Nat) /\ Len(q) = Len(s) - i - 1
        /\ \A j \in 1..Len(q) : q[j] = s[(i + 1) + j]
    <3>1. i + 2 \in 1..Len(s) + 1
      BY <1>1, <1>3
    <3>2. /\ q \in Seq(Nat) /\ Len(q) = IF i + 2 <= Len(s) THEN Len(s) - (i + 2) + 1 ELSE 0
          /\ \A j \in 1..Len(q) : q[j] = s[(i + 2) + j - 1]
      BY <1>1, <3>1, SubSeqProperties
    <3> HIDE DEF q
    <3>3. Len(q) = Len(s) - i - 1
      <4>1. PICK L \in Nat : L = Len(s)
        BY <1>1
      <4>2. CASE i + 2 <= L
        BY <1>3, <3>2, <4>1, <4>2
      <4>3. CASE ~(i + 2 <= L)
        <5>1. L - i - 1 = 0
          BY <1>3, <4>1, <4>3
        <5> QED BY <3>2, <4>1, <4>3, <5>1
      <4> QED BY <4>2, <4>3
    <3>4. \A j \in 1..Len(q) : (i + 2) + j - 1 = (i + 1) + j
      OBVIOUS
    <3> QED BY <3>2, <3>3, <3>4
  <2> HIDE DEF q
  <2>4. /\ Tail(r) \in Seq(Nat) /\ Len(Tail(r)) = Len(r) - 1
        /\ \A j \in 1..Len(r) - 1 : Tail(r)[j] = r[j + 1]
    BY <1>2, <2>2
  <2>5. Len(Tail(r)) = Len(q)
    BY <2>1, <2>3, <2>4
  <2>6. \A j \in 1..Len(q) : Tail(r)[j] = q[j]
    <3> TAKE j \in 1..Len(q)
    <3>1. j \in 1..Len(r) - 1 /\ j + 1 \in 1..Len(r) /\ i + (j + 1) = (i + 1) + j
      <4>1. Len(q) = Len(r) - 1 /\ Len(r) \in Nat
        BY <1>1, <2>1, <2>3
      <4> QED BY <4>1
    <3>2. r[j + 1] = s[i + (j + 1)]
      BY <1>2, <3>1
    <3> QED BY <2>3, <2>4, <3>1, <3>2
  <2>7. Tail(r) = q
    BY <2>3, <2>4, <2>5, <2>6, SeqEqual
  <2> QED BY <1>1, <2>1, <2>2, <2>7 DEF q
<1>4. ASSUME Len(s) <= i PROVE r = << >>
  BY <1>1, <1>4
<1>5. ASSUME i = 0 PROVE r = s
  <2>1. Len(r) = Len(s) /\ \A j \in 1..Len(r) : r[j] = s[j]
    BY <1>1, <1>2, <1>5
  <2> QED BY <1>2, <2>1, SeqEqual
<1> QED BY <1>2, <1>3, <1>4, <1>5

\* What the invariant says of the stages.
LEMMA BundleFacts ==
  ASSUME BundleInv
  PROVE  /\ Datas(bgot) \in Seq(Nat) /\ Rest \in Seq(Nat) /\ bwire \in Seq(Seq(Nat)) /\ bundle \in Seq(Nat)
         /\ BundleStages = Pile(Datas(bgot), Rest, bwire, bundle)
         /\ PileHeight(bwire) \in Nat /\ BundleStages \in [1..PileHeight(bwire) -> Seq(Nat)]
         /\ AllRising(BundleStages) /\ AllElements(BundleStages) = (1..Added) \ dropped
         /\ 1 \in 1..PileHeight(bwire) /\ 2 \in 1..PileHeight(bwire)
         /\ PileHeight(bwire) \in 1..PileHeight(bwire)
         /\ BundleStages[2] = Rest /\ BundleStages[PileHeight(bwire)] = bundle
<1>1. Datas(bgot) \in Seq(Nat)
  <2>1. bgot \in Seq(Bundled)
    BY DEF BundleInv, BundleTypeOK
  <2>2. Len(bgot) \in Nat /\ DOMAIN bgot = 1..Len(bgot) /\ \A i \in 1..Len(bgot) : bgot[i] \in Bundled
    BY <2>1
  <2>3. \A i \in 1..Len(bgot) : bgot[i].data \in Nat
    BY <2>2 DEF Bundled
  <2> QED BY <2>2, <2>3 DEF Datas
<1>2. Rest \in Seq(Nat) /\ bwire \in Seq(Seq(Nat)) /\ bundle \in Seq(Nat)
  BY RestFacts DEF BundleInv, BundleTypeOK, Rest
<1>3. BundleStages = Pile(Datas(bgot), Rest, bwire, bundle)
  BY DEF BundleStages, Pile, Datas
<1>4. IsPile(BundleStages, Datas(bgot), Rest, bwire, bundle)
  BY <1>1, <1>2, <1>3, PileIs
<1>5. AllRising(BundleStages) /\ AllElements(BundleStages) = (1..Added) \ dropped
  BY DEF BundleInv, BundleInOrder
<1>6. /\ 1 \in 1..PileHeight(bwire) /\ 2 \in 1..PileHeight(bwire)
      /\ PileHeight(bwire) \in 1..PileHeight(bwire)
  BY <1>4 DEF IsPile, PileHeight
<1> QED BY <1>1, <1>2, <1>3, <1>4, <1>5, <1>6 DEF IsPile

\* A state after a step, from its stages.
LEMMA BundleInvFrom ==
  ASSUME BundleTypeOK', BundleHeld', \A i \in DOMAIN bgot' : bgot'[i].header = bgot'[i].data,
         NEW S, S = Pile(Datas(bgot'), Rest', bwire', bundle'),
         AllRising(S), AllElements(S) = (1..Added') \ dropped'
  PROVE  BundleInv'
<1>1. BundleStages' = S
  BY DEF BundleStages, Pile, Datas
<1> QED BY <1>1 DEF BundleInv, BundleInOrder

\* A step that moves no Fragment.
LEMMA QuietKeeps ==
  ASSUME BundleInv, UNCHANGED <<bundle, bwire, brcv, bgot, dropped>>,
         NEW pc, bsnd' = [bsnd EXCEPT !.pc = pc], holder' # "nobody" => bundle # << >>
  PROVE  BundleInv'
<1>1. bsnd'.next = bsnd.next /\ bsnd' = [pc |-> bsnd'.pc, next |-> bsnd'.next] /\ Added' = Added
  BY DEF BundleInv, BundleTypeOK, Added
<1>2. BundleStages' = BundleStages /\ Block' = Block
  BY DEF BundleStages, Rest, Block
<1>3. BundleTypeOK'
  BY <1>1 DEF BundleInv, BundleTypeOK
<1>4. BundleHeld'
  BY <1>2 DEF BundleInv, BundleHeld
<1>5. BundleInOrder'
  BY <1>1, <1>2 DEF BundleInv, BundleInOrder
<1> QED BY <1>3, <1>4, <1>5 DEF BundleInv

LEMMA AddFragmentKeeps == BundleInv /\ addFragment => BundleInv'
<1> SUFFICES ASSUME BundleInv, addFragment PROVE BundleInv'
  OBVIOUS
<1> DEFINE n == bsnd.next
           h == PileHeight(bwire)
           S == Appended(BundleStages, h, n)
<1>1. /\ holder = "nobody" /\ bundle' = Append(bundle, n)
      /\ bsnd' = [pc |-> "send", next |-> n + 1] /\ UNCHANGED <<holder, bwire, brcv, bgot, dropped>>
  BY DEF addFragment, receiverVars
<1>2. /\ n \in Nat \ {0} /\ n \notin dropped /\ Added = n - 1 /\ Added' = n
      /\ dropped \subseteq 1..Added /\ dropped \subseteq 1..n
  <2>1. n \in Nat \ {0} /\ Added = n - 1 /\ dropped \subseteq 1..Added
    BY DEF BundleInv, BundleTypeOK, Added
  <2>2. bsnd'.next = n + 1
    BY <1>1
  <2> HIDE DEF n
  <2>3. Added' = n
    BY <2>1, <2>2 DEF Added
  <2>4. n \notin 1..n - 1 /\ 1..n - 1 \subseteq 1..n
    BY <2>1
  <2> QED BY <2>1, <2>3, <2>4
<1>3. Fits(BundleStages, h, n)
  <2>1. \A m \in 1..h : \A y \in Elements(BundleStages[m]) : y \in AllElements(BundleStages)
    BY BundleFacts, InStages
  <2>2. \A y \in (1..Added) \ dropped : y < n
    BY <1>2
  <2>3. DOMAIN BundleStages = 1..h /\ h \in Nat
    BY BundleFacts
  <2>4. \A m \in 1..h : \A y \in Elements(BundleStages[m]) : y < n
    BY <2>1, <2>2, BundleFacts
  <2> QED BY <2>3, <2>4 DEF Fits
<1>4. AllRising(S) /\ AllElements(S) = (1..Added') \ dropped'
  <2>1. AllRising(S) /\ Adds(S, BundleStages, n)
    BY <1>2, <1>3, BundleFacts, StageAppended
  <2>2. (1..Added') \ dropped' = ((1..Added) \ dropped) \cup {n}
    BY <1>1, <1>2
  <2> QED BY <2>1, <2>2, BundleFacts DEF Adds
<1>5. S = Pile(Datas(bgot'), Rest', bwire', bundle')
  <2>1. Datas(bgot') = Datas(bgot) /\ Rest' = Rest
    BY <1>1 DEF Rest
  <2>2. S = Pile(Datas(bgot), Rest, bwire, Append(bundle, n))
    BY <1>2, BundleFacts, PileAppended
  <2> QED BY <1>1, <2>1, <2>2
<1>6. Append(bundle, n) \in Seq(Nat) /\ Append(bundle, n) # << >>
  <2>1. bundle \in Seq(Nat)
    BY BundleFacts
  <2> HIDE DEF n
  <2> QED BY <1>2, <2>1
<1>7. BundleTypeOK'
  BY <1>1, <1>2, <1>6 DEF BundleInv, BundleTypeOK
<1>8. BundleHeld'
  BY <1>1 DEF BundleInv, BundleHeld, Block
<1>9. \A i \in DOMAIN bgot' : bgot'[i].header = bgot'[i].data
  BY <1>1 DEF BundleInv, BundleInOrder
<1> HIDE DEF S
<1> QED BY <1>4, <1>5, <1>7, <1>8, <1>9, BundleInvFrom

LEMMA SendsOrDropsKeeps ==
  ASSUME BundleInv, NEW ok \in BOOLEAN, SendsOrDrops(ok), bundle # << >>, UNCHANGED <<brcv, bgot>>,
         NEW pc, bsnd' = [bsnd EXCEPT !.pc = pc], holder' = "nobody"
  PROVE  BundleInv'
<1> DEFINE g == Datas(bgot)
           h == PileHeight(bwire)
<1>1. bsnd'.next = bsnd.next /\ bsnd' = [pc |-> bsnd'.pc, next |-> bsnd'.next] /\ Added' = Added
  BY DEF BundleInv, BundleTypeOK, Added
<1>2. bundle' = << >> /\ << >> \in Seq(Nat)
  BY DEF SendsOrDrops
<1>3. Datas(bgot') = g /\ Rest' = Rest /\ Block' = Block
  BY DEF Rest, Block
<1>4. \A i \in DOMAIN bgot' : bgot'[i].header = bgot'[i].data
  BY DEF BundleInv, BundleInOrder
<1>5. CASE ok
  <2>1. bwire' = Append(bwire, bundle) /\ dropped' = dropped
    BY <1>5 DEF SendsOrDrops
  <2> DEFINE v == Append(bwire, bundle)
             S == Pile(g, Rest, v, << >>)
  <2>2. /\ v \in Seq(Seq(Nat)) /\ DOMAIN v = 1..Len(bwire) + 1 /\ DOMAIN bwire = 1..Len(bwire) /\ Len(bwire) \in Nat
        /\ Len(v) = Len(bwire) + 1
        /\ v[Len(bwire) + 1] = bundle /\ \A i \in 1..Len(bwire) : v[i] = bwire[i]
    BY BundleFacts
  <2>3. \A i \in DOMAIN v : v[i] # << >>
    <3>1. \A i \in 1..Len(bwire) : bwire[i] # << >>
      BY <2>2 DEF BundleInv, BundleHeld
    <3> HIDE DEF v
    <3>2. \A i \in 1..Len(bwire) + 1 : i \in 1..Len(bwire) \/ i = Len(bwire) + 1
      BY <2>2
    <3> QED BY <2>2, <3>1, <3>2
  <2> HIDE DEF v
  <2>4. BundleTypeOK'
    BY <1>1, <1>2, <2>1, <2>2 DEF BundleInv, BundleTypeOK, v
  <2>5. BundleHeld'
    BY <1>2, <1>3, <2>1, <2>3 DEF BundleInv, BundleHeld, v
  <2>6. IsPile(S, g, Rest, v, << >>)
    BY <1>2, <2>2, BundleFacts, PileIs
  <2>7. PileHeight(v) = h + 1 /\ h \in Nat /\ h + 1 \in 1..h + 1
    BY <2>2 DEF PileHeight
  <2>8. S \in [1..h + 1 -> Seq(Nat)] /\ S[h + 1] = << >>
    BY <2>6, <2>7 DEF IsPile
  <2>9. Elements(S[h + 1]) = {} /\ Rising(S[h + 1])
    BY <2>8 DEF Elements, Rising
  <2>10. BundleStages = Without(S, h, h + 1)
    BY BundleFacts, PilePushed DEF v
  <2> HIDE DEF S, h
  <2>11. /\ AllRising(S) <=> AllRising(Without(S, h, h + 1))
         /\ AllElements(Without(S, h, h + 1)) = AllElements(S)
    BY <2>7, <2>8, <2>9, EmptyStage
  <2>12. AllRising(S) /\ AllElements(S) = (1..Added') \ dropped'
    BY <1>1, <2>1, <2>10, <2>11, BundleFacts
  <2>13. S = Pile(Datas(bgot'), Rest', bwire', bundle')
    BY <1>2, <1>3, <2>1 DEF S, v
  <2> QED BY <1>4, <2>4, <2>5, <2>12, <2>13, BundleInvFrom
<1>6. CASE ~ok
  <2>1. bwire' = bwire /\ dropped' = dropped \cup Elements(bundle)
    BY <1>6 DEF SendsOrDrops
  <2> DEFINE S == Cleared(BundleStages, {h})
  <2>2. AllRising(S) /\ Clears(S, BundleStages, {h})
    <3>1. h \in Nat /\ {h} \in SUBSET (1..h)
      BY BundleFacts
    <3> QED BY <3>1, BundleFacts, StagesCleared
  <2>3. UNION {Elements(BundleStages[m]) : m \in {h}} = Elements(bundle)
    BY BundleFacts
  <2>4. AllElements(S) = (1..Added') \ dropped'
    BY <1>1, <2>1, <2>2, <2>3, BundleFacts DEF Clears
  <2>5. Elements(bundle) \subseteq 1..Added
    BY BundleFacts, InStages
  <2>6. BundleTypeOK'
    BY <1>1, <1>2, <2>1, <2>5 DEF BundleInv, BundleTypeOK
  <2>7. BundleHeld'
    BY <1>2, <1>3, <2>1 DEF BundleInv, BundleHeld
  <2>8. S = Pile(Datas(bgot'), Rest', bwire', bundle')
    <3>1. S = Pile(g, Rest, bwire, << >>)
      BY BundleFacts, PileCleared
    <3> QED BY <1>2, <1>3, <2>1, <3>1
  <2> HIDE DEF S
  <2> QED BY <1>4, <2>2, <2>4, <2>6, <2>7, <2>8, BundleInvFrom
<1> QED BY <1>5, <1>6
LEMMA ReceiveBundleKeeps == BundleInv /\ receive_bundle_fragment_ => BundleInv'
<1> SUFFICES ASSUME BundleInv, receive_bundle_fragment_ PROVE BundleInv'
  OBVIOUS
<1> DEFINE g == Datas(bgot)
           w == Tail(bwire)
           b == Head(bwire)
           k == PileHeight(bwire) - 1
           S == Pile(g, b, w, bundle)
<1>1. /\ bwire # << >> /\ brcv.bundle = << >> /\ bwire' = w
      /\ brcv' = [brcv EXCEPT !.bundle = b, !.index = 0]
      /\ UNCHANGED <<bundle, bsnd, holder, dropped, bgot>>
  BY DEF receive_bundle_fragment_, senderVars
<1>2. /\ bwire \in Seq(Seq(Nat)) /\ bundle \in Seq(Nat) /\ g \in Seq(Nat) /\ PileHeight(bwire) \in Nat
  BY BundleFacts
<1>3. /\ w \in Seq(Seq(Nat)) /\ b \in Seq(Nat) /\ b = bwire[1] /\ 1 \in DOMAIN bwire /\ Len(bwire) \in Nat \ {0}
      /\ \A i \in DOMAIN w : w[i] = bwire[i + 1] /\ i + 1 \in DOMAIN bwire
  BY <1>1, <1>2
<1>4. b # << >> /\ \A i \in DOMAIN w : w[i] # << >>
  BY <1>3 DEF BundleInv, BundleHeld
<1>5. Len(b) \in Nat \ {0}
  <2> HIDE DEF b
  <2> QED BY <1>3, <1>4
<1> HIDE DEF w, b
<1>6. /\ brcv'.bundle = b /\ brcv'.index = 0 /\ brcv'.header = 0
      /\ brcv' = [bundle |-> brcv'.bundle, index |-> brcv'.index, header |-> brcv'.header]
  BY <1>1 DEF BundleInv, BundleTypeOK, BundleHeld
<1>7. Rest = << >> /\ Rest' = b
  <2>1. Rest = << >>
    BY <1>1, RestFacts DEF BundleInv, BundleTypeOK, Rest
  <2>2. SubSeq(b, 0 + 1, Len(b)) = b
    BY <1>3, RestFacts
  <2> QED BY <1>6, <2>1, <2>2 DEF Rest
<1>8. BundleTypeOK'
  BY <1>1, <1>3, <1>6 DEF BundleInv, BundleTypeOK, Added
<1>9. BundleHeld'
  BY <1>1, <1>4, <1>5, <1>6 DEF BundleInv, BundleHeld
<1>10. S = Without(BundleStages, k, 2)
  <2>1. Pile(g, Head(bwire), Tail(bwire), bundle) = Without(Pile(g, << >>, bwire, bundle), k, 2)
    BY <1>1, <1>2, PilePulled
  <2> QED BY <1>7, <2>1, BundleFacts DEF w, b
<1>11. k \in Nat /\ k + 1 = PileHeight(bwire) /\ 2 \in 1..k + 1
  BY <1>3 DEF PileHeight
<1>12. BundleStages[2] = << >> /\ BundleStages \in [1..k + 1 -> Seq(Nat)]
  BY <1>7, <1>11, BundleFacts
<1>13. Elements(BundleStages[2]) = {} /\ Rising(BundleStages[2])
  BY <1>12 DEF Elements, Rising
<1> HIDE DEF k, S
<1>14. /\ AllRising(BundleStages) <=> AllRising(Without(BundleStages, k, 2))
       /\ AllElements(Without(BundleStages, k, 2)) = AllElements(BundleStages)
  BY <1>11, <1>12, <1>13, EmptyStage
<1>15. AllRising(S) /\ AllElements(S) = (1..Added') \ dropped'
  BY <1>1, <1>10, <1>14, BundleFacts DEF Added
<1>16. S = Pile(Datas(bgot'), Rest', bwire', bundle')
  BY <1>1, <1>7 DEF S
<1>17. \A i \in DOMAIN bgot' : bgot'[i].header = bgot'[i].data
  BY <1>1 DEF BundleInv, BundleInOrder
<1> QED BY <1>8, <1>9, <1>15, <1>16, <1>17, BundleInvFrom

LEMMA HeaderKeeps == BundleInv /\ ReceiveBundledHeader => BundleInv'
<1> SUFFICES ASSUME BundleInv, ReceiveBundledHeader PROVE BundleInv'
  OBVIOUS
<1>1. /\ brcv.bundle # << >> /\ brcv' = [brcv EXCEPT !.header = Block]
      /\ UNCHANGED <<bundle, bsnd, holder, dropped, bwire, bgot>>
  BY DEF ReceiveBundledHeader, senderVars
<1>2. /\ brcv'.bundle = brcv.bundle /\ brcv'.index = brcv.index /\ brcv'.header = Block
      /\ brcv' = [bundle |-> brcv'.bundle, index |-> brcv'.index, header |-> brcv'.header]
  BY <1>1 DEF BundleInv, BundleTypeOK
<1>3. Block \in Nat
  <2>1. brcv.bundle \in Seq(Nat) /\ brcv.index \in Nat
    BY DEF BundleInv, BundleTypeOK
  <2>2. brcv.index < Len(brcv.bundle) => brcv.bundle[brcv.index + 1] \in Nat
    BY <2>1, RestFacts
  <2> QED BY <2>2 DEF Block
<1>4. BundleStages' = BundleStages /\ Block' = Block /\ Added' = Added
  BY <1>1, <1>2 DEF BundleStages, Rest, Block, Added
<1>5. BundleTypeOK'
  BY <1>1, <1>2, <1>3 DEF BundleInv, BundleTypeOK, Added
<1>6. BundleHeld'
  BY <1>1, <1>2, <1>4 DEF BundleInv, BundleHeld
<1>7. BundleInOrder'
  BY <1>1, <1>4 DEF BundleInv, BundleInOrder
<1> QED BY <1>5, <1>6, <1>7 DEF BundleInv

\* A Fragment goes from the second stage to the first.
LEMMA FirstMoved ==
  ASSUME NEW n \in Nat, NEW S \in [1..n -> Seq(Nat)], 1 \in 1..n, 2 \in 1..n, AllRising(S), S[2] # << >>
  PROVE  AllRising(Moved(S, 2, 1)) /\ AllElements(Moved(S, 2, 1)) = AllElements(S)
<1>1. PICK k \in 1..n, l \in 1..n : k = 2 /\ l = 1
  OBVIOUS
<1>2. EmptyBetween(S, l, k) /\ S[k] # << >> /\ l < k
  BY <1>1 DEF EmptyBetween
<1>3. AllRising(Moved(S, k, l)) /\ AllElements(Moved(S, k, l)) = AllElements(S)
  BY <1>2, StageMoved, ZenonT(60)
<1> QED BY <1>1, <1>3

\* A Fragment is taken out of a bundle.
LEMMA TakenKeeps ==
  ASSUME BundleInv, brcv.bundle # << >>, brcv' = Next_, UNCHANGED <<senderVars, bwire>>,
         bgot' = Append(bgot, [header |-> Block, data |-> Block])
  PROVE  BundleInv'
<1> DEFINE g == Datas(bgot)
           s == brcv.bundle
           i == brcv.index
           x == s[i + 1]
           S == Moved(BundleStages, 2, 1)
<1>1. s \in Seq(Nat) /\ i \in Nat /\ i < Len(s) /\ Len(s) \in Nat
  BY DEF BundleInv, BundleTypeOK, BundleHeld
<1>2. Block = x
  BY <1>1 DEF Block
<1>3. x \in Nat /\ Rest # << >> /\ Head(Rest) = x /\ Tail(Rest) = SubSeq(s, i + 2, Len(s))
  BY <1>1, RestFacts DEF Rest
<1>4. UNCHANGED <<bundle, bsnd, holder, dropped, bwire>> /\ Added' = Added
  BY DEF senderVars, Added
<1>5. /\ brcv'.index = i + 1 /\ brcv'.header = 0
      /\ brcv'.bundle = IF i + 1 >= Len(s) THEN << >> ELSE s
      /\ brcv' = [bundle |-> brcv'.bundle, index |-> brcv'.index, header |-> brcv'.header]
  BY DEF BundleInv, BundleTypeOK, Next_
<1>6. Rest' = Tail(Rest)
  <2>1. Rest' = SubSeq(brcv'.bundle, i + 2, Len(brcv'.bundle))
    <3>1. Rest' = SubSeq(brcv'.bundle, (i + 1) + 1, Len(brcv'.bundle))
      BY <1>5 DEF Rest
    <3>2. (i + 1) + 1 = i + 2
      BY <1>1
    <3> HIDE DEF i
    <3> QED BY <3>1, <3>2
  <2>2. CASE i + 1 >= Len(s)
    <3> DEFINE j == i + 1
               e == << >>
    <3>1. j \in Nat /\ Len(s) <= j /\ j + 1 = i + 2 /\ e \in Seq(Nat) /\ Len(e) <= j
      BY <1>1, <2>2
    <3>2. brcv'.bundle = e
      BY <1>5, <2>2
    <3> HIDE DEF j, e, s, i
    <3>3. SubSeq(s, j + 1, Len(s)) = << >> /\ SubSeq(e, j + 1, Len(e)) = << >>
      BY <1>1, <3>1, RestFacts
    <3> QED BY <1>3, <2>1, <3>1, <3>2, <3>3
  <2>3. CASE ~(i + 1 >= Len(s))
    BY <1>3, <1>5, <2>1, <2>3
  <2> QED BY <2>2, <2>3
<1>7. /\ bgot' \in Seq(Bundled) /\ Datas(bgot') = Append(g, x)
      /\ \A j \in DOMAIN bgot' : bgot'[j].header = bgot'[j].data
  <2> DEFINE y == [header |-> x, data |-> x]
             L == Len(bgot)
  <2>1. bgot \in Seq(Bundled) /\ L \in Nat
    BY DEF BundleInv, BundleTypeOK
  <2>2. y \in Bundled /\ y.header = x /\ y.data = x
    BY <1>3 DEF Bundled
  <2>3. bgot' = Append(bgot, y)
    BY <1>2
  <2> HIDE DEF y, x
  <2>4. /\ bgot' \in Seq(Bundled) /\ DOMAIN bgot' = 1..L + 1 /\ DOMAIN bgot = 1..L
        /\ bgot'[L + 1] = y /\ \A j \in 1..L : bgot'[j] = bgot[j]
    BY <2>1, <2>2, <2>3
  <2>5. \A j \in 1..L : bgot[j].header = bgot[j].data
    BY <2>4 DEF BundleInv, BundleInOrder
  <2>6. g \in Seq(Nat) /\ Len(g) = L /\ \A j \in 1..L : g[j] = bgot[j].data
    <3>1. g \in Seq(Nat)
      BY BundleFacts
    <3>2. DOMAIN g = 1..L /\ \A j \in 1..L : g[j] = bgot[j].data
      BY <2>4 DEF Datas
    <3> HIDE DEF g
    <3> QED BY <2>1, <3>1, <3>2
  <2> HIDE DEF g, L
  <2>7. \A j \in 1..L + 1 : j \in 1..L \/ j = L + 1
    BY <2>1
  <2>8. Append(g, x) = [j \in 1..L + 1 |-> bgot'[j].data]
    <3>1. /\ DOMAIN Append(g, x) = 1..L + 1 /\ Append(g, x)[L + 1] = x
          /\ \A j \in 1..L : Append(g, x)[j] = g[j]
      BY <1>3, <2>1, <2>6
    <3>2. Append(g, x) \in Seq(Nat)
      BY <1>3, <2>6
    <3> DEFINE a == Append(g, x)
    <3>3. /\ DOMAIN a = 1..L + 1 /\ a[L + 1] = x
          /\ (\A j \in 1..L : a[j] = g[j]) /\ a \in Seq(Nat)
      BY <3>1, <3>2
    <3> HIDE DEF a
    <3>4. \A j \in 1..L + 1 : a[j] = bgot'[j].data
      BY <2>2, <2>4, <2>6, <2>7, <3>3
    <3>5. a = [j \in 1..L + 1 |-> a[j]]
      BY <3>3
    <3>6. a = [j \in 1..L + 1 |-> bgot'[j].data]
      BY <3>4, <3>5
    <3> QED BY <3>6 DEF a
  <2>9. \A j \in DOMAIN bgot' : bgot'[j].header = bgot'[j].data
    BY <2>2, <2>4, <2>5, <2>7
  <2> QED BY <2>4, <2>8, <2>9 DEF Datas
<1>8. BundleTypeOK'
  <2>1. brcv'.bundle \in Seq(Nat) /\ brcv'.index \in Nat /\ brcv'.header \in Nat
    <3>1. << >> \in Seq(Nat)
      OBVIOUS
    <3> QED BY <1>1, <1>5, <3>1
  <2> QED BY <1>4, <1>5, <1>7, <2>1 DEF BundleInv, BundleTypeOK
<1>9. BundleHeld'
  BY <1>1, <1>4, <1>5 DEF BundleInv, BundleHeld
<1>10. AllRising(S) /\ AllElements(S) = AllElements(BundleStages)
  <2>1. PICK n \in Nat : /\ BundleStages \in [1..n -> Seq(Nat)] /\ AllRising(BundleStages)
                         /\ 1 \in 1..n /\ 2 \in 1..n
    BY BundleFacts
  <2>2. BundleStages[2] # << >>
    BY <1>3, BundleFacts
  <2> QED BY <2>1, <2>2, FirstMoved
<1>11. S = Pile(Datas(bgot'), Rest', bwire', bundle')
  <2>1. S = Pile(Append(g, Head(Rest)), Tail(Rest), bwire, bundle)
    BY <1>3, BundleFacts, PileMoved
  <2> HIDE DEF S
  <2> QED BY <1>3, <1>4, <1>6, <1>7, <2>1
<1>12. AllRising(S) /\ AllElements(S) = (1..Added') \ dropped'
  BY <1>4, <1>10, BundleFacts
<1> HIDE DEF S
<1> QED BY <1>7, <1>8, <1>9, <1>11, <1>12, BundleInvFrom

LEMMA BundledKeeps == BundleInv /\ (ReceiveBundledData \/ ReceiveBundled) => BundleInv'
<1>1. ASSUME BundleInv, ReceiveBundledData PROVE BundleInv'
  <2>1. brcv.header = Block
    BY <1>1 DEF BundleInv, BundleHeld, ReceiveBundledData
  <2> QED BY <1>1, <2>1, TakenKeeps DEF ReceiveBundledData
<1>2. ASSUME BundleInv, ReceiveBundled PROVE BundleInv'
  BY <1>2, TakenKeeps DEF ReceiveBundled
<1> QED BY <1>1, <1>2

\* Where a call of send_bundle_fragment_ leaves the sender.
LEMMA Returned ==
  ASSUME BundleInv, NEW who \in {"sender", "timeout", "destructor"}, Returns(who)
  PROVE  \E pc \in {"idle", "gone", bsnd.pc} : bsnd' = [bsnd EXCEPT !.pc = pc]
<1>1. bsnd = [bsnd EXCEPT !.pc = bsnd.pc]
  BY DEF BundleInv, BundleTypeOK
<1> QED BY <1>1 DEF Returns

LEMMA BundleInvInit == BundleInit => BundleInv
<1> SUFFICES ASSUME BundleInit PROVE BundleInv
  OBVIOUS
<1> DEFINE e == << >>
           S == Pile(e, e, e, e)
<1>1. e \in Seq(Nat) /\ e \in Seq(Seq(Nat)) /\ e \in Seq(Bundled) /\ DOMAIN e = {} /\ Len(e) = 0
  OBVIOUS
<1>2. BundleTypeOK
  BY DEF BundleTypeOK, BundleInit, Added
<1>3. BundleHeld
  BY DEF BundleHeld, BundleInit
<1>4. Rest = e
  BY <1>1, RestFacts DEF Rest, BundleInit
<1>5. Datas(bgot) = e
  BY DEF Datas, BundleInit
<1>6. IsPile(S, e, e, e, e) /\ PileHeight(e) = 3
  <2> HIDE DEF e
  <2>1. IsPile(S, e, e, e, e)
    BY <1>1, PileIs
  <2>2. PileHeight(e) = 3
    BY <1>1 DEF PileHeight
  <2> QED BY <2>1, <2>2
<1>7. DOMAIN S = 1..3 /\ \A k \in 1..3 : S[k] = << >>
  <2>1. \A k \in 1..3 : k = 1 \/ k = 2 \/ k = 3
    OBVIOUS
  <2> HIDE DEF S
  <2> QED BY <1>6, <2>1 DEF IsPile
<1>8. BundleStages = S
  BY <1>4, <1>5 DEF BundleStages, Pile, Datas, BundleInit
<1> HIDE DEF S
<1>9. \A k \in 1..3 : Elements(S[k]) = {} /\ Rising(S[k])
  <2>1. Elements(<< >>) = {} /\ Rising(<< >>)
    BY DEF Elements, Rising
  <2> QED BY <1>7, <2>1
<1>10. AllRising(S)
  BY <1>7, <1>9 DEF AllRising
<1>11. AllElements(S) = {}
  BY <1>7, <1>9, InStages
<1>12. (1..Added) \ dropped = {}
  BY DEF BundleInit, Added
<1>13. \A i \in DOMAIN bgot : bgot[i].header = bgot[i].data
  BY DEF BundleInit
<1> QED BY <1>2, <1>3, <1>8, <1>10, <1>11, <1>12, <1>13 DEF BundleInv, BundleInOrder

LEMMA BundleInvNext == BundleInv /\ BundleNext => BundleInv'
<1> SUFFICES ASSUME BundleInv, BundleNext PROVE BundleInv'
  OBVIOUS
<1>0. holder # "nobody" => bundle # << >>
  BY DEF BundleInv, BundleHeld
<1>1. CASE transfer_fragment
  BY <1>0, <1>1, QuietKeeps DEF transfer_fragment, receiverVars
<1>2. CASE addFragment
  BY <1>2, AddFragmentKeeps
<1>3. CASE Destroy
  BY <1>0, <1>3, QuietKeeps DEF Destroy, receiverVars
<1>4. CASE send_timeout_thread_ends
  <2>1. bsnd' = [bsnd EXCEPT !.pc = bsnd.pc]
    BY <1>4 DEF send_timeout_thread_ends, BundleInv, BundleTypeOK
  <2> QED BY <1>0, <1>4, <2>1, QuietKeeps DEF send_timeout_thread_ends, receiverVars
<1>5. ASSUME NEW who \in {"sender", "timeout", "destructor"}, NoBundle(who) \/ NotDue(who)
      PROVE  BundleInv'
  <2>1. Keeps /\ Returns(who)
    BY <1>5 DEF NoBundle, NotDue
  <2>2. PICK pc \in {"idle", "gone", bsnd.pc} : bsnd' = [bsnd EXCEPT !.pc = pc]
    BY <2>1, Returned
  <2> QED BY <1>0, <2>1, <2>2, QuietKeeps DEF Keeps, receiverVars
<1>6. ASSUME NEW who \in {"sender", "timeout", "destructor"}, SendReliable(who)
      PROVE  BundleInv'
  <2>1. PICK pc \in {"idle", "gone", bsnd.pc} : bsnd' = [bsnd EXCEPT !.pc = pc]
    BY <1>6, Returned DEF SendReliable
  <2>2. PICK ok \in BOOLEAN : SendsOrDrops(ok)
    BY <1>6 DEF SendReliable
  <2>3. bundle # << >> /\ UNCHANGED <<brcv, bgot>> /\ holder' = "nobody"
    BY <1>6 DEF SendReliable, receiverVars
  <2> QED BY <2>1, <2>2, <2>3, SendsOrDropsKeeps
<1>7. ASSUME NEW who \in {"sender", "timeout", "destructor"}, BeginMinBlocking(who)
      PROVE  BundleInv'
  <2>1. bsnd' = [bsnd EXCEPT !.pc = bsnd.pc]
    BY <1>7 DEF BeginMinBlocking, BundleInv, BundleTypeOK
  <2> QED BY <1>7, <2>1, QuietKeeps DEF BeginMinBlocking, receiverVars
<1>8. ASSUME NEW who \in {"sender", "timeout", "destructor"}, EndMinBlocking(who)
      PROVE  BundleInv'
  <2>1. PICK pc \in {"idle", "gone", bsnd.pc} : bsnd' = [bsnd EXCEPT !.pc = pc]
    BY <1>8, Returned DEF EndMinBlocking
  <2>2. bundle # << >> /\ UNCHANGED <<brcv, bgot>> /\ holder' = "nobody"
    BY <1>0, <1>8 DEF EndMinBlocking, receiverVars
  <2>3. SendsOrDrops(tmo.running)
    BY <1>8 DEF EndMinBlocking
  <2>4. PICK ok \in BOOLEAN : SendsOrDrops(ok)
    <3>1. CASE tmo.running
      <4>1. SendsOrDrops(TRUE)
        BY <2>3, <3>1 DEF SendsOrDrops
      <4> QED BY <4>1
    <3>2. CASE ~tmo.running
      <4>1. SendsOrDrops(FALSE)
        BY <2>3, <3>2 DEF SendsOrDrops
      <4> QED BY <4>1
    <3> QED BY <3>1, <3>2
  <2> QED BY <2>1, <2>2, <2>4, SendsOrDropsKeeps
<1>9. CASE receive_bundle_fragment_
  BY <1>9, ReceiveBundleKeeps
<1>10. CASE ReceiveBundledHeader
  BY <1>10, HeaderKeeps
<1>11. CASE ReceiveBundledData \/ ReceiveBundled
  BY <1>11, BundledKeeps
<1> QED BY <1>1, <1>2, <1>3, <1>4, <1>5, <1>6, <1>7, <1>8, <1>9, <1>10, <1>11 DEF BundleNext

(***************************************************************************)
(* The plugins together.  They share no state: a step of one leaves the    *)
(* invariants of the others as they are.                                   *)
(***************************************************************************)

TransfersInv == SendInv /\ TCPInv /\ MulticastInv /\ BundleInv /\ ShmemInv

LEMMA SendInvStays == SendInv /\ UNCHANGED sendVars => SendInv'
BY DEF sendVars, SendInv, Buffers, Indices, Sending, Offset, Start, Total, Piece, AtMostOf, Iov, PayloadAt, ByteAt

LEMMA TCPInvStays == TCPInv /\ UNCHANGED tcpVars => TCPInv'
<1> SUFFICES ASSUME TCPInv, UNCHANGED tcpVars PROVE TCPInv'
  OBVIOUS
<1>1. /\ snd' = snd /\ conns' = conns /\ rcv' = rcv /\ rlife' = rlife /\ got' = got /\ lost' = lost
  BY DEF tcpVars
<1>2. TCPTypeOK' /\ OwnDescriptors' /\ FragmentsWhole'
  BY <1>1 DEF TCPInv, TCPTypeOK, OwnDescriptors, Connected, FragmentsWhole
<1>3. WiresGood(Wires, snd.frag, Taken(got, rcv))'
  BY <1>1 DEF TCPInv, Wires
<1>4. DataDue' /\ BodyHeld' /\ StepsHeld'
  BY <1>1 DEF TCPInv, DataDue, BodyHeld, StepsHeld
<1> QED BY <1>2, <1>3, <1>4 DEF TCPInv

LEMMA MulticastInvStays == MulticastInv /\ UNCHANGED mcVars => MulticastInv'
BY MulticastInvNext

LEMMA BundleInvStays == BundleInv /\ UNCHANGED bundleVars => BundleInv'
<1> SUFFICES ASSUME BundleInv, UNCHANGED bundleVars PROVE BundleInv'
  OBVIOUS
<1>1. /\ bundle' = bundle /\ bsnd' = bsnd /\ holder' = holder /\ bwire' = bwire /\ brcv' = brcv
      /\ bgot' = bgot /\ dropped' = dropped
  BY DEF bundleVars
<1>2. BundleTypeOK' /\ BundleHeld'
  BY <1>1 DEF BundleInv, BundleTypeOK, BundleHeld, Added, Block
<1>3. BundleStages' = BundleStages /\ Added' = Added
  BY <1>1 DEF BundleStages, Rest, Added
<1> QED BY <1>1, <1>2, <1>3 DEF BundleInv, BundleInOrder

LEMMA ShmemInvStays == ShmemInv /\ UNCHANGED shmemVars => ShmemInv'
BY ShmemInvNext

LEMMA TransfersInvNext ==
  TransfersInv /\ [TransfersNext /\ UNCHANGED part]_<<part, pluginVars>> => TransfersInv'
<1> SUFFICES ASSUME TransfersInv, [TransfersNext /\ UNCHANGED part]_<<part, pluginVars>> PROVE TransfersInv'
  OBVIOUS
<1>1. CASE part = "sendData_" /\ SendMsg /\ UNCHANGED <<tcpVars, mcVars, bundleVars, shmemVars>>
  BY <1>1, SendMsgKeeps, TCPInvStays, MulticastInvStays, BundleInvStays, ShmemInvStays DEF TransfersInv
<1>2. CASE part = "TCPSocket" /\ TCPNext /\ UNCHANGED <<sendVars, mcVars, bundleVars, shmemVars>>
  BY <1>2, SendInvStays, TCPInvNext, MulticastInvStays, BundleInvStays, ShmemInvStays DEF TransfersInv
<1>3. CASE part = "Multicast" /\ MulticastNext /\ UNCHANGED <<sendVars, tcpVars, bundleVars, shmemVars>>
  BY <1>3, SendInvStays, TCPInvStays, MulticastInvNext, BundleInvStays, ShmemInvStays DEF TransfersInv
<1>4. CASE part = "Bundle" /\ BundleNext /\ UNCHANGED <<sendVars, tcpVars, mcVars, shmemVars>>
  BY <1>4, SendInvStays, TCPInvStays, MulticastInvStays, BundleInvNext, ShmemInvStays DEF TransfersInv
<1>5. CASE part = "Shmem" /\ ShmemNext /\ UNCHANGED <<sendVars, tcpVars, mcVars, bundleVars>>
  BY <1>5, SendInvStays, TCPInvStays, MulticastInvStays, BundleInvStays, ShmemInvNext DEF TransfersInv
<1>6. CASE UNCHANGED <<part, pluginVars>>
  BY <1>6, SendInvStays, TCPInvStays, MulticastInvStays, BundleInvStays, ShmemInvStays DEF TransfersInv, pluginVars
<1> QED BY <1>1, <1>2, <1>3, <1>4, <1>5, <1>6 DEF TransfersNext

\* Whatever the Fragments, the buffers, the connections, the failures and the order of the
\* steps: a receiver of the TCP plugin is handed no Fragment twice, and none with the data of
\* another; one of the multicast plugin, none with parts of several, unless the network repeats
\* datagrams; the bundles and the shared memory hand over what they were given once, in order,
\* but for what was dropped, overwritten or flushed; and what sendData_ has written is the
\* message up to there, with more to write while there is more of it.
THEOREM AlwaysFragmentsIntact == TransfersSpec => []FragmentsIntact
<1>1. TransfersInit => TransfersInv
  BY SendInvInit, TCPInvInit, MulticastInvInit, BundleInvInit, ShmemInvInit DEF TransfersInit, TransfersInv
<1>2. TransfersInv => FragmentsIntact
  BY SendInvExact DEF TransfersInv, TCPInv, MulticastInv, BundleInv, ShmemInv, FragmentsIntact
<1> QED BY <1>1, <1>2, TransfersInvNext, PTL DEF TransfersSpec
===============================================================================
