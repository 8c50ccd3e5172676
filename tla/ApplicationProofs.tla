--------------------------- MODULE ApplicationProofs ---------------------------
(***************************************************************************)
(* What the state machine says of an application is so, for any number of  *)
(* generations of threads, of monitors and of art processes.               *)
(***************************************************************************)
EXTENDS Dispatcher, SequenceTheorems, WellFoundedInduction, TLAPS

Pcs == {"idle", "asked", "do", "wait", "begun", "mutex", "join", "filters"}
Ops == {"none", "initialize", "reinitialize", "soft_initialize", "start", "stop", "pause", "resume",
        "shutdown"}

\* No command has the state machine in hand.
NoCommand == ctl.pc \in {"idle", "asked", "filters"}

Commands == [cmd : Transitions \cup {"none", "auto_run", "register_monitor"}, pc : Pcs,
             edge : [op : Ops, during : Stacks, ok : Stacks, no : Stacks]]
Cores == [made : BOOLEAN, parts : BOOLEAN, fresh : BOOLEAN, running : BOOLEAN,
          should_stop : BOOLEAN, exception : BOOLEAN, bufStop : BOOLEAN]

ThreadStates == {"none", "starting", "waiting", "looping", "reading", "failing"}

\* Only the threads of its kind live in a process.
Owned == \A g \in Gens, w \in Workers : Live(thr[<<g, w>>]) => Owns(w)

Types ==
  /\ kind \in Kinds /\ auto \in BOOLEAN /\ stack \in Stacks /\ primary \in {"free", "cmd"}
  /\ ctl \in Commands
  /\ reply \in [cmd : Transitions \cup {"none", "auto_run"}, res : {"ok", "no", "throw", "refused"}]
  /\ core \in Cores
  /\ thr \in [Gens \X Workers -> ThreadStates] /\ Owned
  /\ handle \in 0 .. MaxGen /\ active \subseteq Workers
  /\ alive \in {"up", "terminated"} \cup Faults
  /\ hist \in [irregular : BOOLEAN, quiet : BOOLEAN]

-------------------------------------------------------------------------------
(* The command in hand *)

\* The edges a command may take.
EdgesOf(c) ==
  CASE c = "init"      -> {Edge("initialize", Booted, Ready, Booted),
                           Edge("initialize", MainInit, Ready, Booted)}
    [] c = "reinit"    -> {Edge("initialize", Booted, Ready, Booted),
                           Edge("initialize", MainInit, Ready, Booted),
                           Edge("reinitialize", Ready, Ready, Ready)}
    [] c = "soft_init" -> {Edge("soft_initialize", Ready, Ready, Ready)}
    [] c = "start"     -> {Edge("start", Ready, Running, Ready)}
    [] c = "stop"      -> {Edge("stop", InRun, Ready, InRun)}
    [] c = "pause"     -> {Edge("pause", Running, Paused, Running),
                           Edge("pause", InRunError, Paused, InRunError)}
    [] c = "resume"    -> {Edge("resume", Paused, Running, Paused)}
    [] c = "shutdown"  -> {Edge("none", Booted, Booted, Booted),
                           Edge("shutdown", MainInit, Booted, MainInit)}
    [] c = "auto_run"  -> {Edge("initialize", Booted, Booted, Booted),
                           Edge("start", Booted, Booted, Booted)}
    [] OTHER           -> {}

\* A command takes one of its edges, waits at the steps of its operation, and holds the
\* primary mutex until it is done.
CommandShape ==
  /\ ~NoCommand => ctl.edge \in EdgesOf(ctl.cmd) /\ stack = ctl.edge.during
  /\ ctl.pc = "asked" => ctl.cmd \in Transitions
  /\ ctl.pc \in {"wait", "begun"} => ctl.edge.op \in {"start", "resume"}
  /\ ctl.pc = "mutex" => ctl.edge.op \in {"stop", "pause"}
  /\ ctl.pc = "join" => ctl.edge.op \in {"stop", "pause", "shutdown"}
  /\ ctl.pc \in {"wait", "begun", "mutex", "join"} => kind = "BoardReader"
  /\ ctl.pc = "filters" => kind = "Dispatcher"
  /\ primary = "cmd" <=> ~NoCommand /\ ctl.cmd # "auto_run"
  /\ ~NoCommand /\ ctl.cmd = "auto_run" => hist.irregular
  /\ auto => hist.irregular

\* There is a generation left for a start that was let in.
GenLeft == ctl.pc \in {"asked", "do"} /\ ctl.cmd \in {"start", "resume", "auto_run"} => FreeGens # {}

\* A core that is fresh has its parts until it is shut down.
FreshHasParts ==
  alive = "up" => core.parts \/ ~core.fresh \/ (ctl.pc = "join" /\ ctl.edge.op = "shutdown")

ReplyFresh ==
  ctl.pc = "idle" /\ stack = Ready /\ reply = [cmd |-> "init", res |-> "ok"]
    => core.fresh \/ kind = "EventBuilder"

BufferTold == core.bufStop => ~core.running

-------------------------------------------------------------------------------
(* A process that has been regular so far *)

Up(g, w) == thr[<<g, w>>] \in {"waiting", "looping", "reading"}

\* The application has hold of its threads, and knows which are active.
Handled ==
  /\ \A g \in Gens, w \in Workers : Live(thr[<<g, w>>]) => g = handle
  /\ active = {w \in Workers : kind = "BoardReader" /\ \E g \in Gens : Up(g, w)}

\* The operations that find no thread and leave none but their own.
OutOfRun ==
  \/ NoCommand /\ stack \in {Booted, MainInit, Ready, Paused}
  \/ ctl.pc = "do" /\ ctl.edge.op \notin {"stop", "pause"}
  \/ ctl.pc = "join" /\ ctl.edge.op = "shutdown"

NoThreadOutOfRun == OutOfRun => LiveThreads = {}

\* running_ is set from the middle of a start to the middle of a stop.
NotRunning ==
  \/ kind # "BoardReader"
  \/ NoCommand /\ stack \in {Booted, MainInit, Ready}
  \/ ctl.pc = "do" /\ ctl.edge.op \notin {"stop", "pause", "resume"}
  \/ ctl.pc = "wait" /\ ctl.edge.op = "start"
  \/ ctl.pc = "join" /\ ctl.edge.op \in {"stop", "shutdown"}

RunningFlag == NotRunning => ~core.running

\* A thread of a board reader loops only while running_ is set, or a stop waits for it.
LoopsRunning ==
  kind = "BoardReader" =>
    \A g \in Gens, w \in Workers :
       thr[<<g, w>>] \in {"looping", "reading", "failing"} =>
          core.running \/ (ctl.pc = "join" /\ ctl.edge.op = "stop")

\* A thread that has failed is heard in Running, or a command waits for it or gives it up.
FailureHeard ==
  /\ \A g \in Gens : thr[<<g, "output">>] = "failing" => ctl.pc = "join"
  /\ \A g \in Gens : thr[<<g, "input">>] = "failing" /\ NoCommand => stack = Running
  /\ NoCommand /\ stack = InRunError => \A g \in Gens : thr[<<g, "input">>] = "none"

\* Running has both threads, and nothing has told them to stop.
BothRun ==
  kind = "BoardReader" /\ (ctl.pc = "begun" \/ (NoCommand /\ stack = Running)) =>
    /\ ~core.should_stop
    /\ ~hist.quiet => \A w \in {"input", "output"} : \E g \in Gens : Live(thr[<<g, w>>])

Regular ==
  /\ Handled /\ NoThreadOutOfRun /\ RunningFlag /\ LoopsRunning /\ FailureHeard /\ BothRun
  /\ NoCommand => stack # InRun

AppInv ==
  /\ Types /\ CommandShape /\ GenLeft /\ FreshHasParts /\ ReplyFresh /\ BufferTold /\ CrashExplained
  /\ ~hist.irregular => Regular
-------------------------------------------------------------------------------
\* A set of numbers that is not empty has a least element.
LEMMA LeastNumber ==
  ASSUME NEW S \in SUBSET Nat, S # {}
  PROVE  \E x \in S : \A y \in S : x <= y
<1> DEFINE R == OpToRel(<, Nat)
<1>1. IsWellFoundedOn(R, Nat)
  BY NatLessThanWellFounded
<1>2. PICK x \in S : \A y \in S : <<y, x>> \notin R
  <2> HIDE DEF R
  <2> QED BY <1>1, WFMin
<1>3. \A y \in S : x <= y
  <2> TAKE y \in S
  <2>1. <<y, x>> \in Nat \X Nat /\ <<y, x>> \notin R
    BY <1>2
  <2>2. ~ (y < x)
    BY <2>1 DEF OpToRel
  <2> QED BY <2>2
<1> QED BY <1>3

-------------------------------------------------------------------------------
(* The state machine *)

StateNames == {"Initialized", "Ready", "InRun", "Running", "Paused", "InRunError"}

\* A stack without its last state, and with one more.
LEMMA Shorter ==
  ASSUME NEW s \in Seq(StateNames), NEW t \in Seq(StateNames), NEW n \in Nat, Len(t) = n, Len(s) = n + 1,
         \A i \in 1 .. n : s[i] = t[i]
  PROVE  popState(s) = t
<1> DEFINE p == SubSeq(s, 1, Len(t))
<1>0. \A i \in 1 .. Len(t) : s[i] \in StateNames
  BY ElementOfSeq
<1>1. p \in Seq(StateNames)
  BY <1>0
<1>2. Len(p) = Len(t)
  BY <1>0
<1>3. \A i \in 1 .. Len(t) : p[i] = s[i]
  BY <1>0
<1>4. p = popState(s)
  <2>1. Len(s) - 1 = Len(t)
    OBVIOUS
  <2> QED BY <2>1 DEF popState
<1> HIDE DEF p
<1>5. \A i \in 1 .. Len(p) : p[i] = t[i]
  BY <1>2, <1>3
<1>6. p = t
  BY <1>1, <1>2, <1>5, SeqEqual
<1> QED BY <1>4, <1>6

LEMMA Longer ==
  ASSUME NEW s \in Seq(StateNames), NEW t \in Seq(StateNames), NEW n \in Nat, Len(s) = n, Len(t) = n + 1,
         \A i \in 1 .. n : s[i] = t[i]
  PROVE  pushState(s, t[n+1]) = t
<1> DEFINE p == Append(s, t[n+1])
<1>1. t[n+1] \in StateNames
  BY ElementOfSeq
<1>2. p \in Seq(StateNames) /\ Len(p) = Len(t)
  BY <1>1
<1>3. \A i \in 1 .. Len(s) : p[i] = s[i]
  BY <1>1, AppendProperties
<1>4. p[Len(t)] = t[n+1]
  BY <1>1
<1> HIDE DEF p
<1>5. \A i \in 1 .. Len(p) : p[i] = t[i]
  BY <1>2, <1>3, <1>4, LenProperties
<1>6. p = t
  BY <1>2, <1>5, SeqEqual
<1> QED BY <1>6 DEF p, pushState

LEMMA Pops ==
  /\ popState(Ready) = MainInit /\ popState(InRun) = MainInit
  /\ popState(Running) = InRun /\ popState(Paused) = InRun /\ popState(InRunError) = InRun
<1>1. /\ MainInit \in Seq(StateNames) /\ Ready \in Seq(StateNames) /\ InRun \in Seq(StateNames)
      /\ Running \in Seq(StateNames) /\ Paused \in Seq(StateNames) /\ InRunError \in Seq(StateNames)
  BY DEF MainInit, Ready, InRun, Running, Paused, InRunError, StateNames
<1>2. /\ 1 \in Nat /\ Len(MainInit) = 1 /\ Len(Ready) = 1 + 1 /\ Len(InRun) = 1 + 1
      /\ \A i \in 1 .. 1 : Ready[i] = MainInit[i]
      /\ \A i \in 1 .. 1 : InRun[i] = MainInit[i]
  BY DEF MainInit, Ready, InRun
<1>3. /\ 2 \in Nat /\ Len(InRun) = 2 /\ Len(Running) = 2 + 1 /\ Len(Paused) = 2 + 1
      /\ Len(InRunError) = 2 + 1
      /\ \A i \in 1 .. 2 : Running[i] = InRun[i]
      /\ \A i \in 1 .. 2 : Paused[i] = InRun[i]
      /\ \A i \in 1 .. 2 : InRunError[i] = InRun[i]
  BY DEF InRun, Running, Paused, InRunError
<1>4. popState(Ready) = MainInit
  BY ONLY <1>1, <1>2, Shorter
<1>5. popState(InRun) = MainInit
  BY ONLY <1>1, <1>2, Shorter
<1>6. popState(Running) = InRun
  BY ONLY <1>1, <1>3, Shorter
<1>7. popState(Paused) = InRun
  BY ONLY <1>1, <1>3, Shorter
<1>8. popState(InRunError) = InRun
  BY ONLY <1>1, <1>3, Shorter
<1> QED BY <1>4, <1>5, <1>6, <1>7, <1>8

LEMMA Pushes ==
  pushState(MainInit, "Ready") = Ready /\ pushState(InRun, "Running") = Running
<1>1. /\ MainInit \in Seq(StateNames) /\ Ready \in Seq(StateNames)
      /\ InRun \in Seq(StateNames) /\ Running \in Seq(StateNames)
  BY DEF MainInit, Ready, InRun, Running, StateNames
<1>2. /\ 1 \in Nat /\ Len(MainInit) = 1 /\ Len(Ready) = 1 + 1
      /\ \A i \in 1 .. 1 : MainInit[i] = Ready[i]
  BY DEF MainInit, Ready
<1>3. /\ 2 \in Nat /\ Len(InRun) = 2 /\ Len(Running) = 2 + 1
      /\ \A i \in 1 .. 2 : InRun[i] = Running[i]
  BY DEF InRun, Running
<1>4. pushState(MainInit, Ready[1 + 1]) = Ready
  BY ONLY <1>1, <1>2, Longer
<1>5. pushState(InRun, Running[2 + 1]) = Running
  BY ONLY <1>1, <1>3, Longer
<1>6. Ready[1 + 1] = "Ready" /\ Running[2 + 1] = "Running"
  BY DEF Ready, Running
<1> QED BY <1>4, <1>5, <1>6

LEMMA StateOf ==
  /\ getState(Booted) = "Booted" /\ getState(MainInit) = "Initialized" /\ getState(Ready) = "Ready"
  /\ getState(InRun) = "InRun" /\ getState(Running) = "Running" /\ getState(Paused) = "Paused"
  /\ getState(InRunError) = "InRunError"
BY DEF getState, Booted, MainInit, Ready, InRun, Running, Paused, InRunError

LEMMA StateSet ==
  /\ setState(Booted, "Booted") = Booted /\ setState(MainInit, "Booted") = Booted
  /\ setState(Booted, "Initialized") = MainInit /\ setState(MainInit, "Initialized") = MainInit
  /\ setState(Ready, "InRun") = InRun /\ setState(InRun, "Ready") = Ready
  /\ setState(Running, "Paused") = Paused /\ setState(InRunError, "Paused") = Paused
  /\ setState(Paused, "Running") = Running
BY DEF setState, Booted, MainInit, Ready, InRun, Running, Paused, InRunError

LEMMA StacksDiffer ==
  /\ Booted \notin {MainInit, Ready, InRun, Running, Paused, InRunError}
  /\ MainInit \notin {Ready, InRun, Running, Paused, InRunError}
  /\ Ready \notin {InRun, Running, Paused, InRunError}
  /\ InRun \notin {Running, Paused, InRunError}
  /\ Running \notin {Paused, InRunError}
  /\ Paused # InRunError
BY DEF Booted, MainInit, Ready, InRun, Running, Paused, InRunError

\* Every edge of the state machine is one of EdgesOf, and leads out of where its operation
\* belongs.
EdgeFrom(s, c, e) ==
  /\ e \in EdgesOf(c)
  /\ e.op \notin {"stop", "pause", "resume"} => s \in {Booted, MainInit, Ready}
  /\ e.op = "resume" => s = Paused

LEMMA EdgesFromBooted ==
  ASSUME NEW c \in Transitions, Accepts(Booted, c)
  PROVE  EdgeFrom(Booted, c, Transition(Booted, c))
<1>1. c \in {"init", "soft_init", "reinit", "start", "stop", "pause", "resume", "shutdown"}
  BY DEF Transitions
<1> QED BY <1>1, Pops, Pushes, StateOf, StateSet
     DEF EdgeFrom, EdgesOf, Accepts, Transition, Edge, ToReady, ToRunning, Main_Booted, Main_Default

LEMMA EdgesFromMainInit ==
  ASSUME NEW c \in Transitions, Accepts(MainInit, c)
  PROVE  EdgeFrom(MainInit, c, Transition(MainInit, c))
<1>1. c \in {"init", "soft_init", "reinit", "start", "stop", "pause", "resume", "shutdown"}
  BY DEF Transitions
<1> QED BY <1>1, Pops, Pushes, StateOf, StateSet
     DEF EdgeFrom, EdgesOf, Accepts, Transition, Edge, ToReady, ToRunning, Main_Initialized, Main_Default

LEMMA EdgesFromReady ==
  ASSUME NEW c \in Transitions, Accepts(Ready, c)
  PROVE  EdgeFrom(Ready, c, Transition(Ready, c))
<1>1. c \in {"init", "soft_init", "reinit", "start", "stop", "pause", "resume", "shutdown"}
  BY DEF Transitions
<1> QED BY <1>1, Pops, Pushes, StateOf, StateSet
     DEF EdgeFrom, EdgesOf, Accepts, Transition, Edge, ToReady, ToRunning, InitializedMap_Ready, Main_Initialized, Main_Default, InitializedMap_Default

LEMMA EdgesFromInRun ==
  ASSUME NEW c \in Transitions, Accepts(InRun, c)
  PROVE  EdgeFrom(InRun, c, Transition(InRun, c))
<1>1. c \in {"init", "soft_init", "reinit", "start", "stop", "pause", "resume", "shutdown"}
  BY DEF Transitions
<1> QED BY <1>1, Pops, Pushes, StateOf, StateSet
     DEF EdgeFrom, EdgesOf, Accepts, Transition, Edge, ToReady, ToRunning, InitializedMap_InRun, InitializedMap_Default

LEMMA EdgesFromRunning ==
  ASSUME NEW c \in Transitions, Accepts(Running, c)
  PROVE  EdgeFrom(Running, c, Transition(Running, c))
<1>1. c \in {"init", "soft_init", "reinit", "start", "stop", "pause", "resume", "shutdown"}
  BY DEF Transitions
<1> QED BY <1>1, Pops, Pushes, StateOf, StateSet
     DEF EdgeFrom, EdgesOf, Accepts, Transition, Edge, ToReady, ToRunning, InRunMap_Running, InitializedMap_InRun, InitializedMap_Default, InRunMap_Default

LEMMA EdgesFromPaused ==
  ASSUME NEW c \in Transitions, Accepts(Paused, c)
  PROVE  EdgeFrom(Paused, c, Transition(Paused, c))
<1>1. c \in {"init", "soft_init", "reinit", "start", "stop", "pause", "resume", "shutdown"}
  BY DEF Transitions
<1> QED BY <1>1, Pops, Pushes, StateOf, StateSet
     DEF EdgeFrom, EdgesOf, Accepts, Transition, Edge, ToReady, ToRunning, InRunMap_Paused, InitializedMap_InRun, InitializedMap_Default, InRunMap_Default

LEMMA EdgesFromInRunError ==
  ASSUME NEW c \in Transitions, Accepts(InRunError, c)
  PROVE  EdgeFrom(InRunError, c, Transition(InRunError, c))
<1>1. c \in {"init", "soft_init", "reinit", "start", "stop", "pause", "resume", "shutdown"}
  BY DEF Transitions
<1> QED BY <1>1, Pops, Pushes, StateOf, StateSet
     DEF EdgeFrom, EdgesOf, Accepts, Transition, Edge, ToReady, ToRunning, InRunMap_InRunError, InitializedMap_InRun, InitializedMap_Default, InRunMap_Default

LEMMA TransitionEdges ==
  ASSUME NEW s \in Stacks, NEW c \in Transitions, Accepts(s, c)
  PROVE  EdgeFrom(s, c, Transition(s, c))
BY EdgesFromBooted, EdgesFromMainInit, EdgesFromReady, EdgesFromInRun, EdgesFromRunning,
   EdgesFromPaused, EdgesFromInRunError
   DEF Stacks

\* What the operation of an edge says of where it leads.
EdgeFacts(c, e) ==
  /\ e \in [op : Ops, during : Stacks, ok : Stacks, no : Stacks]
  /\ e.op = "start" => c \in {"start", "auto_run"}
  /\ e.op \in {"resume", "stop", "pause", "shutdown"} => c = e.op
  /\ c = "auto_run" => /\ e.op \in {"initialize", "start"}
                       /\ e.during = Booted /\ e.ok = Booted /\ e.no = Booted
  /\ c = "init" => e.op = "initialize"
  /\ c = "shutdown" => e.op \in {"none", "shutdown"}
  /\ c # "auto_run" /\ e.op \in {"start", "resume"} => e.ok = Running
  /\ e.op = "stop" => e.ok = Ready
  /\ e.op = "pause" => e.ok = Paused
  /\ c # "auto_run" /\ e.op \in {"stop", "pause", "start", "resume"} => Booted \notin {e.during, e.ok, e.no}
  /\ e.op \notin {"start", "stop", "pause", "resume"} =>
       {e.during, e.ok, e.no} \subseteq {Booted, MainInit, Ready}

LEMMA EdgesHaveFacts ==
  ASSUME NEW c, NEW e \in EdgesOf(c)
  PROVE  EdgeFacts(c, e)
<1>1. c \in Transitions \cup {"auto_run"}
  BY DEF EdgesOf, Transitions
<1>2. CASE c \in {"init", "reinit"}
  BY <1>2, StacksDiffer DEF EdgesOf, EdgeFacts, Edge, Ops, Stacks
<1>3. CASE c \in {"soft_init", "start", "stop"}
  BY <1>3, StacksDiffer DEF EdgesOf, EdgeFacts, Edge, Ops, Stacks
<1>4. CASE c \in {"pause", "resume"}
  BY <1>4, StacksDiffer DEF EdgesOf, EdgeFacts, Edge, Ops, Stacks
<1>5. CASE c \in {"shutdown", "auto_run"}
  BY <1>5, StacksDiffer DEF EdgesOf, EdgeFacts, Edge, Ops, Stacks
<1> QED BY <1>1, <1>2, <1>3, <1>4, <1>5 DEF Transitions

\* The list of legal commands is true of every state but InRun.
LEMMA LegalCommandsAccepted ==
  ASSUME NEW s \in Stacks, s # InRun, NEW c \in legal_commands(s)
  PROVE  Accepts(s, c)
<1>1. CASE s \in {Booted, MainInit}
  BY <1>1, StateOf, StateSet, Pushes DEF legal_commands, Accepts, Transition, Main_Booted, Main_Initialized, Edge
<1>2. CASE s = Ready
  BY <1>2, StateOf, StateSet, Pops, Pushes
     DEF legal_commands, Accepts, Transition, InitializedMap_Ready, Main_Initialized, Edge
<1>3. CASE s = Running
  BY <1>3, StateOf, Pops DEF legal_commands, Accepts, Transition, InRunMap_Running, InitializedMap_InRun, Edge
<1>4. CASE s = Paused
  BY <1>4, StateOf, Pops DEF legal_commands, Accepts, Transition, InRunMap_Paused, InitializedMap_InRun, Edge
<1>5. CASE s = InRunError
  BY <1>5, StateOf, Pops DEF legal_commands, Accepts, Transition, InRunMap_InRunError, InitializedMap_InRun, Edge
<1> QED BY <1>1, <1>2, <1>3, <1>4, <1>5 DEF Stacks

-------------------------------------------------------------------------------
(* The start *)

LEMMA AppInvInit == Init => AppInv
<1> SUFFICES ASSUME Init PROVE AppInv
  OBVIOUS
<1>1. /\ Booted \in Stacks /\ auto \in BOOLEAN /\ kind \in Kinds /\ Ready # Booted /\ InRun # Booted
      /\ InRunError # Booted /\ Running # Booted
  BY StacksDiffer DEF Init, Stacks
<1>2. \A g \in Gens, w \in Workers : thr[<<g, w>>] = "none"
  BY DEF Init, Live
<1>3. LiveThreads = {} /\ FreeGens # {}
  <2>1. 1 \in Gens
    BY MaxGenAssumption DEF Gens
  <2> QED BY <1>2, <2>1 DEF LiveThreads, FreeGens, Live, Init
<1>4. ctl.cmd = "auto_run" <=> auto
  BY DEF Init, Idle
<1>5. /\ ctl \in Commands
      /\ ctl.pc = IF auto THEN "do" ELSE "idle"
      /\ auto => ctl.edge = Edge("initialize", Booted, Booted, Booted)
  BY <1>1 DEF Init, Idle, Pcs, Ops, Edge, Commands
<1>6. thr \in [Gens \X Workers -> ThreadStates] /\ Owned
  BY <1>2 DEF Owned, Live, Init, ThreadStates
<1>7. Types
  BY <1>1, <1>5, <1>6, MaxGenAssumption DEF Types, Init, NoReply, NoCore, Cores
<1>8. CommandShape
  <2>1. Edge("initialize", Booted, Booted, Booted) \in EdgesOf("auto_run")
    BY DEF EdgesOf
  <2>2. auto => ctl.edge \in EdgesOf(ctl.cmd) /\ ctl.edge.during = Booted /\ ctl.edge.op = "initialize"
    BY <1>4, <1>5, <2>1 DEF Edge
  <2> QED BY <1>1, <1>4, <1>5, <2>2 DEF Init, CommandShape, NoCommand, Idle
<1>9. GenLeft /\ FreshHasParts /\ ReplyFresh /\ BufferTold /\ CrashExplained
  BY <1>1, <1>3, <1>5 DEF Init, GenLeft, FreshHasParts, ReplyFresh, BufferTold, CrashExplained, NoCore, NoReply, Faults
<1>10. ~hist.irregular => Regular
  <2> SUFFICES ASSUME ~hist.irregular PROVE Regular
    OBVIOUS
  <2>1. ctl.pc = "idle" /\ stack = Booted /\ active = {} /\ ~core.running
    BY <1>5 DEF Init, NoCore
  <2>2. \A g \in Gens, w \in Workers : thr[<<g, w>>] = "none"
    BY <1>2
  <2>3. Handled
    BY <2>1, <2>2 DEF Handled, Live, Up
  <2>4. NoThreadOutOfRun /\ RunningFlag
    BY <1>3, <2>1 DEF NoThreadOutOfRun, RunningFlag
  <2>5. LoopsRunning
    BY <2>2 DEF LoopsRunning
  <2>6. FailureHeard /\ BothRun
    BY <1>1, <2>1, <2>2 DEF FailureHeard, BothRun, NoCommand, Workers
  <2> QED BY <1>1, <2>1, <2>3, <2>4, <2>5, <2>6 DEF Regular
<1> QED BY <1>7, <1>8, <1>9, <1>10 DEF AppInv
-------------------------------------------------------------------------------
(* Commands *)

LEMMA OwnedKept ==
  ASSUME Owned, UNCHANGED <<kind, thr>>
  PROVE  Owned'
BY DEF Owned, Owns, Live

\* A step that leaves the variables the parts of Regular are about leaves Regular.
LEMMA RegularKept ==
  ASSUME Regular, UNCHANGED <<kind, stack, ctl, core, thr, handle, active, hist>>
  PROVE  Regular'
BY DEF Regular, Handled, NoThreadOutOfRun, RunningFlag, LoopsRunning, FailureHeard, BothRun,
       NoCommand, OutOfRun, NotRunning, LiveThreads, Up

\* The process comes down.
LEMMA DownInv ==
  ASSUME AppInv, NEW why \in Faults, Down(why),
         why \in {"freed_core", "undefined_failure"} => hist.irregular,
         why = "null_core" => ~core.fresh \/ ctl.pc = "idle"
  PROVE  AppInv'
<1>1. why \notin {"up"}
  BY DEF Faults
<1>2. Types'
  BY OwnedKept DEF AppInv, Down, Types
<1>3. CommandShape' /\ GenLeft' /\ FreshHasParts' /\ ReplyFresh' /\ BufferTold' /\ CrashExplained'
  BY <1>1 DEF AppInv, Down, CommandShape, NoCommand, GenLeft, FreeGens, FreshHasParts, ReplyFresh,
     BufferTold, CrashExplained
<1>4. ~hist'.irregular => Regular'
  BY RegularKept DEF AppInv, Down
<1> QED BY <1>2, <1>3, <1>4 DEF AppInv

LEMMA DirectInv == AppInv /\ Direct => AppInv'
BY DownInv DEF Direct, Faults

LEMMA RequestInv ==
  ASSUME AppInv, NEW c \in Transitions, Request(c)
  PROVE  AppInv'
<1>1. /\ ctl'.cmd = c /\ ctl'.pc = "asked" /\ ctl'.edge = ctl.edge
      /\ ctl' \in Commands
  BY DEF AppInv, Types, Request, Pcs, Commands
<1>2. Types'
  BY <1>1, OwnedKept DEF AppInv, Types, Request, NoReply, Pcs
<1>3. CommandShape'
  BY <1>1 DEF AppInv, CommandShape, NoCommand, Request
<1>4. GenLeft'
  BY <1>1 DEF Request, GenLeft, FreeGens, Transitions
<1>5. FreshHasParts' /\ ReplyFresh' /\ BufferTold' /\ CrashExplained'
  BY <1>1 DEF AppInv, FreshHasParts, ReplyFresh, BufferTold, CrashExplained, Request, Faults
<1>6. ASSUME ~hist'.irregular PROVE Regular'
  BY <1>1, <1>6
     DEF AppInv, Request, Regular, Handled, NoThreadOutOfRun, RunningFlag, LoopsRunning, FailureHeard,
         BothRun, NoCommand, OutOfRun, NotRunning, LiveThreads, Up
<1> QED BY <1>2, <1>3, <1>4, <1>5, <1>6 DEF AppInv

LEMMA DispatchInv == AppInv /\ Dispatch => AppInv'
<1> SUFFICES ASSUME AppInv, Dispatch PROVE AppInv'
  OBVIOUS
<1> DEFINE e == Transition(stack, ctl.cmd)
<1>1. /\ stack \in Stacks /\ ctl.cmd \in Transitions /\ NoCommand /\ ctl.pc = "asked" /\ alive = "up"
      /\ primary = "free"
  BY DEF AppInv, Types, CommandShape, Dispatch, NoCommand
<1>2. CASE e.op = "refused"
  <2>1. /\ ctl' = Idle /\ reply' = [cmd |-> ctl.cmd, res |-> "refused"] /\ ctl'.pc = "idle"
        /\ ctl'.cmd = "none"
        /\ UNCHANGED <<kind, auto, core, thr, handle, active, alive, hist, stack, primary>>
    BY <1>2 DEF Dispatch, Idle
  <2>2. ctl' \in Commands
    BY <2>1 DEF Idle, Edge, Pcs, Ops, Stacks, Commands
  <2>3. Types'
    BY <1>1, <2>1, <2>2, OwnedKept DEF AppInv, Types, Pcs
  <2>4. CommandShape' /\ GenLeft' /\ FreshHasParts' /\ ReplyFresh' /\ BufferTold' /\ CrashExplained'
    BY <1>1, <2>1 DEF AppInv, CommandShape, GenLeft, FreshHasParts, ReplyFresh, BufferTold, CrashExplained,
                      NoCommand, Faults
  <2>5. ASSUME ~hist'.irregular PROVE Regular'
    BY <1>1, <2>1, <2>5
       DEF AppInv, Regular, Handled, NoThreadOutOfRun, RunningFlag, LoopsRunning, FailureHeard,
           BothRun, NoCommand, OutOfRun, NotRunning, LiveThreads, Up
  <2> QED BY <2>3, <2>4, <2>5 DEF AppInv
<1>3. CASE e.op # "refused"
  <2>1. EdgeFrom(stack, ctl.cmd, e)
    BY <1>1, <1>3, TransitionEdges DEF Accepts
  <2>2. EdgeFacts(ctl.cmd, e)
    BY <2>1, EdgesHaveFacts DEF EdgeFrom
  <2> HIDE DEF e
  <2>3. /\ ctl'.cmd = ctl.cmd /\ ctl'.pc = "do" /\ ctl'.edge = e
        /\ ctl' \in Commands
        /\ stack' = e.during /\ primary' = "cmd" /\ reply' = reply
        /\ UNCHANGED <<kind, auto, core, thr, handle, active, alive, hist>>
    <3>1. /\ ctl' = [ctl EXCEPT !.pc = "do", !.edge = e]
          /\ stack' = e.during /\ primary' = "cmd" /\ reply' = reply
          /\ UNCHANGED <<kind, auto, core, thr, handle, active, alive, hist>>
      BY <1>3 DEF Dispatch, e
    <3>2. e \in [op : Ops, during : Stacks, ok : Stacks, no : Stacks] /\ "do" \in Pcs
      BY <2>2 DEF EdgeFacts, Pcs
    <3> QED BY <3>1, <3>2 DEF AppInv, Types, Commands
  <2>4. Types'
    BY <1>1, <2>2, <2>3, OwnedKept DEF AppInv, Types, EdgeFacts, Pcs
  <2>5. CommandShape'
    <3>1. ctl.cmd # "auto_run"
      BY <1>1 DEF Transitions
    <3>2. e \in EdgesOf(ctl.cmd)
      BY <2>1 DEF EdgeFrom
    <3> QED BY <2>3, <3>1, <3>2 DEF AppInv, CommandShape, NoCommand
  <2>6. GenLeft' /\ FreshHasParts' /\ ReplyFresh' /\ BufferTold' /\ CrashExplained'
    BY <1>1, <2>3 DEF AppInv, GenLeft, FreeGens, FreshHasParts, ReplyFresh, BufferTold, CrashExplained, Faults
  <2>7. ASSUME ~hist'.irregular PROVE Regular'
    <3>1. Regular
      BY <2>3, <2>7 DEF AppInv
    <3>2. OutOfRun' => OutOfRun
      BY <1>1, <2>1, <2>3 DEF OutOfRun, NoCommand, EdgeFrom
    <3>3. NotRunning' => NotRunning
      BY <1>1, <2>1, <2>3 DEF NotRunning, NoCommand, EdgeFrom
    <3> QED BY <1>1, <2>3, <3>1, <3>2, <3>3
            DEF Regular, Handled, NoThreadOutOfRun, RunningFlag, LoopsRunning, FailureHeard,
                BothRun, NoCommand, LiveThreads, Up
  <2> QED BY <2>4, <2>5, <2>6, <2>7 DEF AppInv
<1> QED BY <1>2, <1>3

LEMMA BlockedInv ==
  ASSUME AppInv, NEW l \in Labels, BlockedByFilters(l)
  PROVE  AppInv'
<1>1. /\ ctl'.cmd = "register_monitor" /\ ctl'.pc = "filters" /\ ctl'.edge = ctl.edge
      /\ ctl' \in Commands
      /\ ctl.pc = "idle" /\ alive = "up" /\ kind = "Dispatcher"
      /\ UNCHANGED <<kind, auto, stack, primary, reply, core, thr, handle, active, alive, hist>>
  BY DEF AppInv, Types, BlockedByFilters, Command, Pcs, Commands
<1>2. Types'
  BY <1>1, OwnedKept DEF AppInv, Types, Pcs
<1>3. CommandShape' /\ GenLeft' /\ FreshHasParts' /\ ReplyFresh' /\ BufferTold' /\ CrashExplained'
  BY <1>1 DEF AppInv, CommandShape, NoCommand, GenLeft, FreshHasParts, ReplyFresh, BufferTold,
              CrashExplained, Faults
<1>4. ASSUME ~hist'.irregular PROVE Regular'
  BY <1>1, <1>4
     DEF AppInv, Regular, Handled, NoThreadOutOfRun, RunningFlag, LoopsRunning, FailureHeard,
         BothRun, NoCommand, OutOfRun, NotRunning, LiveThreads, Up
<1> QED BY <1>2, <1>3, <1>4 DEF AppInv
-------------------------------------------------------------------------------
(* The end of an operation *)

\* A command in hand takes one of its edges.
LEMMA InHand ==
  ASSUME AppInv, ~NoCommand
  PROVE  /\ ctl.edge \in EdgesOf(ctl.cmd) /\ EdgeFacts(ctl.cmd, ctl.edge) /\ stack = ctl.edge.during
         /\ ctl.cmd \in Transitions \cup {"auto_run"}
<1>1. ctl.edge \in EdgesOf(ctl.cmd) /\ stack = ctl.edge.during
  BY DEF AppInv, CommandShape
<1>2. ctl.cmd \in Transitions \cup {"auto_run"}
  BY <1>1 DEF EdgesOf, Transitions
<1> QED BY <1>1, <1>2, EdgesHaveFacts

Results == {"ok", "no", "throw"}

LEMMA LandsInStacks ==
  ASSUME AppInv, ~NoCommand, NEW r \in Results
  PROVE  Lands(r) \in {ctl.edge.ok, ctl.edge.no, ctl.edge.during} /\ Lands(r) \in Stacks
<1>1. Lands(r) \in {ctl.edge.ok, ctl.edge.no, ctl.edge.during}
  BY DEF Lands, Results
<1> QED BY <1>1, InHand DEF EdgeFacts

\* What Finish leaves, whatever the operation was.
LEMMA Finished ==
  ASSUME AppInv, alive = "up", ~NoCommand, NEW r \in Results, NEW c \in Cores, Finish(r, c)
  PROVE  /\ stack' = Lands(r) /\ primary' = "free"
         /\ reply' = [cmd |-> ctl.cmd, res |-> r] /\ reply' \in [cmd : Transitions \cup {"none", "auto_run"}, res : {"ok", "no", "throw", "refused"}]
         /\ ctl' \in Commands
         /\ core' \in Cores
         /\ core' = c \/ (core' = NoCore /\ Lands(r) = Booted /\ ctl.edge.op \in {"none", "initialize", "shutdown"})
         /\ \/ ctl'.pc = "idle" /\ ctl' = Idle
            \/ /\ ctl.cmd = "auto_run" /\ ctl'.cmd = "auto_run" /\ ctl'.pc = "do" /\ ctl'.edge = Edge("start", Booted, Booted, Booted)
               /\ stack' = Booted
         /\ alive' \in {"up", "terminated", "freed_core", "uncaught"}
         /\ alive' = "freed_core" => core' = NoCore /\ LiveThreads # {}
         /\ alive' = "up" => ctl.cmd # "shutdown" \/ r = "throw"
<1> USE DEF Results
<1>1. /\ ctl.edge \in EdgesOf(ctl.cmd) /\ EdgeFacts(ctl.cmd, ctl.edge) /\ stack = ctl.edge.during
      /\ ctl.cmd \in Transitions \cup {"auto_run"}
  BY InHand
<1>2. Lands(r) \in {ctl.edge.ok, ctl.edge.no, ctl.edge.during} /\ Lands(r) \in Stacks
  BY LandsInStacks
<1>3. /\ stack' = Lands(r) /\ core' = BootedEnter(r, c) /\ primary' = "free"
      /\ reply' = [cmd |-> ctl.cmd, res |-> r]
  BY DEF Finish
<1>4. reply' \in [cmd : Transitions \cup {"none", "auto_run"}, res : {"ok", "no", "throw", "refused"}]
  BY <1>1, <1>3
<1>5. core' = c \/ (core' = NoCore /\ Lands(r) = Booted /\ ctl.edge.op \in {"none", "initialize", "shutdown"})
  <2>1. CASE core' # c
    <3>1. core' = NoCore /\ ctl.cmd # "auto_run" /\ Lands(r) = Booted
      BY <1>3, <2>1 DEF BootedEnter
    <3>2. ctl.edge.op \in Ops
      BY <1>1 DEF EdgeFacts
    <3>3. ctl.edge.op \notin {"start", "stop", "pause", "resume"}
      BY <1>1, <1>2, <3>1 DEF EdgeFacts
    <3>4. ctl.edge.op \notin {"reinitialize", "soft_initialize"}
      <4>1. ASSUME ctl.edge.op \in {"reinitialize", "soft_initialize"}
            PROVE  ctl.edge \in {Edge("reinitialize", Ready, Ready, Ready), Edge("soft_initialize", Ready, Ready, Ready)}
        BY <1>1, <4>1 DEF EdgesOf, Edge
      <4> QED BY <1>2, <3>1, <4>1, StacksDiffer DEF Edge
    <3> QED BY <3>1, <3>2, <3>3, <3>4 DEF Ops
  <2> QED BY <2>1
<1>6. core' \in Cores
  <2>1. NoCore \in Cores
    BY DEF NoCore, Cores
  <2> QED BY <1>5, <2>1
<1>7. CASE ctl.cmd = "auto_run" /\ ctl.edge.op = "initialize"
  <2>1. ctl' = [ctl EXCEPT !.pc = "do", !.edge.op = "start"]
    BY <1>7 DEF Finish
  <2>2. /\ ctl' \in Commands /\ ctl'.cmd = "auto_run" /\ ctl'.pc = "do"
        /\ ctl'.edge = [ctl.edge EXCEPT !.op = "start"]
    BY <1>7, <2>1 DEF AppInv, Types, Commands, Pcs, Ops
  <2>3. ctl'.edge = Edge("start", Booted, Booted, Booted) /\ stack' = Booted
    BY <1>1, <1>2, <1>3, <1>7, <2>2 DEF EdgeFacts, Edge
  <2>4. /\ alive' \in {"up", "terminated", "freed_core", "uncaught"}
        /\ alive' = "freed_core" => core' = NoCore /\ LiveThreads # {}
        /\ alive' = "up" => ctl.cmd # "shutdown" \/ r = "throw"
    BY <1>5, <1>7 DEF Finish, BootedEnter
  <2> QED BY <1>3, <1>4, <1>5, <1>6, <1>7, <2>2, <2>3, <2>4
<1>8. CASE ~(ctl.cmd = "auto_run" /\ ctl.edge.op = "initialize")
  <2>1. ctl' = Idle
    BY <1>8 DEF Finish
  <2>2. ctl' \in Commands /\ ctl'.pc = "idle"
    BY <2>1 DEF Idle, Edge, Pcs, Ops, Stacks, Commands
  <2>3. /\ alive' \in {"up", "terminated", "freed_core", "uncaught"}
        /\ alive' = "freed_core" => core' = NoCore /\ LiveThreads # {}
        /\ alive' = "up" => ctl.cmd # "shutdown" \/ r = "throw"
    BY DEF Finish, BootedEnter
  <2> QED BY <1>3, <1>4, <1>5, <1>6, <2>1, <2>2, <2>3
<1> QED BY <1>7, <1>8

\* An operation that ends keeps the invariant, if it keeps Regular.
LEMMA FinishInv ==
  ASSUME AppInv, alive = "up", ~NoCommand, NEW r \in Results, NEW c \in Cores, Finish(r, c),
         kind' = kind, auto' = auto,
         thr' \in [Gens \X Workers -> ThreadStates], Owned', handle' \in 0 .. MaxGen, active' \subseteq Workers,
         hist' = hist \/ hist' = [hist EXCEPT !.irregular = TRUE],
         ctl.cmd = "auto_run" => thr' = thr \/ ctl.edge.op = "start",
         c.bufStop => ~c.running,
         c.parts \/ ~c.fresh \/ (ctl.edge.op = "shutdown" /\ r # "throw"),
         ctl.edge.op = "initialize" /\ r = "ok" => c.fresh \/ kind = "EventBuilder",
         ~hist.irregular /\ hist' = hist /\ ctl' = Idle => Regular'
  PROVE  AppInv'
<1>1. /\ ctl.edge \in EdgesOf(ctl.cmd) /\ EdgeFacts(ctl.cmd, ctl.edge) /\ stack = ctl.edge.during
      /\ ctl.cmd \in Transitions \cup {"auto_run"}
  BY InHand
<1>2. Lands(r) \in Stacks
  BY LandsInStacks
<1>3. /\ stack' = Lands(r) /\ primary' = "free"
      /\ reply' = [cmd |-> ctl.cmd, res |-> r]
      /\ reply' \in [cmd : Transitions \cup {"none", "auto_run"}, res : {"ok", "no", "throw", "refused"}]
      /\ ctl' \in Commands /\ core' \in Cores
      /\ core' = c \/ (core' = NoCore /\ Lands(r) = Booted /\ ctl.edge.op \in {"none", "initialize", "shutdown"})
      /\ alive' \in {"up", "terminated", "freed_core", "uncaught"}
      /\ alive' = "freed_core" => core' = NoCore /\ LiveThreads # {}
      /\ alive' = "up" => ctl.cmd # "shutdown" \/ r = "throw"
  BY Finished
<1>4. \/ ctl'.pc = "idle" /\ ctl' = Idle
      \/ /\ ctl.cmd = "auto_run" /\ ctl'.cmd = "auto_run" /\ ctl'.pc = "do"
         /\ ctl'.edge = Edge("start", Booted, Booted, Booted) /\ stack' = Booted
  BY Finished
<1>5. /\ hist' \in [irregular : BOOLEAN, quiet : BOOLEAN]
      /\ hist.irregular => hist'.irregular
      /\ hist' # hist => hist'.irregular
  BY DEF AppInv, Types
<1>6. ctl.cmd = "auto_run" => hist.irregular
  BY DEF AppInv, CommandShape
<1>7. Types'
  BY <1>2, <1>3, <1>5 DEF AppInv, Types, Faults
<1>8. CommandShape'
  <2>1. Edge("start", Booted, Booted, Booted) \in EdgesOf("auto_run")
    BY DEF EdgesOf
  <2> QED BY <1>3, <1>4, <1>5, <1>6, <2>1 DEF AppInv, CommandShape, NoCommand, Edge
<1>9. GenLeft'
  <2>1. CASE ctl'.pc = "idle"
    BY <2>1 DEF GenLeft
  <2>2. CASE ctl'.pc # "idle"
    <3>1. ctl.edge.op = "initialize" /\ ctl.cmd = "auto_run"
      BY <1>4, <2>2 DEF Finish, Idle
    <3>2. ctl.pc = "do"
      <4>1. ctl.pc \in Pcs
        BY DEF AppInv, Types, Commands
      <4> QED BY <3>1, <4>1 DEF AppInv, CommandShape, NoCommand, Pcs
    <3>3. FreeGens # {} /\ thr' = thr
      BY <3>1, <3>2 DEF AppInv, GenLeft
    <3> QED BY <3>3 DEF GenLeft, FreeGens
  <2> QED BY <2>1, <2>2
<1>10. FreshHasParts'
  BY <1>1, <1>3 DEF FreshHasParts, NoCore, EdgeFacts
<1>11. ReplyFresh'
  <2> SUFFICES ASSUME stack' = Ready, reply' = [cmd |-> "init", res |-> "ok"]
               PROVE  core'.fresh \/ kind' = "EventBuilder"
    BY DEF ReplyFresh
  <2>1. ctl.cmd = "init" /\ r = "ok"
    BY <1>3
  <2>2. ctl.edge.op = "initialize"
    BY <1>1, <2>1 DEF EdgeFacts
  <2>3. core' = c
    BY <1>3, StacksDiffer
  <2> QED BY <2>1, <2>2, <2>3
<1>12. BufferTold'
  BY <1>3 DEF BufferTold, NoCore
<1>13. CrashExplained'
  <2>1. CASE alive' = "freed_core"
    <3>1. ctl.edge.op \in {"none", "initialize", "shutdown"} \/ core' = c
      BY <1>3
    <3> SUFFICES ASSUME ~hist'.irregular PROVE FALSE
      BY <2>1, <1>3 DEF CrashExplained
    <3>2. Regular /\ ctl.cmd # "auto_run"
      BY <1>5, <1>6 DEF AppInv
    <3>3. LiveThreads # {} /\ c.made /\ core' # c
      BY <2>1 DEF Finish, BootedEnter, NoCore
    <3>4. OutOfRun
      <4>1. ctl.pc \in Pcs
        BY DEF AppInv, Types, Commands
      <4> QED BY <3>1, <3>3, <4>1 DEF AppInv, CommandShape, NoCommand, Pcs, OutOfRun
    <3> QED BY <3>2, <3>3, <3>4 DEF Regular, NoThreadOutOfRun
  <2> QED BY <1>3, <2>1 DEF CrashExplained
<1>14. ASSUME ~hist'.irregular PROVE Regular'
  BY <1>4, <1>5, <1>6, <1>14
<1> QED BY <1>7, <1>8, <1>9, <1>10, <1>11, <1>12, <1>13, <1>14 DEF AppInv
\* No live thread, thread by thread.
LEMMA NoneLive ==
  ASSUME Types
  PROVE  LiveThreads = {} <=> \A g \in Gens, w \in Workers : thr[<<g, w>>] = "none"
BY DEF Types, LiveThreads, Live

\* An operation that ends without threads, outside of a run.
LEMMA QuietRegular ==
  ASSUME AppInv, ~hist.irregular, alive = "up", ~NoCommand, LiveThreads = {},
         NEW r \in Results, NEW c \in Cores, Finish(r, c), ctl' = Idle,
         UNCHANGED <<kind, thr, active, hist>>, handle' \in 0 .. MaxGen,
         c.running => core.running,
         Lands(r) # InRun,
         kind = "BoardReader" => Lands(r) # Running,
         kind = "BoardReader" /\ Lands(r) # Paused => ~core.running
  PROVE  Regular'
<1>1. Regular /\ Types
  BY DEF AppInv
<1>2. \A g \in Gens, w \in Workers : thr[<<g, w>>] = "none"
  BY <1>1, NoneLive
<1>3. \A g \in Gens, w \in Workers : thr'[<<g, w>>] = "none"
  BY <1>2
<1>4. stack' = Lands(r) /\ (core' = c \/ core' = NoCore) /\ ctl'.pc = "idle"
  BY Finished DEF Idle
<1>5. Handled'
  BY <1>1, <1>2, <1>3 DEF Regular, Handled, Live, Up
<1>6. NoThreadOutOfRun'
  BY DEF NoThreadOutOfRun, LiveThreads
<1>7. RunningFlag'
  <2>1. kind # "BoardReader" => ~core.running
    BY <1>1 DEF Regular, RunningFlag, NotRunning
  <2>2. ~core.running => ~core'.running
    BY <1>4 DEF NoCore
  <2> QED BY <1>4, <2>1, <2>2, StacksDiffer DEF RunningFlag, NotRunning
<1>8. LoopsRunning'
  BY <1>3 DEF LoopsRunning
<1>9. FailureHeard' /\ BothRun'
  BY <1>3, <1>4 DEF FailureHeard, BothRun, NoCommand, Workers
<1>10. stack' # InRun
  BY <1>4
<1> QED BY <1>5, <1>6, <1>7, <1>8, <1>9, <1>10 DEF Regular

\* Before any operation but stop, pause and resume there is no thread, and running_ is not set.
LEMMA BeforeOperation ==
  ASSUME AppInv, ~hist.irregular, ctl.pc = "do", ctl.edge.op \notin {"stop", "pause"}
  PROVE  LiveThreads = {} /\ (ctl.edge.op # "resume" => ~core.running) /\ ~NoCommand /\ ctl.cmd # "auto_run"
BY DEF AppInv, Regular, NoThreadOutOfRun, OutOfRun, RunningFlag, NotRunning, NoCommand, CommandShape

\* The operations that change nothing but the core, with the core they leave.
Leaves(r, c) ==
  /\ c \in Cores
  /\ c.bufStop => ~c.running
  /\ c.running => core.running
  /\ c.parts \/ ~c.fresh
  /\ ctl.edge.op = "initialize" /\ r = "ok" => c.fresh \/ kind = "EventBuilder"

LEMMA CoreOnly ==
  ASSUME AppInv, alive = "up", ctl.pc = "do",
         ctl.edge.op \in {"none", "initialize", "reinitialize", "soft_initialize"},
         NEW r \in Results, NEW c, Leaves(r, c), Finish(r, c),
         UNCHANGED <<kind, auto, thr, handle, active, hist>>
  PROVE  AppInv'
<1>1. ~NoCommand /\ c \in Cores
  BY DEF NoCommand, Leaves
<1>2. EdgeFacts(ctl.cmd, ctl.edge) /\ Lands(r) \in {ctl.edge.ok, ctl.edge.no, ctl.edge.during}
  BY <1>1, InHand, LandsInStacks
<1>3. Types /\ Types
  BY DEF AppInv
<1>4. Owned'
  BY <1>3, OwnedKept DEF Types
<1>5. ~hist.irregular /\ ctl' = Idle => Regular'
  <2> SUFFICES ASSUME ~hist.irregular, ctl' = Idle PROVE Regular'
    OBVIOUS
  <2>1. LiveThreads = {} /\ ~core.running
    BY BeforeOperation
  <2>2. Lands(r) \in {Booted, MainInit, Ready}
    BY <1>2 DEF EdgeFacts
  <2>3. Lands(r) # InRun /\ Lands(r) # Running
    BY <2>2, StacksDiffer
  <2> QED BY <1>1, <1>3, <2>1, <2>3, QuietRegular DEF Leaves, Types
<1> QED BY <1>1, <1>3, <1>4, <1>5, FinishInv DEF Leaves, Types
LEMMA CoreFacts ==
  ASSUME AppInv, alive = "up", ctl.pc = "do"
  PROVE  Leaves("no", core) /\ Leaves("throw", core) /\ (ctl.edge.op # "initialize" => Leaves("ok", core))
         /\ ~NoCommand
BY DEF AppInv, Types, FreshHasParts, BufferTold, Leaves, NoCommand

LEMMA DoNothingInv == AppInv /\ DoNothing => AppInv'
BY CoreFacts, CoreOnly DEF DoNothing, Doing, Results

\* What an initialization may leave.
LEMMA AttemptLeaves ==
  ASSUME AppInv, alive = "up", ctl.pc = "do", NEW c \in Cores, c.bufStop => ~c.running, c.running => core.running,
         NEW had \in BOOLEAN, NEW o \in Attempt(c, had)
  PROVE  o.res \in Results /\ Leaves(o.res, o.core)
<1>1. CASE o = [res |-> "ok", core |-> [c EXCEPT !.parts = TRUE, !.fresh = TRUE]]
  BY <1>1 DEF Leaves, Cores, Results
<1>2. ASSUME NEW r \in {"no", "throw"}, NEW p \in {had, TRUE},
             o = [res |-> r, core |-> [c EXCEPT !.parts = p, !.fresh = FALSE]]
      PROVE  o.res \in Results /\ Leaves(o.res, o.core)
  <2>1. p \in BOOLEAN
    OBVIOUS
  <2> QED BY <1>2, <2>1 DEF Leaves, Cores, Results
<1> QED BY <1>1, <1>2 DEF Attempt

LEMMA OutcomesLeave ==
  ASSUME AppInv, alive = "up", ctl.pc = "do"
  PROVE  /\ \A o \in do_initialize : o.res \in Results /\ Leaves(o.res, o.core)
         /\ ctl.edge.op # "initialize" =>
              \A o \in do_soft_initialize \cup do_reinitialize : o.res \in Results /\ Leaves(o.res, o.core)
<1>1. core \in Cores /\ (core.bufStop => ~core.running) /\ core.parts \in BOOLEAN /\ Leaves("no", core)
      /\ (ctl.edge.op # "initialize" => Leaves("ok", core)) /\ kind \in Kinds
  BY CoreFacts DEF AppInv, BufferTold, Types, Cores
<1>2. NewCore \in Cores /\ ~NewCore.bufStop /\ ~NewCore.running
  BY DEF NewCore, NoCore, Cores
<1>3. /\ [core EXCEPT !.made = TRUE] \in Cores /\ [core EXCEPT !.parts = FALSE] \in Cores
      /\ [core EXCEPT !.made = TRUE].bufStop = core.bufStop /\ [core EXCEPT !.parts = FALSE].bufStop = core.bufStop
      /\ [core EXCEPT !.made = TRUE].running = core.running /\ [core EXCEPT !.parts = FALSE].running = core.running
  BY <1>1 DEF Cores
<1>4. \A o \in Attempt(NewCore, FALSE) : o.res \in Results /\ Leaves(o.res, o.core)
  BY <1>2, AttemptLeaves
<1>5. \A o \in Attempt([core EXCEPT !.made = TRUE], core.parts) : o.res \in Results /\ Leaves(o.res, o.core)
  BY <1>1, <1>3, AttemptLeaves
<1>6. \A o \in Attempt(core, core.parts) : o.res \in Results /\ Leaves(o.res, o.core)
  BY <1>1, AttemptLeaves
<1>7. \A o \in Attempt([core EXCEPT !.parts = FALSE], FALSE) : o.res \in Results /\ Leaves(o.res, o.core)
  BY <1>1, <1>3, AttemptLeaves
<1>8. ASSUME kind = "EventBuilder", NEW o \in Unchanged
      PROVE  o.res \in Results /\ Leaves(o.res, o.core)
  <2>1. o = [res |-> "ok", core |-> [core EXCEPT !.fresh = FALSE]]
    BY DEF Unchanged
  <2> QED BY <1>1, <1>8, <2>1 DEF Leaves, Cores, Results
<1>9. kind \in {"BoardReader", "EventBuilder", "DataLogger", "Dispatcher", "RoutingManager"}
  BY <1>1, KindsAssumption
<1>10. \A o \in do_initialize : o.res \in Results /\ Leaves(o.res, o.core)
  BY <1>4, <1>5, <1>8, <1>9
     DEF do_initialize, BoardReader_do_initialize, RoutingManager_do_initialize, EventBuilder_do_initialize,
         DataLogger_do_initialize, Dispatcher_do_initialize
<1>11. ctl.edge.op # "initialize" =>
         \A o \in do_soft_initialize \cup do_reinitialize : o.res \in Results /\ Leaves(o.res, o.core)
  <2> SUFFICES ASSUME ctl.edge.op # "initialize", NEW o \in do_soft_initialize \cup do_reinitialize
               PROVE  o.res \in Results /\ Leaves(o.res, o.core)
    OBVIOUS
  <2>1. CASE o = [res |-> "ok", core |-> core]
    BY <1>1, <2>1 DEF Results
  <2>2. CASE o \in Attempt(core, core.parts) \cup Attempt([core EXCEPT !.parts = FALSE], FALSE)
    BY <1>6, <1>7, <2>2
  <2>3. \/ o \in Attempt(core, core.parts) \cup Attempt([core EXCEPT !.parts = FALSE], FALSE)
        \/ o = [res |-> "ok", core |-> core]
    BY <1>9 DEF do_soft_initialize, do_reinitialize
  <2> QED BY <2>1, <2>2, <2>3
<1> QED BY <1>10, <1>11

LEMMA InitializingInv ==
  ASSUME AppInv, NEW op \in {"initialize", "soft_initialize", "reinitialize"}, NEW outcomes, Initializing(op, outcomes),
         \A o \in outcomes : o.res \in Results /\ Leaves(o.res, o.core)
  PROVE  AppInv'
<1>1. alive = "up" /\ ctl.pc = "do" /\ ctl.edge.op = op /\ UNCHANGED <<kind, auto, thr, handle, active, hist>>
  BY DEF Initializing, Doing
<1>2. PICK o \in outcomes : Finish(o.res, o.core)
  BY DEF Initializing
<1>3. o.res \in Results /\ Leaves(o.res, o.core)
  BY <1>2
<1> QED BY <1>1, <1>2, <1>3, CoreOnly

LEMMA InitializeInv ==
  ASSUME AppInv, DoInitialize \/ DoSoftInitialize \/ DoReinitialize
  PROVE  AppInv'
<1>1. CASE DoInitialize
  <2>1. Initializing("initialize", do_initialize) /\ alive = "up" /\ ctl.pc = "do"
    BY <1>1 DEF DoInitialize, Initializing, Doing
  <2> QED BY <2>1, OutcomesLeave, InitializingInv
<1>2. CASE DoSoftInitialize
  <2>1. /\ Initializing("soft_initialize", do_soft_initialize) /\ alive = "up" /\ ctl.pc = "do"
        /\ ctl.edge.op = "soft_initialize"
    BY <1>2 DEF DoSoftInitialize, Initializing, Doing
  <2>2. \A o \in do_soft_initialize : o.res \in Results /\ Leaves(o.res, o.core)
    BY <2>1, OutcomesLeave
  <2> QED BY <2>1, <2>2, InitializingInv
<1>3. CASE DoReinitialize
  <2>1. /\ Initializing("reinitialize", do_reinitialize) /\ alive = "up" /\ ctl.pc = "do"
        /\ ctl.edge.op = "reinitialize"
    BY <1>3 DEF DoReinitialize, Initializing, Doing
  <2>2. \A o \in do_reinitialize : o.res \in Results /\ Leaves(o.res, o.core)
    BY <2>1, OutcomesLeave
  <2> QED BY <2>1, <2>2, InitializingInv
<1> QED BY <1>1, <1>2, <1>3

\* A core that is replaced has no thread, if the process was regular so far.
LEMMA FreedInv == AppInv /\ DoInitializeFreed => AppInv'
<1> SUFFICES ASSUME AppInv, DoInitializeFreed PROVE AppInv'
  OBVIOUS
<1>1. hist.irregular
  BY BeforeOperation DEF DoInitializeFreed, Doing, Replaced
<1> QED BY <1>1, DownInv DEF DoInitializeFreed, Faults

-------------------------------------------------------------------------------
(* Receivers: no threads *)

LEMMA ReceiverInv ==
  ASSUME AppInv, NEW op \in ReceiverOps, DoReceiver(op)
  PROVE  AppInv'
<1>1. /\ alive = "up" /\ ctl.pc = "do" /\ ctl.edge.op = op /\ ~NoCommand /\ Receiver
      /\ core \in Cores /\ Types
  BY DEF AppInv, Types, DoReceiver, Doing, NoCommand
<1>2. CASE ~core.parts
  <2>1. Down("null_core")
    BY <1>2 DEF DoReceiver
  <2>2. ~core.fresh
    BY <1>1, <1>2 DEF AppInv, FreshHasParts
  <2> QED BY <2>1, <2>2, DownInv DEF Faults
<1>3. CASE core.parts
  <2> DEFINE c == Received(op)
  <2>1. Finish("ok", c) /\ UNCHANGED <<kind, auto, thr, handle, active, hist>>
    BY <1>3 DEF DoReceiver
  <2>2. /\ c \in Cores /\ c.bufStop = core.bufStop /\ c.running = core.running /\ c.fresh = core.fresh
        /\ c.parts \/ op = "shutdown"
    BY <1>1, <1>3 DEF Received, ReceiverOps, Cores
  <2> HIDE DEF c
  <2>3. LiveThreads = {}
    <3>1. \A w \in Workers : ~Owns(w)
      BY <1>1 DEF Owns, Receiver, EventBuilderApp, DataLoggerApp, DispatcherApp
    <3> QED BY <1>1, <3>1, NoneLive DEF Types, Owned, Live
  <2>4. EdgeFacts(ctl.cmd, ctl.edge) /\ kind # "BoardReader"
    BY <1>1, InHand DEF Receiver, EventBuilderApp, DataLoggerApp, DispatcherApp
  <2>5. ctl.cmd # "auto_run" => Lands("ok") # InRun
    BY <2>4, StacksDiffer DEF Lands, EdgeFacts, ReceiverOps
  <2>6. ~hist.irregular => ctl.cmd # "auto_run"
    BY <1>1 DEF AppInv, CommandShape
  <2>7. ~hist.irregular /\ ctl' = Idle => Regular'
    BY <1>1, <2>1, <2>2, <2>3, <2>4, <2>5, <2>6, QuietRegular DEF Results, Types
  <2>8. Owned'
    BY <1>1, <2>1, OwnedKept DEF Types
  <2>9. op # "initialize"
    BY DEF ReceiverOps
  <2> QED BY <1>1, <2>1, <2>2, <2>7, <2>8, <2>9, FinishInv DEF Results, Types, AppInv, BufferTold
<1> QED BY <1>2, <1>3
-------------------------------------------------------------------------------
(* A board reader's operations *)

\* The steps an operation may wait at.
StepsOf(op) == CASE op \in {"start", "resume"} -> {"wait", "begun"}
                 [] op \in {"stop", "pause"}   -> {"mutex", "join"}
                 [] op = "shutdown"            -> {"join"}
                 [] OTHER                      -> {}

\* An operation goes on to its next step.
LEMMA GotoInv ==
  ASSUME AppInv, alive = "up", ~NoCommand, kind = "BoardReader", NEW pc \in StepsOf(ctl.edge.op), Goto(pc),
         UNCHANGED <<kind, auto, stack, primary, reply, alive>>,
         thr' \in [Gens \X Workers -> ThreadStates], Owned', handle' \in 0 .. MaxGen, active' = active,
         hist' \in [irregular : BOOLEAN, quiet : BOOLEAN], hist'.irregular = hist.irregular,
         core' \in Cores, core'.fresh = core.fresh, core'.bufStop => ~core'.running,
         core'.parts = core.parts \/ (pc = "join" /\ ctl.edge.op = "shutdown"),
         ~hist.irregular => Regular'
  PROVE  AppInv'
<1>1. pc \in {"wait", "begun", "mutex", "join"}
  BY DEF StepsOf
<1>2. /\ ctl' \in Commands /\ ctl'.pc = pc /\ ctl'.cmd = ctl.cmd /\ ctl'.edge = ctl.edge
  BY <1>1 DEF AppInv, Types, Goto, Commands, Pcs
<1>3. Types'
  BY <1>2 DEF AppInv, Types
<1>4. CommandShape'
  <2>1. /\ pc \in {"wait", "begun"} => ctl.edge.op \in {"start", "resume"}
        /\ pc = "mutex" => ctl.edge.op \in {"stop", "pause"}
        /\ pc = "join" => ctl.edge.op \in {"stop", "pause", "shutdown"}
    BY DEF StepsOf
  <2> QED BY <1>1, <1>2, <2>1 DEF AppInv, CommandShape, NoCommand
<1>5. ctl.pc = "join" => ctl'.pc = "join" \/ ctl.edge.op # "shutdown"
  BY <1>2 DEF StepsOf
<1>6. GenLeft' /\ FreshHasParts' /\ ReplyFresh' /\ BufferTold' /\ CrashExplained'
  BY <1>1, <1>2, <1>5
     DEF AppInv, GenLeft, FreshHasParts, ReplyFresh, BufferTold, CrashExplained, Faults
<1> QED BY <1>3, <1>4, <1>6 DEF AppInv

LEMMA NextGenFree ==
  ASSUME FreeGens # {}
  PROVE  NextGen \in FreeGens /\ NextGen \in Gens /\ \A w \in Workers : ~Live(thr[<<NextGen, w>>])
<1>1. FreeGens \in SUBSET Nat
  BY MaxGenAssumption DEF FreeGens, Gens
<1>2. \E g \in FreeGens : \A h \in FreeGens : g <= h
  BY <1>1, LeastNumber
<1> QED BY <1>2 DEF NextGen, FreeGens

\* The receiver of a command that dereferences what is not there.
LEMMA NullInv ==
  ASSUME AppInv, alive = "up", ctl.pc = "do", ~core.parts, Down("null_core")
  PROVE  AppInv'
BY DownInv DEF AppInv, FreshHasParts, Faults

LEMMA MakeThreadsInv ==
  ASSUME AppInv, NEW op \in {"start", "resume"}, MakeThreads(op)
  PROVE  AppInv'
<1>1. /\ alive = "up" /\ ctl.pc = "do" /\ ctl.edge.op = op /\ kind = "BoardReader" /\ ~NoCommand /\ Types
  BY DEF MakeThreads, Threads, Doing, NoCommand, AppInv
<1>2. CASE ~core.parts
  BY <1>1, <1>2, NullInv DEF MakeThreads
<1>3. CASE core.parts
  <2> DEFINE g == NextGen
  <2>1. EdgeFacts(ctl.cmd, ctl.edge)
    BY <1>1, InHand
  <2>2. FreeGens # {}
    BY <1>1, <2>1 DEF AppInv, GenLeft, EdgeFacts
  <2>3. g \in Gens /\ \A w \in Workers : ~Live(thr[<<g, w>>])
    BY <2>2, NextGenFree
  <2>4. /\ thr' = [thr EXCEPT ![<<g, "input">>] = "starting", ![<<g, "output">>] = "starting"]
        /\ handle' = g /\ Goto("wait")
        /\ hist' = [hist EXCEPT !.quiet = FALSE] \/ hist' = hist
        /\ UNCHANGED <<kind, auto, stack, primary, reply, core, active, alive>>
    BY <1>3 DEF MakeThreads
  <2> HIDE DEF g
  <2>5. /\ thr' \in [Gens \X Workers -> ThreadStates]
        /\ \A h \in Gens, w \in Workers :
             thr'[<<h, w>>] = IF h = g /\ w \in {"input", "output"} THEN "starting" ELSE thr[<<h, w>>]
    BY <1>1, <2>3, <2>4 DEF Types, ThreadStates, Workers
  <2>6. Owned'
    BY <1>1, <2>4, <2>5 DEF Types, Owned, Owns
  <2>7. ASSUME ~hist.irregular PROVE Regular'
    <3>1. LiveThreads = {} /\ (op # "resume" => ~core.running) /\ Regular
      BY <1>1, <2>7, BeforeOperation DEF AppInv
    <3>2. \A h \in Gens, w \in Workers : thr[<<h, w>>] = "none"
      BY <1>1, <3>1, NoneLive
    <3>3. \A h \in Gens, w \in Workers : thr'[<<h, w>>] \in {"none", "starting"} /\ (thr'[<<h, w>>] = "starting" => h = g)
      BY <2>5, <3>2
    <3>4. ctl'.pc = "wait" /\ ctl'.edge = ctl.edge
      BY <1>1, <2>4 DEF Goto, Types, Commands
    <3>5. Handled'
      <4>1. active = {}
        BY <3>1, <3>2 DEF Regular, Handled, Up
      <4>2. \A h \in Gens, w \in Workers : ~Up(h, w)'
        BY <3>3 DEF Up
      <4> QED BY <2>4, <3>3, <4>1, <4>2 DEF Handled, Live
    <3>6. NoThreadOutOfRun' /\ RunningFlag'
      BY <1>1, <2>4, <3>1, <3>4 DEF NoThreadOutOfRun, RunningFlag, OutOfRun, NotRunning, NoCommand
    <3>7. LoopsRunning' /\ FailureHeard' /\ BothRun'
      BY <3>3, <3>4 DEF LoopsRunning, FailureHeard, BothRun, NoCommand, Workers
    <3> QED BY <3>4, <3>5, <3>6, <3>7 DEF Regular, NoCommand
  <2>8. /\ hist' \in [irregular : BOOLEAN, quiet : BOOLEAN] /\ hist'.irregular = hist.irregular
        /\ handle' \in 0 .. MaxGen /\ core' \in Cores /\ (core'.bufStop => ~core'.running)
    <3>1. hist' \in [irregular : BOOLEAN, quiet : BOOLEAN] /\ hist'.irregular = hist.irregular
      BY <1>1, <2>4 DEF Types
    <3>2. handle' \in 0 .. MaxGen
      BY <2>3, <2>4, MaxGenAssumption DEF Gens
    <3>3. core' \in Cores /\ (core'.bufStop => ~core'.running)
      BY <1>1, <2>4 DEF Types, AppInv, BufferTold
    <3> QED BY <3>1, <3>2, <3>3
  <2>9. "wait" \in StepsOf(ctl.edge.op)
    BY <1>1 DEF StepsOf
  <2> QED BY <1>1, <2>4, <2>5, <2>6, <2>7, <2>8, <2>9, GotoInv
<1> QED BY <1>2, <1>3

LEMMA BeginInv ==
  ASSUME AppInv, NEW op \in {"start", "resume"}, Begin(op)
  PROVE  AppInv'
<1>1. /\ alive = "up" /\ ctl.pc = "wait" /\ ctl.edge.op = op /\ kind = "BoardReader" /\ ~NoCommand /\ Types
      /\ active = {"input", "output"} /\ core' = BeginStart(op) /\ Goto("begun")
      /\ UNCHANGED <<kind, auto, stack, primary, reply, thr, handle, active, alive, hist>>
  BY DEF Begin, At, NoCommand, AppInv
<1>2. /\ core' \in Cores /\ core'.fresh = core.fresh /\ core'.parts = core.parts /\ ~core'.should_stop
      /\ core'.running = (op = "start" \/ core.running)
      /\ core'.bufStop => ~core'.running
  BY <1>1 DEF BeginStart, Types, Cores, AppInv, BufferTold
<1>3. ctl'.pc = "begun" /\ ctl'.edge = ctl.edge
  BY <1>1 DEF Goto, Types, Commands
<1>4. ASSUME ~hist.irregular PROVE Regular'
  <2>1. Regular
    BY <1>4 DEF AppInv
  <2>2. \A w \in {"input", "output"} : \E g \in Gens : Live(thr[<<g, w>>])
    BY <1>1, <2>1 DEF Regular, Handled, Up, Live
  <2>3. Handled'
    BY <1>1, <2>1 DEF Regular, Handled, Up
  <2>4. NoThreadOutOfRun' /\ RunningFlag'
    BY <1>1, <1>3 DEF NoThreadOutOfRun, RunningFlag, OutOfRun, NotRunning, NoCommand
  <2>5. LoopsRunning' /\ FailureHeard'
    BY <1>1, <1>2, <1>3, <2>1 DEF Regular, LoopsRunning, FailureHeard, NoCommand
  <2>6. BothRun'
    BY <1>1, <1>2, <2>2 DEF BothRun
  <2> QED BY <1>3, <2>3, <2>4, <2>5, <2>6 DEF Regular, NoCommand
<1>5. "begun" \in StepsOf(ctl.edge.op) /\ Owned'
  BY <1>1, OwnedKept DEF StepsOf, Types
<1> QED BY <1>1, <1>2, <1>4, <1>5, GotoInv DEF Types
LEMMA BegunInv ==
  ASSUME AppInv, NEW op \in {"start", "resume"}, Begun(op)
  PROVE  AppInv'
<1>1. /\ alive = "up" /\ ctl.pc = "begun" /\ ctl.edge.op = op /\ kind = "BoardReader" /\ ~NoCommand /\ Types
      /\ Finish("ok", core) /\ UNCHANGED <<kind, auto, thr, handle, active, hist>>
  BY DEF Begun, At, NoCommand, AppInv
<1>2. EdgeFacts(ctl.cmd, ctl.edge) /\ "ok" \in Results /\ core \in Cores
  BY <1>1, InHand DEF Results, Types
<1>3. /\ Owned' /\ (core.bufStop => ~core.running) /\ (core.parts \/ ~core.fresh)
      /\ hist.irregular \/ ctl.cmd # "auto_run"
  BY <1>1, OwnedKept DEF AppInv, Types, BufferTold, FreshHasParts, CommandShape
<1>4. ASSUME ~hist.irregular, ctl' = Idle PROVE Regular'
  <2>1. Regular /\ ctl.cmd # "auto_run"
    BY <1>3, <1>4 DEF AppInv
  <2>2. stack' = Running
    BY <1>1, <1>2, <2>1, Finished DEF Lands, EdgeFacts
  <2>3. core' = core
    BY <1>1, <1>2, <2>2, Finished, StacksDiffer
  <2>4. ctl'.pc = "idle"
    BY <1>4 DEF Idle
  <2>5. Handled'
    BY <1>1, <2>1 DEF Regular, Handled, Up
  <2>6. NoThreadOutOfRun' /\ RunningFlag'
    BY <1>1, <2>2, <2>4, StacksDiffer DEF NoThreadOutOfRun, RunningFlag, OutOfRun, NotRunning, NoCommand
  <2>7. LoopsRunning' /\ FailureHeard' /\ BothRun'
    BY <1>1, <2>1, <2>2, <2>3, <2>4, StacksDiffer DEF Regular, LoopsRunning, FailureHeard, BothRun, NoCommand
  <2> QED BY <2>2, <2>5, <2>6, <2>7, StacksDiffer DEF Regular
<1> QED BY <1>1, <1>2, <1>3, <1>4, FinishInv DEF Types

\* A command that fails makes the process irregular.
LEMMA FailsInv ==
  ASSUME AppInv, alive = "up", ctl.pc \in {"wait", "mutex"}, NEW r \in {"no", "throw"}, NEW c \in Cores, Finish(r, c),
         c.bufStop => ~c.running, c.parts = core.parts, c.fresh = core.fresh,
         hist' = [hist EXCEPT !.irregular = TRUE], UNCHANGED <<kind, auto, thr, handle, active>>
  PROVE  AppInv'
<1>1. ~NoCommand /\ Types /\ r \in Results
  BY DEF NoCommand, AppInv, Results
<1>2. /\ Owned' /\ (c.parts \/ ~c.fresh)
  BY <1>1, OwnedKept DEF AppInv, Types, FreshHasParts
<1>3. ~(~hist.irregular /\ hist' = hist)
  BY <1>1 DEF Types
<1> QED BY <1>1, <1>2, <1>3, FinishInv DEF Types

LEMMA FailingInv ==
  ASSUME AppInv, NEW op, BeginThrows(op) \/ WaitTimeout(op) \/ StopThrows(op)
  PROVE  AppInv'
<1>1. core \in Cores /\ (core.bufStop => ~core.running)
  BY DEF AppInv, Types, BufferTold
<1>2. CASE BeginThrows(op)
  <2> DEFINE c == [BeginStart(op) EXCEPT !.running = core.running]
  <2>1. /\ c \in Cores /\ (c.bufStop => ~c.running) /\ c.parts = core.parts /\ c.fresh = core.fresh
    BY <1>1 DEF BeginStart, Cores
  <2>2. Finish("throw", c) /\ alive = "up" /\ ctl.pc = "wait" /\ hist' = [hist EXCEPT !.irregular = TRUE]
        /\ UNCHANGED <<kind, auto, thr, handle, active>>
    BY <1>2 DEF BeginThrows, At
  <2> HIDE DEF c
  <2> QED BY <2>1, <2>2, FailsInv
<1>3. CASE WaitTimeout(op)
  <2>1. Finish("no", core) /\ alive = "up" /\ ctl.pc = "wait" /\ hist' = [hist EXCEPT !.irregular = TRUE]
        /\ UNCHANGED <<kind, auto, thr, handle, active>>
    BY <1>3 DEF WaitTimeout, At
  <2> QED BY <1>1, <2>1, FailsInv
<1>4. CASE StopThrows(op)
  <2>1. Finish("throw", core) /\ alive = "up" /\ ctl.pc = "mutex" /\ hist' = [hist EXCEPT !.irregular = TRUE]
        /\ UNCHANGED <<kind, auto, thr, handle, active>>
    BY <1>4 DEF StopThrows, At
  <2> QED BY <1>1, <2>1, FailsInv
<1> QED BY <1>2, <1>3, <1>4

LEMMA TellStopInv ==
  ASSUME AppInv, NEW op \in {"stop", "pause"}, TellStop(op)
  PROVE  AppInv'
<1>1. /\ alive = "up" /\ ctl.pc = "do" /\ ctl.edge.op = op /\ kind = "BoardReader" /\ ~NoCommand /\ Types
      /\ core' = [core EXCEPT !.should_stop = TRUE] /\ Goto("mutex")
      /\ UNCHANGED <<kind, auto, stack, primary, reply, thr, handle, active, alive, hist>>
  BY DEF TellStop, Threads, Doing, NoCommand, AppInv
<1>2. /\ core' \in Cores /\ core'.fresh = core.fresh /\ core'.parts = core.parts /\ core'.running = core.running
      /\ core'.bufStop => ~core'.running
  BY <1>1 DEF Types, Cores, AppInv, BufferTold
<1>3. ctl'.pc = "mutex" /\ ctl'.edge = ctl.edge
  BY <1>1 DEF Goto, Types, Commands
<1>4. ASSUME ~hist.irregular PROVE Regular'
  <2>1. Regular
    BY <1>4 DEF AppInv
  <2>2. Handled'
    BY <1>1, <2>1 DEF Regular, Handled, Up
  <2>3. NoThreadOutOfRun' /\ RunningFlag'
    BY <1>1, <1>3 DEF NoThreadOutOfRun, RunningFlag, OutOfRun, NotRunning, NoCommand
  <2>4. LoopsRunning' /\ FailureHeard' /\ BothRun'
    BY <1>1, <1>2, <1>3, <2>1 DEF Regular, LoopsRunning, FailureHeard, BothRun, NoCommand
  <2> QED BY <1>3, <2>2, <2>3, <2>4 DEF Regular, NoCommand
<1>5. "mutex" \in StepsOf(ctl.edge.op) /\ Owned'
  BY <1>1, OwnedKept DEF StepsOf, Types
<1> QED BY <1>1, <1>2, <1>4, <1>5, GotoInv DEF Types

LEMMA StoppedInv ==
  ASSUME AppInv, NEW op \in {"stop", "pause"}, Stopped(op)
  PROVE  AppInv'
<1>1. /\ alive = "up" /\ ctl.pc = "mutex" /\ ctl.edge.op = op /\ kind = "BoardReader" /\ ~NoCommand /\ Types
      /\ core' = StopCore(op) /\ Goto("join")
      /\ UNCHANGED <<kind, auto, stack, primary, reply, thr, handle, active, alive, hist>>
  BY DEF Stopped, At, NoCommand, AppInv
<1>2. /\ core' \in Cores /\ core'.fresh = core.fresh /\ core'.parts = core.parts
      /\ core'.running = (op # "stop" /\ core.running)
      /\ core'.bufStop => ~core'.running
  BY <1>1 DEF StopCore, Types, Cores, AppInv, BufferTold
<1>3. ctl'.pc = "join" /\ ctl'.edge = ctl.edge
  BY <1>1 DEF Goto, Types, Commands
<1>4. ASSUME ~hist.irregular PROVE Regular'
  <2>1. Regular
    BY <1>4 DEF AppInv
  <2>2. Handled'
    BY <1>1, <2>1 DEF Regular, Handled, Up
  <2>3. NoThreadOutOfRun' /\ RunningFlag'
    BY <1>1, <1>2, <1>3 DEF NoThreadOutOfRun, RunningFlag, OutOfRun, NotRunning, NoCommand
  <2>4. LoopsRunning' /\ FailureHeard' /\ BothRun'
    BY <1>1, <1>2, <1>3, <2>1 DEF Regular, LoopsRunning, FailureHeard, BothRun, NoCommand
  <2> QED BY <1>3, <2>2, <2>3, <2>4 DEF Regular, NoCommand
<1>5. "join" \in StepsOf(ctl.edge.op) /\ Owned'
  BY <1>1, OwnedKept DEF StepsOf, Types
<1> QED BY <1>1, <1>2, <1>4, <1>5, GotoInv DEF Types

LEMMA ShutdownCoreInv == AppInv /\ ShutdownCore => AppInv'
<1> SUFFICES ASSUME AppInv, ShutdownCore PROVE AppInv'
  OBVIOUS
<1>1. /\ alive = "up" /\ ctl.pc = "do" /\ ctl.edge.op = "shutdown" /\ kind = "BoardReader" /\ ~NoCommand /\ Types
  BY DEF ShutdownCore, Threads, Doing, NoCommand, AppInv
<1>2. CASE ~core.parts
  BY <1>1, <1>2, NullInv DEF ShutdownCore
<1>3. CASE core.parts
  <2>1. /\ core' = [core EXCEPT !.should_stop = TRUE, !.parts = FALSE] /\ Goto("join")
        /\ UNCHANGED <<kind, auto, stack, primary, reply, thr, handle, active, alive, hist>>
    BY <1>3 DEF ShutdownCore
  <2>2. /\ core' \in Cores /\ core'.fresh = core.fresh /\ core'.running = core.running
        /\ core'.bufStop => ~core'.running
    BY <1>1, <2>1 DEF Types, Cores, AppInv, BufferTold
  <2>3. ctl'.pc = "join" /\ ctl'.edge = ctl.edge
    BY <1>1, <2>1 DEF Goto, Types, Commands
  <2>4. ASSUME ~hist.irregular PROVE Regular'
    <3>1. Regular /\ LiveThreads = {} /\ ~core.running
      BY <1>1, <2>4, BeforeOperation DEF AppInv
    <3>2. Handled'
      BY <2>1, <3>1 DEF Regular, Handled, Up
    <3>3. NoThreadOutOfRun' /\ RunningFlag'
      BY <2>1, <2>2, <3>1 DEF NoThreadOutOfRun, RunningFlag, LiveThreads
    <3>4. LoopsRunning' /\ FailureHeard' /\ BothRun'
      BY <1>1, <2>1, <2>2, <2>3, <3>1 DEF Regular, LoopsRunning, FailureHeard, BothRun, NoCommand
    <3> QED BY <2>3, <3>2, <3>3, <3>4 DEF Regular, NoCommand
  <2>5. "join" \in StepsOf(ctl.edge.op) /\ Owned'
    BY <1>1, <2>1, OwnedKept DEF StepsOf, Types
  <2> QED BY <1>1, <2>1, <2>2, <2>4, <2>5, GotoInv DEF Types
<1> QED BY <1>2, <1>3

\* When the threads the application has hold of have ended, no other lives.
LEMMA JoinedNone ==
  ASSUME AppInv, ~hist.irregular, Joined
  PROVE  LiveThreads = {}
<1>1. Types /\ Handled
  BY DEF AppInv, Regular
<1>2. ASSUME NEW g \in Gens, NEW w \in Workers, Live(thr[<<g, w>>])
      PROVE  FALSE
  <2>1. g = handle
    BY <1>1, <1>2 DEF Handled
  <2>2. handle # 0
    BY <2>1, MaxGenAssumption DEF Gens
  <2> QED BY <1>2, <2>1, <2>2 DEF Joined
<1> QED BY <1>1, <1>2, NoneLive DEF Live

LEMMA JoinInv ==
  ASSUME AppInv, NEW op \in {"stop", "pause", "shutdown"}, Join(op)
  PROVE  AppInv'
<1>1. /\ alive = "up" /\ ctl.pc = "join" /\ ctl.edge.op = op /\ kind = "BoardReader" /\ ~NoCommand /\ Types
      /\ Joined /\ Finish("ok", core) /\ handle' = 0 /\ UNCHANGED <<kind, auto, thr, active, hist>>
  BY DEF Join, At, NoCommand, AppInv
<1>2. EdgeFacts(ctl.cmd, ctl.edge) /\ "ok" \in Results /\ core \in Cores /\ 0 \in 0 .. MaxGen
  BY <1>1, InHand, MaxGenAssumption DEF Results, Types
<1>3. /\ Owned' /\ (core.bufStop => ~core.running)
      /\ core.parts \/ ~core.fresh \/ ctl.edge.op = "shutdown"
      /\ hist.irregular \/ ctl.cmd # "auto_run"
  BY <1>1, OwnedKept DEF AppInv, Types, BufferTold, FreshHasParts, CommandShape
<1>4. ASSUME ~hist.irregular, ctl' = Idle PROVE Regular'
  <2>1. LiveThreads = {} /\ Regular
    BY <1>1, <1>4, JoinedNone DEF AppInv
  <2>2. /\ Lands("ok") \in {Ready, Paused, Booted, MainInit}
        /\ op # "pause" <=> Lands("ok") # Paused
    BY <1>1, <1>2, StacksDiffer DEF Lands, EdgeFacts
  <2>3. Lands("ok") # Paused => ~core.running
    BY <1>1, <2>1, <2>2 DEF Regular, RunningFlag, NotRunning
  <2>4. Lands("ok") # InRun /\ Lands("ok") # Running
    BY <2>2, StacksDiffer
  <2> QED BY <1>1, <1>2, <1>4, <2>1, <2>3, <2>4, QuietRegular
<1> QED BY <1>1, <1>2, <1>3, <1>4, FinishInv DEF Types

-------------------------------------------------------------------------------
(* Threads *)

\* What a step of a thread, or one that only tells the core something, need not touch.
LEMMA ThreadInv ==
  ASSUME AppInv, UNCHANGED <<kind, auto, stack, primary, ctl, reply, handle, alive>>,
         thr' \in [Gens \X Workers -> ThreadStates], active' \subseteq Workers,
         \A g \in Gens, w \in Workers : Live(thr[<<g, w>>])' => Live(thr[<<g, w>>]),
         core' \in Cores, core'.fresh = core.fresh, core'.parts = core.parts, core'.bufStop => ~core'.running,
         hist' \in [irregular : BOOLEAN, quiet : BOOLEAN], hist'.irregular = hist.irregular,
         ~hist.irregular => Regular'
  PROVE  AppInv'
<1>1. Types /\ Types'
  BY DEF AppInv, Types, Owned, Owns
<1>2. FreeGens \subseteq FreeGens'
  BY DEF FreeGens
<1>3. CommandShape' /\ GenLeft' /\ FreshHasParts' /\ ReplyFresh' /\ BufferTold' /\ CrashExplained'
  BY <1>2 DEF AppInv, CommandShape, NoCommand, GenLeft, FreshHasParts, ReplyFresh, BufferTold, CrashExplained
<1> QED BY <1>1, <1>3 DEF AppInv

\* A live thread is the application's own, and the process is in a run.
LEMMA LiveInRun ==
  ASSUME AppInv, ~hist.irregular, NEW g \in Gens, NEW w \in Workers, Live(thr[<<g, w>>])
  PROVE  /\ ~OutOfRun /\ Owns(w)
         /\ \A h \in Gens, v \in Workers : Live(thr[<<h, v>>]) => h = g
         /\ NoCommand => stack \in {Running, InRunError}
<1>1. Regular /\ Types
  BY DEF AppInv
<1>2. ~OutOfRun
  BY <1>1, NoneLive DEF Regular, NoThreadOutOfRun, Live
<1>3. \A h \in Gens, v \in Workers : Live(thr[<<h, v>>]) => h = g
  BY <1>1 DEF Regular, Handled
<1>4. NoCommand => stack \in {Running, InRunError}
  BY <1>1, <1>2 DEF Regular, OutOfRun, Types, Stacks
<1> QED BY <1>1, <1>2, <1>3, <1>4 DEF Types, Owned

\* A thread of a board reader takes a step in a process that has been regular so far.
LEMMA ThreadRegular ==
  ASSUME AppInv, ~hist.irregular, kind = "BoardReader", UNCHANGED <<kind, stack, ctl, handle>>,
         NEW g \in Gens, NEW w \in {"input", "output"}, Live(thr[<<g, w>>]),
         NEW t \in ThreadStates, thr' = [thr EXCEPT ![<<g, w>>] = t],
         active' = IF t \in {"waiting", "looping", "reading"} THEN active \cup {w} ELSE active \ {w},
         core'.running = core.running, core'.should_stop = core.should_stop,
         hist'.quiet = hist.quiet \/ hist'.quiet,
         t \in {"looping", "reading", "failing"} =>
            core.running \/ thr[<<g, w>>] \in {"looping", "reading", "failing"},
         t = "failing" => w = "input" \/ ctl.pc = "join",
         t = "none" /\ (ctl.pc = "begun" \/ (NoCommand /\ stack = Running)) => hist'.quiet
  PROVE  Regular'
<1>1. Regular /\ Types /\ w \in Workers
  BY DEF AppInv, Workers
<1>2. /\ ~OutOfRun
      /\ \A h \in Gens, v \in Workers : Live(thr[<<h, v>>]) => h = g
      /\ NoCommand => stack \in {Running, InRunError}
  BY <1>1, LiveInRun
<1>3. /\ \A h \in Gens, v \in Workers : thr'[<<h, v>>] = IF h = g /\ v = w THEN t ELSE thr[<<h, v>>]
      /\ \A h \in Gens, v \in Workers : h # g => thr[<<h, v>>] = "none" /\ thr'[<<h, v>>] = "none"
  BY <1>1, <1>2 DEF Types, Live
<1>4. Handled'
  <2>1. \A h \in Gens, v \in Workers : Live(thr'[<<h, v>>]) => h = handle'
    BY <1>1, <1>3 DEF Regular, Handled, Live
  <2>2. ASSUME NEW v \in Workers
        PROVE  v \in active' <=> \E h \in Gens : Up(h, v)'
    <3>1. v \in active <=> Up(g, v)
      BY <1>1, <1>3 DEF Regular, Handled, Up
    <3>2. (\E h \in Gens : Up(h, v)') <=> Up(g, v)'
      BY <1>3 DEF Up
    <3>3. v # w => (Up(g, v)' <=> Up(g, v)) /\ (v \in active' <=> v \in active)
      BY <1>3 DEF Up
    <3>4. v = w => (Up(g, v)' <=> t \in {"waiting", "looping", "reading"})
      BY <1>3 DEF Up
    <3>5. v = w => (v \in active' <=> t \in {"waiting", "looping", "reading"})
      OBVIOUS
    <3> QED BY <3>1, <3>2, <3>3, <3>4, <3>5
  <2>3. active' = {v \in Workers : kind' = "BoardReader" /\ \E h \in Gens : Up(h, v)'}
    <3>1. active' \subseteq Workers
      BY <1>1 DEF Types
    <3> QED BY <2>2, <3>1
  <2> QED BY <2>1, <2>3 DEF Handled
<1>5. NoThreadOutOfRun'
  BY <1>2 DEF NoThreadOutOfRun, OutOfRun, NoCommand
<1>6. RunningFlag'
  BY <1>1 DEF Regular, RunningFlag, NotRunning, NoCommand
<1>7. LoopsRunning'
  BY <1>1, <1>3 DEF Regular, LoopsRunning
<1>8. FailureHeard'
  <2>1. Live(thr[<<g, "input">>]) /\ NoCommand => stack # InRunError
    BY <1>1 DEF Regular, FailureHeard, Live
  <2>2. \A h \in Gens : thr'[<<h, "output">>] = "failing" => ctl.pc = "join"
    BY <1>1, <1>3 DEF Regular, FailureHeard, Workers
  <2>3. \A h \in Gens : thr'[<<h, "input">>] = "failing" /\ NoCommand => stack = Running
    BY <1>1, <1>2, <1>3, <2>1 DEF Regular, FailureHeard, Workers
  <2>4. NoCommand /\ stack = InRunError => \A h \in Gens : thr'[<<h, "input">>] = "none"
    BY <1>1, <1>3, <2>1 DEF Regular, FailureHeard, Workers
  <2> QED BY <2>2, <2>3, <2>4 DEF FailureHeard, NoCommand
<1>9. BothRun'
  <2> SUFFICES ASSUME ctl.pc = "begun" \/ (NoCommand /\ stack = Running)
               PROVE  /\ ~core'.should_stop
                      /\ ~hist'.quiet => \A v \in {"input", "output"} : \E h \in Gens : Live(thr'[<<h, v>>])
    BY DEF BothRun, NoCommand
  <2>1. /\ ~core.should_stop
        /\ ~hist.quiet => \A v \in {"input", "output"} : \E h \in Gens : Live(thr[<<h, v>>])
    BY <1>1 DEF Regular, BothRun
  <2>2. ASSUME ~hist'.quiet, NEW v \in {"input", "output"} PROVE Live(thr'[<<g, v>>])
    <3>1. v \in Workers /\ ~hist.quiet
      BY <2>2 DEF Workers
    <3>2. Live(thr[<<g, v>>])
      BY <1>2, <2>1, <3>1
    <3> QED BY <1>3, <2>2, <3>1, <3>2 DEF Live
  <2> QED BY <2>1, <2>2
<1> QED BY <1>1, <1>4, <1>5, <1>6, <1>7, <1>8, <1>9 DEF Regular, NoCommand

\* What a step of a thread finds.
LEMMA ThreadFacts ==
  ASSUME AppInv, NEW g \in Gens, NEW w \in Workers, NEW t \in ThreadStates \ {"none"}, Running_(g, w, t)
  PROVE  /\ alive = "up" /\ kind = "BoardReader" /\ thr[<<g, w>>] = t /\ w \in {"input", "output"}
         /\ Live(thr[<<g, w>>]) /\ Types
         /\ core \in Cores /\ (core.bufStop => ~core.running)
         /\ hist \in [irregular : BOOLEAN, quiet : BOOLEAN]
BY DEF AppInv, Types, Owned, Owns, Live, Running_, BufferTold

\* The thread g, w goes on as t, or is gone.
LEMMA StepInv ==
  ASSUME AppInv, NEW g \in Gens, NEW w \in Workers, kind = "BoardReader", Live(thr[<<g, w>>]),
         NEW t \in ThreadStates, Step(g, w, t), OthersUnchanged,
         active' \in {active, active \cup {w}, active \ {w}},
         ~hist.irregular => active' = IF t \in {"waiting", "looping", "reading"} THEN active \cup {w}
                                                                                ELSE active \ {w},
         core' = core \/ core' = [core EXCEPT !.exception = TRUE],
         hist' = hist \/ hist' = [hist EXCEPT !.quiet = TRUE],
         ~hist.irregular /\ t \in {"looping", "reading", "failing"} =>
            core.running \/ thr[<<g, w>>] \in {"looping", "reading", "failing"},
         ~hist.irregular /\ t = "failing" => w = "input" \/ ctl.pc = "join",
         ~hist.irregular /\ t = "none" /\ (ctl.pc = "begun" \/ (NoCommand /\ stack = Running)) => hist'.quiet
  PROVE  AppInv'
<1>1. Types /\ w \in {"input", "output"} /\ core \in Cores /\ (core.bufStop => ~core.running)
      /\ hist \in [irregular : BOOLEAN, quiet : BOOLEAN]
  BY DEF AppInv, Types, Owned, Owns, Live, BufferTold
<1>2. thr' = [thr EXCEPT ![<<g, w>>] = t] /\ UNCHANGED <<kind, auto, stack, primary, ctl, reply, handle, alive>>
  BY DEF Step, OthersUnchanged
<1>3. /\ core' \in Cores /\ core'.fresh = core.fresh /\ core'.parts = core.parts /\ core'.bufStop = core.bufStop
      /\ core'.running = core.running /\ core'.should_stop = core.should_stop
  BY <1>1 DEF Cores
<1>4. /\ hist' \in [irregular : BOOLEAN, quiet : BOOLEAN] /\ hist'.irregular = hist.irregular
      /\ hist'.quiet = hist.quiet \/ hist'.quiet
  BY <1>1
<1>5. /\ thr' \in [Gens \X Workers -> ThreadStates]
      /\ \A h \in Gens, v \in Workers : Live(thr[<<h, v>>])' => Live(thr[<<h, v>>])
  BY <1>1, <1>2 DEF Types, Live
<1>6. active' \subseteq Workers
  BY <1>1 DEF Types
<1>7. ~hist.irregular => Regular'
  BY <1>1, <1>2, <1>3, <1>4, ThreadRegular
<1> QED BY <1>1, <1>2, <1>3, <1>4, <1>5, <1>6, <1>7, ThreadInv

\* A thread of a regular process that waits, loops or reads is known to be active.
LEMMA UpActive ==
  ASSUME AppInv, NEW g \in Gens, NEW w \in Workers, kind = "BoardReader", Up(g, w)
  PROVE  ~hist.irregular => active = active \cup {w}
BY DEF AppInv, Regular, Handled

LEMMA ComesUpInv ==
  ASSUME AppInv, NEW g \in Gens, NEW w \in Workers,
         ThreadActive(g, w) \/ ThreadRuns(g, w) \/ ThreadGivesUp(g, w)
  PROVE  AppInv'
<1>1. CASE ThreadActive(g, w)
  <2>1. Running_(g, w, "starting") /\ Step(g, w, "waiting") /\ active' = active \cup {w}
        /\ core' = core /\ hist' = hist /\ OthersUnchanged
    BY <1>1 DEF ThreadActive
  <2>2. kind = "BoardReader" /\ Live(thr[<<g, w>>]) /\ "waiting" \in ThreadStates
    BY <2>1, ThreadFacts DEF ThreadStates
  <2> QED BY <2>1, <2>2, StepInv
<1>2. CASE ThreadRuns(g, w)
  <2>1. Running_(g, w, "waiting") /\ Step(g, w, "looping") /\ core.running
        /\ core' = core /\ hist' = hist /\ OthersUnchanged /\ active' = active
    BY <1>2 DEF ThreadRuns
  <2>2. kind = "BoardReader" /\ Live(thr[<<g, w>>]) /\ "looping" \in ThreadStates /\ thr[<<g, w>>] = "waiting"
    BY <2>1, ThreadFacts DEF ThreadStates
  <2>3. ~hist.irregular => active = active \cup {w}
    BY <2>2, UpActive DEF Up
  <2> QED BY <2>1, <2>2, <2>3, StepInv
<1>3. CASE ThreadGivesUp(g, w)
  <2>1. Running_(g, w, "waiting") /\ Step(g, w, "none") /\ active' = active \ {w}
        /\ core' = core /\ hist' = [hist EXCEPT !.quiet = TRUE] /\ OthersUnchanged
    BY <1>3 DEF ThreadGivesUp
  <2>2. kind = "BoardReader" /\ Live(thr[<<g, w>>]) /\ "none" \in ThreadStates /\ hist'.quiet
    BY <2>1, ThreadFacts DEF ThreadStates
  <2> QED BY <2>1, <2>2, StepInv
<1> QED BY <1>1, <1>2, <1>3

\* The loop of a thread ends: a failure is left behind if there is an exception.
LEMMA LoopEndsInv ==
  ASSUME AppInv, NEW g \in Gens, NEW w \in {"input", "output"}, alive = "up", kind = "BoardReader",
         thr[<<g, w>>] \in {"looping", "reading"}, LoopEnds(g, w), OthersUnchanged,
         core' = core \/ core' = [core EXCEPT !.exception = TRUE],
         hist' = hist,
         ~hist.irregular /\ core'.exception => w = "input" \/ ctl.pc = "join",
         ~hist.irregular /\ (ctl.pc = "begun" \/ (NoCommand /\ stack = Running)) => core'.exception
  PROVE  AppInv'
<1> DEFINE t == IF core'.exception THEN "failing" ELSE "none"
<1>1. w \in Workers /\ t \in ThreadStates /\ Live(thr[<<g, w>>])
  BY DEF Workers, ThreadStates, Live
<1>2. Step(g, w, t) /\ active' = active \ {w}
  BY DEF LoopEnds
<1>3. (t = "failing" <=> core'.exception) /\ t \in {"failing", "none"}
  OBVIOUS
<1> HIDE DEF t
<1> QED BY <1>1, <1>2, <1>3, StepInv

LEMMA GetNextInv ==
  ASSUME AppInv, NEW g \in Gens, GetNext(g)
  PROVE  AppInv'
<1>1. /\ Running_(g, "input", "looping") /\ hist' = hist /\ OthersUnchanged /\ "input" \in Workers
      /\ "looping" \in ThreadStates \ {"none"}
  BY DEF GetNext, Workers, ThreadStates
<1>2. alive = "up" /\ kind = "BoardReader" /\ thr[<<g, "input">>] = "looping" /\ Live(thr[<<g, "input">>])
  BY <1>1, ThreadFacts
<1>3. ~hist.irregular => active = active \cup {"input"}
  BY <1>1, <1>2, UpActive DEF Up
<1>4. CASE core.exception \/ core.should_stop \/ "input" \notin active
  <2>1. core' = core /\ LoopEnds(g, "input")
    BY <1>4 DEF GetNext
  <2>2. ~hist.irregular /\ (ctl.pc = "begun" \/ (NoCommand /\ stack = Running)) => core.exception
    BY <1>2, <1>3, <1>4 DEF AppInv, Regular, BothRun
  <2> QED BY <1>1, <1>2, <2>1, <2>2, LoopEndsInv
<1>5. CASE ~(core.exception \/ core.should_stop \/ "input" \notin active)
  <2>1. Step(g, "input", "reading") /\ core' = core /\ active' = active
    BY <1>5 DEF GetNext
  <2>2. "reading" \in ThreadStates
    BY DEF ThreadStates
  <2> QED BY <1>1, <1>2, <1>3, <2>1, <2>2, StepInv
<1> QED BY <1>4, <1>5

LEMMA ReadsInv ==
  ASSUME AppInv, NEW g \in Gens, GetNextAnswers(g) \/ GetNextThrows(g) \/ GetNextEnds(g)
  PROVE  AppInv'
<1>1. Running_(g, "input", "reading") /\ OthersUnchanged /\ "input" \in Workers /\ "reading" \in ThreadStates \ {"none"}
  BY DEF GetNextAnswers, GetNextThrows, GetNextEnds, Workers, ThreadStates
<1>2. /\ alive = "up" /\ kind = "BoardReader" /\ thr[<<g, "input">>] = "reading" /\ Live(thr[<<g, "input">>])
      /\ core \in Cores /\ hist \in [irregular : BOOLEAN, quiet : BOOLEAN]
  BY <1>1, ThreadFacts
<1>3. CASE GetNextAnswers(g)
  <2>1. Step(g, "input", "looping") /\ core' = core /\ active' = active \cup {"input"} /\ hist' = hist
    BY <1>3 DEF GetNextAnswers
  <2>2. "looping" \in ThreadStates
    BY DEF ThreadStates
  <2> QED BY <1>1, <1>2, <2>1, <2>2, StepInv
<1>4. CASE GetNextThrows(g)
  <2>1. core' = [core EXCEPT !.exception = TRUE] /\ LoopEnds(g, "input") /\ hist' = hist
    BY <1>4 DEF GetNextThrows
  <2>2. core'.exception
    BY <1>2, <2>1 DEF Cores
  <2> QED BY <1>1, <1>2, <2>1, <2>2, LoopEndsInv
<1>5. CASE GetNextEnds(g)
  <2>1. Step(g, "input", "none") /\ core' = core /\ active' = active \ {"input"} /\ hist' = [hist EXCEPT !.quiet = TRUE]
    BY <1>5 DEF GetNextEnds
  <2>2. "none" \in ThreadStates /\ hist'.quiet
    BY <1>2, <2>1 DEF ThreadStates
  <2> QED BY <1>1, <1>2, <2>1, <2>2, StepInv
<1> QED BY <1>3, <1>4, <1>5

\* The buffer was told to stop, so running_ is unset, so a stop waits for the thread.
LEMMA ApplyRequestsEndsInv ==
  ASSUME AppInv, NEW g \in Gens, ApplyRequestsEnds(g)
  PROVE  AppInv'
<1>1. /\ Running_(g, "output", "looping") /\ OthersUnchanged /\ "output" \in Workers
      /\ "looping" \in ThreadStates \ {"none"}
      /\ core' = core /\ LoopEnds(g, "output") /\ hist' = hist /\ core.bufStop
  BY DEF ApplyRequestsEnds, Workers, ThreadStates
<1>2. /\ alive = "up" /\ kind = "BoardReader" /\ thr[<<g, "output">>] = "looping" /\ ~core.running
  BY <1>1, ThreadFacts
<1>3. ~hist.irregular => ctl.pc = "join"
  BY <1>1, <1>2 DEF AppInv, Regular, LoopsRunning
<1> QED BY <1>1, <1>2, <1>3, LoopEndsInv DEF NoCommand

\* A failure of a regular process is heard in Running.
LEMMA InRunFailureInv ==
  ASSUME AppInv, NEW g \in Gens, NEW w \in Workers, InRunFailure(g, w)
  PROVE  AppInv'
<1>1. Running_(g, w, "failing") /\ primary = "free" /\ "failing" \in ThreadStates \ {"none"}
  BY DEF InRunFailure, MayReport, ThreadStates
<1>2. /\ alive = "up" /\ kind = "BoardReader" /\ thr[<<g, w>>] = "failing" /\ w \in {"input", "output"}
      /\ Live(thr[<<g, w>>]) /\ Types /\ core \in Cores /\ (core.bufStop => ~core.running)
  BY <1>1, ThreadFacts
<1>3. NoCommand \/ (ctl.cmd = "auto_run" /\ hist.irregular)
  BY <1>1 DEF AppInv, CommandShape
<1>4. ~hist.irregular => stack = Running /\ w = "input" /\ NoCommand
  BY <1>2, <1>3 DEF AppInv, Regular, FailureHeard, NoCommand
<1>5. CASE stack # Running
  <2>1. Down("undefined_failure") /\ hist.irregular
    BY <1>4, <1>5 DEF InRunFailure
  <2> QED BY <2>1, DownInv DEF Faults
<1>6. CASE stack = Running
  <2>1. /\ stack' = InRunError /\ thr' = [thr EXCEPT ![<<g, w>>] = "none"]
        /\ UNCHANGED <<kind, auto, primary, ctl, reply, core, handle, active, alive, hist>>
    BY <1>6 DEF InRunFailure, Step
  <2>2. NoCommand
    <3>1. ~NoCommand => stack = Booted
      BY <1>3, InHand DEF EdgeFacts
    <3> QED BY <1>6, <3>1, StacksDiffer
  <2>3. /\ thr' \in [Gens \X Workers -> ThreadStates]
        /\ \A h \in Gens, v \in Workers : thr'[<<h, v>>] = IF h = g /\ v = w THEN "none" ELSE thr[<<h, v>>]
    BY <1>2, <2>1 DEF Types, ThreadStates
  <2>4. Types'
    <3>1. Owned'
      BY <1>2, <2>1, <2>3 DEF Types, Owned, Owns, Live
    <3> QED BY <1>2, <2>1, <2>3, <3>1 DEF Types, Stacks
  <2>5. FreeGens \subseteq FreeGens'
    BY <2>3 DEF FreeGens, Live
  <2>6. CommandShape' /\ GenLeft' /\ FreshHasParts' /\ ReplyFresh' /\ BufferTold' /\ CrashExplained'
    BY <2>1, <2>2, <2>5, StacksDiffer
       DEF AppInv, CommandShape, NoCommand, GenLeft, FreshHasParts, ReplyFresh, BufferTold, CrashExplained
  <2>7. ASSUME ~hist'.irregular PROVE Regular'
    <3>1. /\ Regular /\ w = "input"
          /\ \A h \in Gens, v \in Workers : Live(thr[<<h, v>>]) => h = g
      BY <1>2, <1>4, <2>1, <2>7, LiveInRun DEF AppInv
    <3>2. \A h \in Gens, v \in Workers : Up(h, v)' <=> Up(h, v)
      BY <1>2, <2>3 DEF Up
    <3>3. Handled'
      <4>1. \A h \in Gens, v \in Workers : Live(thr'[<<h, v>>]) => h = handle'
        BY <2>1, <2>3, <3>1 DEF Regular, Handled, Live
      <4>2. active = {v \in Workers : kind = "BoardReader" /\ \E h \in Gens : Up(h, v)}
        BY <3>1 DEF Regular, Handled
      <4>3. active' = {v \in Workers : kind' = "BoardReader" /\ \E h \in Gens : Up(h, v)'}
        BY <2>1, <3>2, <4>2
      <4> QED BY <4>1, <4>3 DEF Handled
    <3>4. ctl.pc # "join" /\ ctl.pc # "do" /\ ctl.pc # "begun" /\ ctl.pc # "wait"
      BY <2>2 DEF NoCommand
    <3>5. NoThreadOutOfRun' /\ RunningFlag' /\ BothRun'
      BY <1>2, <2>1, <3>4, StacksDiffer DEF NoThreadOutOfRun, OutOfRun, RunningFlag, NotRunning, BothRun, NoCommand
    <3>6. LoopsRunning'
      BY <2>1, <2>3, <3>1 DEF Regular, LoopsRunning
    <3>7. \A h \in Gens : thr'[<<h, "input">>] = "none" /\ thr'[<<h, "output">>] # "failing"
      <4>1. \A h \in Gens : h # g => thr[<<h, "input">>] = "none"
        BY <3>1 DEF Live, Workers
      <4>2. \A h \in Gens : thr[<<h, "output">>] # "failing"
        BY <3>1, <3>4 DEF Regular, FailureHeard
      <4> QED BY <2>3, <3>1, <4>1, <4>2 DEF Workers
    <3>8. FailureHeard'
      BY <3>7 DEF FailureHeard
    <3> QED BY <2>1, <3>3, <3>5, <3>6, <3>8, StacksDiffer DEF Regular
  <2> QED BY <2>4, <2>6, <2>7 DEF AppInv
<1> QED BY <1>5, <1>6

-------------------------------------------------------------------------------
(* A routing manager *)

\* The thread of a routing manager is none a board reader's invariant is about.
LEMMA TableOnly ==
  ASSUME kind = "RoutingManager", Types, NEW g \in Gens, NEW w \in {"input", "output"}
  PROVE  thr[<<g, w>>] = "none"
BY DEF Types, Owned, Owns, Live, Workers

LEMMA StartTableInv ==
  ASSUME AppInv, NEW op \in {"start", "resume"}, StartTable(op)
  PROVE  AppInv'
<1>1. /\ alive = "up" /\ ctl.pc = "do" /\ ctl.edge.op = op /\ kind = "RoutingManager" /\ ~NoCommand /\ Types
  BY DEF StartTable, Routing, Doing, NoCommand, AppInv
<1>2. CASE ~core.parts
  BY <1>1, <1>2, NullInv DEF StartTable
<1>3. CASE core.parts
  <2> DEFINE g == NextGen
             c == [core EXCEPT !.should_stop = FALSE]
  <2>1. EdgeFacts(ctl.cmd, ctl.edge)
    BY <1>1, InHand
  <2>2. FreeGens # {}
    BY <1>1, <2>1 DEF AppInv, GenLeft, EdgeFacts
  <2>3. g \in Gens /\ \A w \in Workers : ~Live(thr[<<g, w>>])
    BY <2>2, NextGenFree
  <2>4. /\ Finish("ok", c) /\ thr' = [thr EXCEPT ![<<g, "table">>] = "looping"] /\ handle' = g
        /\ UNCHANGED <<kind, auto, active, hist>>
    BY <1>3 DEF StartTable, Step
  <2>5. /\ c \in Cores /\ (c.bufStop => ~c.running) /\ c.parts /\ c.running = core.running
    BY <1>1, <1>3 DEF AppInv, BufferTold, Types, Cores
  <2> HIDE DEF g, c
  <2>6. /\ thr' \in [Gens \X Workers -> ThreadStates]
        /\ \A h \in Gens, w \in Workers :
             thr'[<<h, w>>] = IF h = g /\ w = "table" THEN "looping" ELSE thr[<<h, w>>]
    BY <1>1, <2>3, <2>4 DEF Types, ThreadStates, Workers
  <2>7. Owned'
    BY <1>1, <2>4, <2>6 DEF Types, Owned, Owns
  <2>8. handle' \in 0 .. MaxGen /\ active' \subseteq Workers
    BY <1>1, <2>3, <2>4, MaxGenAssumption DEF Gens, Types
  <2>9. ASSUME ~hist.irregular, ctl' = Idle PROVE Regular'
    <3>1. LiveThreads = {} /\ Regular /\ ctl.cmd # "auto_run"
      BY <1>1, <2>9, BeforeOperation DEF AppInv
    <3>2. \A h \in Gens, w \in Workers : thr[<<h, w>>] = "none"
      BY <1>1, <3>1, NoneLive
    <3>3. stack' = Running /\ core' = c
      <4>1. stack' = Lands("ok") /\ (core' = c \/ Lands("ok") = Booted)
        BY <1>1, <2>4, <2>5, Finished DEF Results
      <4> QED BY <1>1, <2>1, <3>1, <4>1, StacksDiffer DEF Lands, EdgeFacts
    <3>4. ctl'.pc = "idle"
      BY <2>9 DEF Idle
    <3>5. Handled'
      BY <1>1, <2>4, <2>6, <3>1, <3>2 DEF Regular, Handled, Live
    <3>6. NoThreadOutOfRun'
      BY <3>3, <3>4, StacksDiffer DEF NoThreadOutOfRun, OutOfRun, NoCommand
    <3>7. RunningFlag'
      BY <1>1, <2>5, <3>1, <3>3 DEF Regular, RunningFlag, NotRunning
    <3>8. LoopsRunning' /\ BothRun'
      BY <1>1, <2>4 DEF LoopsRunning, BothRun
    <3>9. FailureHeard'
      BY <2>6, <3>2, <3>3 DEF FailureHeard, Workers
    <3> QED BY <3>3, <3>5, <3>6, <3>7, <3>8, <3>9, StacksDiffer DEF Regular
  <2>10. ctl.cmd = "auto_run" => ctl.edge.op = "start"
    BY <1>1, <2>1 DEF EdgeFacts
  <2> QED BY <1>1, <2>4, <2>5, <2>6, <2>7, <2>8, <2>9, <2>10, FinishInv DEF Results
<1> QED BY <1>2, <1>3

LEMMA StopTableInv ==
  ASSUME AppInv, NEW op \in {"stop", "pause"}, StopTable(op)
  PROVE  AppInv'
<1>1. /\ alive = "up" /\ ctl.pc = "do" /\ ctl.edge.op = op /\ kind = "RoutingManager" /\ ~NoCommand /\ Types
  BY DEF StopTable, Routing, Doing, NoCommand, AppInv
<1>2. core \in Cores /\ (core.bufStop => ~core.running) /\ (core.parts \/ ~core.fresh)
  BY <1>1 DEF AppInv, BufferTold, FreshHasParts, Types
<1>3. CASE core.should_stop
  <2>1. Joined /\ Finish("ok", core) /\ handle' = 0 /\ UNCHANGED <<kind, auto, thr, active, hist>>
    BY <1>3 DEF StopTable
  <2>2. EdgeFacts(ctl.cmd, ctl.edge) /\ handle' \in 0 .. MaxGen
    BY <1>1, <2>1, InHand, MaxGenAssumption
  <2>3. ASSUME ~hist.irregular, ctl' = Idle PROVE Regular'
    <3>1. LiveThreads = {}
      BY <2>1, <2>3, JoinedNone
    <3>2. Lands("ok") \in {Ready, Paused}
      BY <1>1, <2>2 DEF Lands, EdgeFacts
    <3> QED BY <1>1, <1>2, <2>1, <2>2, <2>3, <3>1, <3>2, StacksDiffer, QuietRegular DEF Results
  <2>4. Owned'
    BY <1>1, <2>1, OwnedKept DEF Types
  <2> QED BY <1>1, <1>2, <2>1, <2>2, <2>3, <2>4, FinishInv DEF Results, Types
<1>4. CASE ~core.should_stop
  <2>1. core' = [core EXCEPT !.should_stop = TRUE]
        /\ UNCHANGED <<kind, auto, stack, primary, ctl, reply, thr, handle, active, alive, hist>>
    BY <1>4 DEF StopTable
  <2>2. /\ core' \in Cores /\ core'.fresh = core.fresh /\ core'.parts = core.parts /\ core'.running = core.running
        /\ (core'.bufStop => ~core'.running)
    BY <1>2, <2>1 DEF Cores
  <2>3. ~hist.irregular => Regular'
    BY <1>1, <2>1, <2>2
       DEF AppInv, Regular, Handled, NoThreadOutOfRun, RunningFlag, LoopsRunning, FailureHeard, BothRun,
           NoCommand, OutOfRun, NotRunning, LiveThreads, Up
  <2> QED BY <1>1, <2>1, <2>2, <2>3, ThreadInv DEF Types
<1> QED BY <1>3, <1>4

LEMMA ShutdownTableInv == AppInv /\ ShutdownTable => AppInv'
<1> SUFFICES ASSUME AppInv, ShutdownTable PROVE AppInv'
  OBVIOUS
<1>1. /\ alive = "up" /\ ctl.pc = "do" /\ ctl.edge.op = "shutdown" /\ kind = "RoutingManager" /\ ~NoCommand /\ Types
  BY DEF ShutdownTable, Routing, Doing, NoCommand, AppInv
<1>2. CASE ~core.parts
  BY <1>1, <1>2, NullInv DEF ShutdownTable
<1>3. CASE core.parts
  <2> DEFINE c == [core EXCEPT !.parts = FALSE]
  <2>1. Finish("ok", c) /\ UNCHANGED <<kind, auto, thr, handle, active, hist>>
    BY <1>3 DEF ShutdownTable
  <2>2. c \in Cores /\ (c.bufStop => ~c.running) /\ c.running = core.running
    BY <1>1 DEF AppInv, BufferTold, Types, Cores
  <2> HIDE DEF c
  <2>3. EdgeFacts(ctl.cmd, ctl.edge) /\ "ok" \in Results
    BY <1>1, InHand DEF Results
  <2>4. ASSUME ~hist.irregular, ctl' = Idle PROVE Regular'
    <3>1. LiveThreads = {}
      BY <1>1, <2>4, BeforeOperation
    <3>2. Lands("ok") \in {Booted, MainInit, Ready}
      BY <1>1, <2>3 DEF Lands, EdgeFacts
    <3>3. Lands("ok") # InRun
      BY <3>2, StacksDiffer
    <3> QED BY <1>1, <2>1, <2>2, <2>3, <2>4, <3>1, <3>3, QuietRegular DEF Types
  <2>5. Owned'
    BY <1>1, <2>1, OwnedKept DEF Types
  <2> QED BY <1>1, <2>1, <2>2, <2>3, <2>4, <2>5, FinishInv DEF Types
<1> QED BY <1>2, <1>3

LEMMA TableEndsInv ==
  ASSUME AppInv, NEW g \in Gens, TableEnds(g)
  PROVE  AppInv'
<1>1. /\ thr[<<g, "table">>] = "looping" /\ thr' = [thr EXCEPT ![<<g, "table">>] = "none"]
      /\ UNCHANGED <<kind, auto, stack, primary, ctl, reply, core, handle, active, alive, hist>>
      /\ "table" \in Workers
  BY DEF TableEnds, Step, OthersUnchanged, Workers
<1>2. Types /\ kind = "RoutingManager" /\ (core.bufStop => ~core.running)
  BY <1>1 DEF AppInv, Types, Owned, Owns, Live, BufferTold
<1>3. /\ thr' \in [Gens \X Workers -> ThreadStates]
      /\ \A h \in Gens, v \in Workers : thr'[<<h, v>>] = IF h = g /\ v = "table" THEN "none" ELSE thr[<<h, v>>]
  BY <1>1, <1>2 DEF Types, ThreadStates
<1>4. \A h \in Gens, v \in Workers : Live(thr[<<h, v>>])' => Live(thr[<<h, v>>])
  BY <1>3 DEF Live
<1>5. ASSUME ~hist.irregular PROVE Regular'
  <2>1. Regular /\ ~OutOfRun
    BY <1>1, <1>5, LiveInRun DEF AppInv, Live
  <2>2. Handled'
    BY <1>1, <1>2, <1>4, <2>1 DEF Regular, Handled
  <2>3. NoThreadOutOfRun' /\ RunningFlag'
    BY <1>1, <2>1 DEF Regular, NoThreadOutOfRun, OutOfRun, RunningFlag, NotRunning, NoCommand
  <2>4. LoopsRunning' /\ BothRun'
    BY <1>1, <1>2 DEF LoopsRunning, BothRun
  <2>5. \A h \in Gens : thr'[<<h, "input">>] = "none" /\ thr'[<<h, "output">>] = "none"
    BY <1>2, <1>3, TableOnly DEF Workers
  <2>6. FailureHeard'
    BY <2>5 DEF FailureHeard
  <2> QED BY <1>1, <2>1, <2>2, <2>3, <2>4, <2>6 DEF Regular, NoCommand
<1> QED BY <1>1, <1>2, <1>3, <1>4, <1>5, ThreadInv DEF Types

-------------------------------------------------------------------------------
(* The application *)

LEMMA OperationInv == AppInv /\ Operation => AppInv'
<1> SUFFICES ASSUME AppInv, Operation PROVE AppInv'
  OBVIOUS
<1>1. CASE Dispatch \/ DoNothing
  BY <1>1, DispatchInv, DoNothingInv
<1>2. CASE DoInitialize \/ DoSoftInitialize \/ DoReinitialize
  BY <1>2, InitializeInv
<1>3. CASE DoInitializeFreed
  BY <1>3, FreedInv
<1>4. CASE \E op \in ReceiverOps : DoReceiver(op)
  BY <1>4, ReceiverInv
<1>5. ASSUME NEW op \in {"start", "resume"},
             MakeThreads(op) \/ Begin(op) \/ Begun(op) \/ BeginThrows(op) \/ WaitTimeout(op)
      PROVE  AppInv'
  BY <1>5, MakeThreadsInv, BeginInv, BegunInv, FailingInv
<1>6. ASSUME NEW op \in {"stop", "pause"}, TellStop(op) \/ Stopped(op) \/ StopThrows(op)
      PROVE  AppInv'
  BY <1>6, TellStopInv, StoppedInv, FailingInv
<1>7. ASSUME NEW op \in {"stop", "pause", "shutdown"}, Join(op)
      PROVE  AppInv'
  BY <1>7, JoinInv
<1>8. CASE ShutdownCore \/ ShutdownTable
  BY <1>8, ShutdownCoreInv, ShutdownTableInv
<1>9. CASE \E op \in {"start", "resume"} : StartTable(op)
  BY <1>9, StartTableInv
<1>10. CASE \E op \in {"stop", "pause"} : StopTable(op)
  BY <1>10, StopTableInv
<1> QED BY <1>1, <1>2, <1>3, <1>4, <1>5, <1>6, <1>7, <1>8, <1>9, <1>10 DEF Operation

LEMMA ThreadStepInv ==
  ASSUME AppInv, NEW g \in Gens, NEW w \in Workers, Thread(g, w)
  PROVE  AppInv'
<1>1. CASE ThreadActive(g, w) \/ ThreadRuns(g, w) \/ ThreadGivesUp(g, w)
  BY <1>1, ComesUpInv
<1>2. CASE InRunFailure(g, w)
  BY <1>2, InRunFailureInv
<1>3. CASE GetNext(g)
  BY <1>3, GetNextInv
<1>4. CASE GetNextAnswers(g) \/ GetNextThrows(g) \/ GetNextEnds(g)
  BY <1>4, ReadsInv
<1>5. CASE ApplyRequestsEnds(g)
  BY <1>5, ApplyRequestsEndsInv
<1>6. CASE TableEnds(g)
  BY <1>6, TableEndsInv
<1> QED BY <1>1, <1>2, <1>3, <1>4, <1>5, <1>6 DEF Thread

LEMMA AppInvNext == AppInv /\ Next => AppInv'
<1>1. ASSUME AppInv, NEW c \in Transitions, Request(c) PROVE AppInv'
  BY <1>1, RequestInv
<1> QED BY <1>1, DirectInv, OperationInv, ThreadStepInv DEF Next, Ask

\* Steps of the monitors alone.
LEMMA AppInvStutter == AppInv /\ UNCHANGED vars => AppInv'
<1> SUFFICES ASSUME AppInv, UNCHANGED vars PROVE AppInv'
  OBVIOUS
<1>1. UNCHANGED <<kind, auto, stack, primary, ctl, reply, core, thr, handle, active, alive, hist>>
  BY DEF vars
<1>2. Types'
  BY <1>1, OwnedKept DEF AppInv, Types
<1>3. CommandShape' /\ GenLeft' /\ FreshHasParts' /\ ReplyFresh' /\ BufferTold' /\ CrashExplained'
  BY <1>1 DEF AppInv, CommandShape, NoCommand, GenLeft, FreeGens, FreshHasParts, ReplyFresh, BufferTold, CrashExplained
<1>4. ~hist'.irregular => Regular'
  BY <1>1, RegularKept DEF AppInv
<1> QED BY <1>2, <1>3, <1>4 DEF AppInv

LEMMA AppInvDNext == AppInv /\ [DNext]_dall => AppInv'
<1> SUFFICES ASSUME AppInv, [DNext]_dall PROVE AppInv'
  OBVIOUS
<1>1. CASE Applications
  BY <1>1, AppInvNext DEF Applications
<1>2. ASSUME NEW l \in Labels, register_monitor(l) \/ unregister_monitor(l)
      PROVE  AppInv'
  BY <1>2, AppInvStutter DEF register_monitor, unregister_monitor
<1>3. ASSUME NEW l \in Labels, BlockedByFilters(l)
      PROVE  AppInv'
  BY <1>3, BlockedInv
<1>4. ASSUME NEW j \in Slot, JobStep(j)
      PROVE  AppInv'
  BY <1>4, AppInvStutter
     DEF JobStep, JobLocks, NoEventStore, StartReads, StartArtProcess, StartRecords, StopFinds, ShutdownArtProcesses
<1>5. ASSUME NEW p \in Art, ArtDies(p)
      PROVE  AppInv'
  BY <1>5, AppInvStutter DEF ArtDies
<1>6. CASE UNCHANGED dall
  BY <1>6, AppInvStutter DEF dall
<1> QED BY <1>1, <1>2, <1>3, <1>4, <1>5, <1>6 DEF DNext

LEMMA AppInvTruthful == AppInv => StateTruthful
<1> SUFFICES ASSUME AppInv PROVE StateTruthful
  OBVIOUS
<1>1. Types /\ (~hist.irregular => Regular)
  BY DEF AppInv
<1>2. TypeOK
  <2>1. \A x \in DOMAIN thr : Live(thr[x]) => Owns(x[2])
    BY <1>1 DEF Types, Owned
  <2>2. /\ ctl.cmd \in Transitions \cup {"none", "auto_run", "register_monitor"} /\ ctl.pc \in Pcs
        /\ {ctl.edge.during, ctl.edge.ok, ctl.edge.no} \subseteq Stacks
    BY <1>1 DEF Types, Commands
  <2> QED BY <1>1, <2>1, <2>2 DEF TypeOK, Types, Pcs, ThreadStates
<1>3. LegalCommandsLegal
  BY <1>1, LegalCommandsAccepted DEF LegalCommandsLegal, Types
<1>4. RunningMeansReading
  BY <1>1 DEF RunningMeansReading, Quiet, Regular, BothRun, NoCommand
<1>5. ReadyMeansQuiet
  BY <1>1 DEF ReadyMeansQuiet, Quiet, Regular, NoThreadOutOfRun, OutOfRun, NoCommand
<1>6. FreshConfig
  BY DEF AppInv, ReplyFresh, FreshConfig, Quiet
<1>7. CrashExplained
  BY DEF AppInv
<1> QED BY <1>2, <1>3, <1>4, <1>5, <1>6, <1>7 DEF StateTruthful

\* Whatever commands come and however its threads interleave with them, what the state
\* machine of an application says is so: the commands it publishes are the ones it accepts,
\* Running has both threads and outside a run there is none, an answered init left the new
\* configuration, and a crash has one of the causes CrashExplained names.
THEOREM ApplicationAlwaysTruthful == Spec => []StateTruthful
<1>1. AppInv /\ [Next]_vars => AppInv'
  BY AppInvNext, AppInvStutter
<1> QED BY <1>1, AppInvInit, AppInvTruthful, PTL DEF Spec

\* The same with the monitors of a dispatcher and their art processes.
THEOREM StateAlwaysTruthful == DSpec => []StateTruthful
<1>1. DInit => AppInv
  BY AppInvInit DEF DInit
<1> QED BY <1>1, AppInvDNext, AppInvTruthful, PTL DEF DSpec

-------------------------------------------------------------------------------
(* The monitors of a dispatcher *)

Jobs == [do : {"nothing", "start", "stop"}, label : Labels \cup {NoLabel},
         pc : {"none", "made", "locked", "read", "record", "kill"}, pid : 0 .. MaxArt]

MonitorTypes ==
  /\ monitors \subseteq Labels /\ asked \subseteq Labels /\ clean \subseteq Labels
  /\ pids \in [Labels -> 0 .. MaxArt]
  /\ arts \in [Art -> Labels \cup {NoLabel}]
  /\ jobs \in [Slot -> Jobs]
  /\ \A j \in Slot : jobs[j].do \in {"start", "stop"} => jobs[j].label \in Labels

\* A process that is remembered serves nobody but the label it is remembered for.
PidsOwn ==
  /\ \A l \in Labels : pids[l] # 0 => arts[pids[l]] \in {l, NoLabel}
  /\ \A j \in Slot : jobs[j].pid # 0 => arts[jobs[j].pid] \in {jobs[j].label, NoLabel}
  /\ \A j \in Slot : jobs[j].pc = "kill" => jobs[j].pid # 0

\* The art processes of label l while its job is as job.
Expected(job, l) ==
  IF job.do = "start" THEN IF job.pc = "record" THEN {job.pid} ELSE {}
                      ELSE IF job.pc = "kill" THEN {job.pid} ELSE {pids[l]}

\* Nothing has got in the way of label l.
CleanLabel(l) ==
  /\ \A i, j \in Slot : jobs[i].label = l /\ jobs[j].label = l => i = j
  /\ l \in monitors <=> l \in asked
  /\ \A j \in Slot : jobs[j].label = l => /\ jobs[j].do = IF l \in asked THEN "start" ELSE "stop"
                                          /\ Serving(l) = Expected(jobs[j], l)
  /\ ~Pending(l) => Serving(l) = IF l \in asked THEN {pids[l]} ELSE {}

MonitorInv == MonitorTypes /\ PidsOwn /\ \A l \in clean : CleanLabel(l)

LEMMA MonitorInvInit == DInit => MonitorInv
<1> SUFFICES ASSUME DInit PROVE MonitorInv
  OBVIOUS
<1>1. NoJob \in Jobs
  BY DispatcherAssumption DEF NoJob, Jobs
<1>2. MonitorTypes
  BY <1>1, DispatcherAssumption DEF DInit, MonitorTypes, NoJob
<1> QED BY <1>2 DEF DInit, MonitorInv, PidsOwn, NoJob

\* A step that does not concern label l.
LEMMA CleanKept ==
  ASSUME NEW l \in Labels, MonitorTypes, CleanLabel(l),
         \A j \in Slot : jobs[j].label = l \/ jobs'[j].label = l => jobs'[j] = jobs[j],
         Serving(l)' = Serving(l), (l \in monitors)' <=> l \in monitors, (l \in asked)' <=> l \in asked,
         pids'[l] = pids[l] \/ (l \in asked /\ pids[l] \notin Serving(l))
  PROVE  CleanLabel(l)'
<1>1. Pending(l)' <=> Pending(l)
  BY DEF Pending
<1>2. \A i, j \in Slot : jobs'[i].label = l /\ jobs'[j].label = l => i = j
  BY DEF CleanLabel
<1>3. ASSUME NEW j \in Slot, jobs'[j].label = l
      PROVE  /\ jobs'[j].do = IF l \in asked THEN "start" ELSE "stop"
             /\ Serving(l) = Expected(jobs[j], l)'
  <2>1. jobs'[j] = jobs[j] /\ jobs[j].label = l
    BY <1>3
  <2>2. jobs[j].do = (IF l \in asked THEN "start" ELSE "stop") /\ Serving(l) = Expected(jobs[j], l)
    BY <2>1 DEF CleanLabel
  <2> QED BY <2>1, <2>2 DEF Expected
<1>4. ~Pending(l) => Serving(l) = IF l \in asked THEN {pids'[l]} ELSE {}
  BY DEF CleanLabel
<1> QED BY <1>1, <1>2, <1>3, <1>4 DEF CleanLabel

\* The filters are checked: what serves a label is not forgotten.
LEMMA FiltersChecked ==
  ASSUME MonitorInv, pids' = check_filters_, arts' = arts
  PROVE  /\ pids' \in [Labels -> 0 .. MaxArt]
         /\ \A l \in Labels : pids'[l] \in {0, pids[l]}
         /\ \A l \in Labels : pids'[l] = pids[l] \/ (l \in monitors /\ pids[l] \notin Serving(l))
<1>1. MonitorTypes
  BY DEF MonitorInv
<1>2. ASSUME NEW l \in Labels
      PROVE  /\ pids'[l] \in {0, pids[l]} /\ pids[l] \in 0 .. MaxArt
             /\ pids'[l] = pids[l] \/ (l \in monitors /\ pids[l] \notin Serving(l))
  <2>1. pids'[l] = IF l \in monitors /\ pids[l] # 0 /\ arts[pids[l]] = NoLabel THEN 0 ELSE pids[l]
    BY DEF check_filters_
  <2>2. l # NoLabel
    BY DispatcherAssumption
  <2> QED BY <1>1, <2>1, <2>2 DEF MonitorTypes, Serving
<1>3. 0 \in 0 .. MaxArt
  BY DispatcherAssumption
<1> QED BY <1>2, <1>3 DEF check_filters_

\* A detached thread is made.
LEMMA Detached ==
  ASSUME MonitorTypes, NEW do \in {"start", "stop"}, NEW l \in Labels, FreeSlots # {}, Detach(do, l)
  PROVE  \E j \in Slot : /\ jobs[j] = NoJob
                         /\ jobs' = [jobs EXCEPT ![j] = [do |-> do, label |-> l, pc |-> "made", pid |-> 0]]
<1> DEFINE j == CHOOSE j \in FreeSlots : \A i \in FreeSlots : j <= i
<1>1. FreeSlots \in SUBSET Nat
  BY DispatcherAssumption DEF FreeSlots, Slot
<1>2. \E i \in FreeSlots : \A k \in FreeSlots : i <= k
  BY <1>1, LeastNumber
<1>3. j \in FreeSlots
  BY <1>2
<1>4. jobs' = [jobs EXCEPT ![j] = [do |-> do, label |-> l, pc |-> "made", pid |-> 0]]
  BY DEF Detach
<1> QED BY <1>3, <1>4 DEF FreeSlots

LEMMA CommandKeeps ==
  ASSUME MonitorInv, NEW do \in {"start", "stop"}, NEW l \in Labels, Detach(do, l), FreeSlots # {},
         pids' = check_filters_, arts' = arts,
         monitors' = (IF do = "start" THEN monitors \cup {l} ELSE monitors \ {l}),
         asked' = (IF do = "start" THEN asked \cup {l} ELSE asked \ {l}),
         do = "stop" => l \in monitors,
         clean' \subseteq clean \cup {l},
         l \in clean' => ~Pending(l) /\ (do = "start" => Serving(l) = {}) /\ (do = "stop" => l \in clean)
  PROVE  MonitorInv'
<1>1. MonitorTypes /\ PidsOwn
  BY DEF MonitorInv
<1>2. PICK j \in Slot : /\ jobs[j] = NoJob
                        /\ jobs' = [jobs EXCEPT ![j] = [do |-> do, label |-> l, pc |-> "made", pid |-> 0]]
  BY <1>1, Detached
<1>3. [do |-> do, label |-> l, pc |-> "made", pid |-> 0] \in Jobs
  BY DispatcherAssumption DEF Jobs
<1>4. \A i \in Slot : jobs'[i] = IF i = j THEN [do |-> do, label |-> l, pc |-> "made", pid |-> 0] ELSE jobs[i]
  BY <1>1, <1>2 DEF MonitorTypes
<1>5. /\ pids' \in [Labels -> 0 .. MaxArt]
      /\ \A k \in Labels : pids'[k] \in {0, pids[k]}
      /\ \A k \in Labels : pids'[k] = pids[k] \/ (k \in monitors /\ pids[k] \notin Serving(k))
  BY FiltersChecked
<1>6. MonitorTypes'
  BY <1>1, <1>2, <1>3, <1>4, <1>5 DEF MonitorTypes
<1>7. PidsOwn'
  BY <1>1, <1>4, <1>5 DEF PidsOwn
<1>8. \A k \in Labels : Serving(k)' = Serving(k)
  BY DEF Serving
<1>9. jobs[j].label = NoLabel
  BY <1>2 DEF NoJob
<1>10. ASSUME NEW k \in clean', k # l
       PROVE  CleanLabel(k)'
  <2>1. k \in clean /\ k \in Labels /\ k # NoLabel /\ CleanLabel(k)
    BY <1>1, <1>10, DispatcherAssumption DEF MonitorInv, MonitorTypes
  <2>2. \A i \in Slot : jobs[i].label = k \/ jobs'[i].label = k => jobs'[i] = jobs[i]
    BY <1>4, <1>9, <1>10, <2>1
  <2>3. ((k \in monitors)' <=> k \in monitors) /\ ((k \in asked)' <=> k \in asked)
    BY <1>10
  <2>4. k \in monitors => k \in asked
    BY <2>1 DEF CleanLabel
  <2> QED BY <1>1, <1>5, <1>8, <2>1, <2>2, <2>3, <2>4, CleanKept
<1>11. ASSUME l \in clean'
       PROVE  CleanLabel(l)'
  <2>1. ~Pending(l) /\ (do = "start" => Serving(l) = {}) /\ (do = "stop" => CleanLabel(l))
    BY <1>11 DEF MonitorInv
  <2>2. \A i \in Slot : jobs'[i].label = l <=> i = j
    BY <1>4, <2>1 DEF Pending
  <2>3. Pending(l)'
    BY <2>2 DEF Pending
  <2>4. ((l \in monitors)' <=> (l \in asked)') /\ ((l \in asked)' <=> do = "start")
    BY <1>1 DEF MonitorTypes
  <2>5. Serving(l)' = Expected(jobs[j], l)'
    <3>1. CASE do = "start"
      BY <1>4, <1>8, <2>1, <3>1 DEF Expected
    <3>2. CASE do = "stop"
      <4>1. l \in asked /\ Serving(l) = {pids[l]}
        BY <2>1, <3>2 DEF CleanLabel
      <4>2. pids'[l] = pids[l]
        BY <1>5, <4>1
      <4> QED BY <1>4, <1>8, <3>2, <4>1, <4>2 DEF Expected
    <3> QED BY <3>1, <3>2
  <2>6. jobs'[j].do = IF (l \in asked)' THEN "start" ELSE "stop"
    BY <1>4, <2>4
  <2> QED BY <2>2, <2>3, <2>4, <2>5, <2>6 DEF CleanLabel
<1> QED BY <1>6, <1>7, <1>10, <1>11 DEF MonitorInv

LEMMA RegisterKeeps ==
  ASSUME MonitorInv, NEW l \in Labels, register_monitor(l) \/ unregister_monitor(l)
  PROVE  MonitorInv'
<1>1. MonitorTypes /\ PidsOwn /\ FreeSlots # {} /\ pids' = check_filters_ /\ UNCHANGED <<broadcast, arts>>
  BY DEF MonitorInv, register_monitor, unregister_monitor, Command
<1>2. CASE UNCHANGED <<monitors, jobs, asked, clean>>
  <2>1. /\ pids' \in [Labels -> 0 .. MaxArt]
        /\ \A k \in Labels : pids'[k] \in {0, pids[k]}
        /\ \A k \in Labels : pids'[k] = pids[k] \/ (k \in monitors /\ pids[k] \notin Serving(k))
    BY <1>1, FiltersChecked
  <2>2. MonitorTypes' /\ PidsOwn'
    BY <1>1, <1>2, <2>1 DEF MonitorTypes, PidsOwn
  <2>3. ASSUME NEW k \in clean PROVE CleanLabel(k)'
    <3>1. CleanLabel(k) /\ k \in Labels /\ Serving(k)' = Serving(k)
      BY <1>1, <2>3 DEF MonitorInv, MonitorTypes, Serving
    <3>2. k \in monitors => k \in asked
      BY <3>1 DEF CleanLabel
    <3> QED BY <1>1, <1>2, <2>1, <3>1, <3>2, CleanKept
  <2> QED BY <1>2, <2>2, <2>3 DEF MonitorInv
<1>3. CASE register_monitor(l) /\ ~UNCHANGED <<monitors, jobs, asked, clean>>
  <2>1. /\ monitors' = monitors \cup {l} /\ Detach("start", l) /\ asked' = asked \cup {l}
        /\ clean' = IF Pending(l) \/ Serving(l) # {} THEN clean \ {l} ELSE clean \cup {l}
    BY <1>3 DEF register_monitor
  <2> QED BY <1>1, <2>1, CommandKeeps
<1>4. CASE unregister_monitor(l) /\ ~UNCHANGED <<monitors, jobs, asked, clean>>
  <2>1. /\ monitors' = monitors \ {l} /\ Detach("stop", l) /\ asked' = asked \ {l} /\ l \in monitors
        /\ clean' = IF Pending(l) THEN clean \ {l} ELSE clean
    BY <1>4 DEF unregister_monitor
  <2> QED BY <1>1, <2>1, CommandKeeps
<1> QED BY <1>2, <1>3, <1>4

\* A step of the detached thread in slot j: the other labels are not concerned, its own is if it is
\* clean and no other thread works on it.
LEMMA JobKeeps ==
  ASSUME MonitorInv, NEW j \in Slot, NEW l \in Labels, jobs[j].label = l,
         NEW job \in Jobs, jobs' = [jobs EXCEPT ![j] = job], job.label \in {l, NoLabel},
         job.do \in {"start", "stop"} => job.label \in Labels,
         MonitorTypes', PidsOwn',
         \A k \in Labels : k # l => /\ Serving(k)' = Serving(k) /\ pids'[k] = pids[k]
                                    /\ (k \in monitors)' <=> k \in monitors,
         asked' = asked, clean' \subseteq clean,
         l \in clean' /\ CleanLabel(l) =>
           /\ (l \in monitors)' <=> l \in monitors
           /\ job.label = l => job.do = jobs[j].do /\ Serving(l)' = Expected(job, l)'
           /\ job.label # l => Serving(l)' = IF l \in asked THEN {pids'[l]} ELSE {}
  PROVE  MonitorInv'
<1>1. MonitorTypes /\ l # NoLabel
  BY DispatcherAssumption DEF MonitorInv
<1>2. \A i \in Slot : jobs'[i] = IF i = j THEN job ELSE jobs[i]
  BY <1>1 DEF MonitorTypes
<1>3. ASSUME NEW k \in clean', k # l PROVE CleanLabel(k)'
  <2>1. k \in Labels /\ CleanLabel(k) /\ k # NoLabel
    BY <1>1, <1>3, DispatcherAssumption DEF MonitorInv, MonitorTypes
  <2>2. \A i \in Slot : jobs[i].label = k \/ jobs'[i].label = k => jobs'[i] = jobs[i]
    BY <1>2, <1>3, <2>1
  <2> QED BY <1>1, <1>3, <2>1, <2>2, CleanKept
<1>4. ASSUME l \in clean' PROVE CleanLabel(l)'
  <2>1. CleanLabel(l)
    BY <1>4 DEF MonitorInv
  <2>2. \A i \in Slot : jobs[i].label = l <=> i = j
    BY <2>1 DEF CleanLabel
  <2>3. \A i \in Slot : jobs'[i].label = l <=> i = j /\ job.label = l
    BY <1>2, <2>2
  <2>4. Pending(l)' <=> job.label = l
    BY <2>3 DEF Pending
  <2>5. jobs[j].do = IF l \in asked THEN "start" ELSE "stop"
    BY <2>1 DEF CleanLabel
  <2>6. (l \in monitors)' <=> (l \in asked)'
    BY <1>4, <2>1 DEF CleanLabel
  <2>7. \A i \in Slot : jobs'[i].label = l => /\ jobs'[i].do = IF (l \in asked)' THEN "start" ELSE "stop"
                                              /\ Serving(l)' = Expected(jobs[i], l)'
    <3>1. jobs'[j] = job
      BY <1>2
    <3> QED BY <1>4, <2>1, <2>3, <2>5, <3>1 DEF Expected
  <2>8. ~Pending(l)' => Serving(l)' = IF (l \in asked)' THEN {pids'[l]} ELSE {}
    BY <1>4, <2>1, <2>4
  <2> QED BY <2>3, <2>6, <2>7, <2>8 DEF CleanLabel
<1> QED BY <1>3, <1>4 DEF MonitorInv

\* What the job of a slot is, and the slot when its thread ends or goes on.
LEMMA JobFacts ==
  ASSUME MonitorInv, NEW j \in Slot, NEW do \in {"start", "stop"}, jobs[j].do = do
  PROVE  /\ jobs[j] \in Jobs /\ jobs[j].label \in Labels /\ jobs[j].label # NoLabel
         /\ MonitorTypes /\ PidsOwn
         /\ NoJob \in Jobs /\ NoJob.label = NoLabel /\ NoJob.do = "nothing" /\ NoJob.pid = 0 /\ NoJob.pc = "none"
<1>1. MonitorTypes /\ PidsOwn
  BY DEF MonitorInv
<1>2. jobs[j] \in Jobs /\ jobs[j].label \in Labels /\ jobs[j].label # NoLabel
  BY <1>1, DispatcherAssumption DEF MonitorTypes
<1>3. NoJob \in Jobs /\ NoJob.label = NoLabel /\ NoJob.do = "nothing" /\ NoJob.pid = 0 /\ NoJob.pc = "none"
  BY DispatcherAssumption DEF NoJob, Jobs
<1> QED BY <1>1, <1>2, <1>3

LEMMA GoesOn ==
  ASSUME NEW j \in Slot, jobs[j] \in Jobs,
         NEW pc \in {"made", "locked", "read", "record", "kill"}, NEW pid \in 0 .. MaxArt, Becomes(j, pc, pid)
  PROVE  \E job \in Jobs : /\ jobs' = [jobs EXCEPT ![j] = job]
                           /\ job.label = jobs[j].label /\ job.do = jobs[j].do /\ job.pc = pc /\ job.pid = pid
<1> DEFINE job == [jobs[j] EXCEPT !.pc = pc, !.pid = pid]
<1>1. job \in Jobs /\ job.label = jobs[j].label /\ job.do = jobs[j].do /\ job.pc = pc /\ job.pid = pid
  BY DEF Jobs
<1>2. jobs' = [jobs EXCEPT ![j] = job]
  BY DEF Becomes
<1> QED BY <1>1, <1>2

\* A detached thread that ends.
LEMMA EndsKeeps ==
  ASSUME MonitorInv, NEW j \in Slot, NEW do \in {"start", "stop"}, jobs[j].do = do,
         NEW l \in Labels, l = jobs[j].label, Ends(j),
         arts' \in [Art -> Labels \cup {NoLabel}], pids' \in [Labels -> 0 .. MaxArt],
         \A p \in Art : arts'[p] \in {arts[p], NoLabel},
         \A k \in Labels : k # l => Serving(k)' = Serving(k) /\ pids'[k] = pids[k],
         pids'[l] # 0 => arts'[pids'[l]] \in {l, NoLabel},
         UNCHANGED <<monitors, asked>>, clean' \subseteq clean,
         l \in clean' /\ CleanLabel(l) => Serving(l)' = IF l \in asked THEN {pids'[l]} ELSE {}
  PROVE  MonitorInv'
<1>1. /\ MonitorTypes /\ PidsOwn /\ jobs' = [jobs EXCEPT ![j] = NoJob]
      /\ l # NoLabel
      /\ NoJob \in Jobs /\ NoJob.label = NoLabel /\ NoJob.do = "nothing" /\ NoJob.pid = 0 /\ NoJob.pc = "none"
  BY JobFacts DEF Ends
<1>2. \A i \in Slot : jobs'[i] = IF i = j THEN NoJob ELSE jobs[i]
  BY <1>1 DEF MonitorTypes
<1>3. MonitorTypes'
  BY <1>1, <1>2 DEF MonitorTypes
<1>4. \A p \in 0 .. MaxArt : p # 0 => p \in Art
  BY DispatcherAssumption DEF Art
<1>5. PidsOwn'
  <2>1. ASSUME NEW k \in Labels, pids'[k] # 0 PROVE arts'[pids'[k]] \in {k, NoLabel}
    <3>1. pids'[k] \in Art
      BY <1>3, <1>4, <2>1 DEF MonitorTypes
    <3> QED BY <1>1, <2>1, <3>1 DEF PidsOwn
  <2>2. ASSUME NEW i \in Slot, jobs'[i].pid # 0 PROVE arts'[jobs'[i].pid] \in {jobs'[i].label, NoLabel}
    <3>1. i # j /\ jobs'[i] = jobs[i] /\ jobs[i] \in Jobs
      BY <1>1, <1>2, <2>2 DEF MonitorTypes
    <3>2. jobs[i].pid \in Art
      BY <1>4, <2>2, <3>1 DEF Jobs
    <3> QED BY <1>1, <2>2, <3>1, <3>2 DEF PidsOwn
  <2>3. \A i \in Slot : jobs'[i].pc = "kill" => jobs'[i].pid # 0
    BY <1>1, <1>2 DEF PidsOwn
  <2> QED BY <2>1, <2>2, <2>3 DEF PidsOwn
<1> QED BY <1>1, <1>3, <1>5, JobKeeps

LEMMA JobLocksKeeps ==
  ASSUME MonitorInv, NEW j \in Slot, JobLocks(j)
  PROVE  MonitorInv'
<1>1. PICK do \in {"start", "stop"} : jobs[j].do = do /\ jobs[j].pc = "made"
  BY DEF JobLocks, Job
<1>2. 0 \in 0 .. MaxArt
  BY DispatcherAssumption
<1>l. PICK l \in Labels : jobs[j].label = l
  BY <1>1, JobFacts
<1>b. Becomes(j, "locked", 0) /\ jobs[j] \in Jobs
  BY <1>1, JobFacts DEF JobLocks
<1>j. PICK job \in Jobs : /\ jobs' = [jobs EXCEPT ![j] = job]
                          /\ job.label = l /\ job.do = do /\ job.pc = "locked" /\ job.pid = 0
  BY <1>1, <1>2, <1>l, <1>b, GoesOn
<1>3. /\ MonitorTypes /\ PidsOwn /\ job.label = l /\ job.do = do /\ job.pc = "locked" /\ job.pid = 0
  BY <1>1, <1>j, JobFacts
<1>4. jobs' = [jobs EXCEPT ![j] = job] /\ UNCHANGED <<monitors, pids, arts, asked, clean>>
  BY <1>j DEF JobLocks
<1>5. \A i \in Slot : jobs'[i] = IF i = j THEN job ELSE jobs[i]
  BY <1>3, <1>4 DEF MonitorTypes
<1>6. MonitorTypes'
  BY <1>3, <1>4, <1>5 DEF MonitorTypes
<1>7. PidsOwn'
  BY <1>3, <1>4, <1>5 DEF PidsOwn
<1>8. \A k \in Labels : Serving(k)' = Serving(k)
  BY <1>4 DEF Serving
<1>9. CleanLabel(l) => Serving(l)' = Expected(job, l)'
  <2>1. CleanLabel(l) => Serving(l) = Expected(jobs[j], l)
    BY <1>l DEF CleanLabel
  <2> QED BY <1>1, <1>3, <1>4, <1>8, <2>1 DEF Expected
<1> QED BY <1>1, <1>l, <1>3, <1>4, <1>6, <1>7, <1>8, <1>9, JobKeeps

LEMMA NoEventStoreKeeps ==
  ASSUME MonitorInv, NEW j \in Slot, NoEventStore(j)
  PROVE  MonitorInv'
<1>1. PICK do \in {"start", "stop"} : jobs[j].do = do
  BY DEF NoEventStore, Job
<1>2. jobs[j].label \in Labels /\ MonitorTypes /\ PidsOwn
  BY <1>1, JobFacts
<1>3. Ends(j) /\ clean' = clean \ {jobs[j].label} /\ UNCHANGED <<monitors, pids, arts, asked>>
  BY DEF NoEventStore
<1> QED BY <1>1, <1>2, <1>3, EndsKeeps DEF MonitorTypes, PidsOwn, Serving

LEMMA StartReadsKeeps ==
  ASSUME MonitorInv, NEW j \in Slot, StartReads(j)
  PROVE  MonitorInv'
<1>1. jobs[j].do = "start" /\ jobs[j].pc = "made"
  BY DEF StartReads, Job
<1>2. 0 \in 0 .. MaxArt
  BY DispatcherAssumption
<1>l. PICK l \in Labels : jobs[j].label = l
  BY <1>1, JobFacts
<1>b. Becomes(j, "read", 0) /\ jobs[j] \in Jobs
  BY <1>1, JobFacts DEF StartReads
<1>j. PICK job \in Jobs : /\ jobs' = [jobs EXCEPT ![j] = job]
                          /\ job.label = l /\ job.do = "start" /\ job.pc = "read" /\ job.pid = 0
  BY <1>1, <1>2, <1>l, <1>b, GoesOn
<1>3. /\ MonitorTypes /\ PidsOwn /\ job.label = l /\ job.do = "start" /\ job.pc = "read" /\ job.pid = 0
  BY <1>1, <1>j, JobFacts
<1>4. jobs' = [jobs EXCEPT ![j] = job] /\ monitors' = monitors \cup {l} /\ UNCHANGED <<pids, arts, asked, clean>>
  BY <1>j, <1>l DEF StartReads
<1>5. \A i \in Slot : jobs'[i] = IF i = j THEN job ELSE jobs[i]
  BY <1>3, <1>4 DEF MonitorTypes
<1>6. MonitorTypes'
  BY <1>3, <1>4, <1>5 DEF MonitorTypes
<1>7. PidsOwn'
  BY <1>3, <1>4, <1>5 DEF PidsOwn
<1>8. \A k \in Labels : Serving(k)' = Serving(k)
  BY <1>4 DEF Serving
<1>9. CleanLabel(l) => l \in monitors /\ Serving(l)' = Expected(job, l)'
  <2>1. CleanLabel(l) => Serving(l) = Expected(jobs[j], l) /\ l \in monitors
    BY <1>1, <1>l DEF CleanLabel
  <2> QED BY <1>1, <1>3, <1>4, <1>8, <2>1 DEF Expected
<1> QED BY <1>1, <1>l, <1>3, <1>4, <1>6, <1>7, <1>8, <1>9, JobKeeps

\* The process is one that nobody remembers.
LEMMA StartArtProcessKeeps ==
  ASSUME MonitorInv, NEW j \in Slot, StartArtProcess(j)
  PROVE  MonitorInv'
<1>1. jobs[j].do = "start" /\ jobs[j].pc = "read"
  BY DEF StartArtProcess, Job
<1>2. PICK p \in FreeArts, late \in BOOLEAN :
        /\ arts' = [arts EXCEPT ![p] = jobs[j].label]
        /\ Becomes(j, "record", IF late THEN 0 ELSE p)
        /\ clean' = IF late THEN clean \ {jobs[j].label} ELSE clean
  BY DEF StartArtProcess
<1> DEFINE pid == IF late THEN 0 ELSE p
<1>l. PICK l \in Labels : jobs[j].label = l
  BY <1>1, JobFacts
<1>3. /\ pid \in 0 .. MaxArt /\ p \in Art /\ p # 0 /\ arts[p] = NoLabel
      /\ \A k \in Labels : pids[k] # p
      /\ \A i \in Slot : jobs[i].pid # p
  BY DispatcherAssumption DEF Art, FreeArts
<1>b. Becomes(j, "record", pid) /\ jobs[j] \in Jobs
  BY <1>1, <1>2, JobFacts
<1>j. PICK job \in Jobs : /\ jobs' = [jobs EXCEPT ![j] = job]
                          /\ job.label = l /\ job.do = "start" /\ job.pc = "record" /\ job.pid = pid
  BY <1>1, <1>3, <1>l, <1>b, GoesOn
<1>4. /\ l # NoLabel /\ MonitorTypes /\ PidsOwn /\ job.label = l /\ job.do = "start"
      /\ job.pc = "record" /\ job.pid = pid
  BY <1>1, <1>j, DispatcherAssumption, JobFacts
<1>5. /\ jobs' = [jobs EXCEPT ![j] = job] /\ arts' = [arts EXCEPT ![p] = l]
      /\ clean' = (IF late THEN clean \ {l} ELSE clean)
      /\ UNCHANGED <<monitors, pids, asked>>
  BY <1>2, <1>l, <1>j DEF StartArtProcess
<1>6. pid = 0 <=> late
  BY <1>3
<1>7. pid \in {0, p}
  OBVIOUS
<1> HIDE DEF pid
<1>8. \A i \in Slot : jobs'[i] = IF i = j THEN job ELSE jobs[i]
  BY <1>4, <1>5 DEF MonitorTypes
<1>9. /\ arts' \in [Art -> Labels \cup {NoLabel}]
      /\ \A q \in Art : arts'[q] = IF q = p THEN l ELSE arts[q]
  BY <1>3, <1>4, <1>5 DEF MonitorTypes
<1>10. MonitorTypes'
  BY <1>4, <1>5, <1>8, <1>9 DEF MonitorTypes
<1>11. PidsOwn'
  <2>1. \A q : q # p => arts'[q] = arts[q]
    BY <1>4, <1>5, <1>9 DEF MonitorTypes
  <2>2. \A i \in Slot : jobs'[i].pid # 0 => arts'[jobs'[i].pid] \in {jobs'[i].label, NoLabel}
    BY <1>3, <1>4, <1>7, <1>8, <1>9, <2>1 DEF PidsOwn
  <2> QED BY <1>3, <1>4, <1>5, <1>8, <2>1, <2>2 DEF PidsOwn
<1>12. ASSUME NEW k \in Labels PROVE Serving(k)' = IF k = l THEN Serving(k) \cup {p} ELSE Serving(k)
  <2>1. k # NoLabel
    BY DispatcherAssumption
  <2> QED BY <1>3, <1>9, <2>1 DEF Serving
<1>13. CleanLabel(l) /\ ~late => Serving(l)' = Expected(job, l)'
  <2>1. CleanLabel(l) => Serving(l) = {}
    BY <1>1, <1>l DEF CleanLabel, Expected
  <2>2. ~late => job.pid = p
    BY <1>4, <1>6, <1>7
  <2> QED BY <1>4, <1>12, <2>1, <2>2 DEF Expected
<1>14. l \in clean' => ~late
  BY <1>5
<1>16. clean' \subseteq clean
  BY <1>5
<1> QED BY <1>1, <1>4, <1>5, <1>10, <1>11, <1>12, <1>13, <1>14, <1>l, <1>16, JobKeeps

LEMMA StartRecordsKeeps ==
  ASSUME MonitorInv, NEW j \in Slot, StartRecords(j)
  PROVE  MonitorInv'
<1>1. jobs[j].do = "start" /\ jobs[j].pc = "record"
  BY DEF StartRecords, Job
<1>2. PICK l \in Labels : jobs[j].label = l
  BY <1>1, JobFacts
<1>3. MonitorTypes /\ PidsOwn /\ jobs[j] \in Jobs
  BY <1>1, JobFacts
<1>4. pids' = [pids EXCEPT ![l] = jobs[j].pid] /\ Ends(j) /\ UNCHANGED <<monitors, arts, asked, clean>>
  BY <1>2 DEF StartRecords
<1>5. /\ pids' \in [Labels -> 0 .. MaxArt] /\ pids'[l] = jobs[j].pid
      /\ \A k \in Labels : k # l => pids'[k] = pids[k]
  BY <1>3, <1>4 DEF MonitorTypes, Jobs
<1>6. pids'[l] # 0 => arts'[pids'[l]] \in {l, NoLabel}
  BY <1>2, <1>3, <1>4, <1>5 DEF PidsOwn
<1>7. CleanLabel(l) => Serving(l)' = IF l \in asked THEN {pids'[l]} ELSE {}
  <2>1. Serving(l)' = Serving(l)
    BY <1>4 DEF Serving
  <2>2. CleanLabel(l) => l \in asked /\ Serving(l) = {jobs[j].pid}
    BY <1>1, <1>2 DEF CleanLabel, Expected
  <2> QED BY <1>5, <2>1, <2>2
<1>8. \A k \in Labels : Serving(k)' = Serving(k)
  BY <1>4 DEF Serving
<1> QED BY <1>1, <1>2, <1>3, <1>4, <1>5, <1>6, <1>7, <1>8, EndsKeeps DEF MonitorTypes

LEMMA StopFindsKeeps ==
  ASSUME MonitorInv, NEW j \in Slot, StopFinds(j)
  PROVE  MonitorInv'
<1>1. jobs[j].do = "stop" /\ jobs[j].pc = "made"
  BY DEF StopFinds, Job
<1>2. PICK l \in Labels : jobs[j].label = l
  BY <1>1, JobFacts
<1>3. MonitorTypes /\ PidsOwn /\ jobs[j] \in Jobs /\ pids[l] \in 0 .. MaxArt
  BY <1>1, JobFacts DEF MonitorTypes
<1>4. UNCHANGED <<monitors, arts, asked, clean>>
  BY DEF StopFinds
<1>5. \A k \in Labels : Serving(k)' = Serving(k)
  BY <1>4 DEF Serving
<1>6. CleanLabel(l) => l \notin asked /\ Serving(l) = {pids[l]}
  BY <1>1, <1>2 DEF CleanLabel, Expected
<1>7. CASE pids[l] = 0
  <2>1. Ends(j) /\ pids' = pids
    BY <1>2, <1>7 DEF StopFinds
  <2>2. ~CleanLabel(l)
    BY <1>6, <1>7 DEF Serving, Art
  <2> QED BY <1>1, <1>2, <1>3, <1>4, <1>5, <1>7, <2>1, <2>2, EndsKeeps DEF MonitorTypes
<1>8. CASE pids[l] # 0
  <2>0. Becomes(j, "kill", pids[l]) /\ pids' = [pids EXCEPT ![l] = 0]
    BY <1>2, <1>8 DEF StopFinds
  <2>1. PICK job \in Jobs : /\ jobs' = [jobs EXCEPT ![j] = job]
                            /\ job.label = l /\ job.do = "stop" /\ job.pc = "kill" /\ job.pid = pids[l]
    BY <1>1, <1>2, <1>3, <2>0, GoesOn
  <2>2. jobs' = [jobs EXCEPT ![j] = job] /\ pids' = [pids EXCEPT ![l] = 0]
    BY <2>0, <2>1
  <2>3. \A i \in Slot : jobs'[i] = IF i = j THEN job ELSE jobs[i]
    BY <1>3, <2>2 DEF MonitorTypes
  <2>4. \A k \in Labels : pids'[k] = IF k = l THEN 0 ELSE pids[k]
    BY <1>3, <2>2 DEF MonitorTypes
  <2>5. MonitorTypes'
    BY <1>3, <1>4, <2>1, <2>2, <2>3, DispatcherAssumption DEF MonitorTypes
  <2>6. PidsOwn'
    BY <1>3, <1>4, <1>8, <2>1, <2>3, <2>4 DEF PidsOwn
  <2>7. CleanLabel(l) => Serving(l)' = Expected(job, l)'
    BY <1>5, <1>6, <2>1 DEF Expected
  <2>8. \A k \in Labels : k # l => /\ Serving(k)' = Serving(k) /\ pids'[k] = pids[k]
                                   /\ (k \in monitors)' <=> k \in monitors
    BY <1>4, <1>5, <2>4
  <2>9. CleanLabel(l) => /\ (l \in monitors)' <=> l \in monitors
                         /\ job.do = jobs[j].do /\ Serving(l)' = Expected(job, l)'
    BY <1>1, <1>4, <2>1, <2>7
  <2> QED BY <1>2, <1>4, <2>1, <2>5, <2>6, <2>8, <2>9, JobKeeps
<1> QED BY <1>7, <1>8

LEMMA ShutdownKeeps ==
  ASSUME MonitorInv, NEW j \in Slot, ShutdownArtProcesses(j)
  PROVE  MonitorInv'
<1>1. jobs[j].do = "stop" /\ jobs[j].pc = "kill"
  BY DEF ShutdownArtProcesses, Job
<1>2. PICK l \in Labels : jobs[j].label = l
  BY <1>1, JobFacts
<1>3. MonitorTypes /\ PidsOwn /\ jobs[j] \in Jobs /\ l # NoLabel
  BY <1>1, <1>2, JobFacts
<1>4. PICK p \in Art : p = jobs[j].pid /\ arts[p] \in {l, NoLabel}
  BY <1>1, <1>2, <1>3 DEF PidsOwn, Jobs, Art
<1>5. arts' = [arts EXCEPT ![p] = NoLabel] /\ Ends(j) /\ UNCHANGED <<monitors, pids, asked, clean>>
  BY <1>4 DEF ShutdownArtProcesses
<1>6. /\ arts' \in [Art -> Labels \cup {NoLabel}]
      /\ \A q \in Art : arts'[q] = IF q = p THEN NoLabel ELSE arts[q]
  BY <1>3, <1>5 DEF MonitorTypes
<1>7. \A k \in Labels : k # NoLabel
  BY DispatcherAssumption
<1>8. \A k \in Labels : Serving(k)' = Serving(k) \ {p}
  BY <1>6, <1>7 DEF Serving
<1>9. \A k \in Labels : k # l => Serving(k)' = Serving(k)
  BY <1>4, <1>7, <1>8 DEF Serving
<1>10. CleanLabel(l) => Serving(l)' = IF l \in asked THEN {pids'[l]} ELSE {}
  <2>1. CleanLabel(l) => l \notin asked /\ Serving(l) = {p}
    BY <1>1, <1>2, <1>4 DEF CleanLabel, Expected
  <2> QED BY <1>8, <2>1
<1>11. pids'[l] # 0 => arts'[pids'[l]] \in {l, NoLabel}
  <2>1. pids[l] # 0 => pids[l] \in Art /\ arts[pids[l]] \in {l, NoLabel}
    BY <1>3, DispatcherAssumption DEF PidsOwn, MonitorTypes, Art
  <2> QED BY <1>5, <1>6, <2>1
<1>12. \A q \in Art : arts'[q] \in {arts[q], NoLabel}
  BY <1>6
<1>13. pids' \in [Labels -> 0 .. MaxArt]
  BY <1>3, <1>5 DEF MonitorTypes
<1> QED BY <1>1, <1>2, <1>5, <1>6, <1>9, <1>10, <1>11, <1>12, <1>13, EndsKeeps

LEMMA JobStepKeeps ==
  ASSUME MonitorInv, NEW j \in Slot, JobStep(j)
  PROVE  MonitorInv'
BY JobLocksKeeps, NoEventStoreKeeps, StartReadsKeeps, StartArtProcessKeeps, StartRecordsKeeps, StopFindsKeeps,
   ShutdownKeeps DEF JobStep

\* Art processes that end: their labels are not clean any more.
LEMMA ArtsEndKeeps ==
  ASSUME MonitorInv, arts' \in [Art -> Labels \cup {NoLabel}], \A p \in Art : arts'[p] \in {arts[p], NoLabel},
         UNCHANGED <<monitors, pids, jobs, asked>>, clean' \subseteq clean,
         \A p \in Art : arts'[p] # arts[p] => arts[p] \notin clean'
  PROVE  MonitorInv'
<1>1. MonitorTypes /\ PidsOwn
  BY DEF MonitorInv
<1>2. MonitorTypes'
  BY <1>1 DEF MonitorTypes
<1>3. \A p \in 0 .. MaxArt : p # 0 => p \in Art
  BY DispatcherAssumption DEF Art
<1>4. PidsOwn'
  <2>1. ASSUME NEW k \in Labels, pids[k] # 0 PROVE arts'[pids[k]] \in {k, NoLabel}
    <3>1. pids[k] \in Art /\ arts[pids[k]] \in {k, NoLabel}
      BY <1>1, <1>3, <2>1 DEF MonitorTypes, PidsOwn
    <3> QED BY <3>1
  <2>2. ASSUME NEW i \in Slot, jobs[i].pid # 0 PROVE arts'[jobs[i].pid] \in {jobs[i].label, NoLabel}
    <3>1. jobs[i].pid \in Art /\ arts[jobs[i].pid] \in {jobs[i].label, NoLabel}
      BY <1>1, <1>3, <2>2 DEF MonitorTypes, PidsOwn, Jobs
    <3> QED BY <3>1
  <2> QED BY <1>1, <2>1, <2>2 DEF PidsOwn
<1>5. ASSUME NEW k \in clean' PROVE CleanLabel(k)'
  <2>1. k \in Labels /\ CleanLabel(k) /\ k # NoLabel
    BY <1>1, <1>5, DispatcherAssumption DEF MonitorInv, MonitorTypes
  <2>2. Serving(k)' = Serving(k)
    BY <1>5, <2>1 DEF Serving
  <2> QED BY <1>1, <2>1, <2>2, CleanKept
<1> QED BY <1>2, <1>4, <1>5 DEF MonitorInv

LEMMA MonitorInvNext == MonitorInv /\ [DNext]_dall => MonitorInv'
<1> SUFFICES ASSUME MonitorInv, [DNext]_dall PROVE MonitorInv'
  OBVIOUS
<1>1. MonitorTypes
  BY DEF MonitorInv
<1>2. ASSUME UNCHANGED <<monitors, pids, arts, jobs, asked, clean>>
      PROVE  MonitorInv'
  BY <1>1, <1>2, ArtsEndKeeps DEF MonitorTypes
<1>3. CASE Applications
  <2>1. UNCHANGED <<broadcast, monitors, pids, jobs, asked>>
    BY <1>3 DEF Applications
  <2>2. CASE EndsData
    <3>1. arts' = [p \in Art |-> NoLabel] /\ clean' = {}
      BY <1>3, <2>2 DEF Applications
    <3> QED BY <1>1, <2>1, <3>1, ArtsEndKeeps DEF MonitorTypes
  <2>3. CASE ~EndsData
    BY <1>2, <1>3, <2>1, <2>3 DEF Applications
  <2> QED BY <2>2, <2>3
<1>4. ASSUME NEW l \in Labels, register_monitor(l) \/ unregister_monitor(l)
      PROVE  MonitorInv'
  BY <1>4, RegisterKeeps
<1>5. ASSUME NEW l \in Labels, BlockedByFilters(l)
      PROVE  MonitorInv'
  BY <1>2, <1>5 DEF BlockedByFilters, dvars
<1>6. ASSUME NEW j \in Slot, JobStep(j)
      PROVE  MonitorInv'
  BY <1>6, JobStepKeeps
<1>7. ASSUME NEW p \in Art, ArtDies(p)
      PROVE  MonitorInv'
  <2>1. /\ clean' = clean \ {arts[p]} /\ arts' = [arts EXCEPT ![p] = NoLabel]
        /\ UNCHANGED <<monitors, pids, jobs, asked>>
    BY <1>7 DEF ArtDies
  <2> QED BY <1>1, <2>1, ArtsEndKeeps DEF MonitorTypes
<1>8. CASE UNCHANGED dall
  BY <1>2, <1>8 DEF dall, dvars
<1> QED BY <1>3, <1>4, <1>5, <1>6, <1>7, <1>8 DEF DNext

LEMMA MonitorInvArt == MonitorInv => MonitorHasArt
BY DEF MonitorInv, CleanLabel, MonitorHasArt

\* A monitor that is registered has one art process, the one recorded for it, and one that is
\* not has none, unless something got in the way of it: however many commands are answered
\* before the detached threads of earlier ones have done their work.
THEOREM MonitorsAlwaysHaveArt == DSpec => []MonitorHasArt
BY MonitorInvInit, MonitorInvNext, MonitorInvArt, PTL DEF DSpec
================================================================================
