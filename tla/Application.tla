---------------------------- MODULE Application ----------------------------
(***************************************************************************)
(* One artdaq process under run control: the commands the XML-RPC server   *)
(* hands to Commandable, the operations of the five applications (the      *)
(* *App classes and their cores), and the threads a board reader and a     *)
(* routing manager run between start and stop.                             *)
(*                                                                         *)
(* Commands come one at a time: cmd_::execute holds the timed mutex of the *)
(* server for the whole command and answers "busy" to the others, which    *)
(* changes nothing.  Each takes primary_mutex_ for its transition, as does *)
(* in_run_failure, which the threads of a board reader call.               *)
(*                                                                         *)
(* MaxGen bounds how many pairs of threads a process may have at once.     *)
(***************************************************************************)
EXTENDS CommandableSM, FiniteSets

CONSTANTS Kinds,      \* the applications to model, of the five below
          AutoKinds,  \* those that may also be started with auto_run
          MaxGen      \* generations of worker threads

ASSUME KindsAssumption ==
  /\ Kinds \subseteq {"BoardReader", "EventBuilder", "DataLogger", "Dispatcher", "RoutingManager"}
  /\ AutoKinds \subseteq Kinds
ASSUME MaxGenAssumption == MaxGen \in Nat \ {0}

VARIABLES
  kind,     \* what the process is
  auto,     \* it was started with auto_run
  stack,    \* fsm_
  primary,  \* who holds primary_mutex_: "free", "cmd"
  ctl,      \* the command in hand, how far it is, and the edge it takes
  reply,    \* how the command before went
  core,     \* the core object and, for a board reader, its generator and buffer
  thr,      \* the worker threads by generation, "none" before and after their life
  handle,   \* the generation the application's thread objects refer to, 0: none
  active,   \* receiver_thread_active_, sender_thread_active_
  alive,    \* "up", "terminated" by shutdown, or what brought the process down
  hist      \* irregular: a start failed, an operation of the experiment threw or the
            \* process started itself; quiet: since the last start a thread ended
            \* without telling anybody

vars == <<kind, auto, stack, primary, ctl, reply, core, thr, handle, active, alive, hist>>

Gens == 1 .. MaxGen
Workers == {"input", "output", "table"}
Live(t) == t # "none"
LiveThreads == {x \in Gens \X Workers : Live(thr[x])}
FreeGens == {g \in Gens : \A w \in Workers : ~Live(thr[<<g, w>>])}
NextGen == CHOOSE g \in FreeGens : \A h \in FreeGens : g <= h
Owns(w) == CASE kind = "BoardReader"    -> w \in {"input", "output"}
             [] kind = "RoutingManager" -> w = "table"
             [] OTHER                   -> FALSE

Faults == {"null_core", "freed_core", "undefined_failure", "uncaught"}
Idle == [cmd |-> "none", pc |-> "idle", edge |-> Edge("none", Booted, Booted, Booted)]

NoReply == [cmd |-> "none", res |-> "ok"]

NoCore  == [made |-> FALSE, parts |-> FALSE, fresh |-> FALSE, running |-> FALSE,
            should_stop |-> FALSE, exception |-> FALSE, bufStop |-> FALSE]
NewCore == [NoCore EXCEPT !.made = TRUE]

\* runArtdaqApp: with auto_run the operations are called past the state machine.
Init ==
  /\ kind \in Kinds
  /\ auto \in (IF kind \in AutoKinds THEN BOOLEAN ELSE {FALSE})
  /\ stack = Booted
  /\ primary = "free"
  /\ ctl = IF auto THEN [cmd |-> "auto_run", pc |-> "do", edge |-> Edge("initialize", Booted, Booted, Booted)]
                   ELSE Idle
  /\ reply = NoReply
  /\ core = NoCore
  /\ thr = [x \in Gens \X Workers |-> "none"]
  /\ handle = 0
  /\ active = {}
  /\ alive = "up"
  /\ hist = [irregular |-> auto, quiet |-> FALSE]

Down(why) ==
  /\ alive' = why
  /\ UNCHANGED <<kind, auto, stack, primary, ctl, reply, core, thr, handle, active, hist>>

-----------------------------------------------------------------------------
(***************************************************************************)
(* Commands.                                                               *)
(***************************************************************************)
\* cmd_::execute, with the mutex of the server taken.
Request(c) ==
  /\ alive = "up" /\ ctl.pc = "idle"
  /\ c \in {"start", "resume"} => FreeGens # {}    \* bound
  /\ ctl' = [ctl EXCEPT !.cmd = c, !.pc = "asked"]
  /\ reply' = NoReply
  /\ UNCHANGED <<kind, auto, stack, primary, core, thr, handle, active, alive, hist>>

\* The Commandable method: the lock, and the state machine's answer.
Dispatch ==
  /\ alive = "up" /\ ctl.pc = "asked" /\ primary = "free"
  /\ LET e == Transition(stack, ctl.cmd)
     IN  IF e.op = "refused"
         THEN /\ ctl' = Idle
              /\ reply' = [cmd |-> ctl.cmd, res |-> "refused"]
              /\ UNCHANGED <<stack, primary>>
         ELSE /\ ctl' = [ctl EXCEPT !.pc = "do", !.edge = e]
              /\ stack' = e.during
              /\ primary' = "cmd"
              /\ UNCHANGED reply
  /\ UNCHANGED <<kind, auto, core, thr, handle, active, alive, hist>>

\* rollover_subrun, add_config_archive_entry, clear_config_archive and meta_command
\* reach the core past the state machine and the lock, whether or not it exists.
Direct ==
  /\ alive = "up" /\ ctl.pc = "idle"
  /\ kind \in {"BoardReader", "EventBuilder", "DataLogger"}
  /\ ~core.made
  /\ Down("null_core")

\* Where the operation leaves the state machine.
Lands(r) == CASE r = "ok" -> ctl.edge.ok [] r = "no" -> ctl.edge.no [] OTHER -> ctl.edge.during

\* BootedEnter: only a board reader and a routing manager let go of their core.
BootedEnter(r, c) ==
  IF /\ kind \in {"BoardReader", "RoutingManager"}
     /\ ctl.cmd # "auto_run" /\ r # "throw"
     /\ Lands(r) = Booted /\ (r = "ok" \/ ctl.edge.during # Booted)
  THEN NoCore ELSE c

(***************************************************************************)
(* The operation answers r and leaves the core as c: the edge is taken,    *)
(* the lock released and the reply given.  A shutdown that was carried out *)
(* ends the server, whatever it answered.  An automatic start follows its  *)
(* initialization without looking at what that answered.                   *)
(***************************************************************************)
Finish(r, c) ==
  LET c2 == BootedEnter(r, c)
  IN  /\ stack' = Lands(r)
      /\ core' = c2
      /\ primary' = "free"
      /\ reply' = [cmd |-> ctl.cmd, res |-> r]
      /\ ctl' = IF ctl.cmd = "auto_run" /\ ctl.edge.op = "initialize"
                THEN [ctl EXCEPT !.pc = "do", !.edge.op = "start"] ELSE Idle
      /\ alive' = CASE c.made /\ ~c2.made /\ LiveThreads # {}        -> "freed_core"
                    [] ctl.cmd = "auto_run" /\ r = "throw"           -> "uncaught"
                    [] ctl.cmd = "shutdown" /\ r # "throw"           -> "terminated"
                    [] OTHER                                         -> alive

Doing(op) == alive = "up" /\ ctl.pc = "do" /\ ctl.edge.op = op

DoNothing ==
  /\ Doing("none")
  /\ Finish("ok", core)
  /\ UNCHANGED <<kind, auto, thr, handle, active, hist>>
-----------------------------------------------------------------------------
(***************************************************************************)
(* Initialization.  parts: the object the later operations dereference is  *)
(* there (generator, event store, token receiver).  fresh: the core was    *)
(* built from the configuration of the last initialization.                *)
(***************************************************************************)
Attempt(c, had) ==
  {[res |-> "ok", core |-> [c EXCEPT !.parts = TRUE, !.fresh = TRUE]]} \cup
  {[res |-> r, core |-> [c EXCEPT !.parts = p, !.fresh = FALSE]] : r \in {"no", "throw"}, p \in {had, TRUE}}

Unchanged == {[res |-> "ok", core |-> [core EXCEPT !.fresh = FALSE]]}

BoardReader_do_initialize == Attempt(NewCore, FALSE)

RoutingManager_do_initialize == Attempt(NewCore, FALSE)

EventBuilder_do_initialize == IF core.made THEN Unchanged ELSE Attempt(NewCore, FALSE)

DataLogger_do_initialize == Attempt([core EXCEPT !.made = TRUE], core.parts)

Dispatcher_do_initialize == Attempt([core EXCEPT !.made = TRUE], core.parts)

do_initialize ==
  CASE kind = "BoardReader"    -> BoardReader_do_initialize
    [] kind = "RoutingManager" -> RoutingManager_do_initialize
    [] kind = "EventBuilder"   -> EventBuilder_do_initialize
    [] kind = "DataLogger"     -> DataLogger_do_initialize
    [] kind = "Dispatcher"     -> Dispatcher_do_initialize

\* BoardReaderCore and RoutingManagerCore initialize again what they have.
do_soft_initialize ==
  IF kind \in {"BoardReader", "RoutingManager"} THEN Attempt(core, core.parts)
  ELSE {[res |-> "ok", core |-> core]}

do_reinitialize ==
  CASE kind \in {"BoardReader", "RoutingManager"} -> Attempt(core, core.parts)
    [] kind = "EventBuilder" -> Attempt([core EXCEPT !.parts = FALSE], FALSE)
    [] OTHER -> {[res |-> "ok", core |-> core]}

Initializing(op, outcomes) ==
  /\ Doing(op)
  /\ \E o \in outcomes : Finish(o.res, o.core)
  /\ UNCHANGED <<kind, auto, thr, handle, active, hist>>

\* A new core takes the place of one whose threads still run.
Replaced == kind \in {"BoardReader", "RoutingManager"} /\ core.made /\ LiveThreads # {}

DoInitialize == ~Replaced /\ Initializing("initialize", do_initialize)
DoInitializeFreed == Doing("initialize") /\ Replaced /\ Down("freed_core")
DoSoftInitialize == Initializing("soft_initialize", do_soft_initialize)
DoReinitialize == Initializing("reinitialize", do_reinitialize)

\* DataReceiverCore and the operations of the applications it serves: they
\* answer at once and always true, if there is an event store.
EventBuilderApp == kind = "EventBuilder"
DataLoggerApp == kind = "DataLogger"
DispatcherApp == kind = "Dispatcher"
Receiver == EventBuilderApp \/ DataLoggerApp \/ DispatcherApp
ReceiverOps == {"start", "stop", "pause", "resume", "shutdown"}

Received(op) ==
  CASE op = "start"    -> [core EXCEPT !.should_stop = FALSE]
    [] op = "stop"     -> [core EXCEPT !.should_stop = TRUE]
    [] op = "shutdown" -> [core EXCEPT !.parts = FALSE]
    [] OTHER           -> core

DoReceiver(op) ==
  /\ Doing(op) /\ Receiver
  /\ IF core.parts
     THEN /\ Finish("ok", Received(op))
          /\ UNCHANGED <<kind, auto, thr, handle, active, hist>>
     ELSE Down("null_core")
-----------------------------------------------------------------------------
(***************************************************************************)
(* A board reader.  Each operation makes the threads or waits for them, so *)
(* it is in steps: the primary mutex stays held from the first to the last.*)
(***************************************************************************)
At(op, pc) == alive = "up" /\ ctl.pc = pc /\ ctl.edge.op = op /\ kind = "BoardReader"
Goto(pc) == ctl' = [ctl EXCEPT !.pc = pc]
Threads(op) == Doing(op) /\ kind = "BoardReader"

\* do_start, do_resume: a pair of threads is made; then both must come up in time.
MakeThreads(op) ==
  /\ Threads(op)
  /\ IF core.parts
     THEN LET g == NextGen IN
            /\ thr' = [thr EXCEPT ![<<g, "input">>] = "starting", ![<<g, "output">>] = "starting"]
            /\ handle' = g
            /\ hist' = IF op = "start" THEN [hist EXCEPT !.quiet = FALSE] ELSE hist
            /\ Goto("wait")
            /\ UNCHANGED <<kind, auto, stack, primary, reply, core, active, alive>>
     ELSE Down("null_core")

\* Mutant: Reset is not called, which leaves the buffer as the last stop left it.
BeginStart_noReset(op) == [core EXCEPT !.running = TRUE, !.should_stop = FALSE, !.exception = FALSE]

\* core.start resets the buffer and tells the generator, core.resume only the latter.
BeginStart(op) ==
  IF op = "start"
  THEN [core EXCEPT !.bufStop = FALSE, !.should_stop = FALSE, !.exception = FALSE, !.running = TRUE]
  ELSE [core EXCEPT !.should_stop = FALSE]

Begin(op) ==
  /\ At(op, "wait") /\ active = {"input", "output"}
  /\ core' = BeginStart(op)
  /\ Goto("begun")
  /\ UNCHANGED <<kind, auto, stack, primary, reply, thr, handle, active, alive, hist>>

Begun(op) ==
  /\ At(op, "begun")
  /\ Finish("ok", core)
  /\ UNCHANGED <<kind, auto, thr, handle, active, hist>>

\* The experiment's start() or resume() throws: running_ is not set.
BeginThrows(op) ==
  /\ At(op, "wait") /\ active = {"input", "output"}
  /\ Finish("throw", [BeginStart(op) EXCEPT !.running = core.running])
  /\ hist' = [hist EXCEPT !.irregular = TRUE]
  /\ UNCHANGED <<kind, auto, thr, handle, active>>

WaitTimeout(op) ==
  /\ At(op, "wait") /\ active # {"input", "output"}
  /\ Finish("no", core)
  /\ hist' = [hist EXCEPT !.irregular = TRUE]
  /\ UNCHANGED <<kind, auto, thr, handle, active>>

\* StopCmd, PauseCmd: tell the generator to stop, wait for getNext to let go of the
\* mutex, then call the experiment's stop() or pause().
TellStop(op) ==
  /\ Threads(op)
  /\ core' = [core EXCEPT !.should_stop = TRUE]
  /\ Goto("mutex")
  /\ UNCHANGED <<kind, auto, stack, primary, reply, thr, handle, active, alive, hist>>

NoneReads == \A g \in Gens : thr[<<g, "input">>] # "reading"

\* Mutant: the buffer is not told.
StopCore_noBuffer(op) == IF op = "stop" THEN [core EXCEPT !.running = FALSE] ELSE core

\* After a stop the buffer is told to stop, too; after a pause it is not.
StopCore(op) == IF op = "stop" THEN [core EXCEPT !.bufStop = TRUE, !.running = FALSE] ELSE core

Stopped(op) ==
  /\ At(op, "mutex") /\ NoneReads
  /\ core' = StopCore(op)
  /\ Goto("join")
  /\ UNCHANGED <<kind, auto, stack, primary, reply, thr, handle, active, alive, hist>>

StopThrows(op) ==
  /\ At(op, "mutex") /\ NoneReads
  /\ Finish("throw", core)
  /\ hist' = [hist EXCEPT !.irregular = TRUE]
  /\ UNCHANGED <<kind, auto, thr, handle, active>>

\* core.shutdown: joinThreads and the end of the generator.
ShutdownCore ==
  /\ Threads("shutdown")
  /\ IF core.parts
     THEN /\ core' = [core EXCEPT !.should_stop = TRUE, !.parts = FALSE]
          /\ Goto("join")
          /\ UNCHANGED <<kind, auto, stack, primary, reply, thr, handle, active, alive, hist>>
     ELSE Down("null_core")

\* The thread objects the application has; a failed start may have left others.
Joined == handle # 0 => \A w \in Workers : ~Live(thr[<<handle, w>>])

Join(op) ==
  /\ At(op, "join") /\ Joined
  /\ Finish("ok", core)
  /\ handle' = 0
  /\ UNCHANGED <<kind, auto, thr, active, hist>>

-----------------------------------------------------------------------------
(***************************************************************************)
(* The threads of a board reader: receive_fragments ("input") and          *)
(* send_fragments ("output").                                              *)
(***************************************************************************)
Step(g, w, t) == thr' = [thr EXCEPT ![<<g, w>>] = t]
Running_(g, w, t) == alive = "up" /\ kind = "BoardReader" /\ thr[<<g, w>>] = t
OthersUnchanged == UNCHANGED <<kind, auto, stack, primary, ctl, reply, handle, alive>>

ThreadActive(g, w) ==
  /\ Running_(g, w, "starting")
  /\ Step(g, w, "waiting") /\ active' = active \cup {w}
  /\ UNCHANGED <<core, hist>> /\ OthersUnchanged

ThreadRuns(g, w) ==
  /\ Running_(g, w, "waiting") /\ core.running
  /\ Step(g, w, "looping")
  /\ UNCHANGED <<core, active, hist>> /\ OthersUnchanged

\* start_transition_timeout_ has passed.
ThreadGivesUp(g, w) ==
  /\ Running_(g, w, "waiting") /\ ~core.running
  /\ Step(g, w, "none") /\ active' = active \ {w}
  /\ hist' = [hist EXCEPT !.quiet = TRUE]
  /\ UNCHANGED core /\ OthersUnchanged

\* A loop whose call answered false: it reports a failure if there is an exception.
LoopEnds(g, w) ==
  /\ Step(g, w, IF core'.exception THEN "failing" ELSE "none")
  /\ active' = active \ {w}

GetNext(g) ==
  /\ Running_(g, "input", "looping")
  /\ IF core.exception \/ core.should_stop \/ "input" \notin active
     THEN core' = core /\ LoopEnds(g, "input")
     ELSE Step(g, "input", "reading") /\ UNCHANGED <<core, active>>
  /\ UNCHANGED hist /\ OthersUnchanged

GetNextAnswers(g) ==
  /\ Running_(g, "input", "reading")
  /\ Step(g, "input", "looping") /\ active' = active \cup {"input"}
  /\ UNCHANGED <<core, hist>> /\ OthersUnchanged

GetNextThrows(g) ==
  /\ Running_(g, "input", "reading")
  /\ core' = [core EXCEPT !.exception = TRUE]
  /\ LoopEnds(g, "input")
  /\ UNCHANGED hist /\ OthersUnchanged

\* The hardware is not well, or getNext_ answers false: nobody is told.
GetNextEnds(g) ==
  /\ Running_(g, "input", "reading")
  /\ Step(g, "input", "none") /\ active' = active \ {"input"}
  /\ hist' = [hist EXCEPT !.quiet = TRUE]
  /\ UNCHANGED core /\ OthersUnchanged

\* applyRequests answers false once the buffer was told to stop, and only then.
ApplyRequestsEnds(g) ==
  /\ Running_(g, "output", "looping") /\ core.bufStop
  /\ core' = core /\ LoopEnds(g, "output")
  /\ UNCHANGED hist /\ OthersUnchanged

MayReport == primary = "free"

\* Commandable::in_run_failure, which only Running knows what to do with.
InRunFailure(g, w) ==
  /\ Running_(g, w, "failing") /\ MayReport
  /\ IF stack = Running
     THEN /\ stack' = InRunError
          /\ Step(g, w, "none")
          /\ UNCHANGED <<kind, auto, primary, ctl, reply, core, handle, active, alive, hist>>
     ELSE Down("undefined_failure")

-----------------------------------------------------------------------------
(***************************************************************************)
(* A routing manager: one thread, process_event_table.                     *)
(***************************************************************************)
Routing(op) == Doing(op) /\ kind = "RoutingManager"

StartTable(op) ==
  /\ Routing(op) /\ op \in {"start", "resume"}
  /\ IF core.parts
     THEN LET g == NextGen IN
            /\ Finish("ok", [core EXCEPT !.should_stop = FALSE])
            /\ Step(g, "table", "looping")
            /\ handle' = g
            /\ UNCHANGED <<kind, auto, active, hist>>
     ELSE Down("null_core")

StopTable(op) ==
  /\ Routing(op) /\ op \in {"stop", "pause"}
  /\ IF core.should_stop
     THEN /\ Joined
          /\ Finish("ok", core)
          /\ handle' = 0
          /\ UNCHANGED <<kind, auto, thr, active, hist>>
     ELSE /\ core' = [core EXCEPT !.should_stop = TRUE]
          /\ UNCHANGED <<kind, auto, stack, primary, ctl, reply, thr, handle, active, alive, hist>>

TableEnds(g) ==
  /\ alive = "up" /\ thr[<<g, "table">>] = "looping" /\ core.should_stop
  /\ Step(g, "table", "none")
  /\ UNCHANGED <<core, active, hist>> /\ OthersUnchanged

ShutdownTable ==
  /\ Routing("shutdown")
  /\ IF core.parts
     THEN /\ Finish("ok", [core EXCEPT !.parts = FALSE])
          /\ UNCHANGED <<kind, auto, thr, handle, active, hist>>
     ELSE Down("null_core")

-----------------------------------------------------------------------------
Operation ==
  \/ Dispatch \/ DoNothing
  \/ DoInitialize \/ DoInitializeFreed \/ DoSoftInitialize \/ DoReinitialize
  \/ \E op \in ReceiverOps : DoReceiver(op)
  \/ \E op \in {"start", "resume"} :
       MakeThreads(op) \/ Begin(op) \/ Begun(op) \/ BeginThrows(op) \/ WaitTimeout(op)
  \/ \E op \in {"stop", "pause"} : TellStop(op) \/ Stopped(op) \/ StopThrows(op)
  \/ \E op \in {"stop", "pause", "shutdown"} : Join(op)
  \/ ShutdownCore \/ ShutdownTable
  \/ \E op \in {"start", "resume"} : StartTable(op)
  \/ \E op \in {"stop", "pause"} : StopTable(op)

Thread(g, w) ==
  \/ ThreadActive(g, w) \/ ThreadRuns(g, w) \/ ThreadGivesUp(g, w)
  \/ InRunFailure(g, w)
  \/ w = "input"  /\ (GetNext(g) \/ GetNextAnswers(g) \/ GetNextThrows(g) \/ GetNextEnds(g))
  \/ w = "output" /\ ApplyRequestsEnds(g)
  \/ w = "table"  /\ TableEnds(g)

Ask == \E c \in Transitions : Request(c)

Next == Ask \/ Direct \/ Operation \/ \E g \in Gens, w \in Workers : Thread(g, w)

(***************************************************************************)
(* Every thread of the process runs until it waits; a client sends         *)
(* commands as it likes.                                                   *)
(***************************************************************************)
Fairness ==
  /\ WF_vars(Operation)
  /\ \A g \in Gens, w \in Workers : WF_vars(Thread(g, w))

Spec == Init /\ [][Next]_vars /\ Fairness

-----------------------------------------------------------------------------
(***************************************************************************)
(* Properties.                                                             *)
(***************************************************************************)
\* Every variable has its type; in particular the stack of the state machine is one
\* of seven, so no pop ever empties it and no push piles states up.
TypeOK ==
  /\ kind \in Kinds /\ auto \in BOOLEAN
  /\ stack \in Stacks
  /\ primary \in {"free", "cmd"}
  /\ ctl.cmd \in Transitions \cup {"none", "auto_run", "register_monitor"}
  /\ ctl.pc \in {"idle", "asked", "do", "wait", "begun", "mutex", "join", "filters"}
  /\ {ctl.edge.during, ctl.edge.ok, ctl.edge.no} \subseteq Stacks
  /\ reply.res \in {"ok", "no", "throw", "refused"}
  /\ thr \in [Gens \X Workers ->
                {"none", "starting", "waiting", "looping", "reading", "failing"}]
  /\ handle \in 0 .. MaxGen
  /\ active \subseteq Workers
  /\ alive \in {"up", "terminated"} \cup Faults
  /\ \A x \in DOMAIN thr : Live(thr[x]) => Owns(x[2])

Quiet == alive = "up" /\ ctl.pc = "idle"

\* Between commands the state machine stands where the published list of legal
\* commands is true of it, except in InRun, where a stop that threw leaves it.
LegalCommandsLegal ==
  Quiet /\ stack # InRun => \A c \in legal_commands(stack) : Accepts(stack, c)

\* A board reader that says Running, after a start in which neither thread ran out of
\* patience and no getNext ended the run on its own, has both its threads.
RunningMeansReading ==
  /\ kind = "BoardReader" /\ Quiet /\ stack = Running
  /\ ~hist.quiet /\ ~hist.irregular
  => \A w \in {"input", "output"} : \E g \in Gens : Live(thr[<<g, w>>])

\* Outside a run no thread of the process is alive, unless a start failed, an operation
\* of the experiment threw or the process started itself.
ReadyMeansQuiet ==
  /\ Quiet /\ stack \in {Booted, MainInit, Ready}
  /\ ~hist.irregular
  => LiveThreads = {}

\* What brings a process down is known.  A core deleted under its threads, and a thread's
\* failure that the state machine has no transition for, need a start that failed, an
\* operation of the experiment that threw or an automatic start; a missing object needs an
\* initialization that failed, or a command that bypasses the state machine.
CrashExplained ==
  /\ alive \in {"freed_core", "undefined_failure"} => hist.irregular
  /\ alive = "null_core" => ~core.fresh \/ ctl.pc = "idle"

\* Ready after an init that answered Success means that the core was built from that
\* configuration, except for an event builder, which keeps the one it has.
FreshConfig ==
  Quiet /\ stack = Ready /\ reply = [cmd |-> "init", res |-> "ok"]
  => core.fresh \/ kind = "EventBuilder"

\* What the state machine says of a process is so: its commands, its threads, its
\* configuration, and why it is gone.
StateTruthful ==
  /\ TypeOK /\ LegalCommandsLegal /\ RunningMeansReading /\ ReadyMeansQuiet
  /\ FreshConfig /\ CrashExplained

\* Commands that can never end: stop and pause wait for a thread which waits for the
\* primary mutex they hold, or, for pause, which nobody told to stop; a dispatcher that
\* is not in broadcast mode waits for a mutex no one will release.
Stuck ==
  \/ /\ ctl.pc = "join" /\ handle # 0
     /\ \/ \E w \in Workers : thr[<<handle, w>>] = "failing"
        \/ ctl.cmd = "pause" /\ thr[<<handle, "output">>] = "looping"
  \/ ctl.pc = "filters"

\* Every other command is answered, if the process lives.
CommandsAnswered == ctl.pc # "idle" ~> ctl.pc = "idle" \/ Stuck \/ alive # "up"

\* An exception in getNext leads to InRunError, if no command is in the way.
ErrorReported ==
  (\E g \in Gens, w \in Workers : thr[<<g, w>>] = "failing")
  ~> stack = InRunError \/ ctl.pc # "idle" \/ alive # "up"

\* CommanderInterface.hh:90: a command is answered, with success or failure, when it
\* has been processed.
CommandsEnd == ctl.pc # "idle" ~> ctl.pc = "idle" \/ alive # "up"
=============================================================================
