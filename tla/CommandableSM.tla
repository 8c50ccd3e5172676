--------------------------- MODULE CommandableSM ---------------------------
(***************************************************************************)
(* The state machine of every artdaq process: detail/Commandable_sm.cpp,   *)
(* which the SMC compiler made from detail/Commandable.sm, on the state    *)
(* stack of detail/statemap.h, and the list of legal commands Commandable  *)
(* publishes.  A stack is a sequence; its last element is the state.       *)
(*                                                                         *)
(* An edge says what a command does in a state: the stack while the do_    *)
(* operation runs (the generated code pops first and tests its guard       *)
(* afterwards), the operation, and the stack after it answered true (ok)   *)
(* or false (no).  An operation that throws leaves the stack as it is      *)
(* while it runs.                                                          *)
(***************************************************************************)
EXTENDS Integers, Sequences

Booted     == <<"Booted">>
MainInit   == <<"Initialized">>
Ready      == <<"Initialized", "Ready">>
InRun      == <<"Initialized", "InRun">>
Running    == <<"Initialized", "InRun", "Running">>
Paused     == <<"Initialized", "InRun", "Paused">>
InRunError == <<"Initialized", "InRun", "InRunError">>

Stacks == {Booted, MainInit, Ready, InRun, Running, Paused, InRunError}

Transitions == {"init", "soft_init", "reinit", "start", "stop", "pause", "resume", "shutdown"}

getState(s) == s[Len(s)]
setState(s, name) == [s EXCEPT ![Len(s)] = name]
pushState(s, name) == Append(s, name)
popState(s) == SubSeq(s, 1, Len(s) - 1)

Edge(op, during, ok, no) == [op |-> op, during |-> during, ok |-> ok, no |-> no]

(***************************************************************************)
(* The three Default maps.  Each clears the state and calls badTransition, *)
(* which asks for the current state and so throws StateUndefinedException; *)
(* the handler restores the state and throws on.  Nothing is recorded.     *)
(***************************************************************************)
Main_Default(s) == Edge("refused", s, s, s)
InitializedMap_Default(s) == Edge("refused", s, s, s)
InRunMap_Default(s) == Edge("refused", s, s, s)

ToReady(s) == pushState(setState(s, "Initialized"), "Ready")
ToRunning(s) == pushState(setState(s, "InRun"), "Running")

Main_Booted(s, c) ==
  CASE c \in {"init", "reinit"} -> Edge("initialize", s, ToReady(s), s)
    [] c = "shutdown"           -> Edge("none", s, setState(s, "Booted"), s)
    [] OTHER                    -> Main_Default(s)

Main_Initialized(s, c) ==
  CASE c \in {"init", "reinit"} -> Edge("initialize", s, ToReady(s), setState(s, "Booted"))
    [] c = "shutdown"           -> Edge("shutdown", s, setState(s, "Booted"), s)
    [] OTHER                    -> Main_Default(s)

InitializedMap_Ready(s, c) ==
  CASE c \in {"init", "shutdown"} -> Main_Initialized(popState(s), c)
    [] c = "reinit"               -> Edge("reinitialize", s, s, s)
    [] c = "soft_init"            -> Edge("soft_initialize", s, s, s)
    [] c = "start"                -> Edge("start", s, ToRunning(s), s)
    [] OTHER                      -> InitializedMap_Default(s)

InitializedMap_InRun(s, c) ==
  IF c = "stop" THEN Edge("stop", s, setState(s, "Ready"), s)
                ELSE InitializedMap_Default(s)

InRunMap_Running(s, c) ==
  CASE c = "pause" -> Edge("pause", s, setState(s, "Paused"), s)
    [] c = "stop"  -> InitializedMap_InRun(popState(s), c)
    [] OTHER       -> InRunMap_Default(s)

InRunMap_Paused(s, c) ==
  CASE c = "resume" -> Edge("resume", s, setState(s, "Running"), s)
    [] c = "stop"   -> InitializedMap_InRun(popState(s), c)
    [] OTHER        -> InRunMap_Default(s)

InRunMap_InRunError(s, c) ==
  CASE c = "pause" -> Edge("pause", s, setState(s, "Paused"), s)
    [] c = "stop"  -> InitializedMap_InRun(popState(s), c)
    [] OTHER       -> InRunMap_Default(s)

\* CommandableContext: the current state answers the command.
Transition(s, c) ==
  CASE getState(s) = "Booted"      -> Main_Booted(s, c)
    [] getState(s) = "Initialized" -> Main_Initialized(s, c)
    [] getState(s) = "Ready"       -> InitializedMap_Ready(s, c)
    [] getState(s) = "InRun"       -> InitializedMap_InRun(s, c)
    [] getState(s) = "Running"     -> InRunMap_Running(s, c)
    [] getState(s) = "Paused"      -> InRunMap_Paused(s, c)
    [] getState(s) = "InRunError"  -> InRunMap_InRunError(s, c)

Accepts(s, c) == Transition(s, c).op # "refused"

\* Commandable::legal_commands, what a client is told it may send.
legal_commands(s) ==
  CASE getState(s) = "Ready"      -> {"init", "soft_init", "start", "shutdown"}
    [] getState(s) = "Running"    -> {"pause", "stop"}
    [] getState(s) = "Paused"     -> {"resume", "stop"}
    [] getState(s) = "InRunError" -> {"pause", "stop"}
    [] OTHER                      -> {"init", "shutdown"}
=============================================================================
