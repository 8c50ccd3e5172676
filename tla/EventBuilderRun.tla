---------------------------- MODULE EventBuilderRun ----------------------------
(***************************************************************************)
(* What an event builder keeps beside its events: the subruns, the tokens  *)
(* and the art processes.  They share no state but the run, which begins   *)
(* and ends them; each is run by itself: part says which.                  *)
(***************************************************************************)
EXTENDS SubrunMap, EventTokens, ArtProcesses

VARIABLE part

runVars == <<subrunVars, tokenVars, artVars>>

\* Without a routing manager there are no tokens.
NoTokens ==
  /\ buf = [empty |-> 0, writing |-> 0, full |-> 0, reading |-> 0]
  /\ tokens_sent_ = 0 /\ sending = None /\ counting = None
  /\ granted = 0 /\ assigned = 0 /\ run_event_count_ = 0 /\ raced = FALSE

RunInit ==
  /\ part \in {"subruns", "tokens", "art"}
  /\ SubrunInit /\ ArtInit
  /\ IF part = "tokens" THEN TokenInit ELSE NoTokens
  /\ part # "subruns" => boundary = CHOOSE f \in Boundaries : TRUE
  /\ init_fragment_count_ > 0 => always_restart_art_    \* three configurations will do
  /\ part # "art" => ~always_restart_art_

RunNext ==
  /\ UNCHANGED part
  /\ \/ part = "subruns" /\ SubrunNext /\ UNCHANGED <<tokenVars, artVars>>
     \/ part = "tokens" /\ TokenNext /\ UNCHANGED <<subrunVars, artVars>>
     \/ part = "art" /\ ArtNext /\ UNCHANGED <<subrunVars, tokenVars>>

RunSpec == RunInit /\ [][RunNext]_<<part, runVars>> /\ TokenFairness /\ ArtFairness
=============================================================================
