---------------------------- MODULE RoutingPolicies ----------------------------
(***************************************************************************)
(* How the policies of a routing manager spend tokens                      *)
(* (artdaq/RoutingPolicies): RoundRobin gives whole turns, one event to    *)
(* each receiver, PreferSameHost picks a receiver on the host of the       *)
(* sender that asks, and CapacityTest fills the receivers up in the order  *)
(* of their ranks.  A policy makes the table that is broadcast in mode     *)
(* EventBuilding, and single routes for the senders that ask; the routes   *)
(* given are remembered in routing_cache_, in mode DataFlow for each       *)
(* sender apart.                                                           *)
(*                                                                         *)
(* The NoOp policy, tables made of the cache, a cache that is full and the *)
(* way of tables and replies to the senders are in module Routing.         *)
(***************************************************************************)
EXTENDS Integers, Sequences, FiniteSets, Sorting

CONSTANTS
  Policies,      \* the policy is one of these
  Minimums,      \* minimum_participants is one of these
  Percent,       \* tokens_used_per_table_percent
  Receivers,     \* ranks of the receivers
  Requesters,    \* ranks of the senders
  my_rank,       \* rank of the routing manager
  Host,          \* the host map; a rank missing from it has the host ""
  RouteSeqs,     \* bound: routes are asked for sequence IDs 1..RouteSeqs
  ReceiverTokens,  \* bound: tokens held of each receiver
  MaxSent,       \* bound, per run: a receiver that sent so many tokens sends no more
  MaxResets      \* bound: how often the policy is reset

ASSUME PolicyConstants ==
  /\ Policies \subseteq {"RoundRobin", "PreferSameHost", "CapacityTest"}
  /\ Minimums \subseteq Int /\ Requesters \subseteq Nat
  /\ Receivers \subseteq Nat /\ IsFiniteSet(Receivers)
  /\ my_rank \in Nat \ Requesters
  /\ {Percent, RouteSeqs, ReceiverTokens, MaxResets} \subseteq Nat
  /\ MaxSent \in [1..MaxResets + 1 -> Nat]

VARIABLES
  policy, flow, minimumP,  \* the policy, routing_mode_ and minimum_participants_
  held,       \* tokens_: how many of each receiver
  ranks,      \* receiver_ranks_
  nextRoute,  \* next_sequence_id_
  usedTokens, \* tokens_used_since_last_update_
  round,      \* receivers_in_current_round_
  rcache,     \* routing_cache_: entries [seq, src, dest]
  sentTokens, \* history: the tokens of each receiver in this run
  routed,     \* history: the routes [seq, src, dest] made in this run
  leftover,   \* history: receivers whose turn was left open by a reset
  resets

policyState == <<held, ranks, nextRoute, usedTokens, round, rcache>>
policyHistory == <<sentTokens, routed, leftover, resets>>
routeVars == <<policy, flow, minimumP, policyState, policyHistory>>

RouteIDs == 1..RouteSeqs
NoTokens == [b \in Receivers |-> 0]

PolicyInit ==
  /\ policy \in Policies /\ flow \in {"EventBuilding", "RequestBased", "DataFlow"}
  /\ minimumP \in Minimums /\ (policy = "RoundRobin" \/ minimumP = 0)
  /\ held = NoTokens /\ ranks = {} /\ nextRoute = 1 /\ usedTokens = 0
  /\ round = {} /\ rcache = {}
  /\ sentTokens = NoTokens /\ routed = {} /\ leftover = {} /\ resets = 0
-------------------------------------------------------------------------------
(* The policies *)

Lowest(S) == CHOOSE b \in S : \A c \in S : b <= c

\* Mutant: the sum is unsigned.
Minimum_unsigned ==
  LET least == IF minimumP > 0 THEN minimumP ELSE Cardinality(ranks) + minimumP
  IN IF least < 0 THEN least + 1000 ELSE IF least = 0 THEN 1 ELSE least

\* calculateMinimum_.
Minimum ==
  LET least == IF minimumP > 0 THEN minimumP ELSE Cardinality(ranks) + minimumP
  IN IF least < 1 THEN 1 ELSE least

\* The receivers that have a token left for the k-th turn.
InTurn(k) == {b \in Receivers : held[b] >= k}
Turns == Cardinality({k \in 1..ReceiverTokens : Cardinality(InTurn(k)) >= Minimum})

\* The tokens as <<receiver, turn>>, and the orders the tables take them in: turn by turn, or
\* all of one receiver before the next.
Tokens == {t \in Receivers \X (1..ReceiverTokens) : t[2] <= held[t[1]]}
TokenCount == Cardinality(Tokens)
ByTurn == {p \in Tokens \X Tokens : p[1][2] < p[2][2] \/ (p[1][2] = p[2][2] /\ p[1][1] < p[2][1])}
ByRank == {p \in Tokens \X Tokens : p[1][1] < p[2][1] \/ (p[1][1] = p[2][1] /\ p[1][2] < p[2][2])}

\* RoundRobinPolicy::CreateRoutingTable, and the same in PreferSameHost: whole turns.
TurnsTable == Ascending({t \in Tokens : t[2] <= Turns}, ByTurn)

\* CapacityTestPolicy::CreateRoutingTable: part of the tokens, lowest ranks first; at least one.
CapacityTable ==
  LET wanted == ((TokenCount * Percent + 99) \div 100) - usedTokens
      taken  == IF wanted < 1 THEN 1 ELSE IF wanted > TokenCount THEN TokenCount ELSE wanted
  IN SubSeq(Ascending(Tokens, ByRank), 1, taken)

\* The tokens a table uses, in order.
RoutingTable ==
  IF TokenCount = 0 THEN << >> ELSE IF policy = "CapacityTest" THEN CapacityTable ELSE TurnsTable

\* The receiver of S with the most tokens, the lowest of them.
MostTokens(S) == Lowest({b \in S : \A c \in S : held[c] <= held[b]})

\* PreferSameHostPolicy::CreateRouteForSequenceID.
SameHost(s) ==
  LET near == {b \in InTurn(1) : Host[b] = Host[s] /\ Host[b] # ""}
  IN MostTokens(IF near = {} THEN InTurn(1) ELSE near)

Spend(B) == held' = [b \in Receivers |-> IF b \in B THEN held[b] - 1 ELSE held[b]]

\* Mutant: the receivers whose turn comes later keep their tokens.
BeginRound_unpaid(b) ==
  /\ Cardinality(InTurn(1)) >= Minimum /\ b = Lowest(InTurn(1))
  /\ round' = InTurn(1) \ {b} /\ Spend({b})

\* RoundRobinPolicy::CreateRouteForSequenceID, when a new turn has to begin.
BeginRound(b) ==
  /\ Cardinality(InTurn(1)) >= Minimum /\ b = Lowest(InTurn(1))
  /\ round' = InTurn(1) \ {b} /\ Spend(InTurn(1))

\* CreateRouteForSequenceID gives the request of s the receiver b.
CreateRoute(s, b) ==
  \/ /\ policy = "RoundRobin" /\ round # {} /\ b = Lowest(round)
     /\ round' = round \ {b} /\ UNCHANGED <<held, usedTokens>>
  \/ /\ policy = "RoundRobin" /\ round = {}
     /\ BeginRound(b) /\ UNCHANGED usedTokens
  \/ /\ policy = "PreferSameHost" /\ InTurn(1) # {} /\ b = SameHost(s)
     /\ Spend({b}) /\ UNCHANGED <<round, usedTokens>>
  \/ /\ policy = "CapacityTest" /\ InTurn(1) # {} /\ b = Lowest(InTurn(1))
     /\ Spend({b}) /\ usedTokens' = usedTokens + 1 /\ UNCHANGED round
-------------------------------------------------------------------------------
(* RoutingManagerPolicy *)

\* AddReceiverToken; where a token is put in the list makes no difference to these policies.
AddTokens(b, n) ==
  /\ held[b] + n <= ReceiverTokens /\ sentTokens[b] < MaxSent[resets + 1]
  /\ held' = [held EXCEPT ![b] = @ + n] /\ ranks' = ranks \cup {b}
  /\ sentTokens' = [sentTokens EXCEPT ![b] = @ + n]
  /\ UNCHANGED <<policy, flow, minimumP, nextRoute, usedTokens, round, rcache,
                 routed, leftover, resets>>

\* restoreUnusedTokens_: what the table has not used stays.
UnusedTokens(out) ==
  [b \in Receivers |-> held[b] - Cardinality({i \in DOMAIN out : out[i][1] = b})]

\* GetCurrentTable and UpdateCache in mode EventBuilding; then process_event_table sets
\* the count of tokens used back, also when the table is empty.
MakeTable ==
  LET out == RoutingTable
      new == {[seq |-> nextRoute + i - 1, src |-> my_rank, dest |-> out[i][1]] : i \in DOMAIN out}
  IN /\ flow = "EventBuilding" /\ nextRoute <= RouteSeqs
     /\ held' = UnusedTokens(out) /\ nextRoute' = nextRoute + Len(out) /\ usedTokens' = 0
     /\ rcache' = rcache \cup {r \in new : \A q \in rcache : q.seq # r.seq}
     /\ routed' = routed \cup new
     /\ UNCHANGED <<policy, flow, minimumP, ranks, round,
                    sentTokens, leftover, resets>>

\* The entries GetRouteForSequenceID finds for a request.
Cached(e, s) == {r \in rcache : r.seq = e /\ (flow = "DataFlow" => r.src = s)}

\* GetRouteForSequenceID; a request that finds no token is repeated by its sender.
GetRoute(e, s) ==
  /\ \/ Cached(e, s) # {} /\ UNCHANGED <<held, usedTokens, round, rcache, routed>>
     \/ /\ Cached(e, s) = {}
        /\ \E b \in Receivers :
             LET entry == [seq |-> e, src |-> s, dest |-> b]
             IN /\ CreateRoute(s, b)
                /\ rcache' = rcache \cup {entry} /\ routed' = routed \cup {entry}
  /\ UNCHANGED <<policy, flow, minimumP, ranks, nextRoute, sentTokens, leftover, resets>>

\* Reset, when a run is paused or stopped; the requests and tokens are then those of a
\* new run, with sequence IDs of the old one still in the cache.
ResetRouting ==
  /\ resets < MaxResets /\ resets' = resets + 1
  /\ nextRoute' = 1 /\ held' = NoTokens /\ ranks' = {}
  /\ sentTokens' = NoTokens /\ routed' = {}
  /\ leftover' = round
  /\ UNCHANGED <<policy, flow, minimumP, usedTokens, round, rcache>>

PolicyNext ==
  \/ \E b \in Receivers, n \in 1..2 : AddTokens(b, n)
  \/ MakeTable \/ ResetRouting
  \/ \E e \in RouteIDs, s \in Requesters : GetRoute(e, s)

PolicySpec == PolicyInit /\ [][PolicyNext]_routeVars
-------------------------------------------------------------------------------
(* Properties *)

\* Every token becomes one route and every route has used one token, whatever the policy,
\* the mode and the mix of tables and requests: no receiver is sent more events than it
\* has buffers, and no buffer is left unused for good.  The receivers whose turn was open
\* at a reset are left out: receivers_in_current_round_ survives it.
TokensAccounted ==
  \A b \in Receivers :
    /\ held[b] >= 0
    /\ leftover = {} => sentTokens[b] = held[b] + Cardinality({r \in routed : r.dest = b})
                                     + Cardinality(round \cap {b})

\* Once receivers free buffers every request gets its route in the end, whatever
\* minimum_participants asks for that they can meet, unless the policy is reset.
RequestsRouted ==
  sentTokens # NoTokens ~>
    ((\A e \in RouteIDs, s \in Requesters : Cached(e, s) # {}) \/ resets > 0)
===============================================================================
