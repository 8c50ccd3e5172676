-------------------------------- MODULE Routing --------------------------------
(***************************************************************************)
(* Where the Fragments of an event go: the routing manager                 *)
(* (Application/RoutingManagerCore.cc, DAQrate/detail/TokenReceiver.cc and *)
(* RoutingPolicies/RoutingManagerPolicy.cc with the NoOp policy) turns the *)
(* tokens of the event builders, one for each free buffer, into routes,    *)
(* and the senders, one for each board, look them up                       *)
(* (DAQrate/detail/TableReceiver.cc, DAQrate/DataSenderManager.cc).        *)
(*                                                                         *)
(* Two threads share the policy in the routing manager: the one of         *)
(* TokenReceiver adds tokens, the one of process_event_table answers the   *)
(* requests of the senders and now and then broadcasts a table.  Replies   *)
(* and tables come to a sender in order, through one TCP connection.  A    *)
(* sender has one Fragment of each event, and sends them in event order.   *)
(*                                                                         *)
(* Left out: the mode DataFlow, the other policies, senders that connect   *)
(* late, and tokens of several slots at once (they are spread over the     *)
(* list at random, where tokens arrive in any order anyway).               *)
(***************************************************************************)
EXTENDS Integers, Sequences, FiniteSets

CONSTANTS
  Builder,     \* ranks of the event builders
  Sender,      \* ranks of the senders
  NoBuilder,   \* no route
  Modes,       \* the routing_manager_mode is one of these
  MaxSeq,      \* bound: events 1..MaxSeq are sent in each run
  MaxTokens,   \* bound: tokens an event builder sends in a run
  CacheSize,   \* routing_cache_size
  MaxPackets,  \* bound: packets under way to a sender
  MaxStops     \* bound: how often a run is paused or ended

SeqID == 1..MaxSeq

ASSUME RoutingConstants ==
  /\ NoBuilder \notin Builder /\ IsFiniteSet(Builder)
  /\ Modes \subseteq {"EventBuilding", "RequestBasedEventBuilding"}
  /\ {MaxSeq, MaxTokens, CacheSize, MaxPackets, MaxStops} \subseteq Nat

VARIABLES
  mode,      \* routing_mode_
  running,   \* whether process_event_table runs
  tokens,    \* tokens_
  nextSeq,   \* next_sequence_id_
  cache,     \* routing_cache_: the route of each sequence ID, or NoBuilder
  included,  \* the sequence IDs whose cache entry has included_in_table
  asked,     \* per sender, the sequence IDs of the requests under way
  channel,   \* per sender, the packets under way; a packet maps sequence IDs to builders
  table,     \* per sender, routing_table_
  dest,      \* per sender, history: where its Fragment of each event went in this run
  offered,   \* history: how many tokens of each builder arrived in this run
  astray,    \* history: the IDs a request got a route for before a table had it, or whose
             \* route the cache forgot before every sender had used it
  pauses, run

policyVars == <<tokens, nextSeq, cache, included>>
senderVars == <<asked, channel, table, dest>>
historyVars == <<offered, astray>>
vars == <<mode, running, policyVars, senderVars, historyVars, pauses, run>>

NoRoutes == [e \in SeqID |-> NoBuilder]
Routed(routes) == {e \in SeqID : routes[e] # NoBuilder}

Init ==
  /\ mode \in Modes /\ running = TRUE
  /\ tokens = << >> /\ nextSeq = 1 /\ cache = NoRoutes /\ included = {}
  /\ asked = [s \in Sender |-> {}] /\ channel = [s \in Sender |-> << >>]
  /\ table = [s \in Sender |-> NoRoutes] /\ dest = [s \in Sender |-> NoRoutes]
  /\ offered = [b \in Builder |-> 0] /\ astray = {} /\ pauses = 0 /\ run = 1
-------------------------------------------------------------------------------
(* The routing manager *)

\* receiveTokensLoop_ and AddReceiverToken.
AddReceiverToken(b) ==
  /\ offered[b] < MaxTokens
  /\ offered' = [offered EXCEPT ![b] = @ + 1]
  /\ tokens' = Append(tokens, b)
  /\ UNCHANGED <<mode, running, nextSeq, cache, included, senderVars, astray, pauses, run>>

\* Mutant: the token stays in the list.
TakeTokenKept == UNCHANGED tokens

TakeToken == tokens' = Tail(tokens)

\* Mutant: the route is not entered in the cache.
RememberNot(e) == UNCHANGED cache

Remember(e) == cache' = [cache EXCEPT ![e] = Head(tokens)]

Reply(s, packet) == channel' = [channel EXCEPT ![s] = Append(@, packet)]

\* receive_ and GetRouteForSequenceID: the route is in the cache, or a token is used for
\* it, or there is none and the reply is empty.
HandleRequest(s, e) ==
  /\ running /\ e \in asked[s] /\ Len(channel[s]) < MaxPackets
  /\ asked' = [asked EXCEPT ![s] = @ \ {e}]
  /\ \/ /\ cache[e] # NoBuilder
        /\ Reply(s, [x \in {e} |-> cache[e]])
        /\ UNCHANGED <<tokens, cache>>
     \/ /\ cache[e] = NoBuilder /\ tokens # << >>
        /\ TakeToken /\ Remember(e)
        /\ Reply(s, [x \in {e} |-> Head(tokens)])
     \/ /\ cache[e] = NoBuilder /\ tokens = << >>
        /\ UNCHANGED <<channel, tokens, cache>>
  /\ astray' = IF mode = "EventBuilding" /\ e >= nextSeq /\ cache'[e] # NoBuilder
                THEN astray \cup {e} ELSE astray
  /\ UNCHANGED <<mode, running, nextSeq, included, table, dest, offered, pauses, run>>

\* send_event_table, to all senders, unless the table is empty.
Broadcast(packet) ==
  /\ \A s \in Sender : Len(channel[s]) < MaxPackets
  /\ channel' = IF DOMAIN packet = {} THEN channel
                ELSE [s \in Sender |-> Append(channel[s], packet)]

\* GetCurrentTable in mode EventBuilding: all tokens are used for the next sequence IDs.
\* A route that is in the cache already stays there.
PushTable ==
  LET new == [e \in {x \in SeqID : nextSeq <= x /\ x < nextSeq + Len(tokens)} |->
                tokens[e - nextSeq + 1]]
  IN /\ mode = "EventBuilding" /\ running /\ tokens # << >>
     /\ tokens' = << >> /\ nextSeq' = nextSeq + Len(tokens)
     /\ cache' = [e \in SeqID |->
          IF e \in DOMAIN new /\ cache[e] = NoBuilder THEN new[e] ELSE cache[e]]
     /\ Broadcast(new)
     /\ UNCHANGED <<mode, running, included, asked, table, dest, historyVars, pauses, run>>

\* TrimRoutingCache: the entries of the CacheSize highest sequence IDs are kept.
Kept == {e \in Routed(cache) : Cardinality({x \in Routed(cache) : x > e}) < CacheSize}

\* GetCurrentTable in mode RequestBasedEventBuilding: the routes not yet in a table.
TableFromCache ==
  LET new == Routed(cache) \ included
  IN /\ mode = "RequestBasedEventBuilding" /\ running /\ new # {}
     /\ Broadcast([e \in new |-> cache[e]])
     /\ cache' = [e \in SeqID |-> IF e \in Kept THEN cache[e] ELSE NoBuilder]
     /\ included' = (included \cup new) \cap Kept
     /\ astray' = astray \cup
          {e \in Routed(cache) \ Kept : \E s \in Sender : dest[s][e] = NoBuilder}
     /\ UNCHANGED <<mode, running, tokens, nextSeq, asked, table, dest, offered, pauses, run>>

\* RoutingManagerPolicy::Reset, when process_event_table ends.
ResetPolicy == nextSeq' = 1 /\ tokens' = << >> /\ UNCHANGED <<cache, included>>

Pause ==
  /\ running /\ pauses + run <= MaxStops
  /\ running' = FALSE /\ pauses' = pauses + 1
  /\ ResetPolicy
  /\ UNCHANGED <<mode, senderVars, historyVars, run>>

Resume ==
  /\ ~running /\ running' = TRUE
  /\ UNCHANGED <<mode, policyVars, senderVars, historyVars, pauses, run>>

\* The run is stopped and the next one started: every board makes a new sender and every
\* event builder a new TokenSender; the policy stays.
NextRun ==
  /\ running /\ pauses + run <= MaxStops
  /\ run' = run + 1
  /\ ResetPolicy
  /\ asked' = [s \in Sender |-> {}] /\ channel' = [s \in Sender |-> << >>]
  /\ table' = [s \in Sender |-> NoRoutes] /\ dest' = [s \in Sender |-> NoRoutes]
  /\ offered' = [b \in Builder |-> 0] /\ astray' = {}
  /\ UNCHANGED <<mode, running, pauses>>
-------------------------------------------------------------------------------
(* A sender *)

\* The event whose Fragment the sender has to send: they are sent in order.
Sending(s, e) == e \notin Routed(dest[s]) /\ \A x \in 1..e - 1 : x \in Routed(dest[s])

\* Mutant: no request is sent while the table has any route.
MissingIfEmpty(s, e) == Routed(table[s]) = {}

Missing(s, e) == table[s][e] = NoBuilder

\* sendTableUpdateRequest_; sendFragment calls GetRoutingTableEntry again when it times out.
Ask(s, e) ==
  /\ Sending(s, e) /\ Missing(s, e) /\ e \notin asked[s]
  /\ asked' = [asked EXCEPT ![s] = @ \cup {e}]
  /\ UNCHANGED <<mode, running, policyVars, channel, table, dest, historyVars, pauses, run>>

Contiguous(D) == \A x, y \in D : x..y \subseteq D
Last(D) == CHOOSE x \in D : \A y \in D : y <= x

\* receiveTableUpdate_: a packet with a gap, or whose last entry is known, is skipped;
\* a route that is known is kept.
ReceiveTable(s) ==
  /\ channel[s] # << >>
  /\ LET packet == Head(channel[s])
         ids    == DOMAIN packet
     IN table' = IF Contiguous(ids) /\ table[s][Last(ids)] = NoBuilder
                 THEN [table EXCEPT ![s] = [e \in SeqID |->
                        IF e \in ids /\ @[e] = NoBuilder THEN packet[e] ELSE @[e]]]
                 ELSE table
  /\ channel' = [channel EXCEPT ![s] = Tail(@)]
  /\ UNCHANGED <<mode, running, policyVars, asked, dest, historyVars, pauses, run>>

\* sendFragment, and RemoveRoutingTableEntry in BoardReaderCore.
SendFragment(s, e) ==
  /\ Sending(s, e) /\ table[s][e] # NoBuilder
  /\ dest' = [dest EXCEPT ![s][e] = table[s][e]]
  /\ table' = [table EXCEPT ![s][e] = NoBuilder]
  /\ UNCHANGED <<mode, running, policyVars, asked, channel, historyVars, pauses, run>>
-------------------------------------------------------------------------------
GetCurrentTable == PushTable \/ TableFromCache

SenderStep(s) == ReceiveTable(s) \/ \E e \in SeqID : Ask(s, e) \/ SendFragment(s, e)

Next ==
  \/ \E b \in Builder : AddReceiverToken(b)
  \/ \E s \in Sender, e \in SeqID : HandleRequest(s, e)
  \/ GetCurrentTable \/ Pause \/ Resume \/ NextRun
  \/ \E s \in Sender : SenderStep(s)

Spec == Init /\ [][Next]_vars

\* Builders send tokens as their buffers become free, the loops of the routing manager go
\* on, and a sender that waits for a route asks again each time its wait times out.
Fairness ==
  /\ \A b \in Builder : WF_vars(AddReceiverToken(b))
  /\ \A s \in Sender : WF_vars(\E e \in SeqID : HandleRequest(s, e))
  /\ WF_vars(GetCurrentTable) /\ WF_vars(Resume)
  /\ \A s \in Sender : WF_vars(ReceiveTable(s))
  /\ \A s \in Sender : WF_vars(\E e \in SeqID : Ask(s, e) \/ SendFragment(s, e))

FairSpec == Spec /\ Fairness
-------------------------------------------------------------------------------
(* Properties *)

Offers == {t \in Builder \X (1..MaxTokens) : t[2] <= offered[t[1]]}

\* Two senders never disagree on where the Fragments of event e go.
Agreed(e) ==
  \A s, u \in Sender : {e} \subseteq Routed(dest[s]) \cap Routed(dest[u]) => dest[s][e] = dest[u][e]

\* All Fragments of an event go to one event builder, however late a sender is, whatever it
\* skips and whatever is routed again, with two exceptions: a sender got a route from the
\* cache, or for a token of its own, before the table that routes the event; or the cache
\* forgot the route while a sender had still to use it (a table with a gap, which is
\* skipped, is not sent again).  With requests it is stated for the first run: later,
\* entries of the run before keep new routes out of the tables.
OneDestination ==
  run = 1 \/ mode = "EventBuilding" => \A e \in SeqID \ astray : Agreed(e)

\* The policy's counts of a run, the IDs put in tables and the tokens it holds, are never
\* more than the tokens that came in that run.
TokensCounted == (nextSeq - 1) + Len(tokens) <= Cardinality(Offers)

\* Nor is an event builder sent more events than it has offered buffers for, however often
\* routes are asked for, pushed, repeated or assigned again after a pause.
TokensHonoured ==
  /\ TokensCounted
  /\ run = 1 => \A b \in Builder :
    Cardinality({e \in SeqID : \E s \in Sender : dest[s][e] = b}) <= offered[b]

\* With requests, every sender gets a route for every event in the end, as long as the
\* event builders have buffers, and the run is neither paused nor ended.
EventsRouted ==
  mode = "RequestBasedEventBuilding" =>
    <>((\A s \in Sender : Routed(dest[s]) = SeqID) \/ pauses > 0 \/ run > 1)

\* "Multiple sources sending to a single destination": for every event.
SingleDestination == \A e \in SeqID : Agreed(e)
===============================================================================
