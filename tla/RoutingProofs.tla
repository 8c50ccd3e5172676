----------------------------- MODULE RoutingProofs -----------------------------
(***************************************************************************)
(* Theorems of Routing and RoutingPolicies, for any number of receivers,   *)
(* senders, events, tokens, packets under way, pauses and runs, and for    *)
(* any size of cache.                                                      *)
(***************************************************************************)
EXTENDS Routing, RoutingPolicies, SortingProofs, SequenceTheorems, TLAPS

\* A reply or a table: some sequence IDs, each with an event builder.
Packet == UNION {[D -> Builder] : D \in (SUBSET SeqID) \ {{}}}

Route == Builder \cup {NoBuilder}

PolicyTypeOK ==
  /\ tokens \in Seq(Builder) /\ nextSeq \in Nat \ {0}
  /\ cache \in [SeqID -> Route] /\ included \subseteq SeqID

SenderTypeOK ==
  /\ asked \in [Sender -> SUBSET SeqID] /\ channel \in [Sender -> Seq(Packet)]
  /\ table \in [Sender -> [SeqID -> Route]] /\ dest \in [Sender -> [SeqID -> Route]]

RoutingTypeOK ==
  /\ mode \in Modes /\ running \in BOOLEAN
  /\ PolicyTypeOK /\ SenderTypeOK
  /\ offered \in [Builder -> 0..MaxTokens] /\ astray \subseteq SeqID
  /\ pauses \in Nat /\ run \in Nat \ {0}
-------------------------------------------------------------------------------
(* Tokens: every use of one is for one event. *)

\* The tokens of b in the list, by their place.
Held(b) == {i \in DOMAIN tokens : tokens[i] = b}

InChannel(s, e, b) ==
  \E i \in DOMAIN channel[s] : e \in DOMAIN channel[s][i] /\ channel[s][i][e] = b

\* Event e goes to b as far as anyone can tell: the cache, a sender or a packet under way.
Used(e, b) ==
  \/ cache[e] = b
  \/ \E s \in Sender : dest[s][e] = b \/ table[s][e] = b \/ InChannel(s, e, b)

Given(b) == {e \in SeqID : Used(e, b)}

\* A token in the list and an event that uses one are tokens that came.
TokensCover ==
  run = 1 => \A b \in Builder : Cardinality(Held(b)) + Cardinality(Given(b)) <= offered[b]

TokensInv == RoutingTypeOK /\ TokensCover /\ TokensCounted
-------------------------------------------------------------------------------
(* Destinations *)

\* Sender s knows a route of e or has used one.
Reached(s, e) == dest[s][e] # NoBuilder \/ table[s][e] # NoBuilder

\* Or will know it once it has read the packets under way.
Known(s, e) == Reached(s, e) \/ \E i \in DOMAIN channel[s] : e \in DOMAIN channel[s][i]

\* The first packet under way to s that names e.
First(s, e, i) ==
  /\ i \in DOMAIN channel[s] /\ e \in DOMAIN channel[s][i]
  /\ \A j \in 1..i - 1 : e \notin DOMAIN channel[s][j]

\* The Fragment of e went to b, goes there, or will go there once the packets are read.
GoesTo(s, e, b) ==
  IF dest[s][e] # NoBuilder THEN b = dest[s][e]
  ELSE IF table[s][e] # NoBuilder THEN b = table[s][e]
  ELSE \E i \in DOMAIN channel[s] : First(s, e, i) /\ b = channel[s][i][e]

\* In mode EventBuilding.  Each sender learns the events in order: tables begin with the
\* first event not yet routed or, after a pause, with the first of all, and a request is
\* for an event all before which were sent.  So a packet that is skipped tells nothing new.
AskedInOrder == \A s \in Sender : \A e \in asked[s], x \in SeqID : x < e => dest[s][x] # NoBuilder

ReachedInOrder == \A s \in Sender, e, x \in SeqID : x < e /\ Reached(s, e) => Reached(s, x)

ComesInOrder ==
  \A s \in Sender : \A i \in DOMAIN channel[s] : \A e \in DOMAIN channel[s][i], x \in SeqID :
    x < e => Reached(s, x) \/ \E j \in 1..i : x \in DOMAIN channel[s][j]

PacketsContiguous == \A s \in Sender : \A i \in DOMAIN channel[s] : Contiguous(DOMAIN channel[s][i])

RoutedKnown == \A s \in Sender, e \in SeqID : e < nextSeq => Known(s, e)

SameForAll ==
  \A s, u \in Sender, e \in SeqID \ astray, b \in Builder : GoesTo(s, e, b) => GoesTo(u, e, b)

PushedInv ==
  mode = "EventBuilding" =>
    /\ AskedInOrder /\ ReachedInOrder /\ ComesInOrder /\ PacketsContiguous /\ RoutedKnown /\ SameForAll

\* With requests, in the first run: while a sender has still to use the route of e, every
\* route of e is the one in the cache.
FromCache(e) == \A s \in Sender, b \in Builder :
  dest[s][e] = b \/ table[s][e] = b \/ InChannel(s, e, b) => cache[e] = b

RequestedInv ==
  mode = "RequestBasedEventBuilding" /\ run = 1 =>
    \A e \in SeqID \ astray :
      /\ Agreed(e)
      /\ (\E s \in Sender : dest[s][e] = NoBuilder) => FromCache(e)

DestinationInv == RoutingTypeOK /\ PushedInv /\ RequestedInv
-------------------------------------------------------------------------------
(* Packets and channels *)

LEMMA PacketFacts ==
  ASSUME NEW p \in Packet
  PROVE  /\ DOMAIN p \subseteq SeqID /\ DOMAIN p # {}
         /\ \A e \in DOMAIN p : p[e] \in Builder /\ p[e] # NoBuilder
<1>1. PICK D \in (SUBSET SeqID) \ {{}} : p \in [D -> Builder]
  BY DEF Packet
<1> QED BY <1>1, RoutingConstants

LEMMA MakePacket ==
  ASSUME NEW D \in SUBSET SeqID, D # {}, NEW p \in [D -> Builder]
  PROVE  p \in Packet
BY DEF Packet

LEMMA ChannelFacts ==
  ASSUME RoutingTypeOK, NEW s \in Sender
  PROVE  /\ channel[s] \in Seq(Packet) /\ Len(channel[s]) \in Nat
         /\ DOMAIN channel[s] = 1..Len(channel[s])
         /\ \A i \in DOMAIN channel[s] :
              /\ DOMAIN channel[s][i] \subseteq SeqID
              /\ \A e \in DOMAIN channel[s][i] : channel[s][i][e] \in Builder /\ channel[s][i][e] # NoBuilder
<1>1. channel[s] \in Seq(Packet)
  BY DEF RoutingTypeOK, SenderTypeOK
<1>2. \A i \in DOMAIN channel[s] : channel[s][i] \in Packet
  BY <1>1, ElementOfSeq, LenProperties
<1> QED BY <1>1, <1>2, PacketFacts, LenProperties

LEMMA ChannelAppended ==
  ASSUME RoutingTypeOK, NEW s \in Sender, NEW p \in Packet, channel'[s] = Append(channel[s], p)
  PROVE  /\ channel'[s] \in Seq(Packet) /\ Len(channel[s]) \in Nat
         /\ DOMAIN channel[s] = 1..Len(channel[s]) /\ DOMAIN channel'[s] = 1..Len(channel[s]) + 1
         /\ \A i \in DOMAIN channel[s] : channel'[s][i] = channel[s][i]
         /\ channel'[s][Len(channel[s]) + 1] = p
<1>1. channel[s] \in Seq(Packet)
  BY DEF RoutingTypeOK, SenderTypeOK
<1> DEFINE c == channel[s]
           d == channel'[s]
<1>2. c \in Seq(Packet) /\ d = Append(c, p)
  BY <1>1
<1> HIDE DEF c, d
<1>3. /\ d \in Seq(Packet) /\ Len(c) \in Nat /\ DOMAIN c = 1..Len(c) /\ DOMAIN d = 1..Len(c) + 1
      /\ \A i \in 1..Len(c) : d[i] = c[i]
      /\ d[Len(c) + 1] = p
  BY <1>2, AppendProperties, LenProperties
<1> QED BY <1>3 DEF c, d

LEMMA ChannelTaken ==
  ASSUME RoutingTypeOK, NEW s \in Sender, channel[s] # << >>, channel'[s] = Tail(channel[s])
  PROVE  /\ channel'[s] \in Seq(Packet) /\ Len(channel[s]) \in Nat \ {0}
         /\ DOMAIN channel[s] = 1..Len(channel[s]) /\ DOMAIN channel'[s] = 1..Len(channel[s]) - 1
         /\ \A i \in DOMAIN channel'[s] : channel'[s][i] = channel[s][i + 1]
         /\ Head(channel[s]) = channel[s][1] /\ Head(channel[s]) \in Packet
<1>1. channel[s] \in Seq(Packet)
  BY DEF RoutingTypeOK, SenderTypeOK
<1> DEFINE c == channel[s]
           d == channel'[s]
<1>2. c \in Seq(Packet) /\ c # << >> /\ d = Tail(c)
  BY <1>1
<1> HIDE DEF c, d
<1>3. /\ d \in Seq(Packet) /\ Len(c) \in Nat \ {0} /\ DOMAIN c = 1..Len(c) /\ DOMAIN d = 1..Len(c) - 1
      /\ \A i \in 1..Len(c) - 1 : d[i] = c[i + 1]
      /\ Head(c) \in Packet /\ Head(c) = c[1]
  BY <1>2, HeadTailProperties, LenProperties, EmptySeq
<1> QED BY <1>3 DEF c, d
-------------------------------------------------------------------------------
(* What the actions do, variable by variable. *)

LEMMA TokenFacts ==
  ASSUME RoutingTypeOK, tokens # << >>
  PROVE  /\ Head(tokens) \in Builder /\ Head(tokens) = tokens[1] /\ Head(tokens) # NoBuilder
         /\ Tail(tokens) \in Seq(Builder)
         /\ Len(tokens) \in Nat \ {0} /\ DOMAIN tokens = 1..Len(tokens)
         /\ DOMAIN Tail(tokens) = 1..Len(tokens) - 1
         /\ \A i \in 1..Len(tokens) - 1 : Tail(tokens)[i] = tokens[i + 1]
<1>1. tokens \in Seq(Builder)
  BY DEF RoutingTypeOK, PolicyTypeOK
<1> QED BY <1>1, HeadTailProperties, LenProperties, EmptySeq, RoutingConstants

\* A request is answered with the route in the cache, or not at all.
Replied(s, e, b) ==
  /\ b \in Builder /\ cache'[e] = b
  /\ channel'[s] = Append(channel[s], [x \in {e} |-> b]) /\ [x \in {e} |-> b] \in Packet

LEMMA HandleGives ==
  ASSUME RoutingTypeOK, NEW s \in Sender, NEW e \in SeqID, HandleRequest(s, e)
  PROVE  /\ e \in asked[s] /\ \A u \in Sender : asked'[u] \subseteq asked[u]
         /\ \A u \in Sender \ {s} : channel'[u] = channel[u]
         /\ \A x \in SeqID \ {e} : cache'[x] = cache[x]
         /\ UNCHANGED <<mode, running, run, nextSeq, included, table, dest, offered, pauses>>
         /\ astray' = IF mode = "EventBuilding" /\ e >= nextSeq /\ cache'[e] # NoBuilder
                        THEN astray \cup {e} ELSE astray
         /\ \/ /\ cache[e] = NoBuilder /\ UNCHANGED <<channel, tokens, cache>>
            \/ /\ cache[e] # NoBuilder /\ UNCHANGED <<tokens, cache>>
               /\ Replied(s, e, cache[e])
            \/ /\ cache[e] = NoBuilder /\ tokens # << >> /\ tokens' = Tail(tokens)
               /\ Replied(s, e, Head(tokens))
<1>1. /\ asked \in [Sender -> SUBSET SeqID] /\ channel \in [Sender -> Seq(Packet)]
      /\ cache \in [SeqID -> Route]
  BY DEF RoutingTypeOK, SenderTypeOK, PolicyTypeOK
<1>2. /\ e \in asked[s] /\ asked' = [asked EXCEPT ![s] = @ \ {e}]
      /\ UNCHANGED <<mode, running, run, nextSeq, included, table, dest, offered, pauses>>
      /\ astray' = IF mode = "EventBuilding" /\ e >= nextSeq /\ cache'[e] # NoBuilder
                     THEN astray \cup {e} ELSE astray
  BY DEF HandleRequest
<1>3. \A b \in Builder : [x \in {e} |-> b] \in Packet
  BY MakePacket
<1>4. CASE cache[e] # NoBuilder /\ Reply(s, [x \in {e} |-> cache[e]]) /\ UNCHANGED <<tokens, cache>>
  BY <1>1, <1>2, <1>3, <1>4 DEF Reply, Replied, Route
<1>5. CASE /\ cache[e] = NoBuilder /\ tokens # << >>
           /\ TakeToken /\ Remember(e)
           /\ Reply(s, [x \in {e} |-> Head(tokens)])
  BY <1>1, <1>2, <1>3, <1>5, TokenFacts DEF Reply, Replied, TakeToken, Remember
<1>6. CASE cache[e] = NoBuilder /\ tokens = << >> /\ UNCHANGED <<channel, tokens, cache>>
  BY <1>1, <1>2, <1>6
<1> QED BY <1>4, <1>5, <1>6 DEF HandleRequest

\* A table goes to all senders, or is empty.
Sent(packet) ==
  \/ DOMAIN packet = {} /\ UNCHANGED channel
  \/ /\ packet \in Packet
     /\ \A s \in Sender : channel'[s] = Append(channel[s], packet)

LEMMA BroadcastGives ==
  ASSUME RoutingTypeOK, NEW D \in SUBSET SeqID, NEW p \in [D -> Builder], Broadcast(p)
  PROVE  Sent(p) /\ channel' \in [Sender -> Seq(Packet)]
<1>1. CASE D = {}
  BY <1>1 DEF Broadcast, Sent, RoutingTypeOK, SenderTypeOK
<1>2. CASE D # {}
  <2>1. p \in Packet
    BY <1>2, MakePacket
  <2>2. channel' = [s \in Sender |-> Append(channel[s], p)]
    BY <1>2 DEF Broadcast
  <2>3. \A s \in Sender : Append(channel[s], p) \in Seq(Packet)
    BY <2>1, AppendProperties DEF RoutingTypeOK, SenderTypeOK
  <2> QED BY <2>1, <2>2, <2>3 DEF Sent
<1> QED BY <1>1, <1>2

\* The sequence IDs the tokens in the list are for.
NextIDs == {x \in SeqID : nextSeq <= x /\ x < nextSeq + Len(tokens)}
NextRoutes == [e \in NextIDs |-> tokens[e - nextSeq + 1]]

LEMMA NextRoutesType ==
  ASSUME RoutingTypeOK
  PROVE  /\ NextRoutes \in [NextIDs -> Builder] /\ NextIDs \subseteq SeqID
         /\ \A e \in NextIDs : e - nextSeq + 1 \in DOMAIN tokens /\ NextRoutes[e] = tokens[e - nextSeq + 1]
<1>1. tokens \in Seq(Builder) /\ Len(tokens) \in Nat /\ DOMAIN tokens = 1..Len(tokens) /\ nextSeq \in Nat
  BY LenProperties DEF RoutingTypeOK, PolicyTypeOK
<1>2. \A e \in NextIDs : e - nextSeq + 1 \in 1..Len(tokens)
  BY <1>1 DEF NextIDs, SeqID
<1> QED BY <1>1, <1>2 DEF NextIDs, NextRoutes

LEMMA PushGives ==
  ASSUME RoutingTypeOK, PushTable
  PROVE  /\ mode = "EventBuilding" /\ tokens' = << >> /\ nextSeq' = nextSeq + Len(tokens)
         /\ cache' = [e \in SeqID |->
              IF e \in NextIDs /\ cache[e] = NoBuilder THEN NextRoutes[e] ELSE cache[e]]
         /\ Sent(NextRoutes) /\ channel' \in [Sender -> Seq(Packet)]
         /\ UNCHANGED <<mode, running, included, asked, table, dest, historyVars, pauses, run>>
<1>1. Broadcast(NextRoutes)
  BY DEF PushTable, NextRoutes, NextIDs
<1>2. DOMAIN NextRoutes = NextIDs
  BY DEF NextRoutes
<1> QED BY <1>1, <1>2, BroadcastGives, NextRoutesType DEF PushTable, NextRoutes, NextIDs

NewRoutes == [e \in Routed(cache) \ included |-> cache[e]]

LEMMA CachedGives ==
  ASSUME RoutingTypeOK, TableFromCache
  PROVE  /\ mode = "RequestBasedEventBuilding"
         /\ Sent(NewRoutes) /\ channel' \in [Sender -> Seq(Packet)]
         /\ DOMAIN NewRoutes \subseteq SeqID /\ \A e \in DOMAIN NewRoutes : NewRoutes[e] = cache[e]
         /\ cache' = [e \in SeqID |-> IF e \in Kept THEN cache[e] ELSE NoBuilder]
         /\ included' \subseteq SeqID
         /\ astray' = astray \cup {e \in Routed(cache) \ Kept : \E s \in Sender : dest[s][e] = NoBuilder}
         /\ UNCHANGED <<mode, running, tokens, nextSeq, asked, table, dest, offered, pauses, run>>
<1>1. cache \in [SeqID -> Route] /\ included \subseteq SeqID
  BY DEF RoutingTypeOK, PolicyTypeOK
<1>2. NewRoutes \in [Routed(cache) \ included -> Builder] /\ Routed(cache) \ included \in SUBSET SeqID
  BY <1>1 DEF NewRoutes, Routed, Route
<1>3. Broadcast(NewRoutes)
  BY DEF TableFromCache, NewRoutes
<1>4. /\ mode = "RequestBasedEventBuilding"
      /\ cache' = [e \in SeqID |-> IF e \in Kept THEN cache[e] ELSE NoBuilder]
      /\ included' = (included \cup (Routed(cache) \ included)) \cap Kept
      /\ astray' = astray \cup {e \in Routed(cache) \ Kept : \E s \in Sender : dest[s][e] = NoBuilder}
      /\ UNCHANGED <<mode, running, tokens, nextSeq, asked, table, dest, offered, pauses, run>>
  BY DEF TableFromCache
<1> QED BY <1>1, <1>2, <1>3, <1>4, BroadcastGives DEF NewRoutes, Routed

LEMMA ReceiveGives ==
  ASSUME RoutingTypeOK, NEW s \in Sender, ReceiveTable(s)
  PROVE  /\ channel[s] # << >> /\ channel'[s] = Tail(channel[s])
         /\ Head(channel[s]) \in Packet
         /\ \A u \in Sender \ {s} : channel'[u] = channel[u] /\ table'[u] = table[u]
         /\ \/ /\ Contiguous(DOMAIN Head(channel[s]))
                    => table[s][Last(DOMAIN Head(channel[s]))] # NoBuilder
               /\ table'[s] = table[s]
            \/ \A e \in SeqID : table'[s][e] =
                 IF e \in DOMAIN Head(channel[s]) /\ table[s][e] = NoBuilder
                 THEN Head(channel[s])[e] ELSE table[s][e]
         /\ table' \in [Sender -> [SeqID -> Route]] /\ channel' \in [Sender -> Seq(Packet)]
         /\ UNCHANGED <<mode, running, policyVars, asked, dest, historyVars, pauses, run>>
<1> DEFINE p == Head(channel[s])
           known == [e \in SeqID |->
             IF e \in DOMAIN p /\ table[s][e] = NoBuilder THEN p[e] ELSE table[s][e]]
<1>1. /\ channel[s] # << >> /\ channel' = [channel EXCEPT ![s] = Tail(@)]
      /\ UNCHANGED <<mode, running, policyVars, asked, dest, historyVars, pauses, run>>
  BY DEF ReceiveTable
<1>2. channel \in [Sender -> Seq(Packet)] /\ table \in [Sender -> [SeqID -> Route]]
  BY DEF RoutingTypeOK, SenderTypeOK
<1>3. /\ channel'[s] = Tail(channel[s]) /\ \A u \in Sender \ {s} : channel'[u] = channel[u]
      /\ p \in Packet /\ Tail(channel[s]) \in Seq(Packet)
  BY <1>1, <1>2, HeadTailProperties
<1>4. channel' \in [Sender -> Seq(Packet)]
  BY <1>1, <1>2, <1>3
<1>5. known \in [SeqID -> Route]
  BY <1>2, <1>3, PacketFacts DEF Route
<1>6. CASE Contiguous(DOMAIN p) /\ table[s][Last(DOMAIN p)] = NoBuilder
  <2>1. table' = [table EXCEPT ![s] = known]
    BY <1>6 DEF ReceiveTable
  <2>2. table' \in [Sender -> [SeqID -> Route]] /\ table'[s] = known
        /\ \A u \in Sender \ {s} : table'[u] = table[u]
    BY <1>2, <1>5, <2>1
  <2>3. \A e \in SeqID : table'[s][e] =
          IF e \in DOMAIN p /\ table[s][e] = NoBuilder THEN p[e] ELSE table[s][e]
    BY <2>2
  <2> HIDE DEF p, known
  <2> QED BY <1>1, <1>3, <1>4, <2>2, <2>3 DEF p
<1>7. CASE ~(Contiguous(DOMAIN p) /\ table[s][Last(DOMAIN p)] = NoBuilder)
  <2>1. table' = table
    BY <1>7 DEF ReceiveTable
  <2> HIDE DEF p, known
  <2>2. Contiguous(DOMAIN p) => table[s][Last(DOMAIN p)] # NoBuilder
    BY <1>7
  <2> QED BY <1>1, <1>2, <1>3, <1>4, <2>1, <2>2 DEF p
<1> QED BY <1>6, <1>7

LEMMA SendGives ==
  ASSUME RoutingTypeOK, NEW s \in Sender, NEW e \in SeqID, SendFragment(s, e)
  PROVE  /\ Sending(s, e) /\ table[s][e] # NoBuilder
         /\ dest'[s][e] = table[s][e] /\ table'[s][e] = NoBuilder
         /\ \A x \in SeqID \ {e} : dest'[s][x] = dest[s][x] /\ table'[s][x] = table[s][x]
         /\ \A u \in Sender \ {s} : dest'[u] = dest[u] /\ table'[u] = table[u]
         /\ dest' \in [Sender -> [SeqID -> Route]] /\ table' \in [Sender -> [SeqID -> Route]]
         /\ UNCHANGED <<mode, running, policyVars, asked, channel, historyVars, pauses, run>>
<1>1. dest \in [Sender -> [SeqID -> Route]] /\ table \in [Sender -> [SeqID -> Route]]
  BY DEF RoutingTypeOK, SenderTypeOK
<1> QED BY <1>1 DEF SendFragment, Route
-------------------------------------------------------------------------------
(* Types *)

LEMMA RoutingTypeInit == Init => RoutingTypeOK
<1> SUFFICES ASSUME Init PROVE RoutingTypeOK
  OBVIOUS
<1>1. << >> \in Seq(Builder) /\ << >> \in Seq(Packet)
  BY EmptySeq
<1>2. PolicyTypeOK
  BY <1>1 DEF Init, PolicyTypeOK, NoRoutes, Route
<1>3. SenderTypeOK
  BY <1>1 DEF Init, SenderTypeOK, NoRoutes, Route
<1> QED BY <1>2, <1>3, RoutingConstants DEF Init, RoutingTypeOK

\* Pauses and runs.
LEMMA StopsType ==
  ASSUME RoutingTypeOK, Pause \/ Resume \/ NextRun
  PROVE  RoutingTypeOK'
<1> USE DEF RoutingTypeOK, PolicyTypeOK, SenderTypeOK
<1>1. << >> \in Seq(Builder) /\ << >> \in Seq(Packet)
  BY EmptySeq
<1>2. CASE Pause
  <2>1. PolicyTypeOK'
    BY <1>1, <1>2 DEF Pause, ResetPolicy
  <2>2. running' \in BOOLEAN
    BY <1>2, Zenon DEF Pause
  <2>4. pauses' = pauses + 1 /\ pauses' \in Nat
    BY <1>2 DEF Pause
  <2>3. UNCHANGED <<mode, asked, channel, table, dest, offered, astray, run>>
    BY <1>2 DEF Pause, senderVars, historyVars
  <2> QED BY <2>1, <2>2, <2>3, <2>4
<1>3. CASE Resume
  BY <1>3 DEF Resume, policyVars, senderVars, historyVars
<1>4. CASE NextRun
  <2>1. PolicyTypeOK' /\ run' \in Nat \ {0}
    BY <1>1, <1>4 DEF NextRun, ResetPolicy
  <2>2. SenderTypeOK'
    BY <1>1, <1>4 DEF NextRun, NoRoutes, Route
  <2>3. offered' \in [Builder -> 0..MaxTokens] /\ astray' \subseteq SeqID
    BY <1>4, RoutingConstants DEF NextRun
  <2> QED BY <1>4, <2>1, <2>2, <2>3 DEF NextRun
<1> QED BY <1>2, <1>3, <1>4

LEMMA HandleType ==
  ASSUME RoutingTypeOK, NEW s \in Sender, NEW e \in SeqID, HandleRequest(s, e)
  PROVE  RoutingTypeOK'
<1> USE DEF RoutingTypeOK, PolicyTypeOK, SenderTypeOK
<1>1. asked' \in [Sender -> SUBSET SeqID]
  BY DEF HandleRequest
<1>2. channel' \in [Sender -> Seq(Packet)]
  <2>1. \A b \in Builder : [x \in {e} |-> b] \in Packet
    BY MakePacket
  <2>2. \A b \in Builder : Append(channel[s], [x \in {e} |-> b]) \in Seq(Packet)
    BY <2>1, AppendProperties
  <2>3. ASSUME NEW b \in Builder, Reply(s, [x \in {e} |-> b]) PROVE channel' \in [Sender -> Seq(Packet)]
    BY <2>2, <2>3 DEF Reply
  <2>4. cache[e] # NoBuilder => cache[e] \in Builder
    BY DEF Route
  <2> QED BY <2>3, <2>4, TokenFacts DEF HandleRequest
<1>3. tokens' \in Seq(Builder) /\ cache' \in [SeqID -> Route]
  BY TokenFacts DEF HandleRequest, TakeToken, Remember, Route
<1> QED BY <1>1, <1>2, <1>3 DEF HandleRequest

LEMMA RoutingTypeNext ==
  ASSUME RoutingTypeOK, [Next]_vars
  PROVE  RoutingTypeOK'
<1>1. ASSUME NEW b \in Builder, AddReceiverToken(b) PROVE RoutingTypeOK'
  <2>1. tokens' \in Seq(Builder)
    BY <1>1, AppendProperties DEF AddReceiverToken, RoutingTypeOK, PolicyTypeOK
  <2>2. offered' \in [Builder -> 0..MaxTokens]
    BY <1>1, RoutingConstants DEF AddReceiverToken, RoutingTypeOK
  <2> QED
    BY <1>1, <2>1, <2>2 DEF AddReceiverToken, RoutingTypeOK, PolicyTypeOK, SenderTypeOK, senderVars
<1>2. ASSUME NEW s \in Sender, NEW e \in SeqID, HandleRequest(s, e) PROVE RoutingTypeOK'
  BY <1>2, HandleType
<1>3. CASE PushTable
  <2>1. cache' \in [SeqID -> Route]
    BY <1>3, PushGives, NextRoutesType DEF RoutingTypeOK, PolicyTypeOK, Route
  <2>2. Len(tokens) \in Nat /\ << >> \in Seq(Builder)
    BY LenProperties, EmptySeq DEF RoutingTypeOK, PolicyTypeOK
  <2>3. tokens' = << >> /\ nextSeq' = nextSeq + Len(tokens) /\ included' = included
    BY <1>3, PushGives
  <2>4. PolicyTypeOK'
    BY <2>1, <2>2, <2>3 DEF RoutingTypeOK, PolicyTypeOK
  <2> QED
    BY <1>3, <2>4, PushGives DEF RoutingTypeOK, SenderTypeOK, historyVars
<1>4. CASE TableFromCache
  <2>1. cache' \in [SeqID -> Route] /\ astray' \subseteq SeqID
    BY <1>4, CachedGives DEF RoutingTypeOK, PolicyTypeOK, Route, Routed
  <2> QED
    BY <1>4, <2>1, CachedGives DEF RoutingTypeOK, PolicyTypeOK, SenderTypeOK
<1>5. CASE Pause \/ Resume \/ NextRun
  BY <1>5, StopsType
<1>6. ASSUME NEW s \in Sender, ReceiveTable(s) PROVE RoutingTypeOK'
  BY <1>6, ReceiveGives DEF RoutingTypeOK, PolicyTypeOK, SenderTypeOK, policyVars, historyVars
<1>7. ASSUME NEW s \in Sender, NEW e \in SeqID, Ask(s, e) PROVE RoutingTypeOK'
  BY <1>7 DEF Ask, RoutingTypeOK, PolicyTypeOK, SenderTypeOK, policyVars, historyVars
<1>8. ASSUME NEW s \in Sender, NEW e \in SeqID, SendFragment(s, e) PROVE RoutingTypeOK'
  BY <1>8, SendGives DEF RoutingTypeOK, PolicyTypeOK, SenderTypeOK, policyVars, historyVars
<1>9. CASE UNCHANGED vars
  BY <1>9 DEF vars, policyVars, senderVars, historyVars, RoutingTypeOK, PolicyTypeOK, SenderTypeOK
<1> QED
  BY <1>1, <1>2, <1>3, <1>4, <1>5, <1>6, <1>7, <1>8, <1>9 DEF Next, GetCurrentTable, SenderStep
-------------------------------------------------------------------------------
(* Tokens *)

\* The image of a finite set under a function has no more elements.
LEMMA ImageCard ==
  ASSUME NEW S, IsFiniteSet(S), NEW T, NEW f \in [S -> T]
  PROVE  /\ IsFiniteSet({f[x] : x \in S})
         /\ Cardinality({f[x] : x \in S}) <= Cardinality(S)
<1> DEFINE I == {f[x] : x \in S}
<1>1. f \in Surjection(S, I)
  BY DEF Surjection
<1> QED BY <1>1, FS_Surjection

LEMMA HeldFinite ==
  ASSUME RoutingTypeOK, NEW b \in Builder
  PROVE  IsFiniteSet(Held(b)) /\ Cardinality(Held(b)) \in Nat /\ Held(b) \subseteq 1..Len(tokens)
<1>1. Len(tokens) \in Nat /\ DOMAIN tokens = 1..Len(tokens)
  BY LenProperties DEF RoutingTypeOK, PolicyTypeOK
<1>2. IsFiniteSet(1..Len(tokens))
  BY <1>1, FS_Interval
<1>3. Held(b) \in SUBSET (1..Len(tokens))
  BY <1>1 DEF Held
<1> QED BY <1>2, <1>3, FS_Subset, FS_CardinalityType

LEMMA SeqIDFinite ==
  ASSUME NEW S \in SUBSET SeqID
  PROVE  IsFiniteSet(S) /\ Cardinality(S) \in Nat
<1>1. IsFiniteSet(SeqID)
  BY FS_Interval, RoutingConstants DEF SeqID
<1> QED BY <1>1, FS_Subset, FS_CardinalityType

LEMMA GivenFinite ==
  ASSUME NEW b
  PROVE  IsFiniteSet(Given(b)) /\ Cardinality(Given(b)) \in Nat /\ Given(b) \subseteq SeqID
<1>1. Given(b) \in SUBSET SeqID
  BY DEF Given
<1> QED BY <1>1, SeqIDFinite

\* No event is given to b that was not.
LEMMA GivenShrinks ==
  ASSUME NEW b, \A e \in SeqID : Used(e, b)' => Used(e, b)
  PROVE  Cardinality(Given(b)') <= Cardinality(Given(b))
<1>1. Given(b)' \in SUBSET Given(b)
  BY DEF Given
<1> QED BY <1>1, GivenFinite, FS_Subset

\* A packet under way to a sender is one that was, or the one added last.
LEMMA InChannelAppended ==
  ASSUME RoutingTypeOK, NEW s \in Sender, NEW p \in Packet, channel'[s] = Append(channel[s], p),
         NEW e, NEW b, InChannel(s, e, b)'
  PROVE  InChannel(s, e, b) \/ (e \in DOMAIN p /\ p[e] = b)
<1>1. PICK i \in DOMAIN channel'[s] : e \in DOMAIN channel'[s][i] /\ channel'[s][i][e] = b
  BY DEF InChannel
<1>2. i \in DOMAIN channel[s] \/ i = Len(channel[s]) + 1
  BY ChannelAppended
<1> QED BY <1>1, <1>2, ChannelAppended DEF InChannel

LEMMA InChannelTaken ==
  ASSUME RoutingTypeOK, NEW s \in Sender, channel[s] # << >>, channel'[s] = Tail(channel[s]),
         NEW e, NEW b, InChannel(s, e, b)'
  PROVE  InChannel(s, e, b)
<1>1. PICK i \in DOMAIN channel'[s] : e \in DOMAIN channel'[s][i] /\ channel'[s][i][e] = b
  BY DEF InChannel
<1>2. i + 1 \in DOMAIN channel[s] /\ channel'[s][i] = channel[s][i + 1]
  BY ChannelTaken
<1> QED BY <1>1, <1>2 DEF InChannel

LEMMA InChannelSame ==
  ASSUME NEW s \in Sender, channel'[s] = channel[s], NEW e, NEW b
  PROVE  InChannel(s, e, b)' <=> InChannel(s, e, b)
BY DEF InChannel

LEMMA InChannelSent ==
  ASSUME RoutingTypeOK, NEW p, Sent(p), NEW s \in Sender, NEW e, NEW b, InChannel(s, e, b)'
  PROVE  InChannel(s, e, b) \/ (e \in DOMAIN p /\ p[e] = b)
<1>1. CASE UNCHANGED channel
  BY <1>1, InChannelSame
<1>2. CASE p \in Packet /\ channel'[s] = Append(channel[s], p)
  BY <1>2, InChannelAppended
<1> QED BY <1>1, <1>2 DEF Sent

LEMMA OffersFinite == IsFiniteSet(Offers) /\ Cardinality(Offers) \in Nat
<1>1. IsFiniteSet(1..MaxTokens)
  BY FS_Interval, RoutingConstants
<1>2. IsFiniteSet(Builder \X (1..MaxTokens))
  BY <1>1, FS_Product, RoutingConstants
<1>3. Offers \in SUBSET (Builder \X (1..MaxTokens))
  BY DEF Offers
<1> QED BY <1>2, <1>3, FS_Subset, FS_CardinalityType

\* A token added: one more came.
LEMMA AddCovers ==
  ASSUME TokensInv, NEW a \in Builder, AddReceiverToken(a)
  PROVE  TokensCover' /\ TokensCounted'
<1>a. RoutingTypeOK
  BY DEF TokensInv
<1>1. /\ offered[a] < MaxTokens /\ offered' = [offered EXCEPT ![a] = @ + 1]
      /\ tokens' = Append(tokens, a)
      /\ UNCHANGED <<nextSeq, run, cache, dest, table, channel>>
  BY DEF AddReceiverToken, senderVars
<1>2. /\ tokens \in Seq(Builder) /\ Len(tokens) \in Nat /\ DOMAIN tokens = 1..Len(tokens)
      /\ DOMAIN tokens' = 1..Len(tokens) + 1 /\ Len(tokens') = Len(tokens) + 1
      /\ \A i \in 1..Len(tokens) : tokens'[i] = tokens[i]
      /\ tokens'[Len(tokens) + 1] = a
  BY <1>a, <1>1, AppendProperties, LenProperties DEF RoutingTypeOK, PolicyTypeOK
<1>3. /\ \A b \in Builder : offered[b] \in 0..MaxTokens
      /\ \A b \in Builder : offered'[b] = IF b = a THEN offered[b] + 1 ELSE offered[b]
  BY <1>a, <1>1 DEF RoutingTypeOK
<1>4. ASSUME run = 1, NEW b \in Builder
      PROVE  Cardinality(Held(b)') + Cardinality(Given(b)') <= offered'[b]
  <2>1. Given(b)' = Given(b)
    BY <1>1 DEF Given, Used, InChannel
  <2>2. Cardinality(Held(b)) + Cardinality(Given(b)) <= offered[b]
    BY <1>4 DEF TokensInv, TokensCover
  <2>3. IsFiniteSet(Held(b)) /\ Cardinality(Held(b)) \in Nat /\ Cardinality(Given(b)) \in Nat
    BY <1>a, HeldFinite, GivenFinite
  <2>4. CASE b = a
    <3>1. Held(b)' = Held(b) \cup {Len(tokens) + 1}
      BY <1>2, <2>4 DEF Held
    <3>2. Cardinality(Held(b) \cup {Len(tokens) + 1}) \in {Cardinality(Held(b)), Cardinality(Held(b)) + 1}
      BY <2>3, FS_AddElement
    <3>3. /\ Cardinality(Held(b)') <= Cardinality(Held(b)) + 1
          /\ Cardinality(Held(b)') \in Nat
      BY <2>3, <3>1, <3>2
    <3> QED BY <1>3, <2>1, <2>2, <2>3, <2>4, <3>3
  <2>5. CASE b # a
    <3>1. Held(b)' = Held(b)
      BY <1>2, <2>5 DEF Held
    <3> QED BY <1>3, <2>1, <2>2, <2>5, <3>1
  <2> QED BY <2>4, <2>5
<1>5. TokensCounted'
  <2>3. IsFiniteSet(Offers) /\ Cardinality(Offers) \in Nat
    BY OffersFinite
  <2>4. <<a, offered[a] + 1>> \notin Offers
    BY <1>3 DEF Offers
  <2>5. Offers' = Offers \cup {<<a, offered[a] + 1>>}
    <3>1. offered[a] + 1 \in 1..MaxTokens
      BY <1>1, <1>3, RoutingConstants
    <3>2. ASSUME NEW t \in Builder \X (1..MaxTokens)
          PROVE  t \in Offers' <=> t \in Offers \/ t = <<a, offered[a] + 1>>
      <4>1. /\ t[1] \in Builder /\ t[2] \in 1..MaxTokens /\ t = <<t[1], t[2]>>
            /\ offered[t[1]] \in 0..MaxTokens
        BY <1>3
      <4>2. CASE t[1] = a
        <5>1. t[2] <= offered'[t[1]] <=> t[2] <= offered[a] + 1
          BY <1>3, <4>1, <4>2
        <5>2. t[2] <= offered[a] + 1 <=> t[2] <= offered[a] \/ t[2] = offered[a] + 1
          BY <4>1, <4>2
        <5> QED BY <4>1, <4>2, <5>1, <5>2 DEF Offers
      <4>3. CASE t[1] # a
        BY <1>3, <4>1, <4>3 DEF Offers
      <4> QED BY <4>2, <4>3
    <3> QED BY <3>1, <3>2 DEF Offers
  <2>6. Cardinality(Offers') = Cardinality(Offers) + 1
    BY <2>3, <2>4, <2>5, FS_AddElement
  <2>7. nextSeq \in Nat
    BY <1>a DEF RoutingTypeOK, PolicyTypeOK
  <2>8. (nextSeq - 1) + Len(tokens) <= Cardinality(Offers)
    BY DEF TokensInv, TokensCounted
  <2> QED BY <1>1, <1>2, <2>3, <2>6, <2>7, <2>8 DEF TokensCounted
<1>6. TokensCover'
  BY <1>1, <1>4 DEF TokensCover
<1> QED BY <1>5, <1>6

\* A request answered: a token was used for the event, or the cache had its route.
LEMMA HandleCovers ==
  ASSUME TokensInv, NEW s \in Sender, NEW e \in SeqID, HandleRequest(s, e)
  PROVE  TokensCover' /\ TokensCounted'
<1>a. RoutingTypeOK
  BY DEF TokensInv
<1>1. /\ \A u \in Sender \ {s} : channel'[u] = channel[u]
      /\ \A x \in SeqID \ {e} : cache'[x] = cache[x]
      /\ UNCHANGED <<run, nextSeq, table, dest, offered>>
  BY <1>a, HandleGives
<1>2. ASSUME NEW b \in Builder, NEW r \in Builder, Replied(s, e, r),
             NEW x \in SeqID, Used(x, b)', x # e \/ b # r
      PROVE  Used(x, b)
  <2>1. ASSUME NEW u \in Sender, InChannel(u, x, b)' PROVE InChannel(u, x, b)
    <3>1. CASE u = s
      <4>1. [y \in {e} |-> r] \in Packet /\ channel'[s] = Append(channel[s], [y \in {e} |-> r])
        BY <1>2 DEF Replied
      <4>2. ~(x \in DOMAIN [y \in {e} |-> r] /\ [y \in {e} |-> r][x] = b)
        BY <1>2
      <4> QED BY <1>a, <2>1, <3>1, <4>1, <4>2, InChannelAppended
    <3>2. CASE u # s
      BY <1>1, <2>1, <3>2, InChannelSame
    <3> QED BY <3>1, <3>2
  <2>2. cache'[x] = b => cache[x] = b
    BY <1>1, <1>2 DEF Replied
  <2> QED BY <1>1, <1>2, <2>1, <2>2 DEF Used
<1>3. CASE UNCHANGED <<channel, tokens, cache>>
  BY <1>1, <1>3 DEF TokensInv, TokensCover, TokensCounted, Held, Given, Used, InChannel, Offers
<1>4. CASE cache[e] # NoBuilder /\ UNCHANGED <<tokens, cache>> /\ Replied(s, e, cache[e])
  <2>1. cache[e] \in Builder
    BY <1>4 DEF Replied
  <2>2. \A b \in Builder, x \in SeqID : Used(x, b)' => Used(x, b)
    BY <1>2, <1>4, <2>1 DEF Used
  <2>3. \A b \in Builder : Held(b)' = Held(b)
    BY <1>4 DEF Held
  <2>4. \A b \in Builder : Cardinality(Given(b)') <= Cardinality(Given(b)) /\ Cardinality(Given(b)) \in Nat
    BY <2>2, GivenShrinks, GivenFinite
  <2>5. \A b \in Builder : Cardinality(Given(b)') \in Nat
    <3>1. \A b \in Builder : Given(b)' \in SUBSET SeqID
      BY DEF Given
    <3> QED BY <3>1, SeqIDFinite
  <2>6. \A b \in Builder : Cardinality(Held(b)) \in Nat /\ offered[b] \in Nat
    BY <1>a, HeldFinite DEF RoutingTypeOK
  <2>7. TokensCover'
    <3>1. ASSUME run = 1, NEW b \in Builder
          PROVE  Cardinality(Held(b)') + Cardinality(Given(b)') <= offered'[b]
      <4>1. Cardinality(Held(b)) + Cardinality(Given(b)) <= offered[b]
        BY <3>1 DEF TokensInv, TokensCover
      <4> QED BY <1>1, <2>3, <2>4, <2>5, <2>6, <4>1
    <3> QED BY <1>1, <3>1 DEF TokensCover
  <2> QED BY <1>1, <1>4, <2>7 DEF TokensInv, TokensCounted, Offers
<1>5. CASE /\ cache[e] = NoBuilder /\ tokens # << >> /\ tokens' = Tail(tokens)
           /\ Replied(s, e, Head(tokens))
  <2>1. /\ Head(tokens) \in Builder /\ Head(tokens) = tokens[1]
        /\ tokens' \in Seq(Builder) /\ Len(tokens) \in Nat \ {0} /\ DOMAIN tokens = 1..Len(tokens)
        /\ DOMAIN tokens' = 1..Len(tokens) - 1 /\ Len(tokens') = Len(tokens) - 1
        /\ \A i \in 1..Len(tokens) - 1 : tokens'[i] = tokens[i + 1]
    BY <1>a, <1>5, TokenFacts, LenProperties
  <2>2. ASSUME run = 1, NEW b \in Builder
        PROVE  Cardinality(Held(b)') + Cardinality(Given(b)') <= offered'[b]
    <3> DEFINE later == Held(b) \ {1}
               f == [i \in later |-> i - 1]
    <3>1. IsFiniteSet(Held(b)) /\ Cardinality(Held(b)) \in Nat /\ Held(b) \subseteq 1..Len(tokens)
      BY <1>a, HeldFinite
    <3>2. IsFiniteSet(later) /\ Cardinality(later) \in Nat
          /\ Cardinality(later) =
               IF b = Head(tokens) THEN Cardinality(Held(b)) - 1 ELSE Cardinality(Held(b))
      <4>1. 1 \in Held(b) <=> b = Head(tokens)
        BY <2>1 DEF Held
      <4> QED BY <3>1, <4>1, FS_RemoveElement, FS_CardinalityType
    <3>3. Held(b)' = {f[i] : i \in later}
      <4>1. ASSUME NEW i \in Held(b)' PROVE i + 1 \in later /\ i = f[i + 1]
        <5>1. i \in 1..Len(tokens) - 1 /\ tokens'[i] = b
          BY <2>1 DEF Held
        <5>2. i + 1 \in later
          BY <2>1, <5>1 DEF Held
        <5> QED BY <5>1, <5>2
      <4>2. ASSUME NEW i \in later PROVE f[i] \in Held(b)'
        <5>1. i \in 2..Len(tokens) /\ tokens[i] = b
          BY <2>1, <3>1 DEF Held
        <5> QED BY <2>1, <5>1 DEF Held
      <4> QED BY <4>1, <4>2
    <3> HIDE DEF later, f
    <3>4. Cardinality(Held(b)') <= Cardinality(later) /\ Cardinality(Held(b)') \in Nat
      <4>1. f \in [later -> Int]
        BY <3>1 DEF f, later
      <4>2. /\ IsFiniteSet({f[i] : i \in later})
            /\ Cardinality({f[i] : i \in later}) <= Cardinality(later)
        BY <3>2, <4>1, ImageCard
      <4> QED BY <3>3, <4>2, FS_CardinalityType
    <3>5. Cardinality(Given(b)) + Cardinality(Held(b)) <= offered[b] /\ offered[b] \in Nat
          /\ Cardinality(Given(b)) \in Nat
      BY <1>a, <2>2, <3>1, GivenFinite DEF TokensInv, TokensCover, RoutingTypeOK
    <3>6. Cardinality(Given(b)') \in Nat
      <4>1. Given(b)' \in SUBSET SeqID
        BY DEF Given
      <4> QED BY <4>1, SeqIDFinite
    <3>7. CASE b = Head(tokens)
      <4>1. Given(b)' \in SUBSET (Given(b) \cup {e})
        BY <1>2, <1>5, <2>1 DEF Given
      <4>2. IsFiniteSet(Given(b) \cup {e})
            /\ Cardinality(Given(b) \cup {e}) \in {Cardinality(Given(b)), Cardinality(Given(b)) + 1}
        BY GivenFinite, FS_AddElement
      <4>3. Cardinality(Given(b)') <= Cardinality(Given(b) \cup {e})
        BY <4>1, <4>2, FS_Subset
      <4> QED BY <1>1, <3>1, <3>2, <3>4, <3>5, <3>6, <3>7, <4>2, <4>3
    <3>8. CASE b # Head(tokens)
      <4>1. \A x \in SeqID : Used(x, b)' => Used(x, b)
        BY <1>2, <1>5, <2>1, <3>8
      <4>2. Cardinality(Given(b)') <= Cardinality(Given(b))
        BY <4>1, GivenShrinks
      <4> QED BY <1>1, <3>1, <3>2, <3>4, <3>5, <3>6, <3>8, <4>2
    <3> QED BY <3>7, <3>8
  <2>3. TokensCounted'
    <3>1. (nextSeq - 1) + Len(tokens) <= Cardinality(Offers) /\ nextSeq \in Nat
      BY <1>a DEF TokensInv, TokensCounted, RoutingTypeOK, PolicyTypeOK
    <3>2. Offers' = Offers
      BY <1>1 DEF Offers
    <3>3. Cardinality(Offers) \in Nat
      BY OffersFinite
    <3> QED BY <1>1, <2>1, <3>1, <3>2, <3>3 DEF TokensCounted
  <2> QED BY <1>1, <2>2, <2>3 DEF TokensCover
<1> QED BY <1>a, <1>3, <1>4, <1>5, HandleGives

\* A table pushed: each token is for one event.
LEMMA PushCovers ==
  ASSUME TokensInv, PushTable
  PROVE  TokensCover' /\ TokensCounted'
<1>a. RoutingTypeOK
  BY DEF TokensInv
<1>1. /\ tokens' = << >> /\ nextSeq' = nextSeq + Len(tokens)
      /\ cache' = [e \in SeqID |->
           IF e \in NextIDs /\ cache[e] = NoBuilder THEN NextRoutes[e] ELSE cache[e]]
      /\ Sent(NextRoutes) /\ UNCHANGED <<table, dest, run, offered>>
  BY <1>a, PushGives DEF historyVars
<1>2. /\ tokens \in Seq(Builder) /\ Len(tokens) \in Nat /\ nextSeq \in Nat \ {0}
      /\ \A b \in Builder : offered[b] \in Nat
  BY <1>a, LenProperties DEF RoutingTypeOK, PolicyTypeOK
<1>3. TokensCounted'
  <2>1. Len(tokens') = 0 /\ (nextSeq - 1) + Len(tokens) <= Cardinality(Offers)
    BY <1>1, EmptySeq DEF TokensInv, TokensCounted
  <2>2. Offers' = Offers
    BY <1>1 DEF Offers
  <2> QED BY <1>1, <1>2, <2>1, <2>2, OffersFinite DEF TokensCounted
<1>4. ASSUME run = 1, NEW b \in Builder
      PROVE  Cardinality(Held(b)') + Cardinality(Given(b)') <= offered'[b]
  <2> DEFINE f == [i \in Held(b) |-> nextSeq + i - 1]
             new == {f[i] : i \in Held(b)}
  <2>1. IsFiniteSet(Held(b)) /\ Cardinality(Held(b)) \in Nat /\ Held(b) \subseteq 1..Len(tokens)
    BY <1>a, HeldFinite
  <2>2. ASSUME NEW e \in SeqID, Used(e, b)' PROVE e \in Given(b) \/ e \in new
    <3>1. CASE e \in NextIDs /\ NextRoutes[e] = b
      <4>1. e - nextSeq + 1 \in DOMAIN tokens /\ tokens[e - nextSeq + 1] = b
        BY <1>a, <3>1, NextRoutesType
      <4>2. e - nextSeq + 1 \in Held(b)
        BY <4>1 DEF Held
      <4>3. f[e - nextSeq + 1] = e
        BY <1>2, <4>2 DEF SeqID
      <4> QED BY <4>2, <4>3
    <3>2. CASE ~(e \in NextIDs /\ NextRoutes[e] = b)
      <4>1. DOMAIN NextRoutes = NextIDs
        BY DEF NextRoutes
      <4>2. \A s \in Sender : InChannel(s, e, b)' => InChannel(s, e, b)
        BY <1>a, <1>1, <3>2, <4>1, InChannelSent
      <4>3. cache'[e] = b => cache[e] = b
        BY <1>1, <3>2
      <4>4. Used(e, b)
        BY <1>1, <2>2, <4>2, <4>3 DEF Used
      <4> QED BY <4>4 DEF Given
    <3> QED BY <3>1, <3>2
  <2>3. IsFiniteSet(new) /\ Cardinality(new) <= Cardinality(Held(b)) /\ Cardinality(new) \in Nat
    <3>1. f \in [Held(b) -> Int]
      BY <1>2, <2>1
    <3> HIDE DEF f
    <3> QED BY <2>1, <3>1, ImageCard, FS_CardinalityType
  <2> HIDE DEF f, new
  <2>4. Given(b)' \in SUBSET (Given(b) \cup new)
    BY <2>2 DEF Given
  <2>5. IsFiniteSet(Given(b)) /\ Cardinality(Given(b)) \in Nat
    BY GivenFinite
  <2>6. /\ IsFiniteSet(Given(b) \cup new)
        /\ Cardinality(Given(b) \cup new)
             = Cardinality(Given(b)) + Cardinality(new) - Cardinality(Given(b) \cap new)
        /\ Cardinality(Given(b) \cap new) \in Nat
    BY <2>3, <2>5, FS_Union, FS_Intersection, FS_CardinalityType
  <2>7. Cardinality(Given(b)') <= Cardinality(Given(b) \cup new)
    BY <2>4, <2>6, FS_Subset
  <2>8. Held(b)' = {} /\ Cardinality({}) = 0
    BY <1>1, FS_EmptySet DEF Held
  <2>9. Cardinality(Held(b)) + Cardinality(Given(b)) <= offered[b]
    BY <1>4 DEF TokensInv, TokensCover
  <2>10. Cardinality(Given(b)') \in Nat
    <3>1. Given(b)' \in SUBSET SeqID
      BY DEF Given
    <3> QED BY <3>1, SeqIDFinite
  <2>11. Cardinality(Held(b)') = 0
    BY <2>8
  <2> QED BY <1>1, <1>2, <2>1, <2>3, <2>5, <2>6, <2>7, <2>9, <2>10, <2>11
<1> QED BY <1>1, <1>3, <1>4 DEF TokensCover

\* Where tokens are dropped or left alone, and no route is given.
LEMMA NothingGiven ==
  ASSUME TokensInv, UNCHANGED offered,
         (tokens' = tokens /\ nextSeq' = nextSeq) \/ (tokens' = << >> /\ nextSeq' = 1),
         run' = 1 => run = 1 /\ \A b \in Builder, e \in SeqID : Used(e, b)' => Used(e, b)
  PROVE  TokensCover' /\ TokensCounted'
<1>a. RoutingTypeOK
  BY DEF TokensInv
<1>1. \A b \in Builder : offered[b] \in Nat
  BY <1>a DEF RoutingTypeOK
<1>2. Len(tokens) \in Nat /\ nextSeq \in Nat \ {0}
  BY <1>a, LenProperties DEF RoutingTypeOK, PolicyTypeOK
<1>3. ASSUME run' = 1, NEW b \in Builder
      PROVE  Cardinality(Held(b)') + Cardinality(Given(b)') <= offered'[b]
  <2>1. Cardinality(Given(b)') <= Cardinality(Given(b)) /\ Cardinality(Given(b)) \in Nat
    BY <1>3, GivenShrinks, GivenFinite
  <2>2. Cardinality(Given(b)') \in Nat
    <3>1. Given(b)' \in SUBSET SeqID
      BY DEF Given
    <3> QED BY <3>1, SeqIDFinite
  <2>3. /\ Cardinality(Held(b)') <= Cardinality(Held(b))
        /\ Cardinality(Held(b)) \in Nat /\ Cardinality(Held(b)') \in Nat
    <3>1. Cardinality(Held(b)) \in Nat
      BY <1>a, HeldFinite
    <3>2. CASE tokens' = tokens
      BY <3>1, <3>2 DEF Held
    <3>3. CASE tokens' = << >>
      <4>1. Held(b)' = {} /\ Cardinality({}) = 0
        BY <3>3, FS_EmptySet DEF Held
      <4>2. Cardinality(Held(b)') = 0
        BY <4>1
      <4> QED BY <3>1, <4>2
    <3> QED BY <3>2, <3>3
  <2>4. Cardinality(Held(b)) + Cardinality(Given(b)) <= offered[b]
    BY <1>3 DEF TokensInv, TokensCover
  <2> QED BY <1>1, <2>1, <2>2, <2>3, <2>4
<1>4. TokensCounted'
  <2>1. (nextSeq - 1) + Len(tokens) <= Cardinality(Offers) /\ Cardinality(Offers) \in Nat
    BY OffersFinite DEF TokensInv, TokensCounted
  <2>2. Offers' = Offers
    BY DEF Offers
  <2> QED BY <1>2, <2>1, <2>2, EmptySeq DEF TokensCounted
<1> QED BY <1>3, <1>4 DEF TokensCover

\* A sender learns no route that was not under way to it.
LEMMA LearntTable ==
  ASSUME RoutingTypeOK, NEW s \in Sender, ReceiveTable(s), NEW e \in SeqID, NEW b, table'[s][e] = b
  PROVE  table[s][e] = b \/ InChannel(s, e, b)
<1>1. 1 \in DOMAIN channel[s] /\ Head(channel[s]) = channel[s][1]
  BY ReceiveGives, ChannelTaken
<1>2. CASE table'[s] = table[s]
  BY <1>2
<1>3. CASE table'[s][e] = IF e \in DOMAIN Head(channel[s]) /\ table[s][e] = NoBuilder
                          THEN Head(channel[s])[e] ELSE table[s][e]
  BY <1>1, <1>3 DEF InChannel
<1> QED BY <1>2, <1>3, ReceiveGives

LEMMA TokensInvInit == Init => TokensInv
<1> SUFFICES ASSUME Init PROVE TokensInv
  OBVIOUS
<1>1. RoutingTypeOK
  BY RoutingTypeInit
<1>2. Len(<< >>) = 0 /\ Cardinality({}) = 0
  BY EmptySeq, FS_EmptySet
<1>3. ASSUME NEW b \in Builder PROVE Cardinality(Held(b)) + Cardinality(Given(b)) <= offered[b]
  <2>1. Held(b) = {}
    BY DEF Init, Held
  <2>2. Given(b) = {}
    BY RoutingConstants DEF Init, Given, Used, InChannel, NoRoutes
  <2> QED BY <1>2, <2>1, <2>2 DEF Init
<1>4. TokensCounted
  BY <1>2, OffersFinite DEF Init, TokensCounted
<1> QED BY <1>1, <1>3, <1>4 DEF TokensInv, TokensCover

LEMMA TokensInvNext ==
  ASSUME TokensInv, [Next]_vars
  PROVE  TokensInv'
<1>a. RoutingTypeOK
  BY DEF TokensInv
<1>b. RoutingTypeOK'
  BY <1>a, RoutingTypeNext
<1>1. ASSUME NEW b \in Builder, AddReceiverToken(b) PROVE TokensInv'
  BY <1>b, <1>1, AddCovers DEF TokensInv
<1>2. ASSUME NEW s \in Sender, NEW e \in SeqID, HandleRequest(s, e) PROVE TokensInv'
  BY <1>b, <1>2, HandleCovers DEF TokensInv
<1>3. CASE PushTable
  BY <1>b, <1>3, PushCovers DEF TokensInv
<1>4. CASE TableFromCache
  <2>1. /\ Sent(NewRoutes) /\ DOMAIN NewRoutes \subseteq SeqID
        /\ \A e \in DOMAIN NewRoutes : NewRoutes[e] = cache[e]
        /\ cache' = [e \in SeqID |-> IF e \in Kept THEN cache[e] ELSE NoBuilder]
        /\ UNCHANGED <<tokens, nextSeq, table, dest, offered, run>>
    BY <1>a, <1>4, CachedGives
  <2>2. ASSUME NEW b \in Builder, NEW e \in SeqID, Used(e, b)' PROVE Used(e, b)
    <3>1. \A s \in Sender : InChannel(s, e, b)' => InChannel(s, e, b) \/ cache[e] = b
      BY <1>a, <2>1, InChannelSent
    <3> QED BY <2>1, <2>2, <3>1, RoutingConstants DEF Used
  <2>3. TokensCover' /\ TokensCounted'
    BY <2>1, <2>2, NothingGiven
  <2> QED BY <1>b, <2>3 DEF TokensInv
<1>5. CASE Pause \/ Resume
  <2>1. /\ (tokens' = tokens /\ nextSeq' = nextSeq) \/ (tokens' = << >> /\ nextSeq' = 1)
        /\ UNCHANGED <<offered, run, cache, channel, table, dest>>
    BY <1>5 DEF Pause, Resume, ResetPolicy, policyVars, senderVars, historyVars
  <2>2. \A b \in Builder, e \in SeqID : Used(e, b)' => Used(e, b)
    BY <2>1 DEF Used, InChannel
  <2>3. TokensCover' /\ TokensCounted'
    BY <2>1, <2>2, NothingGiven
  <2> QED BY <1>b, <2>3 DEF TokensInv
<1>6. CASE NextRun
  <2>1. run' # 1
    BY <1>a, <1>6 DEF NextRun, RoutingTypeOK
  <2>2. TokensCounted'
    <3>1. Offers' = {} /\ Cardinality({}) = 0
      BY <1>6, FS_EmptySet, RoutingConstants DEF NextRun, Offers
    <3>2. Cardinality(Offers') = 0
      BY <3>1
    <3>3. nextSeq' = 1 /\ Len(tokens') = 0
      BY <1>6, EmptySeq DEF NextRun, ResetPolicy
    <3> QED BY <3>2, <3>3 DEF TokensCounted
  <2> QED BY <1>b, <2>1, <2>2 DEF TokensInv, TokensCover
<1>7. ASSUME NEW s \in Sender, SenderStep(s) PROVE TokensInv'
  <2>1. UNCHANGED <<tokens, nextSeq, cache, offered, run>>
    BY <1>7 DEF SenderStep, ReceiveTable, Ask, SendFragment, policyVars, historyVars
  <2>2. ASSUME ReceiveTable(s), NEW b \in Builder, NEW e \in SeqID, Used(e, b)' PROVE Used(e, b)
    <3>1. /\ channel[s] # << >> /\ channel'[s] = Tail(channel[s])
          /\ \A u \in Sender \ {s} : channel'[u] = channel[u] /\ table'[u] = table[u]
          /\ dest' = dest
      BY <1>a, <2>2, ReceiveGives
    <3>2. \A u \in Sender : InChannel(u, e, b)' => InChannel(u, e, b)
      BY <1>a, <3>1, InChannelTaken, InChannelSame
    <3>3. table'[s][e] = b => table[s][e] = b \/ InChannel(s, e, b)
      BY <1>a, <2>2, LearntTable
    <3> QED BY <2>1, <2>2, <3>1, <3>2, <3>3 DEF Used
  <2>3. ASSUME NEW x \in SeqID, Ask(s, x), NEW b \in Builder, NEW e \in SeqID, Used(e, b)'
        PROVE  Used(e, b)
    BY <2>1, <2>3 DEF Ask, Used, InChannel
  <2>4. ASSUME NEW x \in SeqID, SendFragment(s, x), NEW b \in Builder, NEW e \in SeqID, Used(e, b)'
        PROVE  Used(e, b)
    <3>1. /\ dest'[s][x] = table[s][x] /\ table'[s][x] = NoBuilder /\ channel' = channel
          /\ \A y \in SeqID \ {x} : dest'[s][y] = dest[s][y] /\ table'[s][y] = table[s][y]
          /\ \A u \in Sender \ {s} : dest'[u] = dest[u] /\ table'[u] = table[u]
      BY <1>a, <2>4, SendGives
    <3>2. \A u \in Sender : dest'[u][e] = b \/ table'[u][e] = b => dest[u][e] = b \/ table[u][e] = b
      BY <3>1, RoutingConstants
    <3> QED BY <2>1, <2>4, <3>1, <3>2 DEF Used, InChannel
  <2>5. \A b \in Builder, e \in SeqID : Used(e, b)' => Used(e, b)
    BY <1>7, <2>2, <2>3, <2>4 DEF SenderStep
  <2>6. TokensCover' /\ TokensCounted'
    BY <2>1, <2>5, NothingGiven
  <2> QED BY <1>b, <2>6 DEF TokensInv
<1>8. CASE UNCHANGED vars
  <2>1. UNCHANGED <<tokens, nextSeq, offered, run, cache, channel, table, dest>>
    BY <1>8 DEF vars, policyVars, senderVars, historyVars
  <2>2. \A b \in Builder, e \in SeqID : Used(e, b)' => Used(e, b)
    BY <2>1 DEF Used, InChannel
  <2>3. TokensCover' /\ TokensCounted'
    BY <2>1, <2>2, NothingGiven
  <2> QED BY <1>b, <2>3 DEF TokensInv
<1> QED
  BY <1>1, <1>2, <1>3, <1>4, <1>5, <1>6, <1>7, <1>8 DEF Next, GetCurrentTable

\* No event builder is sent more events than it has offered buffers for: a token is used
\* for one event, though requests are repeated, tables are pushed at the same time, routes
\* are forgotten and given again, and a pause begins again with the first event.
THEOREM TokensAlwaysHonoured == Spec => []TokensHonoured
<1>1. TokensInv => TokensHonoured
  <2> SUFFICES ASSUME TokensInv PROVE TokensHonoured
    OBVIOUS
  <2>1. ASSUME run = 1, NEW b \in Builder
        PROVE  Cardinality({e \in SeqID : \E s \in Sender : dest[s][e] = b}) <= offered[b]
    <3> DEFINE sent == {e \in SeqID : \E s \in Sender : dest[s][e] = b}
    <3>1. sent \in SUBSET Given(b)
      BY DEF Given, Used
    <3>2. /\ Cardinality(sent) <= Cardinality(Given(b))
          /\ Cardinality(sent) \in Nat /\ Cardinality(Given(b)) \in Nat
      BY <3>1, GivenFinite, FS_Subset, FS_CardinalityType
    <3>3. Cardinality(Held(b)) \in Nat /\ offered[b] \in Nat
      BY HeldFinite DEF TokensInv, RoutingTypeOK
    <3>4. Cardinality(Held(b)) + Cardinality(Given(b)) <= offered[b]
      BY <2>1 DEF TokensInv, TokensCover
    <3> HIDE DEF sent
    <3>5. Cardinality(sent) <= offered[b]
      BY <3>2, <3>3, <3>4
    <3> QED BY <3>5 DEF sent
  <2> QED BY <2>1 DEF TokensInv, TokensHonoured
<1>2. TokensInv /\ [Next]_vars => TokensInv'
  BY TokensInvNext
<1> QED BY TokensInvInit, <1>1, <1>2, PTL DEF Spec
-------------------------------------------------------------------------------
(* Destinations *)

\* The last entry of a packet.
LEMMA LastFacts ==
  ASSUME NEW D \in SUBSET SeqID, D # {}
  PROVE  Last(D) \in D /\ \A e \in D : e <= Last(D)
<1> DEFINE Below == {MaxSeq - e : e \in D}
<1>1. MaxSeq \in Nat /\ D \subseteq 1..MaxSeq
  BY RoutingConstants DEF SeqID
<1>2. Below \in SUBSET Nat /\ Below # {}
  <2>1. \A e \in D : MaxSeq - e \in Nat
    BY <1>1
  <2> QED BY <2>1
<1>3. PICK n \in Below : \A m \in Below : n <= m
  BY <1>2, LeastNatural
<1>4. PICK last \in D : n = MaxSeq - last
  OBVIOUS
<1>5. \A e \in D : MaxSeq - last <= MaxSeq - e
  BY <1>3, <1>4
<1>6. \A e \in D : e <= last
  BY <1>1, <1>5
<1> QED BY <1>6 DEF Last

LEMMA FirstExists ==
  ASSUME RoutingTypeOK, NEW s \in Sender, NEW e, NEW k \in DOMAIN channel[s], e \in DOMAIN channel[s][k]
  PROVE  \E i \in DOMAIN channel[s] : First(s, e, i)
<1> DEFINE named == {i \in DOMAIN channel[s] : e \in DOMAIN channel[s][i]}
<1>1. Len(channel[s]) \in Nat /\ DOMAIN channel[s] = 1..Len(channel[s])
  BY ChannelFacts
<1>2. named \in SUBSET Nat /\ named # {}
  BY <1>1
<1>3. PICK i \in named : \A j \in named : i <= j
  BY <1>2, LeastNatural
<1>4. \A j \in 1..i - 1 : j \in DOMAIN channel[s] /\ j \notin named
  BY <1>1, <1>3
<1> QED BY <1>3, <1>4 DEF First

\* There is one first packet.
LEMMA FirstUnique ==
  ASSUME RoutingTypeOK, NEW s \in Sender, NEW e, NEW i, NEW j, First(s, e, i), First(s, e, j)
  PROVE  i = j
<1>1. i \in 1..Len(channel[s]) /\ j \in 1..Len(channel[s]) /\ Len(channel[s]) \in Nat
  BY ChannelFacts DEF First
<1> QED BY <1>1 DEF First

LEMMA KnownGoes ==
  ASSUME RoutingTypeOK, NEW s \in Sender, NEW e \in SeqID
  PROVE  /\ Known(s, e) => \E b \in Builder : GoesTo(s, e, b)
         /\ \A b : GoesTo(s, e, b) => Known(s, e)
<1>1. dest[s][e] \in Route /\ table[s][e] \in Route
  BY DEF RoutingTypeOK, SenderTypeOK
<1>2. ASSUME Known(s, e) PROVE \E b \in Builder : GoesTo(s, e, b)
  <2>1. CASE dest[s][e] # NoBuilder
    BY <1>1, <2>1 DEF GoesTo, Route
  <2>2. CASE dest[s][e] = NoBuilder /\ table[s][e] # NoBuilder
    BY <1>1, <2>2 DEF GoesTo, Route
  <2>3. CASE dest[s][e] = NoBuilder /\ table[s][e] = NoBuilder
    <3>1. PICK i \in DOMAIN channel[s] : First(s, e, i)
      BY <1>2, <2>3, FirstExists DEF Known, Reached
    <3>2. channel[s][i][e] \in Builder
      BY <3>1, ChannelFacts DEF First
    <3> QED BY <2>3, <3>1, <3>2 DEF GoesTo
  <2> QED BY <2>1, <2>2, <2>3
<1>3. ASSUME NEW b, GoesTo(s, e, b) PROVE Known(s, e)
  BY <1>3 DEF GoesTo, Known, Reached, First
<1> QED BY <1>2, <1>3

\* A packet added last tells a sender only of the events it did not know.
LEMMA AppendedGoes ==
  ASSUME RoutingTypeOK, NEW s \in Sender, NEW p \in Packet, channel'[s] = Append(channel[s], p),
         dest'[s] = dest[s], table'[s] = table[s], NEW e \in SeqID
  PROVE  /\ Known(s, e) \/ e \notin DOMAIN p => \A b : GoesTo(s, e, b)' <=> GoesTo(s, e, b)
         /\ ~Known(s, e) /\ e \in DOMAIN p => \A b : GoesTo(s, e, b)' <=> b = p[e]
         /\ Known(s, e)' <=> Known(s, e) \/ e \in DOMAIN p
<1>1. PICK n \in Nat :
        /\ DOMAIN channel[s] = 1..n /\ DOMAIN channel'[s] = 1..n + 1
        /\ \A i \in 1..n : channel'[s][i] = channel[s][i]
        /\ channel'[s][n + 1] = p
  BY ChannelAppended
<1>2. \A i \in 1..n : First(s, e, i)' <=> First(s, e, i)
  <2> TAKE i \in 1..n
  <2>1. \A j \in 1..i - 1 : j \in 1..n
    BY <1>1
  <2>2. i \in DOMAIN channel[s] /\ i \in DOMAIN channel'[s] /\ channel'[s][i] = channel[s][i]
    BY <1>1
  <2>3. \A j \in 1..i - 1 : channel'[s][j] = channel[s][j]
    BY <1>1, <2>1
  <2> QED BY <2>2, <2>3 DEF First
<1>3. First(s, e, n + 1)' <=> e \in DOMAIN p /\ \A j \in 1..n : e \notin DOMAIN channel[s][j]
  <2>1. 1..(n + 1) - 1 = 1..n /\ n + 1 \in DOMAIN channel'[s]
    BY <1>1
  <2>2. First(s, e, n + 1)' <=> e \in DOMAIN p /\ \A j \in 1..n : e \notin DOMAIN channel'[s][j]
    BY <1>1, <2>1 DEF First
  <2> QED BY <1>1, <2>2
<1>4. \A i : i \in 1..n + 1 <=> i \in 1..n \/ i = n + 1
  BY <1>1
<1>5. Reached(s, e)' <=> Reached(s, e)
  BY DEF Reached
<1>6. Known(s, e)' <=> Known(s, e) \/ e \in DOMAIN p
  BY <1>1, <1>4, <1>5 DEF Known
<1>7. ASSUME Reached(s, e), NEW b PROVE GoesTo(s, e, b)' <=> GoesTo(s, e, b)
  BY <1>7 DEF Reached, GoesTo
<1>8. ASSUME ~Reached(s, e), NEW b
      PROVE  /\ GoesTo(s, e, b) <=> \E i \in 1..n : First(s, e, i) /\ b = channel[s][i][e]
             /\ GoesTo(s, e, b)' <=> GoesTo(s, e, b) \/ (First(s, e, n + 1)' /\ b = p[e])
  <2>1. GoesTo(s, e, b) <=> \E i \in 1..n : First(s, e, i) /\ b = channel[s][i][e]
    BY <1>1, <1>8 DEF Reached, GoesTo
  <2>2. GoesTo(s, e, b)' <=> \E i \in 1..n + 1 : First(s, e, i)' /\ b = channel'[s][i][e]
    BY <1>1, <1>8 DEF Reached, GoesTo
  <2>3. \A i \in 1..n : First(s, e, i)' /\ b = channel'[s][i][e] <=> First(s, e, i) /\ b = channel[s][i][e]
    BY <1>1, <1>2
  <2>4. channel'[s][n + 1] = p
    BY <1>1
  <2>5. GoesTo(s, e, b)' <=>
          (\E i \in 1..n : First(s, e, i)' /\ b = channel'[s][i][e])
            \/ (First(s, e, n + 1)' /\ b = channel'[s][n + 1][e])
    BY <1>4, <2>2
  <2> QED BY <2>1, <2>3, <2>4, <2>5
<1>9. CASE ~Reached(s, e) /\ Known(s, e)
  <2>1. ~First(s, e, n + 1)'
    BY <1>1, <1>3, <1>9 DEF Known
  <2> QED BY <1>6, <1>8, <1>9, <2>1
<1>10. CASE ~Known(s, e)
  <2>1. ~Reached(s, e) /\ \A i \in 1..n : e \notin DOMAIN channel[s][i]
    BY <1>1, <1>10 DEF Known
  <2>2. \A i \in 1..n : ~First(s, e, i)
    BY <2>1 DEF First
  <2>3. First(s, e, n + 1)' <=> e \in DOMAIN p
    BY <1>3, <2>1
  <2> QED BY <1>6, <1>8, <1>10, <2>1, <2>2, <2>3
<1>11. Reached(s, e) => Known(s, e)
  BY DEF Known
<1> QED BY <1>6, <1>7, <1>9, <1>10, <1>11

LEMMA SameGoes ==
  ASSUME NEW s \in Sender, channel'[s] = channel[s], dest'[s] = dest[s], table'[s] = table[s], NEW e
  PROVE  /\ \A b : GoesTo(s, e, b)' <=> GoesTo(s, e, b)
         /\ Known(s, e)' <=> Known(s, e)
         /\ Reached(s, e)' <=> Reached(s, e)
BY DEF GoesTo, Known, Reached, First

\* A packet taken off the channel: what it tells is known, and nothing else changes.
LEMMA TakenGoes ==
  ASSUME RoutingTypeOK, PushedInv, mode = "EventBuilding", NEW s \in Sender, ReceiveTable(s),
         NEW e \in SeqID
  PROVE  /\ Reached(s, e)' <=> Reached(s, e) \/ e \in DOMAIN channel[s][1]
         /\ Known(s, e)' <=> Known(s, e)
         /\ \A b : GoesTo(s, e, b)' <=> GoesTo(s, e, b)
<1>1. PICK n \in Nat \ {0}, p \in Packet :
        /\ DOMAIN channel[s] = 1..n /\ DOMAIN channel'[s] = 1..n - 1
        /\ \A i \in 1..n - 1 : channel'[s][i] = channel[s][i + 1]
        /\ channel[s][1] = p /\ Head(channel[s]) = p
  <2>1. channel[s] # << >> /\ channel'[s] = Tail(channel[s])
    BY ReceiveGives
  <2>2. /\ Len(channel[s]) \in Nat \ {0} /\ DOMAIN channel[s] = 1..Len(channel[s])
        /\ DOMAIN channel'[s] = 1..Len(channel[s]) - 1
        /\ \A i \in DOMAIN channel'[s] : channel'[s][i] = channel[s][i + 1]
        /\ Head(channel[s]) = channel[s][1] /\ Head(channel[s]) \in Packet
    BY <2>1, ChannelTaken
  <2> QED BY <2>2
<1>2. /\ DOMAIN p \subseteq SeqID /\ DOMAIN p # {} /\ \A x \in DOMAIN p : p[x] # NoBuilder
  BY <1>1, PacketFacts
<1>3. /\ \/ /\ Contiguous(DOMAIN p) => table[s][Last(DOMAIN p)] # NoBuilder
            /\ table'[s] = table[s]
         \/ table'[s][e] = IF e \in DOMAIN p /\ table[s][e] = NoBuilder THEN p[e] ELSE table[s][e]
      /\ dest' = dest
  BY <1>1, ReceiveGives
<1>4. Contiguous(DOMAIN p) /\ ReachedInOrder
  BY <1>1 DEF PushedInv, PacketsContiguous
<1>5. /\ Reached(s, e)' <=> Reached(s, e) \/ e \in DOMAIN p
      /\ Reached(s, e) /\ dest[s][e] = NoBuilder => table'[s][e] = table[s][e]
      /\ ~Reached(s, e) /\ e \in DOMAIN p => table'[s][e] = p[e]
      /\ ~Reached(s, e) /\ e \notin DOMAIN p => table'[s][e] = table[s][e]
  <2>1. CASE /\ Contiguous(DOMAIN p) => table[s][Last(DOMAIN p)] # NoBuilder
             /\ table'[s] = table[s]
    <3>1. Last(DOMAIN p) \in SeqID /\ \A x \in DOMAIN p : x <= Last(DOMAIN p)
      BY <1>2, LastFacts
    <3>2. Reached(s, Last(DOMAIN p))
      BY <1>4, <2>1 DEF Reached
    <3>3. e \in DOMAIN p => e = Last(DOMAIN p) \/ e < Last(DOMAIN p)
      BY <3>1 DEF SeqID
    <3>4. e \in DOMAIN p => Reached(s, e)
      BY <1>4, <3>1, <3>2, <3>3 DEF ReachedInOrder
    <3>5. Reached(s, e)' <=> Reached(s, e)
      BY <1>3, <2>1 DEF Reached
    <3> QED BY <2>1, <3>4, <3>5
  <2>2. CASE table'[s][e] = IF e \in DOMAIN p /\ table[s][e] = NoBuilder THEN p[e] ELSE table[s][e]
    BY <1>2, <1>3, <2>2 DEF Reached
  <2> QED BY <1>3, <2>1, <2>2
<1>6. /\ \A i : i \in 1..n <=> i = 1 \/ \E j \in 1..n - 1 : i = j + 1
      /\ \A i \in 1..n - 1 : i + 1 \in 1..n
  <2> SUFFICES ASSUME NEW i PROVE i \in 1..n <=> i = 1 \/ \E j \in 1..n - 1 : i = j + 1
    BY <1>1
  <2>1. ASSUME i \in 1..n, i # 1 PROVE i - 1 \in 1..n - 1 /\ i = (i - 1) + 1
    BY <1>1, <2>1
  <2> QED BY <1>1, <2>1
<1>7. Known(s, e) <=> Reached(s, e) \/ e \in DOMAIN p
                       \/ \E j \in 1..n - 1 : e \in DOMAIN channel[s][j + 1]
  BY <1>1, <1>6 DEF Known
<1>8. Known(s, e)' <=> Known(s, e)
  BY <1>1, <1>5, <1>7 DEF Known
<1>9. ASSUME NEW j \in 1..n - 1, e \notin DOMAIN p
      PROVE  First(s, e, j)' <=> First(s, e, j + 1)
  <2>1. /\ j \in DOMAIN channel'[s] /\ j + 1 \in DOMAIN channel[s]
        /\ channel'[s][j] = channel[s][j + 1]
    BY <1>1
  <2>2. (\A k \in 1..j - 1 : e \notin DOMAIN channel'[s][k])
          <=> \A k \in 1..(j + 1) - 1 : e \notin DOMAIN channel[s][k]
    <3>1. ASSUME \A k \in 1..(j + 1) - 1 : e \notin DOMAIN channel[s][k], NEW k \in 1..j - 1
          PROVE  e \notin DOMAIN channel'[s][k]
      <4>1. k \in 1..n - 1 /\ k + 1 \in 1..(j + 1) - 1
        BY <1>1
      <4> QED BY <1>1, <3>1, <4>1
    <3>2. ASSUME \A k \in 1..j - 1 : e \notin DOMAIN channel'[s][k], NEW k \in 1..(j + 1) - 1
          PROVE  e \notin DOMAIN channel[s][k]
      <4>1. CASE k = 1
        BY <1>1, <1>9, <4>1
      <4>2. CASE k # 1
        <5>1. k - 1 \in 1..j - 1 /\ k - 1 \in 1..n - 1 /\ (k - 1) + 1 = k
          BY <1>1, <4>2
        <5> QED BY <1>1, <3>2, <5>1
      <4> QED BY <4>1, <4>2
    <3> QED BY <3>1, <3>2
  <2> QED BY <2>1, <2>2 DEF First
<1>10. ASSUME NEW b PROVE GoesTo(s, e, b)' <=> GoesTo(s, e, b)
  <2>1. CASE Reached(s, e)
    <3>1. dest'[s][e] = dest[s][e] /\ (dest[s][e] = NoBuilder => table'[s][e] = table[s][e])
      BY <1>3, <1>5, <2>1
    <3> QED BY <2>1, <3>1 DEF GoesTo, Reached
  <2>2. CASE ~Reached(s, e) /\ e \in DOMAIN p
    <3>1. dest'[s][e] = NoBuilder /\ dest[s][e] = NoBuilder /\ table[s][e] = NoBuilder
          /\ table'[s][e] = p[e] /\ p[e] # NoBuilder
      BY <1>2, <1>3, <1>5, <2>2 DEF Reached
    <3>2. First(s, e, 1)
      BY <1>1, <2>2 DEF First
    <3>3. \A i : First(s, e, i) => i = 1
      BY <3>2, FirstUnique
    <3>4. GoesTo(s, e, b) <=> b = p[e]
      BY <1>1, <3>1, <3>2, <3>3 DEF GoesTo
    <3> QED BY <3>1, <3>4 DEF GoesTo
  <2>3. CASE ~Reached(s, e) /\ e \notin DOMAIN p
    <3>1. dest'[s][e] = NoBuilder /\ dest[s][e] = NoBuilder /\ table[s][e] = NoBuilder
          /\ table'[s][e] = NoBuilder
      BY <1>3, <1>5, <2>3 DEF Reached
    <3>2. ~First(s, e, 1)
      BY <1>1, <2>3 DEF First
    <3>3. GoesTo(s, e, b) <=> \E j \in 1..n - 1 : First(s, e, j + 1) /\ b = channel[s][j + 1][e]
      BY <1>1, <1>6, <3>1, <3>2 DEF GoesTo
    <3>4. GoesTo(s, e, b)' <=> \E j \in 1..n - 1 : First(s, e, j)' /\ b = channel'[s][j][e]
      BY <1>1, <3>1 DEF GoesTo
    <3> QED BY <1>1, <1>9, <2>3, <3>3, <3>4
  <2> QED BY <2>1, <2>2, <2>3
<1>11. Reached(s, e)' <=> Reached(s, e) \/ e \in DOMAIN channel[s][1]
  BY <1>1, <1>5
<1> QED BY <1>8, <1>10, <1>11
-------------------------------------------------------------------------------
(* In mode EventBuilding *)

\* Nothing that tells where an event goes changes, or the policy begins again.
LEMMA PushedSame ==
  ASSUME PushedInv, UNCHANGED <<mode, asked, channel, table, dest, astray>>,
         RoutingTypeOK, nextSeq' = nextSeq \/ nextSeq' = 1
  PROVE  PushedInv'
<1> SUFFICES ASSUME mode' = "EventBuilding" PROVE PushedInv'
  BY DEF PushedInv
<1>1. \A s \in Sender, e \in SeqID :
        /\ \A b : GoesTo(s, e, b)' <=> GoesTo(s, e, b)
        /\ Known(s, e)' <=> Known(s, e)
        /\ Reached(s, e)' <=> Reached(s, e)
  BY SameGoes
<1>2. AskedInOrder /\ ReachedInOrder /\ ComesInOrder /\ PacketsContiguous /\ RoutedKnown /\ SameForAll
  BY DEF PushedInv
<1>3. AskedInOrder' /\ ReachedInOrder' /\ PacketsContiguous' /\ SameForAll'
  BY <1>1, <1>2 DEF AskedInOrder, ReachedInOrder, PacketsContiguous, SameForAll
<1>4. ComesInOrder'
  BY <1>2 DEF ComesInOrder, Reached
<1>5. RoutedKnown'
  <2>1. \A e \in SeqID : e < nextSeq' => e < nextSeq
    BY DEF SeqID, RoutingTypeOK, PolicyTypeOK
  <2> QED BY <1>1, <1>2, <2>1 DEF RoutedKnown
<1> QED BY <1>3, <1>4, <1>5 DEF PushedInv

\* A new run: no sender knows anything.
LEMMA PushedNew ==
  ASSUME NextRun
  PROVE  PushedInv'
<1>1. /\ nextSeq' = 1 /\ asked' = [s \in Sender |-> {}] /\ channel' = [s \in Sender |-> << >>]
      /\ table' = [s \in Sender |-> NoRoutes] /\ dest' = [s \in Sender |-> NoRoutes]
  BY DEF NextRun, ResetPolicy
<1>2. \A s \in Sender : asked'[s] = {} /\ DOMAIN channel'[s] = {}
  BY <1>1, EmptySeq
<1>3. \A s \in Sender, e \in SeqID : ~Reached(s, e)' /\ \A b : ~GoesTo(s, e, b)'
  BY <1>1, <1>2 DEF Reached, GoesTo, NoRoutes
<1>4. \A e \in SeqID : ~(e < nextSeq')
  BY <1>1 DEF SeqID
<1>5. AskedInOrder' /\ ComesInOrder' /\ PacketsContiguous'
  BY <1>2 DEF AskedInOrder, ComesInOrder, PacketsContiguous
<1>6. ReachedInOrder' /\ RoutedKnown' /\ SameForAll'
  BY <1>3, <1>4 DEF ReachedInOrder, RoutedKnown, SameForAll
<1> QED BY <1>5, <1>6 DEF PushedInv

LEMMA PushedInit == Init => PushedInv
<1> SUFFICES ASSUME Init PROVE PushedInv
  OBVIOUS
<1>1. /\ nextSeq = 1 /\ asked = [s \in Sender |-> {}] /\ channel = [s \in Sender |-> << >>]
      /\ table = [s \in Sender |-> NoRoutes] /\ dest = [s \in Sender |-> NoRoutes]
  BY DEF Init
<1>2. \A s \in Sender : asked[s] = {} /\ DOMAIN channel[s] = {}
  BY <1>1, EmptySeq
<1>3. \A s \in Sender, e \in SeqID : ~Reached(s, e) /\ \A b : ~GoesTo(s, e, b)
  BY <1>1, <1>2 DEF Reached, GoesTo, NoRoutes
<1>4. \A e \in SeqID : ~(e < nextSeq)
  BY <1>1 DEF SeqID
<1>5. AskedInOrder /\ ComesInOrder /\ PacketsContiguous
  BY <1>2 DEF AskedInOrder, ComesInOrder, PacketsContiguous
<1>6. ReachedInOrder /\ RoutedKnown /\ SameForAll
  BY <1>3, <1>4 DEF ReachedInOrder, RoutedKnown, SameForAll
<1> QED BY <1>5, <1>6 DEF PushedInv

LEMMA AskPushed ==
  ASSUME RoutingTypeOK, PushedInv, NEW s \in Sender, NEW e \in SeqID, Ask(s, e)
  PROVE  PushedInv'
<1> SUFFICES ASSUME mode' = "EventBuilding" PROVE PushedInv'
  BY DEF PushedInv
<1>1. /\ asked' = [asked EXCEPT ![s] = @ \cup {e}] /\ Sending(s, e)
      /\ UNCHANGED <<mode, nextSeq, channel, table, dest, astray>>
  BY DEF Ask, policyVars, historyVars
<1>2. /\ asked'[s] = asked[s] \cup {e} /\ \A u \in Sender \ {s} : asked'[u] = asked[u]
      /\ asked \in [Sender -> SUBSET SeqID]
  BY <1>1 DEF RoutingTypeOK, SenderTypeOK
<1>3. \A u \in Sender, x \in SeqID :
        /\ \A b : GoesTo(u, x, b)' <=> GoesTo(u, x, b)
        /\ Known(u, x)' <=> Known(u, x)
        /\ Reached(u, x)' <=> Reached(u, x)
  BY <1>1, SameGoes
<1>4. AskedInOrder /\ ReachedInOrder /\ ComesInOrder /\ PacketsContiguous /\ RoutedKnown /\ SameForAll
  BY <1>1 DEF PushedInv
<1>5. ReachedInOrder' /\ PacketsContiguous' /\ SameForAll' /\ RoutedKnown'
  BY <1>1, <1>3, <1>4 DEF ReachedInOrder, PacketsContiguous, SameForAll, RoutedKnown
<1>6. ComesInOrder'
  BY <1>1, <1>4 DEF ComesInOrder, Reached
<1>7. AskedInOrder'
  <2>1. \A x \in SeqID : x < e => dest[s][x] # NoBuilder
    <3> SUFFICES ASSUME NEW x \in SeqID, x < e PROVE dest[s][x] # NoBuilder
      OBVIOUS
    <3>1. x \in 1..e - 1
      BY DEF SeqID
    <3> QED BY <1>1, <3>1 DEF Sending, Routed
  <2> QED BY <1>1, <1>2, <1>4, <2>1 DEF AskedInOrder
<1> QED BY <1>5, <1>6, <1>7 DEF PushedInv

LEMMA SendPushed ==
  ASSUME RoutingTypeOK, PushedInv, NEW s \in Sender, NEW e \in SeqID, SendFragment(s, e)
  PROVE  PushedInv'
<1> SUFFICES ASSUME mode' = "EventBuilding" PROVE PushedInv'
  BY DEF PushedInv
<1>1. /\ Sending(s, e) /\ table[s][e] # NoBuilder
      /\ dest'[s][e] = table[s][e] /\ table'[s][e] = NoBuilder
      /\ \A x \in SeqID \ {e} : dest'[s][x] = dest[s][x] /\ table'[s][x] = table[s][x]
      /\ \A u \in Sender \ {s} : dest'[u] = dest[u] /\ table'[u] = table[u]
      /\ UNCHANGED <<mode, nextSeq, asked, channel, astray>>
  BY SendGives DEF policyVars, historyVars
<1>2. dest[s][e] = NoBuilder
  BY <1>1 DEF Sending, Routed
<1>3. \A u \in Sender, x \in SeqID :
        /\ \A b : GoesTo(u, x, b)' <=> GoesTo(u, x, b)
        /\ Known(u, x)' <=> Known(u, x)
        /\ Reached(u, x)' <=> Reached(u, x)
  <2> TAKE u \in Sender, x \in SeqID
  <2>1. CASE u = s /\ x = e
    BY <1>1, <1>2, <2>1 DEF GoesTo, Known, Reached
  <2>2. CASE ~(u = s /\ x = e)
    <3>1. dest'[u][x] = dest[u][x] /\ table'[u][x] = table[u][x] /\ channel' = channel
      BY <1>1, <2>2
    <3> QED BY <3>1 DEF GoesTo, Known, Reached, First
  <2> QED BY <2>1, <2>2
<1>4. AskedInOrder /\ ReachedInOrder /\ ComesInOrder /\ PacketsContiguous /\ RoutedKnown /\ SameForAll
  BY <1>1 DEF PushedInv
<1>5. ReachedInOrder' /\ PacketsContiguous' /\ SameForAll' /\ RoutedKnown'
  BY <1>1, <1>3, <1>4 DEF ReachedInOrder, PacketsContiguous, SameForAll, RoutedKnown
<1>6. ComesInOrder'
  BY <1>1, <1>3, <1>4 DEF ComesInOrder
<1>7. AskedInOrder'
  <2>1. \A u \in Sender, x \in SeqID : dest[u][x] # NoBuilder => dest'[u][x] # NoBuilder
    BY <1>1
  <2> QED BY <1>1, <1>4, <2>1 DEF AskedInOrder
<1> QED BY <1>5, <1>6, <1>7 DEF PushedInv

\* The packets of sender s after one more, p, came after events all before which it knows.
LEMMA AppendedInOrder ==
  ASSUME RoutingTypeOK, PushedInv, mode = "EventBuilding",
         NEW s \in Sender, NEW p \in Packet, channel'[s] = Append(channel[s], p),
         dest'[s] = dest[s], table'[s] = table[s],
         Contiguous(DOMAIN p),
         \A e \in DOMAIN p, x \in SeqID : x < e => Known(s, x) \/ x \in DOMAIN p
  PROVE  /\ \A i \in DOMAIN channel'[s] : Contiguous(DOMAIN channel'[s][i])
         /\ \A i \in DOMAIN channel'[s] : \A e \in DOMAIN channel'[s][i], x \in SeqID :
              x < e => Reached(s, x)' \/ \E j \in 1..i : x \in DOMAIN channel'[s][j]
<1>1. PICK n \in Nat :
        /\ DOMAIN channel[s] = 1..n /\ DOMAIN channel'[s] = 1..n + 1
        /\ \A i \in 1..n : channel'[s][i] = channel[s][i]
        /\ channel'[s][n + 1] = p
  BY ChannelAppended
<1>2. ComesInOrder /\ PacketsContiguous
  BY DEF PushedInv
<1>3. \A x \in SeqID : Reached(s, x)' <=> Reached(s, x)
  BY DEF Reached
<1>4. \A i : i \in 1..n + 1 <=> i \in 1..n \/ i = n + 1
  OBVIOUS
<1>5. ASSUME NEW i \in 1..n, NEW e \in DOMAIN channel'[s][i], NEW x \in SeqID, x < e
      PROVE  Reached(s, x)' \/ \E j \in 1..i : x \in DOMAIN channel'[s][j]
  <2>1. e \in DOMAIN channel[s][i]
    BY <1>1, <1>5
  <2>2. Reached(s, x) \/ \E j \in 1..i : x \in DOMAIN channel[s][j]
    BY <1>1, <1>2, <1>5, <2>1 DEF ComesInOrder
  <2>3. \A j \in 1..i : channel'[s][j] = channel[s][j]
    BY <1>1
  <2> QED BY <1>3, <2>2, <2>3
<1>6. ASSUME NEW e \in DOMAIN p, NEW x \in SeqID, x < e
      PROVE  Reached(s, x)' \/ \E j \in 1..n + 1 : x \in DOMAIN channel'[s][j]
  <2>1. Known(s, x) => Reached(s, x) \/ \E j \in 1..n : x \in DOMAIN channel'[s][j]
    BY <1>1 DEF Known
  <2> QED BY <1>1, <1>3, <1>4, <1>6, <2>1
<1>7. \A i \in DOMAIN channel'[s] : Contiguous(DOMAIN channel'[s][i])
  BY <1>1, <1>2, <1>4 DEF PacketsContiguous
<1>8. ASSUME NEW i \in DOMAIN channel'[s], NEW e \in DOMAIN channel'[s][i], NEW x \in SeqID, x < e
      PROVE  Reached(s, x)' \/ \E j \in 1..i : x \in DOMAIN channel'[s][j]
  <2>1. CASE i \in 1..n
    BY <1>5, <1>8, <2>1
  <2>2. CASE i = n + 1
    BY <1>1, <1>6, <1>8, <2>2
  <2> QED BY <1>1, <1>4, <2>1, <2>2
<1> QED BY <1>7, <1>8

LEMMA HandlePushed ==
  ASSUME RoutingTypeOK, PushedInv, NEW s \in Sender, NEW e \in SeqID, HandleRequest(s, e)
  PROVE  PushedInv'
<1> SUFFICES ASSUME mode' = "EventBuilding" PROVE PushedInv'
  BY DEF PushedInv
<1>1. /\ e \in asked[s] /\ \A u \in Sender : asked'[u] \subseteq asked[u]
      /\ \A u \in Sender \ {s} : channel'[u] = channel[u]
      /\ UNCHANGED <<mode, nextSeq, table, dest>>
      /\ astray' = IF mode = "EventBuilding" /\ e >= nextSeq /\ cache'[e] # NoBuilder
                     THEN astray \cup {e} ELSE astray
  BY HandleGives
<1>2. AskedInOrder /\ ReachedInOrder /\ ComesInOrder /\ PacketsContiguous /\ RoutedKnown /\ SameForAll
  BY <1>1 DEF PushedInv
<1>3. AskedInOrder'
  BY <1>1, <1>2 DEF AskedInOrder
<1>4. CASE UNCHANGED channel
  <2>1. \A u \in Sender, x \in SeqID :
          /\ \A b : GoesTo(u, x, b)' <=> GoesTo(u, x, b)
          /\ Known(u, x)' <=> Known(u, x)
          /\ Reached(u, x)' <=> Reached(u, x)
    BY <1>1, <1>4, SameGoes
  <2>2. ReachedInOrder' /\ PacketsContiguous' /\ RoutedKnown' /\ SameForAll'
    BY <1>1, <1>2, <1>4, <2>1 DEF ReachedInOrder, PacketsContiguous, RoutedKnown, SameForAll
  <2>3. ComesInOrder'
    BY <1>1, <1>2, <1>4 DEF ComesInOrder, Reached
  <2> QED BY <1>3, <2>2, <2>3 DEF PushedInv
<1>5. ASSUME NEW r \in Builder, Replied(s, e, r) PROVE PushedInv'
  <2>1. PICK p \in Packet : DOMAIN p = {e} /\ channel'[s] = Append(channel[s], p)
    BY <1>5 DEF Replied
  <2>2. e \notin astray' => Known(s, e)
    <3>1. ASSUME e \notin astray' PROVE e < nextSeq
      <4>1. cache'[e] # NoBuilder
        BY <1>5, RoutingConstants DEF Replied
      <4> QED BY <1>1, <3>1, <4>1 DEF SeqID, RoutingTypeOK, PolicyTypeOK
    <3> QED BY <1>2, <3>1 DEF RoutedKnown
  <2>3. ASSUME NEW u \in Sender, NEW x \in SeqID
        PROVE  /\ x \notin astray' => \A b : GoesTo(u, x, b)' <=> GoesTo(u, x, b)
               /\ Known(u, x) => Known(u, x)'
               /\ Reached(u, x)' <=> Reached(u, x)
    <3>1. CASE u = s
      <4>1. x \notin astray' => Known(s, x) \/ x \notin DOMAIN p
        BY <2>1, <2>2
      <4> QED BY <1>1, <2>1, <3>1, <4>1, AppendedGoes DEF Reached
    <3>2. CASE u # s
      BY <1>1, <3>2, SameGoes
    <3> QED BY <3>1, <3>2
  <2>4. ReachedInOrder' /\ RoutedKnown'
    BY <1>1, <1>2, <2>3 DEF ReachedInOrder, RoutedKnown
  <2>5. SameForAll'
    <3>1. astray \subseteq astray'
      BY <1>1
    <3> QED BY <1>2, <2>3, <3>1 DEF SameForAll
  <2>6. /\ \A i \in DOMAIN channel'[s] : Contiguous(DOMAIN channel'[s][i])
        /\ \A i \in DOMAIN channel'[s] : \A y \in DOMAIN channel'[s][i], x \in SeqID :
             x < y => Reached(s, x)' \/ \E j \in 1..i : x \in DOMAIN channel'[s][j]
    <3>1. Contiguous(DOMAIN p)
      BY <2>1 DEF Contiguous, SeqID
    <3>2. \A y \in DOMAIN p, x \in SeqID : x < y => Known(s, x) \/ x \in DOMAIN p
      BY <1>1, <1>2, <2>1 DEF AskedInOrder, Known, Reached
    <3> QED BY <1>1, <2>1, <3>1, <3>2, AppendedInOrder
  <2>7. PacketsContiguous'
    BY <1>1, <1>2, <2>6 DEF PacketsContiguous
  <2>8. ComesInOrder'
    <3>1. ASSUME NEW u \in Sender, NEW i \in DOMAIN channel'[u], NEW y \in DOMAIN channel'[u][i],
                 NEW x \in SeqID, x < y
          PROVE  Reached(u, x)' \/ \E j \in 1..i : x \in DOMAIN channel'[u][j]
      <4>1. CASE u = s
        BY <2>6, <3>1, <4>1
      <4>2. CASE u # s
        BY <1>1, <1>2, <2>3, <3>1, <4>2 DEF ComesInOrder
      <4> QED BY <4>1, <4>2
    <3> QED BY <3>1 DEF ComesInOrder
  <2> QED BY <1>3, <2>4, <2>5, <2>7, <2>8 DEF PushedInv
<1>6. cache[e] # NoBuilder => cache[e] \in Builder
  BY DEF RoutingTypeOK, PolicyTypeOK, Route
<1> QED BY <1>4, <1>5, <1>6, HandleGives, TokenFacts

LEMMA TablePushed ==
  ASSUME RoutingTypeOK, PushedInv, PushTable
  PROVE  PushedInv'
<1>1. /\ mode = "EventBuilding" /\ nextSeq' = nextSeq + Len(tokens) /\ Sent(NextRoutes)
      /\ UNCHANGED <<mode, asked, table, dest, astray>>
  BY PushGives DEF historyVars
<1>2. /\ DOMAIN NextRoutes = NextIDs /\ NextIDs \subseteq SeqID /\ nextSeq \in Nat /\ Len(tokens) \in Nat
  BY LenProperties DEF NextRoutes, NextIDs, RoutingTypeOK, PolicyTypeOK
<1>3. AskedInOrder /\ ReachedInOrder /\ ComesInOrder /\ PacketsContiguous /\ RoutedKnown /\ SameForAll
  BY <1>1 DEF PushedInv
<1>4. AskedInOrder'
  BY <1>1, <1>3 DEF AskedInOrder
<1>5. \A s \in Sender, e \in SeqID : Reached(s, e)' <=> Reached(s, e)
  BY <1>1 DEF Reached
<1>6. ReachedInOrder'
  BY <1>3, <1>5 DEF ReachedInOrder
<1>7. \A e \in SeqID : e < nextSeq' => e < nextSeq \/ e \in NextIDs
  BY <1>1, <1>2 DEF NextIDs, SeqID
<1>8. CASE DOMAIN NextRoutes = {} /\ UNCHANGED channel
  <2>1. \A s \in Sender, e \in SeqID :
          /\ \A b : GoesTo(s, e, b)' <=> GoesTo(s, e, b)
          /\ Known(s, e)' <=> Known(s, e)
    BY <1>1, <1>8, SameGoes
  <2>2. PacketsContiguous' /\ RoutedKnown' /\ SameForAll'
    BY <1>1, <1>2, <1>3, <1>7, <1>8, <2>1 DEF PacketsContiguous, RoutedKnown, SameForAll
  <2>3. ComesInOrder'
    BY <1>1, <1>3, <1>8 DEF ComesInOrder, Reached
  <2> QED BY <1>4, <1>6, <2>2, <2>3 DEF PushedInv
<1>9. CASE NextRoutes \in Packet /\ \A s \in Sender : channel'[s] = Append(channel[s], NextRoutes)
  <2>1. PICK p \in Packet : DOMAIN p = NextIDs /\ \A s \in Sender : channel'[s] = Append(channel[s], p)
    BY <1>2, <1>9
  <2>2. ASSUME NEW s \in Sender, NEW e \in SeqID
        PROVE  /\ Known(s, e) \/ e \notin NextIDs => \A b : GoesTo(s, e, b)' <=> GoesTo(s, e, b)
               /\ ~Known(s, e) /\ e \in NextIDs => \A b : GoesTo(s, e, b)' <=> b = p[e]
               /\ Known(s, e)' <=> Known(s, e) \/ e \in NextIDs
    BY <1>1, <2>1, AppendedGoes
  <2>3. RoutedKnown'
    BY <1>3, <1>7, <2>2 DEF RoutedKnown
  <2>4. \A s, u \in Sender, e \in SeqID \ astray : Known(s, e) => Known(u, e)
    BY <1>3, KnownGoes DEF SameForAll
  <2>5. SameForAll'
    <3>1. ASSUME NEW s \in Sender, NEW u \in Sender, NEW e \in SeqID \ astray, NEW b \in Builder,
                 GoesTo(s, e, b)'
          PROVE  GoesTo(u, e, b)'
      <4>1. CASE Known(s, e) \/ e \notin NextIDs
        BY <1>3, <2>2, <2>4, <3>1, <4>1 DEF SameForAll
      <4>2. CASE ~Known(s, e) /\ e \in NextIDs
        BY <2>2, <2>4, <3>1, <4>2
      <4> QED BY <4>1, <4>2
    <3> QED BY <1>1, <3>1 DEF SameForAll
  <2>6. ASSUME NEW s \in Sender
        PROVE  /\ \A i \in DOMAIN channel'[s] : Contiguous(DOMAIN channel'[s][i])
               /\ \A i \in DOMAIN channel'[s] : \A e \in DOMAIN channel'[s][i], x \in SeqID :
                    x < e => Reached(s, x)' \/ \E j \in 1..i : x \in DOMAIN channel'[s][j]
    <3>1. Contiguous(DOMAIN p)
      <4>1. ASSUME NEW x \in NextIDs, NEW y \in NextIDs, NEW z \in x..y PROVE z \in NextIDs
        BY <1>2, RoutingConstants DEF NextIDs, SeqID
      <4> QED BY <2>1, <4>1 DEF Contiguous
    <3>2. \A e \in DOMAIN p, x \in SeqID : x < e => Known(s, x) \/ x \in DOMAIN p
      <4>1. \A e \in NextIDs, x \in SeqID : x < e => x < nextSeq \/ x \in NextIDs
        BY <1>2 DEF NextIDs, SeqID
      <4> QED BY <1>3, <2>1, <4>1 DEF RoutedKnown
    <3> QED BY <1>1, <2>1, <3>1, <3>2, AppendedInOrder
  <2>7. PacketsContiguous' /\ ComesInOrder'
    BY <2>6 DEF PacketsContiguous, ComesInOrder
  <2> QED BY <1>4, <1>6, <2>3, <2>5, <2>7 DEF PushedInv
<1> QED BY <1>1, <1>8, <1>9 DEF Sent

LEMMA ReceivePushed ==
  ASSUME RoutingTypeOK, PushedInv, NEW s \in Sender, ReceiveTable(s)
  PROVE  PushedInv'
<1> SUFFICES ASSUME mode' = "EventBuilding" PROVE PushedInv'
  BY DEF PushedInv
<1>1. /\ channel[s] # << >> /\ channel'[s] = Tail(channel[s])
      /\ \A u \in Sender \ {s} : channel'[u] = channel[u] /\ table'[u] = table[u]
      /\ UNCHANGED <<mode, nextSeq, asked, dest, astray>>
  BY ReceiveGives DEF policyVars, historyVars
<1>2. AskedInOrder /\ ReachedInOrder /\ ComesInOrder /\ PacketsContiguous /\ RoutedKnown /\ SameForAll
  BY <1>1 DEF PushedInv
<1>3. PICK n \in Nat \ {0} :
        /\ DOMAIN channel[s] = 1..n /\ DOMAIN channel'[s] = 1..n - 1
        /\ \A i \in 1..n - 1 : channel'[s][i] = channel[s][i + 1]
  BY <1>1, ChannelTaken
<1>4. ASSUME NEW x \in SeqID
      PROVE  /\ Reached(s, x)' <=> Reached(s, x) \/ x \in DOMAIN channel[s][1]
             /\ Known(s, x)' <=> Known(s, x)
             /\ \A b : GoesTo(s, x, b)' <=> GoesTo(s, x, b)
  BY <1>1, TakenGoes
<1>5. ASSUME NEW u \in Sender \ {s}, NEW x \in SeqID
      PROVE  /\ \A b : GoesTo(u, x, b)' <=> GoesTo(u, x, b)
             /\ Known(u, x)' <=> Known(u, x)
             /\ Reached(u, x)' <=> Reached(u, x)
  BY <1>1, SameGoes
<1>6. AskedInOrder'
  BY <1>1, <1>2 DEF AskedInOrder
<1>7. RoutedKnown' /\ SameForAll'
  <2>1. \A u \in Sender, x \in SeqID :
          (Known(u, x)' <=> Known(u, x)) /\ \A b : GoesTo(u, x, b)' <=> GoesTo(u, x, b)
    BY <1>4, <1>5
  <2> QED BY <1>1, <1>2, <2>1 DEF RoutedKnown, SameForAll
<1>8. PacketsContiguous'
  <2>1. \A i \in 1..n - 1 : i + 1 \in 1..n
    OBVIOUS
  <2> QED BY <1>1, <1>2, <1>3, <2>1 DEF PacketsContiguous
<1>9. \A e \in DOMAIN channel[s][1], x \in SeqID : x < e => Reached(s, x) \/ x \in DOMAIN channel[s][1]
  <2>1. 1 \in DOMAIN channel[s] /\ 1..1 = {1}
    BY <1>3
  <2> QED BY <1>2, <2>1 DEF ComesInOrder
<1>10. ReachedInOrder'
  <2>1. ASSUME NEW u \in Sender, NEW e \in SeqID, NEW x \in SeqID, x < e, Reached(u, e)'
        PROVE  Reached(u, x)'
    <3>1. CASE u = s
      BY <1>2, <1>4, <1>9, <2>1, <3>1 DEF ReachedInOrder
    <3>2. CASE u # s
      BY <1>2, <1>5, <2>1, <3>2 DEF ReachedInOrder
    <3> QED BY <3>1, <3>2
  <2> QED BY <2>1 DEF ReachedInOrder
<1>11. ComesInOrder'
  <2>1. ASSUME NEW i \in 1..n - 1, NEW e \in DOMAIN channel'[s][i], NEW x \in SeqID, x < e
        PROVE  Reached(s, x)' \/ \E j \in 1..i : x \in DOMAIN channel'[s][j]
    <3>1. i + 1 \in 1..n /\ e \in DOMAIN channel[s][i + 1]
      BY <1>3, <2>1
    <3>2. Reached(s, x) \/ \E j \in 1..i + 1 : x \in DOMAIN channel[s][j]
      BY <1>2, <1>3, <2>1, <3>1 DEF ComesInOrder
    <3>3. ASSUME NEW j \in 1..i + 1, x \in DOMAIN channel[s][j], j # 1
          PROVE  \E k \in 1..i : x \in DOMAIN channel'[s][k]
      <4>1. j - 1 \in 1..i /\ j - 1 \in 1..n - 1 /\ (j - 1) + 1 = j
        BY <3>3
      <4> QED BY <1>3, <3>3, <4>1
    <3> QED BY <1>4, <3>2, <3>3
  <2>2. ASSUME NEW u \in Sender \ {s}, NEW i \in DOMAIN channel'[u], NEW e \in DOMAIN channel'[u][i],
               NEW x \in SeqID, x < e
        PROVE  Reached(u, x)' \/ \E j \in 1..i : x \in DOMAIN channel'[u][j]
    BY <1>1, <1>2, <1>5, <2>2 DEF ComesInOrder
  <2> QED BY <1>3, <2>1, <2>2 DEF ComesInOrder
<1> QED BY <1>6, <1>7, <1>8, <1>10, <1>11 DEF PushedInv
-------------------------------------------------------------------------------
(* With requests *)

RequestedHolds(e) == Agreed(e) /\ ((\E s \in Sender : dest[s][e] = NoBuilder) => FromCache(e))

\* Where no Fragment is sent, it is enough that every new route of e is the one in the cache.
LEMMA RequestedStep ==
  ASSUME NEW e \in SeqID, RequestedHolds(e), dest' = dest,
         FromCache(e) /\ (\E s \in Sender : dest[s][e] = NoBuilder) => FromCache(e)'
  PROVE  RequestedHolds(e)'
<1>1. Agreed(e)'
  BY DEF RequestedHolds, Agreed, Routed
<1> QED BY <1>1 DEF RequestedHolds

LEMMA HandleRequested ==
  ASSUME RoutingTypeOK, NEW s \in Sender, NEW x \in SeqID, HandleRequest(s, x),
         NEW e \in SeqID, RequestedHolds(e)
  PROVE  RequestedHolds(e)'
<1>1. /\ \A u \in Sender \ {s} : channel'[u] = channel[u]
      /\ \A y \in SeqID \ {x} : cache'[y] = cache[y]
      /\ UNCHANGED <<table, dest>>
  BY HandleGives
<1>2. CASE UNCHANGED <<channel, cache>>
  <2>1. FromCache(e) => FromCache(e)'
    BY <1>1, <1>2 DEF FromCache, InChannel
  <2> QED BY <1>1, <2>1, RequestedStep
<1>3. ASSUME NEW r \in Builder, Replied(s, x, r), cache[x] \in {r, NoBuilder}, FromCache(e)
      PROVE  FromCache(e)'
  <2> SUFFICES ASSUME NEW u \in Sender, NEW b \in Builder,
                      dest'[u][e] = b \/ table'[u][e] = b \/ InChannel(u, e, b)'
               PROVE  cache'[e] = b
    BY DEF FromCache
  <2>1. cache[e] = b => cache'[e] = b
    BY <1>1, <1>3, RoutingConstants DEF Replied
  <2>2. CASE dest'[u][e] = b \/ table'[u][e] = b
    BY <1>1, <1>3, <2>1, <2>2 DEF FromCache
  <2>3. CASE InChannel(u, e, b)' /\ u # s
    <3>1. InChannel(u, e, b)
      BY <1>1, <2>3, InChannelSame
    <3> QED BY <1>3, <2>1, <3>1 DEF FromCache
  <2>4. CASE InChannel(s, e, b)' /\ u = s
    <3>1. PICK p \in Packet : p = [y \in {x} |-> r] /\ channel'[s] = Append(channel[s], p)
      BY <1>3 DEF Replied
    <3>2. InChannel(s, e, b) \/ (e \in DOMAIN p /\ p[e] = b)
      BY <2>4, <3>1, InChannelAppended
    <3>3. e \in DOMAIN p /\ p[e] = b => e = x /\ b = r
      BY <3>1
    <3> QED BY <1>3, <2>1, <3>2, <3>3 DEF FromCache, Replied
  <2> QED BY <2>2, <2>3, <2>4
<1>4. ASSUME NEW r \in Builder, Replied(s, x, r), cache[x] \in {r, NoBuilder}
      PROVE  RequestedHolds(e)'
  BY <1>1, <1>3, <1>4, RequestedStep
<1>5. cache[x] # NoBuilder => cache[x] \in Builder
  BY DEF RoutingTypeOK, PolicyTypeOK, Route
<1> QED BY <1>2, <1>4, <1>5, HandleGives, TokenFacts

LEMMA CachedRequested ==
  ASSUME RoutingTypeOK, TableFromCache, NEW e \in SeqID \ astray', RequestedHolds(e)
  PROVE  RequestedHolds(e)'
<1>1. /\ Sent(NewRoutes) /\ DOMAIN NewRoutes \subseteq SeqID
      /\ \A x \in DOMAIN NewRoutes : NewRoutes[x] = cache[x]
      /\ cache' = [x \in SeqID |-> IF x \in Kept THEN cache[x] ELSE NoBuilder]
      /\ astray' = astray \cup {x \in Routed(cache) \ Kept : \E s \in Sender : dest[s][x] = NoBuilder}
      /\ UNCHANGED <<table, dest>>
  BY CachedGives
<1>2. ASSUME FromCache(e), NEW s \in Sender, dest[s][e] = NoBuilder PROVE FromCache(e)'
  <2>1. cache'[e] = cache[e]
    BY <1>1, <1>2 DEF Routed
  <2> SUFFICES ASSUME NEW u \in Sender, NEW b \in Builder,
                      dest'[u][e] = b \/ table'[u][e] = b \/ InChannel(u, e, b)'
               PROVE  cache[e] = b
    BY <2>1 DEF FromCache
  <2>2. InChannel(u, e, b)' => InChannel(u, e, b) \/ cache[e] = b
    BY <1>1, InChannelSent
  <2> QED BY <1>1, <1>2, <2>2 DEF FromCache
<1> QED BY <1>1, <1>2, RequestedStep

LEMMA ReceiveRequested ==
  ASSUME RoutingTypeOK, NEW s \in Sender, ReceiveTable(s), NEW e \in SeqID, RequestedHolds(e)
  PROVE  RequestedHolds(e)'
<1>1. /\ channel[s] # << >> /\ channel'[s] = Tail(channel[s])
      /\ \A u \in Sender \ {s} : channel'[u] = channel[u] /\ table'[u] = table[u]
      /\ cache' = cache /\ dest' = dest
  BY ReceiveGives DEF policyVars
<1>2. ASSUME FromCache(e) PROVE FromCache(e)'
  <2> SUFFICES ASSUME NEW u \in Sender, NEW b \in Builder,
                      dest'[u][e] = b \/ table'[u][e] = b \/ InChannel(u, e, b)'
               PROVE  dest[u][e] = b \/ table[u][e] = b \/ InChannel(u, e, b)
    BY <1>1, <1>2 DEF FromCache
  <2>1. InChannel(u, e, b)' => InChannel(u, e, b)
    BY <1>1, InChannelTaken, InChannelSame
  <2>2. table'[s][e] = b => table[s][e] = b \/ InChannel(s, e, b)
    BY LearntTable
  <2> QED BY <1>1, <2>1, <2>2
<1> QED BY <1>1, <1>2, RequestedStep

LEMMA SendRequested ==
  ASSUME RoutingTypeOK, NEW s \in Sender, NEW x \in SeqID, SendFragment(s, x),
         NEW e \in SeqID, RequestedHolds(e)
  PROVE  RequestedHolds(e)'
<1>1. /\ Sending(s, x) /\ table[s][x] # NoBuilder
      /\ dest'[s][x] = table[s][x] /\ table'[s][x] = NoBuilder
      /\ \A y \in SeqID \ {x} : dest'[s][y] = dest[s][y] /\ table'[s][y] = table[s][y]
      /\ \A u \in Sender \ {s} : dest'[u] = dest[u] /\ table'[u] = table[u]
      /\ cache' = cache /\ channel' = channel
      /\ dest' \in [Sender -> [SeqID -> Route]]
  BY SendGives DEF policyVars
<1>2. CASE e # x
  <2>1. \A u \in Sender : dest'[u][e] = dest[u][e] /\ table'[u][e] = table[u][e]
    BY <1>1, <1>2
  <2>2. Agreed(e)' <=> Agreed(e)
    BY <2>1 DEF Agreed, Routed
  <2>3. FromCache(e)' <=> FromCache(e)
    BY <1>1, <2>1 DEF FromCache, InChannel
  <2> QED BY <2>1, <2>2, <2>3 DEF RequestedHolds
<1>3. CASE e = x
  <2>1. FromCache(e)
    BY <1>1, <1>3 DEF RequestedHolds, Sending, Routed
  <2>2. \A u \in Sender, b \in Builder :
          dest'[u][e] = b \/ table'[u][e] = b => dest[u][e] = b \/ table[u][e] = b
    BY <1>1, <1>3, RoutingConstants
  <2>3. FromCache(e)'
    BY <1>1, <2>1, <2>2 DEF FromCache, InChannel
  <2>4. \A u \in Sender : dest'[u][e] # NoBuilder => dest'[u][e] = cache'[e]
    BY <1>1, <2>3 DEF FromCache, Route
  <2>5. Agreed(e)'
    BY <2>4 DEF Agreed, Routed
  <2> QED BY <2>3, <2>5 DEF RequestedHolds
<1> QED BY <1>2, <1>3
-------------------------------------------------------------------------------
LEMMA DestinationInit == Init => DestinationInv
<1> SUFFICES ASSUME Init PROVE DestinationInv
  OBVIOUS
<1>1. RoutingTypeOK /\ PushedInv
  BY RoutingTypeInit, PushedInit
<1>2. /\ channel = [s \in Sender |-> << >>] /\ table = [s \in Sender |-> NoRoutes]
      /\ dest = [s \in Sender |-> NoRoutes]
  BY DEF Init
<1>3. \A s \in Sender : DOMAIN channel[s] = {}
  BY <1>2, EmptySeq
<1>4. ASSUME NEW e \in SeqID PROVE Agreed(e) /\ FromCache(e)
  <2>1. \A s \in Sender : dest[s][e] = NoBuilder /\ table[s][e] = NoBuilder
    BY <1>2 DEF NoRoutes
  <2> QED BY <1>3, <2>1, RoutingConstants DEF Agreed, FromCache, Routed, InChannel
<1> QED BY <1>1, <1>4 DEF DestinationInv, RequestedInv

LEMMA PushedNext ==
  ASSUME DestinationInv, [Next]_vars
  PROVE  PushedInv'
<1>a. RoutingTypeOK /\ PushedInv
  BY DEF DestinationInv
<1>1. ASSUME NEW b \in Builder, AddReceiverToken(b) PROVE PushedInv'
  BY <1>a, <1>1, PushedSame DEF AddReceiverToken, senderVars
<1>2. ASSUME NEW s \in Sender, NEW e \in SeqID, HandleRequest(s, e) PROVE PushedInv'
  BY <1>a, <1>2, HandlePushed
<1>3. CASE PushTable
  BY <1>a, <1>3, TablePushed
<1>4. CASE TableFromCache
  BY <1>4, CachedGives, <1>a DEF PushedInv
<1>5. CASE Pause \/ Resume \/ UNCHANGED vars
  BY <1>a, <1>5, PushedSame DEF Pause, Resume, ResetPolicy, vars, policyVars, senderVars, historyVars
<1>6. CASE NextRun
  BY <1>6, PushedNew
<1>7. ASSUME NEW s \in Sender, SenderStep(s) PROVE PushedInv'
  BY <1>a, <1>7, ReceivePushed, AskPushed, SendPushed DEF SenderStep
<1> QED BY <1>1, <1>2, <1>3, <1>4, <1>5, <1>6, <1>7 DEF Next, GetCurrentTable

LEMMA RequestedNext ==
  ASSUME DestinationInv, [Next]_vars
  PROVE  RequestedInv'
<1>a. RoutingTypeOK
  BY DEF DestinationInv
<1>b. SUFFICES ASSUME mode' = "RequestBasedEventBuilding", run' = 1, NEW e \in SeqID \ astray'
               PROVE  RequestedHolds(e)'
  BY DEF RequestedInv, RequestedHolds
<1>c. ASSUME mode = mode', run = run', astray \subseteq astray' PROVE RequestedHolds(e)
  BY <1>b, <1>c DEF DestinationInv, RequestedInv, RequestedHolds
<1>d. ASSUME UNCHANGED <<mode, run, astray, dest, table, channel, cache>> PROVE RequestedHolds(e)'
  <2>1. FromCache(e) => FromCache(e)'
    BY <1>d DEF FromCache, InChannel
  <2> QED BY <1>c, <1>d, <2>1, RequestedStep
<1>1. ASSUME NEW b \in Builder, AddReceiverToken(b) PROVE RequestedHolds(e)'
  BY <1>d, <1>1 DEF AddReceiverToken, senderVars
<1>2. ASSUME NEW s \in Sender, NEW x \in SeqID, HandleRequest(s, x) PROVE RequestedHolds(e)'
  <2>1. RequestedHolds(e)
    BY <1>a, <1>c, <1>2, HandleGives
  <2> QED BY <1>a, <1>2, <2>1, HandleRequested
<1>3. CASE PushTable
  BY <1>a, <1>b, <1>3, PushGives
<1>4. CASE TableFromCache
  <2>1. RequestedHolds(e)
    BY <1>a, <1>c, <1>4, CachedGives
  <2> QED BY <1>a, <1>b, <1>4, <2>1, CachedRequested
<1>5. CASE Pause \/ Resume \/ UNCHANGED vars
  BY <1>d, <1>5 DEF Pause, Resume, ResetPolicy, vars, policyVars, senderVars, historyVars
<1>6. CASE NextRun
  BY <1>a, <1>b, <1>6 DEF NextRun, RoutingTypeOK
<1>7. ASSUME NEW s \in Sender, ReceiveTable(s) PROVE RequestedHolds(e)'
  <2>1. RequestedHolds(e)
    BY <1>a, <1>c, <1>7, ReceiveGives DEF historyVars
  <2> QED BY <1>a, <1>7, <2>1, ReceiveRequested
<1>8. ASSUME NEW s \in Sender, NEW x \in SeqID, Ask(s, x) PROVE RequestedHolds(e)'
  BY <1>d, <1>8 DEF Ask, policyVars, historyVars
<1>9. ASSUME NEW s \in Sender, NEW x \in SeqID, SendFragment(s, x) PROVE RequestedHolds(e)'
  <2>1. RequestedHolds(e)
    BY <1>a, <1>c, <1>9, SendGives DEF historyVars
  <2> QED BY <1>a, <1>9, <2>1, SendRequested
<1> QED
  BY <1>1, <1>2, <1>3, <1>4, <1>5, <1>6, <1>7, <1>8, <1>9 DEF Next, GetCurrentTable, SenderStep

\* All Fragments of an event go to one event builder, but for the events that a request got
\* a route for before their table, and those the cache forgot too early.
THEOREM AlwaysOneDestination == Spec => []OneDestination
<1>1. DestinationInv => OneDestination
  <2> SUFFICES ASSUME DestinationInv, run = 1 \/ mode = "EventBuilding", NEW e \in SeqID \ astray
               PROVE  Agreed(e)
    BY DEF OneDestination
  <2>1. CASE mode = "EventBuilding"
    <3> SUFFICES ASSUME NEW s \in Sender, NEW u \in Sender,
                        {e} \subseteq Routed(dest[s]) \cap Routed(dest[u])
                 PROVE  dest[s][e] = dest[u][e]
      BY DEF Agreed
    <3>1. dest[s][e] # NoBuilder /\ dest[u][e] # NoBuilder /\ dest[s][e] \in Builder
      BY DEF Routed, DestinationInv, RoutingTypeOK, SenderTypeOK, Route
    <3>2. GoesTo(s, e, dest[s][e])
      BY <3>1 DEF GoesTo
    <3>3. GoesTo(u, e, dest[s][e])
      BY <2>1, <3>1, <3>2 DEF DestinationInv, PushedInv, SameForAll
    <3> QED BY <3>1, <3>3 DEF GoesTo
  <2>2. CASE mode # "EventBuilding"
    BY <2>2, RoutingConstants DEF DestinationInv, RequestedInv, RoutingTypeOK
  <2> QED BY <2>1, <2>2
<1>2. DestinationInv /\ [Next]_vars => DestinationInv'
  BY RoutingTypeNext, PushedNext, RequestedNext DEF DestinationInv
<1> QED BY DestinationInit, <1>1, <1>2, PTL DEF Spec
-------------------------------------------------------------------------------
(* The policies: every token becomes one route. *)

SpendingTypeOK ==
  /\ held \in [Receivers -> 0..ReceiverTokens] /\ sentTokens \in [Receivers -> Nat]
  /\ ranks \subseteq Receivers /\ round \subseteq Receivers /\ leftover \subseteq Receivers
  /\ minimumP \in Int /\ nextRoute \in Nat \ {0} /\ usedTokens \in Nat
  /\ IsFiniteSet(routed)
  /\ routed \subseteq [seq : Nat, src : Requesters \cup {my_rank}, dest : Receivers]

\* A route of a table is for an event before the next, and one that was asked for is in the
\* cache: neither is made a second time.
RoutesOnce == \A r \in routed : IF r.src = my_rank THEN r.seq < nextRoute ELSE r \in rcache

SpendingInv == SpendingTypeOK /\ RoutesOnce /\ TokensAccounted

\* The routes to a receiver.
RoutesTo(b) == {r \in routed : r.dest = b}

LEMMA BoundTokens == ReceiverTokens \in Nat /\ \A n : n \in 0..ReceiverTokens => n \in Nat /\ n <= ReceiverTokens
BY PolicyConstants

LEMMA LowestFacts ==
  ASSUME NEW S \in SUBSET Receivers, S # {}
  PROVE  Lowest(S) \in S /\ \A c \in S : Lowest(S) <= c
<1>1. S \in SUBSET Nat
  BY PolicyConstants
<1>2. \E b \in S : \A c \in S : b <= c
  BY <1>1, LeastNatural
<1> QED BY <1>2 DEF Lowest

LEMMA MostTokensFacts ==
  ASSUME SpendingTypeOK, NEW S \in SUBSET Receivers, S # {}
  PROVE  MostTokens(S) \in S
<1> DEFINE counts == {held[b] : b \in S}
           most == {b \in S : \A c \in S : held[c] <= held[b]}
<1>1. counts \in SUBSET Nat /\ counts # {} /\ \A n \in counts : n <= ReceiverTokens
  <2>1. \A b \in S : held[b] \in Nat /\ held[b] <= ReceiverTokens
    BY PolicyConstants DEF SpendingTypeOK
  <2> QED BY <2>1
<1>2. ReceiverTokens \in Nat
  BY PolicyConstants
<1>3. PICK n \in counts : \A m \in counts : m <= n
  BY <1>1, <1>2, GreatestNatural
<1>4. PICK b \in S : held[b] = n
  OBVIOUS
<1>5. most # {} /\ most \in SUBSET Receivers /\ most \subseteq S
  BY <1>3, <1>4
<1>6. Lowest(most) \in most
  BY <1>5, LowestFacts
<1> QED BY <1>5, <1>6 DEF MostTokens

LEMMA TokensFacts ==
  ASSUME SpendingTypeOK
  PROVE  /\ IsFiniteSet(Tokens)
         /\ \A t \in Tokens : /\ t = <<t[1], t[2]>> /\ t[1] \in Receivers /\ t[1] \in Nat
                              /\ t[2] \in Nat /\ t[2] \in 1..held[t[1]]
<1>1. ReceiverTokens \in Nat /\ IsFiniteSet(Receivers) /\ Receivers \subseteq Nat
  BY PolicyConstants
<1>2. IsFiniteSet(1..ReceiverTokens)
  BY <1>1, FS_Interval
<1>3. IsFiniteSet(Receivers \X (1..ReceiverTokens))
  BY <1>1, <1>2, FS_Product
<1>4. Tokens \in SUBSET (Receivers \X (1..ReceiverTokens))
  BY DEF Tokens
<1>5. IsFiniteSet(Tokens)
  BY <1>3, <1>4, FS_Subset
<1>6. ASSUME NEW t \in Tokens
      PROVE  /\ t = <<t[1], t[2]>> /\ t[1] \in Receivers /\ t[1] \in Nat
             /\ t[2] \in Nat /\ t[2] \in 1..held[t[1]]
  <2>1. t \in Receivers \X (1..ReceiverTokens) /\ t[2] <= held[t[1]]
    BY DEF Tokens
  <2>2. t = <<t[1], t[2]>> /\ t[1] \in Receivers /\ t[2] \in 1..ReceiverTokens
    BY <2>1
  <2>3. t[2] \in Nat /\ 1 <= t[2]
    BY <1>1, <2>2
  <2>4. held[t[1]] \in Nat
    BY <1>1, <2>2 DEF SpendingTypeOK
  <2>5. t[2] \in 1..held[t[1]]
    BY <2>1, <2>3, <2>4
  <2>6. t[1] \in Nat
    BY <1>1, <2>2
  <2> QED BY <2>2, <2>3, <2>5, <2>6
<1> QED BY <1>5, <1>6

\* By turns or by ranks, the tokens are ordered.
LEMMA TokensOrdered ==
  ASSUME SpendingTypeOK, NEW T \in SUBSET Tokens
  PROVE  StrictlyOrders(ByTurn, T) /\ StrictlyOrders(ByRank, T)
<1>1. \A t \in T : t \in Tokens /\ t = <<t[1], t[2]>> /\ t[1] \in Nat /\ t[2] \in Nat
  BY TokensFacts
<1>2. \A x, y \in T : x # y => x[1] # y[1] \/ x[2] # y[2]
  BY <1>1
<1>3. \A x, y \in T : <<x, y>> \in ByTurn <=> x[2] < y[2] \/ (x[2] = y[2] /\ x[1] < y[1])
  BY <1>1 DEF ByTurn
<1>4. \A x, y \in T : <<x, y>> \in ByRank <=> x[1] < y[1] \/ (x[1] = y[1] /\ x[2] < y[2])
  BY <1>1 DEF ByRank
<1>5. StrictlyOrders(ByTurn, T)
  <2>1. \A x \in T : <<x, x>> \notin ByTurn
    BY <1>1, <1>3
  <2>2. \A x, y \in T : x # y => <<x, y>> \in ByTurn \/ <<y, x>> \in ByTurn
    BY <1>1, <1>2, <1>3
  <2>3. \A x, y, z \in T : <<x, y>> \in ByTurn /\ <<y, z>> \in ByTurn => <<x, z>> \in ByTurn
    BY <1>1, <1>3
  <2> QED BY <2>1, <2>2, <2>3 DEF StrictlyOrders
<1>6. StrictlyOrders(ByRank, T)
  <2>1. \A x \in T : <<x, x>> \notin ByRank
    BY <1>1, <1>4
  <2>2. \A x, y \in T : x # y => <<x, y>> \in ByRank \/ <<y, x>> \in ByRank
    BY <1>1, <1>2, <1>4
  <2>3. \A x, y, z \in T : <<x, y>> \in ByRank /\ <<y, z>> \in ByRank => <<x, z>> \in ByRank
    BY <1>1, <1>4
  <2> QED BY <2>1, <2>2, <2>3 DEF StrictlyOrders
<1> QED BY <1>5, <1>6

\* A table has no token twice.
LEMMA TableFacts ==
  ASSUME SpendingTypeOK
  PROVE  /\ RoutingTable \in Seq(Tokens) /\ Len(RoutingTable) \in Nat
         /\ DOMAIN RoutingTable = 1..Len(RoutingTable)
         /\ \A i, j \in DOMAIN RoutingTable : i # j => RoutingTable[i] # RoutingTable[j]
<1> DEFINE Good(out) == /\ out \in Seq(Tokens) /\ Len(out) \in Nat /\ DOMAIN out = 1..Len(out)
                        /\ \A i, j \in DOMAIN out : i # j => out[i] # out[j]
<1>1. ASSUME NEW T \in SUBSET Tokens, NEW R, R \in {ByTurn, ByRank}
      PROVE  Good(Ascending(T, R)) /\ Len(Ascending(T, R)) = Cardinality(T)
  <2>1. IsFiniteSet(T)
    BY TokensFacts, FS_Subset
  <2>2. StrictlyOrders(R, T)
    BY <1>1, TokensOrdered
  <2> DEFINE a == Ascending(T, R)
             n == Cardinality(T)
  <2>3. /\ a \in Seq(T) /\ Len(a) = n /\ n \in Nat /\ DOMAIN a = 1..n
        /\ \A i \in 1..n : a[i] \in T
        /\ \A i, j \in 1..n : i < j => <<a[i], a[j]>> \in R
    BY <2>1, <2>2, AscendingFacts
  <2> HIDE DEF a, n
  <2>4. \A i, j \in 1..n : i # j => a[i] # a[j]
    <3> SUFFICES ASSUME NEW i \in 1..n, NEW j \in 1..n, i < j PROVE a[i] # a[j]
      BY <2>3
    <3> QED BY <2>2, <2>3 DEF StrictlyOrders
  <2>5. a \in Seq(Tokens)
    BY <2>3
  <2> QED BY <2>3, <2>4, <2>5 DEF a, n
<1>2. Good(<< >>)
  OBVIOUS
<1>3. ASSUME TokenCount # 0 PROVE Good(CapacityTable)
  <2> DEFINE a == Ascending(Tokens, ByRank)
             wanted == ((TokenCount * Percent + 99) \div 100) - usedTokens
             taken  == IF wanted < 1 THEN 1 ELSE IF wanted > TokenCount THEN TokenCount ELSE wanted
  <2>1. Good(a) /\ Len(a) = TokenCount
    BY <1>1 DEF TokenCount
  <2>2. TokenCount \in Nat \ {0}
    BY <1>3, <2>1
  <2>3. wanted \in Int
    <3>1. TokenCount * Percent \in Nat
      BY <2>2, PolicyConstants
    <3>2. (TokenCount * Percent + 99) \div 100 \in Int
      BY <3>1
    <3> QED BY <3>2 DEF SpendingTypeOK
  <2> HIDE DEF wanted, a
  <2>4. taken \in 1..Len(a)
    BY <2>1, <2>2, <2>3
  <2> HIDE DEF taken
  <2> DEFINE out == SubSeq(a, 1, taken)
  <2>5. /\ out \in Seq(Tokens) /\ Len(out) = taken /\ DOMAIN out = 1..taken
        /\ \A i \in 1..taken : out[i] = a[i]
    BY <2>1, <2>4
  <2>6. Good(out)
    BY <2>1, <2>4, <2>5
  <2> QED BY <2>6 DEF CapacityTable, a, taken, wanted
<1>4. Good(TurnsTable)
  BY <1>1 DEF TurnsTable
<1> HIDE DEF Good
<1>5. Good(RoutingTable)
  BY <1>2, <1>3, <1>4 DEF RoutingTable
<1> QED BY <1>5 DEF Good

\* A table takes no more of a receiver than there is.
LEMMA TableUses ==
  ASSUME SpendingTypeOK, NEW b \in Receivers
  PROVE  LET used == {i \in DOMAIN RoutingTable : RoutingTable[i][1] = b}
         IN  IsFiniteSet(used) /\ Cardinality(used) \in 0..held[b]
<1> DEFINE used == {i \in DOMAIN RoutingTable : RoutingTable[i][1] = b}
           turn == [i \in used |-> RoutingTable[i][2]]
<1>1. \A i \in used : /\ RoutingTable[i] = <<b, turn[i]>> /\ turn[i] \in 1..held[b]
  <2> TAKE i \in used
  <2>1. RoutingTable[i] \in Tokens /\ RoutingTable[i][1] = b
    BY TableFacts
  <2> QED BY <2>1, TokensFacts
<1>2. turn \in [used -> 1..held[b]]
  BY <1>1
<1>3. \A i, j \in used : turn[i] = turn[j] => i = j
  <2> SUFFICES ASSUME NEW i \in used, NEW j \in used, i # j PROVE turn[i] # turn[j]
    OBVIOUS
  <2> HIDE DEF turn
  <2>1. RoutingTable[i] # RoutingTable[j]
    BY TableFacts
  <2> QED BY <1>1, <2>1
<1>4. held[b] \in Nat /\ IsFiniteSet(1..held[b]) /\ Cardinality(1..held[b]) = held[b]
  <2>1. held[b] \in Nat
    BY PolicyConstants DEF SpendingTypeOK
  <2> QED BY <2>1, FS_Interval
<1> HIDE DEF turn, used
<1>5. turn \in Injection(used, 1..held[b])
  <2>1. turn \in {f \in [used -> 1..held[b]] : \A x, y \in used : f[x] = f[y] => x = y}
    BY <1>2, <1>3
  <2> QED BY <2>1 DEF Injection, IsInjective
<1>6. IsFiniteSet(used) /\ Cardinality(used) <= held[b]
  BY <1>4, <1>5, FS_Injection
<1>7. Cardinality(used) \in Nat
  BY <1>6, FS_CardinalityType
<1> QED BY <1>4, <1>6, <1>7 DEF used

\* A new route makes one more of those to its receiver.
LEMMA OneMoreRoute ==
  ASSUME SpendingTypeOK, NEW r, r \notin routed, r.dest \in Receivers, routed' = routed \cup {r}, NEW b \in Receivers
  PROVE  /\ IsFiniteSet(routed')
         /\ Cardinality(RoutesTo(b)) \in Nat
         /\ Cardinality(RoutesTo(b)') = Cardinality(RoutesTo(b)) + (IF r.dest = b THEN 1 ELSE 0)
<1>1. IsFiniteSet(routed')
  BY FS_AddElement DEF SpendingTypeOK
<1>2. IsFiniteSet(RoutesTo(b)) /\ Cardinality(RoutesTo(b)) \in Nat
  <2>1. RoutesTo(b) \in SUBSET routed
    BY DEF RoutesTo
  <2> QED BY <2>1, FS_Subset, FS_CardinalityType DEF SpendingTypeOK
<1>3. CASE r.dest = b
  <2>1. RoutesTo(b)' = RoutesTo(b) \cup {r} /\ r \notin RoutesTo(b)
    BY <1>3 DEF RoutesTo
  <2> QED BY <1>1, <1>2, <1>3, <2>1, FS_AddElement
<1>4. CASE r.dest # b
  <2>1. RoutesTo(b)' = RoutesTo(b)
    BY <1>4 DEF RoutesTo
  <2> QED BY <1>1, <1>2, <1>4, <2>1
<1> QED BY <1>3, <1>4

LEMMA InRound ==
  ASSUME NEW S, NEW b
  PROVE  Cardinality(S \cap {b}) = IF b \in S THEN 1 ELSE 0
<1>1. CASE b \in S
  <2>1. S \cap {b} = {b}
    BY <1>1
  <2> QED BY <1>1, <2>1, FS_Singleton
<1>2. CASE b \notin S
  <2>1. S \cap {b} = {}
    BY <1>2
  <2> QED BY <1>2, <2>1, FS_EmptySet
<1> QED BY <1>1, <1>2

LEMMA SpendingInit == PolicyInit => SpendingInv
<1> SUFFICES ASSUME PolicyInit PROVE SpendingInv
  OBVIOUS
<1>1. SpendingTypeOK
  BY FS_EmptySet, PolicyConstants DEF PolicyInit, NoTokens, SpendingTypeOK
<1>2. RoutesOnce
  BY DEF PolicyInit, RoutesOnce
<1>3. TokensAccounted
  <2> SUFFICES ASSUME NEW b \in Receivers
               PROVE  /\ held[b] >= 0
                      /\ sentTokens[b] = held[b] + Cardinality(RoutesTo(b)) + Cardinality(round \cap {b})
    BY DEF TokensAccounted, RoutesTo
  <2>1. RoutesTo(b) = {} /\ round \cap {b} = {}
    BY DEF PolicyInit, RoutesTo
  <2>2. Cardinality(RoutesTo(b)) = 0 /\ Cardinality(round \cap {b}) = 0
    BY <2>1, FS_EmptySet
  <2>3. held[b] = 0 /\ sentTokens[b] = 0
    BY DEF PolicyInit, NoTokens
  <2> QED BY <2>2, <2>3
<1> QED BY <1>1, <1>2, <1>3 DEF SpendingInv

LEMMA AddTokensSpends ==
  ASSUME SpendingInv, NEW b \in Receivers, NEW n \in 1..2, AddTokens(b, n)
  PROVE  SpendingInv'
<1> USE DEF SpendingInv
<1>1. SpendingTypeOK'
  <2>1. held[b] + n \in 0..ReceiverTokens /\ sentTokens[b] + n \in Nat
    BY PolicyConstants DEF SpendingTypeOK, AddTokens
  <2>2. held' \in [Receivers -> 0..ReceiverTokens] /\ sentTokens' \in [Receivers -> Nat]
    BY <2>1 DEF SpendingTypeOK, AddTokens
  <2>3. ranks' \subseteq Receivers /\ UNCHANGED <<minimumP, round, leftover, nextRoute, usedTokens, routed>>
    BY DEF SpendingTypeOK, AddTokens
  <2> QED BY <2>2, <2>3 DEF SpendingTypeOK
<1>2. RoutesOnce'
  BY DEF RoutesOnce, AddTokens
<1>3. TokensAccounted'
  <2> SUFFICES ASSUME NEW c \in Receivers
               PROVE  /\ held'[c] >= 0
                      /\ leftover' = {} => sentTokens'[c] = held'[c] + Cardinality({r \in routed' : r.dest = c})
                                                       + Cardinality(round' \cap {c})
    BY DEF TokensAccounted
  <2>1. held[c] \in Nat /\ sentTokens[c] \in Nat
    BY BoundTokens DEF SpendingTypeOK
  <2>2. Cardinality({r \in routed : r.dest = c}) \in Nat
    <3>1. {r \in routed : r.dest = c} \in SUBSET routed
      OBVIOUS
    <3> QED BY <3>1, FS_Subset, FS_CardinalityType DEF SpendingTypeOK
  <2>3. Cardinality(round \cap {c}) \in Nat
    BY InRound
  <2>4. leftover = {} => sentTokens[c] = held[c] + Cardinality({r \in routed : r.dest = c}) + Cardinality(round \cap {c})
    BY DEF TokensAccounted
  <2>5. UNCHANGED <<leftover, routed, round>>
    BY DEF AddTokens
  <2>6. /\ held'[c] = held[c] + (IF c = b THEN n ELSE 0)
        /\ sentTokens'[c] = sentTokens[c] + (IF c = b THEN n ELSE 0)
    BY <2>1 DEF AddTokens, SpendingTypeOK
  <2> QED BY <2>1, <2>2, <2>3, <2>4, <2>5, <2>6
<1> QED BY <1>1, <1>2, <1>3

\* A route for receiver b takes its token or its turn.
LEMMA CreateRouteSpends ==
  ASSUME SpendingTypeOK, NEW s, NEW b \in Receivers, CreateRoute(s, b)
  PROVE  /\ held' \in [Receivers -> 0..ReceiverTokens] /\ round' \subseteq Receivers /\ usedTokens' \in Nat
         /\ \A c \in Receivers :
              held'[c] + Cardinality(round' \cap {c}) + (IF c = b THEN 1 ELSE 0)
                = held[c] + Cardinality(round \cap {c})
<1> DEFINE Left == {c \in Receivers : held[c] >= 1}
<1>1. InTurn(1) = Left
  BY DEF InTurn
<1>2. \A c \in Receivers : held[c] \in Int /\ held[c] \in 0..ReceiverTokens /\ ReceiverTokens \in Nat
  BY BoundTokens DEF SpendingTypeOK
<1>3. \A c \in Receivers : Cardinality(round \cap {c}) = IF c \in round THEN 1 ELSE 0
  BY InRound
<1>4. \A c \in Receivers : Cardinality(round' \cap {c}) = IF c \in round' THEN 1 ELSE 0
  BY InRound
<1>5. ASSUME NEW B \in SUBSET Left, Spend(B)
      PROVE  /\ held' \in [Receivers -> 0..ReceiverTokens]
             /\ \A c \in Receivers : held'[c] = IF c \in B THEN held[c] - 1 ELSE held[c]
  BY <1>2, <1>5 DEF Spend
<1> HIDE DEF Left
<1>6. CASE policy = "RoundRobin" /\ round # {} /\ b = Lowest(round)
           /\ round' = round \ {b} /\ UNCHANGED <<held, usedTokens>>
  <2>1. b \in round
    BY <1>6, LowestFacts DEF SpendingTypeOK
  <2>2. \A c \in Receivers : c \in round' <=> c \in round /\ c # b
    BY <1>6
  <2> QED BY <1>2, <1>3, <1>4, <1>6, <2>1, <2>2 DEF SpendingTypeOK
<1>7. CASE policy = "RoundRobin" /\ round = {} /\ BeginRound(b) /\ UNCHANGED usedTokens
  <2>1. Left # {}
    <3> SUFFICES ASSUME Left = {} PROVE FALSE
      OBVIOUS
    <3>1. Cardinality(ranks) \in Nat
      BY PolicyConstants, FS_Subset, FS_CardinalityType DEF SpendingTypeOK
    <3>2. minimumP \in Int
      BY DEF SpendingTypeOK
    <3>3. Minimum >= 1 /\ Minimum \in Int
      BY <3>1, <3>2 DEF Minimum
    <3>4. Cardinality(Left) = 0
      BY FS_EmptySet
    <3> QED BY <1>1, <1>7, <3>3, <3>4 DEF BeginRound
  <2>2. b \in Left
    BY <1>1, <1>7, <2>1, LowestFacts DEF BeginRound, Left
  <2>3. Spend(Left) /\ round' = Left \ {b}
    BY <1>1, <1>7 DEF BeginRound
  <2>4. \A c \in Receivers : held'[c] = IF c \in Left THEN held[c] - 1 ELSE held[c]
    BY <1>5, <2>3
  <2>5. \A c \in Receivers : c \in round' <=> c \in Left /\ c # b
    BY <2>3
  <2>6. held' \in [Receivers -> 0..ReceiverTokens] /\ round' \subseteq Receivers /\ usedTokens' \in Nat
    BY <1>5, <1>7, <2>3 DEF Left, SpendingTypeOK
  <2> QED BY <1>2, <1>3, <1>4, <1>7, <2>2, <2>4, <2>5, <2>6
<1>8. ASSUME b \in Left, Spend({b}), UNCHANGED round, usedTokens' \in Nat
      PROVE  /\ held' \in [Receivers -> 0..ReceiverTokens] /\ round' \subseteq Receivers /\ usedTokens' \in Nat
             /\ \A c \in Receivers :
                  held'[c] + Cardinality(round' \cap {c}) + (IF c = b THEN 1 ELSE 0)
                    = held[c] + Cardinality(round \cap {c})
  <2>1. \A c \in Receivers : held'[c] = IF c = b THEN held[c] - 1 ELSE held[c]
    BY <1>5, <1>8
  <2>2. held' \in [Receivers -> 0..ReceiverTokens] /\ round' \subseteq Receivers
    BY <1>5, <1>8 DEF SpendingTypeOK
  <2> QED BY <1>2, <1>3, <1>8, <2>1, <2>2
<1>9. CASE policy = "PreferSameHost" /\ InTurn(1) # {} /\ b = SameHost(s)
           /\ Spend({b}) /\ UNCHANGED <<round, usedTokens>>
  <2> DEFINE near == {c \in InTurn(1) : Host[c] = Host[s] /\ Host[c] # ""}
             from == IF near = {} THEN InTurn(1) ELSE near
  <2>1. from \in SUBSET Left /\ from # {}
    BY <1>1, <1>9
  <2>2. b = MostTokens(from)
    BY <1>9 DEF SameHost
  <2> HIDE DEF from
  <2>3. from \in SUBSET Receivers
    BY <2>1 DEF Left
  <2>4. b \in Left
    BY <2>1, <2>2, <2>3, MostTokensFacts
  <2> QED BY <1>8, <1>9, <2>4 DEF SpendingTypeOK
<1>10. CASE policy = "CapacityTest" /\ InTurn(1) # {} /\ b = Lowest(InTurn(1))
            /\ Spend({b}) /\ usedTokens' = usedTokens + 1 /\ UNCHANGED round
  <2>1. b \in Left
    BY <1>1, <1>10, LowestFacts DEF Left
  <2> QED BY <1>8, <1>10, <2>1 DEF SpendingTypeOK
<1> QED BY <1>6, <1>7, <1>9, <1>10 DEF CreateRoute

LEMMA CountRoutes ==
  ASSUME SpendingTypeOK, NEW b \in Receivers
  PROVE  /\ Cardinality(RoutesTo(b)) \in Nat /\ IsFiniteSet(RoutesTo(b))
         /\ Cardinality(round \cap {b}) \in Nat
         /\ held[b] \in Nat /\ sentTokens[b] \in Nat
<1>1. RoutesTo(b) \in SUBSET routed
  BY DEF RoutesTo
<1>2. Cardinality(RoutesTo(b)) \in Nat /\ IsFiniteSet(RoutesTo(b))
  BY <1>1, FS_Subset, FS_CardinalityType DEF SpendingTypeOK
<1>3. held[b] \in Nat /\ sentTokens[b] \in Nat
  BY PolicyConstants DEF SpendingTypeOK
<1> QED BY <1>2, <1>3, InRound

LEMMA GetRouteSpends ==
  ASSUME SpendingInv, NEW e \in RouteIDs, NEW s \in Requesters, GetRoute(e, s)
  PROVE  SpendingInv'
<1> USE DEF SpendingInv
<1>1. CASE Cached(e, s) # {} /\ UNCHANGED <<held, usedTokens, round, rcache, routed>>
  <2>1. UNCHANGED <<held, usedTokens, round, rcache, routed, minimumP, ranks, nextRoute, sentTokens, leftover>>
    BY <1>1 DEF GetRoute
  <2> QED BY <2>1 DEF SpendingTypeOK, RoutesOnce, TokensAccounted
<1>2. ASSUME Cached(e, s) = {}, NEW b \in Receivers, CreateRoute(s, b),
             rcache' = rcache \cup {[seq |-> e, src |-> s, dest |-> b]},
             routed' = routed \cup {[seq |-> e, src |-> s, dest |-> b]}
      PROVE  SpendingInv'
  <2> DEFINE entry == [seq |-> e, src |-> s, dest |-> b]
  <2>1. UNCHANGED <<minimumP, ranks, nextRoute, sentTokens, leftover>>
    BY DEF GetRoute
  <2>2. entry \notin routed /\ s # my_rank /\ entry.dest = b /\ entry.src = s /\ entry.seq = e
    <3>1. s # my_rank
      BY PolicyConstants
    <3>2. entry \notin rcache
      BY <1>2 DEF Cached
    <3> QED BY <3>1, <3>2 DEF RoutesOnce
  <2>3. e \in Nat
    BY PolicyConstants DEF RouteIDs
  <2>4. entry \in [seq : Nat, src : Requesters \cup {my_rank}, dest : Receivers]
    BY <2>3
  <2> HIDE DEF entry
  <2>5. routed' = routed \cup {entry} /\ rcache' = rcache \cup {entry}
    BY <1>2 DEF entry
  <2>6. SpendingTypeOK'
    <3>1. IsFiniteSet(routed')
      BY <2>5, FS_AddElement DEF SpendingTypeOK
    <3> QED BY <1>2, <2>1, <2>4, <2>5, <3>1, CreateRouteSpends DEF SpendingTypeOK
  <2>7. RoutesOnce'
    BY <2>1, <2>2, <2>5 DEF RoutesOnce
  <2>8. TokensAccounted'
    <3> SUFFICES ASSUME NEW c \in Receivers
                 PROVE  /\ held'[c] >= 0
                        /\ leftover' = {} => sentTokens'[c] = held'[c] + Cardinality(RoutesTo(c)')
                                                         + Cardinality(round' \cap {c})
      BY DEF TokensAccounted, RoutesTo
    <3>1. held'[c] + Cardinality(round' \cap {c}) + (IF c = b THEN 1 ELSE 0) = held[c] + Cardinality(round \cap {c})
      BY <1>2, CreateRouteSpends
    <3>2. Cardinality(RoutesTo(c)') = Cardinality(RoutesTo(c)) + (IF b = c THEN 1 ELSE 0)
      BY <2>2, <2>5, OneMoreRoute
    <3>3. leftover = {} => sentTokens[c] = held[c] + Cardinality(RoutesTo(c)) + Cardinality(round \cap {c})
      BY DEF TokensAccounted, RoutesTo
    <3>4. /\ Cardinality(RoutesTo(c)) \in Nat /\ Cardinality(round \cap {c}) \in Nat
          /\ held[c] \in Nat /\ sentTokens[c] \in Nat
      BY CountRoutes
    <3>5. held'[c] \in Nat /\ Cardinality(round' \cap {c}) \in Nat
      BY <2>6, InRound, BoundTokens DEF SpendingTypeOK
    <3> QED BY <2>1, <3>1, <3>2, <3>3, <3>4, <3>5
  <2> QED BY <2>6, <2>7, <2>8
<1> QED BY <1>1, <1>2 DEF GetRoute

LEMMA MakeTableSpends ==
  ASSUME SpendingInv, MakeTable
  PROVE  SpendingInv'
<1> USE DEF SpendingInv
<1> DEFINE out == RoutingTable
           route(i) == [seq |-> nextRoute + i - 1, src |-> my_rank, dest |-> out[i][1]]
           new == {route(i) : i \in DOMAIN out}
           used(b) == {i \in DOMAIN out : out[i][1] = b}
<1>1. /\ held' = [b \in Receivers |-> held[b] - Cardinality(used(b))]
      /\ nextRoute' = nextRoute + Len(out) /\ usedTokens' = 0
      /\ rcache' = rcache \cup {r \in new : \A q \in rcache : q.seq # r.seq}
      /\ routed' = routed \cup new
      /\ UNCHANGED <<policy, flow, minimumP, ranks, round, sentTokens, leftover, resets>>
  BY DEF MakeTable, UnusedTokens
<1>2. /\ Len(out) \in Nat /\ DOMAIN out = 1..Len(out)
      /\ \A i \in DOMAIN out : out[i] \in Tokens /\ out[i][1] \in Receivers
  BY TableFacts, TokensFacts
<1>3. \A b \in Receivers : IsFiniteSet(used(b)) /\ Cardinality(used(b)) \in 0..held[b]
  BY TableUses
<1>4. nextRoute \in Nat \ {0}
  BY DEF SpendingTypeOK
<1>5. \A i \in DOMAIN out : /\ route(i).seq = nextRoute + i - 1 /\ route(i).src = my_rank
                           /\ route(i).dest = out[i][1]
                           /\ nextRoute + i - 1 \in Nat
                           /\ nextRoute <= nextRoute + i - 1 /\ nextRoute + i - 1 < nextRoute + Len(out)
  BY <1>2, <1>4
<1>6. \A i \in DOMAIN out : route(i) \in [seq : Nat, src : Requesters \cup {my_rank}, dest : Receivers]
  BY <1>2, <1>5
<1> HIDE DEF out
<1>7. IsFiniteSet(new)
  <2>1. IsFiniteSet(DOMAIN out)
    BY <1>2, FS_Interval
  <2> DEFINE f == [i \in DOMAIN out |-> route(i)]
  <2>2. f \in [DOMAIN out -> new] /\ \A r \in new : \E i \in DOMAIN out : f[i] = r
    OBVIOUS
  <2> HIDE DEF f, new
  <2>3. f \in Surjection(DOMAIN out, new)
    BY <2>2 DEF Surjection
  <2> QED BY <2>1, <2>3, FS_Surjection
<1>8. \A r \in new : r \notin routed
  <2> SUFFICES ASSUME NEW i \in DOMAIN out, route(i) \in routed PROVE FALSE
    OBVIOUS
  <2>1. route(i).seq < nextRoute
    BY <1>5 DEF RoutesOnce
  <2> QED BY <1>4, <1>5, <2>1
<1>9. SpendingTypeOK'
  <2>1. held' \in [Receivers -> 0..ReceiverTokens]
    <3>1. \A b \in Receivers : held[b] - Cardinality(used(b)) \in 0..ReceiverTokens
      <4> TAKE b \in Receivers
      <4>1. held[b] \in 0..ReceiverTokens /\ Cardinality(used(b)) \in 0..held[b] /\ ReceiverTokens \in Nat
        BY <1>3, PolicyConstants DEF SpendingTypeOK
      <4> HIDE DEF used
      <4> QED BY <4>1
    <3> QED BY <1>1, <3>1
  <2>2. IsFiniteSet(routed')
    BY <1>1, <1>7, FS_Union DEF SpendingTypeOK
  <2>3. routed' \subseteq [seq : Nat, src : Requesters \cup {my_rank}, dest : Receivers]
    BY <1>1, <1>6 DEF SpendingTypeOK
  <2>4. nextRoute' \in Nat \ {0} /\ usedTokens' \in Nat
    BY <1>1, <1>2, <1>4
  <2> QED BY <1>1, <2>1, <2>2, <2>3, <2>4 DEF SpendingTypeOK
<1>10. RoutesOnce'
  <2> SUFFICES ASSUME NEW r \in routed' PROVE IF r.src = my_rank THEN r.seq < nextRoute' ELSE r \in rcache'
    BY DEF RoutesOnce
  <2>1. CASE r \in routed
    <3>1. IF r.src = my_rank THEN r.seq < nextRoute ELSE r \in rcache
      BY <2>1 DEF RoutesOnce
    <3>2. r.seq \in Nat
      BY <2>1 DEF SpendingTypeOK
    <3> HIDE DEF new
    <3> QED BY <1>1, <1>2, <1>4, <3>1, <3>2
  <2>2. CASE r \in new
    <3>1. PICK i \in DOMAIN out : r = route(i)
      BY <2>2
    <3>2. r.src = my_rank /\ r.seq < nextRoute + Len(out)
      BY <1>5, <3>1
    <3> QED BY <1>1, <3>2
  <2> QED BY <1>1, <2>1, <2>2
<1>11. ASSUME NEW b \in Receivers
       PROVE  Cardinality(RoutesTo(b)') = Cardinality(RoutesTo(b)) + Cardinality(used(b))
  <2> DEFINE to == {r \in new : r.dest = b}
             f == [i \in used(b) |-> route(i)]
  <2>1. f \in [used(b) -> to]
    BY <1>5
  <2>2. \A r \in to : \E i \in used(b) : f[i] = r
    <3> SUFFICES ASSUME NEW r \in to PROVE \E i \in used(b) : f[i] = r
      OBVIOUS
    <3>1. PICK i \in DOMAIN out : r = route(i)
      OBVIOUS
    <3>2. i \in used(b)
      BY <1>5, <3>1
    <3> QED BY <3>1, <3>2
  <2>3. \A i, j \in used(b) : f[i] = f[j] => i = j
    <3> SUFFICES ASSUME NEW i \in used(b), NEW j \in used(b), route(i) = route(j) PROVE i = j
      OBVIOUS
    <3>1. i \in Int /\ j \in Int /\ nextRoute \in Int
      BY <1>2, <1>4
    <3>2. nextRoute + i - 1 = nextRoute + j - 1
      BY <1>5
    <3> QED BY <3>1, <3>2
  <2> HIDE DEF f, to, used, new
  <2>4. f \in Injection(used(b), to)
    <3>1. f \in {g \in [used(b) -> to] : \A x, y \in used(b) : g[x] = g[y] => x = y}
      BY <2>1, <2>3
    <3> QED BY <3>1 DEF Injection, IsInjective
  <2>5. f \in Surjection(used(b), to)
    BY <2>1, <2>2 DEF Surjection
  <2>6. IsFiniteSet(to) /\ Cardinality(to) = Cardinality(used(b))
    BY <1>3, <2>4, <2>5, FS_Surjection
  <2>7. RoutesTo(b)' = RoutesTo(b) \cup to /\ RoutesTo(b) \cap to = {}
    BY <1>1, <1>8 DEF RoutesTo, to
  <2>8. IsFiniteSet(RoutesTo(b)) /\ Cardinality(RoutesTo(b)) \in Nat
    BY CountRoutes
  <2>9. Cardinality(used(b)) \in Nat
    BY <1>3, FS_CardinalityType
  <2> QED BY <2>6, <2>7, <2>8, <2>9, FS_Union, FS_EmptySet
<1>12. TokensAccounted'
  <2> SUFFICES ASSUME NEW c \in Receivers
               PROVE  /\ held'[c] >= 0
                      /\ leftover' = {} => sentTokens'[c] = held'[c] + Cardinality(RoutesTo(c)')
                                                       + Cardinality(round' \cap {c})
    BY DEF TokensAccounted, RoutesTo
  <2>1. Cardinality(used(c)) \in 0..held[c] /\ held'[c] = held[c] - Cardinality(used(c))
    BY <1>1, <1>3
  <2>2. leftover = {} => sentTokens[c] = held[c] + Cardinality(RoutesTo(c)) + Cardinality(round \cap {c})
    BY DEF TokensAccounted, RoutesTo
  <2>3. /\ Cardinality(RoutesTo(c)) \in Nat /\ Cardinality(round \cap {c}) \in Nat
        /\ held[c] \in Nat /\ sentTokens[c] \in Nat
    BY CountRoutes
  <2>4. Cardinality(RoutesTo(c)') = Cardinality(RoutesTo(c)) + Cardinality(used(c))
    BY <1>11
  <2>5. UNCHANGED <<leftover, round, sentTokens>>
    BY <1>1
  <2> HIDE DEF used
  <2> QED BY <2>1, <2>2, <2>3, <2>4, <2>5
<1> QED BY <1>9, <1>10, <1>12

LEMMA ResetSpends ==
  ASSUME SpendingInv, ResetRouting
  PROVE  SpendingInv'
<1> USE DEF SpendingInv
<1>1. SpendingTypeOK'
  BY FS_EmptySet, PolicyConstants DEF SpendingTypeOK, ResetRouting, NoTokens
<1>2. RoutesOnce'
  BY DEF RoutesOnce, ResetRouting
<1>3. TokensAccounted'
  <2> SUFFICES ASSUME NEW c \in Receivers
               PROVE  /\ held'[c] = 0 /\ sentTokens'[c] = 0 /\ Cardinality(RoutesTo(c)') = 0
                      /\ leftover' = {} => Cardinality(round' \cap {c}) = 0
    BY DEF TokensAccounted, RoutesTo
  <2>1. RoutesTo(c)' = {}
    BY DEF RoutesTo, ResetRouting
  <2>2. leftover' = {} => round' \cap {c} = {}
    BY DEF ResetRouting
  <2> QED BY <2>1, <2>2, FS_EmptySet DEF ResetRouting, NoTokens
<1> QED BY <1>1, <1>2, <1>3

\* Every token becomes one route and every route has used one, whatever the policy and the
\* mix of tables and requests.
THEOREM AlwaysTokensAccounted == PolicySpec => []TokensAccounted
<1>1. SpendingInv /\ [PolicyNext]_routeVars => SpendingInv'
  <2> SUFFICES ASSUME SpendingInv, [PolicyNext]_routeVars PROVE SpendingInv'
    OBVIOUS
  <2>1. CASE UNCHANGED routeVars
    BY <2>1 DEF routeVars, policyState, policyHistory, SpendingInv, SpendingTypeOK, RoutesOnce, TokensAccounted
  <2> QED
    BY <2>1, AddTokensSpends, MakeTableSpends, ResetSpends, GetRouteSpends DEF PolicyNext
<1>2. SpendingInv => TokensAccounted
  BY DEF SpendingInv
<1> QED BY SpendingInit, <1>1, <1>2, PTL DEF PolicySpec
===============================================================================
