------------------------- MODULE EventBuilderRunProofs -------------------------
(***************************************************************************)
(* Theorems of the run of an event builder: its tokens, for any number of  *)
(* buffers, events and threads, and its subruns, for any number of         *)
(* sources, events and subruns and any length of the map.                  *)
(***************************************************************************)
EXTENDS EventBuilderRun, FiniteSetTheorems, WellFoundedInduction, TLAPS

LEMMA TokenConstants == queue_size_ \in Nat /\ queue_size_ > 1
BY TokenAssumption

-------------------------------------------------------------------------------
(* The tokens *)

\* Counts are numbers, as long as no check was made too early.
TokenCounts ==
  /\ buf \in [empty : Nat, writing : Nat, full : Nat, reading : Nat]
  /\ tokens_sent_ \in Nat /\ granted \in Nat /\ assigned \in Nat /\ run_event_count_ \in Nat
  /\ sending \in [Slots -> Nat] /\ counting \in [Slots -> Nat]

\* The tokens that the threads counted by c have in hand.
InThreads(c) == c[1] + queue_size_ * c[queue_size_]

\* A token that was sent is with the routing manager, or was used for an event that is on
\* its way, is being written, or is released.
TokensKept ==
  tokens_sent_ + InThreads(counting)
    = granted + assigned + buf.writing + run_event_count_

TokenInv ==
  /\ raced \in BOOLEAN
  /\ ~raced => TokenCounts /\ TokensKept /\ Promised <= buf.empty

\* The subruns and the processes leave the tokens alone.
LEMMA TokenInvInit == RunInit => TokenInv
<1> SUFFICES ASSUME RunInit PROVE TokenInv
  OBVIOUS
<1>1. \A n \in Slots : None[n] = 0
  BY DEF None
<1>2. None \in [Slots -> Nat] /\ 1 \in Slots /\ queue_size_ \in Slots
  BY DEF None, Slots
<1>3. queue_size_ * 0 = 0 /\ queue_size_ * 1 = queue_size_
  BY TokenConstants
<1>4. CASE part = "tokens"
  <2>1. TokenInit
    BY <1>4 DEF RunInit
  <2>2. sending[1] = 0 /\ sending[queue_size_] = 1 /\ sending \in [Slots -> Nat]
    BY <1>1, <1>2, <2>1, TokenConstants DEF TokenInit
  <2>3. counting[1] = 0 /\ counting[queue_size_] = 0 /\ counting \in [Slots -> Nat]
    BY <1>1, <1>2, <2>1 DEF TokenInit
  <2>4. TokenCounts /\ raced = FALSE
    BY <2>1, <2>2, <2>3, TokenConstants DEF TokenInit, TokenCounts
  <2>5. TokensKept /\ Promised <= buf.empty
    BY <1>3, <2>1, <2>2, <2>3, TokenConstants DEF TokenInit, TokensKept, InThreads, Promised
  <2> QED BY <2>4, <2>5 DEF TokenInv
<1>5. CASE part # "tokens"
  <2>1. NoTokens
    BY <1>5 DEF RunInit
  <2>2. /\ sending[1] = 0 /\ sending[queue_size_] = 0 /\ sending \in [Slots -> Nat]
        /\ counting[1] = 0 /\ counting[queue_size_] = 0 /\ counting \in [Slots -> Nat]
    BY <1>1, <1>2, <2>1 DEF NoTokens
  <2>3. TokenCounts /\ raced = FALSE
    BY <2>1, <2>2 DEF NoTokens, TokenCounts
  <2>4. TokensKept /\ Promised <= buf.empty
    BY <1>3, <2>1, <2>2 DEF NoTokens, TokensKept, InThreads, Promised
  <2> QED BY <2>3, <2>4 DEF TokenInv
<1> QED BY <1>4, <1>5

\* Another thread, and one less, with n tokens.
LEMMA OneThread ==
  ASSUME NEW c \in [Slots -> Nat], NEW n \in Slots
  PROVE  /\ InThreads(c) \in Nat
         /\ InThreads([c EXCEPT ![n] = @ + 1]) = InThreads(c) + n
         /\ InThreads([c EXCEPT ![n] = @ - 1]) = InThreads(c) - n
<1>1. 1 \in Slots /\ queue_size_ \in Slots
  BY DEF Slots
<1>2. PICK one \in Nat, many \in Nat : one = c[1] /\ many = c[queue_size_]
  BY <1>1
<1>3. PICK worth \in Nat : worth = queue_size_ * many
  BY TokenConstants
<1>4. /\ queue_size_ * (many + 1) = worth + queue_size_
      /\ queue_size_ * (many - 1) = worth - queue_size_
  BY <1>3, TokenConstants
<1>5. CASE n = 1
  <2>1. /\ [c EXCEPT ![n] = @ + 1][1] = one + 1 /\ [c EXCEPT ![n] = @ + 1][queue_size_] = many
        /\ [c EXCEPT ![n] = @ - 1][1] = one - 1 /\ [c EXCEPT ![n] = @ - 1][queue_size_] = many
    BY <1>1, <1>2, <1>5, TokenConstants
  <2> QED BY <1>2, <1>3, <1>5, <2>1 DEF InThreads
<1>6. CASE n = queue_size_
  <2>1. /\ [c EXCEPT ![n] = @ + 1][1] = one /\ [c EXCEPT ![n] = @ + 1][queue_size_] = many + 1
        /\ [c EXCEPT ![n] = @ - 1][1] = one /\ [c EXCEPT ![n] = @ - 1][queue_size_] = many - 1
    BY <1>1, <1>2, <1>6, TokenConstants
  <2> QED BY <1>2, <1>3, <1>4, <1>6, <2>1, TokenConstants DEF InThreads
<1> QED BY <1>5, <1>6 DEF Slots

\* When no thread is under way the tokens are all used or with the routing manager.
LEMMA AllCounted ==
  ASSUME TokenInv, ~raced, ~Unfinished
  PROVE  /\ \A n \in Slots : sending[n] = 0
         /\ tokens_sent_ = granted + assigned + buf.writing + run_event_count_
         /\ granted + assigned <= buf.empty
<1>1. \A n \in Slots : sending[n] = 0 /\ counting[n] = 0
  BY DEF Unfinished, None
<1>2. 1 \in Slots /\ queue_size_ \in Slots /\ queue_size_ * 0 = 0
  BY TokenConstants DEF Slots
<1>3. InThreads(counting) = 0 /\ Promised = granted + assigned
  BY <1>1, <1>2 DEF TokenInv, TokenCounts, InThreads, Promised
<1> QED BY <1>1, <1>3 DEF TokenInv, TokenCounts, TokensKept

\* A check sends no more tokens than there are empty buffers without one.
LEMMA CheckFacts ==
  ASSUME TokenInv, NEW b, NEW released \in Nat, b.empty = buf.empty, Check(b, released), ~raced',
         released <= run_event_count_ + buf.writing
  PROVE  /\ ~raced /\ ~Unfinished
         /\ sending' \in [Slots -> Nat]
         /\ sending'[queue_size_] = 0
         /\ \/ sending'[1] = 0
            \/ sending'[1] = buf.empty - (tokens_sent_ - released)
<1>1. ~raced /\ ~Unfinished
  BY DEF Check
<1>2. TokenCounts /\ (\A n \in Slots : sending[n] = 0)
      /\ tokens_sent_ = granted + assigned + buf.writing + run_event_count_
  BY <1>1, AllCounted DEF TokenInv
<1>3. Outstanding(released) = tokens_sent_ - released
  <2>1. ~ (tokens_sent_ < released)
    BY <1>2 DEF TokenCounts
  <2> QED BY <2>1 DEF Outstanding
<1> DEFINE more == Available(b) - Outstanding(released)
<1>4. more = buf.empty - (tokens_sent_ - released) /\ more \in Int
  BY <1>2, <1>3 DEF Available, TokenCounts
<1>5. sending' = IF more > 0 THEN [sending EXCEPT ![1] = @ + more] ELSE sending
  BY DEF Check
<1>6. 1 \in Slots /\ queue_size_ \in Slots /\ queue_size_ # 1
  BY TokenConstants DEF Slots
<1> HIDE DEF more
<1>7. CASE more > 0
  <2>1. sending' = [sending EXCEPT ![1] = more]
    <3>1. sending[1] + more = more
      BY <1>2, <1>4, <1>6
    <3> QED BY <1>5, <1>7, <3>1
  <2> QED BY <1>1, <1>2, <1>4, <1>6, <1>7, <2>1 DEF TokenCounts
<1>8. CASE ~ (more > 0)
  BY <1>1, <1>2, <1>5, <1>6, <1>8 DEF TokenCounts
<1> QED BY <1>7, <1>8

LEMMA SendsInv ==
  ASSUME TokenInv, NEW n \in Slots, TokenThreadSends(n)
  PROVE  TokenInv'
<1>1. raced' = raced
  BY DEF TokenThreadSends
<1>2. SUFFICES ASSUME ~raced PROVE TokenCounts' /\ TokensKept' /\ (Promised <= buf.empty)'
  BY <1>1 DEF TokenInv
<1>3. TokenCounts /\ TokensKept /\ Promised <= buf.empty /\ n \in Nat
  BY <1>2, TokenConstants DEF TokenInv, Slots
<1>4. /\ sending' = [sending EXCEPT ![n] = @ - 1] /\ sending[n] - 1 \in Nat
      /\ counting' = [counting EXCEPT ![n] = @ + 1]
      /\ granted' = granted + n
      /\ UNCHANGED <<buf, tokens_sent_, assigned, run_event_count_, raced>>
  BY <1>3 DEF TokenThreadSends, TokenCounts
<1>5. /\ InThreads(sending') = InThreads(sending) - n /\ InThreads(sending) \in Nat
      /\ InThreads(counting') = InThreads(counting) + n /\ InThreads(counting) \in Nat
  BY <1>3, <1>4, OneThread DEF TokenCounts
<1>6. TokenCounts'
  BY <1>3, <1>4 DEF TokenCounts
<1>7. Promised = InThreads(sending) + granted + assigned
      /\ Promised' = InThreads(sending') + granted' + assigned'
  BY DEF Promised, InThreads
<1> QED BY <1>3, <1>4, <1>5, <1>6, <1>7 DEF TokensKept, TokenCounts

LEMMA CountsInv ==
  ASSUME TokenInv, NEW n \in Slots, TokenThreadCounts(n)
  PROVE  TokenInv'
<1>1. SUFFICES ASSUME ~raced PROVE TokenCounts' /\ TokensKept' /\ (Promised <= buf.empty)'
  BY DEF TokenInv, TokenThreadCounts
<1>2. TokenCounts /\ TokensKept /\ Promised <= buf.empty /\ n \in Nat
  BY <1>1, TokenConstants DEF TokenInv, Slots
<1>3. /\ counting' = [counting EXCEPT ![n] = @ - 1] /\ counting[n] - 1 \in Nat
      /\ tokens_sent_' = tokens_sent_ + n
      /\ UNCHANGED <<buf, sending, granted, assigned, run_event_count_, raced>>
  BY <1>2 DEF TokenThreadCounts, TokenCounts
<1>4. InThreads(counting') = InThreads(counting) - n /\ InThreads(counting) \in Nat
  BY <1>2, <1>3, OneThread DEF TokenCounts
<1>5. TokenCounts'
  BY <1>2, <1>3 DEF TokenCounts
<1>6. Promised' = Promised
  BY <1>3 DEF Promised
<1> QED BY <1>2, <1>3, <1>4, <1>5, <1>6 DEF TokensKept, TokenCounts

LEMMA AssignInv ==
  ASSUME TokenInv, AssignEvent
  PROVE  TokenInv'
<1>1. SUFFICES ASSUME ~raced PROVE TokenCounts' /\ TokensKept' /\ (Promised <= buf.empty)'
  BY DEF TokenInv, AssignEvent
<1>2. TokenCounts /\ TokensKept /\ Promised <= buf.empty
  BY <1>1 DEF TokenInv
<1>3. InThreads(sending) \in Nat /\ InThreads(counting) \in Nat
  BY <1>2, OneThread DEF TokenCounts, Slots
<1>4. /\ granted' = granted - 1 /\ assigned' = assigned + 1 /\ granted > 0
      /\ UNCHANGED <<buf, tokens_sent_, sending, counting, run_event_count_, raced>>
  BY DEF AssignEvent
<1>5. TokenCounts'
  BY <1>2, <1>4 DEF TokenCounts
<1>6. Promised = InThreads(sending) + granted + assigned
      /\ Promised' = InThreads(sending) + granted' + assigned'
  BY <1>4 DEF Promised, InThreads
<1> QED BY <1>2, <1>3, <1>4, <1>5, <1>6 DEF TokensKept, TokenCounts

\* What the three steps with a check have in common: no thread is under way before, and
\* none has sent after.
LEMMA CheckedCounts ==
  ASSUME TokenInv, NEW b, NEW released \in Nat, b.empty = buf.empty, Check(b, released), ~raced',
         released <= run_event_count_ + buf.writing, assigned' \in Nat,
         UNCHANGED <<tokens_sent_, counting, granted>>
  PROVE  /\ TokenCounts
         /\ sending' \in [Slots -> Nat]
         /\ tokens_sent_ = granted + assigned + buf.writing + run_event_count_
         /\ granted + assigned <= buf.empty
         /\ InThreads(counting') = 0
         /\ \/ Promised' = granted + assigned'
            \/ Promised' = granted + assigned' + buf.empty - (tokens_sent_ - released)
<1>1. /\ ~raced /\ ~Unfinished
      /\ sending' \in [Slots -> Nat] /\ sending'[queue_size_] = 0
      /\ \/ sending'[1] = 0
         \/ sending'[1] = buf.empty - (tokens_sent_ - released)
  BY CheckFacts
<1>2. /\ TokenCounts
      /\ tokens_sent_ = granted + assigned + buf.writing + run_event_count_
      /\ granted + assigned <= buf.empty
  BY <1>1, AllCounted DEF TokenInv
<1>3. queue_size_ * 0 = 0 /\ 1 \in Slots /\ queue_size_ \in Slots
  BY TokenConstants DEF Slots
<1>4. \A n \in Slots : counting'[n] = 0
  BY <1>1 DEF Unfinished, None
<1>5. InThreads(counting') = 0
  BY <1>3, <1>4 DEF InThreads
<1>6. PICK one \in Nat : one = sending'[1]
  BY <1>1, <1>3
<1>7. Promised' = one + 0 + granted + assigned'
  BY <1>1, <1>3, <1>6 DEF Promised
<1>8. Promised' = one + granted + assigned'
  BY <1>2, <1>7 DEF TokenCounts
<1> QED BY <1>1, <1>2, <1>5, <1>6, <1>8 DEF TokenCounts

LEMMA OpenBufferInv ==
  ASSUME TokenInv, OpenBuffer
  PROVE  TokenInv'
<1>1. raced' \in BOOLEAN /\ (~raced' => ~raced)
  BY DEF OpenBuffer, Check, TokenInv
<1>2. SUFFICES ASSUME ~raced' PROVE TokenCounts' /\ TokensKept' /\ (Promised <= buf.empty)'
  BY <1>1 DEF TokenInv
<1>3. TokenCounts
  BY <1>1, <1>2 DEF TokenInv
<1>4. /\ assigned > 0 /\ Check(buf, run_event_count_)
      /\ UNCHANGED <<tokens_sent_, counting, granted, run_event_count_>>
      /\ \/ /\ buf.empty > 0 /\ assigned' = assigned - 1
            /\ buf' = [buf EXCEPT !.empty = @ - 1, !.writing = @ + 1]
         \/ ~ (buf.empty > 0) /\ UNCHANGED <<buf, assigned>>
  BY DEF OpenBuffer
<1>5. assigned' \in Nat /\ run_event_count_ <= run_event_count_ + buf.writing
  BY <1>3, <1>4 DEF TokenCounts
<1>6. /\ sending' \in [Slots -> Nat]
      /\ tokens_sent_ = granted + assigned + buf.writing + run_event_count_
      /\ granted + assigned <= buf.empty
      /\ InThreads(counting') = 0
      /\ \/ Promised' = granted + assigned'
         \/ Promised' = granted + assigned' + buf.empty - (tokens_sent_ - run_event_count_)
  BY <1>2, <1>3, <1>4, <1>5, CheckedCounts DEF TokenCounts
<1>7. /\ buf.empty > 0 /\ assigned' = assigned - 1
      /\ buf' = [buf EXCEPT !.empty = @ - 1, !.writing = @ + 1]
  BY <1>3, <1>4, <1>6 DEF TokenCounts
<1>8. /\ buf' \in [empty : Nat, writing : Nat, full : Nat, reading : Nat]
      /\ buf'.empty = buf.empty - 1 /\ buf'.writing = buf.writing + 1
  <2>1. buf.empty - 1 \in Nat /\ buf.writing + 1 \in Nat
    BY <1>3, <1>7 DEF TokenCounts
  <2> QED BY <1>3, <1>7, <2>1 DEF TokenCounts
<1>9. TokenCounts'
  BY <1>3, <1>4, <1>5, <1>6, <1>8 DEF TokenCounts
<1> QED BY <1>3, <1>4, <1>6, <1>7, <1>8, <1>9 DEF TokensKept, TokenCounts

LEMMA ReleaseInv ==
  ASSUME TokenInv, ReleaseEvent
  PROVE  TokenInv'
<1>1. raced' \in BOOLEAN /\ (~raced' => ~raced)
  BY DEF ReleaseEvent, Check, TokenInv
<1>2. SUFFICES ASSUME ~raced' PROVE TokenCounts' /\ TokensKept' /\ (Promised <= buf.empty)'
  BY <1>1 DEF TokenInv
<1>3. TokenCounts
  BY <1>1, <1>2 DEF TokenInv
<1>4. /\ buf.writing > 0 /\ buf' = [buf EXCEPT !.writing = @ - 1, !.full = @ + 1]
      /\ run_event_count_' = run_event_count_ + 1
      /\ Check(buf', run_event_count_ + 1)
      /\ UNCHANGED <<tokens_sent_, counting, granted, assigned>>
  BY DEF ReleaseEvent
<1>5. /\ buf' \in [empty : Nat, writing : Nat, full : Nat, reading : Nat]
      /\ buf'.empty = buf.empty /\ buf'.writing = buf.writing - 1
  <2>1. buf.writing - 1 \in Nat /\ buf.full + 1 \in Nat
    BY <1>3, <1>4 DEF TokenCounts
  <2> QED BY <1>3, <1>4, <2>1 DEF TokenCounts
<1>6. /\ assigned' \in Nat /\ run_event_count_ + 1 \in Nat
      /\ run_event_count_ + 1 <= run_event_count_ + buf.writing
  BY <1>3, <1>4 DEF TokenCounts
<1>7. /\ sending' \in [Slots -> Nat]
      /\ tokens_sent_ = granted + assigned + buf.writing + run_event_count_
      /\ granted + assigned <= buf.empty
      /\ InThreads(counting') = 0
      /\ \/ Promised' = granted + assigned'
         \/ Promised' = granted + assigned' + buf.empty - (tokens_sent_ - (run_event_count_ + 1))
  BY <1>2, <1>4, <1>5, <1>6, CheckedCounts
<1>8. TokenCounts'
  BY <1>3, <1>4, <1>5, <1>7 DEF TokenCounts
<1> QED BY <1>3, <1>4, <1>5, <1>7, <1>8 DEF TokensKept, TokenCounts

LEMMA CheckPendingInv ==
  ASSUME TokenInv, CheckPendingBuffers
  PROVE  TokenInv'
<1>1. raced' \in BOOLEAN /\ (~raced' => ~raced)
  BY DEF CheckPendingBuffers, Check, TokenInv
<1>2. SUFFICES ASSUME ~raced' PROVE TokenCounts' /\ TokensKept' /\ (Promised <= buf.empty)'
  BY <1>1 DEF TokenInv
<1>3. TokenCounts
  BY <1>1, <1>2 DEF TokenInv
<1>4. /\ Check(buf, run_event_count_)
      /\ UNCHANGED <<buf, tokens_sent_, counting, granted, assigned, run_event_count_>>
  BY DEF CheckPendingBuffers
<1>5. assigned' \in Nat /\ run_event_count_ <= run_event_count_ + buf.writing
  BY <1>3, <1>4 DEF TokenCounts
<1>6. /\ sending' \in [Slots -> Nat]
      /\ tokens_sent_ = granted + assigned + buf.writing + run_event_count_
      /\ granted + assigned <= buf.empty
      /\ InThreads(counting') = 0
      /\ \/ Promised' = granted + assigned'
         \/ Promised' = granted + assigned' + buf.empty - (tokens_sent_ - run_event_count_)
  BY <1>2, <1>3, <1>4, <1>5, CheckedCounts DEF TokenCounts
<1>7. TokenCounts'
  BY <1>3, <1>4, <1>6 DEF TokenCounts
<1> QED BY <1>3, <1>4, <1>6, <1>7 DEF TokensKept, TokenCounts

LEMMA ArtReadingInv ==
  ASSUME TokenInv, ArtStartsReading \/ ArtEndsReading
  PROVE  TokenInv'
<1>1. SUFFICES ASSUME ~raced PROVE TokenCounts' /\ TokensKept' /\ (Promised <= buf.empty)'
  BY DEF TokenInv, ArtStartsReading, ArtEndsReading
<1>2. TokenCounts /\ TokensKept /\ Promised <= buf.empty
  BY <1>1 DEF TokenInv
<1>3. UNCHANGED <<tokens_sent_, sending, counting, granted, assigned, run_event_count_>>
  BY DEF ArtStartsReading, ArtEndsReading
<1>4. /\ buf' \in [empty : Nat, writing : Nat, full : Nat, reading : Nat]
      /\ buf'.empty >= buf.empty /\ buf'.writing = buf.writing
  <2>1. CASE ArtStartsReading
    <3>1. buf.full - 1 \in Nat /\ buf.reading + 1 \in Nat
      BY <1>2, <2>1 DEF ArtStartsReading, TokenCounts
    <3>2. buf' = [empty |-> buf.empty, writing |-> buf.writing,
                  full |-> buf.full - 1, reading |-> buf.reading + 1]
      BY <1>2, <2>1 DEF ArtStartsReading, TokenCounts
    <3>3. buf.empty \in Nat /\ buf.writing \in Nat /\ buf.empty >= buf.empty
      BY <1>2 DEF TokenCounts
    <3> QED BY <3>1, <3>2, <3>3
  <2>2. CASE ArtEndsReading
    <3>1. buf.reading - 1 \in Nat /\ buf.empty + 1 \in Nat /\ buf.empty + 1 >= buf.empty
      BY <1>2, <2>2 DEF ArtEndsReading, TokenCounts
    <3> QED BY <1>2, <2>2, <3>1 DEF ArtEndsReading, TokenCounts
  <2> QED BY <2>1, <2>2
<1>5. Promised' = Promised /\ Promised \in Nat
  <2>1. InThreads(sending) \in Nat
    BY <1>2, OneThread DEF TokenCounts, Slots
  <2> QED BY <1>2, <1>3, <2>1 DEF Promised, InThreads, TokenCounts
<1>6. TokenCounts' /\ TokensKept'
  BY <1>2, <1>3, <1>4 DEF TokenCounts, TokensKept, InThreads
<1> QED BY <1>2, <1>4, <1>5, <1>6 DEF TokenCounts

LEMMA TokenInvNext == TokenInv /\ [RunNext]_<<part, runVars>> => TokenInv'
<1> SUFFICES ASSUME TokenInv, [RunNext]_<<part, runVars>>
             PROVE  TokenInv'
  OBVIOUS
<1>1. CASE TokenNext
  BY <1>1, SendsInv, CountsInv, AssignInv, OpenBufferInv, ReleaseInv, CheckPendingInv, ArtReadingInv
  DEF TokenNext
<1>2. CASE UNCHANGED tokenVars
  BY <1>2 DEF tokenVars, TokenInv, TokenCounts, TokensKept, Promised, InThreads
<1> QED BY <1>1, <1>2 DEF RunNext, runVars

\* However many buffers, events and threads there are and in whatever order tokens are sent,
\* counted and used, events that were promised a buffer find one, if no check was made while
\* the thread of a token was not done.
THEOREM NeverOvercommitted == RunSpec => []NoOvercommit
<1>1. TokenInv => NoOvercommit
  BY DEF TokenInv, NoOvercommit
<1> QED BY TokenInvInit, TokenInvNext, <1>1, PTL DEF RunSpec

-------------------------------------------------------------------------------
(* The subruns *)

\* An entry of the map comes from the start of the run, or is where a subrun begins.
FromStart(k) == k = 0 /\ subrun_event_map_[k] = 1
BeginsSubrun(k) == \E j \in Subruns : boundary[j] = k /\ subrun_event_map_[k] = j

\* The one resume entered subrun v at sequence ID key: all the subruns before v begin below
\* it, and all others do not.
ResumedAt(key, v) ==
  /\ \A j \in Subruns : j < v <=> boundary[j] < key
  /\ \A k \in Keys(subrun_event_map_) :
       FromStart(k) \/ BeginsSubrun(k) \/ (k = key /\ subrun_event_map_[k] = v)
  /\ resume = NoResume \/ resume = [seqID |-> key, subrun |-> v]

\* The map has its first entry until it is full.
FullWhenTrimmed ==
  /\ Cardinality(Keys(subrun_event_map_)) <= max_subrun_event_map_length_
  /\ 0 \in Keys(subrun_event_map_)
     \/ Cardinality(Keys(subrun_event_map_)) = max_subrun_event_map_length_

\* A source that sends Fragments of a subrun has told of it.
TellsFirst ==
  \A s \in Sources, j \in Subruns :
     sources[s].receiving /\ boundary[j] = sources[s].next => sources[s].told

\* What a source has told of is in the map, or was trimmed off.
ToldOf(s) == {j \in Subruns :
  boundary[j] < sources[s].next \/ (boundary[j] = sources[s].next /\ sources[s].told)}
ToldKept ==
  \A s \in Sources : \A j \in ToldOf(s) :
     boundary[j] \in Keys(subrun_event_map_) \/ Forgotten(j)

\* A source that is done with an event goes on to the next.
DoneInOrder == \A e \in SeqIDs : \A s \in events[e].done : e < sources[s].next

RightSubrun(e, subrun) ==
  subrun = SubrunOf(e) \/ (subrun = 1 /\ Forgotten(SubrunOf(e)))
ReleasedRight == \A e \in SeqIDs : events[e].done = Sources => RightSubrun(e, events[e].subrun)

SubrunTypes ==
  /\ boundary \in Boundaries
  /\ Keys(subrun_event_map_) # {} /\ Keys(subrun_event_map_) \subseteq 0 .. MaxSeqID + 1
  /\ sources \in [Sources -> [next : 1 .. MaxSeqID + 1, told : BOOLEAN, receiving : BOOLEAN]]
  /\ \A s \in Sources : sources[s].receiving => sources[s].next \in SeqIDs
  /\ events \in [SeqIDs -> [subrun : Nat, done : SUBSET Sources, open : BOOLEAN]]

NotResumed ==
  /\ resume = NoResume
  /\ \A k \in Keys(subrun_event_map_) : FromStart(k) \/ BeginsSubrun(k)
  /\ FullWhenTrimmed /\ TellsFirst /\ ToldKept /\ DoneInOrder /\ ReleasedRight

ResumedOnce == \E key \in 1 .. MaxSeqID + 1, v \in 2 .. MaxSubrun + 2 : ResumedAt(key, v)

SubrunInv ==
  /\ resumes \in Nat
  /\ resumes <= 1 => SubrunTypes
  /\ resumes = 0 => NotResumed
  /\ resumes = 1 => ResumedOnce

LEMMA SubrunConstants ==
  /\ MaxSeqID \in Nat /\ MaxSubrun \in Nat
  /\ max_subrun_event_map_length_ \in Nat /\ max_subrun_event_map_length_ > 0
  /\ Sources # {}
BY SubrunAssumption

\* A set of numbers that is not empty has a least element.
LEMMA LeastNumber ==
  ASSUME NEW S \in SUBSET Nat, S # {}
  PROVE  \E x \in S : \A y \in S : x <= y
<1> DEFINE R == OpToRel(<, Nat)
<1>1. IsWellFoundedOn(R, Nat)
  BY NatLessThanWellFounded
<1>2. PICK x \in S : \A y \in S : <<y, x>> \notin R
  <2> HIDE DEF R
  <2> QED BY <1>1, WFMin
<1>3. \A y \in S : x <= y
  <2> TAKE y \in S
  <2>1. <<y, x>> \in Nat \X Nat /\ <<y, x>> \notin R
    BY <1>2
  <2>2. ~ (y < x)
    BY <2>1 DEF OpToRel
  <2> QED BY <2>2
<1> QED BY <1>3

\* One that is bounded has a greatest.
LEMMA GreatestNumber ==
  ASSUME NEW b \in Nat, NEW S \in SUBSET (0 .. b), S # {}
  PROVE  \E x \in S : \A y \in S : y <= x
<1> DEFINE D == {b - x : x \in S}
<1>1. D \in SUBSET Nat /\ D # {}
  <2>1. \A x \in S : x \in 0 .. b /\ b - x \in Nat
    OBVIOUS
  <2> QED BY <2>1
<1>2. PICK d \in D : \A e \in D : d <= e
  BY <1>1, LeastNumber
<1>3. PICK x \in S : d = b - x
  OBVIOUS
<1>4. \A y \in S : b - x <= b - y
  BY <1>2, <1>3
<1> QED BY <1>4

\* The keys a map may have.
MapKeys == {S \in SUBSET (0 .. MaxSeqID + 1) : S # {}}

LEMMA SmallestKeyFacts ==
  ASSUME NEW m, Keys(m) \in MapKeys
  PROVE  SmallestKey(m) \in Keys(m) /\ \A k \in Keys(m) : SmallestKey(m) <= k
<1>1. Keys(m) \in SUBSET Nat /\ Keys(m) # {}
  BY SubrunConstants DEF MapKeys
<1>2. \E x \in Keys(m) : \A y \in Keys(m) : x <= y
  BY <1>1, LeastNumber
<1> QED BY <1>2 DEF SmallestKey

LEMMA LastKeyFacts ==
  ASSUME NEW m, Keys(m) \in MapKeys
  PROVE  LastKey(m) \in Keys(m) /\ \A k \in Keys(m) : k <= LastKey(m)
<1>1. \E x \in Keys(m) : \A y \in Keys(m) : y <= x
  <2>1. MaxSeqID + 1 \in Nat /\ Keys(m) \in SUBSET (0 .. MaxSeqID + 1) /\ Keys(m) # {}
    BY SubrunConstants DEF MapKeys
  <2> QED BY <2>1, GreatestNumber
<1> QED BY <1>1 DEF LastKey

\* What entering a subrun does to the map, trimmed or not.
LEMMA RolloverEntries ==
  ASSUME NEW m, Keys(m) \in MapKeys, NEW x \in 0 .. MaxSeqID + 1, NEW v,
         NEW r, r = Rollover(m, x, v)
  PROVE  /\ Keys(r) \in MapKeys
         /\ \A k \in Keys(r) : \/ k \in Keys(m) /\ r[k] = m[k]
                               \/ k = x /\ x # 0 /\ r[k] = v
<1> DEFINE added == [k \in Keys(m) \cup {x} |-> IF k = x THEN v ELSE m[k]]
<1>1. CASE x = 0 \/ LastSubrun(m) = v
  BY <1>1 DEF Rollover
<1>2. CASE x # 0 /\ LastSubrun(m) # v
  <2>1. r = Trimmed(added)
    BY <1>2 DEF Rollover
  <2>2. Keys(added) = Keys(m) \cup {x} /\ Keys(added) \in MapKeys
    BY DEF Keys, MapKeys
  <2>3. CASE r = added
    BY <1>2, <2>2, <2>3 DEF Keys
  <2>4. CASE r # added
    <3>1. /\ r = [k \in Keys(added) \ {SmallestKey(added)} |-> added[k]]
          /\ Cardinality(Keys(added)) > max_subrun_event_map_length_
      BY <2>1, <2>4 DEF Trimmed
    <3>2. Keys(r) = Keys(added) \ {SmallestKey(added)}
      BY <3>1 DEF Keys
    <3>3. Keys(r) # {}
      <4>1. SUFFICES ASSUME Keys(r) = {} PROVE FALSE
        OBVIOUS
      <4>2. Keys(added) = {SmallestKey(added)}
        BY <2>2, <3>2, <4>1, SmallestKeyFacts
      <4>3. Cardinality(Keys(added)) = 1
        BY <4>2, FS_Singleton
      <4> QED BY <3>1, <4>3, SubrunConstants
    <3>4. Keys(r) \in MapKeys
      BY <2>2, <3>2, <3>3 DEF MapKeys
    <3>5. \A k \in Keys(r) : k \in Keys(m) \cup {x} /\ r[k] = added[k]
      BY <2>2, <3>1, <3>2
    <3> QED BY <1>2, <3>4, <3>5
  <2> QED BY <2>3, <2>4
<1> QED BY <1>1, <1>2

\* A map that has its first entry, or is full, stays so; what is trimmed off it, and a subrun
\* that is entered below a full map, is below all that is left.
LEMMA RolloverTrims ==
  ASSUME NEW m, Keys(m) \in MapKeys, NEW x \in 0 .. MaxSeqID + 1, NEW v,
         NEW r, r = Rollover(m, x, v),
         Cardinality(Keys(m)) <= max_subrun_event_map_length_,
         0 \in Keys(m) \/ Cardinality(Keys(m)) = max_subrun_event_map_length_
  PROVE  /\ Cardinality(Keys(r)) <= max_subrun_event_map_length_
         /\ 0 \in Keys(r) \/ Cardinality(Keys(r)) = max_subrun_event_map_length_
         /\ \A y \in Nat : (\A k \in Keys(m) : y < k) => \A k \in Keys(r) : y < k
         /\ \A y \in Keys(m) : y \in Keys(r) \/ \A k \in Keys(r) : y < k
         /\ x # 0 /\ LastSubrun(m) # v => x \in Keys(r) \/ \A k \in Keys(r) : x < k
<1> DEFINE added == [k \in Keys(m) \cup {x} |-> IF k = x THEN v ELSE m[k]]
<1>1. CASE x = 0 \/ LastSubrun(m) = v
  BY <1>1 DEF Rollover
<1>2. CASE x # 0 /\ LastSubrun(m) # v
  <2>1. r = Trimmed(added)
    BY <1>2 DEF Rollover
  <2>2. Keys(added) = Keys(m) \cup {x} /\ Keys(added) \in MapKeys
    BY DEF Keys, MapKeys
  <2>3. Keys(m) \subseteq Nat /\ x \in Nat
    BY SubrunConstants DEF MapKeys
  <2>4. IsFiniteSet(Keys(m)) /\ IsFiniteSet(Keys(added))
    <3>1. IsFiniteSet(0 .. MaxSeqID + 1)
      BY SubrunConstants, FS_Interval
    <3>2. Keys(m) \in SUBSET (0 .. MaxSeqID + 1) /\ Keys(added) \in SUBSET (0 .. MaxSeqID + 1)
      BY <2>2 DEF MapKeys
    <3> HIDE DEF added
    <3> QED BY <3>1, <3>2, FS_Subset
  <2>5. /\ Cardinality(Keys(m)) \in Nat
        /\ Cardinality(Keys(added)) = IF x \in Keys(m) THEN Cardinality(Keys(m)) ELSE Cardinality(Keys(m)) + 1
    BY <2>2, <2>4, FS_AddElement, FS_CardinalityType
  <2> HIDE DEF added
  <2>6. CASE ~ (Cardinality(Keys(added)) > max_subrun_event_map_length_)
    <3>1. r = added
      BY <2>1, <2>6 DEF Trimmed
    <3>3. \A y \in Nat : (\A k \in Keys(m) : y < k) => \A k \in Keys(r) : y < k
      <4>1. CASE 0 \in Keys(m)
        BY <4>1
      <4>2. CASE 0 \notin Keys(m)
        <5>1. x \in Keys(m)
          BY <2>5, <2>6, <4>2, SubrunConstants
        <5> QED BY <2>2, <3>1, <5>1
      <4> QED BY <4>1, <4>2
    <3>4. Cardinality(Keys(r)) <= max_subrun_event_map_length_
      BY <2>5, <2>6, <3>1, SubrunConstants
    <3>5. 0 \in Keys(r) \/ Cardinality(Keys(r)) = max_subrun_event_map_length_
      BY <2>2, <2>5, <2>6, <3>1, SubrunConstants
    <3> QED BY <2>2, <3>1, <3>3, <3>4, <3>5
  <2>7. CASE Cardinality(Keys(added)) > max_subrun_event_map_length_
    <3> DEFINE s == SmallestKey(added)
    <3>1. Keys(r) = Keys(added) \ {s}
      BY <2>1, <2>7 DEF Trimmed, Keys
    <3>2. s \in Keys(added) /\ \A k \in Keys(added) : s <= k
      BY <2>2, SmallestKeyFacts
    <3>3. x \notin Keys(m) /\ Cardinality(Keys(m)) = max_subrun_event_map_length_
      BY <2>5, <2>7, SubrunConstants
    <3>4. Cardinality(Keys(r)) = max_subrun_event_map_length_
      <4>1. Cardinality(Keys(added)) = max_subrun_event_map_length_ + 1
        BY <2>5, <3>3
      <4>2. Cardinality(Keys(added) \ {s}) = Cardinality(Keys(added)) - 1
        BY <2>4, <3>2, FS_RemoveElement
      <4> QED BY <3>1, <4>1, <4>2, SubrunConstants
    <3> HIDE DEF s
    <3>5. Keys(added) \subseteq Nat
      BY <2>2, <2>3
    <3>6. \A k \in Keys(r) : s < k
      BY <3>1, <3>2, <3>5
    <3>7. \A y \in Keys(added) : y \in Keys(r) \/ y = s
      BY <3>1
    <3>8. \A y \in Nat : (\A k \in Keys(m) : y < k) => \A k \in Keys(r) : y < k
      <4> SUFFICES ASSUME NEW y \in Nat, \A k \in Keys(m) : y < k, NEW k \in Keys(r)
                   PROVE  y < k
        OBVIOUS
      <4>1. CASE s = x
        BY <2>2, <3>1, <4>1
      <4>2. CASE s # x
        <5>1. y < s
          BY <2>2, <3>2, <4>2
        <5> QED BY <3>2, <3>5, <3>6, <5>1, <3>1
      <4> QED BY <4>1, <4>2
    <3> QED BY <2>2, <3>4, <3>6, <3>7, <3>8, SubrunConstants
  <2> QED BY <2>6, <2>7
<1> QED BY <1>1, <1>2

LEMMA BoundaryOrder ==
  ASSUME boundary \in Boundaries
  PROVE  /\ \A j \in Subruns : boundary[j] \in 2 .. MaxSeqID /\ j \in Nat /\ j >= 2 /\ j <= MaxSubrun
         /\ \A i, j \in Subruns : i < j <=> boundary[i] < boundary[j]
         /\ \A i, j \in Subruns : boundary[i] = boundary[j] => i = j
<1>1. \A j \in Subruns : boundary[j] \in 2 .. MaxSeqID /\ j \in Nat /\ j >= 2 /\ j <= MaxSubrun
  BY SubrunConstants DEF Boundaries, Subruns
<1>2. \A i, j \in Subruns : i < j => boundary[i] < boundary[j]
  BY DEF Boundaries
<1> QED BY <1>1, <1>2, SubrunConstants

\* There is a last subrun that begins up to an event, or none does.
LEMMA SubrunOfFacts ==
  ASSUME boundary \in Boundaries, NEW e \in SeqIDs
  PROVE  /\ SubrunOf(e) = 1 \/ (SubrunOf(e) \in Subruns /\ boundary[SubrunOf(e)] <= e)
         /\ \A j \in Subruns : j > SubrunOf(e) => boundary[j] > e
<1> DEFINE begun == {j \in Subruns : boundary[j] <= e}
           Right(k) == /\ k = 1 \/ boundary[k] <= e
                       /\ \A j \in Subruns : j > k => boundary[j] > e
<1>1. e \in Nat /\ \A j \in Subruns : boundary[j] \in Nat /\ j \in Nat /\ j >= 2
  BY BoundaryOrder, SubrunConstants DEF SeqIDs
<1>2. \E k \in {1} \cup Subruns : Right(k)
  <2>1. CASE begun = {}
    <3>1. Right(1)
      BY <1>1, <2>1
    <3> QED BY <3>1
  <2>2. CASE begun # {}
    <3>1. begun \in SUBSET (0 .. MaxSubrun)
      BY SubrunConstants DEF Subruns
    <3>2. PICK k \in begun : \A j \in begun : j <= k
      BY <2>2, <3>1, SubrunConstants, GreatestNumber
    <3>3. Right(k)
      BY <1>1, <3>2
    <3> QED BY <3>2, <3>3
  <2> QED BY <2>1, <2>2
<1>3. SubrunOf(e) \in {1} \cup Subruns /\ Right(SubrunOf(e))
  BY <1>2 DEF SubrunOf
<1> QED BY <1>3

LEMMA LookupType ==
  ASSUME Keys(subrun_event_map_) \in MapKeys, NEW e \in SeqIDs,
         \A k \in Keys(subrun_event_map_) : subrun_event_map_[k] \in Nat
  PROVE  GetSubrunForSequenceID(e) \in Nat
<1> DEFINE before == {k \in Keys(subrun_event_map_) : k <= e}
           g == CHOOSE k \in before : \A j \in before : j <= k
<1>1. CASE before = {}
  BY <1>1 DEF GetSubrunForSequenceID
<1>2. CASE before # {}
  <2>1. before \in SUBSET (0 .. MaxSeqID + 1) /\ MaxSeqID + 1 \in Nat
    BY SubrunConstants DEF MapKeys
  <2>2. g \in before
    BY <1>2, <2>1, GreatestNumber
  <2>3. GetSubrunForSequenceID(e) = subrun_event_map_[g]
    BY <1>2 DEF GetSubrunForSequenceID
  <2> QED BY <2>2, <2>3
<1> QED BY <1>1, <1>2

\* An event whose subrun, and those before, are in the map or were trimmed off it gets the
\* right subrun.
LEMMA LookupRight ==
  ASSUME Keys(subrun_event_map_) \in MapKeys, boundary \in Boundaries, NEW e \in SeqIDs,
         \A k \in Keys(subrun_event_map_) : FromStart(k) \/ BeginsSubrun(k),
         \A j \in Subruns :
            boundary[j] <= e => boundary[j] \in Keys(subrun_event_map_) \/ Forgotten(j)
  PROVE  RightSubrun(e, GetSubrunForSequenceID(e))
<1> DEFINE before == {k \in Keys(subrun_event_map_) : k <= e}
           g == CHOOSE k \in before : \A j \in before : j <= k
           m == SubrunOf(e)
<1>1. e \in Nat /\ Keys(subrun_event_map_) \subseteq Nat
  BY SubrunConstants DEF SeqIDs, MapKeys
<1>2. /\ m = 1 \/ (m \in Subruns /\ boundary[m] <= e)
      /\ \A j \in Subruns : j > m => boundary[j] > e
  BY SubrunOfFacts
<1>3. before # {} => g \in before /\ (\A j \in before : j <= g)
                     /\ GetSubrunForSequenceID(e) = subrun_event_map_[g]
  <2>1. before \in SUBSET (0 .. MaxSeqID + 1) /\ MaxSeqID + 1 \in Nat
    BY SubrunConstants DEF MapKeys
  <2>2. before # {} => \E k \in before : \A j \in before : j <= k
    BY <2>1, GreatestNumber
  <2>3. before # {} => GetSubrunForSequenceID(e) = subrun_event_map_[g]
    BY DEF GetSubrunForSequenceID
  <2> QED BY <2>2, <2>3
<1>4. before = {} => GetSubrunForSequenceID(e) = 1
  BY DEF GetSubrunForSequenceID
<1>5. \A j \in Subruns : boundary[j] \in Nat /\ boundary[j] > 1 /\ j \in Nat /\ j > 1
  BY BoundaryOrder, SubrunConstants
<1> HIDE DEF g, m
<1>6. CASE before # {}
  <2>1. g \in Nat /\ g <= e /\ g \in Keys(subrun_event_map_)
    BY <1>1, <1>3, <1>6
  <2>2. CASE FromStart(g)
    <3>1. GetSubrunForSequenceID(e) = 1 /\ g = 0
      BY <1>3, <1>6, <2>2 DEF FromStart
    <3>2. m = 1
      <4>1. SUFFICES ASSUME m \in Subruns, boundary[m] <= e PROVE FALSE
        BY <1>2
      <4>2. CASE boundary[m] \in Keys(subrun_event_map_)
        BY <1>3, <1>5, <1>6, <3>1, <4>1, <4>2
      <4>3. CASE Forgotten(m)
        BY <1>5, <2>1, <3>1, <4>1, <4>3 DEF Forgotten
      <4> QED BY <4>1, <4>2, <4>3
    <3> QED BY <3>1, <3>2 DEF RightSubrun, m
  <2>3. CASE BeginsSubrun(g)
    <3>1. PICK j \in Subruns : boundary[j] = g /\ subrun_event_map_[g] = j
      BY <2>3 DEF BeginsSubrun
    <3>2. j <= m /\ m \in Subruns
      <4>1. m \in Nat /\ j \in Nat /\ j > 1
        BY <1>2, <1>5
      <4>2. ~ (j > m)
        BY <1>1, <1>2, <2>1, <3>1
      <4> QED BY <1>2, <4>1, <4>2
    <3>3. boundary[m] <= g
      <4>1. CASE boundary[m] \in Keys(subrun_event_map_)
        BY <1>2, <1>3, <1>5, <1>6, <3>2, <4>1
      <4>2. CASE Forgotten(m)
        BY <1>5, <2>1, <3>2, <4>2 DEF Forgotten
      <4> QED BY <1>2, <1>5, <3>2, <4>1, <4>2
    <3>4. j = m
      BY <1>5, <3>1, <3>2, <3>3, BoundaryOrder
    <3> QED BY <1>3, <1>6, <3>1, <3>4 DEF RightSubrun, m
  <2> QED BY <2>1, <2>2, <2>3
<1>7. CASE before = {}
  <2>1. m # 1 => Forgotten(m)
    BY <1>2, <1>7
  <2> QED BY <1>4, <1>7, <2>1 DEF RightSubrun, m
<1> QED BY <1>6, <1>7

\* A source, or the command, enters where a subrun begins.
LEMMA EnterSubrun ==
  ASSUME SubrunInv, resumes <= 1, NEW k \in Subruns,
         subrun_event_map_' = Rollover(subrun_event_map_, boundary[k], k),
         UNCHANGED <<boundary, events, resume, resumes>>
  PROVE  /\ Keys(subrun_event_map_') \in MapKeys
         /\ resumes = 0 =>
              /\ \A x \in Keys(subrun_event_map_') : FromStart(x)' \/ BeginsSubrun(x)'
              /\ FullWhenTrimmed' /\ ReleasedRight'
              /\ \A j \in Subruns : (boundary[j] \in Keys(subrun_event_map_) \/ Forgotten(j) \/ j = k)
                                       => boundary[j] \in Keys(subrun_event_map_') \/ Forgotten(j)'
         /\ resumes = 1 => ResumedOnce'
<1> DEFINE m == subrun_event_map_
           r == subrun_event_map_'
<1>1. Keys(m) \in MapKeys /\ boundary \in Boundaries
  BY DEF SubrunInv, SubrunTypes, MapKeys
<1>2. /\ boundary[k] \in 0 .. MaxSeqID + 1 /\ boundary[k] # 0
      /\ \A j \in Subruns : boundary[j] \in Nat /\ j \in Nat /\ j > 1
  BY <1>1, BoundaryOrder, SubrunConstants
<1>3. /\ Keys(r) \in MapKeys
      /\ \A x \in Keys(r) : \/ x \in Keys(m) /\ r[x] = m[x]
                            \/ x = boundary[k] /\ r[x] = k
  BY <1>1, <1>2, RolloverEntries
<1>4. \A x \in Keys(r) : FromStart(x)' \/ BeginsSubrun(x)' \/ (x \in Keys(m) /\ r[x] = m[x])
  BY <1>3 DEF BeginsSubrun
<1>5. ASSUME resumes = 0
      PROVE  /\ \A x \in Keys(r) : FromStart(x)' \/ BeginsSubrun(x)'
             /\ FullWhenTrimmed' /\ ReleasedRight'
             /\ \A j \in Subruns : (boundary[j] \in Keys(m) \/ Forgotten(j) \/ j = k)
                                      => boundary[j] \in Keys(r) \/ Forgotten(j)'
  <2>1. NotResumed
    BY <1>5 DEF SubrunInv
  <2>2. \A x \in Keys(r) : FromStart(x)' \/ BeginsSubrun(x)'
    BY <1>4, <2>1 DEF NotResumed, FromStart, BeginsSubrun
  <2>3. /\ Cardinality(Keys(r)) <= max_subrun_event_map_length_
        /\ 0 \in Keys(r) \/ Cardinality(Keys(r)) = max_subrun_event_map_length_
        /\ \A y \in Nat : (\A x \in Keys(m) : y < x) => \A x \in Keys(r) : y < x
        /\ \A y \in Keys(m) : y \in Keys(r) \/ \A x \in Keys(r) : y < x
        /\ LastSubrun(m) # k => boundary[k] \in Keys(r) \/ \A x \in Keys(r) : boundary[k] < x
    BY <1>1, <1>2, <2>1, RolloverTrims DEF NotResumed, FullWhenTrimmed
  <2>4. FullWhenTrimmed'
    BY <2>3 DEF FullWhenTrimmed
  <2>5. LastSubrun(m) = k => boundary[k] \in Keys(r)
    <3> SUFFICES ASSUME LastSubrun(m) = k PROVE boundary[k] \in Keys(r)
      OBVIOUS
    <3>1. r = m
      BY DEF Rollover
    <3>2. LastKey(m) \in Keys(m) /\ m[LastKey(m)] = k
      BY <1>1, LastKeyFacts DEF LastSubrun
    <3>3. ~ FromStart(LastKey(m))
      BY <1>2, <3>2 DEF FromStart
    <3>4. BeginsSubrun(LastKey(m))
      BY <2>1, <3>2, <3>3 DEF NotResumed
    <3> QED BY <3>1, <3>2, <3>4 DEF BeginsSubrun
  <2>6. \A j \in Subruns : Forgotten(j) => Forgotten(j)'
    BY <1>2, <2>3 DEF Forgotten
  <2>7. ASSUME NEW j \in Subruns, boundary[j] \in Keys(m) \/ Forgotten(j) \/ j = k
        PROVE  boundary[j] \in Keys(r) \/ Forgotten(j)'
    BY <2>3, <2>5, <2>6, <2>7 DEF Forgotten
  <2>8. ReleasedRight'
    <3> SUFFICES ASSUME NEW e \in SeqIDs, events[e].done = Sources
                 PROVE  RightSubrun(e, events[e].subrun)'
      BY DEF ReleasedRight
    <3>1. RightSubrun(e, events[e].subrun) /\ SubrunOf(e)' = SubrunOf(e)
      BY <2>1 DEF NotResumed, ReleasedRight, SubrunOf
    <3>2. SubrunOf(e) = 1 \/ SubrunOf(e) \in Subruns
      BY <1>1, SubrunOfFacts
    <3>3. CASE SubrunOf(e) = 1
      BY <3>1, <3>3 DEF RightSubrun
    <3>4. CASE SubrunOf(e) \in Subruns
      <4>1. PICK j \in Subruns : j = SubrunOf(e)
        BY <3>4
      <4>2. Forgotten(j) => Forgotten(j)'
        BY <2>6
      <4> QED BY <3>1, <4>1, <4>2 DEF RightSubrun, Forgotten
    <3> QED BY <3>2, <3>3, <3>4
  <2> QED BY <2>2, <2>4, <2>7, <2>8
<1>6. ASSUME resumes = 1 PROVE ResumedOnce'
  <2>1. PICK key \in 1 .. MaxSeqID + 1, v \in 2 .. MaxSubrun + 2 : ResumedAt(key, v)
    BY <1>6 DEF SubrunInv, ResumedOnce
  <2>2. ResumedAt(key, v)'
    BY <1>4, <2>1 DEF ResumedAt, FromStart, BeginsSubrun
  <2> QED BY <2>2 DEF ResumedOnce
<1> QED BY <1>3, <1>5, <1>6

LEMMA SubrunInvInit == RunInit => SubrunInv
<1> SUFFICES ASSUME SubrunInit PROVE SubrunInv
  BY DEF RunInit
<1>1. resumes = 0 /\ resume = NoResume /\ boundary \in Boundaries
  BY DEF SubrunInit
<1>2. Keys(subrun_event_map_) = {0} /\ subrun_event_map_[0] = 1
  BY DEF SubrunInit, NewRunMap, Keys
<1>3. SubrunTypes
  BY <1>1, <1>2, SubrunConstants DEF SubrunInit, SubrunTypes, NewEvent
<1>4. FullWhenTrimmed
  <2>1. Cardinality({0}) = 1
    BY FS_Singleton
  <2> QED BY <1>2, <2>1, SubrunConstants DEF FullWhenTrimmed
<1>5. \A j \in Subruns : boundary[j] >= 2 /\ boundary[j] \in Nat
  BY <1>1, BoundaryOrder, SubrunConstants
<1>6. TellsFirst /\ ToldKept /\ DoneInOrder /\ ReleasedRight
  BY <1>5, SubrunConstants
  DEF SubrunInit, TellsFirst, ToldKept, ToldOf, DoneInOrder, ReleasedRight, NewEvent
<1> QED BY <1>1, <1>2, <1>3, <1>4, <1>6 DEF SubrunInv, NotResumed, FromStart

LEMMA EndOfSubrunInv ==
  ASSUME SubrunInv, NEW s \in Sources, EndOfSubrun(s)
  PROVE  SubrunInv'
<1>1. UNCHANGED <<boundary, events, resume, resumes>>
  BY DEF EndOfSubrun
<1>2. SUFFICES ASSUME resumes <= 1
               PROVE  /\ SubrunTypes'
                      /\ resumes = 0 => NotResumed'
                      /\ resumes = 1 => ResumedOnce'
  BY <1>1 DEF SubrunInv
<1>3. PICK k \in Subruns : /\ boundary[k] = sources[s].next
                          /\ subrun_event_map_' = Rollover(subrun_event_map_, boundary[k], k)
  BY DEF EndOfSubrun, BeginsAt
<1>4. /\ Keys(subrun_event_map_') \in MapKeys
      /\ resumes = 0 =>
           /\ \A x \in Keys(subrun_event_map_') : FromStart(x)' \/ BeginsSubrun(x)'
           /\ FullWhenTrimmed' /\ ReleasedRight'
           /\ \A j \in Subruns : (boundary[j] \in Keys(subrun_event_map_) \/ Forgotten(j) \/ j = k)
                                    => boundary[j] \in Keys(subrun_event_map_') \/ Forgotten(j)'
      /\ resumes = 1 => ResumedOnce'
  BY <1>1, <1>2, <1>3, EnterSubrun
<1>5. SubrunTypes
  BY <1>2 DEF SubrunInv
<1>6. /\ sources' \in [Sources -> [next : 1 .. MaxSeqID + 1, told : BOOLEAN, receiving : BOOLEAN]]
      /\ \A u \in Sources : /\ sources'[u].next = sources[u].next
                            /\ sources'[u].receiving = sources[u].receiving
                            /\ sources'[u].told = (sources[u].told \/ u = s)
  BY <1>5 DEF EndOfSubrun, SubrunTypes
<1>7. SubrunTypes'
  BY <1>1, <1>4, <1>5, <1>6 DEF SubrunTypes, MapKeys
<1>8. ASSUME resumes = 0 PROVE NotResumed'
  <2>1. NotResumed
    BY <1>8 DEF SubrunInv
  <2>2. TellsFirst' /\ DoneInOrder'
    BY <1>1, <1>5, <1>6, <2>1 DEF TellsFirst, DoneInOrder, NotResumed, SubrunTypes
  <2>3. \A u \in Sources : \A j \in ToldOf(u)' : j \in ToldOf(u) \/ j = k
    <3> SUFFICES ASSUME NEW u \in Sources, NEW j \in Subruns,
                        boundary[j] = sources[u].next, u = s, j # k
                 PROVE  FALSE
      BY <1>1, <1>6 DEF ToldOf
    <3> QED BY <1>3, <1>5, BoundaryOrder DEF SubrunTypes
  <2>4. ToldKept'
    <3> SUFFICES ASSUME NEW u \in Sources, NEW j \in ToldOf(u)'
                 PROVE  boundary[j] \in Keys(subrun_event_map_') \/ Forgotten(j)'
      BY <1>1 DEF ToldKept
    <3>1. j \in Subruns
      BY DEF ToldOf
    <3>2. boundary[j] \in Keys(subrun_event_map_) \/ Forgotten(j) \/ j = k
      BY <2>1, <2>3 DEF NotResumed, ToldKept
    <3> QED BY <1>4, <1>8, <3>1, <3>2
  <2> QED BY <1>1, <1>4, <1>8, <2>1, <2>2, <2>4 DEF NotResumed
<1> QED BY <1>4, <1>7, <1>8

LEMMA RolloverCommandInv ==
  ASSUME SubrunInv, rollover_subrun
  PROVE  SubrunInv'
<1>1. UNCHANGED <<boundary, sources, events, resume, resumes>>
  BY DEF rollover_subrun
<1>2. SUFFICES ASSUME resumes <= 1
               PROVE  /\ SubrunTypes'
                      /\ resumes = 0 => NotResumed'
                      /\ resumes = 1 => ResumedOnce'
  BY <1>1 DEF SubrunInv
<1>3. PICK k \in Subruns : subrun_event_map_' = Rollover(subrun_event_map_, boundary[k], k)
  BY DEF rollover_subrun
<1>4. /\ Keys(subrun_event_map_') \in MapKeys
      /\ resumes = 0 =>
           /\ \A x \in Keys(subrun_event_map_') : FromStart(x)' \/ BeginsSubrun(x)'
           /\ FullWhenTrimmed' /\ ReleasedRight'
           /\ \A j \in Subruns : (boundary[j] \in Keys(subrun_event_map_) \/ Forgotten(j) \/ j = k)
                                    => boundary[j] \in Keys(subrun_event_map_') \/ Forgotten(j)'
      /\ resumes = 1 => ResumedOnce'
  BY <1>1, <1>2, <1>3, EnterSubrun
<1>5. SubrunTypes'
  BY <1>1, <1>2, <1>4 DEF SubrunInv, SubrunTypes, MapKeys
<1>6. ASSUME resumes = 0 PROVE NotResumed'
  <2>1. NotResumed
    BY <1>6 DEF SubrunInv
  <2>2. TellsFirst' /\ DoneInOrder'
    BY <1>1, <2>1 DEF TellsFirst, DoneInOrder, NotResumed
  <2>3. ToldKept'
    <3> SUFFICES ASSUME NEW u \in Sources, NEW j \in ToldOf(u)'
                 PROVE  boundary[j] \in Keys(subrun_event_map_') \/ Forgotten(j)'
      BY <1>1 DEF ToldKept
    <3>1. j \in Subruns /\ j \in ToldOf(u)
      BY <1>1 DEF ToldOf
    <3>2. boundary[j] \in Keys(subrun_event_map_) \/ Forgotten(j)
      BY <2>1, <3>1 DEF NotResumed, ToldKept
    <3> QED BY <1>4, <1>6, <3>1, <3>2
  <2> QED BY <1>1, <1>4, <1>6, <2>1, <2>2, <2>3 DEF NotResumed
<1> QED BY <1>4, <1>5, <1>6

\* Subruns are numbers.
LEMMA EntriesAreNumbers ==
  ASSUME SubrunInv, resumes <= 1, NEW k \in Keys(subrun_event_map_)
  PROVE  subrun_event_map_[k] \in Nat
<1>1. FromStart(k) => subrun_event_map_[k] \in Nat
  BY DEF FromStart
<1>2. BeginsSubrun(k) => subrun_event_map_[k] \in Nat
  BY SubrunConstants DEF BeginsSubrun, Subruns
<1>3. CASE resumes = 0
  BY <1>1, <1>2, <1>3 DEF SubrunInv, NotResumed
<1>4. CASE resumes = 1
  <2>1. PICK key \in 1 .. MaxSeqID + 1, v \in 2 .. MaxSubrun + 2 : ResumedAt(key, v)
    BY <1>4 DEF SubrunInv, ResumedOnce
  <2>2. v \in Nat
    BY SubrunConstants
  <2> QED BY <1>1, <1>2, <2>1, <2>2 DEF ResumedAt
<1> QED BY <1>3, <1>4 DEF SubrunInv

LEMMA OpenEventInv ==
  ASSUME SubrunInv, NEW s \in Sources, OpenEvent(s)
  PROVE  SubrunInv'
<1>1. UNCHANGED <<boundary, subrun_event_map_, resume, resumes>>
  BY DEF OpenEvent
<1>2. SUFFICES ASSUME resumes <= 1
               PROVE  SubrunTypes' /\ (resumes = 0 => NotResumed')
  BY <1>1 DEF SubrunInv, ResumedOnce, ResumedAt, FromStart, BeginsSubrun
<1>3. SubrunTypes /\ Keys(subrun_event_map_) \in MapKeys
  BY <1>2 DEF SubrunInv, SubrunTypes, MapKeys
<1> DEFINE e == sources[s].next
<1>4. e \in SeqIDs /\ ~sources[s].receiving /\ (BeginsAt(e) # {} => sources[s].told)
  BY DEF OpenEvent
<1>5. /\ sources' \in [Sources -> [next : 1 .. MaxSeqID + 1, told : BOOLEAN, receiving : BOOLEAN]]
      /\ \A u \in Sources : /\ sources'[u].next = sources[u].next
                            /\ sources'[u].told = sources[u].told
                            /\ sources'[u].receiving = (sources[u].receiving \/ u = s)
  BY <1>3 DEF OpenEvent, SubrunTypes
<1>6. GetSubrunForSequenceID(e) \in Nat
  BY <1>2, <1>3, <1>4, LookupType, EntriesAreNumbers
<1>7. /\ events' \in [SeqIDs -> [subrun : Nat, done : SUBSET Sources, open : BOOLEAN]]
      /\ \A x \in SeqIDs : events'[x].done = events[x].done
      /\ \A x \in SeqIDs : x # e \/ events[x].open => events'[x].subrun = events[x].subrun
      /\ ~events[e].open => events'[e].subrun = GetSubrunForSequenceID(e)
  BY <1>3, <1>4, <1>6 DEF OpenEvent, SubrunTypes
<1>8. SubrunTypes'
  BY <1>1, <1>3, <1>4, <1>5, <1>7 DEF SubrunTypes
<1>9. ASSUME resumes = 0 PROVE NotResumed'
  <2>1. NotResumed
    BY <1>9 DEF SubrunInv
  <2>2. \A k \in Keys(subrun_event_map_') : FromStart(k)' \/ BeginsSubrun(k)'
    BY <1>1, <2>1 DEF NotResumed, FromStart, BeginsSubrun
  <2>3. FullWhenTrimmed'
    BY <1>1, <2>1 DEF NotResumed, FullWhenTrimmed
  <2>4. TellsFirst'
    <3> SUFFICES ASSUME NEW j \in Subruns, boundary[j] = e
                 PROVE  sources[s].told
      BY <1>1, <1>5, <2>1 DEF NotResumed, TellsFirst
    <3> QED BY <1>4 DEF BeginsAt
  <2>5. ToldKept'
    BY <1>1, <1>5, <2>1 DEF NotResumed, ToldKept, ToldOf, Forgotten
  <2>6. DoneInOrder'
    BY <1>5, <1>7, <2>1 DEF NotResumed, DoneInOrder
  <2>7. ReleasedRight'
    <3> SUFFICES ASSUME NEW x \in SeqIDs, events[x].done = Sources
                 PROVE  RightSubrun(x, events'[x].subrun)
      BY <1>1, <1>7 DEF ReleasedRight, RightSubrun, SubrunOf, Forgotten
    <3>1. x # e
      <4>1. x < sources[s].next
        BY <2>1 DEF NotResumed, DoneInOrder
      <4> QED BY <1>4, <4>1, SubrunConstants DEF SeqIDs
    <3>2. RightSubrun(x, events[x].subrun)
      BY <2>1 DEF NotResumed, ReleasedRight
    <3>3. x # e => events'[x].subrun = events[x].subrun
      BY <1>7
    <3> QED BY <3>1, <3>2, <3>3
  <2> QED BY <1>1, <2>1, <2>2, <2>3, <2>4, <2>5, <2>6, <2>7 DEF NotResumed
<1> QED BY <1>8, <1>9

LEMMA FragmentDoneInv ==
  ASSUME SubrunInv, NEW s \in Sources, FragmentDone(s)
  PROVE  SubrunInv'
<1>1. UNCHANGED <<boundary, subrun_event_map_, resume, resumes>>
  BY DEF FragmentDone
<1>2. SUFFICES ASSUME resumes <= 1
               PROVE  SubrunTypes' /\ (resumes = 0 => NotResumed')
  BY <1>1 DEF SubrunInv, ResumedOnce, ResumedAt, FromStart, BeginsSubrun
<1>3. SubrunTypes /\ Keys(subrun_event_map_) \in MapKeys
  BY <1>2 DEF SubrunInv, SubrunTypes, MapKeys
<1> DEFINE e == sources[s].next
<1>4. sources[s].receiving /\ e \in SeqIDs /\ e \in Nat /\ e + 1 \in 1 .. MaxSeqID + 1
  BY <1>3, SubrunConstants DEF FragmentDone, SubrunTypes, SeqIDs
<1>5. /\ sources' \in [Sources -> [next : 1 .. MaxSeqID + 1, told : BOOLEAN, receiving : BOOLEAN]]
      /\ sources'[s].next = e + 1 /\ ~sources'[s].told /\ ~sources'[s].receiving
      /\ \A u \in Sources : u # s => sources'[u] = sources[u]
  BY <1>3, <1>4 DEF FragmentDone, SubrunTypes
<1>6. GetSubrunForSequenceID(e) \in Nat
  BY <1>2, <1>3, <1>4, LookupType, EntriesAreNumbers
<1>7. /\ events' \in [SeqIDs -> [subrun : Nat, done : SUBSET Sources, open : BOOLEAN]]
      /\ \A x \in SeqIDs : x # e => events'[x] = events[x]
      /\ events'[e].done = events[e].done \cup {s}
      /\ events'[e].subrun = GetSubrunForSequenceID(e)
  BY <1>3, <1>4, <1>6 DEF FragmentDone, SubrunTypes
<1>8. SubrunTypes'
  BY <1>1, <1>3, <1>5, <1>7 DEF SubrunTypes
<1>9. ASSUME resumes = 0 PROVE NotResumed'
  <2>1. NotResumed
    BY <1>9 DEF SubrunInv
  <2>2. \A k \in Keys(subrun_event_map_') : FromStart(k)' \/ BeginsSubrun(k)'
    BY <1>1, <2>1 DEF NotResumed, FromStart, BeginsSubrun
  <2>3. FullWhenTrimmed'
    BY <1>1, <2>1 DEF NotResumed, FullWhenTrimmed
  <2>4. TellsFirst'
    BY <1>1, <1>5, <2>1 DEF NotResumed, TellsFirst
  <2>5. \A j \in Subruns : boundary[j] \in Nat
    BY <1>3, BoundaryOrder, SubrunConstants DEF SubrunTypes
  <2>6. \A j \in Subruns : boundary[j] <= e => boundary[j] \in Keys(subrun_event_map_) \/ Forgotten(j)
    BY <1>4, <2>1, <2>5 DEF NotResumed, TellsFirst, ToldKept, ToldOf
  <2>7. ToldKept'
    <3> SUFFICES ASSUME NEW u \in Sources, NEW j \in ToldOf(u)'
                 PROVE  boundary[j] \in Keys(subrun_event_map_) \/ Forgotten(j)
      BY <1>1 DEF ToldKept, Forgotten
    <3>1. j \in Subruns
      BY DEF ToldOf
    <3>2. CASE u # s
      <4>1. j \in ToldOf(u)
        BY <1>1, <1>5, <3>2 DEF ToldOf
      <4> QED BY <2>1, <4>1 DEF NotResumed, ToldKept
    <3>3. CASE u = s
      <4>1. boundary[j] < e + 1
        BY <1>1, <1>5, <3>3 DEF ToldOf
      <4> QED BY <1>4, <2>5, <2>6, <3>1, <4>1
    <3> QED BY <3>2, <3>3
  <2>8. DoneInOrder'
    <3> SUFFICES ASSUME NEW x \in SeqIDs, NEW u \in events'[x].done
                 PROVE  x < sources'[u].next
      BY DEF DoneInOrder
    <3>1. x \in Nat /\ u \in Sources
      BY <1>7, SubrunConstants DEF SeqIDs
    <3>2. CASE u \in events[x].done
      <4>1. x < sources[u].next
        BY <2>1, <3>2 DEF NotResumed, DoneInOrder
      <4>2. CASE u = s
        BY <1>4, <1>5, <3>1, <4>1, <4>2
      <4> QED BY <1>5, <3>1, <4>1, <4>2
    <3>3. CASE u \notin events[x].done
      <4>1. u = s /\ x = e
        BY <1>7, <3>3
      <4> QED BY <1>4, <1>5, <4>1
    <3> QED BY <3>2, <3>3
  <2>9. ReleasedRight'
    <3> SUFFICES ASSUME NEW x \in SeqIDs, events'[x].done = Sources
                 PROVE  RightSubrun(x, events'[x].subrun)
      BY <1>1 DEF ReleasedRight, RightSubrun, SubrunOf, Forgotten
    <3>1. CASE x = e
      BY <1>3, <1>4, <1>7, <2>1, <2>6, <3>1, LookupRight DEF NotResumed, SubrunTypes
    <3>2. CASE x # e
      BY <1>7, <2>1, <3>2 DEF NotResumed, ReleasedRight
    <3> QED BY <3>1, <3>2
  <2> QED BY <1>1, <2>1, <2>2, <2>3, <2>4, <2>7, <2>8, <2>9 DEF NotResumed
<1> QED BY <1>8, <1>9

\* A resume looks for the last entry, and goes on from there.
LEMMA ResumeLooksInv ==
  ASSUME SubrunInv, ResumeLooks
  PROVE  SubrunInv'
<1>1. resumes' = resumes + 1 /\ UNCHANGED <<boundary, subrun_event_map_, sources, events>>
  BY DEF ResumeLooks
<1>2. CASE resumes # 0
  BY <1>1, <1>2 DEF SubrunInv
<1>3. CASE resumes = 0
  <2> DEFINE m    == subrun_event_map_
             last == LastKey(m)
             subruns == {m[k] : k \in Keys(m)}
             top  == CHOOSE n \in subruns : \A k \in Keys(m) : m[k] <= n
  <2>1. SubrunTypes /\ Keys(m) \in MapKeys /\ resumes' = 1
    BY <1>1, <1>3 DEF SubrunInv, SubrunTypes, MapKeys
  <2>2. \A k \in Keys(m) : FromStart(k) \/ BeginsSubrun(k)
    BY <1>3 DEF SubrunInv, NotResumed
  <2>3. /\ \A j \in Subruns : boundary[j] \in 2 .. MaxSeqID /\ j \in Nat /\ j >= 2 /\ j <= MaxSubrun
        /\ \A i, j \in Subruns : i < j <=> boundary[i] < boundary[j]
        /\ \A i, j \in Subruns : boundary[i] = boundary[j] => i = j
    BY <2>1, BoundaryOrder DEF SubrunTypes
  <2>4. last \in Keys(m) /\ \A k \in Keys(m) : k <= last
    BY <2>1, LastKeyFacts
  <2>5. \A k \in Keys(m) : m[k] <= m[last] /\ m[k] \in Nat
    <3> SUFFICES ASSUME NEW k \in Keys(m) PROVE m[k] <= m[last] /\ m[k] \in Nat
      OBVIOUS
    <3>1. CASE FromStart(k)
      <4>1. m[last] \in Nat /\ m[last] >= 1
        BY <2>2, <2>3, <2>4 DEF FromStart, BeginsSubrun
      <4> QED BY <3>1, <4>1 DEF FromStart
    <3>2. CASE BeginsSubrun(k)
      <4>1. PICK j \in Subruns : boundary[j] = k /\ m[k] = j
        BY <3>2 DEF BeginsSubrun
      <4>2. k <= last /\ k >= 2 /\ k \in Nat
        BY <2>3, <2>4, <4>1, SubrunConstants
      <4>3. ~ FromStart(last)
        BY <4>2 DEF FromStart
      <4>4. PICK i \in Subruns : boundary[i] = last /\ m[last] = i
        BY <2>2, <2>4, <4>3 DEF BeginsSubrun
      <4>5. ~ (i < j)
        BY <2>3, <4>1, <4>2, <4>4, SubrunConstants
      <4> QED BY <2>3, <4>1, <4>4, <4>5
    <3> QED BY <2>2, <3>1, <3>2
  <2>6. top = m[last]
    <3>1. m[last] \in subruns /\ \A k \in Keys(m) : m[k] <= m[last]
      BY <2>4, <2>5
    <3>2. top \in subruns /\ \A k \in Keys(m) : m[k] <= top
      BY <3>1
    <3>3. PICK k \in Keys(m) : top = m[k]
      BY <3>2
    <3> QED BY <2>4, <2>5, <3>2, <3>3
  <2>7. resume' = [seqID |-> last + 1, subrun |-> 1 + top]
    BY DEF ResumeLooks
  <2> HIDE DEF last, top
  <2>8. /\ last + 1 \in 1 .. MaxSeqID + 1 /\ 1 + m[last] \in 2 .. MaxSubrun + 2
        /\ \A j \in Subruns : j < 1 + m[last] <=> boundary[j] < last + 1
    <3>1. CASE FromStart(last)
      BY <2>3, <3>1, SubrunConstants DEF FromStart
    <3>2. CASE BeginsSubrun(last)
      <4>1. PICK i \in Subruns : boundary[i] = last /\ m[last] = i
        BY <3>2 DEF BeginsSubrun
      <4>2. last \in Nat /\ last + 1 \in 1 .. MaxSeqID + 1 /\ i \in Nat /\ 1 + i \in 2 .. MaxSubrun + 2
        BY <2>3, <4>1, SubrunConstants
      <4>3. \A j \in Subruns : j < 1 + i <=> boundary[j] < boundary[i] + 1
        <5> SUFFICES ASSUME NEW j \in Subruns PROVE j < 1 + i <=> boundary[j] < boundary[i] + 1
          OBVIOUS
        <5>1. boundary[i] < boundary[j] <=> i < j
          BY <2>3
        <5> QED BY <2>3, <5>1, SubrunConstants
      <4> QED BY <4>1, <4>2, <4>3
    <3> QED BY <2>2, <2>4, <3>1, <3>2
  <2>9. PICK key \in 1 .. MaxSeqID + 1, v \in 2 .. MaxSubrun + 2 : key = last + 1 /\ v = 1 + m[last]
    BY <2>8
  <2>10. ResumedOnce'
    <3>1. ResumedAt(key, v)'
      BY <1>1, <2>2, <2>6, <2>7, <2>8, <2>9 DEF ResumedAt, FromStart, BeginsSubrun
    <3> QED BY <3>1 DEF ResumedOnce
  <2>11. SubrunTypes'
    BY <1>1, <2>1 DEF SubrunTypes
  <2> QED BY <2>1, <2>10, <2>11 DEF SubrunInv
<1> QED BY <1>2, <1>3

LEMMA ResumeEntersInv ==
  ASSUME SubrunInv, ResumeEnters
  PROVE  SubrunInv'
<1>1. /\ resume # NoResume /\ resume' = NoResume
      /\ subrun_event_map_' = Rollover(subrun_event_map_, resume.seqID, resume.subrun)
      /\ UNCHANGED <<boundary, sources, events, resumes>>
  BY DEF ResumeEnters
<1>2. CASE resumes = 1
  <2>1. PICK key \in 1 .. MaxSeqID + 1, v \in 2 .. MaxSubrun + 2 : ResumedAt(key, v)
    BY <1>2 DEF SubrunInv, ResumedOnce
  <2>2. subrun_event_map_' = Rollover(subrun_event_map_, key, v)
    BY <1>1, <2>1 DEF ResumedAt
  <2>3. SubrunTypes /\ Keys(subrun_event_map_) \in MapKeys
    BY <1>2 DEF SubrunInv, SubrunTypes, MapKeys
  <2>4. key \in 0 .. MaxSeqID + 1
    BY SubrunConstants
  <2>5. /\ Keys(subrun_event_map_') \in MapKeys
        /\ \A k \in Keys(subrun_event_map_') :
             \/ k \in Keys(subrun_event_map_) /\ subrun_event_map_'[k] = subrun_event_map_[k]
             \/ k = key /\ subrun_event_map_'[k] = v
    BY <2>2, <2>3, <2>4, RolloverEntries
  <2>6. ResumedAt(key, v)'
    BY <1>1, <2>1, <2>5 DEF ResumedAt, FromStart, BeginsSubrun
  <2>7. SubrunTypes'
    BY <1>1, <2>3, <2>5 DEF SubrunTypes, MapKeys
  <2> QED BY <1>1, <1>2, <2>6, <2>7 DEF SubrunInv, ResumedOnce
<1>3. CASE resumes = 0
  BY <1>1, <1>3 DEF SubrunInv, NotResumed
<1>4. CASE resumes # 0 /\ resumes # 1
  BY <1>1, <1>4 DEF SubrunInv
<1> QED BY <1>2, <1>3, <1>4

LEMMA NextRunInv ==
  ASSUME SubrunInv, NextSubrunRun
  PROVE  SubrunInv'
<1>1. /\ boundary' \in Boundaries /\ subrun_event_map_' = NewRunMap
      /\ sources' = [s \in Sources |-> [next |-> 1, told |-> FALSE, receiving |-> FALSE]]
      /\ events' = [e \in SeqIDs |-> NewEvent]
      /\ resume' = NoResume /\ resumes' = resumes
  BY DEF NextSubrunRun, NewRun
<1>2. Keys(subrun_event_map_') = {0} /\ subrun_event_map_'[0] = 1
  BY <1>1 DEF NewRunMap, Keys
<1>3. SubrunTypes'
  BY <1>1, <1>2, SubrunConstants DEF SubrunTypes, NewEvent
<1>4. FullWhenTrimmed'
  <2>1. Cardinality({0}) = 1
    BY FS_Singleton
  <2> QED BY <1>2, <2>1, SubrunConstants DEF FullWhenTrimmed
<1>5. \A j \in Subruns : boundary'[j] >= 2 /\ boundary'[j] \in Nat /\ j \in Nat /\ j >= 2
  BY <1>1, SubrunConstants DEF Boundaries, Subruns
<1>6. TellsFirst' /\ ToldKept' /\ DoneInOrder' /\ ReleasedRight'
  BY <1>1, <1>5, SubrunConstants
  DEF TellsFirst, ToldKept, ToldOf, DoneInOrder, ReleasedRight, NewEvent
<1>7. NotResumed'
  BY <1>1, <1>2, <1>4, <1>6 DEF NotResumed, FromStart
<1>8. ResumedAt(1, 2)'
  BY <1>1, <1>2, <1>5 DEF ResumedAt, FromStart
<1>9. ResumedOnce'
  <2>1. 1 \in 1 .. MaxSeqID + 1 /\ 2 \in 2 .. MaxSubrun + 2
    BY SubrunConstants
  <2> QED BY <1>8, <2>1 DEF ResumedOnce
<1> QED BY <1>1, <1>3, <1>7, <1>9 DEF SubrunInv

LEMMA SubrunInvNext == SubrunInv /\ [RunNext]_<<part, runVars>> => SubrunInv'
<1> SUFFICES ASSUME SubrunInv, [RunNext]_<<part, runVars>>
             PROVE  SubrunInv'
  OBVIOUS
<1>1. CASE SubrunNext
  BY <1>1, EndOfSubrunInv, RolloverCommandInv, OpenEventInv, FragmentDoneInv, ResumeLooksInv,
     ResumeEntersInv, NextRunInv
  DEF SubrunNext
<1>2. CASE UNCHANGED subrunVars
  <2>1. UNCHANGED <<boundary, subrun_event_map_, sources, events, resume, resumes>>
    BY <1>2 DEF subrunVars
  <2>2. SubrunTypes => SubrunTypes'
    BY <2>1 DEF SubrunTypes
  <2>3. NotResumed => NotResumed'
    <3>1. /\ FullWhenTrimmed => FullWhenTrimmed'
          /\ TellsFirst => TellsFirst'
          /\ DoneInOrder => DoneInOrder'
      BY <2>1 DEF FullWhenTrimmed, TellsFirst, DoneInOrder
    <3>2. ToldKept => ToldKept'
      BY <2>1 DEF ToldKept, ToldOf, Forgotten
    <3>3. ReleasedRight => ReleasedRight'
      BY <2>1 DEF ReleasedRight, RightSubrun, SubrunOf, Forgotten
    <3> QED BY <2>1, <3>1, <3>2, <3>3 DEF NotResumed, FromStart, BeginsSubrun
  <2>4. ResumedOnce => ResumedOnce'
    BY <2>1 DEF ResumedOnce, ResumedAt, FromStart, BeginsSubrun
  <2> QED BY <2>1, <2>2, <2>3, <2>4 DEF SubrunInv
<1> QED BY <1>1, <1>2 DEF RunNext, runVars

\* Later entries are of later subruns.
LEMMA MapAscends ==
  ASSUME SubrunInv, resumes <= 1,
         NEW j \in Keys(subrun_event_map_), NEW k \in Keys(subrun_event_map_), j < k
  PROVE  subrun_event_map_[j] <= subrun_event_map_[k]
<1>1. SubrunTypes
  BY DEF SubrunInv
<1>2. /\ \A i \in Subruns : boundary[i] \in Nat /\ i \in Nat /\ i >= 2
      /\ \A i, n \in Subruns : i < n <=> boundary[i] < boundary[n]
  BY <1>1, BoundaryOrder, SubrunConstants DEF SubrunTypes
<1>3. j \in Nat /\ k \in Nat /\ k # 0
  BY <1>1, SubrunConstants DEF SubrunTypes
<1>4. PICK key \in Nat, v \in Nat :
        /\ v >= 2
        /\ \A i \in Subruns : i < v <=> boundary[i] < key
        /\ \A x \in Keys(subrun_event_map_) :
              FromStart(x) \/ BeginsSubrun(x) \/ (x = key /\ subrun_event_map_[x] = v)
  <2>1. CASE resumes = 0
    <3>1. \A i \in Subruns : i < 2 <=> boundary[i] < 0
      BY <1>2
    <3>2. \A x \in Keys(subrun_event_map_) : FromStart(x) \/ BeginsSubrun(x)
      BY <2>1 DEF SubrunInv, NotResumed
    <3> QED BY <3>1, <3>2
  <2>2. CASE resumes = 1
    <3>1. PICK key \in 1 .. MaxSeqID + 1, v \in 2 .. MaxSubrun + 2 : ResumedAt(key, v)
      BY <2>2 DEF SubrunInv, ResumedOnce
    <3>2. key \in Nat /\ v \in Nat /\ v >= 2
      BY SubrunConstants
    <3> QED BY <3>1, <3>2 DEF ResumedAt
  <2> QED BY <2>1, <2>2 DEF SubrunInv
<1> DEFINE m == subrun_event_map_
<1>5. CASE FromStart(j)
  <2>1. m[k] \in Nat /\ m[k] >= 1
    BY <1>2, <1>3, <1>4 DEF FromStart, BeginsSubrun
  <2> QED BY <1>5, <2>1 DEF FromStart
<1>6. CASE BeginsSubrun(j)
  <2>1. PICK i \in Subruns : boundary[i] = j /\ m[j] = i
    BY <1>6 DEF BeginsSubrun
  <2>2. CASE BeginsSubrun(k)
    <3>1. PICK n \in Subruns : boundary[n] = k /\ m[k] = n
      BY <2>2 DEF BeginsSubrun
    <3> QED BY <1>2, <2>1, <3>1
  <2>3. CASE k = key /\ m[k] = v
    BY <1>2, <1>4, <2>1, <2>3
  <2> QED BY <1>3, <1>4, <2>2, <2>3 DEF FromStart
<1>7. CASE j = key /\ m[j] = v
  <2>1. CASE BeginsSubrun(k)
    <3>1. PICK n \in Subruns : boundary[n] = k /\ m[k] = n
      BY <2>1 DEF BeginsSubrun
    <3>2. ~ (boundary[n] < key)
      BY <1>2, <1>3, <1>7, <3>1
    <3> QED BY <1>2, <1>4, <1>7, <3>1, <3>2
  <2>2. CASE k = key
    BY <1>3, <1>7, <2>2
  <2> QED BY <1>3, <1>4, <2>1, <2>2 DEF FromStart
<1> QED BY <1>4, <1>5, <1>6, <1>7

\* However many sources and subruns there are, and however far one source is ahead of another:
\* events are released in the subrun they belong to unless it was trimmed off the map, and the
\* map goes forward also if the subruns are told of while a resume is under way.
THEOREM EventsAlwaysInSubrun == RunSpec => []EventsInSubrun
<1>1. SubrunInv => EventsInSubrun
  <2> SUFFICES ASSUME SubrunInv PROVE EventsInSubrun
    OBVIOUS
  <2>1. resumes = 0 => \A e \in SeqIDs : events[e].done = Sources =>
          events[e].subrun = SubrunOf(e) \/ (events[e].subrun = 1 /\ Forgotten(SubrunOf(e)))
    BY DEF SubrunInv, NotResumed, ReleasedRight, RightSubrun
  <2>2. resumes <= 1 => \A j, k \in Keys(subrun_event_map_) :
          j < k => subrun_event_map_[j] <= subrun_event_map_[k]
    BY MapAscends
  <2> QED BY <2>1, <2>2 DEF EventsInSubrun
<1> QED BY SubrunInvInit, SubrunInvNext, <1>1, PTL DEF RunSpec
=============================================================================
