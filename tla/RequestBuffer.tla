----------------------------- MODULE RequestBuffer -----------------------------
(***************************************************************************)
(* The data requests a board reader has received and not yet served        *)
(* (artdaq/DAQrate/RequestBuffer.cc), as its two users see it: the thread  *)
(* of RequestReceiver pushes requests, in any order and any number of      *)
(* times, and the thread of FragmentBuffer removes the requests it has     *)
(* served.  Every operation holds request_mutex_, so each is one action.   *)
(*                                                                         *)
(* Left out: the time stamp a request carries (the first one received is   *)
(* kept), its time of arrival, and GetNextRequest, ClearRequests and       *)
(* GetAndClearRequests, which nothing in artdaq/ calls.                    *)
(***************************************************************************)
EXTENDS Integers, FiniteSets

CONSTANTS
  MaxID,      \* bound: sequence IDs 1..MaxID are requested
  Increment,  \* request_increment_
  HalfInt     \* an int holds -HalfInt .. HalfInt-1

ID == 1..MaxID

ASSUME BufferConstants ==
  MaxID \in Nat /\ Increment \in Nat \ {0} /\ HalfInt \in Nat \ {0}

VARIABLES
  requests,     \* requests_: the IDs that wait to be served
  highestSeen,  \* highest_seen_request_
  outOfOrder,   \* out_of_order_requests_
  served        \* history: the IDs removed since the last reset

bufferVars == <<requests, highestSeen, outOfOrder, served>>

BufferInit == requests = {} /\ highestSeen = 0 /\ outOfOrder = {} /\ served = {}

\* The value of "int delta" for a difference d of two 64 bit sequence IDs.
AsInt(d) == ((d + HalfInt) % (2 * HalfInt)) - HalfInt

\* Mutant: requests served out of order are not remembered.
AlreadyServedInOrderOnly(id) == AsInt(id - highestSeen) <= 0

AlreadyServed(id) == AsInt(id - highestSeen) <= 0 \/ id \in outOfOrder

\* push: ignore a request that waits already, or that was already served.
Push(id) ==
  /\ requests' = IF id \in requests \/ AlreadyServed(id) THEN requests ELSE requests \cup {id}
  /\ UNCHANGED <<highestSeen, outOfOrder, served>>

\* How many of S are not above x.
Rank(S, x) == Cardinality({z \in S : z <= x})

\* The run of consecutive requests that S, counted from h, begins with: the loop of
\* RemoveRequest takes them off out_of_order_requests_ from its lowest entry on.
Consecutive(S, h) ==
  {x \in S : \A y \in S : y <= x => y = h + Increment * Rank(S, y)}

\* Mutant: the gap before the run is overlooked.
AdvancePastGap(S) ==
  /\ highestSeen' = highestSeen + Increment * Cardinality(S)
  /\ outOfOrder' = {}

\* highest_seen_request_ moves to the last request of the run, which is forgotten.
Advance(S) ==
  LET run == Consecutive(S, highestSeen)
  IN /\ highestSeen' = highestSeen + Increment * Cardinality(run)
     /\ outOfOrder' = S \ run

RemoveRequest(id) ==
  /\ requests' = requests \ {id}
  /\ served' = served \cup {id}
  /\ IF id > highestSeen THEN Advance(outOfOrder \cup {id})
     ELSE UNCHANGED <<highestSeen, outOfOrder>>

\* reset, at the start of receiveRequestsLoop.
Reset ==
  /\ requests' = {} /\ highestSeen' = 0 /\ outOfOrder' = {} /\ served' = {}

BufferNext == (\E id \in ID : Push(id) \/ RemoveRequest(id)) \/ Reset

BufferSpec == BufferInit /\ [][BufferNext]_bufferVars
-------------------------------------------------------------------------------
(* Properties *)

BufferTypeOK ==
  /\ requests \subseteq ID /\ served \subseteq ID /\ outOfOrder \subseteq ID
  /\ highestSeen \in Nat

\* A request that was served is remembered, in order or out of order, until the next
\* reset: however late it comes again, it is not served again.
ServedNotWaiting == requests \cap served = {}

\* Conversely no request is taken for served that was not, as long as the requests
\* that are served are multiples of Increment: nothing is ever withheld from an event.
OnlyServedIgnored ==
  (\A id \in served \cup requests : id % Increment = 0) =>
    \A id \in ID : id % Increment = 0 /\ AlreadyServed(id) => id \in served
=============================================================================
