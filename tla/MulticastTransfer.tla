-------------------------- MODULE MulticastTransfer --------------------------
(***************************************************************************)
(* MulticastTransfer: a Fragment is cut into subfragments, sent in batches *)
(* as UDP datagrams, and put together by the receiver, which counts the    *)
(* subfragments of the Fragment it is at.  The network loses, reorders and *)
(* repeats datagrams.                                                      *)
(***************************************************************************)
EXTENDS Integers, FiniteSets

CONSTANTS MulticastFrags,         \* the Fragments sent, in order
          num_subfragments,       \* of each of them
          subfragments_per_send_

ASSUME MulticastAssumption ==
  /\ MulticastFrags \in Nat /\ num_subfragments \in Nat \ {0}
  /\ subfragments_per_send_ \in Nat \ {0}

VARIABLES
  sending,  \* the next Fragment and batch to send
  net,      \* the datagrams under way
  mc,       \* current_sequenceID, which outlives the call, and the counters of the call
  slots,    \* the Fragment whose bytes are in each part of the one being filled
  mcGot,    \* the Fragment received last, and its parts
  repeated  \* the network repeated a datagram

mcVars == <<sending, net, mc, slots, mcGot, repeated>>

Sub == 0 .. num_subfragments - 1
Unknown == num_subfragments + 1     \* numeric_limits<size_t>::max()
Untouched == [s \in Sub |-> 0]

MulticastInit ==
  /\ sending = [frag |-> 1, batch |-> 0]
  /\ net = {}
  /\ mc = [cur |-> 0, count |-> 0, expected |-> 0, pc |-> "idle", buffer |-> FALSE]
  /\ slots = Untouched
  /\ mcGot = [frag |-> 0, slots |-> Untouched]
  /\ repeated = FALSE

\* book_container_of_buffers: the subfragments of a batch.
FirstOf(batch) == batch * subfragments_per_send_
LastOf(batch) == IF FirstOf(batch + 1) >= num_subfragments THEN num_subfragments - 1 ELSE FirstOf(batch + 1) - 1
Batch(batch) == FirstOf(batch) .. LastOf(batch)

transfer_fragment_min_blocking_mode ==
  /\ sending.frag <= MulticastFrags
  /\ net' = net \cup {[frag |-> sending.frag, subs |-> Batch(sending.batch)]}
  /\ sending' = IF LastOf(sending.batch) = num_subfragments - 1
                THEN [frag |-> sending.frag + 1, batch |-> 0]
                ELSE [sending EXCEPT !.batch = @ + 1]
  /\ UNCHANGED <<mc, slots, mcGot, repeated>>

LoseDatagram ==
  /\ \E d \in net : net' = net \ {d}
  /\ UNCHANGED <<sending, mc, slots, mcGot, repeated>>

\* receiveFragment into a Fragment of its own (buffer: into fragment_buffer_, for
\* receiveFragmentHeader).
StartReceive ==
  /\ mc.pc = "idle"
  /\ mc' = [mc EXCEPT !.count = 0, !.expected = 0, !.pc = "receive"]
  /\ slots' = Untouched
  /\ UNCHANGED <<sending, net, mcGot, repeated>>

StartReceiveHeader ==
  /\ mc.pc = "idle" /\ ~mc.buffer
  /\ mc' = [mc EXCEPT !.count = 0, !.expected = 0, !.pc = "receive", !.buffer = TRUE]
  /\ slots' = Untouched
  /\ UNCHANGED <<sending, net, mcGot, repeated>>

\* The second call finds what the first left in fragment_buffer_, and throws.
ReceiveHeaderThrows ==
  /\ mc.pc = "idle" /\ mc.buffer
  /\ mc' = [mc EXCEPT !.pc = "thrown"]
  /\ UNCHANGED <<sending, net, slots, mcGot, repeated>>

\* Another Fragment begins, with whatever batch of it comes first.
Restart(d) == [mc EXCEPT !.count = 0, !.expected = Unknown, !.cur = d.frag]

\* receive_from and the loop over the subfragments of a datagram.  One subfragment of
\* another Fragment makes the call give up; the datagram that showed it is spent.
ReceiveDatagram ==
  /\ mc.pc = "receive"
  /\ \E d \in net, again \in BOOLEAN :
       LET other     == d.frag # mc.cur
           truncated == other /\ mc.count < mc.expected
           at        == IF other THEN Restart(d) ELSE mc
           expected  == IF 0 \in d.subs THEN num_subfragments ELSE at.expected
           \* it may pass the number expected within a datagram
           complete  == /\ expected # Unknown
                        /\ expected \in at.count + 1 .. at.count + Cardinality(d.subs)
       IN  /\ again => ~repeated    \* bound
           /\ net' = IF again THEN net ELSE net \ {d}
           /\ repeated' = (repeated \/ again)
           /\ slots' = [s \in Sub |-> IF s \in d.subs THEN d.frag ELSE slots[s]]
           /\ mc' = [at EXCEPT !.expected = expected, !.count = at.count + Cardinality(d.subs),
                               !.pc = IF truncated \/ complete THEN "idle" ELSE "receive"]
           /\ mcGot' = IF complete /\ ~truncated THEN [frag |-> at.cur, slots |-> slots'] ELSE mcGot
  /\ UNCHANGED sending

MulticastNext ==
  \/ transfer_fragment_min_blocking_mode \/ LoseDatagram
  \/ StartReceive \/ StartReceiveHeader \/ ReceiveHeaderThrows \/ ReceiveDatagram

-----------------------------------------------------------------------------
\* A Fragment that is received has every part, and no part of another, if no datagram
\* was repeated: the receiver counts subfragments and does not look which they are.
MulticastWhole ==
  ~repeated => \A s \in Sub : mcGot.slots[s] = mcGot.frag
=============================================================================
