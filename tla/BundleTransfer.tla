---------------------------- MODULE BundleTransfer ----------------------------
(***************************************************************************)
(* BundleTransfer: Fragments are held in a bundle, which is sent over a    *)
(* TCPSocketTransfer when it is old or large enough, by the sending thread *)
(* or by a thread of the plugin that looks after its age, and taken apart  *)
(* by the receiver.                                                        *)
(*                                                                         *)
(* The age and the size of a bundle are not counted: it may be due or not  *)
(* whenever it is looked at.  What TCPSocketTransfer took arrives, whole   *)
(* and in order; it may also refuse.                                       *)
(***************************************************************************)
EXTENDS Integers, Sequences, Sorting

CONSTANT BundleFrags    \* the Fragments sent: 1 .. BundleFrags

ASSUME BundleAssumption == BundleFrags \in Nat

VARIABLES
  bundle,    \* bundle_fragment_ of the sender, << >> when there is none
  bsnd,      \* the calls of the sender, and its destructor
  last_send_call_reliable_,
  tmo,       \* send_timeout_thread_running_, and whether the thread is there
  holder,    \* who holds fragment_mutex_ while it tries to send without being reliable
  bwire,     \* the bundles sent
  brcv,      \* bundle_fragment_ and current_block_index_ of the receiver, and the call
  bgot,      \* the Fragments received: their header and their data
  dropped    \* the Fragments of bundles that were not sent

bundleVars == <<bundle, bsnd, last_send_call_reliable_, tmo, holder, bwire, brcv, bgot, dropped>>
senderVars == <<bundle, bsnd, last_send_call_reliable_, tmo, holder, dropped>>
receiverVars == <<brcv, bgot>>

BundleInit ==
  /\ bundle = << >>
  /\ bsnd = [pc |-> "idle", next |-> 1]
  /\ last_send_call_reliable_ = TRUE
  /\ tmo = [running |-> TRUE, up |-> TRUE]
  /\ holder = "nobody"
  /\ bwire = << >>
  /\ brcv = [bundle |-> << >>, index |-> 0, header |-> 0]
  /\ bgot = << >>
  /\ dropped = {}

-----------------------------------------------------------------------------
(***************************************************************************)
(* The sender.  A call says which mode it has before it takes the mutex,   *)
(* adds its Fragment, lets go of the mutex and takes it again to send.     *)
(***************************************************************************)
transfer_fragment ==
  /\ bsnd.pc = "idle" /\ bsnd.next <= BundleFrags
  /\ last_send_call_reliable_' \in BOOLEAN
  /\ bsnd' = [bsnd EXCEPT !.pc = "add"]
  /\ UNCHANGED <<bundle, tmo, holder, bwire, receiverVars, dropped>>

addFragment ==
  /\ bsnd.pc = "add" /\ holder = "nobody"
  /\ bundle' = Append(bundle, bsnd.next)
  /\ bsnd' = [pc |-> "send", next |-> bsnd.next + 1]
  /\ UNCHANGED <<last_send_call_reliable_, tmo, holder, bwire, receiverVars, dropped>>

\* ~BundleTransfer: the thread is told to end and waited for, then what is left is sent.
Destroy ==
  /\ bsnd.pc = "idle"
  /\ bsnd' = [bsnd EXCEPT !.pc = "join"]
  /\ tmo' = [tmo EXCEPT !.running = FALSE]
  /\ UNCHANGED <<bundle, last_send_call_reliable_, holder, bwire, receiverVars, dropped>>

send_timeout_thread_ends ==
  /\ tmo.up /\ ~tmo.running /\ holder # "timeout"
  /\ tmo' = [tmo EXCEPT !.up = FALSE]
  /\ UNCHANGED <<bundle, bsnd, last_send_call_reliable_, holder, bwire, receiverVars, dropped>>

\* Who may call send_bundle_fragment_, and where the call leaves it.
May(who) ==
  CASE who = "sender"     -> bsnd.pc = "send"
    [] who = "timeout"    -> tmo.up
    [] who = "destructor" -> bsnd.pc = "join" /\ ~tmo.up
Returns(who) ==
  bsnd' = CASE who = "sender"     -> [bsnd EXCEPT !.pc = "idle"]
            [] who = "timeout"    -> bsnd
            [] who = "destructor" -> [bsnd EXCEPT !.pc = "gone"]

Keeps ==
  UNCHANGED <<bundle, last_send_call_reliable_, tmo, holder, bwire, receiverVars, dropped>>

\* Nothing to send: somebody else sent the Fragment meanwhile; an error all the same.
NoBundle(who) ==
  /\ May(who) /\ holder = "nobody" /\ bundle = << >>
  /\ Returns(who) /\ Keeps

\* Neither old nor large enough.  The destructor forces it.
NotDue(who) ==
  /\ May(who) /\ holder = "nobody" /\ bundle # << >> /\ who # "destructor"
  /\ Returns(who) /\ Keeps

SendsOrDrops(ok) ==
  /\ bwire' = IF ok THEN Append(bwire, bundle) ELSE bwire
  /\ dropped' = IF ok THEN dropped ELSE dropped \cup Elements(bundle)
  /\ bundle' = << >>

\* One attempt, after which the bundle is gone whether it was sent or not.
SendReliable(who) ==
  /\ May(who) /\ holder = "nobody" /\ bundle # << >> /\ last_send_call_reliable_
  /\ \E ok \in BOOLEAN : SendsOrDrops(ok)
  /\ Returns(who)
  /\ UNCHANGED <<last_send_call_reliable_, tmo, holder, receiverVars>>

\* Attempts until one succeeds, with the mutex held.
BeginMinBlocking(who) ==
  /\ May(who) /\ holder = "nobody" /\ bundle # << >> /\ ~last_send_call_reliable_
  /\ holder' = who
  /\ UNCHANGED <<bundle, bsnd, last_send_call_reliable_, tmo, bwire, receiverVars, dropped>>

\* They also end when the thread is told to, which the destructor has done before its own.
EndMinBlocking(who) ==
  /\ holder = who
  /\ SendsOrDrops(tmo.running)
  /\ holder' = "nobody"
  /\ Returns(who)
  /\ UNCHANGED <<last_send_call_reliable_, tmo, receiverVars>>

-----------------------------------------------------------------------------
(***************************************************************************)
(* The receiver.                                                           *)
(***************************************************************************)
receive_bundle_fragment_ ==
  /\ brcv.bundle = << >> /\ bwire # << >>
  /\ brcv' = [brcv EXCEPT !.bundle = Head(bwire), !.index = 0]
  /\ bwire' = Tail(bwire)
  /\ UNCHANGED <<senderVars, bgot>>

Block == IF brcv.index < Len(brcv.bundle) THEN brcv.bundle[brcv.index + 1] ELSE 0
Next_ == [brcv EXCEPT !.index = @ + 1, !.header = 0,
                      !.bundle = IF brcv.index + 1 >= Len(@) THEN << >> ELSE @]

ReceiveBundledHeader ==
  /\ brcv.bundle # << >> /\ brcv.header = 0
  /\ brcv' = [brcv EXCEPT !.header = Block]
  /\ UNCHANGED <<senderVars, bwire, bgot>>

ReceiveBundledData ==
  /\ brcv.bundle # << >> /\ brcv.header # 0
  /\ bgot' = Append(bgot, [header |-> brcv.header, data |-> Block])
  /\ brcv' = Next_
  /\ UNCHANGED <<senderVars, bwire>>

ReceiveBundled ==
  /\ brcv.bundle # << >> /\ brcv.header = 0
  /\ bgot' = Append(bgot, [header |-> Block, data |-> Block])
  /\ brcv' = Next_
  /\ UNCHANGED <<senderVars, bwire>>

BundleNext ==
  \/ transfer_fragment \/ addFragment \/ Destroy \/ send_timeout_thread_ends
  \/ \E who \in {"sender", "timeout", "destructor"} :
       NoBundle(who) \/ NotDue(who) \/ SendReliable(who) \/ BeginMinBlocking(who) \/ EndMinBlocking(who)
  \/ receive_bundle_fragment_ \/ ReceiveBundledHeader \/ ReceiveBundledData \/ ReceiveBundled

-----------------------------------------------------------------------------
Added == bsnd.next - 1
Rest == SubSeq(brcv.bundle, brcv.index + 1, Len(brcv.bundle))

\* What was received, what the receiver has left of its bundle, what was sent, what waits.
BundleStages == <<[i \in DOMAIN bgot |-> bgot[i].data], Rest>> \o bwire \o <<bundle>>

\* Whoever sends a bundle, and in whatever mode, each Fragment that was added is received
\* once, in order, its data under its own header, unless its bundle was dropped as a
\* whole: at any time the rest is under way, and nothing else is.
BundleInOrder ==
  /\ \A i \in DOMAIN bgot : bgot[i].header = bgot[i].data
  /\ AllRising(BundleStages)
  /\ AllElements(BundleStages) = (1 .. Added) \ dropped
=============================================================================
