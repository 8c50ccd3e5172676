------------------------------- MODULE DataLink -------------------------------
(***************************************************************************)
(* From a DataSenderManager to the receiver thread each destination has    *)
(* for it (DataReceiverManager::runReceiver_).  The sender counts what it  *)
(* sends to each destination and says how much that was when it goes away; *)
(* the thread ends once it has received as much and nobody is connected,   *)
(* or some time after the run was stopped.  The destinations do not        *)
(* interact: the module has the thread of one of them, any of them.        *)
(*                                                                         *)
(* A transfer plugin answers that the Fragment is on its way, or that it   *)
(* could not be sent, and then nothing of it arrives (TCPSocketTransfer    *)
(* has a module of its own).  Where a Fragment goes in the shared memory   *)
(* is the matter of SharedMemoryEventManager: here there is room or not.   *)
(* Left out: the body of a system Fragment that fails, which ends the      *)
(* process, DATA_END, and destinations enabled that are not configured.    *)
(***************************************************************************)
EXTENDS Integers, Sequences, FiniteSets

CONSTANTS LinkDests,    \* enabled_destinations_: ranks 1 .. LinkDests
          LinkFrags,    \* bound: the Fragments 1 .. LinkFrags are sent
          LinkRetries,  \* send_retry_count_
          MaxManagers,  \* bound: the DataSenderManagers, one after the other
          MaxFailures   \* bound: bodies and connections that are lost

ASSUME LinkAssumption ==
  /\ {LinkDests, MaxManagers} \subseteq Nat \ {0}
  /\ {LinkFrags, LinkRetries, MaxFailures} \subseteq Nat

VARIABLES
  lconf,           \* broadcast_sends_ or non_blocking_mode_ or neither; the destination whose thread this is
  lsnd,            \* the sender: managers so far, next Fragment, destinations left for it, tries
  sent_frag_count_,
  linked,          \* is the sender's plugin connected to the destination
  lwire,           \* what is under way to the destination
  lthread,         \* the receiver thread: running, endOfDataCount (-1: none), recv_frag_count_
  stop_requested_,
  missing,         \* history: the Fragments delivered to the plugin of a thread that runs, and not in memory
  counts,          \* history: may the counts of both sides "agree", "differ", or was an EndOfData "lost"
  lfailures

linkVars == <<lconf, lsnd, sent_frag_count_, linked, lwire, lthread, stop_requested_, missing, counts, lfailures>>

LinkDest == 1 .. LinkDests
ThreadEnded == ~lthread.running
Differ == IF counts = "agree" THEN "differ" ELSE counts

LinkInit ==
  /\ lconf \in [mode : {"broadcast", "nonblocking", "blocking"}, dest : LinkDest]
  /\ lsnd = [managers |-> 1, next |-> 1, pc |-> "idle", todo |-> {}, type |-> "Data", retries |-> 0]
  /\ sent_frag_count_ = [d \in LinkDest |-> 0]
  /\ linked = FALSE /\ lwire = << >>
  /\ lthread = [running |-> TRUE, eod |-> -1, recv |-> 0]
  /\ stop_requested_ = FALSE
  /\ missing = {} /\ counts = "agree" /\ lfailures = 0

-----------------------------------------------------------------------------
(* The sender *)

senderOnly == <<lconf, lthread, stop_requested_, lfailures>>

\* calcDest_, without a routing manager.
CalcDest(seq) == (seq % LinkDests) + 1

\* sendFragment: Init, EndOfRun and EndOfSubrun go to all, as does everything if so
\* configured.
SendFragmentTo ==
  /\ lsnd.pc = "idle" /\ lsnd.next <= LinkFrags /\ ~ThreadEnded    \* bound: nobody reads it
  /\ \E type \in {"Data", "System"} :
       lsnd' = [lsnd EXCEPT !.next = @ + 1, !.type = type, !.pc = "send",
         !.todo = IF lconf.mode = "broadcast" \/ type = "System" THEN LinkDest ELSE {CalcDest(lsnd.next)}]
  /\ UNCHANGED <<senderOnly, sent_frag_count_, linked, lwire, missing, counts>>

\* May the send be tried again?  A broadcast only after a timeout, a Fragment for one
\* destination after any failure, in reliable mode not at all.
Broadcasts == lconf.mode = "broadcast" \/ lsnd.type = "System"
Again(sts) ==
  /\ sts # "Success" /\ lsnd.retries < LinkRetries
  /\ IF Broadcasts THEN sts = "Timeout" ELSE lconf.mode = "nonblocking"

\* Each destination tried is counted, whatever came of it.
Counts(d) == [sent_frag_count_ EXCEPT ![d] = @ + 1]

\* What is delivered goes to the thread; once that has ended nobody reads it.
Deliver(message) ==
  /\ linked' = TRUE
  /\ lwire' = IF ThreadEnded THEN lwire ELSE Append(lwire, message)

\* One try for one destination; after the last the next Fragment may come.
Attempt(d, sts) ==
  /\ lsnd.pc = "send" /\ d \in lsnd.todo /\ \A x \in lsnd.todo : d <= x
  /\ IF Again(sts)
     THEN /\ lsnd' = [lsnd EXCEPT !.retries = @ + 1]
          /\ UNCHANGED sent_frag_count_
     ELSE /\ lsnd' = [lsnd EXCEPT !.todo = @ \ {d}, !.retries = 0,
                                  !.pc = IF lsnd.todo = {d} THEN "idle" ELSE "send",
                                  !.type = IF lsnd.todo = {d} THEN "Data" ELSE @]
          /\ sent_frag_count_' = Counts(d)
  /\ IF d = lconf.dest /\ sts = "Success"
     THEN /\ Deliver([type |-> lsnd.type, n |-> lsnd.next - 1])
          /\ missing' = IF lsnd.type = "Data" /\ ~ThreadEnded THEN missing \cup {lsnd.next - 1} ELSE missing
     ELSE UNCHANGED <<linked, lwire, missing>>
  /\ counts' = IF d # lconf.dest \/ Again(sts) \/ (sts = "Success" /\ lsnd.type = "Data")
               THEN counts ELSE Differ
  /\ UNCHANGED senderOnly

\* Mutant: the count of all destinations.
EodCount_all(d) ==
  LET Sum[i \in 0 .. LinkDests] == IF i = 0 THEN 0 ELSE Sum[i - 1] + sent_frag_count_[i]
  IN  Sum[LinkDests]

\* The EndOfData Fragment for d.
EodCount(d) == sent_frag_count_[d]

\* The destructor sends it to all destinations.
DestroySender ==
  /\ lsnd.pc = "idle"
  /\ lsnd' = [lsnd EXCEPT !.pc = "eod", !.todo = LinkDest]
  /\ UNCHANGED <<senderOnly, sent_frag_count_, linked, lwire, missing, counts>>

SendEod(d, ok) ==
  /\ lsnd.pc = "eod" /\ d \in lsnd.todo /\ \A x \in lsnd.todo : d <= x
  /\ lsnd' = [lsnd EXCEPT !.todo = @ \ {d}]
  /\ IF d = lconf.dest /\ ok THEN Deliver([type |-> "EndOfData", n |-> EodCount(d)])
                              ELSE UNCHANGED <<linked, lwire>>
  /\ counts' = IF d = lconf.dest /\ ~ok THEN "lost" ELSE counts
  /\ UNCHANGED <<senderOnly, sent_frag_count_, missing>>

\* The plugins close their connections; the counts are gone as well.
SenderGone ==
  /\ lsnd.pc = "eod" /\ lsnd.todo = {}
  /\ lsnd' = [lsnd EXCEPT !.pc = "gone"]
  /\ linked' = FALSE
  /\ sent_frag_count_' = [d \in LinkDest |-> 0]
  /\ UNCHANGED <<senderOnly, lwire, missing, counts>>

\* The next run, or the art process that takes the place of one that ended, has a new one.
NewSender ==
  /\ lsnd.pc = "gone" /\ lsnd.managers < MaxManagers /\ ~ThreadEnded
  /\ lsnd' = [lsnd EXCEPT !.pc = "idle", !.managers = @ + 1]
  /\ UNCHANGED <<senderOnly, sent_frag_count_, linked, lwire, missing, counts>>

LinkSender ==
  \/ SendFragmentTo \/ DestroySender \/ SenderGone \/ NewSender
  \/ \E d \in LinkDest, sts \in {"Success", "Timeout", "Error"} :
       (sts = "Success" \/ d = lconf.dest) /\ Attempt(d, sts)    \* bound: the others take all
  \/ \E d \in LinkDest, ok \in BOOLEAN : (ok \/ d = lconf.dest) /\ SendEod(d, ok)

-----------------------------------------------------------------------------
(* The receiver *)

receiverOnly == <<lconf, lsnd, sent_frag_count_, linked>>

\* isRunning of the plugin: a sender is connected, or left something unread.
IsRunning == linked \/ lwire # << >>

\* The thread flushes its buffers and is not running any longer.
EndThread ==
  /\ lthread' = [lthread EXCEPT !.running = FALSE]
  /\ lwire' = << >>

\* endOfDataCount <= recv_frag_count_; without an EndOfData Fragment it is the greatest number.
AllReceived == lthread.eod # -1 /\ lthread.eod <= lthread.recv

EndByCount ==
  /\ lthread.running
  /\ AllReceived /\ ~IsRunning
  /\ EndThread
  /\ UNCHANGED <<receiverOnly, stop_requested_, missing, counts, lfailures>>

\* stop_timeout_ms_ after the stop, whatever is still coming.
EndByTimeout ==
  /\ lthread.running /\ stop_requested_
  /\ EndThread
  /\ UNCHANGED <<receiverOnly, stop_requested_, missing, counts, lfailures>>

NextIsData == lthread.running /\ lwire # << >> /\ Head(lwire).type = "Data"

\* receiveFragmentHeader of a data Fragment; there is room for it, and its body comes.
ReceiveData ==
  /\ NextIsData
  /\ lthread' = [lthread EXCEPT !.recv = @ + 1]
  /\ missing' = missing \ {Head(lwire).n}
  /\ lwire' = Tail(lwire)
  /\ UNCHANGED <<receiverOnly, stop_requested_, counts, lfailures>>

\* Mutant: a Fragment whose body failed is counted as well.
DataLost_counted == [lthread EXCEPT !.recv = @ + 1]

\* Its body failed: it is not counted.
DataLost == lthread

ReceiveDataFails ==
  /\ NextIsData /\ lfailures < MaxFailures
  /\ lthread' = DataLost
  /\ lwire' = Tail(lwire)
  /\ counts' = Differ
  /\ lfailures' = lfailures + 1
  /\ UNCHANGED <<receiverOnly, stop_requested_, missing>>

\* There was no room when the run was stopped: the thread ends with the header in its hands.
EndWithoutRoom ==
  /\ NextIsData /\ stop_requested_
  /\ EndThread
  /\ UNCHANGED <<receiverOnly, stop_requested_, missing, counts, lfailures>>

\* A system Fragment; EndOfData Fragments add up.
ReceiveSystem ==
  /\ lthread.running /\ lwire # << >> /\ Head(lwire).type # "Data"
  /\ LET message == Head(lwire) IN
       lthread' = IF message.type # "EndOfData" THEN lthread
                  ELSE [lthread EXCEPT !.eod = IF @ = -1 THEN message.n ELSE @ + message.n]
  /\ lwire' = Tail(lwire)
  /\ UNCHANGED <<receiverOnly, stop_requested_, missing, counts, lfailures>>

\* stop_threads, which joins the threads once they have ended.
StopThreads ==
  /\ lthread.running /\ ~stop_requested_
  /\ stop_requested_' = TRUE
  /\ UNCHANGED <<receiverOnly, lwire, lthread, missing, counts, lfailures>>

\* A connection breaks with all that is under way.
LoseConnection ==
  /\ lfailures < MaxFailures /\ IsRunning
  /\ linked' = FALSE
  /\ lwire' = << >>
  /\ counts' = "lost"
  /\ lfailures' = lfailures + 1
  /\ UNCHANGED <<lconf, lsnd, sent_frag_count_, lthread, stop_requested_, missing>>

ThreadStep ==
  \/ EndByCount \/ ReceiveData \/ ReceiveSystem
  \/ EndByTimeout \/ EndWithoutRoom

LinkNext ==
  \/ LinkSender
  \/ ThreadStep \/ StopThreads \/ ReceiveDataFails \/ LoseConnection

LinkSpec == LinkInit /\ [][LinkNext]_linkVars
-----------------------------------------------------------------------------
(* Properties *)

\* A thread that ends before the run is stopped has received every Fragment that was
\* delivered to it, by all the senders there were and whatever sends and bodies failed,
\* unless a connection broke or an EndOfData Fragment could not be sent.
NothingLeftBehind ==
  ThreadEnded /\ ~stop_requested_ /\ counts # "lost" => missing = {}

\* Once the last sender is gone, a thread ends by itself, without waiting for the run to be
\* stopped, if all its sends succeeded and were of data: of anything else the two sides
\* keep different counts.
ThreadsEnd ==
  lsnd.pc = "gone" ~> (ThreadEnded \/ counts # "agree" \/ lsnd.pc # "gone")
===============================================================================
