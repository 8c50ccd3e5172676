------------------------------ MODULE ArtOutput ------------------------------
(***************************************************************************)
(* ArtdaqOutput sends the events of an art process to a data logger, whose *)
(* ArtdaqInputHelper takes them apart.  Each sender says once, in its Init *)
(* message, which products it may send; the logger's list is made of the   *)
(* Init messages of all senders.                                           *)
(***************************************************************************)
EXTENDS Integers, Sequences, FiniteSets

CONSTANTS Registered,   \* sender -> the products the principals of its process have groups for
          OutEvents,    \* event numbers
          OutSubruns    \* subruns

ASSUME ArtOutputAssumption == OutEvents \in Nat \ {0} /\ OutSubruns \in Nat \ {0}

VARIABLES
  kept,    \* the products of the outputs that are to be written
  selects, \* the outputs select events, and are not shown the others
  out,     \* the senders
  owire,   \* the messages under way from each sender
  logger   \* Init messages it has, its product list, whether it threw

outputVars == <<kept, selects, out, owire, logger>>

Senders == DOMAIN Registered

OutputInit ==
  /\ kept \in SUBSET UNION {Registered[s] : s \in Senders}
  /\ selects \in BOOLEAN
  /\ out = [s \in Senders |-> [productList_ |-> {}, initMsgSent_ |-> FALSE, last_sequence_id_ |-> 0,
                               subrun |-> 1, shown |-> FALSE, highest |-> 0]]
  /\ owire = [s \in Senders |-> <<>>]
  /\ logger = [inits |-> {}, productList_ |-> {}, threw |-> FALSE, boundaries |-> {}]

\* The subrun in the high half, the event in the low half.
SeqID(subrun, event) == (subrun - 1) * 2 ^ 4 + event

\* Mutant: a product that is not in this event is not entered.
extractProducts_available(s, available) == out[s].productList_ \cup available

\* Every group of the principal, present or not.
extractProducts_(s, available) == out[s].productList_ \cup Registered[s]

\* prepareMessage remembers the greatest sequence ID.
Greatest(a, b) == IF b > a THEN b ELSE a

InitMessage(s, products) == IF out[s].initMsgSent_ THEN <<>> ELSE <<[type |-> "Init", products |-> products]>>

\* What of the principal is kept and available goes into the message.
writeDataProducts(s, available) == available \cap kept

\* art shows an event to the output (event) and has it written (write); the Init message
\* goes first, with the products extracted so far.
WriteEvent(s) ==
  /\ owire[s] = <<>>                     \* bound
  /\ \E e \in 1 .. OutEvents, available \in SUBSET Registered[s] :
       LET seqID    == SeqID(out[s].subrun, e)
           products == extractProducts_(s, available)
       IN  /\ owire' = [owire EXCEPT ![s] = @ \o InitMessage(s, products) \o
                          <<[type |-> "Data", seq |-> seqID, products |-> writeDataProducts(s, available)]>>]
           /\ out' = [out EXCEPT ![s].initMsgSent_ = TRUE, ![s].productList_ = products,
                                 ![s].last_sequence_id_ = Greatest(@, seqID),
                                 ![s].highest = IF seqID > @ THEN seqID ELSE @, ![s].shown = TRUE]
  /\ UNCHANGED <<kept, selects, logger>>

\* The end of the subrun is one past the greatest sequence ID so far.  The subrun's products
\* are none here.
writeSubRun(s) ==
  /\ out[s].shown \/ selects                      \* a subrun begins with an event
  /\ out[s].subrun < OutSubruns /\ owire[s] = <<>>
  /\ LET boundary == out[s].last_sequence_id_ + 1 IN
     /\ owire' = [owire EXCEPT ![s] = @ \o InitMessage(s, out[s].productList_) \o
                    <<[type |-> "EndOfSubrun", seq |-> boundary, highest |-> out[s].highest]>>]
     /\ out' = [out EXCEPT ![s].initMsgSent_ = TRUE, ![s].last_sequence_id_ = boundary, ![s].subrun = @ + 1]
  /\ UNCHANGED <<kept, selects, logger>>

\* Nothing but the Init message, if there was none.
writeRun(s) ==
  /\ out[s].shown \/ selects
  /\ ~out[s].initMsgSent_
  /\ owire' = [owire EXCEPT ![s] = @ \o InitMessage(s, out[s].productList_)]
  /\ out' = [out EXCEPT ![s].initMsgSent_ = TRUE]
  /\ UNCHANGED <<kept, selects, logger>>

\* ArtdaqInputHelper adds the products of every Init message.
Merged(list, products) == list \cup products

\* The event manager of the logger hands the Init Fragments over once all are there; art
\* reads events after that (readDataProducts), and throws on a product it does not know.
Receive(s) ==
  /\ owire[s] # <<>> /\ ~logger.threw
  /\ LET msg == Head(owire[s]) IN
     \/ /\ msg.type = "Init"
        /\ logger' = [logger EXCEPT !.inits = @ \cup {s}, !.productList_ = Merged(@, msg.products)]
     \/ /\ msg.type = "Data" /\ logger.inits = Senders
        /\ logger' = [logger EXCEPT !.threw = ~ msg.products \subseteq logger.productList_]
     \/ /\ msg.type = "EndOfSubrun"
        /\ logger' = [logger EXCEPT !.boundaries = {[at |-> msg.seq, highest |-> msg.highest]}]
  /\ owire' = [owire EXCEPT ![s] = Tail(@)]
  /\ UNCHANGED <<kept, selects, out>>

OutputNext ==
  \E s \in Senders : WriteEvent(s) \/ writeSubRun(s) \/ writeRun(s) \/ Receive(s)

OutputSpec == OutputInit /\ [][OutputNext]_outputVars

-----------------------------------------------------------------------------
\* The logger knows every product a sender sends it, though senders differ, Init messages
\* are sent at the first event only, and events differ in what they hold.  (An output that
\* selects events may have to send its Init message for a subrun without any.)
ProductsKnown == logger.threw => selects

\* The end of a subrun lies past every event its sender sent, in whatever order it did.
BoundaryPastEvents == \A b \in logger.boundaries : b.at > b.highest

\* The logger knows the products of what it gets, and where the events of a subrun end.
LoggerFollows == ProductsKnown /\ BoundaryPastEvents
=============================================================================
