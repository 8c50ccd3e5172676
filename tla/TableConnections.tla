---------------------------- MODULE TableConnections ----------------------------
(***************************************************************************)
(* The connection that carries routing tables                              *)
(* (Application/RoutingManagerCore.cc, DAQrate/detail/TableReceiver.cc).   *)
(* In the routing manager one thread listens for connections and another,  *)
(* process_event_table, answers the requests that came and broadcasts the  *)
(* tables, as long as the run goes on.  In a sender one thread receives    *)
(* tables, and another asks for the route of each Fragment; both connect   *)
(* when they find that table_socket_ is -1, which no mutex guards.         *)
(*                                                                         *)
(* A write to a connection that nobody reads blocks once Capacity packets  *)
(* are under way.  What the tables hold is in module Routing; connecting   *)
(* takes the routing manager less than the 30 s a sender tries.            *)
(***************************************************************************)
EXTENDS Integers, Sequences

CONSTANTS
  MaxConnects,  \* bound: connections 1..MaxConnects are made
  Capacity,     \* bound: packets under way to a sender
  Crashes       \* may the sender be killed?

TableConn == 1..MaxConnects

ASSUME ConnectionConstants ==
  MaxConnects \in Nat /\ Capacity \in Nat \ {0} /\ Crashes \in BOOLEAN

VARIABLES
  tableSocket, \* table_socket_; 0 is -1
  threads,     \* where the two threads of the sender are
  peer,        \* the sender's end of each connection: "none", "open" or "closed"
  requested,   \* per connection, the messages the routing manager has not read yet
  entry,       \* its end: "none", "registered" in connected_fds_, or "closed"
  tables,      \* per connection, how many packets the sender has not read yet
  manager,     \* process_event_table: "receiving", "sending", "ended"
  stopping,    \* stop_requested_
  awaits,      \* does the sender wait for a route?
  raced,       \* history: have both threads connected at once?
  killed       \* history: was the sender killed?

connVars == <<tableSocket, threads, peer, requested, entry, tables, manager, stopping, awaits,
              raced, killed>>
managerVars == <<entry, manager, stopping>>

ConnInit ==
  /\ tableSocket = 0 /\ threads = [reader |-> "top", asker |-> "loop"]
  /\ peer = [c \in TableConn |-> "none"] /\ entry = [c \in TableConn |-> "none"]
  /\ requested = [c \in TableConn |-> << >>] /\ tables = [c \in TableConn |-> 0]
  /\ manager = "receiving" /\ stopping = FALSE
  /\ awaits = TRUE /\ raced = FALSE /\ killed = FALSE
-------------------------------------------------------------------------------
(* The threads of a sender *)

Goes(t, pc) == threads' = [threads EXCEPT ![t] = pc]
WritesTo(c, m) ==
  requested' = IF c # 0 /\ entry[c] # "closed" THEN [requested EXCEPT ![c] = Append(@, m)] ELSE requested

Unconnected == tableSocket = 0

\* connectToRoutingManager_ begins.
Dial(t) ==
  /\ threads[t] = "loop" /\ Unconnected
  /\ t = "asker" => awaits
  /\ Goes(t, "dialing")
  /\ raced' = (raced \/ \E u \in DOMAIN threads \ {t} : threads[u] = "dialing")
  /\ UNCHANGED <<tableSocket, peer, requested, tables, managerVars, awaits, killed>>

\* TCPConnect succeeds, whether or not the other thread has connected in the meantime.
Connects(t) ==
  /\ threads[t] = "dialing"
  /\ \E c \in TableConn :
       /\ peer[c] = "none" /\ \A d \in 1..c - 1 : peer[d] # "none"
       /\ tableSocket' = c /\ peer' = [peer EXCEPT ![c] = "open"]
  /\ Goes(t, "hello")
  /\ UNCHANGED <<requested, tables, managerVars, awaits, raced, killed>>

\* It writes the connect message to table_socket_, as it now is.
Hello(t) ==
  /\ threads[t] = "hello"
  /\ WritesTo(tableSocket, "Connect")
  /\ Goes(t, IF t = "reader" THEN "top" ELSE "loop")
  /\ UNCHANGED <<tableSocket, peer, tables, managerVars, awaits, raced, killed>>

\* sendTableUpdateRequest_; the wait of GetRoutingTableEntry times out and it asks again.  A
\* request repeated while the one before is still unread is left out.
AskRoute ==
  /\ threads["asker"] = "loop" /\ awaits /\ tableSocket # 0
  /\ \A i \in DOMAIN requested[tableSocket] : requested[tableSocket][i] # "Request"
  /\ WritesTo(tableSocket, "Request")
  /\ UNCHANGED <<tableSocket, threads, peer, tables, managerVars, awaits, raced, killed>>

\* The route is used, and that of the next event is wanted.
NextFragment ==
  /\ threads["asker"] = "loop" /\ ~awaits /\ awaits' = TRUE
  /\ UNCHANGED <<tableSocket, threads, peer, requested, tables, managerVars, raced, killed>>

\* receiveTableUpdate_ reads a table, or its poll times out.
ReadTable ==
  /\ threads["reader"] = "loop" /\ tableSocket # 0
  /\ \/ /\ tables[tableSocket] > 0
        /\ tables' = [tables EXCEPT ![tableSocket] = @ - 1]
        /\ awaits' = FALSE
     \/ /\ tables[tableSocket] = 0 /\ entry[tableSocket] # "closed"
        /\ UNCHANGED <<tables, awaits>>
  /\ Goes("reader", "top")
  /\ UNCHANGED <<tableSocket, peer, requested, managerVars, raced, killed>>

\* Mutant: the message is not sent.
Disconnects_silent == UNCHANGED requested

\* disconnectFromRoutingManager_ writes a message first.
Disconnects == WritesTo(tableSocket, "Disconnect")

Disconnect ==
  /\ IF tableSocket = 0 THEN UNCHANGED <<peer, requested>>
     ELSE Disconnects /\ peer' = [peer EXCEPT ![tableSocket] = "closed"]
  /\ tableSocket' = 0
  /\ UNCHANGED <<tables, managerVars, awaits, raced, killed>>

\* receiveTableUpdate_ finds that the routing manager closed the connection.
Reconnect ==
  /\ threads["reader"] = "loop" /\ tableSocket # 0
  /\ tables[tableSocket] = 0 /\ entry[tableSocket] = "closed"
  /\ Goes("reader", "top")
  /\ Disconnect

\* receiveTableUpdatesLoop_ looks at should_stop_.
ReaderTop ==
  /\ threads["reader"] = "top"
  /\ IF threads["asker"] = "gone" THEN Goes("reader", "gone") /\ Disconnect
     ELSE /\ Goes("reader", "loop")
          /\ UNCHANGED <<tableSocket, peer, requested, tables, managerVars, awaits, raced, killed>>

\* The destructor sets should_stop_ and disconnects; the thread that reads may just have
\* looked at should_stop_, and connect again.
DestroyReceiver ==
  /\ threads["asker"] = "loop" /\ ~awaits
  /\ Goes("asker", "gone")
  /\ Disconnect

\* The process of the sender is killed: its connections are closed.
Kill ==
  /\ Crashes /\ ~killed /\ killed' = TRUE
  /\ threads' = [t \in DOMAIN threads |-> "gone"]
  /\ peer' = [c \in TableConn |-> IF peer[c] = "open" THEN "closed" ELSE peer[c]]
  /\ tableSocket' = 0 /\ awaits' = FALSE
  /\ UNCHANGED <<requested, tables, managerVars, raced>>
-------------------------------------------------------------------------------
(* The routing manager *)

\* listen_ accepts a connection and reads its first message, for two seconds at most.
Listen(c) ==
  /\ peer[c] # "none" /\ entry[c] = "none"
  /\ entry' = [entry EXCEPT ![c] =
       IF requested[c] # << >> /\ Head(requested[c]) = "Connect" THEN "registered" ELSE "closed"]
  /\ requested' = [requested EXCEPT ![c] = IF @ = << >> THEN @ ELSE Tail(@)]
  /\ UNCHANGED <<tableSocket, threads, peer, tables, manager, stopping, awaits, raced, killed>>

\* epoll reports the connection: a message, or the end of the stream, is there to read.
ReadyToRead(c) == entry[c] = "registered" /\ (requested[c] # << >> \/ peer[c] = "closed")

Closes(c) == entry' = [entry EXCEPT ![c] = "closed"]

\* receive_ reads a request; a reply goes to a sender that reads, or has room for it.
ReadRequest(c) ==
  /\ manager = "receiving" /\ entry[c] = "registered" /\ requested[c] # << >>
  /\ requested' = [requested EXCEPT ![c] = Tail(@)]
  /\ CASE Head(requested[c]) = "Disconnect" -> Closes(c) /\ UNCHANGED tables
       [] Head(requested[c]) = "Request" ->
            /\ peer[c] = "open" => tables[c] < Capacity
            /\ tables' = [tables EXCEPT ![c] = IF peer[c] = "open" THEN @ + 1 ELSE @]
            /\ UNCHANGED entry
       [] OTHER -> UNCHANGED <<entry, tables>>
  /\ UNCHANGED <<tableSocket, threads, peer, manager, stopping, awaits, raced, killed>>

\* The sender's end was closed with packets unread: the read fails, and the descriptor is
\* closed.  (At the end of a stream that was read up to its end, it stays open: receive_
\* then goes round for ever, as ReceiveEnds is never enabled.)
ReadFails(c) ==
  /\ manager = "receiving" /\ entry[c] = "registered" /\ requested[c] = << >>
  /\ peer[c] = "closed" /\ tables[c] > 0
  /\ Closes(c)
  /\ UNCHANGED <<tableSocket, threads, peer, requested, tables, manager, stopping, awaits, raced, killed>>

ReceiveEnds ==
  /\ manager = "receiving" /\ \A c \in TableConn : ~ReadyToRead(c)
  /\ manager' = IF stopping THEN "ended" ELSE "sending"
  /\ UNCHANGED <<tableSocket, threads, peer, requested, entry, tables, stopping, awaits, raced, killed>>

\* send_event_table, or no table this time.
SendTables ==
  /\ manager = "sending" /\ manager' = "receiving"
  /\ LET to == {c \in TableConn : entry[c] = "registered" /\ peer[c] = "open"}
     IN \/ UNCHANGED tables
        \/ /\ \A c \in to : tables[c] < Capacity
           /\ tables' = [c \in TableConn |-> IF c \in to THEN tables[c] + 1 ELSE tables[c]]
  /\ UNCHANGED <<tableSocket, threads, peer, requested, entry, stopping, awaits, raced, killed>>

Stop ==
  /\ ~stopping /\ stopping' = TRUE
  /\ UNCHANGED <<tableSocket, threads, peer, requested, entry, tables, manager, awaits, raced, killed>>

ReaderStep == Dial("reader") \/ Connects("reader") \/ Hello("reader") \/ ReadTable \/ Reconnect \/ ReaderTop
AskerStep == Dial("asker") \/ Connects("asker") \/ Hello("asker") \/ AskRoute \/ NextFragment
ManagerStep == (\E c \in TableConn : ReadRequest(c) \/ ReadFails(c)) \/ ReceiveEnds \/ SendTables

ConnNext ==
  \/ ReaderStep \/ AskerStep \/ DestroyReceiver \/ Kill
  \/ (\E c \in TableConn : Listen(c)) \/ ManagerStep \/ Stop

ConnSpec == ConnInit /\ [][ConnNext]_connVars
-------------------------------------------------------------------------------
(* Properties *)

\* A run that is stopped ends, however senders come and go, unless one of them is killed
\* or has connected twice at once.
StopEnds == (stopping ~> (manager = "ended" \/ raced \/ killed))
===============================================================================
