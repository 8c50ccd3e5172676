-------------------------- MODULE TCPSocketTransfer --------------------------
(***************************************************************************)
(* One sender and one receiver of TCPSocketTransfer, and the connections   *)
(* between them: the sender connects again when it lost its connection or  *)
(* was restarted, so the receiver may hold several connections of the same *)
(* source.  A Fragment is two messages, its header and its data; a sender  *)
(* that goes away in order ends with a stop message.                       *)
(*                                                                         *)
(* What was written has arrived: delays are delays of the writer.  A       *)
(* receiver writes nothing after the connection is made, so no reset       *)
(* reaches it: a connection ends with the end of its stream, or without a  *)
(* sign when the host of the sender is gone.                               *)
(*                                                                         *)
(* MaxFrag bounds the Fragments, MaxConn the connections ever made.        *)
(***************************************************************************)
EXTENDS Integers, Sequences, FiniteSets

CONSTANTS MaxFrag, MaxConn

ASSUME TCPAssumption == MaxFrag \in Nat \ {0} /\ MaxConn \in Nat \ {0}

VARIABLES
  snd,     \* the sender: its process, connection (0: send_fd_ is -1) and Fragment
  conns,   \* the connections, in the order they were made
  rcv,     \* the receiver: active_receive_fds_, last_active_receive_fds_, the step of
           \* the call in hand, state and the header it has
  rlife,   \* the receiver and its listen thread: "up", "flushed" (the last receiver is
           \* gone, the thread not yet), "down"
  got,     \* the Fragments received: headers and data, 0 for bytes out of step
  lost     \* Fragments that a fault of the connection or a restart may have cost

tcpVars == <<snd, conns, rcv, rlife, got, lost>>

Conn == 1 .. MaxConn
Frag == 1 .. MaxFrag
FD   == 1 .. MaxConn    \* descriptors, the lowest free one or any other
Msg(type, frag) == [type |-> type, frag |-> frag]

NoConn  == [st |-> "none", fd |-> 0, wire |-> << >>, end |-> "open"]
NoFragment == 0
IdleRcv == [active |-> 0, last |-> 0, pc |-> "idle", state |-> "Metadata", header |-> NoFragment]

TCPInit ==
  /\ snd = [up |-> TRUE, conn |-> 0, lost |-> FALSE, pc |-> "idle", frag |-> 0]
  /\ conns = [c \in Conn |-> NoConn]
  /\ rcv = IdleRcv
  /\ rlife = "up"
  /\ got = << >>
  /\ lost = {}

Connected == {c \in Conn : conns[c].st = "connected"}
Sent(c) == {conns[c].wire[i].frag : i \in DOMAIN conns[c].wire}
Fault(C) == lost' = lost \cup UNION {Sent(c) : c \in C} \cup {snd.frag}

-----------------------------------------------------------------------------
(***************************************************************************)
(* The sender.                                                             *)
(***************************************************************************)
Unused == {c \in Conn : conns[c].st = "none"}

\* connect_: the connection waits to be accepted; the connect message is written.
connect_ ==
  /\ snd.up /\ snd.conn = 0 /\ snd.pc = "idle" /\ rlife # "down" /\ Unused # {}
  /\ LET c == CHOOSE c \in Unused : \A d \in Unused : c <= d
     IN  /\ conns' = [conns EXCEPT ![c] = [NoConn EXCEPT !.st = "backlog"]]
         /\ snd' = [snd EXCEPT !.conn = c, !.lost = FALSE]
  /\ UNCHANGED <<rcv, rlife, got, lost>>

\* sendFragment_ without a connection: an error at once if there was one, else a
\* timeout; the Fragment is not sent either way.
SendNot ==
  /\ snd.up /\ snd.conn = 0 /\ snd.pc = "idle" /\ snd.frag < MaxFrag
  /\ rlife = "down"
  /\ snd' = [snd EXCEPT !.frag = @ + 1]
  /\ lost' = lost \cup {snd.frag + 1}
  /\ UNCHANGED <<conns, rcv, rlife, got>>

Writes(m) == conns' = [conns EXCEPT ![snd.conn].wire = Append(@, m)]
PeerClosed == conns[snd.conn].st = "closed"

sendHeader ==
  /\ snd.up /\ snd.conn # 0 /\ snd.pc = "idle" /\ snd.frag < MaxFrag /\ ~PeerClosed
  /\ Writes(Msg("header", snd.frag + 1))
  /\ snd' = [snd EXCEPT !.pc = "data", !.frag = @ + 1]
  /\ UNCHANGED <<rcv, rlife, got, lost>>

sendData ==
  /\ snd.up /\ snd.conn # 0 /\ snd.pc = "data" /\ ~PeerClosed
  /\ Writes(Msg("data", snd.frag))
  /\ snd' = [snd EXCEPT !.pc = "idle"]
  /\ UNCHANGED <<rcv, rlife, got, lost>>

\* The receiver has closed the connection: a message may still be taken, and is gone, or
\* the write fails, which closes this end, too.
sendToClosed ==
  /\ snd.up /\ snd.conn # 0 /\ PeerClosed
  /\ snd.pc = "idle" => snd.frag < MaxFrag
  /\ \E error \in BOOLEAN :
       LET f == IF snd.pc = "idle" THEN snd.frag + 1 ELSE snd.frag
       IN  /\ snd' = IF error THEN [snd EXCEPT !.conn = 0, !.lost = TRUE, !.pc = "idle", !.frag = f]
                     ELSE [snd EXCEPT !.frag = f, !.pc = IF @ = "idle" THEN "data" ELSE "idle"]
           /\ lost' = lost \cup {f}
  /\ UNCHANGED <<conns, rcv, rlife, got>>

Goodbye(c) == Append(conns[c].wire, Msg("stop", NoFragment))

\* ~TCPSocketTransfer: a stop message, and the end of the stream.
StopSender ==
  /\ snd.up /\ snd.pc = "idle"
  /\ snd' = [snd EXCEPT !.up = FALSE, !.conn = 0]
  /\ conns' = IF snd.conn # 0 /\ ~PeerClosed
              THEN [conns EXCEPT ![snd.conn].wire = Goodbye(snd.conn), ![snd.conn].end = "fin"]
              ELSE conns
  /\ UNCHANGED <<rcv, rlife, got, lost>>

\* The process dies, within a message or between two; its host may die with it.
CrashSender ==
  /\ snd.up /\ snd.conn # 0
  /\ \E end \in {"fin", "silent"}, cut \in BOOLEAN :
       conns' = [conns EXCEPT ![snd.conn].end = end,
                              ![snd.conn].wire = IF cut THEN Append(@, Msg("cut", NoFragment)) ELSE @]
  /\ snd' = [snd EXCEPT !.up = FALSE, !.conn = 0, !.pc = "idle"]
  /\ lost' = lost \cup Frag    \* what is sent from here on has a connection in its way
  /\ UNCHANGED <<rcv, rlife, got>>

StartSender ==
  /\ ~snd.up
  /\ snd' = [snd EXCEPT !.up = TRUE, !.lost = FALSE]
  /\ UNCHANGED <<conns, rcv, rlife, got, lost>>

-----------------------------------------------------------------------------
(***************************************************************************)
(* The listen thread, shared by the receivers of a process.                *)
(***************************************************************************)
FreeFDs == FD \ {conns[c].fd : c \in Connected}

Accept ==
  /\ rlife # "down"
  /\ \E c \in Conn, fd \in FreeFDs :
       /\ conns[c].st = "backlog"
       /\ \A d \in Conn : conns[d].st = "backlog" => c <= d
       /\ conns' = [conns EXCEPT ![c].st = "connected", ![c].fd = fd]
  /\ UNCHANGED <<snd, rcv, rlife, got, lost>>

Closed(C) == [c \in Conn |-> IF c \in C THEN [conns[c] EXCEPT !.st = "closed", !.fd = 0, !.wire = << >>] ELSE conns[c]]

\* The destructor of the last receiver: flush_buffers closes the connections of the source.
FlushBuffers ==
  /\ rlife = "up" /\ rcv.pc = "idle"
  /\ rlife' = "flushed"
  /\ conns' = Closed(Connected)
  /\ rcv' = IdleRcv
  /\ Fault(Connected)
  /\ UNCHANGED <<snd, got>>

\* The thread sees the count at 0, up to two seconds later, and closes what it accepted in
\* between; connections it did not accept are reset.
ListenEnds ==
  /\ rlife = "flushed"
  /\ LET C == {c \in Conn : conns[c].st \in {"backlog", "connected"}}
     IN  conns' = Closed(C) /\ Fault(C)
  /\ rlife' = "down"
  /\ UNCHANGED <<snd, rcv, got>>

StartReceiver ==
  /\ rlife = "down"
  /\ rlife' = "up"
  /\ UNCHANGED <<snd, conns, rcv, got, lost>>

-----------------------------------------------------------------------------
(***************************************************************************)
(* receiveFragmentHeader and receiveFragmentData.                          *)
(***************************************************************************)
At(pc) == rlife = "up" /\ rcv.pc = pc
Wire(c) == conns[c].wire
Head1(c) == Wire(c)[1]
HasMessage(c) == Wire(c) # << >> /\ Head1(c).type # "cut"
\* Nothing more comes, and poll says so, for ever.
AtEnd(c) == ~HasMessage(c) /\ conns[c].end = "fin"
Readable(c) == Wire(c) # << >> \/ conns[c].end = "fin"
Consume(c) == [conns EXCEPT ![c].wire = Tail(@)]
CloseOne(c) == Closed({c})

HeaderStart ==
  /\ At("idle") /\ Connected # {}
  /\ rcv' = [rcv EXCEPT !.pc = "header", !.state = "Metadata"]
  /\ UNCHANGED <<snd, conns, rlife, got, lost>>

Timeout(r) == [r EXCEPT !.pc = "idle", !.state = "Metadata", !.header = NoFragment]

\* The loop also ends when no connection is left.
HeaderNoConnection ==
  /\ At("header") /\ Connected = {}
  /\ rcv' = Timeout(rcv)
  /\ UNCHANGED <<snd, conns, rlife, got, lost>>

\* The connections in the order of their descriptors, and the place the search begins at:
\* the place after the last active one, or now of another that was given its descriptor;
\* the loop then adds it once more.
Place(c) == Cardinality({d \in Connected : conns[d].fd < conns[c].fd})
LastActive == {c \in Connected : conns[c].fd = rcv.last}
Index == IF rcv.last = 0 THEN 0
         ELSE IF LastActive = {} THEN Cardinality(Connected) ELSE Place(CHOOSE c \in LastActive : TRUE) + 1
Candidate(k) == CHOOSE c \in Connected : Place(c) = (2 * Index + k) % Cardinality(Connected)

\* Mutant: the search ends before it has been all around.
ReadyPlaces_short == {k \in 0 .. Cardinality(Connected) - 2 : Readable(Candidate(k))}

ReadyPlaces == {k \in 0 .. Cardinality(Connected) - 1 : Readable(Candidate(k))}

HeaderPoll ==
  /\ At("header") /\ rcv.active = 0 /\ Connected # {}
  /\ rcv' = IF ReadyPlaces = {} THEN Timeout(rcv)
            ELSE [rcv EXCEPT !.active = Candidate(CHOOSE k \in ReadyPlaces : \A j \in ReadyPlaces : k <= j)]
  /\ UNCHANGED <<snd, conns, rlife, got, lost>>

Reading(pc) == At(pc) /\ rcv.active # 0
NextIs(type) == HasMessage(rcv.active) /\ Head1(rcv.active).type = type

HeaderReceived ==
  /\ Reading("header") /\ rcv.state = "Metadata" /\ NextIs("header")
  /\ conns' = Consume(rcv.active)
  /\ rcv' = [rcv EXCEPT !.pc = "body", !.header = Head1(rcv.active).frag]
  /\ UNCHANGED <<snd, rlife, got, lost>>

HeaderStop ==
  /\ Reading("header") /\ rcv.state = "Metadata" /\ NextIs("stop")
  /\ conns' = CloseOne(rcv.active)
  /\ rcv' = Timeout([rcv EXCEPT !.active = 0])
  /\ UNCHANGED <<snd, rlife, got, lost>>

\* Data where a header was due: the connection is closed, and the loop goes on with
\* another one, in the state and with the size that came with the data (unless that is 0).
HeaderDesync ==
  /\ Reading("header") /\ rcv.state = "Metadata" /\ NextIs("data")
  /\ conns' = CloseOne(rcv.active)
  /\ Fault({rcv.active})
  /\ \E empty \in BOOLEAN :
       rcv' = IF empty THEN Timeout([rcv EXCEPT !.active = 0])
              ELSE [rcv EXCEPT !.active = 0, !.state = "Data"]
  /\ UNCHANGED <<snd, rlife, got>>

\* In that state the head of a message is taken for a Fragment header.  From here on the
\* receiver is out of step with this connection, and the model does not follow it.
HeaderOutOfStep ==
  /\ Reading("header") /\ rcv.state = "Data" /\ Wire(rcv.active) # << >>
  /\ got' = Append(got, [header |-> NoFragment, data |-> NoFragment])
  /\ rcv' = [rcv EXCEPT !.pc = "out_of_step"]
  /\ lost' = Frag
  /\ UNCHANGED <<snd, conns, rlife>>

\* No data for receive_disconnected_wait_s_, or loop_guard calls without any: the call
\* ends, with the connection still the active one or not.  It stays connected.
HeaderNoData ==
  /\ Reading("header") /\ ~HasMessage(rcv.active)
  /\ rcv.state = "Metadata" \/ Wire(rcv.active) = << >>
  /\ rcv' \in {Timeout(rcv), Timeout([rcv EXCEPT !.active = 0])}
  /\ UNCHANGED <<snd, conns, rlife, got, lost>>

\* Mutant: the data is read from the connection that had data last.
BodyFrom_last == IF LastActive # {} THEN CHOOSE c \in LastActive : TRUE ELSE rcv.active

BodyFrom == rcv.active

BodyReceived ==
  /\ Reading("body") /\ HasMessage(BodyFrom) /\ Head1(BodyFrom).type = "data"
  /\ conns' = Consume(BodyFrom)
  /\ got' = Append(got, [header |-> rcv.header, data |-> Head1(BodyFrom).frag])
  /\ rcv' = Timeout([rcv EXCEPT !.last = conns[rcv.active].fd, !.active = 0])
  /\ UNCHANGED <<snd, rlife, lost>>

\* The end of the stream: the connection stays, the Fragment is given up.
BodyAtEnd ==
  /\ Reading("body") /\ AtEnd(rcv.active)
  /\ rcv' = Timeout([rcv EXCEPT !.active = 0])
  /\ lost' = lost \cup {rcv.header}
  /\ UNCHANGED <<snd, conns, rlife, got>>

\* Nothing for receive_disconnected_wait_s_: the connection is closed.
BodyTimeout ==
  /\ Reading("body") /\ ~HasMessage(rcv.active) /\ conns[rcv.active].end # "fin"
  /\ conns' = CloseOne(rcv.active)
  /\ Fault({rcv.active})
  /\ rcv' = Timeout([rcv EXCEPT !.active = 0])
  /\ UNCHANGED <<snd, rlife, got>>

\* poll was interrupted by a signal.
BodyInterrupted ==
  /\ Reading("body")
  /\ rcv' = Timeout([rcv EXCEPT !.last = conns[rcv.active].fd, !.active = 0])
  /\ lost' = Frag
  /\ UNCHANGED <<snd, conns, rlife, got>>

-----------------------------------------------------------------------------
Sender == connect_ \/ SendNot \/ sendHeader \/ sendData \/ sendToClosed
SenderLife == StopSender \/ CrashSender \/ StartSender

Receiver ==
  \/ HeaderStart \/ HeaderNoConnection \/ HeaderPoll
  \/ HeaderReceived \/ HeaderStop \/ HeaderDesync \/ HeaderOutOfStep \/ HeaderNoData
  \/ BodyReceived \/ BodyAtEnd \/ BodyTimeout \/ BodyInterrupted

ReceiverLife == FlushBuffers \/ ListenEnds \/ StartReceiver

TCPNext == Sender \/ SenderLife \/ Accept \/ Receiver \/ ReceiverLife

-----------------------------------------------------------------------------
\* A Fragment that is received has the header and the data of one Fragment, no Fragment is
\* received twice, and bytes out of step need an interrupted call.
FragmentsWhole ==
  /\ \A i \in DOMAIN got : got[i].header = got[i].data
  /\ \A i, j \in DOMAIN got : i < j /\ got[i].header # NoFragment => got[i].header # got[j].header
  /\ \A i \in DOMAIN got : got[i].header = NoFragment => lost = Frag

\* A Fragment that was written is received, whatever connections came before, unless a
\* sender died without a stop message, a call was interrupted or timed out, or the
\* receiver was taken down.
FragmentsDelivered ==
  \A f \in Frag :
    (\E c \in Conn : \E i \in DOMAIN Wire(c) : Wire(c)[i] = Msg("data", f))
    ~> (f \in lost \/ \E i \in DOMAIN got : got[i].data = f)
=============================================================================
