------------------------------ MODULE SendData ------------------------------
(***************************************************************************)
(* TCPSocketTransfer::sendData_: a message head and a payload go out with  *)
(* sendmsg, at most per_write_max_bytes at a time, and every call may take *)
(* any part of what it is offered.  The loop keeps two indices into two    *)
(* arrays of buffers and works out after each call where to go on.         *)
(*                                                                         *)
(* A byte is its address: the head is at 0, the payload at PayloadAt.      *)
(***************************************************************************)
EXTENDS Integers, Sequences

CONSTANTS HeadSize,            \* sizeof(MessHead)
          MaxPayload,          \* the payloads tried are of 0 .. MaxPayload bytes
          per_write_max_bytes

ASSUME SendDataAssumption ==
  /\ HeadSize \in Nat \ {0} /\ MaxPayload \in Nat
  /\ per_write_max_bytes \in Nat \ {0}

VARIABLES
  iov_in,   \* the buffers of the message: base and length, from index 0
  iovv,     \* the buffers of the next call
  io,       \* in_iov_idx, out_iov_idx, this_write_bytes, total_written_bytes
  written   \* the bytes the socket took, in order

sendVars == <<iov_in, iovv, io, written>>

PayloadAt == HeadSize + 1    \* the two buffers do not touch
Iov(base, len) == [base |-> base, len |-> len]
Total == iov_in[0].len + iov_in[1].len
Bytes(v) == [i \in 1 .. v.len |-> v.base + i - 1]
End(v) == v.base + v.len
Message == Bytes(iov_in[0]) \o Bytes(iov_in[1])

SendInit ==
  /\ \E len \in 0 .. MaxPayload :
       iov_in = [i \in 0 .. 1 |-> IF i = 0 THEN Iov(0, HeadSize) ELSE Iov(PayloadAt, len)]
  /\ iovv = [i \in 0 .. 2 |-> Iov(0, 0)]
  /\ io = [in |-> 0, out |-> 0, this |-> 0, total |-> 0]
  /\ written = << >>

\* The call takes from as many buffers as it needs to have enough to write, and cuts the
\* last of them where it has too much.
Cut(v, this) == IF this > per_write_max_bytes THEN [v EXCEPT !.len = @ - (this - per_write_max_bytes)] ELSE v
AtMost(this) == IF this > per_write_max_bytes THEN per_write_max_bytes ELSE this

Wanted(out, this) == io.in + out < 2 /\ this < per_write_max_bytes
FirstOut == IF Wanted(io.out, io.this) THEN io.out + 1 ELSE io.out
FirstThis == IF Wanted(io.out, io.this) THEN io.this + iov_in[io.in + io.out].len ELSE io.this
Twice == Wanted(io.out, io.this) /\ Wanted(FirstOut, FirstThis)
Out  == IF Twice THEN FirstOut + 1 ELSE FirstOut
This == IF Twice THEN FirstThis + iov_in[io.in + FirstOut].len ELSE FirstThis
Offered ==
  LET taken == [i \in 0 .. 2 |-> IF i \in io.out .. Out - 1 THEN iov_in[io.in + i] ELSE iovv[i]]
  IN  IF Out = 0 THEN taken ELSE [taken EXCEPT ![Out - 1] = Cut(@, This)]

OfferedBytes == Bytes(Offered[0]) \o (IF Out > 1 THEN Bytes(Offered[1]) ELSE << >>)

\* What is left of a buffer of the message is added to the first of the next call.
Extend(v, in) ==
  LET additional == End(iov_in[in]) - End(v)
      all == [v EXCEPT !.len = @ + additional]
  IN  Cut(all, all.len)

\* The call took everything.
AllTaken ==
  LET last == Out - 1
      in   == io.in + last
      rest == Iov(End(Offered[last]), 0)
      left == End(iov_in[in]) - rest.base
      next == Extend(rest, in)
  IN  IF left # 0
      THEN /\ iovv' = [Offered EXCEPT ![last] = next, ![0] = next]
           /\ io' = [in |-> in, out |-> 1, this |-> next.len, total |-> io.total + AtMost(This)]
      ELSE /\ iovv' = [Offered EXCEPT ![last] = rest]
           /\ io' = [in |-> in + 1, out |-> 0, this |-> 0, total |-> io.total + AtMost(This)]

\* How many of the buffers are done; there are two at most, and not both.
Done(sts) == IF sts >= Offered[0].len THEN 1 ELSE 0

SomeTaken(sts) ==
  LET ii   == Done(sts)
      part == IF ii = 0 THEN sts ELSE sts - Offered[0].len
      rest == Iov(Offered[ii].base + part, Offered[ii].len - part)
      next == Extend(rest, io.in + ii)
  IN  /\ iovv' = [Offered EXCEPT ![ii] = rest, ![0] = next]
      /\ io' = [in |-> io.in + ii, out |-> 1, this |-> next.len, total |-> io.total + sts]

\* One call of sendmsg.  EAGAIN makes the socket blocking and the call is repeated.
SendMsg ==
  /\ io.total < Total
  /\ \E sts \in 1 .. AtMost(This) :
       /\ written' = written \o SubSeq(OfferedBytes, 1, sts)
       /\ IF sts = AtMost(This) THEN AllTaken ELSE SomeTaken(sts)
  /\ UNCHANGED iov_in

-----------------------------------------------------------------------------
\* However sendmsg splits it, what goes out is the message: each byte once, in order; and
\* until the last is out, every call offers something.
MessageExact ==
  /\ io.total < Total => AtMost(This) > 0
  /\ Len(written) = io.total
  /\ written = SubSeq(Message, 1, io.total)
=============================================================================
