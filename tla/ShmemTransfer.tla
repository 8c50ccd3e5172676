---------------------------- MODULE ShmemTransfer -----------------------------
(***************************************************************************)
(* ShmemTransfer: Fragments pass through the buffers of a shared memory    *)
(* segment that the receiver makes and the sender attaches to.             *)
(*                                                                         *)
(* The segment is the library's (SharedMemoryFragmentManager), modelled    *)
(* from its use here: buffers are read in the order they were written, a   *)
(* reliable write waits for an empty one, another takes the oldest full    *)
(* one, but never one that is being read; the receiver that goes away ends *)
(* the data of its segment.                                                *)
(***************************************************************************)
EXTENDS Integers, Sequences, Sorting

CONSTANTS ShmemFrags,     \* the Fragments sent: 1 .. ShmemFrags
          buffer_count_,
          MaxSegments     \* bound: the segments ever made

ASSUME ShmemAssumption ==
  ShmemFrags \in Nat /\ buffer_count_ \in Nat \ {0} /\ MaxSegments \in Nat \ {0}

VARIABLES
  segment,   \* the newest segment: its number, whether its receiver is there, its full buffers
  reading,   \* the Fragment whose header was read and whose data was not, or 0
  attached,  \* the segment the sender is attached to, or 0
  ssnd,      \* the next Fragment, and whether it is refused: "idle", "write"
  answers,   \* what each Fragment was answered
  sgot       \* the Fragments received: header and data

shmemVars == <<segment, reading, attached, ssnd, answers, sgot>>

ShmemInit ==
  /\ segment = [id |-> 1, up |-> TRUE, full |-> << >>]
  /\ reading = 0
  /\ attached = 0
  /\ ssnd = [next |-> 1, pc |-> "idle", reliable |-> FALSE]
  /\ answers = [f \in 1 .. ShmemFrags |-> "none"]
  /\ sgot = << >>

Occupied == Len(segment.full) + (IF reading = 0 THEN 0 ELSE 1)

-----------------------------------------------------------------------------
Answer(a) ==
  /\ answers' = [answers EXCEPT ![ssnd.next] = a]
  /\ ssnd' = [ssnd EXCEPT !.next = @ + 1, !.pc = "idle"]

\* isRunning of the sender: attached, and no end of data.
SenderRunning == attached = segment.id /\ segment.up

\* sendFragment: attach if need be, else drop the Fragment.  One that is invalid or does
\* not fit is refused.
sendFragment ==
  /\ ssnd.pc = "idle" /\ ssnd.next <= ShmemFrags
  /\ IF SenderRunning \/ segment.up
     THEN /\ attached' = segment.id
          /\ \/ \E reliable \in BOOLEAN :
                  ssnd' = [ssnd EXCEPT !.pc = "write", !.reliable = reliable] /\ UNCHANGED answers
             \/ Answer("invalid")
     ELSE Answer("detached") /\ UNCHANGED attached
  /\ UNCHANGED <<segment, reading, sgot>>

HasEmpty == Occupied < buffer_count_

\* WriteFragment: status 0; -3, no buffer in time; any other, the segment ended.
WriteFragment ==
  /\ ssnd.pc = "write" /\ SenderRunning /\ HasEmpty
  /\ segment' = [segment EXCEPT !.full = Append(@, ssnd.next)]
  /\ Answer("success")
  /\ UNCHANGED <<reading, attached, sgot>>

Overwrite ==
  /\ ssnd.pc = "write" /\ SenderRunning /\ ~HasEmpty /\ ~ssnd.reliable /\ segment.full # << >>
  /\ segment' = [segment EXCEPT !.full = Append(Tail(@), ssnd.next)]
  /\ answers' = [answers EXCEPT ![Head(segment.full)] = "overwritten", ![ssnd.next] = "success"]
  /\ ssnd' = [ssnd EXCEPT !.next = @ + 1, !.pc = "idle"]
  /\ UNCHANGED <<reading, attached, sgot>>

WriteFails ==
  /\ ssnd.pc = "write"
  /\ \/ ~SenderRunning /\ Answer("error")
     \/ ~HasEmpty /\ ~ssnd.reliable /\ Answer("timeout")
  /\ UNCHANGED <<segment, reading, attached, sgot>>

-----------------------------------------------------------------------------
ShmemReadFragmentHeader ==
  /\ segment.up /\ reading = 0 /\ segment.full # << >>
  /\ reading' = Head(segment.full)
  /\ segment' = [segment EXCEPT !.full = Tail(@)]
  /\ UNCHANGED <<attached, ssnd, answers, sgot>>

ShmemReadFragmentData ==
  /\ segment.up /\ reading # 0
  /\ sgot' = Append(sgot, reading)
  /\ reading' = 0
  /\ UNCHANGED <<segment, attached, ssnd, answers>>

ReadFragment ==
  /\ segment.up /\ reading = 0 /\ segment.full # << >>
  /\ sgot' = Append(sgot, Head(segment.full))
  /\ segment' = [segment EXCEPT !.full = Tail(@)]
  /\ UNCHANGED <<reading, attached, ssnd, answers>>

InBuffers == Elements(segment.full) \cup ({reading} \ {0})

\* flush_buffers empties every buffer, the one that is being read, too.
ShmemFlush ==
  /\ segment.up
  /\ answers' = [f \in DOMAIN answers |-> IF f \in InBuffers THEN "flushed" ELSE answers[f]]
  /\ segment' = [segment EXCEPT !.full = << >>]
  /\ reading' = 0
  /\ UNCHANGED <<attached, ssnd, sgot>>

\* The segment goes with its receiver.
DestroySegment ==
  /\ segment.up
  /\ answers' = [f \in DOMAIN answers |-> IF f \in InBuffers THEN "flushed" ELSE answers[f]]
  /\ segment' = [segment EXCEPT !.up = FALSE, !.full = << >>]
  /\ reading' = 0
  /\ UNCHANGED <<attached, ssnd, sgot>>

MakeSegment ==
  /\ ~segment.up /\ segment.id < MaxSegments
  /\ segment' = [id |-> segment.id + 1, up |-> TRUE, full |-> << >>]
  /\ UNCHANGED <<reading, attached, ssnd, answers, sgot>>

ShmemNext ==
  \/ sendFragment \/ WriteFragment \/ Overwrite \/ WriteFails
  \/ ShmemReadFragmentHeader \/ ShmemReadFragmentData \/ ReadFragment
  \/ ShmemFlush \/ DestroySegment \/ MakeSegment

-----------------------------------------------------------------------------
ShmemStages == <<sgot, IF reading = 0 THEN << >> ELSE <<reading>>, segment.full>>

\* The Fragments that were answered with success and neither overwritten nor flushed are
\* received or in the buffers, each once, in the order they were sent, and no more than
\* the segment holds.
ShmemInOrder ==
  /\ AllRising(ShmemStages)
  /\ AllElements(ShmemStages) = {f \in 1 .. ssnd.next - 1 : answers[f] = "success"}
  /\ Occupied <= buffer_count_
=============================================================================
