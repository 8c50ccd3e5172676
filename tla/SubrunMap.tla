------------------------------- MODULE SubrunMap -------------------------------
(***************************************************************************)
(* The subruns of an event builder: subrun_event_map_ of                   *)
(* SharedMemoryEventManager, filled by the EndOfSubrun Fragments of the    *)
(* sources, by the rollover_subrun command and by every resume, and looked *)
(* up whenever an event is opened or a Fragment of it is done.             *)
(*                                                                         *)
(* Each source sends its Fragments in the order of their sequence IDs, and *)
(* the end of a subrun before the first Fragment after it.  Fragments are  *)
(* received in thread steps: opened, then done.                            *)
(***************************************************************************)
EXTENDS Integers, FiniteSets

CONSTANTS Sources,
          MaxSeqID,                     \* bound: the events of a run
          MaxSubrun,                    \* bound: the subruns that have an end
          MaxResumes, MaxSubrunRuns,    \* bounds
          max_subrun_event_map_length_

ASSUME SubrunAssumption ==
  /\ IsFiniteSet(Sources) /\ Sources # {}
  /\ {MaxSeqID, MaxSubrun, MaxResumes, MaxSubrunRuns} \subseteq Nat
  /\ max_subrun_event_map_length_ \in Nat \ {0}

VARIABLES
  boundary,           \* where each subrun of the run begins
  subrun_event_map_,
  sources,            \* each source's next sequence ID, whether it told of the subrun that
                      \* begins there, and whether a Fragment of it is being received
  events,             \* the events: their subrun, the sources done, whether they are open
  resume,             \* the resume command between its two steps
  resumes, runs       \* how many there were

subrunVars == <<boundary, subrun_event_map_, sources, events, resume, resumes, runs>>

SeqIDs == 1 .. MaxSeqID
Subruns == 2 .. MaxSubrun
NoResume == [seqID |-> 0, subrun |-> 0]
NewRunMap == [s \in {0} |-> 1]
NewEvent == [subrun |-> 0, done |-> {}, open |-> FALSE]
Boundaries == {f \in [Subruns -> 2 .. MaxSeqID] : \A i, j \in Subruns : i < j => f[i] < f[j]}

NewRun ==
  /\ boundary' \in Boundaries
  /\ sources' = [s \in Sources |-> [next |-> 1, told |-> FALSE, receiving |-> FALSE]]
  /\ events' = [e \in SeqIDs |-> NewEvent]

SubrunInit ==
  /\ boundary \in Boundaries
  /\ subrun_event_map_ = NewRunMap
  /\ sources = [s \in Sources |-> [next |-> 1, told |-> FALSE, receiving |-> FALSE]]
  /\ events = [e \in SeqIDs |-> NewEvent]
  /\ resume = NoResume
  /\ resumes = 0 /\ runs = 1

-----------------------------------------------------------------------------
Keys(map) == DOMAIN map
LastKey(map) == CHOOSE k \in Keys(map) : \A j \in Keys(map) : j <= k
LastSubrun(map) == map[LastKey(map)]
SmallestKey(map) == CHOOSE k \in Keys(map) : \A j \in Keys(map) : k <= j

\* Mutant: the subrun begins after its boundary.
GetSubrunForSequenceID_after(seqID) ==
  LET before == {k \in Keys(subrun_event_map_) : k < seqID}
  IN  IF before = {} THEN 1
      ELSE subrun_event_map_[CHOOSE k \in before : \A j \in before : j <= k]

\* The subrun of the last boundary up to seqID, and 1 before the first.
GetSubrunForSequenceID(seqID) ==
  LET before == {k \in Keys(subrun_event_map_) : k <= seqID}
  IN  IF before = {} THEN 1
      ELSE subrun_event_map_[CHOOSE k \in before : \A j \in before : j <= k]

\* An entry too many costs the lowest.
Trimmed(map) ==
  IF Cardinality(Keys(map)) > max_subrun_event_map_length_
  THEN [k \in Keys(map) \ {SmallestKey(map)} |-> map[k]]
  ELSE map

\* rolloverSubrun(boundary, subrun): nothing when it is the last subrun already.
Rollover(map, seqID, subrun) ==
  IF seqID = 0 \/ LastSubrun(map) = subrun THEN map
  ELSE Trimmed([k \in Keys(map) \cup {seqID} |-> IF k = seqID THEN subrun ELSE map[k]])

BeginsAt(seqID) == {k \in Subruns : boundary[k] = seqID}

\* runReceiver_ gets the EndOfSubrun Fragment of a source.
EndOfSubrun(s) ==
  /\ sources[s].next \in SeqIDs /\ ~sources[s].told /\ ~sources[s].receiving
  /\ \E k \in BeginsAt(sources[s].next) :
       subrun_event_map_' = Rollover(subrun_event_map_, boundary[k], k)
  /\ sources' = [sources EXCEPT ![s].told = TRUE]
  /\ UNCHANGED <<boundary, events, resume, resumes, runs>>

\* The command names a boundary no source has come to yet.
rollover_subrun ==
  /\ \E k \in Subruns :
       /\ \A s \in Sources : sources[s].next <= boundary[k] /\ ~(sources[s].next = boundary[k] /\ sources[s].told)
       /\ subrun_event_map_' = Rollover(subrun_event_map_, boundary[k], k)
  /\ UNCHANGED <<boundary, sources, events, resume, resumes, runs>>

\* getBufferForSequenceID_ opens the event, or finds it open.
OpenEvent(s) ==
  LET e == sources[s].next IN
  /\ e \in SeqIDs /\ ~sources[s].receiving
  /\ BeginsAt(e) # {} => sources[s].told
  /\ events' = IF events[e].open THEN events
               ELSE [events EXCEPT ![e].open = TRUE, ![e].subrun = GetSubrunForSequenceID(e)]
  /\ sources' = [sources EXCEPT ![s].receiving = TRUE]
  /\ UNCHANGED <<boundary, subrun_event_map_, resume, resumes, runs>>

\* DoneWritingFragment; the last one releases the event.
FragmentDone(s) ==
  LET e == sources[s].next IN
  /\ sources[s].receiving
  /\ events' = [events EXCEPT ![e].subrun = GetSubrunForSequenceID(e), ![e].done = @ \cup {s},
                              ![e].open = events[e].done \cup {s} # Sources]
  /\ sources' = [sources EXCEPT ![s] = [next |-> e + 1, told |-> FALSE, receiving |-> FALSE]]
  /\ UNCHANGED <<boundary, subrun_event_map_, resume, resumes, runs>>

\* rolloverSubrun() looks for the next boundary and subrun under the lock, and takes the
\* lock again to enter them.
ResumeLooks ==
  /\ resume = NoResume /\ resumes < MaxResumes
  /\ resume' = [seqID  |-> LastKey(subrun_event_map_) + 1,
                subrun |-> 1 + CHOOSE n \in {subrun_event_map_[k] : k \in Keys(subrun_event_map_)} :
                             \A k \in Keys(subrun_event_map_) : subrun_event_map_[k] <= n]
  /\ resumes' = resumes + 1
  /\ UNCHANGED <<boundary, subrun_event_map_, sources, events, runs>>

ResumeEnters ==
  /\ resume # NoResume
  /\ subrun_event_map_' = Rollover(subrun_event_map_, resume.seqID, resume.subrun)
  /\ resume' = NoResume
  /\ UNCHANGED <<boundary, sources, events, resumes, runs>>

\* stop_threads has joined the receivers; endRun, and startRun of the next run, begin a map.
NextSubrunRun ==
  /\ resume = NoResume /\ runs < MaxSubrunRuns
  /\ \A s \in Sources : ~sources[s].receiving
  /\ subrun_event_map_' = NewRunMap
  /\ NewRun
  /\ runs' = runs + 1
  /\ UNCHANGED <<resume, resumes>>

SubrunNext ==
  \/ \E s \in Sources : EndOfSubrun(s) \/ OpenEvent(s) \/ FragmentDone(s)
  \/ rollover_subrun \/ ResumeLooks \/ ResumeEnters \/ NextSubrunRun

-----------------------------------------------------------------------------
SubrunOf(e) == CHOOSE k \in {1} \cup Subruns :
  /\ k = 1 \/ boundary[k] <= e
  /\ \A j \in Subruns : j > k => boundary[j] > e

\* The beginning of subrun k is not in the map, nor is anything before it.
Forgotten(k) == \A key \in Keys(subrun_event_map_) : boundary[k] < key

\* An event that is released is in the subrun its boundaries say, in whatever order the
\* sources came to the end of a subrun and although the map may have been trimmed, as long as
\* no resume added a subrun of its own; only when its subrun itself was trimmed off, by
\* sources that are that far ahead, it gets subrun 1.  After one resume, too, the map does
\* not go back to an earlier subrun, although it is entered under a lock taken again.
EventsInSubrun ==
  /\ resumes = 0 => \A e \in SeqIDs : events[e].done = Sources =>
       events[e].subrun = SubrunOf(e) \/ (events[e].subrun = 1 /\ Forgotten(SubrunOf(e)))
  /\ resumes <= 1 => \A j, k \in Keys(subrun_event_map_) : j < k => subrun_event_map_[j] <= subrun_event_map_[k]
=============================================================================
