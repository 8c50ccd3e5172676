------------------------------ MODULE OutputFile ------------------------------
(***************************************************************************)
(* RootDAQOut: an art job that reads input files, each with a part of the  *)
(* same run, and writes output files, which it may switch after any event. *)
(* A file holds records of its subruns and runs, each with the ranges of   *)
(* events it stands for, kept in the file's data base and named by an ID.  *)
(***************************************************************************)
EXTENDS Integers, Sequences, FiniteSets, Sorting

CONSTANTS InputFiles,        \* input file -> its events <<subrun, event>>, in order
          MaxOutputs         \* bound: output files

Event == (Nat \ {0}) \X (Nat \ {0})

\* An input file has events, each once.
ASSUME OutputFileAssumption ==
  /\ InputFiles \in Seq(Seq(Event) \ {<<>>})
  /\ \A f \in DOMAIN InputFiles : \A k, m \in DOMAIN InputFiles[f] :
       k # m => InputFiles[f][k] # InputFiles[f][m]
  /\ MaxOutputs \in Nat \ {0}

VARIABLES
  infile,     \* the input file, and the events of it still to come
  outfile,    \* the output file: how many there were, whether it is open
  seenRun,    \* the events the run principal has seen since it was written
  seenSub,    \* the same for the subrun principal
  db,         \* the data base of the output file
  recs,       \* its records, with the ranges each should have
  valid       \* input file -> output files in which its run product is valid

fileVars == <<infile, outfile, seenRun, seenSub, db, recs, valid>>

BranchTypes == {"SubRun", "Run"}
EmptyDB == [EventRanges |-> <<>>, RangeSets |-> [bt \in BranchTypes |-> 0], join |-> {}]

FileInit ==
  /\ infile = [n |-> 0, left |-> <<>>]
  /\ outfile = [n |-> 0, open |-> FALSE]
  /\ seenRun = {} /\ seenSub = {}
  /\ db = EmptyDB
  /\ recs = {}
  /\ valid = [i \in DOMAIN InputFiles |-> {}]

\* The ranges of a set of events that has no gap within a subrun.
RangesOf(events) ==
  {LET evs == {x \in events : x[1] = e[1]}
       b   == CHOOSE x \in evs : \A y \in evs : x[2] <= y[2]
       l   == CHOOSE x \in evs : \A y \in evs : x[2] >= y[2]
   IN  <<e[1], b[2], l[2] + 1>> : e \in events}

BySubrun(ranges) == {p \in ranges \X ranges : p[1][1] < p[2][1]}

-----------------------------------------------------------------------------
(* The data base: EventRanges has a row for each range, which is its ROWID; *)
(* RangeSets counts its rows; join says which ranges a range set has.       *)

\* Rows that are there are left as they are (ON CONFLICT IGNORE).
insertIntoEventRanges(d, ranges) ==
  LET new == {r \in ranges : \A row \in DOMAIN d.EventRanges : d.EventRanges[row] # r}
  IN  [d EXCEPT !.EventRanges = @ \o Ascending(new, BySubrun(new))]

getExistingRangeSetIDs(d, ranges) == {row \in DOMAIN d.EventRanges : d.EventRanges[row] \in ranges}

\* getNewRangeSetID, insertIntoEventRanges and insertIntoJoinTable; the ID is the new count.
EnterRangeSet(d, bt, ranges) ==
  LET inserted == insertIntoEventRanges(d, ranges)
      id       == d.RangeSets[bt] + 1
  IN  [inserted EXCEPT !.RangeSets[bt] = id,
                       !.join = @ \cup {<<bt, id, row>> : row \in getExistingRangeSetIDs(inserted, ranges)}]

\* What a reader of the file finds.
ReadBack(d, bt, id) == {d.EventRanges[j[3]] : j \in {x \in d.join : x[1] = bt /\ x[2] = id}}

Record(bt, d, ranges) == [bt |-> bt, id |-> d.RangeSets[bt], ranges |-> ranges]

-----------------------------------------------------------------------------
(* What a run record holds: two products, one from the input file, whose    *)
(* ranges are those of the whole file, and one this job made, for what it   *)
(* has seen.                                                                *)

EventsOf(events) == {events[k] : k \in DOMAIN events}
InputRanges == RangesOf(EventsOf(InputFiles[infile.n]))
FirstRange(ranges) == CHOOSE r \in ranges : \A s \in ranges : r[1] <= s[1]

\* Mutant: it is enough that it has seen some event of the first of the product's ranges.
StillValid_some(ranges, seen) ==
  \E e \in seen : e[1] = FirstRange(ranges)[1] /\ e[2] \in FirstRange(ranges)[2] .. FirstRange(ranges)[3] - 1

\* maybeInvalidateRangeSet: the principal has not seen the event the product's ranges begin
\* with; a dummy is written.
StillValid(ranges, seen) == <<FirstRange(ranges)[1], FirstRange(ranges)[2]>> \in seen

\* fillBranches: each product's range set, unless it is invalid or (by its checksum) the
\* one of a product before.
fillBranches(d) ==
  LET input == StillValid(InputRanges, seenRun)
      made  == RangesOf(seenRun)
      d1    == IF input THEN EnterRangeSet(d, "Run", InputRanges) ELSE d
      d2    == IF input /\ made = InputRanges THEN d1 ELSE EnterRangeSet(d1, "Run", made)
  IN  [d |-> d2,
       recs |-> (IF input THEN {Record("Run", d1, InputRanges)} ELSE {}) \cup {Record("Run", d2, made)},
       valid |-> input]

\* setSubRunAuxiliaryRangeSetID and writeSubRun.
SubRunWritten(d) ==
  LET ranges == RangesOf(seenSub)
      d1     == EnterRangeSet(d, "SubRun", ranges)
  IN  [d |-> d1, recs |-> {Record("SubRun", d1, ranges)}]

\* setRunAuxiliaryRangeSetID and writeRun.
RunWritten(d) ==
  LET ranges == RangesOf(seenRun)
      d1     == EnterRangeSet(d, "Run", ranges)
      filled == fillBranches(d1)
  IN  [filled EXCEPT !.recs = @ \cup {Record("Run", d1, ranges)}]

-----------------------------------------------------------------------------
\* openFile, respondToOpenInputFile.
OpenInput ==
  /\ infile.left = <<>> /\ infile.n < Len(InputFiles) /\ seenRun = {}
  /\ infile' = [n |-> infile.n + 1, left |-> InputFiles[infile.n + 1]]
  /\ IF outfile.open THEN UNCHANGED <<outfile, db, recs>>
     ELSE outfile' = [n |-> outfile.n + 1, open |-> TRUE] /\ db' = EmptyDB /\ recs' = {}
  /\ UNCHANGED <<seenRun, seenSub, valid>>

\* doOpenFile after a switch: a new file with empty tables.
OpenOutput ==
  /\ infile.left # <<>> /\ ~outfile.open
  /\ outfile' = [n |-> outfile.n + 1, open |-> TRUE]
  /\ db' = EmptyDB /\ recs' = {}
  /\ UNCHANGED <<infile, seenRun, seenSub, valid>>

NextSubRun == IF infile.left = <<>> THEN 0 ELSE Head(infile.left)[1]

\* write.
FileEvent ==
  /\ outfile.open /\ infile.left # <<>>
  /\ \A e \in seenSub : e[1] = NextSubRun
  /\ infile' = [infile EXCEPT !.left = Tail(@)]
  /\ seenRun' = seenRun \cup {Head(infile.left)}
  /\ seenSub' = seenSub \cup {Head(infile.left)}
  /\ UNCHANGED <<outfile, db, recs, valid>>

\* art ends a subrun when the next event is of another, and at the end of the input.
FileSubRun ==
  /\ outfile.open /\ seenSub # {}
  /\ \A e \in seenSub : e[1] # NextSubRun
  /\ LET w == SubRunWritten(db) IN db' = w.d /\ recs' = recs \cup w.recs
  /\ seenSub' = {}
  /\ UNCHANGED <<infile, outfile, seenRun, valid>>

\* The input file ends: its run is written.
FileRun ==
  /\ outfile.open /\ infile.left = <<>> /\ seenSub = {} /\ seenRun # {}
  /\ LET w == RunWritten(db) IN
     /\ db' = w.d /\ recs' = recs \cup w.recs
     /\ valid' = [valid EXCEPT ![infile.n] = IF w.valid THEN @ \cup {outfile.n} ELSE @]
  /\ seenRun' = {}
  /\ UNCHANGED <<infile, outfile, seenSub>>

\* requestsToCloseFile is true (size, age, events): subrun and run so far are written, and
\* the file is closed (startEndFile, finishEndFile).
SwitchOutput ==
  /\ outfile.open /\ outfile.n < MaxOutputs /\ infile.left # <<>> /\ seenSub # {}
  /\ LET s == SubRunWritten(db)
         w == RunWritten(s.d)
     IN  /\ db' = w.d /\ recs' = recs \cup s.recs \cup w.recs
         /\ valid' = [valid EXCEPT ![infile.n] = IF w.valid THEN @ \cup {outfile.n} ELSE @]
  /\ seenRun' = {} /\ seenSub' = {}
  /\ outfile' = [outfile EXCEPT !.open = FALSE]
  /\ UNCHANGED infile

FileNext ==
  \/ OpenInput \/ OpenOutput \/ FileEvent \/ FileSubRun \/ FileRun \/ SwitchOutput

FileSpec == FileInit /\ [][FileNext]_fileVars

-----------------------------------------------------------------------------
\* A reader finds for each record of a file exactly the ranges of events it stands for,
\* though ranges are shared between range sets and some were there before.
RangeSetsExact == \A r \in recs : ReadBack(db, r.bt, r.id) = r.ranges

\* The product an input file has for the run goes into exactly one of the output files its
\* events go to, so that nobody who puts them together counts it twice.
ProductWrittenOnce ==
  \A i \in DOMAIN InputFiles :
    /\ Cardinality(valid[i]) <= 1
    /\ i < infile.n \/ (i = infile.n /\ infile.left = <<>> /\ seenRun = {}) => valid[i] # {}

\* The files say of the runs and subruns what was in them, once.
FilesExact == RangeSetsExact /\ ProductWrittenOnce
=============================================================================
