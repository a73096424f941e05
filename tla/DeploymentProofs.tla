-------------------------- MODULE DeploymentProofs --------------------------
(***************************************************************************)
(* Theorems of what is run from a shell: the API's process, for any number *)
(* of connections and any limit, and the seeding commands, for any rows,   *)
(* batches and concurrent runs.                                            *)
(***************************************************************************)
EXTENDS ServerProcess, Seeds, FiniteSetTheorems, TLAPS

-----------------------------------------------------------------------------
(* The limiter *)

(* The requests of this window that may still fail in it. *)
underWay == {c \in Connections : handlers[c] = "public" /\ c \notin carried}

(* Whatever is under way was counted when it began: a failure moves from one
   side to the other, and a success that takes more off the count than it put
   on it is among the spared. *)
Counted ==
    /\ carried \subseteq {c \in Connections : handlers[c] = "public"}
    /\ IsFiniteSet(underWay)
    /\ failures + Cardinality(underWay) =< hits + spared
    /\ failures + Cardinality(underWay) =< limit + spared

ProcessInv == ProcessTypeOK /\ Counted

LEMMA ProcessInvInit == ProcessInit => ProcessInv
<1> SUFFICES ASSUME ProcessInit PROVE ProcessInv
  OBVIOUS
<1>1. ProcessTypeOK
  BY DEF ProcessInit, ProcessTypeOK
<1>2. underWay = {}
  BY DEF ProcessInit, underWay
<1>3. IsFiniteSet(underWay) /\ Cardinality(underWay) = 0
  BY <1>2, FS_EmptySet
<1> QED BY <1>1, <1>3, ProcessAssumption DEF ProcessInit, ProcessInv, Counted

(* A step that neither counts a request nor answers one. *)
LEMMA CountKept ==
    ASSUME Counted, UNCHANGED <<handlers, limiterVars>>
    PROVE  Counted'
<1>1. underWay' = underWay
  BY DEF limiterVars, underWay
<1> QED BY <1>1 DEF Counted, limiterVars

LEMMA RequestCounts ==
    ASSUME ProcessInv, NEW c \in Connections, NEW kind \in {"public", "authenticated"},
           Request(c, kind)
    PROVE  ProcessInv'
<1>1. ProcessTypeOK'
  BY DEF ProcessInv, ProcessTypeOK, Request
<1>2. c \notin carried /\ c \notin underWay
  BY DEF ProcessInv, Counted, Request, underWay
<1>3. CASE kind = "public" /\ admitted(hits)
  <2>1. underWay' = underWay \cup {c}
    BY <1>2, <1>3 DEF Request, underWay, ProcessInv, ProcessTypeOK
  <2>2. IsFiniteSet(underWay') /\ Cardinality(underWay') = Cardinality(underWay) + 1
    BY <1>2, <2>1, FS_AddElement DEF ProcessInv, Counted
  <2>3. Cardinality(underWay) \in Nat
    BY FS_CardinalityType DEF ProcessInv, Counted
  <2>4. hits' = hits + 1 /\ hits < limit /\ UNCHANGED <<failures, spared, carried>>
    BY <1>3 DEF Request, admitted
  <2>5. carried' \subseteq {d \in Connections : handlers'[d] = "public"}
    BY <1>3 DEF Request, ProcessInv, ProcessTypeOK, Counted
  <2>6. hits \in Nat /\ failures \in Nat /\ spared \in Nat /\ limit \in Nat
    BY ProcessAssumption DEF ProcessInv, ProcessTypeOK
  <2>7. /\ failures + Cardinality(underWay) =< hits + spared
        /\ failures + Cardinality(underWay) =< limit + spared
    BY DEF ProcessInv, Counted
  <2>8. /\ failures' + Cardinality(underWay') =< hits' + spared'
        /\ failures' + Cardinality(underWay') =< limit + spared'
    BY <2>2, <2>3, <2>4, <2>6, <2>7
  <2> QED BY <1>1, <2>2, <2>5, <2>8 DEF ProcessInv, Counted
<1>4. CASE ~(kind = "public" /\ admitted(hits))
  <2>1. underWay' = underWay
    BY <1>2, <1>4 DEF Request, underWay, ProcessInv, ProcessTypeOK
  <2>2. Cardinality(underWay) \in Nat
    BY FS_CardinalityType DEF ProcessInv, Counted
  <2>3. carried' \subseteq {d \in Connections : handlers'[d] = "public"}
    BY <1>4 DEF Request, ProcessInv, ProcessTypeOK, Counted
  <2>4. hits' >= hits /\ hits' \in Nat /\ UNCHANGED <<failures, spared>>
    BY <1>1, <1>4 DEF Request, ProcessInv, ProcessTypeOK
  <2>5. hits \in Nat /\ failures \in Nat /\ spared \in Nat
    BY DEF ProcessInv, ProcessTypeOK
  <2> QED BY <1>1, <2>1, <2>2, <2>3, <2>4, <2>5 DEF ProcessInv, Counted
<1> QED BY <1>3, <1>4

LEMMA AnswerCounts ==
    ASSUME ProcessInv, NEW c \in Connections, Answered(c)
    PROVE  ProcessInv'
<1>0. /\ hits \in Nat /\ failures \in Nat /\ spared \in Nat /\ limit \in Nat
      /\ Cardinality(underWay) \in Nat /\ IsFiniteSet(underWay)
      /\ failures + Cardinality(underWay) =< hits + spared
      /\ failures + Cardinality(underWay) =< limit + spared
  BY ProcessAssumption, FS_CardinalityType DEF ProcessInv, ProcessTypeOK, Counted
<1>a. /\ uncounted(hits) \in Nat
      /\ uncounted(hits) =< hits /\ hits =< uncounted(hits) + 1
      /\ hits = 0 => uncounted(hits) = 0
  BY <1>0 DEF uncounted
<1>1. ProcessTypeOK'
  BY <1>0, <1>a DEF ProcessInv, ProcessTypeOK, Answered
<1>2. carried' \subseteq {d \in Connections : handlers'[d] = "public"}
  BY DEF Answered, ProcessInv, ProcessTypeOK, Counted
<1>3. CASE c \in underWay
  <2>1. underWay' = underWay \ {c} /\ handlers[c] = "public" /\ c \notin carried
    BY <1>3 DEF Answered, underWay, ProcessInv, ProcessTypeOK
  <2>2. IsFiniteSet(underWay') /\ Cardinality(underWay') = Cardinality(underWay) - 1
    BY <1>0, <1>3, <2>1, FS_RemoveElement
  <2>3. \/ failures' = failures + 1 /\ UNCHANGED <<hits, spared>>
        \/ hits' = uncounted(hits) /\ UNCHANGED <<failures, spared>>
    BY <2>1 DEF Answered
  <2>4. /\ failures' + Cardinality(underWay') =< hits' + spared'
        /\ failures' + Cardinality(underWay') =< limit + spared'
    BY <1>0, <1>a, <2>2, <2>3
  <2> QED BY <1>1, <1>2, <2>2, <2>4 DEF ProcessInv, Counted
<1>4. CASE c \notin underWay
  <2>1. underWay' = underWay
    BY <1>4 DEF Answered, underWay, ProcessInv, ProcessTypeOK
  <2>2. handlers[c] = "public" => c \in carried
    BY <1>4 DEF underWay
  <2>3. \/ UNCHANGED <<hits, failures, spared>>
        \/ hits' = uncounted(hits) /\ spared' = spared + 1 /\ UNCHANGED failures
    BY <2>2 DEF Answered
  <2>4. /\ failures' + Cardinality(underWay) =< hits' + spared'
        /\ failures' + Cardinality(underWay) =< limit + spared'
    BY <1>0, <1>a, <2>3
  <2> QED BY <1>0, <1>1, <1>2, <2>1, <2>4 DEF ProcessInv, Counted
<1> QED BY <1>3, <1>4

LEMMA ProcessInvStep == ProcessInv /\ [ProcessNext]_processVars => ProcessInv'
<1> SUFFICES ASSUME ProcessInv, [ProcessNext]_processVars PROVE ProcessInv'
  OBVIOUS
<1>1. ASSUME UNCHANGED <<handlers, limiterVars>>, ProcessTypeOK' PROVE ProcessInv'
  BY <1>1, CountKept DEF ProcessInv
<1>2. CASE Start \/ Signal \/ ForceClose \/ AllClosed \/ Disconnect \/ Crash
  <2>1. UNCHANGED <<handlers, limiterVars>>
    BY <1>2 DEF Start, Signal, ForceClose, AllClosed, Disconnect, Crash, requestVars
  <2>2. ProcessTypeOK'
    BY <1>2, <2>1 DEF ProcessInv, ProcessTypeOK, Start, Signal, ForceClose, AllClosed,
                      Disconnect, Crash, requestVars, limiterVars, ends, closes
  <2> QED BY <1>1, <2>1, <2>2
<1>3. ASSUME NEW c \in Connections, Connect(c) \/ HangUp(c) PROVE ProcessInv'
  <2>1. UNCHANGED <<handlers, limiterVars>>
    BY <1>3 DEF Connect, HangUp
  <2>2. ProcessTypeOK'
    BY <1>3 DEF ProcessInv, ProcessTypeOK, Connect, HangUp, limiterVars
  <2> QED BY <1>1, <2>1, <2>2
<1>4. CASE NewWindow
  <2>1. ProcessTypeOK'
    BY <1>4 DEF NewWindow, ProcessInv, ProcessTypeOK
  <2>2. underWay' = {}
    BY <1>4 DEF NewWindow, underWay
  <2>3. IsFiniteSet(underWay') /\ Cardinality(underWay') = 0
    BY <2>2, FS_EmptySet
  <2> QED BY <1>4, <2>1, <2>3, ProcessAssumption DEF NewWindow, ProcessInv, Counted
<1>5. CASE UNCHANGED processVars
  BY <1>1, <1>5 DEF processVars, limiterVars, ProcessInv, ProcessTypeOK
<1> QED BY <1>2, <1>3, <1>4, <1>5, RequestCounts, AnswerCounts DEF ProcessNext

LEMMA ProcessInvariance == ProcessSpec => []ProcessInv
BY ProcessInvInit, ProcessInvStep, PTL DEF ProcessSpec

(* No more requests of a window fail than the limit lets through, however many
   are under way at once and wherever the windows fall: each that may still
   fail was counted when it began, and one that succeeds gives back no more
   than it took, but for those of an earlier window. *)
THEOREM LimitedAttempts == ProcessSpec => []AttemptsAreLimited
<1>1. ProcessInv => AttemptsAreLimited
  <2> SUFFICES ASSUME ProcessInv PROVE AttemptsAreLimited
    OBVIOUS
  <2>1. Cardinality(underWay) \in Nat
    BY FS_CardinalityType DEF ProcessInv, Counted
  <2> QED BY <2>1, ProcessAssumption
          DEF ProcessInv, ProcessTypeOK, Counted, AttemptsAreLimited
<1> QED BY <1>1, ProcessInvariance, PTL

-----------------------------------------------------------------------------
(* Seeds *)

(* Where what hangs from a Question is, or what became of it. *)
kept == hanging \cup takenOff

SeedRun ==
    [command: Commands \cup {"none"},
     doing: {"nothing", "looking", "writing", "inserting", "finished", "stopped"},
     at: Nat, count: 0 .. Len(bulkRows), stage: 0 .. Len(Kinds), wrote: SUBSET SeededRows]

upserted(run, n) == \A i \in 1 .. n : upserts[run.command][i] \in stored

inserted(n) == \A i \in 1 .. n : bulkRows[i] \in stored

hung(j, n) ==
    \A i \in 1 .. n : Kinds[j] \in parts[bulkRows[i]] => <<bulkRows[i], Kinds[j]>> \in kept

(* What a run has done so far, whoever did it first and whoever undid it. *)
progress(run) ==
    /\ run.doing \in {"looking", "writing"} =>
          /\ run.command \in Commands /\ run.at \in 1 .. Len(upserts[run.command])
          /\ upserted(run, run.at - 1) /\ run.stage = 0
    /\ run.doing \in {"inserting", "finished"} =>
          run.command \in Commands /\ upserted(run, Len(upserts[run.command]))
    /\ run.doing = "inserting" =>
          /\ run.at \in 1 .. run.count
          /\ run.stage = 0 => inserted(run.at - 1)
          /\ run.stage > 0 => inserted(run.count) /\ hung(run.stage, run.at - 1)
          /\ \A j \in 1 .. run.stage - 1 : hung(j, run.count)
    /\ run.doing = "finished" =>
          inserted(run.count) /\ \A j \in 1 .. Len(Kinds) : hung(j, run.count)

RunsProgress == \A r \in Runs : progress(runs[r])

(* A row that is not the bulk bank's is written with what hangs from it. *)
RowsAreWhole == \A k \in stored \ inBulk : ofRow(k) \subseteq kept

(* What people made or took off belongs to rows there are. *)
PeopleKnowRows ==
    /\ madeByUsers \subseteq stored
    /\ \A off \in takenOff : off[1] \in stored

SeedsTyped == SeedsTypeOK /\ runs \in [Runs -> SeedRun]

SeedsInv ==
    /\ SeedsTyped
    /\ RunsProgress
    /\ RowsAreWhole
    /\ PeopleKnowRows
    /\ SeedsUndoNothing

LEMMA KindsFacts ==
    /\ Len(Kinds) = 3 /\ DOMAIN Kinds = 1 .. 3
    /\ \A k \in SeededRows : \A kind \in parts[k] : \E j \in 1 .. 3 : kind = Kinds[j]
<1>1. Len(Kinds) = 3 /\ DOMAIN Kinds = 1 .. 3
  BY DEF Kinds
<1> QED BY <1>1, SeedsAssumption

LEMMA RowFacts ==
    /\ \A c \in Commands : /\ Len(upserts[c]) \in Nat \ {0}
                           /\ DOMAIN upserts[c] = 1 .. Len(upserts[c])
                           /\ \A n \in 1 .. Len(upserts[c]) :
                                 upserts[c][n] \in SeededRows \ inBulk
    /\ Len(bulkRows) \in Nat /\ DOMAIN bulkRows = 1 .. Len(bulkRows)
    /\ \A n \in 1 .. Len(bulkRows) : bulkRows[n] \in SeededRows /\ bulkRows[n] \in inBulk
<1>1. Len(bulkRows) \in Nat /\ DOMAIN bulkRows = 1 .. Len(bulkRows)
      /\ \A n \in 1 .. Len(bulkRows) : bulkRows[n] \in SeededRows
  BY SeedsAssumption
<1>2. ASSUME NEW c \in Commands
      PROVE  /\ Len(upserts[c]) \in Nat \ {0}
             /\ DOMAIN upserts[c] = 1 .. Len(upserts[c])
             /\ \A n \in 1 .. Len(upserts[c]) : upserts[c][n] \in SeededRows \ inBulk
  <2>1. upserts[c] \in Seq(SeededRows) /\ upserts[c] # <<>>
    BY SeedsAssumption, RowsAssumption
  <2>2. PICK rows : rows = upserts[c]
    OBVIOUS
  <2>3. /\ Len(rows) \in Nat \ {0} /\ DOMAIN rows = 1 .. Len(rows)
        /\ \A n \in 1 .. Len(rows) : rows[n] \in SeededRows
    BY <2>1, <2>2
  <2>4. \A n \in DOMAIN upserts[c] : upserts[c][n] \notin inBulk
    BY RowsAssumption DEF inBulk
  <2> QED BY <2>2, <2>3, <2>4
<1> QED BY <1>1, <1>2 DEF inBulk

LEMMA SeedsInvInit == SeedsInit => SeedsInv
<1> SUFFICES ASSUME SeedsInit PROVE SeedsInv
  OBVIOUS
<1>1. Resting \in SeedRun /\ progress(Resting)
  BY RowFacts, KindsFacts DEF Resting, SeedRun, progress
<1>2. SeedsTyped
  BY <1>1, SeedsAssumption, RowFacts, KindsFacts
     DEF SeedsInit, SeedsTyped, SeedsTypeOK, Resting
<1> QED BY <1>1, <1>2
        DEF SeedsInit, SeedsInv, RunsProgress, RowsAreWhole, PeopleKnowRows, SeedsUndoNothing

(* Nothing a run has done so far is undone while rows are only added, and what
   hangs from them only goes when it is taken off. *)
LEMMA ProgressKept ==
    ASSUME NEW run, progress(run), stored \subseteq stored', kept \subseteq kept'
    PROVE  progress(run)'
BY DEF progress, upserted, inserted, hung

LEMMA OneRun ==
    ASSUME SeedsInv, NEW r \in Runs, NEW R \in SeedRun, goes(r, R), progress(R)',
           stored \subseteq stored', kept \subseteq kept'
    PROVE  RunsProgress' /\ runs' \in [Runs -> SeedRun]
<1>1. runs' \in [Runs -> SeedRun] /\ runs'[r] = R /\ \A s \in Runs \ {r} : runs'[s] = runs[s]
  BY DEF goes, SeedsInv, SeedsTyped
<1>2. ASSUME NEW s \in Runs PROVE progress(runs[s])'
  <2>1. CASE s = r
    BY <1>1, <2>1 DEF progress, upserted, inserted, hung
  <2>2. CASE s # r
    <3>1. PICK run : run = runs[s]
      OBVIOUS
    <3>2. progress(run)'
      BY <3>1, ProgressKept DEF SeedsInv, RunsProgress
    <3> QED BY <1>1, <2>2, <3>1, <3>2 DEF progress, upserted, inserted, hung
  <2> QED BY <2>1, <2>2
<1> QED BY <1>1, <1>2 DEF RunsProgress

LEMMA TypedRuns ==
    ASSUME NEW f \in [Runs -> SeedRun], NEW r \in Runs
    PROVE  /\ f[r].command \in Commands \cup {"none"}
           /\ f[r].doing \in
                 {"nothing", "looking", "writing", "inserting", "finished", "stopped"}
           /\ f[r].count \in 0 .. Len(bulkRows)
           /\ f[r].stage \in 0 .. Len(Kinds) + 1
<1>1. f[r] \in SeedRun
  OBVIOUS
<1> QED BY <1>1, KindsFacts DEF SeedRun

(* A step of one run that writes no row. *)
LEMMA RunOnly ==
    ASSUME SeedsInv, NEW r \in Runs, NEW R \in SeedRun, goes(r, R),
           progress(R), UNCHANGED <<bankVars, usersVars>>, starts' \in 0 .. MaxStarts
    PROVE  SeedsInv'
<1>1. UNCHANGED <<stored, content, hanging, madeByUsers, takenOff>>
  BY DEF bankVars, usersVars
<1>2. RunsProgress' /\ runs' \in [Runs -> SeedRun]
  BY <1>1, ProgressKept, OneRun DEF kept
<1>3. SeedsTyped'
  BY <1>1, <1>2, TypedRuns DEF SeedsInv, SeedsTyped, SeedsTypeOK
<1> QED BY <1>1, <1>2, <1>3
        DEF SeedsInv, RowsAreWhole, PeopleKnowRows, SeedsUndoNothing, kept

LEMMA Stopping ==
    ASSUME SeedsInv, NEW r \in Runs, stops(r), UNCHANGED <<bankVars, starts, usersVars>>
    PROVE  SeedsInv'
<1> DEFINE R == [runs[r] EXCEPT !.doing = "stopped"]
<1>1. R \in SeedRun /\ R.doing = "stopped"
  BY DEF SeedsInv, SeedsTyped, SeedRun
<1>2. goes(r, R) /\ starts' \in 0 .. MaxStarts
  BY DEF stops, SeedsInv, SeedsTyped, SeedsTypeOK
<1> HIDE DEF R
<1>3. progress(R)
  BY <1>1 DEF progress
<1> QED BY <1>1, <1>2, <1>3, RunOnly

LEMMA Starting ==
    ASSUME SeedsInv, NEW r \in Runs, NEW c \in Commands, StartRun(r, c)
    PROVE  SeedsInv'
<1>1. /\ starts' \in 0 .. MaxStarts /\ UNCHANGED <<bankVars, usersVars>>
  BY SeedsAssumption DEF StartRun, SeedsInv, SeedsTyped, SeedsTypeOK
<1>a. (IF c = "bulk" THEN 1 .. Len(bulkRows) ELSE {0}) \subseteq 0 .. Len(bulkRows)
  BY RowFacts
<1>2. PICK count \in 0 .. Len(bulkRows) :
         \/ goes(r, [Resting EXCEPT !.command = c, !.doing = "looking", !.at = 1,
                                    !.count = count])
         \/ goes(r, [Resting EXCEPT !.command = c, !.doing = "stopped"])
  BY <1>a DEF StartRun
<1> DEFINE R1 == [Resting EXCEPT !.command = c, !.doing = "looking", !.at = 1, !.count = count]
           R2 == [Resting EXCEPT !.command = c, !.doing = "stopped"]
<1>b. Resting \in SeedRun /\ Resting.stage = 0
  BY RowFacts, KindsFacts DEF Resting, SeedRun
<1>3. /\ R1 \in SeedRun /\ R1.doing = "looking" /\ R1.at = 1 /\ R1.command = c /\ R1.stage = 0
      /\ R2 \in SeedRun /\ R2.doing = "stopped"
  BY <1>b DEF SeedRun
<1> HIDE DEF R1, R2
<1>4. progress(R1) /\ progress(R2)
  BY <1>3, RowFacts DEF progress, upserted
<1>5. goes(r, R1) \/ goes(r, R2)
  BY <1>2 DEF R1, R2
<1> QED BY <1>1, <1>3, <1>4, <1>5, RunOnly

(* Once the row a run is at is there, the run may go on to the next. *)
LEMMA RowDone ==
    ASSUME SeedsInv, NEW r \in Runs, runs[r].doing \in {"looking", "writing"},
           row(r) \in stored', stored \subseteq stored', kept \subseteq kept',
           NEW R, R = afterRow(r)
    PROVE  R \in SeedRun /\ progress(R)'
<1> DEFINE run == runs[r]
           last == Len(upserts[run.command])
<1>1. /\ run \in SeedRun /\ run.command \in Commands /\ run.at \in 1 .. last
      /\ upserted(run, run.at - 1) /\ run.stage = 0
      /\ last \in Nat /\ Len(bulkRows) \in Nat /\ run.count \in 0 .. Len(bulkRows)
  BY RowFacts DEF SeedsInv, SeedsTyped, RunsProgress, progress, SeedRun
<1>2. \A i \in 1 .. run.at : upserts[run.command][i] \in stored'
  BY <1>1 DEF upserted, row
<1>3. CASE run.at < last
  <2>0. PICK next \in Nat : next = run.at + 1
    BY <1>1
  <2>1. R = [run EXCEPT !.doing = "looking", !.at = next]
    BY <1>1, <1>3, <2>0 DEF afterRow
  <2>a. run \in SeedRun /\ run.stage = 0
    BY <1>1
  <2>b. /\ R \in SeedRun /\ R.doing = "looking" /\ R.at = next
        /\ R.command = run.command /\ R.stage = 0
    BY <2>a, <2>1 DEF SeedRun
  <2>2. /\ R \in SeedRun /\ R.doing = "looking" /\ R.at = run.at + 1
        /\ R.command = run.command /\ R.stage = 0
    BY <2>0, <2>b
  <2> HIDE DEF run
  <2>3. run.at + 1 \in 1 .. last /\ \A i \in 1 .. run.at + 1 - 1 : i \in 1 .. run.at
    BY <1>1, <1>3
  <2> QED BY <1>1, <1>2, <2>2, <2>3 DEF progress, upserted
<1>4. CASE ~(run.at < last) /\ run.count > 0
  <2>1. /\ R \in SeedRun /\ R.doing = "inserting" /\ R.at = 1
        /\ R.command = run.command /\ R.stage = 0 /\ R.count = run.count
    BY <1>1, <1>4 DEF afterRow, SeedRun
  <2> QED BY <1>1, <1>2, <1>4, <2>1 DEF progress, upserted, inserted
<1>5. CASE ~(run.at < last) /\ ~(run.count > 0)
  <2>1. /\ R \in SeedRun /\ R.doing = "finished"
        /\ R.command = run.command /\ R.count = 0
    BY <1>1, <1>5 DEF afterRow, SeedRun
  <2> QED BY <1>1, <1>2, <1>5, <2>1 DEF progress, upserted, inserted, hung
<1> QED BY <1>3, <1>4, <1>5

LEMMA LookingUp ==
    ASSUME SeedsInv, NEW r \in Runs, LookUp(r)
    PROVE  SeedsInv'
<1>1. runs[r].doing = "looking" /\ UNCHANGED <<bankVars, starts, usersVars>>
  BY DEF LookUp, updated, bankVars
<1>2. CASE stops(r)
  BY <1>1, <1>2, Stopping
<1>3. CASE row(r) \in stored /\ goes(r, afterRow(r))
  <2>1. PICK R : R = afterRow(r)
    OBVIOUS
  <2>2. R \in SeedRun /\ progress(R)'
    BY <1>1, <1>3, <2>1, RowDone DEF bankVars, usersVars, kept
  <2>3. progress(R)
    BY <1>1, <2>2 DEF progress, upserted, inserted, hung, kept, bankVars, usersVars
  <2> QED BY <1>1, <1>3, <2>1, <2>2, <2>3, RunOnly DEF SeedsInv, SeedsTyped, SeedsTypeOK
<1>4. CASE goes(r, [runs[r] EXCEPT !.doing = "writing"])
  <2> DEFINE R == [runs[r] EXCEPT !.doing = "writing"]
  <2>1. /\ runs[r] \in SeedRun /\ progress(runs[r])
    BY DEF SeedsInv, SeedsTyped, RunsProgress
  <2>2. /\ R \in SeedRun /\ R.doing = "writing" /\ R.at = runs[r].at
        /\ R.command = runs[r].command /\ R.stage = runs[r].stage
    BY <2>1 DEF SeedRun
  <2>3. goes(r, R)
    BY <1>4
  <2> HIDE DEF R
  <2>4. progress(R)
    BY <1>1, <2>1, <2>2 DEF progress, upserted
  <2> QED BY <1>1, <2>2, <2>3, <2>4, RunOnly DEF SeedsInv, SeedsTyped, SeedsTypeOK
<1> QED BY <1>2, <1>3, <1>4 DEF LookUp

LEMMA WritingRow ==
    ASSUME SeedsInv, NEW r \in Runs, WriteRow(r)
    PROVE  SeedsInv'
<1> DEFINE k == row(r)
<1>0. /\ runs[r].doing = "writing" /\ UNCHANGED <<starts, usersVars>>
      /\ k \in SeededRows \ inBulk
  BY RowFacts DEF WriteRow, row, SeedsInv, RunsProgress, progress
<1>1. CASE k \in stored /\ stops(r)
  BY <1>0, <1>1, Stopping DEF WriteRow
<1>2. CASE k \in stored /\ goes(r, afterRow(r))
  <2>1. PICK R : R = afterRow(r)
    OBVIOUS
  <2>2. UNCHANGED bankVars
    BY <1>2 DEF WriteRow
  <2>3. R \in SeedRun /\ progress(R)'
    BY <1>0, <1>2, <2>1, <2>2, RowDone DEF bankVars, usersVars, kept
  <2>4. progress(R)
    BY <1>0, <2>2, <2>3 DEF progress, upserted, inserted, hung, kept, bankVars, usersVars
  <2> QED BY <1>0, <1>2, <2>1, <2>2, <2>3, <2>4, RunOnly DEF SeedsInv, SeedsTyped, SeedsTypeOK
<1>3. CASE k \notin stored
  <2>1. /\ stored' = stored \cup {k}
        /\ content' = [content EXCEPT ![k] = "seed"]
        /\ hanging' = hanging \cup ofRow(k)
        /\ goes(r, afterRow(r))
        /\ UNCHANGED <<starts, madeByUsers, takenOff>>
    BY <1>0, <1>3 DEF WriteRow, usersVars
  <2> HIDE DEF k
  <2>2. PICK R : R = afterRow(r)
    OBVIOUS
  <2>3. stored \subseteq stored' /\ kept' = kept \cup ofRow(k)
    BY <2>1 DEF kept
  <2>4. R \in SeedRun /\ progress(R)'
    BY <1>0, <2>1, <2>2, <2>3, RowDone DEF k
  <2>5. RunsProgress' /\ runs' \in [Runs -> SeedRun]
    BY <2>1, <2>2, <2>3, <2>4, OneRun
  <2>6. /\ stored' \subseteq SeededRows /\ content' \in [SeededRows -> {"seed", "users"}]
        /\ hanging' \subseteq UNION {ofRow(j) : j \in stored'}
        /\ starts' \in 0 .. MaxStarts
    BY <1>0, <2>1 DEF SeedsInv, SeedsTyped, SeedsTypeOK
  <2>7. SeedsTyped'
    BY <2>5, <2>6, TypedRuns DEF SeedsTyped, SeedsTypeOK
  <2>8. RowsAreWhole'
    BY <2>1, <2>3 DEF SeedsInv, RowsAreWhole
  <2>9. PeopleKnowRows'
    BY <2>1 DEF SeedsInv, PeopleKnowRows
  <2>10. SeedsUndoNothing'
    <3>1. k \notin madeByUsers /\ \A off \in takenOff : off[1] # k
      BY <1>3 DEF SeedsInv, PeopleKnowRows
    <3>2. \A j \in madeByUsers : content'[j] = "users"
      BY <2>1, <3>1 DEF SeedsInv, SeedsUndoNothing, SeedsTyped, SeedsTypeOK, PeopleKnowRows
    <3>3. \A off \in takenOff : off \notin ofRow(k)
      BY <3>1 DEF ofRow
    <3> QED BY <2>1, <3>2, <3>3 DEF SeedsInv, SeedsUndoNothing
  <2> QED BY <2>5, <2>7, <2>8, <2>9, <2>10 DEF SeedsInv
<1> QED BY <1>0, <1>1, <1>2, <1>3 DEF WriteRow

-----------------------------------------------------------------------------
(* The bulk bank, batch by batch *)

afterBatch(run) ==
    IF ~ (run.at + batchSize > run.count) THEN [run EXCEPT !.at = @ + batchSize]
    ELSE IF run.stage < Len(Kinds) THEN [run EXCEPT !.stage = @ + 1, !.at = 1]
    ELSE [run EXCEPT !.doing = "finished"]

(* A batch is what the run has not come to yet, up to where it goes next. *)
LEMMA BatchFacts ==
    ASSUME SeedsInv, NEW r \in Runs, runs[r].doing = "inserting", NEW run, run = runs[r]
    PROVE  /\ run \in SeedRun /\ progress(run) /\ run.at \in 1 .. run.count
           /\ run.count \in Nat /\ run.stage \in 0 .. 3 /\ run.command \in Commands
           /\ batch(run) \subseteq SeededRows \cap inBulk
           /\ \A n \in 1 .. run.count :
                 /\ n < run.at + batchSize => n < run.at \/ bulkRows[n] \in batch(run)
                 /\ bulkRows[n] \in SeededRows
           /\ batch(run) \subseteq {bulkRows[n] : n \in 1 .. run.count}
<1>1. /\ run \in SeedRun /\ progress(run)
  BY DEF SeedsInv, SeedsTyped, RunsProgress
<1>2. /\ run.at \in 1 .. run.count /\ run.command \in Commands
      /\ run.count \in 0 .. Len(bulkRows) /\ run.stage \in 0 .. 3
      /\ Len(bulkRows) \in Nat /\ batchSize \in Nat \ {0}
  BY <1>1, RowFacts, KindsFacts, SeedsAssumption DEF progress, SeedRun
<1> DEFINE top == IF run.at + batchSize - 1 < run.count THEN run.at + batchSize - 1
                                                        ELSE run.count
<1>3. batch(run) = {bulkRows[n] : n \in run.at .. top}
  BY DEF batch
<1>4. /\ top \in Nat /\ run.at .. top \subseteq 1 .. run.count
      /\ \A n \in 1 .. run.count : n < run.at + batchSize => n < run.at \/ n \in run.at .. top
  BY <1>2
<1> HIDE DEF top
<1>5. \A n \in 1 .. run.count : bulkRows[n] \in SeededRows /\ bulkRows[n] \in inBulk
  BY <1>2, RowFacts
<1> QED BY <1>1, <1>2, <1>3, <1>4, <1>5

(* Where a run is after a batch, once what the batch is of is there. *)
LEMMA BatchDone ==
    ASSUME SeedsInv, NEW r \in Runs, runs[r].doing = "inserting", NEW run, run = runs[r],
           stored \subseteq stored', kept \subseteq kept',
           run.stage = 0 => batch(run) \subseteq stored',
           run.stage > 0 => \A k \in batch(run) : Kinds[run.stage] \in parts[k] =>
                               <<k, Kinds[run.stage]>> \in kept',
           NEW R \in SeedRun, NEW W \in SUBSET SeededRows, R = [afterBatch(run) EXCEPT !.wrote = W]
    PROVE  progress(R)'
<1>1. /\ run \in SeedRun /\ run.at \in 1 .. run.count
      /\ run.count \in Nat /\ run.stage \in 0 .. 3 /\ run.command \in Commands
      /\ progress(run)'
      /\ batchSize \in Nat \ {0}
      /\ \A n \in 1 .. run.count : n < run.at + batchSize => n < run.at \/ bulkRows[n] \in batch(run)
  BY BatchFacts, ProgressKept, SeedsAssumption
<1>2. /\ upserted(run, Len(upserts[run.command]))'
      /\ run.stage = 0 => inserted(run.at - 1)'
      /\ run.stage > 0 => inserted(run.count)' /\ hung(run.stage, run.at - 1)'
      /\ \A j \in 1 .. run.stage - 1 : hung(j, run.count)'
  BY <1>1 DEF progress
<1>3. ASSUME NEW n \in 1 .. run.count, n < run.at + batchSize
      PROVE  /\ run.stage = 0 => bulkRows[n] \in stored'
             /\ run.stage > 0 /\ Kinds[run.stage] \in parts[bulkRows[n]] =>
                   <<bulkRows[n], Kinds[run.stage]>> \in kept'
  <2>1. CASE bulkRows[n] \in batch(run)
    BY <2>1
  <2>2. CASE n < run.at
    <3>1. n \in 1 .. run.at - 1
      BY <1>1, <2>2
    <3> QED BY <1>2, <3>1 DEF inserted, hung
  <2> QED BY <1>1, <1>3, <2>1, <2>2
<1>4. CASE ~(run.at + batchSize > run.count)
  <2>0. PICK at \in Nat : at = run.at + batchSize
    BY <1>1
  <2>1. R = [[run EXCEPT !.at = at] EXCEPT !.wrote = W]
    BY <1>4, <2>0 DEF afterBatch
  <2>2. /\ R.doing = "inserting" /\ R.at = at /\ R.count = run.count /\ R.stage = run.stage
        /\ R.command = run.command
    BY <1>1, <2>1 DEF SeedRun
  <2>3. at \in 1 .. run.count
    BY <1>1, <1>4, <2>0
  <2>4. \A n \in 1 .. at - 1 : n \in 1 .. run.count /\ n < run.at + batchSize
    BY <1>1, <1>4, <2>0
  <2>5. /\ run.stage = 0 => inserted(at - 1)'
        /\ run.stage > 0 => hung(run.stage, at - 1)'
    BY <1>3, <2>4 DEF inserted, hung
  <2>6. upserted(R, Len(upserts[R.command]))'
    BY <1>2, <2>2 DEF upserted
  <2> QED BY <1>1, <1>2, <2>2, <2>3, <2>5, <2>6 DEF progress
<1>5. CASE run.at + batchSize > run.count
  <2>1. \A n \in 1 .. run.count : n < run.at + batchSize
    BY <1>1, <1>5
  <2>2. /\ inserted(run.count)'
        /\ run.stage > 0 => hung(run.stage, run.count)'
    BY <1>2, <1>3, <2>1, <1>1 DEF inserted, hung
  <2>3. \A j \in 1 .. run.stage : hung(j, run.count)'
    <3>1. ASSUME NEW j \in 1 .. run.stage PROVE hung(j, run.count)'
      <4>1. j = run.stage \/ j \in 1 .. run.stage - 1
        BY <1>1
      <4> QED BY <1>1, <1>2, <2>2, <4>1
    <3> QED BY <3>1
  <2>4. CASE run.stage < Len(Kinds)
    <3>0. PICK stage \in Nat : stage = run.stage + 1
      BY <1>1
    <3>1. R = [[run EXCEPT !.stage = stage, !.at = 1] EXCEPT !.wrote = W]
      BY <1>5, <2>4, <3>0 DEF afterBatch
    <3>2. /\ R.doing = "inserting" /\ R.at = 1 /\ R.count = run.count /\ R.stage = stage
          /\ R.command = run.command
      BY <1>1, <3>1 DEF SeedRun
    <3>3. R.at \in 1 .. R.count /\ stage > 0 /\ stage - 1 = run.stage
      BY <1>1, <3>0, <3>2
    <3>4. hung(stage, 1 - 1)'
      BY DEF hung
    <3>5. upserted(R, Len(upserts[R.command]))'
      BY <1>2, <3>2 DEF upserted
    <3> QED BY <1>1, <2>2, <2>3, <3>2, <3>3, <3>4, <3>5 DEF progress
  <2>5. CASE ~(run.stage < Len(Kinds))
    <3>1. R = [[run EXCEPT !.doing = "finished"] EXCEPT !.wrote = W]
      BY <1>5, <2>5 DEF afterBatch
    <3>2. R.doing = "finished" /\ R.count = run.count /\ R.command = run.command
      BY <1>1, <3>1 DEF SeedRun
    <3>3. run.stage = Len(Kinds)
      BY <1>1, <2>5, KindsFacts
    <3>4. upserted(R, Len(upserts[R.command]))'
      BY <1>2, <3>2 DEF upserted
    <3> QED BY <1>1, <2>2, <2>3, <3>2, <3>3, <3>4 DEF progress
  <2> QED BY <2>4, <2>5
<1> QED BY <1>4, <1>5

LEMMA AfterBatchTyped ==
    ASSUME NEW run \in SeedRun, run.at \in 1 .. run.count, run.count \in Nat,
           run.stage \in 0 .. 3, NEW W \in SUBSET SeededRows
    PROVE  /\ afterBatch(run) \in SeedRun
           /\ [afterBatch(run) EXCEPT !.wrote = W] \in SeedRun
           /\ afterBatch(run) = [afterBatch(run) EXCEPT !.wrote = run.wrote]
           /\ afterBatch(run).wrote = run.wrote
<1>1. PICK at \in Nat, stage \in 0 .. 4 : at = run.at + batchSize /\ stage = run.stage + 1
  BY SeedsAssumption
<1>2. /\ [run EXCEPT !.at = at] \in SeedRun
      /\ stage =< 3 => [run EXCEPT !.stage = stage, !.at = 1] \in SeedRun
      /\ [run EXCEPT !.doing = "finished"] \in SeedRun
  <2>1. [run EXCEPT !.at = at] \in SeedRun
    BY DEF SeedRun
  <2>2. ASSUME stage =< 3 PROVE [run EXCEPT !.stage = stage, !.at = 1] \in SeedRun
    <3>1. stage \in 0 .. Len(Kinds)
      BY <1>1, <2>2, KindsFacts
    <3> QED BY <3>1 DEF SeedRun
  <2>3. [run EXCEPT !.doing = "finished"] \in SeedRun
    BY DEF SeedRun
  <2> QED BY <2>1, <2>2, <2>3
<1>3. \/ afterBatch(run) = [run EXCEPT !.at = at]
      \/ afterBatch(run) = [run EXCEPT !.stage = stage, !.at = 1] /\ stage =< 3
      \/ afterBatch(run) = [run EXCEPT !.doing = "finished"]
  BY <1>1, KindsFacts DEF afterBatch
<1>4. afterBatch(run) \in SeedRun /\ afterBatch(run).wrote = run.wrote
  BY <1>2, <1>3 DEF SeedRun
<1>5. PICK R \in SeedRun : R = afterBatch(run)
  BY <1>4
<1>6. [R EXCEPT !.wrote = W] \in SeedRun /\ R = [R EXCEPT !.wrote = R.wrote]
  BY DEF SeedRun
<1> QED BY <1>4, <1>5, <1>6

LEMMA InsertingBatch ==
    ASSUME SeedsInv, NEW r \in Runs, InsertBatch(r)
    PROVE  SeedsInv'
<1>0. PICK run : run = runs[r]
  OBVIOUS
<1>1. /\ run.doing = "inserting" /\ UNCHANGED <<starts, madeByUsers, takenOff>>
  BY <1>0 DEF InsertBatch, usersVars
<1>2. /\ run \in SeedRun /\ progress(run) /\ run.at \in 1 .. run.count
      /\ run.count \in Nat /\ run.stage \in 0 .. 3
      /\ batch(run) \subseteq SeededRows \cap inBulk
      /\ batch(run) \subseteq {bulkRows[n] : n \in 1 .. run.count}
  BY <1>0, <1>1, BatchFacts
<1>3. CASE run.stage = 0
  <2> DEFINE new == batch(run) \ stored
  <2>0. run.wrote \cup new \in SUBSET SeededRows
    BY <1>2 DEF SeedRun
  <2>1. PICK W \in SUBSET SeededRows : W = run.wrote \cup new
    BY <2>0
  <2>a. /\ [afterBatch(run) EXCEPT !.wrote = W] \in SeedRun
        /\ afterBatch(run).wrote = run.wrote
    BY <1>2, <2>1, AfterBatchTyped
  <2>2. PICK R \in SeedRun : R = [afterBatch(run) EXCEPT !.wrote = W]
    BY <2>a
  <2>3. /\ stored' = stored \cup batch(run)
        /\ content' = [k \in SeededRows |-> IF k \in new THEN "seed" ELSE content[k]]
        /\ UNCHANGED hanging
    BY <1>0, <1>3 DEF InsertBatch
  <2>4. goes(r, [afterBatch(run) EXCEPT !.wrote = @ \cup new])
    BY <1>0, <1>3 DEF InsertBatch, afterBatch
  <2>5. goes(r, R)
    BY <2>1, <2>2, <2>4, <2>a
  <2>6. stored \subseteq stored' /\ kept' = kept
    BY <1>1, <2>3 DEF kept
  <2>7. progress(R)'
    <3>1. batch(run) \subseteq stored' /\ kept \subseteq kept' /\ ~(run.stage > 0)
      BY <1>3, <2>3, <2>6
    <3> QED BY <1>0, <1>1, <2>2, <2>6, <3>1, BatchDone
  <2>8. RunsProgress' /\ runs' \in [Runs -> SeedRun]
    BY <2>2, <2>5, <2>6, <2>7, OneRun
  <2>9. /\ stored' \subseteq SeededRows /\ content' \in [SeededRows -> {"seed", "users"}]
        /\ hanging' \subseteq UNION {ofRow(j) : j \in stored'}
        /\ starts' \in 0 .. MaxStarts
    BY <1>1, <1>2, <2>3 DEF SeedsInv, SeedsTyped, SeedsTypeOK
  <2>10. SeedsTyped'
    BY <2>8, <2>9, TypedRuns DEF SeedsTyped, SeedsTypeOK
  <2>11. RowsAreWhole' /\ PeopleKnowRows'
    BY <1>1, <1>2, <2>3, <2>6 DEF SeedsInv, RowsAreWhole, PeopleKnowRows
  <2>12. SeedsUndoNothing'
    BY <1>1, <2>3
       DEF SeedsInv, SeedsUndoNothing, PeopleKnowRows, SeedsTyped, SeedsTypeOK
  <2> QED BY <2>8, <2>10, <2>11, <2>12 DEF SeedsInv
<1>4. CASE run.stage # 0
  <2> DEFINE kind == Kinds[run.stage]
             R == afterBatch(run)
             put == {part \in batch(run) \X {kind} : part[2] \in parts[part[1]]}
  <2>1. R \in SeedRun /\ R = [R EXCEPT !.wrote = run.wrote] /\ run.wrote \in SUBSET SeededRows
    BY <1>2, AfterBatchTyped DEF SeedRun
  <2>2. hanging' = hanging \cup put /\ UNCHANGED <<stored, content>>
    BY <1>0, <1>4 DEF InsertBatch, hungFrom
  <2>3. goes(r, R)
    BY <1>0, <1>4 DEF InsertBatch, afterBatch
  <2> HIDE DEF kind, R
  <2>a. \A part \in put : /\ part \in ofRow(part[1]) /\ part[1] \in batch(run)
                          /\ part = <<part[1], part[2]>>
    BY DEF ofRow
  <2>b. \A k \in batch(run) : kind \in parts[k] => <<k, kind>> \in put
    OBVIOUS
  <2> HIDE DEF put
  <2>4. stored \subseteq stored' /\ kept' = kept \cup put
    BY <1>1, <2>2 DEF kept
  <2>5. \A k \in batch(run) : kind \in parts[k] => <<k, kind>> \in kept'
    BY <2>4, <2>b
  <2>6. progress(R)'
    BY <1>0, <1>1, <1>4, <2>1, <2>4, <2>5, BatchDone DEF kind, R
  <2>7. RunsProgress' /\ runs' \in [Runs -> SeedRun]
    BY <2>1, <2>3, <2>4, <2>6, OneRun
  <2>8. batch(run) \subseteq stored
    BY <1>1, <1>2, <1>4 DEF progress, inserted
  <2>9. hanging' \subseteq UNION {ofRow(j) : j \in stored'}
    <3>1. \A part \in put : part \in UNION {ofRow(j) : j \in stored}
      BY <2>8, <2>a
    <3> QED BY <2>2, <3>1 DEF SeedsInv, SeedsTyped, SeedsTypeOK
  <2>10. SeedsTyped'
    BY <1>1, <2>2, <2>7, <2>9, TypedRuns DEF SeedsInv, SeedsTyped, SeedsTypeOK
  <2>11. RowsAreWhole' /\ PeopleKnowRows'
    BY <1>1, <2>2, <2>4 DEF SeedsInv, RowsAreWhole, PeopleKnowRows
  <2>12. SeedsUndoNothing'
    BY <1>1, <1>2, <2>2, <2>a DEF SeedsInv, SeedsUndoNothing
  <2> QED BY <2>7, <2>10, <2>11, <2>12 DEF SeedsInv
<1> QED BY <1>3, <1>4

LEMMA PeopleStep ==
    ASSUME SeedsInv, NEW k \in SeededRows, UserCreates(k) \/ UserChanges(k)
    PROVE  SeedsInv'
<1>1. PICK off \in SUBSET hanging :
         /\ off \subseteq ofRow(k)
         /\ hanging' = hanging \ off /\ takenOff' = takenOff \cup off
         /\ off # {} => k \in stored
         /\ stored' = stored \cup {k}
         /\ content' = [content EXCEPT ![k] = "users"]
         /\ madeByUsers' = madeByUsers \cup {k}
         /\ k \notin stored => parts[k] = {}
         /\ UNCHANGED <<runs, starts>>
  <2>1. CASE UserCreates(k)
    <3>1. hanging' = hanging \ {} /\ takenOff' = takenOff \cup {}
      BY <2>1 DEF UserCreates
    <3> QED BY <2>1, <3>1, RowsAssumption DEF UserCreates
  <2>2. CASE UserChanges(k)
    <3>1. PICK off \in SUBSET (ofRow(k) \cap hanging) :
             hanging' = hanging \ off /\ takenOff' = takenOff \cup off
      BY <2>2 DEF UserChanges
    <3>2. stored' = stored \cup {k}
      BY <2>2 DEF UserChanges
    <3> QED BY <2>2, <3>1, <3>2 DEF UserChanges
  <2> QED BY <2>1, <2>2
<1>2. stored \subseteq stored' /\ kept' = kept
  BY <1>1 DEF kept
<1>3. RunsProgress'
  <2>1. ASSUME NEW r \in Runs PROVE progress(runs[r])'
    <3>1. PICK run : run = runs[r]
      OBVIOUS
    <3>2. progress(run)'
      BY <1>2, <3>1, ProgressKept DEF SeedsInv, RunsProgress
    <3> QED BY <1>1, <3>1, <3>2 DEF progress, upserted, inserted, hung
  <2> QED BY <2>1 DEF RunsProgress
<1>4. SeedsTyped'
  <2>1. hanging' \subseteq UNION {ofRow(j) : j \in stored'}
    BY <1>1 DEF SeedsInv, SeedsTyped, SeedsTypeOK
  <2> QED BY <1>1, <2>1 DEF SeedsInv, SeedsTyped, SeedsTypeOK
<1>5. RowsAreWhole'
  <2>1. k \notin stored => ofRow(k) = {}
    BY <1>1 DEF ofRow
  <2> QED BY <1>1, <1>2, <2>1 DEF SeedsInv, RowsAreWhole
<1>6. PeopleKnowRows'
  <2>1. \A part \in off : part[1] = k
    BY <1>1 DEF ofRow
  <2> QED BY <1>1, <2>1 DEF SeedsInv, PeopleKnowRows
<1>7. SeedsUndoNothing'
  BY <1>1 DEF SeedsInv, SeedsUndoNothing, SeedsTyped, SeedsTypeOK, PeopleKnowRows
<1> QED BY <1>3, <1>4, <1>5, <1>6, <1>7 DEF SeedsInv

LEMMA SeedsInvStep == SeedsInv /\ [SeedsNext]_seedVars => SeedsInv'
<1> SUFFICES ASSUME SeedsInv, [SeedsNext]_seedVars PROVE SeedsInv'
  OBVIOUS
<1>1. CASE UNCHANGED seedVars
  BY <1>1 DEF seedVars, SeedsInv, SeedsTyped, SeedsTypeOK, RunsProgress, progress, upserted,
              inserted, hung, kept, RowsAreWhole, PeopleKnowRows, SeedsUndoNothing
<1>2. ASSUME NEW r \in Runs, Interrupt(r) PROVE SeedsInv'
  BY <1>2, Stopping DEF Interrupt
<1> QED BY <1>1, <1>2, Starting, LookingUp, WritingRow, InsertingBatch, PeopleStep DEF SeedsNext

LEMMA SeedsInvariance == SeedsSpec => []SeedsInv
BY SeedsInvInit, SeedsInvStep, PTL DEF SeedsSpec

(* No run takes back what people did: a row they made or changed was there when
   a run came to it and is left, and what they took off is hung again only by
   the bulk bank, from its own Questions. *)
THEOREM NothingUndone == SeedsSpec => []SeedsUndoNothing
<1>1. SeedsInv => SeedsUndoNothing
  BY DEF SeedsInv
<1> QED BY <1>1, SeedsInvariance, PTL

(* A run that finishes has come by every row it stands for and found it or
   written it, with all that hangs from it but what people took off, though
   any number of earlier and concurrent runs stopped half way. *)
THEOREM FinishedSeedsAreWhole == SeedsSpec => []AFinishedSeedIsWhole
<1>1. SeedsInv => AFinishedSeedIsWhole
  <2> SUFFICES ASSUME SeedsInv, NEW r \in Runs, runs[r].doing = "finished"
               PROVE  LET whole == {upserts[runs[r].command][n] :
                                       n \in DOMAIN upserts[runs[r].command]}
                                   \cup {bulkRows[n] : n \in 1 .. runs[r].count}
                      IN  whole \subseteq stored
                          /\ UNION {ofRow(k) : k \in whole} \subseteq hanging \cup takenOff
    BY DEF AFinishedSeedIsWhole
  <2> DEFINE run == runs[r]
  <2>1. /\ run.command \in Commands /\ upserted(run, Len(upserts[run.command]))
        /\ inserted(run.count) /\ \A j \in 1 .. 3 : hung(j, run.count)
        /\ run.count \in 0 .. Len(bulkRows)
    BY KindsFacts DEF SeedsInv, SeedsTyped, SeedRun, RunsProgress, progress
  <2>2. \A n \in DOMAIN upserts[run.command] :
           /\ upserts[run.command][n] \in stored
           /\ ofRow(upserts[run.command][n]) \subseteq kept
    BY <2>1, RowFacts DEF upserted, SeedsInv, RowsAreWhole
  <2>3. ASSUME NEW n \in 1 .. run.count
        PROVE  bulkRows[n] \in stored /\ ofRow(bulkRows[n]) \subseteq kept
    <3>1. bulkRows[n] \in stored /\ bulkRows[n] \in SeededRows
      BY <2>1 DEF inserted, SeedsInv, SeedsTyped, SeedsTypeOK
    <3>2. ASSUME NEW kind \in parts[bulkRows[n]] PROVE <<bulkRows[n], kind>> \in kept
      BY <2>1, <3>1, KindsFacts DEF hung
    <3> QED BY <3>1, <3>2 DEF ofRow
  <2> HIDE DEF run
  <2> QED BY <2>2, <2>3 DEF kept, run
<1> QED BY <1>1, SeedsInvariance, PTL
=============================================================================
