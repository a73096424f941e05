-------------------------------- MODULE Seeds --------------------------------
(***************************************************************************)
(* The commands that seed a database: the small seed and the hosted one,   *)
(* which upsert row after row, and the bulk bank, which hangs Questions    *)
(* from the small seed's rows in batches.  No transaction spans a run; a   *)
(* run may stop at any statement, be run again, run beside another one,    *)
(* and run against a database people are using.                            *)
(***************************************************************************)
EXTENDS Naturals, Sequences, FiniteSets

CONSTANTS
    Runs,
    upserts,    \* [command -> the rows it upserts, in order]
    needs,      \* [row -> the rows it looks up before it is written]
    parts,      \* [row -> what hangs from it: its Tags, Clients and Author's Upvote]
    bulkRows,   \* the Questions of the bulk bank, by their number
    batchSize,
    createdByUsers, \* rows that people may create themselves: Viewers and Clients
    MaxStarts

Commands == DOMAIN upserts

Kinds == <<"tag", "client", "upvote">>

SeededRows == DOMAIN parts

ASSUME SeedsAssumption ==
    /\ {"small", "hosted", "bulk"} \subseteq Commands
    /\ \A c \in Commands : upserts[c] \in Seq(SeededRows)
    /\ needs \in [SeededRows -> SUBSET SeededRows]
    /\ \A k \in SeededRows : parts[k] \subseteq {Kinds[i] : i \in DOMAIN Kinds}
    /\ bulkRows \in Seq(SeededRows) /\ batchSize \in Nat \ {0}
    /\ createdByUsers \subseteq SeededRows /\ MaxStarts \in Nat

(* Every command upserts something, no bulk Question has the id of a seeded
   one, and nothing hangs from a Viewer or a Client. *)
ASSUME RowsAssumption ==
    /\ \A c \in Commands : upserts[c] # <<>>
    /\ \A c \in Commands : \A n \in DOMAIN upserts[c] :
          \A m \in DOMAIN bulkRows : upserts[c][n] # bulkRows[m]
    /\ \A k \in createdByUsers : parts[k] = {}

VARIABLES
    stored,     \* the rows there are
    content,    \* who said last what a row holds
    hanging,    \* the Tags, Clients and Upvotes of the stored Questions
    runs,
    starts,     \* runs begun, capped at MaxStarts
    madeByUsers,\* history: rows people created or edited
    takenOff    \* history: what people took off a Question

seedVars == <<stored, content, hanging, runs, starts, madeByUsers, takenOff>>

bankVars == <<stored, content, hanging>>

usersVars == <<madeByUsers, takenOff>>

ofRow(k) == {k} \X parts[k]

Resting == [command |-> "none", doing |-> "nothing", at |-> 0, count |-> 0, stage |-> 0, wrote |-> {}]

SeedsTypeOK ==
    /\ stored \subseteq SeededRows
    /\ content \in [SeededRows -> {"seed", "users"}]
    /\ hanging \subseteq UNION {ofRow(k) : k \in stored}
    /\ \A r \in Runs :
          /\ runs[r].command \in Commands \cup {"none"}
          /\ runs[r].doing \in {"nothing", "looking", "writing", "inserting", "finished", "stopped"}
          /\ runs[r].count \in 0 .. Len(bulkRows)
          /\ runs[r].stage \in 0 .. Len(Kinds) + 1
    /\ starts \in 0 .. MaxStarts

SeedsInit ==
    /\ stored = {} /\ hanging = {}
    /\ content = [k \in SeededRows |-> "seed"]
    /\ runs = [r \in Runs |-> Resting]
    /\ starts = 0
    /\ madeByUsers = {} /\ takenOff = {}

atWork(r) == runs[r].doing \in {"looking", "writing", "inserting"}

goes(r, to) == runs' = [runs EXCEPT ![r] = to]

stops(r) == goes(r, [runs[r] EXCEPT !.doing = "stopped"])

-----------------------------------------------------------------------------
(* The runs *)

(* The environment, the hosted passwords and the bulk bank's arguments are read
   before the database is connected to: a bad one stops the run with nothing
   written. *)
StartRun(r, c) ==
    /\ ~ atWork(r)
    /\ starts < MaxStarts
    /\ starts' = starts + 1
    /\ \E count \in IF c = "bulk" THEN 1 .. Len(bulkRows) ELSE {0} :
          \/ goes(r, [Resting EXCEPT !.command = c, !.doing = "looking", !.at = 1, !.count = count])
          \/ goes(r, [Resting EXCEPT !.command = c, !.doing = "stopped"])
    /\ UNCHANGED <<bankVars, usersVars>>

row(r) == upserts[runs[r].command][runs[r].at]

(* After the last upsert the bulk bank is inserted, and the other runs are done. *)
afterRow(r) ==
    LET run == runs[r] IN
    IF run.at < Len(upserts[run.command]) THEN [run EXCEPT !.doing = "looking", !.at = @ + 1]
    ELSE IF run.count > 0 THEN [run EXCEPT !.doing = "inserting", !.at = 1]
    ELSE [run EXCEPT !.doing = "finished"]

(* What an upsert makes of a row that is there: `update: {}`, nothing.
   Mutant: it writes the seeded values over it. *)
updated_seeded(k) == [content EXCEPT ![k] = "seed"]

updated(k) == content

(* A row's Author, Clients and Tags are looked up first: one that is missing
   stops the run. *)
LookUp(r) ==
    /\ runs[r].doing = "looking"
    /\ IF ~ needs[row(r)] \subseteq stored THEN stops(r) /\ UNCHANGED content
       ELSE IF row(r) \in stored THEN goes(r, afterRow(r)) /\ content' = updated(row(r))
       ELSE goes(r, [runs[r] EXCEPT !.doing = "writing"]) /\ UNCHANGED content
    /\ UNCHANGED <<stored, hanging, starts, usersVars>>

(* The row with what hangs from it, in one transaction.  Where someone wrote it
   since it was looked up, it is left or its key is refused, as the database
   compiles the upsert. *)
WriteRow(r) ==
    /\ runs[r].doing = "writing"
    /\ IF row(r) \in stored
       THEN (goes(r, afterRow(r)) \/ stops(r)) /\ UNCHANGED bankVars
       ELSE /\ stored' = stored \cup {row(r)}
            /\ content' = [content EXCEPT ![row(r)] = "seed"]
            /\ hanging' = hanging \cup ofRow(row(r))
            /\ goes(r, afterRow(r))
    /\ UNCHANGED <<starts, usersVars>>

(* The bulk Questions of a batch: stage 0 inserts the Questions themselves, and
   each later one a kind of what hangs from them.
   Mutant: what hangs from a Question is inserted only with the Question. *)
batch(run) == {bulkRows[n] : n \in run.at .. IF run.at + batchSize - 1 < run.count
                                             THEN run.at + batchSize - 1 ELSE run.count}

hungFrom_whatThisRunWrote(run) == batch(run) \cap run.wrote

hungFrom(run) == batch(run)

InsertBatch(r) ==
    LET run == runs[r]
        last == run.at + batchSize > run.count
        next == IF ~ last THEN [run EXCEPT !.at = @ + batchSize]
                ELSE IF run.stage < Len(Kinds) THEN [run EXCEPT !.stage = @ + 1, !.at = 1]
                ELSE [run EXCEPT !.doing = "finished"]
    IN
    /\ run.doing = "inserting"
    /\ IF run.stage = 0
       THEN /\ stored' = stored \cup batch(run)
            /\ content' = [k \in SeededRows |-> IF k \in batch(run) \ stored THEN "seed" ELSE content[k]]
            /\ goes(r, [next EXCEPT !.wrote = @ \cup (batch(run) \ stored)])
            /\ UNCHANGED hanging
       ELSE /\ hanging' = hanging \cup
                  {part \in hungFrom(run) \X {Kinds[run.stage]} : part[2] \in parts[part[1]]}
            /\ goes(r, next)
            /\ UNCHANGED <<stored, content>>
    /\ UNCHANGED <<starts, usersVars>>

(* The command is killed, or the connection is lost, between two statements. *)
Interrupt(r) ==
    /\ atWork(r)
    /\ stops(r)
    /\ UNCHANGED <<bankVars, starts, usersVars>>

-----------------------------------------------------------------------------
(* People using the database *)

(* A Client or a Viewer with the seed's own name or email. *)
UserCreates(k) ==
    /\ k \in createdByUsers \ stored
    /\ stored' = stored \cup {k}
    /\ content' = [content EXCEPT ![k] = "users"]
    /\ madeByUsers' = madeByUsers \cup {k}
    /\ UNCHANGED <<hanging, runs, starts, takenOff>>

(* A Viewer's Role or password, or a Question's own fields; an edit may take
   Tags and Clients off, and a Viewer may take an Upvote back. *)
UserChanges(k) ==
    /\ k \in stored
    /\ content' = [content EXCEPT ![k] = "users"]
    /\ madeByUsers' = madeByUsers \cup {k}
    /\ \E off \in SUBSET (ofRow(k) \cap hanging) :
          /\ hanging' = hanging \ off
          /\ takenOff' = takenOff \cup off
    /\ UNCHANGED <<stored, runs, starts>>

SeedsNext ==
    \/ \E r \in Runs :
          \/ \E c \in Commands : StartRun(r, c)
          \/ LookUp(r) \/ WriteRow(r) \/ InsertBatch(r) \/ Interrupt(r)
    \/ \E k \in SeededRows : UserCreates(k) \/ UserChanges(k)

SeedsSpec == SeedsInit /\ [][SeedsNext]_seedVars

-----------------------------------------------------------------------------
(* Properties *)

inBulk == {bulkRows[n] : n \in DOMAIN bulkRows}

(* Seeding a database someone has been using undoes nothing they did: a row
   they made stays as they made it, and what they took off a Question stays
   off, however many runs are interrupted, begun again or raced.  (The upserts
   of the seeds.  The bulk bank puts back what was taken off its Questions: it
   inserts that without a look at whether the Question is new.) *)
SeedsUndoNothing ==
    /\ \A k \in madeByUsers : content[k] = "users"
    /\ \A off \in takenOff : off[1] \in inBulk \/ off \notin hanging

(* A run that finishes leaves the whole bank it stands for, whatever earlier
   runs left half written: nothing is missing but what people took off.
   (insertInBatches skips the rows that are there, kind by kind, instead of
   what hangs from a Question that is there.) *)
AFinishedSeedIsWhole ==
    \A r \in Runs : runs[r].doing = "finished" =>
        LET upserted == {upserts[runs[r].command][n] : n \in DOMAIN upserts[runs[r].command]}
            whole == upserted \cup {bulkRows[n] : n \in 1 .. runs[r].count}
        IN  /\ whole \subseteq stored
            /\ UNION {ofRow(k) : k \in whole} \subseteq hanging \cup takenOff
=============================================================================
