----------------------------- MODULE SyncImport -----------------------------
(***************************************************************************)
(* Import of a pinned archive, row by row in one transaction:              *)
(* import_pinned_inner of src/src/sync_input.rs, import_tables and what it *)
(* calls in src/src/sync_engine.rs, and the publication of a database that *)
(* did not exist, import_with_before_publish of src/src/sync.rs.           *)
(*                                                                         *)
(* The archive has been pinned and validated: keys are unique, child rows  *)
(* have their run in it, and no run is both carried and deleted.  Rows are *)
(* applied in any order.  segments and events obey the same rules and are  *)
(* the child rows of one table here.                                       *)
(***************************************************************************)
EXTENDS ImportPolicy

VARIABLES
    staged,         \* the import builds a new database beside db_path
    pc,             \* where the import is
    txn,            \* the tables as the open transaction sees them
    todo,           \* rows of the current channel not yet applied
    inserted,       \* inserted_run_ids
    overwritten,    \* overwritten_run_ids
    before,         \* the child keys of each overwritten run before it was overwritten
    conflicts,      \* rows recorded as conflicts
    artifact        \* sync_conflicts.jsonl

tracking == <<inserted, overwritten, before>>
iVars == <<staged, pc, txn, todo, tracking, conflicts, artifact>>
allVars == <<vars, iVars>>

Carried == {r \in Runs : archive[r] \in Aggregates}
Tombstones == {r \in Runs : archive[r] = Deleted}
ChildRows == {c \in Carried \X Keys : archive[c[1]].child[c[2]] # None}
NoChild == [k \in Keys |-> None]

IInit ==
    /\ Init
    /\ staged = FALSE
    /\ pc = "start"
    /\ txn = Empty
    /\ todo = {}
    /\ inserted = {} /\ overwritten = {}
    /\ before = [r \in Runs |-> {}]
    /\ conflicts = {} /\ artifact = {}

\* The import returns with an error, and the transaction is rolled back.
Return(result) ==
    /\ pc' = "done"
    /\ outcome' = result
    /\ UNCHANGED <<db, staged, txn, todo, tracking, conflicts>>

-----------------------------------------------------------------------------
(* The target.                                                             *)

\* Begin a transaction on the database, or on a new one if there is none.
Begin ==
    /\ pc = "start"
    /\ staged' = (db = Absent)
    /\ txn' = IF db = Absent THEN Empty ELSE db
    /\ todo' = Carried
    /\ pc' = "runs"
    /\ UNCHANGED <<db, tracking, conflicts, artifact, archive, policy, outcome>>

\* Another process creates the database.
CreateFile == Create /\ UNCHANGED iVars

-----------------------------------------------------------------------------
(* import_runs and apply_run_row.                                          *)

\* The run is not there: insert its row.
InsertRun(r) ==
    /\ txn[r] = None
    /\ txn' = [txn EXCEPT ![r] = [run |-> archive[r].run, child |-> NoChild]]
    /\ inserted' = inserted \union {r}
    /\ UNCHANGED <<overwritten, before, conflicts>>

\* The same row is there, or skip keeps the one that is.
KeepRun(r) ==
    /\ txn[r] # None
    /\ txn[r].run = archive[r].run \/ policy = "skip"
    /\ UNCHANGED <<txn, tracking, conflicts>>

RejectRun(r) ==
    /\ txn[r] # None
    /\ txn[r].run # archive[r].run /\ policy = "reject"
    /\ conflicts' = conflicts \union {r}
    /\ UNCHANGED <<txn, tracking>>

Overwritten(r) ==
    /\ overwritten' = overwritten \union {r}
    /\ before' = [before EXCEPT ![r] = {k \in Keys : txn[r].child[k] # None}]

\* Update the row and keep the child rows to compare with.
OverwriteRun(r) ==
    /\ txn[r] # None
    /\ txn[r].run # archive[r].run /\ policy = "overwrite"
    /\ Overwritten(r)
    /\ txn' = [txn EXCEPT ![r].run = archive[r].run]
    /\ UNCHANGED <<inserted, conflicts>>

\* Delete the whole aggregate, then insert the row.
ReplaceRun(r) ==
    /\ txn[r] # None
    /\ txn[r].run # archive[r].run /\ policy = "overwrite_strict"
    /\ Overwritten(r)
    /\ txn' = [txn EXCEPT ![r] = [run |-> archive[r].run, child |-> NoChild]]
    /\ inserted' = inserted \union {r}
    /\ UNCHANGED conflicts

ApplyRun ==
    /\ pc = "runs"
    /\ \E r \in todo :
        /\ InsertRun(r) \/ KeepRun(r) \/ RejectRun(r) \/ OverwriteRun(r) \/ ReplaceRun(r)
        /\ todo' = todo \ {r}
    /\ UNCHANGED <<db, staged, pc, artifact, archive, policy, outcome>>

EndRuns ==
    /\ pc = "runs" /\ todo = {}
    /\ pc' = "children"
    /\ todo' = ChildRows
    /\ UNCHANGED <<db, staged, txn, tracking, conflicts, artifact, archive, policy, outcome>>

-----------------------------------------------------------------------------
(* import_segments, import_events and apply_segment_row.                   *)

Value(c) == archive[c[1]].child[c[2]]
Existing(c) == txn[c[1]].child[c[2]]
Store(c) == txn' = [txn EXCEPT ![c[1]].child[c[2]] = Value(c)]


\* skip_preexisting_child_row.
SkipsChild(c) == policy = "skip" /\ c[1] \notin inserted

InsertChild(c) == ~SkipsChild(c) /\ Existing(c) = None /\ Store(c) /\ UNCHANGED conflicts

KeepChild(c) == (SkipsChild(c) \/ Existing(c) = Value(c)) /\ UNCHANGED <<txn, conflicts>>

Conflicting(c) == ~SkipsChild(c) /\ Existing(c) \notin {None, Value(c)}

RejectChild(c) ==
    /\ Conflicting(c) /\ policy = "reject"
    /\ conflicts' = conflicts \union {c}
    /\ txn' = txn

ReplaceChild(c) == Conflicting(c) /\ policy = "overwrite_strict" /\ Store(c) /\ UNCHANGED conflicts

ApplyChild ==
    /\ pc = "children"
    /\ \E c \in todo :
        /\ InsertChild(c) \/ KeepChild(c) \/ RejectChild(c) \/ ReplaceChild(c)
        /\ todo' = todo \ {c}
    /\ UNCHANGED <<db, staged, pc, tracking, artifact, archive, policy, outcome>>

\* overwrite cannot replace a child row: the import fails.
RefuseChild ==
    /\ pc = "children"
    /\ \E c \in todo : Conflicting(c) /\ policy = "overwrite"
    /\ Return("refused")
    /\ UNCHANGED <<artifact, archive, policy>>

\* assert_no_stale_segments_for_overwritten_runs: the keys an overwritten run had and the
\* archive has not.
Stale == {c \in overwritten \X Keys : c[2] \in before[c[1]] /\ c \notin ChildRows}

RefuseStale ==
    /\ pc = "children" /\ todo = {}
    /\ policy = "overwrite" /\ Stale # {}
    /\ Return("refused")
    /\ UNCHANGED <<artifact, archive, policy>>

\* Mutant of Cleaned: the child rows of the overwritten runs only.
CleanedOverwritten(r) == r \in overwritten

\* The runs whose child rows delete_stale_segments_for_strict_overwrite goes through.
Cleaned(r) == r \in Carried

\* delete_stale_segments_for_strict_overwrite under that policy, else nothing.
EndChildren ==
    /\ pc = "children" /\ todo = {}
    /\ ~(policy = "overwrite" /\ Stale # {})
    /\ txn' = IF policy # "overwrite_strict" THEN txn
              ELSE [r \in Runs |->
                      IF Cleaned(r)
                      THEN [txn[r] EXCEPT !.child = [k \in Keys |-> IF <<r, k>> \in ChildRows THEN @[k] ELSE None]]
                      ELSE txn[r]]
    /\ pc' = "deleted"
    /\ UNCHANGED <<db, staged, todo, tracking, conflicts, artifact, archive, policy, outcome>>

-----------------------------------------------------------------------------
(* apply_deleted_runs, and the end of the transaction.                     *)

ApplyDeleted ==
    /\ pc = "deleted"
    /\ IF policy = "skip"
       THEN /\ conflicts' = conflicts \union {r \in Tombstones : txn[r] # None}
            /\ txn' = txn
       ELSE /\ txn' = [r \in Runs |-> IF r \in Tombstones THEN None ELSE txn[r]]
            /\ UNCHANGED conflicts
    /\ pc' = "check"
    /\ UNCHANGED <<db, staged, todo, tracking, artifact, archive, policy, outcome>>

\* Write sync_conflicts.jsonl if there are conflicts; under reject they end the import.
WriteConflicts ==
    /\ pc = "check"
    /\ conflicts # {}
    /\ artifact # conflicts
    /\ artifact' = conflicts
    /\ UNCHANGED <<db, staged, pc, txn, todo, tracking, conflicts, archive, policy, outcome>>

RefuseConflicts ==
    /\ pc = "check" /\ artifact = conflicts
    /\ policy = "reject" /\ conflicts # {}
    /\ Return("refused")
    /\ UNCHANGED <<artifact, archive, policy>>

\* COMMIT.  A new database is then sealed and published.
Commit ==
    /\ pc = "check" /\ artifact = conflicts
    /\ ~(policy = "reject" /\ conflicts # {})
    /\ IF staged THEN pc' = "publish" /\ UNCHANGED <<db, outcome>>
                 ELSE pc' = "done" /\ db' = txn /\ outcome' = "ok"
    /\ UNCHANGED <<staged, txn, todo, tracking, conflicts, artifact, archive, policy>>

\* Mutant of Publish: a rename, which replaces the file that is there.
PublishByRename ==
    /\ pc = "publish"
    /\ db' = txn
    /\ pc' = "sync"
    /\ outcome' = "ok"
    /\ UNCHANGED <<staged, txn, todo, tracking, conflicts, artifact, archive, policy>>

\* hard_link: create the file if there is none.
Publish ==
    /\ pc = "publish"
    /\ db = Absent
    /\ db' = txn
    /\ pc' = "sync"
    /\ outcome' = "ok"
    /\ UNCHANGED <<staged, txn, todo, tracking, conflicts, artifact, archive, policy>>

\* There is a file: refuse to replace it.
PublishRefused ==
    /\ pc = "publish"
    /\ db # Absent
    /\ Return("error")
    /\ UNCHANGED <<artifact, archive, policy>>

\* Sync the directory.  Its failure says that the database was published.
EndPublish ==
    /\ pc = "sync"
    /\ pc' = "done"
    /\ UNCHANGED <<db, staged, txn, todo, tracking, conflicts, artifact, archive, policy, outcome>>

\* An I/O error, a run that fails its validation, a crash.
Stop ==
    /\ pc \notin {"sync", "done"}
    /\ Return("error")
    /\ UNCHANGED <<artifact, archive, policy>>

-----------------------------------------------------------------------------
Step ==
    \/ Begin \/ ApplyRun \/ EndRuns \/ ApplyChild \/ RefuseChild \/ RefuseStale \/ EndChildren
    \/ ApplyDeleted \/ WriteConflicts \/ RefuseConflicts \/ Commit \/ Publish \/ PublishRefused \/ EndPublish

INext == Step \/ Stop \/ CreateFile

ISpec == IInit /\ [][INext]_allVars

-----------------------------------------------------------------------------
(* Properties.  Repeatable is stated in ImportPolicy.                      *)

\* However rows, conflicts, errors, crashes and another process that creates the database
\* interleave, the target changes in one step, to what the policy promises, or not at all,
\* and the answer says which (import_pinned_inner, import_with_before_publish).
ImplementsPolicy == Spec

=============================================================================
