---------------------------- MODULE ImportPolicy ----------------------------
(***************************************************************************)
(* What an import of an archive promises for each ConflictPolicy, in one   *)
(* step: which archives a database accepts, and what the database holds    *)
(* afterwards.  SyncImport shows that the row by row replay of             *)
(* src/src/sync_engine.rs implements it.                                   *)
(*                                                                         *)
(* A database gives each run its aggregate: the value of its row in runs,  *)
(* and of its child rows (segments and events) by key.                     *)
(***************************************************************************)
CONSTANTS
    Runs,       \* run ids
    Keys,       \* keys of a run's child rows
    Values,     \* what a row can hold
    None,       \* no row
    Deleted,    \* a tombstone in the archive
    Absent      \* no database file

VARIABLES
    db,         \* the target database, or Absent
    archive,    \* the archive: aggregates and tombstones
    policy,     \* ConflictPolicy
    outcome     \* what the import returned

vars == <<db, archive, policy, outcome>>

Policies == {"reject", "overwrite", "overwrite_strict", "skip"}

Aggregates == [run : Values, child : [Keys -> Values \union {None}]]
Databases == [Runs -> Aggregates \union {None}]
Archives == [Runs -> Aggregates \union {None, Deleted}]

ASSUME MarksAssumption ==
    /\ None \notin Values
    /\ {None, Deleted} \intersect Aggregates = {} /\ None # Deleted
    /\ Absent \notin Databases

Empty == [r \in Runs |-> None]

\* A run's rows in the archive differ from those of the same keys in the target.
Disagree(t, a) == \E k \in Keys : t.child[k] # None /\ a.child[k] # None /\ t.child[k] # a.child[k]

\* The target has child rows that the archive lacks.
HasExtra(t, a) == \E k \in Keys : t.child[k] # None /\ a.child[k] = None

\* The policy lets the archived aggregate a be imported over the target's t.
Accepts(p, t, a) ==
    t # None /\ a \in Aggregates =>
        CASE p = "reject" -> t.run = a.run /\ ~Disagree(t, a)
          [] p = "overwrite" -> ~Disagree(t, a) /\ (t.run # a.run => ~HasExtra(t, a))
          [] OTHER -> TRUE

\* The aggregate of a with the child rows of t that it lacks.
Joined(t, a) ==
    [run |-> a.run, child |-> [k \in Keys |-> IF a.child[k] = None THEN t.child[k] ELSE a.child[k]]]

\* The target's aggregate after an accepted import.
Merged(p, t, a) ==
    CASE a = None -> t
      [] a = Deleted -> IF p = "skip" THEN t ELSE None
      [] OTHER -> IF t = None THEN a
                  ELSE CASE p = "skip" -> t
                         [] p = "overwrite_strict" -> a
                         [] OTHER -> Joined(t, a)

Contents == IF db = Absent THEN Empty ELSE db
Accepted == \A r \in Runs : Accepts(policy, Contents[r], archive[r])
Result == [r \in Runs |-> Merged(policy, Contents[r], archive[r])]

-----------------------------------------------------------------------------
Init ==
    /\ db \in Databases \union {Absent}
    /\ archive \in Archives
    /\ policy \in Policies
    /\ outcome = "none"

\* The import succeeds.
Import ==
    /\ outcome = "none"
    /\ Accepted
    /\ db' = Result
    /\ outcome' = "ok"
    /\ UNCHANGED <<archive, policy>>

\* The policy refuses the archive, and the target is as it was.
Refuse ==
    /\ outcome = "none"
    /\ ~Accepted
    /\ outcome' = "refused"
    /\ UNCHANGED <<db, archive, policy>>

\* The import stops by an error or a crash, and the target is as it was.
Fail ==
    /\ outcome = "none"
    /\ outcome' = "error"
    /\ UNCHANGED <<db, archive, policy>>

\* Another process creates the database.
Create ==
    /\ db = Absent
    /\ db' \in Databases
    /\ UNCHANGED <<archive, policy, outcome>>

Next == Import \/ Refuse \/ Fail \/ Create

Spec == Init /\ [][Next]_vars

\* Importing the same archive once more changes nothing and is not refused, so an import
\* can be repeated after a crash whose outcome nobody saw.
Repeatable == outcome = "ok" => Accepted /\ Result = db
=============================================================================
