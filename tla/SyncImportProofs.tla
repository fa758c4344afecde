-------------------------- MODULE SyncImportProofs --------------------------
(***************************************************************************)
(* The row by row import implements the policies, and an import can be     *)
(* repeated, whatever the runs, keys and values, the archive and the       *)
(* target.                                                                 *)
(***************************************************************************)
EXTENDS SyncImport, TLAPS

-----------------------------------------------------------------------------
(* The policies.                                                           *)

\* Types, also of the database an import leaves.
Types ==
    /\ db \in Databases \union {Absent}
    /\ archive \in Archives
    /\ policy \in Policies

PolicyInv == Types /\ Repeatable /\ (outcome = "ok" => db \in Databases)

\* What a policy accepts, merged once, is accepted again and merges to itself.
LEMMA MergeIsIdempotent ==
    ASSUME NEW p \in Policies,
           NEW t \in Aggregates \union {None},
           NEW a \in Aggregates \union {None, Deleted},
           Accepts(p, t, a)
    PROVE  /\ Merged(p, t, a) \in Aggregates \union {None}
           /\ Accepts(p, Merged(p, t, a), a)
           /\ Merged(p, Merged(p, t, a), a) = Merged(p, t, a)
<1> DEFINE m == Merged(p, t, a)
<1>1. CASE a = None
  BY <1>1, MarksAssumption DEF Merged, Accepts
<1>2. CASE a = Deleted
  BY <1>2, MarksAssumption DEF Merged, Accepts
<1>3. CASE a \in Aggregates /\ t = None
  <2>1. m = a
    BY <1>3, MarksAssumption DEF Merged
  <2>2. Accepts(p, a, a)
    BY <1>3 DEF Accepts, Disagree, HasExtra, Aggregates
  <2>3. Joined(a, a) = a
    BY <1>3 DEF Joined, Aggregates
  <2> QED
    BY <1>3, <2>1, <2>2, <2>3, MarksAssumption DEF Merged
<1>4. CASE a \in Aggregates /\ t # None /\ p = "skip"
  BY <1>4, MarksAssumption DEF Merged, Accepts
<1>5. CASE a \in Aggregates /\ t # None /\ p = "overwrite_strict"
  BY <1>5, MarksAssumption DEF Merged, Accepts
<1>6. CASE a \in Aggregates /\ t # None /\ p \in {"reject", "overwrite"}
  <2>1. m = Joined(t, a) /\ t \in Aggregates
    BY <1>6, MarksAssumption DEF Merged
  <2>2. m \in Aggregates
    BY <1>6, <2>1 DEF Joined, Aggregates
  <2>3. Accepts(p, m, a)
    BY <1>6, <2>1, <2>2, MarksAssumption DEF Accepts, Joined, Disagree, HasExtra, Aggregates
  <2>4. Joined(m, a) = m
    BY <1>6, <2>1 DEF Joined, Aggregates
  <2> QED
    BY <1>6, <2>1, <2>2, <2>3, <2>4, MarksAssumption DEF Merged
<1> QED
  BY <1>1, <1>2, <1>3, <1>4, <1>5, <1>6 DEF Policies

\* Nothing was imported yet.
LEMMA PolicyInit == Init => PolicyInv
BY DEF Init, PolicyInv, Types, Repeatable

\* The one step that imports leaves a database the same archive agrees with.
LEMMA ImportStep ==
    ASSUME PolicyInv, Import
    PROVE  PolicyInv'
<1> DEFINE t(r) == Contents[r]
<1>1. Contents \in Databases
  BY DEF PolicyInv, Types, Contents, Empty, Databases
<1>2. \A r \in Runs :
        /\ Result[r] \in Aggregates \union {None}
        /\ Accepts(policy, Result[r], archive[r])
        /\ Merged(policy, Result[r], archive[r]) = Result[r]
  <2> TAKE r \in Runs
  <2>1. Contents[r] \in Aggregates \union {None} /\ archive[r] \in Aggregates \union {None, Deleted}
    BY <1>1 DEF PolicyInv, Types, Databases, Archives
  <2>2. Accepts(policy, Contents[r], archive[r])
    BY DEF Import, Accepted
  <2>3. Result[r] = Merged(policy, Contents[r], archive[r])
    BY DEF Result
  <2> QED
    BY <2>1, <2>2, <2>3, MergeIsIdempotent DEF PolicyInv, Types
<1>3. Result \in Databases
  BY <1>2 DEF Databases, Result
<1>4. db' = Result /\ archive' = archive /\ policy' = policy
  BY DEF Import
<1>5. Contents' = Result
  BY <1>3, <1>4, MarksAssumption DEF Contents
<1>6. Accepted'
  BY <1>2, <1>4, <1>5 DEF Accepted
<1>7. Result' = db'
  <2>1. Result' = [r \in Runs |-> Merged(policy, Result[r], archive[r])]
    BY <1>4, <1>5 DEF Result
  <2> QED
    BY <2>1, <1>2, <1>4 DEF Result
<1> QED
  BY <1>3, <1>4, <1>6, <1>7 DEF PolicyInv, Types, Repeatable

\* The invariant is inductive; a database created by somebody else was absent before, so
\* it is none that an import left.
LEMMA PolicyStep == PolicyInv /\ [Next]_vars => PolicyInv'
<1> SUFFICES ASSUME PolicyInv, [Next]_vars PROVE PolicyInv'
  OBVIOUS
<1>1. CASE Import
  BY <1>1, ImportStep
<1>2. CASE Refuse \/ Fail
  BY <1>2 DEF Refuse, Fail, PolicyInv, Types, Repeatable
<1>3. CASE Create
  BY <1>3, MarksAssumption DEF Create, PolicyInv, Types, Repeatable
<1>4. CASE UNCHANGED vars
  BY <1>4 DEF vars, PolicyInv, Types, Repeatable, Accepted, Result, Contents
<1> QED
  BY <1>1, <1>2, <1>3, <1>4 DEF Next

\* Importing an archive that was imported once more is accepted and changes nothing, for
\* every policy, archive and database: apply_run_row and apply_segment_row find equal rows
\* and the strict cleanup finds none to delete.
THEOREM ImportIsRepeatable == Spec => []Repeatable
<1>1. PolicyInv => Repeatable
  BY DEF PolicyInv
<1> QED
  BY <1>1, PolicyInit, PolicyStep, PTL DEF Spec

-----------------------------------------------------------------------------
(* The row by row import.  What it works on, and where each run is.        *)

\* The database the transaction began on.
Base == IF staged THEN Empty ELSE db

\* The import is between its first and its last statement.
Busy == {"runs", "children", "deleted", "check", "publish"}

\* The runs whose row has been applied, and the child rows that have been.
AppliedRuns == IF pc = "runs" THEN Carried \ todo ELSE Carried
AppliedRows == IF pc = "runs" THEN {} ELSE ChildRows \ todo

\* The run's row is there with another value, and whether its row is written afresh.
Differs(r) == Base[r] # None /\ Base[r].run # archive[r].run
Fresh(r) == Base[r] = None \/ (Differs(r) /\ policy = "overwrite_strict")

\* The run once its row has been applied.
AfterRun(r) ==
    IF Fresh(r) THEN [run |-> archive[r].run, child |-> NoChild]
    ELSE IF policy = "overwrite" THEN [Base[r] EXCEPT !.run = archive[r].run]
    ELSE Base[r]

\* The child row once it has been applied.
AfterRow(r, k) ==
    IF policy = "skip" /\ ~Fresh(r) THEN AfterRun(r).child[k]
    ELSE IF AfterRun(r).child[k] = None \/ policy = "overwrite_strict" THEN archive[r].child[k]
    ELSE AfterRun(r).child[k]

\* The child row is there with another value.
RowDiffers(r, k) == AfterRun(r).child[k] \notin {None, archive[r].child[k]}

\* Types, what belongs to each place of the import, and the database that stays as it
\* was until the import is over.
Placed ==
    /\ db \in Databases \union {Absent}
    /\ archive \in Archives
    /\ policy \in Policies
    /\ pc \in Busy \union {"start", "sync", "done"}
    /\ pc \in Busy => staged \in BOOLEAN /\ (~staged => db # Absent)
    /\ pc \in Busy \union {"start"} => outcome = "none"
    /\ before \in [Runs -> SUBSET Keys]
    /\ pc = "start" => inserted = {} /\ overwritten = {} /\ conflicts = {}
    /\ pc = "runs" => todo \subseteq Carried
    /\ pc = "children" => todo \subseteq ChildRows

\* What the import remembers of the runs it has applied.
Tracked ==
    pc \in Busy =>
        /\ inserted = {r \in AppliedRuns : Fresh(r)}
        /\ overwritten = {r \in AppliedRuns : Differs(r) /\ policy \in {"overwrite", "overwrite_strict"}}
        /\ \A r \in overwritten : before[r] = {k \in Keys : Base[r].child[k] # None}

\* Conflicts are reported exactly when a row that was applied differs.
Reported ==
    pc \in {"runs", "children"} /\ policy = "reject" =>
        (conflicts = {} <=> /\ \A r \in AppliedRuns : ~Differs(r)
                            /\ \A c \in AppliedRows : ~RowDiffers(c[1], c[2]))

\* The transaction while runs and while child rows are applied.
RunsInTxn ==
    pc = "runs" => txn = [r \in Runs |-> IF r \in Carried \ todo THEN AfterRun(r) ELSE Base[r]]

RowsInTxn ==
    pc = "children" =>
        /\ txn \in Databases
        /\ \A r \in Runs \ Carried : txn[r] = Base[r]
        /\ \A r \in Carried :
              /\ txn[r] \in Aggregates
              /\ txn[r].run = AfterRun(r).run
              /\ \A k \in Keys : txn[r].child[k] =
                    IF <<r, k>> \in ChildRows \ todo THEN AfterRow(r, k) ELSE AfterRun(r).child[k]
        /\ policy = "overwrite" => \A c \in ChildRows \ todo : ~RowDiffers(c[1], c[2])

\* The policy would refuse run r, or accepts it and the transaction holds what it promises.
Refused(r) == ~Accepts(policy, Base[r], archive[r])
Imported(r) == ~Refused(r) /\ txn[r] = Merged(policy, Base[r], archive[r])
HasConflicts == policy = "reject" /\ conflicts # {}

\* The transaction after the child rows: what the policy promises, or a conflict.
Settled ==
    /\ pc \in {"deleted", "check", "publish"} =>
          /\ txn \in Databases
          /\ HasConflicts => \E r \in Runs : Refused(r)
    /\ pc = "deleted" /\ ~HasConflicts =>
          /\ \A r \in Carried : Imported(r)
          /\ \A r \in Runs \ Carried : txn[r] = Base[r]
    /\ pc \in {"check", "publish"} /\ ~HasConflicts => \A r \in Runs : Imported(r)
    /\ pc = "publish" => staged /\ ~HasConflicts

IInv == Placed /\ Tracked /\ Reported /\ RunsInTxn /\ RowsInTxn /\ Settled

-----------------------------------------------------------------------------
(* Facts about the definitions.                                            *)

\* Aggregates, and what is made of them, are aggregates.
LEMMA Shapes ==
    ASSUME Placed
    PROVE  /\ pc \in Busy => Base \in Databases
           /\ Empty \in Databases
           /\ \A r \in Carried : r \in Runs /\ archive[r] \in Aggregates /\ archive[r] # None
           /\ pc \in Busy => \A r \in Carried : AfterRun(r) \in Aggregates
<1>1. pc \in Busy => Base \in Databases
  BY DEF Placed, Base, Empty, Databases
<1>2. Empty \in Databases
  BY DEF Empty, Databases
<1>3. \A r \in Carried : r \in Runs /\ archive[r] \in Aggregates /\ archive[r] # None
  BY MarksAssumption DEF Carried
<1>4. ASSUME pc \in Busy, NEW r \in Carried PROVE AfterRun(r) \in Aggregates
  <2>1. Base[r] \in Aggregates \union {None} /\ archive[r] \in Aggregates
    BY <1>1, <1>3, <1>4 DEF Databases
  <2>2. CASE Fresh(r)
    BY <2>1, <2>2 DEF AfterRun, Aggregates, NoChild
  <2>3. CASE ~Fresh(r)
    <3>1. Base[r] \in Aggregates
      BY <2>1, <2>3 DEF Fresh
    <3>2. [Base[r] EXCEPT !.run = archive[r].run] \in Aggregates
      BY <2>1, <3>1 DEF Aggregates
    <3> QED
      BY <2>3, <3>1, <3>2 DEF AfterRun
  <2> QED
    BY <2>2, <2>3
<1> QED
  BY <1>1, <1>2, <1>3, <1>4

\* While the target, the archive and the policy stay, so does all that is derived of them.
LEMMA FrameOfBase ==
    ASSUME Base' = Base, UNCHANGED <<archive, policy>>
    PROVE  /\ Carried' = Carried /\ ChildRows' = ChildRows
           /\ \A r : Differs(r)' = Differs(r) /\ Fresh(r)' = Fresh(r) /\ AfterRun(r)' = AfterRun(r)
           /\ \A r, k : AfterRow(r, k)' = AfterRow(r, k) /\ RowDiffers(r, k)' = RowDiffers(r, k)
           /\ \A r : Refused(r)' = Refused(r)
           /\ \A r : Merged(policy, Base[r], archive[r])' = Merged(policy, Base[r], archive[r])
<1>1. Base' = Base /\ Carried' = Carried
  BY DEF Carried
<1>2. ChildRows' = ChildRows
  BY <1>1 DEF ChildRows
<1>3. \A r : Differs(r)' = Differs(r)
  BY <1>1 DEF Differs
<1>4. \A r : Fresh(r)' = Fresh(r)
  BY <1>1, <1>3 DEF Fresh
<1>5. \A r : AfterRun(r)' = AfterRun(r)
  BY <1>1, <1>4 DEF AfterRun
<1>6. \A r, k : AfterRow(r, k)' = AfterRow(r, k) /\ RowDiffers(r, k)' = RowDiffers(r, k)
  BY <1>4, <1>5 DEF AfterRow, RowDiffers
<1>7. \A r : Accepts(policy, Base[r], archive[r])' = Accepts(policy, Base[r], archive[r])
  BY <1>1 DEF Accepts, Disagree, HasExtra
<1>8. \A r : Merged(policy, Base[r], archive[r])' = Merged(policy, Base[r], archive[r])
  BY <1>1 DEF Merged, Joined
<1> QED
  BY <1>1, <1>2, <1>3, <1>4, <1>5, <1>6, <1>7, <1>8 DEF Refused

LEMMA Frame ==
    ASSUME UNCHANGED <<db, staged, archive, policy>>
    PROVE  /\ Base' = Base /\ Carried' = Carried /\ ChildRows' = ChildRows
           /\ \A r : Differs(r)' = Differs(r) /\ Fresh(r)' = Fresh(r) /\ AfterRun(r)' = AfterRun(r)
           /\ \A r, k : AfterRow(r, k)' = AfterRow(r, k) /\ RowDiffers(r, k)' = RowDiffers(r, k)
           /\ \A r : Refused(r)' = Refused(r)
           /\ \A r : Merged(policy, Base[r], archive[r])' = Merged(policy, Base[r], archive[r])
<1>1. Base' = Base
  BY DEF Base
<1> QED
  BY <1>1, FrameOfBase

\* Which child rows there are.
LEMMA Rows ==
    /\ \A r \in Carried, k \in Keys : <<r, k>> \in ChildRows <=> archive[r].child[k] # None
    /\ \A c \in ChildRows : c[1] \in Carried /\ c[2] \in Keys /\ c = <<c[1], c[2]>>
BY DEF ChildRows

-----------------------------------------------------------------------------
(* The invariant.                                                          *)

\* Nothing has been done at the start.
LEMMA IInitInv == IInit => IInv
BY DEF IInit, Init, IInv, Placed, Tracked, Reported, RunsInTxn, RowsInTxn, Settled, Busy

\* The transaction begins: nothing is applied yet.
LEMMA BeginInv ==
    ASSUME IInv, Begin
    PROVE  IInv'
<1>1. /\ pc = "start" /\ pc' = "runs" /\ todo' = Carried /\ staged' = (db = Absent)
      /\ txn' = IF db = Absent THEN Empty ELSE db
      /\ UNCHANGED <<db, archive, policy, outcome, inserted, overwritten, before, conflicts>>
  BY DEF Begin, tracking
<1>2. Carried' = Carried /\ ChildRows' = ChildRows
  BY <1>1 DEF Carried, ChildRows
<1>3. Base' = txn' /\ AppliedRuns' = {} /\ AppliedRows' = {}
  BY <1>1, <1>2 DEF Base, AppliedRuns, AppliedRows
<1>4. Placed'
  BY <1>1, <1>2 DEF IInv, Placed, Busy
<1>5. Tracked' /\ Reported'
  BY <1>1, <1>3 DEF IInv, Placed, Tracked, Reported
<1>6. RunsInTxn'
  <2>1. txn' \in Databases
    BY <1>1 DEF IInv, Placed, Empty, Databases
  <2>2. \A r \in Runs : r \notin Carried' \ todo'
    BY <1>1, <1>2
  <2> QED
    BY <1>1, <1>3, <2>1, <2>2 DEF RunsInTxn, Databases
<1>7. RowsInTxn' /\ Settled'
  BY <1>1 DEF RowsInTxn, Settled
<1> QED
  BY <1>4, <1>5, <1>6, <1>7 DEF IInv

\* apply_run_row does to a run what AfterRun says, and remembers it.
LEMMA RunApplied ==
    ASSUME IInv, pc = "runs", NEW r \in todo,
           InsertRun(r) \/ KeepRun(r) \/ RejectRun(r) \/ OverwriteRun(r) \/ ReplaceRun(r)
    PROVE  /\ txn' = [txn EXCEPT ![r] = AfterRun(r)]
           /\ inserted' = IF Fresh(r) THEN inserted \union {r} ELSE inserted
           /\ overwritten' = IF Differs(r) /\ policy \in {"overwrite", "overwrite_strict"}
                             THEN overwritten \union {r} ELSE overwritten
           /\ before' = IF Differs(r) /\ policy \in {"overwrite", "overwrite_strict"}
                        THEN [before EXCEPT ![r] = {k \in Keys : Base[r].child[k] # None}]
                        ELSE before
           /\ conflicts' = IF Differs(r) /\ policy = "reject" THEN conflicts \union {r} ELSE conflicts
<1>0. r \in Carried /\ r \in Runs /\ policy \in Policies /\ archive[r] \in Aggregates
      /\ Base \in Databases /\ txn = [q \in Runs |-> IF q \in Carried \ todo THEN AfterRun(q) ELSE Base[q]]
  BY Shapes DEF IInv, Placed, Busy, RunsInTxn
<1>1. txn[r] = Base[r] /\ Base[r] \in Aggregates \union {None}
  BY <1>0 DEF Databases
<1>2. CASE InsertRun(r)
  BY <1>0, <1>1, <1>2 DEF InsertRun, Fresh, Differs, AfterRun
<1>3. CASE KeepRun(r)
  <2>1. ~Fresh(r) /\ (policy # "skip" => ~Differs(r)) /\ UNCHANGED <<txn, inserted, overwritten, before, conflicts>>
    BY <1>1, <1>3 DEF KeepRun, Fresh, Differs, tracking
  <2>2. policy = "overwrite" => [Base[r] EXCEPT !.run = archive[r].run] = Base[r]
    BY <1>1, <1>3 DEF KeepRun, Aggregates
  <2>3. AfterRun(r) = txn[r]
    BY <1>1, <2>1, <2>2 DEF AfterRun
  <2>4. txn' = [txn EXCEPT ![r] = AfterRun(r)]
    BY <1>0, <2>1, <2>3
  <2> QED
    BY <2>1, <2>4
<1>4. CASE RejectRun(r)
  <2>1. ~Fresh(r) /\ Differs(r) /\ AfterRun(r) = txn[r]
    BY <1>1, <1>4 DEF RejectRun, Fresh, Differs, AfterRun
  <2>2. txn' = [txn EXCEPT ![r] = AfterRun(r)]
    BY <1>0, <1>4, <2>1 DEF RejectRun
  <2> QED
    BY <1>4, <2>1, <2>2 DEF RejectRun, tracking
<1>5. CASE OverwriteRun(r)
  <2>1. ~Fresh(r) /\ Differs(r) /\ AfterRun(r) = [txn[r] EXCEPT !.run = archive[r].run]
    BY <1>1, <1>5 DEF OverwriteRun, Fresh, Differs, AfterRun
  <2> QED
    BY <1>1, <1>5, <2>1 DEF OverwriteRun, Overwritten
<1>6. CASE ReplaceRun(r)
  BY <1>1, <1>6 DEF ReplaceRun, Overwritten, Fresh, Differs, AfterRun
<1> QED
  BY <1>2, <1>3, <1>4, <1>5, <1>6

LEMMA ApplyRunInv ==
    ASSUME IInv, ApplyRun
    PROVE  IInv'
<1>1. PICK r \in todo :
        /\ InsertRun(r) \/ KeepRun(r) \/ RejectRun(r) \/ OverwriteRun(r) \/ ReplaceRun(r)
        /\ todo' = todo \ {r}
  BY DEF ApplyRun
<1>2. pc = "runs" /\ UNCHANGED <<db, staged, pc, archive, policy, outcome>>
  BY DEF ApplyRun
<1>3. r \in Carried /\ r \in Runs /\ todo \subseteq Carried /\ Carried' \ todo' = (Carried \ todo) \union {r}
  BY <1>1, <1>2, Frame DEF IInv, Placed, Carried
<1>4. Placed'
  <2>1. before' \in [Runs -> SUBSET Keys]
    BY <1>1, <1>2, <1>3, RunApplied DEF IInv, Placed
  <2> QED
    BY <1>1, <1>2, <1>3, <2>1, Frame DEF IInv, Placed
<1>5. AppliedRuns = Carried \ todo /\ AppliedRuns' = AppliedRuns \union {r} /\ r \notin AppliedRuns
      /\ AppliedRows' = {} /\ AppliedRows = {}
  BY <1>1, <1>2, <1>3 DEF AppliedRuns, AppliedRows
<1>6. Tracked'
  <2>1. inserted' = {q \in AppliedRuns' : Fresh(q)'}
    BY <1>1, <1>2, <1>5, RunApplied, Frame DEF IInv, Tracked, Busy
  <2>2. overwritten' = {q \in AppliedRuns' : (Differs(q) /\ policy \in {"overwrite", "overwrite_strict"})'}
    BY <1>1, <1>2, <1>5, RunApplied, Frame DEF IInv, Tracked, Busy
  <2>3. ASSUME NEW q \in overwritten' PROVE before'[q] = {k \in Keys : Base'[q].child[k] # None}
    <3>1. CASE q = r
      BY <1>1, <1>2, <1>3, <1>5, <2>2, <2>3, <3>1, RunApplied, Frame DEF IInv, Placed, Tracked, Busy
    <3>2. CASE q # r
      <4>1. q \in overwritten /\ q \in Runs
        BY <1>1, <1>2, <1>5, <2>3, <3>2, RunApplied DEF IInv, Tracked, Busy, Carried
      <4>2. before'[q] = before[q]
        BY <1>1, <1>2, <3>2, <4>1, RunApplied DEF IInv, Placed
      <4> QED
        BY <1>2, <4>1, <4>2, Frame DEF IInv, Tracked, Busy
    <3> QED
      BY <3>1, <3>2
  <2> QED
    BY <2>1, <2>2, <2>3 DEF Tracked
<1>7. Reported'
  BY <1>1, <1>2, <1>5, RunApplied, Frame DEF IInv, Reported
<1>8. RunsInTxn'
  BY <1>1, <1>2, <1>3, RunApplied, Frame DEF IInv, RunsInTxn
<1>9. RowsInTxn' /\ Settled'
  BY <1>2 DEF RowsInTxn, Settled
<1> QED
  BY <1>4, <1>6, <1>7, <1>8, <1>9 DEF IInv

\* All run rows are applied, and the child rows come next.
LEMMA EndRunsInv ==
    ASSUME IInv, EndRuns
    PROVE  IInv'
<1>1. /\ pc = "runs" /\ pc' = "children" /\ todo = {} /\ todo' = ChildRows
      /\ UNCHANGED <<db, staged, archive, policy, outcome, txn, inserted, overwritten, before, conflicts>>
  BY DEF EndRuns, tracking
<1>2. Placed'
  BY <1>1, Frame DEF IInv, Placed, Busy
<1>3. AppliedRuns = Carried /\ AppliedRuns' = Carried /\ AppliedRows = {} /\ AppliedRows' = {}
  BY <1>1, Frame DEF AppliedRuns, AppliedRows
<1>4. Tracked' /\ Reported'
  BY <1>1, <1>3, Frame DEF IInv, Tracked, Reported, Busy
<1>5. RowsInTxn'
  <2>1. /\ Base \in Databases /\ Carried \subseteq Runs
        /\ \A r \in Carried : AfterRun(r) \in Aggregates
    BY <1>1, Shapes DEF IInv, Busy
  <2>2. txn = [r \in Runs |-> IF r \in Carried THEN AfterRun(r) ELSE Base[r]]
    BY <1>1 DEF IInv, RunsInTxn
  <2>3. txn \in Databases
    BY <2>1, <2>2 DEF Databases
  <2> QED
    BY <1>1, <2>1, <2>2, <2>3, Frame DEF RowsInTxn
<1>6. RunsInTxn' /\ Settled'
  BY <1>1 DEF RunsInTxn, Settled
<1> QED
  BY <1>2, <1>4, <1>5, <1>6 DEF IInv

\* apply_segment_row does to a child row what AfterRow says.
LEMMA RowApplied ==
    ASSUME IInv, pc = "children", NEW c \in todo,
           InsertChild(c) \/ KeepChild(c) \/ RejectChild(c) \/ ReplaceChild(c)
    PROVE  /\ c[1] \in Carried /\ c[2] \in Keys /\ c = <<c[1], c[2]>> /\ c \in ChildRows
           /\ txn' = [txn EXCEPT ![c[1]].child[c[2]] = AfterRow(c[1], c[2])]
           /\ policy = "overwrite" => ~RowDiffers(c[1], c[2])
           /\ policy = "reject" => conflicts' = IF RowDiffers(c[1], c[2]) THEN conflicts \union {c}
                                                ELSE conflicts
<1> DEFINE r == c[1]  k == c[2]
<1>0. r \in Carried /\ k \in Keys /\ c = <<r, k>> /\ c \in ChildRows /\ r \in Runs
  BY Rows DEF IInv, Placed, Carried
<1>1. /\ txn \in Databases /\ txn[r] \in Aggregates /\ Existing(c) = AfterRun(r).child[k]
      /\ policy \in Policies /\ Value(c) # None /\ Value(c) = archive[r].child[k]
      /\ r \in inserted <=> Fresh(r)
  BY <1>0, Rows DEF IInv, Placed, RowsInTxn, Existing, Value, Tracked, Busy, AppliedRuns
<1>2. ASSUME UNCHANGED txn, AfterRow(r, k) = AfterRun(r).child[k]
      PROVE  txn' = [txn EXCEPT ![r].child[k] = AfterRow(r, k)]
  <2>1. txn[r].child[k] = AfterRow(r, k)
    BY <1>1, <1>2 DEF Existing
  <2>2. [txn[r].child EXCEPT ![k] = AfterRow(r, k)] = txn[r].child
    BY <1>0, <1>1, <2>1 DEF Aggregates
  <2>3. [txn[r] EXCEPT !.child = [txn[r].child EXCEPT ![k] = AfterRow(r, k)]] = txn[r]
    BY <1>1, <2>2 DEF Aggregates
  <2>4. [txn EXCEPT ![r] = txn[r]] = txn
    BY <1>0, <1>1 DEF Databases
  <2> QED
    BY <1>2, <2>3, <2>4
<1>3. CASE InsertChild(c)
  <2>1. ~RowDiffers(r, k) /\ AfterRow(r, k) = Value(c)
    BY <1>1, <1>3 DEF InsertChild, SkipsChild, RowDiffers, AfterRow
  <2> QED
    BY <1>0, <1>3, <2>1 DEF InsertChild, Store
<1>4. CASE KeepChild(c)
  <2>1. AfterRow(r, k) = AfterRun(r).child[k]
    BY <1>1, <1>4 DEF KeepChild, SkipsChild, AfterRow
  <2>2. policy # "skip" => ~RowDiffers(r, k)
    BY <1>1, <1>4 DEF KeepChild, SkipsChild, RowDiffers
  <2> QED
    BY <1>0, <1>2, <1>4, <2>1, <2>2 DEF KeepChild
<1>5. CASE RejectChild(c)
  <2>1. RowDiffers(r, k) /\ AfterRow(r, k) = AfterRun(r).child[k] /\ policy = "reject"
    BY <1>1, <1>5 DEF RejectChild, Conflicting, RowDiffers, AfterRow
  <2> QED
    BY <1>0, <1>2, <1>5, <2>1 DEF RejectChild
<1>6. CASE ReplaceChild(c)
  <2>1. AfterRow(r, k) = Value(c) /\ policy = "overwrite_strict"
    BY <1>1, <1>6 DEF ReplaceChild, Conflicting, AfterRow
  <2> QED
    BY <1>0, <1>6, <2>1 DEF ReplaceChild, Store
<1> QED
  BY <1>3, <1>4, <1>5, <1>6

LEMMA ApplyChildInv ==
    ASSUME IInv, ApplyChild
    PROVE  IInv'
<1>1. PICK c \in todo :
        /\ InsertChild(c) \/ KeepChild(c) \/ RejectChild(c) \/ ReplaceChild(c)
        /\ todo' = todo \ {c}
  BY DEF ApplyChild
<1>2. pc = "children" /\ UNCHANGED <<db, staged, pc, archive, policy, outcome, inserted, overwritten, before>>
  BY DEF ApplyChild, tracking
<1>3. /\ c[1] \in Carried /\ c[2] \in Keys /\ c = <<c[1], c[2]>> /\ c \in ChildRows /\ c[1] \in Runs
      /\ txn' = [txn EXCEPT ![c[1]].child[c[2]] = AfterRow(c[1], c[2])]
      /\ policy = "overwrite" => ~RowDiffers(c[1], c[2])
      /\ policy = "reject" => conflicts' = IF RowDiffers(c[1], c[2]) THEN conflicts \union {c}
                                           ELSE conflicts
  BY <1>1, <1>2, RowApplied DEF Carried
<1>4. Placed'
  BY <1>1, <1>2, Frame DEF IInv, Placed
<1>5. /\ AppliedRuns' = AppliedRuns /\ AppliedRows = ChildRows \ todo
      /\ AppliedRows' = AppliedRows \union {c} /\ ChildRows' \ todo' = (ChildRows \ todo) \union {c}
  BY <1>1, <1>2, <1>3, Frame DEF AppliedRuns, AppliedRows
<1>6. Tracked'
  BY <1>2, <1>5, Frame DEF IInv, Tracked, Busy
<1>7. Reported'
  BY <1>2, <1>3, <1>5, Frame DEF IInv, Reported
<1>8. RowsInTxn'
  <2>1. /\ txn \in Databases /\ txn[c[1]] \in Aggregates
        /\ AfterRow(c[1], c[2]) \in Values \union {None}
    <3>1. archive[c[1]] \in Aggregates /\ AfterRun(c[1]) \in Aggregates
      BY <1>2, <1>3, Shapes DEF IInv, Busy
    <3> QED
      BY <1>2, <1>3, <3>1 DEF IInv, RowsInTxn, AfterRow, Aggregates
  <2>2. /\ \A q \in Runs : q # c[1] => txn'[q] = txn[q]
        /\ txn'[c[1]] = [txn[c[1]] EXCEPT !.child = [txn[c[1]].child EXCEPT ![c[2]] = AfterRow(c[1], c[2])]]
        /\ DOMAIN txn' = Runs
    BY <1>3, <2>1 DEF Databases
  <2>3. /\ txn'[c[1]] \in Aggregates /\ txn'[c[1]].run = txn[c[1]].run
        /\ \A k \in Keys : txn'[c[1]].child[k] = IF k = c[2] THEN AfterRow(c[1], c[2]) ELSE txn[c[1]].child[k]
    BY <1>3, <2>1, <2>2 DEF Aggregates
  <2>4. txn' \in Databases
    BY <1>3, <2>1, <2>2, <2>3 DEF Databases
  <2>5. ASSUME NEW r \in Carried
        PROVE  /\ txn'[r] \in Aggregates /\ txn'[r].run = AfterRun(r).run
               /\ \A k \in Keys : txn'[r].child[k] =
                     IF <<r, k>> \in (ChildRows \ todo) \union {c} THEN AfterRow(r, k) ELSE AfterRun(r).child[k]
    <3>1. r \in Runs
      BY DEF Carried
    <3>2. CASE r = c[1]
      BY <1>2, <1>3, <2>3, <3>2 DEF IInv, RowsInTxn
    <3>3. CASE r # c[1]
      <4>1. \A k \in Keys : <<r, k>> # c
        BY <1>3, <3>3
      <4> QED
        BY <1>2, <2>2, <3>1, <3>3, <4>1 DEF IInv, RowsInTxn
    <3> QED
      BY <3>2, <3>3
  <2>6. \A r \in Runs \ Carried : txn'[r] = Base[r]
    BY <1>2, <1>3, <2>2 DEF IInv, RowsInTxn
  <2>7. policy = "overwrite" => \A d \in (ChildRows \ todo) \union {c} : ~RowDiffers(d[1], d[2])
    BY <1>2, <1>3 DEF IInv, RowsInTxn
  <2> QED
    BY <1>2, <1>5, <2>4, <2>5, <2>6, <2>7, Frame DEF RowsInTxn
<1>9. RunsInTxn' /\ Settled'
  BY <1>2 DEF RunsInTxn, Settled
<1> QED
  BY <1>4, <1>6, <1>7, <1>8, <1>9 DEF IInv

\* Aggregates are equal when their rows are.
LEMMA SameAggregate ==
    ASSUME NEW t \in Aggregates, NEW u \in Aggregates, t.run = u.run,
           \A k \in Keys : t.child[k] = u.child[k]
    PROVE  t = u
<1>1. t.child = u.child
  BY DEF Aggregates
<1> QED
  BY <1>1 DEF Aggregates

\* What a run is worth once its rows are applied and, under overwrite-strict, cleaned: what
\* the policy promises, if it accepts the run, and refused otherwise.
LEMMA RunSettled ==
    ASSUME IInv, pc = "children", todo = {}, NEW r \in Carried, NEW t \in Aggregates,
           t.run = txn[r].run,
           \A k \in Keys : t.child[k] = IF policy = "overwrite_strict" /\ <<r, k>> \notin ChildRows
                                        THEN None ELSE txn[r].child[k]
    PROVE  /\ policy = "overwrite" => (Refused(r) <=> \E k \in Keys : <<r, k>> \in Stale)
           /\ policy = "reject" => (Refused(r) <=> Differs(r) \/ \E k \in Keys : <<r, k>> \in ChildRows /\ RowDiffers(r, k))
           /\ ~Refused(r) => t = Merged(policy, Base[r], archive[r])
<1> DEFINE a == archive[r]  b == Base[r]
<1>1. /\ a \in Aggregates /\ a # None /\ a # Deleted /\ b \in Aggregates \union {None} /\ policy \in Policies
      /\ AfterRun(r) \in Aggregates
      /\ txn[r].run = AfterRun(r).run
      /\ \A k \in Keys : txn[r].child[k] = IF a.child[k] # None THEN AfterRow(r, k) ELSE AfterRun(r).child[k]
      /\ \A k \in Keys : <<r, k>> \in ChildRows <=> a.child[k] # None
  <2>1. /\ a \in Aggregates /\ a # None /\ a # Deleted /\ b \in Aggregates \union {None} /\ policy \in Policies
        /\ AfterRun(r) \in Aggregates
    BY Shapes, MarksAssumption DEF IInv, Placed, Busy, Databases
  <2>2. \A k \in Keys : <<r, k>> \in ChildRows <=> a.child[k] # None
    BY Rows
  <2>3. /\ txn[r].run = AfterRun(r).run
        /\ \A k \in Keys : txn[r].child[k] = IF a.child[k] # None THEN AfterRow(r, k) ELSE AfterRun(r).child[k]
    BY <2>2 DEF IInv, RowsInTxn
  <2> QED
    BY <2>1, <2>2, <2>3
<1>2. \A k \in Keys : a.child[k] \in Values \union {None} /\ AfterRun(r).child[k] \in Values \union {None}
  BY <1>1 DEF Aggregates
<1>3. /\ r \in overwritten <=> Differs(r) /\ policy \in {"overwrite", "overwrite_strict"}
      /\ r \in overwritten => before[r] = {k \in Keys : b.child[k] # None}
  BY DEF IInv, Tracked, Busy, AppliedRuns
<1>4. \A k \in Keys : <<r, k>> \in Stale <=> r \in overwritten /\ k \in before[r] /\ a.child[k] = None
  BY <1>1 DEF Stale
<1>5. CASE b = None
  <2>1. Fresh(r) /\ ~Differs(r) /\ AfterRun(r) = [run |-> a.run, child |-> NoChild]
    BY <1>5 DEF Fresh, Differs, AfterRun
  <2>2. \A k \in Keys : AfterRun(r).child[k] = None /\ AfterRow(r, k) = a.child[k]
    BY <2>1 DEF NoChild, AfterRow
  <2>3. t = a
    <3>1. \A k \in Keys : t.child[k] = a.child[k]
      BY <1>1, <2>2
    <3>2. t.run = a.run
      BY <1>1, <2>1
    <3> QED
      BY <1>1, <3>1, <3>2, SameAggregate
  <2>4. ~Refused(r) /\ Merged(policy, b, a) = a
    BY <1>1, <1>5 DEF Refused, Accepts, Merged
  <2> QED
    BY <1>3, <1>4, <2>1, <2>2, <2>3, <2>4 DEF RowDiffers
<1>6. CASE b # None /\ policy = "skip"
  <2>1. ~Fresh(r) /\ AfterRun(r) = b
    BY <1>6 DEF Fresh, AfterRun
  <2>2. \A k \in Keys : AfterRow(r, k) = b.child[k]
    BY <1>6, <2>1 DEF AfterRow
  <2>3. t = b
    BY <1>1, <1>6, <2>1, <2>2, SameAggregate
  <2>4. ~Refused(r) /\ Merged(policy, b, a) = b
    BY <1>1, <1>6 DEF Refused, Accepts, Merged
  <2> QED
    BY <1>6, <2>3, <2>4
<1>7. CASE b # None /\ policy = "overwrite_strict"
  <2>1. AfterRun(r).run = a.run
    BY <1>1, <1>7 DEF AfterRun, Fresh, Differs
  <2>2. \A k \in Keys : AfterRow(r, k) = a.child[k]
    BY <1>7 DEF AfterRow
  <2>3. t = a
    <3>1. \A k \in Keys : t.child[k] = a.child[k]
      BY <1>1, <1>7, <2>2
    <3> QED
      BY <1>1, <2>1, <3>1, SameAggregate
  <2>4. ~Refused(r) /\ Merged(policy, b, a) = a
    BY <1>1, <1>7 DEF Refused, Accepts, Merged
  <2> QED
    BY <1>7, <2>3, <2>4
<1>8. CASE b # None /\ policy \in {"reject", "overwrite"}
  <2>1. b \in Aggregates /\ ~Fresh(r) /\ Merged(policy, b, a) = Joined(b, a)
    BY <1>1, <1>8 DEF Fresh, Merged
  <2>2. /\ \A k \in Keys : AfterRun(r).child[k] = b.child[k]
        /\ AfterRun(r).run = IF policy = "overwrite" THEN a.run ELSE b.run
    BY <1>8, <2>1 DEF AfterRun, Aggregates
  <2>3. \A k \in Keys : AfterRow(r, k) = IF b.child[k] = None THEN a.child[k] ELSE b.child[k]
    BY <1>8, <2>2 DEF AfterRow
  <2>4. Disagree(b, a) <=> \E k \in Keys : <<r, k>> \in ChildRows /\ RowDiffers(r, k)
    BY <1>1, <2>2 DEF Disagree, RowDiffers
  <2>5. Joined(b, a) \in Aggregates
    BY <1>1, <2>1 DEF Joined, Aggregates
  <2>6. ASSUME ~Disagree(b, a), policy = "overwrite" \/ ~Differs(r)
        PROVE  t = Joined(b, a)
    <3>1. t.run = a.run
      BY <1>1, <1>8, <2>2, <2>6 DEF Differs
    <3>2. \A k \in Keys : t.child[k] = IF a.child[k] = None THEN b.child[k] ELSE a.child[k]
      <4> TAKE k \in Keys
      <4>1. t.child[k] = txn[r].child[k]
        BY <1>8
      <4>2. CASE a.child[k] = None
        BY <1>1, <2>2, <4>1, <4>2
      <4>3. CASE a.child[k] # None
        BY <1>1, <2>3, <2>6, <4>1, <4>3 DEF Disagree
      <4> QED
        BY <4>2, <4>3
    <3>3. Joined(b, a).run = a.run /\ \A k \in Keys : Joined(b, a).child[k] = t.child[k]
      BY <3>2 DEF Joined
    <3> QED
      BY <2>5, <3>1, <3>3, SameAggregate
  <2>7. CASE policy = "reject"
    <3>1. Refused(r) <=> Differs(r) \/ Disagree(b, a)
      BY <1>1, <1>8, <2>7 DEF Refused, Accepts, Differs
    <3> QED
      BY <2>1, <2>4, <2>6, <2>7, <3>1
  <2>8. CASE policy = "overwrite"
    <3>1. ~Disagree(b, a)
      <4>1. \A d \in ChildRows : ~RowDiffers(d[1], d[2])
        BY <2>8 DEF IInv, RowsInTxn
      <4>2. \A k \in Keys : <<r, k>> \in ChildRows => ~RowDiffers(r, k)
        BY <4>1
      <4> QED
        BY <2>4, <4>2
    <3>2. Refused(r) <=> Differs(r) /\ HasExtra(b, a)
      BY <1>1, <1>8, <2>8, <3>1 DEF Refused, Accepts, Differs
    <3>3. Refused(r) <=> \E k \in Keys : <<r, k>> \in Stale
      BY <1>3, <1>4, <2>8, <3>2 DEF HasExtra
    <3> QED
      BY <2>1, <2>6, <2>8, <3>1, <3>3
  <2> QED
    BY <1>8, <2>7, <2>8
<1> QED
  BY <1>1, <1>5, <1>6, <1>7, <1>8 DEF Policies

\* The child rows are done: every run is as the policy promises, or refused.
LEMMA EndChildrenInv ==
    ASSUME IInv, EndChildren
    PROVE  IInv'
<1>1. /\ pc = "children" /\ pc' = "deleted" /\ todo = {} /\ todo' = todo
      /\ ~(policy = "overwrite" /\ Stale # {})
      /\ UNCHANGED <<db, staged, archive, policy, outcome, inserted, overwritten, before, conflicts>>
  BY DEF EndChildren, tracking
<1>2. /\ txn \in Databases /\ Carried \subseteq Runs
      /\ \A r \in Carried : txn[r] \in Aggregates
      /\ \A r \in Runs \ Carried : txn[r] = Base[r]
  BY <1>1 DEF IInv, RowsInTxn, Carried
<1>3. \A r \in Runs \ Carried : txn'[r] = txn[r]
  BY <1>1, <1>2 DEF EndChildren, Cleaned
<1>4. \A r \in Carried : /\ txn'[r] \in Aggregates /\ txn'[r].run = txn[r].run
                         /\ \A k \in Keys : txn'[r].child[k] =
                                IF policy = "overwrite_strict" /\ <<r, k>> \notin ChildRows
                                THEN None ELSE txn[r].child[k]
  <2> TAKE r \in Carried
  <2>1. CASE policy # "overwrite_strict"
    BY <1>2, <2>1 DEF EndChildren
  <2>2. CASE policy = "overwrite_strict"
    <3> DEFINE c == [k \in Keys |-> IF <<r, k>> \in ChildRows THEN txn[r].child[k] ELSE None]
    <3>1. txn'[r] = [txn[r] EXCEPT !.child = c]
      BY <1>2, <2>2 DEF EndChildren, Cleaned
    <3>2. txn[r] \in Aggregates /\ c \in [Keys -> Values \union {None}]
      BY <1>2 DEF Aggregates
    <3>3. \A k \in Keys : c[k] = IF <<r, k>> \in ChildRows THEN txn[r].child[k] ELSE None
      OBVIOUS
    <3> HIDE DEF c
    <3>4. txn'[r] \in Aggregates /\ txn'[r].run = txn[r].run /\ txn'[r].child = c
      BY <3>1, <3>2 DEF Aggregates
    <3> QED
      BY <2>2, <3>3, <3>4
  <2> QED
    BY <2>1, <2>2
<1>5. txn' \in Databases
  <2>1. txn' = [r \in Runs |-> txn'[r]]
    BY <1>2 DEF EndChildren, Databases
  <2>2. \A r \in Runs : txn'[r] \in Aggregates \union {None}
    BY <1>2, <1>3, <1>4 DEF Databases
  <2> QED
    BY <2>1, <2>2 DEF Databases
<1>6. \A r \in Carried :
        /\ policy = "overwrite" => ~Refused(r)
        /\ policy = "reject" => (Refused(r) <=> Differs(r) \/ \E k \in Keys : <<r, k>> \in ChildRows /\ RowDiffers(r, k))
        /\ ~Refused(r) => txn'[r] = Merged(policy, Base[r], archive[r])
  BY <1>1, <1>4, RunSettled
<1>7. \A r \in Carried : policy \in {"skip", "overwrite_strict"} => ~Refused(r)
  BY DEF Refused, Accepts
<1>8. policy = "reject" => (conflicts = {} <=> \A r \in Carried : ~Refused(r))
  <2>1. AppliedRuns = Carried /\ AppliedRows = ChildRows
    BY <1>1 DEF AppliedRuns, AppliedRows
  <2>2. policy = "reject" =>
           (conflicts = {} <=> /\ \A r \in Carried : ~Differs(r)
                               /\ \A c \in ChildRows : ~RowDiffers(c[1], c[2]))
    BY <1>1, <2>1 DEF IInv, Reported
  <2>3. (\A c \in ChildRows : ~RowDiffers(c[1], c[2]))
           <=> \A r \in Carried : \A k \in Keys : <<r, k>> \in ChildRows => ~RowDiffers(r, k)
    BY Rows
  <2> QED
    BY <1>6, <2>2, <2>3
<1>9. policy \in Policies
  BY DEF IInv, Placed
<1>10. Settled'
  <2>1. HasConflicts' => \E r \in Runs : Refused(r)'
    BY <1>1, <1>2, <1>8, Frame DEF HasConflicts
  <2>2. ~HasConflicts' => \A r \in Carried' : Imported(r)'
    <3> SUFFICES ASSUME ~HasConflicts', NEW r \in Carried PROVE Imported(r)'
      BY <1>1, Frame
    <3>1. ~Refused(r)
      BY <1>1, <1>6, <1>7, <1>8, <1>9 DEF HasConflicts, Policies
    <3> QED
      BY <1>1, <1>6, <3>1, Frame DEF Imported
  <2>3. \A r \in Runs \ Carried' : txn'[r] = Base'[r]
    BY <1>1, <1>2, <1>3, Frame
  <2> QED
    BY <1>1, <1>5, <2>1, <2>2, <2>3 DEF Settled
<1>11. Placed'
  BY <1>1, Frame DEF IInv, Placed, Busy
<1>12. Tracked' /\ Reported' /\ RunsInTxn' /\ RowsInTxn'
  <2>1. AppliedRuns' = AppliedRuns
    BY <1>1, Frame DEF AppliedRuns
  <2> QED
    BY <1>1, <2>1, Frame DEF IInv, Tracked, Reported, RunsInTxn, RowsInTxn, Busy
<1> QED
  BY <1>10, <1>11, <1>12 DEF IInv

\* Tombstones are applied: now every run is as the policy promises.
LEMMA ApplyDeletedInv ==
    ASSUME IInv, ApplyDeleted
    PROVE  IInv'
<1>1. /\ pc = "deleted" /\ pc' = "check" /\ todo' = todo
      /\ UNCHANGED <<db, staged, archive, policy, outcome, inserted, overwritten, before>>
      /\ policy = "reject" => conflicts' = conflicts
      /\ txn' = IF policy = "skip" THEN txn ELSE [r \in Runs |-> IF r \in Tombstones THEN None ELSE txn[r]]
  BY DEF ApplyDeleted, tracking
<1>2. txn \in Databases /\ Base \in Databases /\ archive \in Archives
  BY <1>1, Shapes DEF IInv, Placed, Settled, Busy
<1>3. txn' \in Databases
  BY <1>1, <1>2 DEF Databases
<1>4. HasConflicts' = HasConflicts
  BY <1>1 DEF HasConflicts
<1>5. ASSUME ~HasConflicts, NEW r \in Runs
      PROVE  Imported(r)'
  <2>1. ~Refused(r) /\ txn'[r] = Merged(policy, Base[r], archive[r])
    <3>1. CASE archive[r] \in Aggregates
      <4>1. r \in Carried /\ r \notin Tombstones
        BY <3>1, MarksAssumption DEF Carried, Tombstones
      <4> QED
        BY <1>1, <1>2, <1>5, <4>1 DEF IInv, Settled, Imported
    <3>2. CASE archive[r] = Deleted
      <4>1. r \notin Carried /\ r \in Tombstones
        BY <3>2, MarksAssumption DEF Carried, Tombstones
      <4>2. txn[r] = Base[r]
        BY <1>1, <1>5, <4>1 DEF IInv, Settled
      <4> QED
        BY <1>1, <3>2, <4>1, <4>2, MarksAssumption DEF Refused, Accepts, Merged
    <3>3. CASE archive[r] = None
      <4>1. r \notin Carried /\ r \notin Tombstones
        BY <3>3, MarksAssumption DEF Carried, Tombstones
      <4>2. txn[r] = Base[r]
        BY <1>1, <1>5, <4>1 DEF IInv, Settled
      <4> QED
        BY <1>1, <3>3, <4>1, <4>2, MarksAssumption DEF Refused, Accepts, Merged
    <3> QED
      BY <1>2, <3>1, <3>2, <3>3 DEF Archives
  <2> QED
    BY <1>1, <2>1, Frame DEF Imported
<1>6. Settled'
  BY <1>1, <1>3, <1>4, <1>5, Frame DEF IInv, Settled
<1>7. Placed'
  BY <1>1, Frame DEF IInv, Placed, Busy
<1>8. Tracked' /\ Reported' /\ RunsInTxn' /\ RowsInTxn'
  <2>1. AppliedRuns' = AppliedRuns
    BY <1>1, Frame DEF AppliedRuns
  <2> QED
    BY <1>1, <2>1, Frame DEF IInv, Tracked, Reported, RunsInTxn, RowsInTxn, Busy
<1> QED
  BY <1>6, <1>7, <1>8 DEF IInv

\* The steps that end the import, and those after the transaction.
LEMMA EndInv ==
    ASSUME IInv,
           \/ RefuseChild \/ RefuseStale \/ RefuseConflicts \/ PublishRefused \/ Stop
           \/ Publish \/ EndPublish
    PROVE  IInv'
<1>1. pc' \in {"sync", "done"} /\ UNCHANGED <<archive, policy, inserted, overwritten, before, conflicts>>
  BY DEF RefuseChild, RefuseStale, RefuseConflicts, PublishRefused, Stop, Publish, EndPublish, Return, tracking
<1>2. db' \in Databases \union {Absent}
  <2>1. CASE Publish
    BY <2>1 DEF Publish, IInv, Settled
  <2>2. CASE ~Publish
    BY <2>2 DEF RefuseChild, RefuseStale, RefuseConflicts, PublishRefused, Stop, EndPublish, Return, IInv, Placed
  <2> QED
    BY <2>1, <2>2
<1>3. Placed'
  BY <1>1, <1>2 DEF IInv, Placed, Busy
<1> QED
  BY <1>1, <1>3 DEF IInv, Tracked, Reported, RunsInTxn, RowsInTxn, Settled, Busy

LEMMA CommitInv ==
    ASSUME IInv, Commit
    PROVE  IInv'
<1>1. /\ pc = "check" /\ ~HasConflicts
      /\ UNCHANGED <<staged, txn, todo, inserted, overwritten, before, conflicts, archive, policy>>
  BY DEF Commit, HasConflicts, tracking
<1>2. CASE staged
  <2>1. pc' = "publish" /\ UNCHANGED <<db, outcome>>
    BY <1>2 DEF Commit
  <2>2. AppliedRuns' = AppliedRuns /\ HasConflicts' = HasConflicts /\ \A r : Imported(r)' = Imported(r)
    BY <1>1, <2>1, Frame DEF AppliedRuns, HasConflicts, Imported
  <2> QED
    BY <1>1, <1>2, <2>1, <2>2, Frame DEF IInv, Placed, Tracked, Reported, RunsInTxn, RowsInTxn, Settled, Busy
<1>3. CASE ~staged
  <2>1. pc' = "done" /\ db' = txn
    BY <1>3 DEF Commit
  <2>2. Placed'
    BY <1>1, <2>1 DEF IInv, Placed, Settled, Busy
  <2> QED
    BY <2>1, <2>2 DEF IInv, Tracked, Reported, RunsInTxn, RowsInTxn, Settled, Busy
<1> QED
  BY <1>2, <1>3

\* A database created meanwhile changes nothing for the import: it was absent, so the
\* import builds its own.
LEMMA CreateFileInv ==
    ASSUME IInv, CreateFile
    PROVE  IInv'
<1>1. /\ db = Absent /\ db' \in Databases /\ UNCHANGED <<archive, policy, outcome>>
      /\ UNCHANGED <<staged, pc, txn, todo, inserted, overwritten, before, conflicts>>
  BY DEF CreateFile, Create, iVars, tracking
<1>2. db' # Absent
  BY <1>1, MarksAssumption
<1>3. Carried' = Carried /\ ChildRows' = ChildRows
  BY <1>1 DEF Carried, ChildRows
<1>4. Placed'
  BY <1>1, <1>2, <1>3 DEF IInv, Placed
<1>5. CASE pc \in Busy
  <2>1. Base' = Base
    BY <1>1, <1>5 DEF IInv, Placed, Base
  <2>2. AppliedRuns' = AppliedRuns /\ AppliedRows' = AppliedRows /\ HasConflicts' = HasConflicts
        /\ \A r : Imported(r)' = Imported(r)
    BY <1>1, <2>1, FrameOfBase DEF AppliedRuns, AppliedRows, HasConflicts, Imported
  <2>3. Tracked' /\ Reported'
    BY <1>1, <2>1, <2>2, FrameOfBase DEF IInv, Tracked, Reported
  <2>4. RunsInTxn' /\ RowsInTxn'
    BY <1>1, <2>1, FrameOfBase DEF IInv, RunsInTxn, RowsInTxn
  <2>5. Settled'
    BY <1>1, <2>1, <2>2, FrameOfBase DEF IInv, Settled
  <2> QED
    BY <1>4, <2>3, <2>4, <2>5 DEF IInv
<1>6. CASE pc \notin Busy
  BY <1>1, <1>4, <1>6 DEF IInv, Tracked, Reported, RunsInTxn, RowsInTxn, Settled, Busy
<1> QED
  BY <1>5, <1>6

\* Writing sync_conflicts.jsonl, or nothing at all.
LEMMA ArtifactInv ==
    ASSUME IInv, WriteConflicts \/ UNCHANGED allVars
    PROVE  IInv'
<1>1. /\ UNCHANGED <<db, archive, policy, outcome>>
      /\ UNCHANGED <<staged, pc, txn, todo, inserted, overwritten, before, conflicts>>
  BY DEF WriteConflicts, allVars, vars, iVars, tracking
<1>2. Base' = Base
  BY <1>1 DEF Base
<1>3. AppliedRuns' = AppliedRuns /\ AppliedRows' = AppliedRows /\ HasConflicts' = HasConflicts
      /\ \A r : Imported(r)' = Imported(r)
  BY <1>1, <1>2, FrameOfBase DEF AppliedRuns, AppliedRows, HasConflicts, Imported
<1>4. Placed'
  BY <1>1, <1>2, FrameOfBase DEF IInv, Placed
<1>5. Tracked' /\ Reported'
  BY <1>1, <1>2, <1>3, FrameOfBase DEF IInv, Tracked, Reported
<1>6. RunsInTxn' /\ RowsInTxn'
  BY <1>1, <1>2, FrameOfBase DEF IInv, RunsInTxn, RowsInTxn
<1>7. Settled'
  BY <1>1, <1>2, <1>3, FrameOfBase DEF IInv, Settled
<1> QED
  BY <1>4, <1>5, <1>6, <1>7 DEF IInv

LEMMA INextInv == IInv /\ [INext]_allVars => IInv'
<1> SUFFICES ASSUME IInv, [INext]_allVars PROVE IInv'
  OBVIOUS
<1> QED
  BY BeginInv, ApplyRunInv, EndRunsInv, ApplyChildInv, EndChildrenInv, ApplyDeletedInv,
     EndInv, CommitInv, CreateFileInv, ArtifactInv DEF INext, Step

-----------------------------------------------------------------------------
(* The refinement.                                                         *)

\* A run that the policy refuses is in the database, so the import is not building one.
LEMMA RefusedIsThere ==
    ASSUME IInv, pc \in Busy, NEW r \in Runs, Refused(r)
    PROVE  outcome = "none" /\ ~Accepted
<1>1. Base[r] # None /\ outcome = "none"
  BY DEF Refused, Accepts, IInv, Placed
<1>2. ~staged /\ db # Absent
  BY <1>1 DEF Base, Empty, IInv, Placed
<1>3. Contents = Base
  BY <1>2 DEF Contents, Base
<1> QED
  BY <1>1, <1>3 DEF Refused, Accepted

LEMMA RefuseChildIsRefuse ==
    ASSUME IInv, RefuseChild
    PROVE  Refuse
<1>1. PICK c \in todo : Conflicting(c) /\ policy = "overwrite"
  BY DEF RefuseChild
<1>2. pc = "children" /\ pc \in Busy /\ UNCHANGED <<db, archive, policy>> /\ outcome' = "refused"
  BY DEF RefuseChild, Return, Busy
<1> DEFINE r == c[1]  k == c[2]
<1>3. r \in Carried /\ r \in Runs /\ k \in Keys /\ c = <<r, k>> /\ c \in ChildRows
  BY <1>2, Rows DEF IInv, Placed, Carried
<1>4. archive[r] \in Aggregates /\ Base[r] \in Aggregates \union {None}
  BY <1>2, <1>3, Shapes DEF IInv, Databases
<1>5. txn[r].child[k] \notin {None, archive[r].child[k]} /\ archive[r].child[k] # None
  BY <1>1, <1>3, Rows DEF Conflicting, Existing, Value
<1>6. txn[r].child[k] = AfterRun(r).child[k]
  BY <1>1, <1>2, <1>3 DEF IInv, RowsInTxn
<1>7. Base[r] # None /\ Base[r].child[k] = txn[r].child[k]
  BY <1>1, <1>3, <1>4, <1>5, <1>6 DEF AfterRun, Fresh, NoChild, Aggregates
<1>8. Disagree(Base[r], archive[r])
  BY <1>3, <1>5, <1>7 DEF Disagree
<1>9. Refused(r)
  BY <1>1, <1>4, <1>7, <1>8 DEF Refused, Accepts
<1> QED
  BY <1>2, <1>3, <1>9, RefusedIsThere DEF Refuse

LEMMA RefuseStaleIsRefuse ==
    ASSUME IInv, RefuseStale
    PROVE  Refuse
<1>1. /\ pc = "children" /\ pc \in Busy /\ todo = {} /\ policy = "overwrite" /\ Stale # {}
      /\ UNCHANGED <<db, archive, policy>> /\ outcome' = "refused"
  BY DEF RefuseStale, Return, Busy
<1>2. PICK r \in overwritten, k \in Keys : <<r, k>> \in Stale
  BY <1>1 DEF Stale
<1>3. r \in Carried /\ r \in Runs /\ txn[r] \in Aggregates
  BY <1>1 DEF IInv, Tracked, AppliedRuns, RowsInTxn, Carried
<1>4. Refused(r)
  BY <1>1, <1>2, <1>3, RunSettled
<1> QED
  BY <1>1, <1>3, <1>4, RefusedIsThere DEF Refuse

LEMMA RefuseConflictsIsRefuse ==
    ASSUME IInv, RefuseConflicts
    PROVE  Refuse
<1>1. /\ pc = "check" /\ pc \in Busy /\ HasConflicts
      /\ UNCHANGED <<db, archive, policy>> /\ outcome' = "refused"
  BY DEF RefuseConflicts, Return, Busy, HasConflicts
<1>2. PICK r \in Runs : Refused(r)
  BY <1>1 DEF IInv, Settled
<1> QED
  BY <1>1, <1>2, RefusedIsThere DEF Refuse

\* The transaction holds what the policy promises when it is committed or published.
LEMMA CommittedIsResult ==
    ASSUME IInv, pc \in {"check", "publish"}, ~HasConflicts, Contents = Base
    PROVE  outcome = "none" /\ Accepted /\ txn = Result
<1>1. /\ outcome = "none" /\ txn \in Databases
      /\ \A r \in Runs : Imported(r)
  BY DEF IInv, Placed, Settled, Busy
<1>2. Accepted
  BY <1>1 DEF Imported, Refused, Accepted
<1>3. txn = Result
  BY <1>1 DEF Imported, Result, Databases
<1> QED
  BY <1>1, <1>2, <1>3

LEMMA CommitIsImport ==
    ASSUME IInv, Commit
    PROVE  Import \/ UNCHANGED vars
<1>1. pc = "check" /\ ~HasConflicts /\ UNCHANGED <<archive, policy>>
  BY DEF Commit, HasConflicts
<1>2. CASE staged
  BY <1>1, <1>2 DEF Commit, vars
<1>3. CASE ~staged
  <2>1. Contents = Base
    BY <1>1, <1>3 DEF Contents, Base, IInv, Placed, Busy
  <2> QED
    BY <1>1, <1>3, <2>1, CommittedIsResult DEF Commit, Import
<1> QED
  BY <1>2, <1>3

LEMMA PublishIsImport ==
    ASSUME IInv, Publish
    PROVE  Import
<1>1. /\ pc = "publish" /\ db = Absent /\ db' = txn /\ outcome' = "ok"
      /\ UNCHANGED <<archive, policy>>
  BY DEF Publish
<1>2. staged /\ ~HasConflicts /\ Contents = Base
  BY <1>1 DEF IInv, Settled, Contents, Base
<1> QED
  BY <1>1, <1>2, CommittedIsResult DEF Import

\* Every step of the import is a step of the policy, or changes nothing that it speaks of.
LEMMA StepRefines == IInv /\ [INext]_allVars => [Next]_vars
<1> SUFFICES ASSUME IInv, [INext]_allVars PROVE [Next]_vars
  OBVIOUS
<1>1. CASE RefuseChild \/ RefuseStale \/ RefuseConflicts
  BY <1>1, RefuseChildIsRefuse, RefuseStaleIsRefuse, RefuseConflictsIsRefuse DEF Next
<1>2. CASE Commit \/ Publish
  BY <1>2, CommitIsImport, PublishIsImport DEF Next
<1>3. CASE Stop \/ PublishRefused
  <2>1. outcome = "none"
    BY <1>3 DEF Stop, PublishRefused, IInv, Placed, Busy
  <2> QED
    BY <1>3, <2>1 DEF Stop, PublishRefused, Return, Next, Fail
<1>4. CASE CreateFile
  BY <1>4 DEF CreateFile, Next
<1>5. CASE Begin \/ ApplyRun \/ EndRuns \/ ApplyChild \/ EndChildren \/ ApplyDeleted
           \/ WriteConflicts \/ EndPublish \/ UNCHANGED allVars
  BY <1>5 DEF Begin, ApplyRun, EndRuns, ApplyChild, EndChildren, ApplyDeleted, WriteConflicts,
     EndPublish, allVars, vars
<1> QED
  BY <1>1, <1>2, <1>3, <1>4, <1>5 DEF INext, Step

\* The row by row import changes the database in one step to what the policy promises, or
\* leaves it and says so, whatever the order of the rows, the conflicts among them, and the
\* step at which it stops or another process creates the database.
THEOREM ImportImplementsPolicy == ISpec => ImplementsPolicy
<1>1. IInit => Init
  BY DEF IInit
<1> QED
  BY <1>1, IInitInv, INextInv, StepRefines, PTL DEF ISpec, ImplementsPolicy, Spec

\* So the row by row import can be repeated.
THEOREM RowByRowIsRepeatable == ISpec => []Repeatable
BY ImportImplementsPolicy, ImportIsRepeatable, PTL DEF ImplementsPolicy
=============================================================================
