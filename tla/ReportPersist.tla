--------------------------- MODULE ReportPersist ---------------------------
(***************************************************************************)
(* The work of the persist stage: RunStore::open followed by               *)
(* persist_report_cancellable in src/src/storage.rs.  One report is        *)
(* written in parts inside one savepoint; a busy database makes the whole  *)
(* transaction start over; the stage's token is checked before each        *)
(* attempt, between the parts and before the commit.                       *)
(***************************************************************************)
EXTENDS Savepoints

VARIABLES
    conn,       \* the connection of the store
    tripped,    \* token.checkpoint() would fail
    pc,         \* the next statement of the operation
    attempt,    \* index of the retry loop
    result      \* what the operation returns

vars == <<conn, tripped, pc, attempt, result>>

None == "None"

\* What one report consists of; a run row is unique by its id.
Parts == {"run", "diarization", "segments", "events"}

Init ==
    /\ conn = NewConnection({})
    /\ tripped = FALSE
    /\ pc = "open"
    /\ attempt = 0
    /\ result = None

Return(r) == pc' = "returned" /\ result' = r

\* A statement of RunStore::open fails: the open loop has the same retry budget.
OpenFails ==
    /\ pc = "open"
    /\ \E e \in StatementErrors :
          IF Retries(e, attempt)
          THEN attempt' = attempt + 1 /\ UNCHANGED <<pc, result>>
          ELSE attempt' = attempt /\ Return(e)
    /\ UNCHANGED <<conn, tripped>>

open ==
    /\ pc = "open"
    /\ pc' = "attempt"
    /\ attempt' = 0
    /\ UNCHANGED <<conn, tripped, result>>

\* The loop of persist_report_cancellable: a failing checkpoint returns at once.
BeginAttempt ==
    /\ pc = "attempt"
    /\ \/ tripped /\ Return("Cancelled") /\ conn' = conn
       \/ /\ ~tripped
          /\ conn' = Savepoint(conn)
          /\ pc' = "run"
          /\ result' = result
    /\ UNCHANGED <<tripped, attempt>>

\* An error inside the attempt, after the engine has left connection c behind.
AttemptError(e, c) ==
    /\ conn' = c
    /\ IF Retries(e, attempt)
       THEN attempt' = attempt + 1 /\ pc' = "attempt" /\ result' = result
       ELSE attempt' = attempt /\ Return(e)

\* SAVEPOINT itself fails: there is nothing to roll back.
SavepointFails ==
    /\ pc = "attempt"
    /\ ~tripped
    /\ \E e \in StatementErrors : AttemptError(e, conn)
    /\ tripped' = tripped

\* INSERT INTO runs is not an upsert: a row that is already visible is an error.
InsertRun ==
    /\ pc = "run"
    /\ \/ /\ "run" \notin conn.work
          /\ conn' = Write(conn, {"run"})
          /\ pc' = "diarization"
          /\ UNCHANGED <<attempt, result>>
       \/ /\ "run" \in conn.work
          /\ AttemptError("Storage", rollback_savepoint(conn))
    /\ tripped' = tripped

\* The other parts, in order; segments and events are each preceded by a checkpoint.
Following == [diarization |-> "segments", segments |-> "events", events |-> "commit"]

InsertPart ==
    /\ pc \in DOMAIN Following
    /\ \/ /\ tripped /\ pc \in {"segments", "events"}
          /\ conn' = rollback_savepoint(conn)
          /\ Return("Cancelled")
       \/ /\ ~(tripped /\ pc \in {"segments", "events"})
          /\ conn' = Write(conn, {pc})
          /\ pc' = Following[pc]
          /\ result' = result
    /\ UNCHANGED <<tripped, attempt>>

\* Any insert fails: roll back, then retry or return.
InsertFails ==
    /\ pc \in {"run"} \union DOMAIN Following
    /\ \E e \in StatementErrors : AttemptError(e, rollback_savepoint(conn))
    /\ tripped' = tripped

\* The checkpoint before the commit.  Passing it and committing are two steps.
CheckpointBeforeCommit ==
    /\ pc = "commit"
    /\ \/ /\ tripped
          /\ conn' = rollback_savepoint(conn)
          /\ Return("Cancelled")
       \/ /\ ~tripped
          /\ pc' = "release"
          /\ UNCHANGED <<conn, result>>
    /\ UNCHANGED <<tripped, attempt>>

Commit ==
    /\ pc = "release"
    /\ conn' = Release(conn)
    /\ Return("Ok")
    /\ UNCHANGED <<tripped, attempt>>

\* RELEASE fails and the code does not roll back.
CommitFails ==
    /\ pc = "release"
    /\ \E e \in StatementErrors, c \in ReleaseFails(conn) : AttemptError(e, c)
    /\ tripped' = tripped

\* The process dies: the transaction is gone, the durable rows stay.
Crash ==
    /\ pc \notin {"returned", "closed", "crashed"}
    /\ conn' = NewConnection(conn.durable)
    /\ pc' = "crashed"
    /\ UNCHANGED <<tripped, attempt, result>>

\* The store is dropped with the operation: an open transaction is discarded.
CloseStore ==
    /\ pc = "returned"
    /\ pc' = "closed"
    /\ conn' = NewConnection(conn.durable)
    /\ UNCHANGED <<tripped, attempt, result>>

Trip ==
    /\ ~tripped
    /\ tripped' = TRUE
    /\ UNCHANGED <<conn, pc, attempt, result>>

Ended == pc \in {"closed", "crashed"} /\ UNCHANGED vars

Statement ==
    \/ OpenFails \/ open \/ BeginAttempt \/ SavepointFails \/ InsertRun \/ InsertPart
    \/ InsertFails \/ CheckpointBeforeCommit \/ Commit \/ CommitFails

Next == Statement \/ CloseStore \/ Crash \/ Trip \/ Ended

Spec == Init /\ [][Next]_vars

-----------------------------------------------------------------------------
(* Properties.                                                             *)

\* Types of the connection and of the operation.
TypeOK ==
    /\ conn \in Connection(Parts)
    /\ tripped \in BOOLEAN
    /\ pc \in {"open", "attempt", "run", "diarization", "segments", "events", "commit",
               "release", "returned", "closed", "crashed"}
    /\ attempt \in 0 .. PERSIST_BUSY_RETRY_ATTEMPTS
    /\ result \in {"Ok", "Cancelled", "Busy", "Storage", None}

\* README: "no partial data reaches the database" - a report is durable as a whole
\* or not at all, at every moment, whatever is cancelled, retried or killed.
AllOrNothing == conn.durable \in {{}, Parts}

\* The operation's answer and the database agree: Ok means the report is durable,
\* any error means it is not.
AnswerMatchesDatabase ==
    pc \in {"returned", "closed"} => (result = "Ok" <=> conn.durable = Parts)

\* A stop that is raised before the last checkpoint keeps the report out for good,
\* however many retries and savepoints are still in flight.
BeforeLastCheckpoint == pc \notin {"release", "returned", "closed", "crashed"}
StopKeepsReportOut == [](tripped /\ BeforeLastCheckpoint => [](conn.durable = {}))

=============================================================================
