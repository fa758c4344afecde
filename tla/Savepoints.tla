----------------------------- MODULE Savepoints -----------------------------
(***************************************************************************)
(* What src/src/storage.rs relies on in its SQL engine: one connection,    *)
(* nested savepoints, and what of it survives a crash.  The engine is a    *)
(* dependency (fsqlite); this is its contract as storage.rs uses it.       *)
(***************************************************************************)
EXTENDS Naturals, Sequences

CONSTANTS
    ReleaseFailures,            \* what a failed RELEASE may leave behind: "aborts"
                                \* (no transaction), "keeps_open" (the transaction)
    PERSIST_BUSY_RETRY_ATTEMPTS \* retries after a busy error

ASSUME EngineAssumption ==
    /\ ReleaseFailures \subseteq {"aborts", "keeps_open"}
    /\ PERSIST_BUSY_RETRY_ATTEMPTS \in Nat

\* durable: what a crash leaves; work: what this connection sees; stack: the contents
\* at the start of each open savepoint, innermost last.
Connection(rows) == [durable : SUBSET rows, work : SUBSET rows, stack : Seq(SUBSET rows)]
NewConnection(rows) == [durable |-> rows, work |-> rows, stack |-> <<>>]

Savepoint(c) ==
    [durable |-> c.durable, work |-> c.work, stack |-> Append(c.stack, c.work)]

\* Outside a savepoint a write commits by itself.
Write(c, rows) ==
    [durable |-> IF c.stack = <<>> THEN c.durable \union rows ELSE c.durable,
     work    |-> c.work \union rows,
     stack   |-> c.stack]

Innermost(c) == c.stack[Len(c.stack)]
Pop(s) == SubSeq(s, 1, Len(s) - 1)

\* Releasing the outermost savepoint commits; releasing an inner one only merges it
\* into the enclosing one.
Release(c) ==
    [durable |-> IF Len(c.stack) = 1 THEN c.work ELSE c.durable,
     work    |-> c.work,
     stack   |-> Pop(c.stack)]

\* The connections a failed RELEASE may leave behind.
ReleaseFails(c) == {IF f = "aborts" THEN NewConnection(c.durable) ELSE c : f \in ReleaseFailures}

\* Mutant of rollback_savepoint: RELEASE without ROLLBACK TO.
RollbackOnlyReleases(c) == Release(c)

\* ROLLBACK TO the innermost savepoint and RELEASE of it.
rollback_savepoint(c) ==
    [durable |-> c.durable, work |-> Innermost(c), stack |-> Pop(c.stack)]

\* is_busy_storage_error, and the two kinds of error a statement can return.
StatementErrors == {"Busy", "Storage"}

\* Whether a retry loop goes round again after error e.
Retries(e, attempt) == e = "Busy" /\ attempt < PERSIST_BUSY_RETRY_ATTEMPTS
=============================================================================
