--------------------------- MODULE ListenPersist ---------------------------
(***************************************************************************)
(* Persistence of a live session: ListenPersistSink in src/src/listen.rs   *)
(* over listen_open_run, listen_flush_utterance and listen_close_run of    *)
(* src/src/storage.rs.  Deltas and events are buffered as they are emitted *)
(* and written, together, when an utterance closes; a flush that fails     *)
(* keeps its buffer for the next one; the close writes what is left and    *)
(* the end-of-session summary.  The process may die at any moment.         *)
(*                                                                         *)
(* A recorded delta or event is the number it was recorded under; "run" is *)
(* the run row, "end" the summary the close writes.                        *)
(***************************************************************************)
EXTENDS Savepoints, FiniteSets

VARIABLES
    conn,       \* the connection of the sink's store
    recorded,   \* how many deltas and events were recorded
    pending,    \* pending_segments and pending_events
    call,       \* the store operation in progress
    pc,         \* its next statement
    attempt,    \* index of retry_busy
    flushed     \* what the session was told is durable

sinkVars == <<conn, recorded, pending, call, pc, attempt, flushed>>
buffered == <<recorded, pending, flushed>>

\* Rows are pairs so that row kinds and item numbers can share a set.
Item(n) == <<"item", n>>
Items(S) == {Item(n) : n \in S}
RunRow == <<"run", 0>>
EndRow == <<"end", 0>>

SinkInit ==
    /\ conn = NewConnection({})
    /\ recorded = 0
    /\ pending = {}
    /\ call = "open"
    /\ pc = "begin"
    /\ attempt = 0
    /\ flushed = {}

\* What the store operation in progress writes.
Rows ==
    CASE call = "open" -> {RunRow}
      [] call = "flush" -> Items(pending)
      [] call = "close" -> Items(pending) \union {EndRow}
      [] OTHER -> {}

\* A plain INSERT meets a row that is already visible.
Collides == call = "open" /\ RunRow \in conn.work

-----------------------------------------------------------------------------
(* One store operation inside retry_busy.                                  *)

Begin ==
    /\ call \in {"open", "flush", "close"}
    /\ pc = "begin"
    /\ conn' = Savepoint(conn)
    /\ pc' = "write"
    /\ UNCHANGED <<buffered, call, attempt>>

WriteRows ==
    /\ pc = "write"
    /\ ~Collides
    /\ conn' = Write(conn, Rows)
    /\ pc' = "release"
    /\ UNCHANGED <<buffered, call, attempt>>

\* The session goes on in `idle`, without a sink, or ends.
Done(ok) ==
    /\ attempt' = 0
    /\ pc' = "begin"
    /\ call' = CASE call = "open" /\ ~ok -> "degraded"
                 [] call = "close" -> IF ok THEN "closed" ELSE "close_failed"
                 [] OTHER -> "idle"

\* retry_busy: a busy error goes round again, any other is returned.  A failed flush
\* leaves its buffer alone and the session emits, and records, a warning.
Error(e, c) ==
    /\ conn' = c
    /\ IF Retries(e, attempt)
       THEN /\ attempt' = attempt + 1
            /\ pc' = "begin"
            /\ UNCHANGED <<buffered, call>>
       ELSE /\ Done(FALSE)
            /\ recorded' = IF call = "flush" THEN recorded + 1 ELSE recorded
            /\ pending' = IF call = "flush" THEN pending \union {recorded + 1} ELSE pending
            /\ UNCHANGED flushed

BeginFails ==
    /\ call \in {"open", "flush", "close"}
    /\ pc = "begin"
    /\ \E e \in StatementErrors : Error(e, conn)

\* What the inserts have written when one of them fails: the rows go in order.
Written == {{}} \union {Items({m \in pending : m <= n}) : n \in pending}

\* One of the inserts fails, after some of the rows were written.
WriteFails ==
    /\ pc = "write"
    /\ \E e \in IF Collides THEN {"Storage"} ELSE StatementErrors, part \in Written :
          Error(e, rollback_savepoint(Write(conn, part)))

Commit ==
    /\ pc = "release"
    /\ conn' = Release(conn)
    /\ Done(TRUE)
    /\ flushed' = flushed \union Rows
    /\ pending' = {}
    /\ UNCHANGED recorded

\* RELEASE fails and the code does not roll back.
CommitFails ==
    /\ pc = "release"
    /\ \E e \in StatementErrors, c \in ReleaseFails(conn) : Error(e, c)

\* One step of the store operation in progress.
StoreStep == Begin \/ WriteRows \/ BeginFails \/ WriteFails \/ Commit \/ CommitFails

-----------------------------------------------------------------------------
(* What the session calls.  Without a sink (its open failed) recording and *)
(* flushing do nothing.                                                    *)

\* The session may go on: no store operation is in progress.
SinkReady == call \in {"idle", "degraded"}

\* record_delta and record_event, n of them.
Record(n) ==
    /\ recorded' = IF call = "idle" THEN recorded + n ELSE recorded
    /\ pending' = pending \union (recorded + 1) .. recorded'

\* Ask for a store operation: flush_utterance or close.
Ask(operation) ==
    /\ call' = IF call = "idle" THEN operation ELSE call
    /\ UNCHANGED <<conn, pc, attempt, flushed>>

KeepsSink == UNCHANGED <<conn, call, pc, attempt, flushed>>

\* The process dies, or the session returns without closing its sink because an event
\* cannot be emitted, a decode or the capture failed: the connection goes, the durable
\* rows stay.
Crash ==
    /\ call \in {"open", "idle", "degraded", "flush", "close"}
    /\ call' = "crashed"
    /\ pc' = "begin"
    /\ conn' = NewConnection(conn.durable)
    /\ UNCHANGED <<buffered, attempt>>
=============================================================================
