------------------------ MODULE ReportPersistProofs ------------------------
(***************************************************************************)
(* Proofs about ReportPersist for every number of busy retries and every   *)
(* behaviour of a failed RELEASE that Savepoints admits.                   *)
(***************************************************************************)
EXTENDS ReportPersist, TLAPS

Conn(d, w, s) == [durable |-> d, work |-> w, stack |-> s]

\* The connections the operation meets before its answer: no transaction, one
\* savepoint over an empty database holding rows w, and a savepoint nested in the
\* transaction that a failed RELEASE left open.
Fresh == Conn({}, {}, <<>>)
One == Append(<<>>, {})
Open(w) == Conn({}, w, One)
Nested == Conn({}, Parts, Append(One, Parts))
Committed == Conn(Parts, Parts, <<>>)

\* What the connection can look like at each statement.  Where a failed RELEASE left
\* the transaction open its work is the whole report, so the INSERT of the run row
\* collides and no retry ever commits it.
ConnectionAt ==
    /\ pc = "open" => conn = Fresh
    /\ pc = "attempt" => conn \in {Fresh, Open(Parts)}
    /\ pc = "run" => conn \in {Open({}), Nested}
    /\ pc = "diarization" => conn = Open({"run"})
    /\ pc = "segments" => conn = Open({"run", "diarization"})
    /\ pc = "events" => conn = Open({"run", "diarization", "segments"})
    /\ pc \in {"commit", "release"} => conn = Open(Parts)

\* When there is an answer, and what it says about the durable rows.
AnswerAt ==
    /\ pc \in {"returned", "closed"} =>
          /\ result # None
          /\ conn.durable = IF result = "Ok" THEN Parts ELSE {}
    /\ pc \notin {"returned", "closed"} => result = None
    /\ pc = "crashed" => conn.durable = {}

IInv == TypeOK /\ ConnectionAt /\ AnswerAt

-----------------------------------------------------------------------------
(* The connection operators on the connections above.                      *)

\* Popping undoes a push.
LEMMA PushPop ==
    ASSUME NEW S, NEW s \in Seq(S), NEW a \in S
    PROVE  /\ Append(s, a) \in Seq(S)
           /\ Len(Append(s, a)) = Len(s) + 1
           /\ Append(s, a)[Len(s) + 1] = a
           /\ Pop(Append(s, a)) = s
  BY DEF Pop

\* The stack with one savepoint over the empty database.
LEMMA OneSavepoint ==
    /\ One \in Seq(SUBSET Parts)
    /\ Len(One) = 1
    /\ Pop(One) = <<>>
    /\ One[1] = {}
    /\ One # <<>>
  BY DEF Pop, One

\* SAVEPOINT, writes, rollback and RELEASE map these connections to each other.
LEMMA ConnectionSteps ==
    /\ NewConnection({}) = Fresh
    /\ Savepoint(Fresh) = Open({})
    /\ Savepoint(Open(Parts)) = Nested
    /\ \A w, r \in SUBSET Parts : Write(Open(w), r) = Open(w \union r)
    /\ \A w \in SUBSET Parts : rollback_savepoint(Open(w)) = Fresh
    /\ rollback_savepoint(Nested) = Open(Parts)
    /\ Release(Open(Parts)) = Committed
    /\ ReleaseFails(Open(Parts)) \subseteq {Fresh, Open(Parts)}
  <1>1. NewConnection({}) = Fresh
    BY DEF NewConnection, Fresh, Conn
  <1>2. Savepoint(Fresh) = Open({})
    BY DEF Savepoint, Fresh, Open, One, Conn
  <1>3. Savepoint(Open(Parts)) = Nested
    BY DEF Savepoint, Open, Nested, Conn
  <1>4. \A w, r \in SUBSET Parts : Write(Open(w), r) = Open(w \union r)
    BY OneSavepoint DEF Write, Open, Conn
  <1>5. \A w \in SUBSET Parts : rollback_savepoint(Open(w)) = Fresh
    BY OneSavepoint DEF rollback_savepoint, Innermost, Open, Fresh, Conn
  <1>6. rollback_savepoint(Nested) = Open(Parts)
    <2>1. /\ Len(Append(One, Parts)) = 2
          /\ Append(One, Parts)[2] = Parts
          /\ Pop(Append(One, Parts)) = One
      <3>1. One \in Seq(SUBSET Parts) /\ Parts \in SUBSET Parts /\ Len(One) = 1
        BY OneSavepoint
      <3> HIDE DEF Parts, One
      <3> QED BY <3>1, PushPop
    <2> QED BY <2>1 DEF rollback_savepoint, Innermost, Nested, Open, Conn
  <1>7. Release(Open(Parts)) = Committed
    BY OneSavepoint DEF Release, Open, Committed, Conn
  <1>8. ReleaseFails(Open(Parts)) \subseteq {Fresh, Open(Parts)}
    BY <1>1 DEF ReleaseFails, Open, Conn
  <1> QED BY <1>1, <1>2, <1>3, <1>4, <1>5, <1>6, <1>7, <1>8

\* They are connections, and all but the committed one have nothing durable.
LEMMA ConnectionValues ==
    /\ Fresh \in Connection(Parts) /\ Fresh.durable = {} /\ Fresh.work = {}
    /\ \A w \in SUBSET Parts :
          Open(w) \in Connection(Parts) /\ Open(w).durable = {} /\ Open(w).work = w
    /\ Nested \in Connection(Parts) /\ Nested.durable = {} /\ Nested.work = Parts
    /\ Committed \in Connection(Parts) /\ Committed.durable = Parts
    /\ \A d \in SUBSET Parts :
          NewConnection(d) \in Connection(Parts) /\ NewConnection(d).durable = d
  BY OneSavepoint, PushPop
     DEF Fresh, Open, Nested, Committed, Conn, Connection, NewConnection

-----------------------------------------------------------------------------
(* The inductive invariant.                                                *)

LEMMA InitInv == Init => IInv
  <1> SUFFICES ASSUME Init PROVE IInv
    OBVIOUS
  <1>1. conn = Fresh /\ conn \in Connection(Parts)
    BY ConnectionSteps, ConnectionValues DEF Init
  <1>2. attempt \in 0 .. PERSIST_BUSY_RETRY_ATTEMPTS
    BY EngineAssumption DEF Init
  <1> QED
    BY <1>1, <1>2 DEF Init, IInv, TypeOK, ConnectionAt, AnswerAt, None

\* A failed attempt leaves Fresh or Open(Parts) behind and starts over or answers.
LEMMA AttemptErrorInv ==
    ASSUME IInv, NEW e \in StatementErrors, NEW c \in {Fresh, Open(Parts)},
           AttemptError(e, c), tripped' = tripped,
           pc \notin {"returned", "closed"}
    PROVE  IInv'
  <1>1. TypeOK'
    BY ConnectionValues, EngineAssumption
       DEF IInv, TypeOK, AttemptError, Retries, Return, StatementErrors
  <1>2. ConnectionAt'
    BY DEF AttemptError, Return, ConnectionAt
  <1>3. AnswerAt'
    BY ConnectionValues DEF IInv, AnswerAt, AttemptError, Return, StatementErrors, None
  <1> QED BY <1>1, <1>2, <1>3 DEF IInv

LEMMA StepInv == IInv /\ [Next]_vars => IInv'
  <1> SUFFICES ASSUME IInv, [Next]_vars PROVE IInv'
    OBVIOUS
  <1>1. CASE OpenFails
    <2>1. /\ conn = Fresh /\ conn' = Fresh /\ tripped' = tripped
          /\ \/ pc' = "open" /\ result' = None
             \/ pc' = "returned" /\ result' \in {"Busy", "Storage"}
      BY <1>1
         DEF OpenFails, IInv, ConnectionAt, AnswerAt, Return, StatementErrors
    <2>2. attempt' \in 0 .. PERSIST_BUSY_RETRY_ATTEMPTS
      BY <1>1, EngineAssumption DEF OpenFails, IInv, TypeOK, Retries
    <2> QED
      BY <2>1, <2>2, ConnectionValues DEF IInv, TypeOK, ConnectionAt, AnswerAt, None
  <1>2. CASE open
    BY <1>2, EngineAssumption DEF open, IInv, TypeOK, ConnectionAt, AnswerAt
  <1>3. CASE BeginAttempt
    <2>1. conn \in {Fresh, Open(Parts)} /\ tripped' = tripped /\ attempt' = attempt
      BY <1>3 DEF BeginAttempt, IInv, ConnectionAt
    <2>2. CASE tripped
      BY <1>3, <2>1, <2>2, ConnectionValues
         DEF BeginAttempt, IInv, TypeOK, ConnectionAt, AnswerAt, Return, None
    <2>3. CASE ~tripped
      <3>1. conn' \in {Open({}), Nested} /\ pc' = "run" /\ result' = result
        BY <1>3, <2>1, <2>3, ConnectionSteps DEF BeginAttempt
      <3> QED
        BY <1>3, <2>1, <3>1, ConnectionValues
           DEF BeginAttempt, IInv, TypeOK, ConnectionAt, AnswerAt
    <2> QED BY <2>2, <2>3
  <1>4. CASE SavepointFails
    BY <1>4, AttemptErrorInv DEF SavepointFails, IInv, ConnectionAt
  <1>5. CASE InsertRun
    <2>1. CASE "run" \notin conn.work
      <3>1. conn = Open({}) /\ conn' = Open({"run"}) /\ pc' = "diarization"
        BY <1>5, <2>1, ConnectionSteps, ConnectionValues
           DEF InsertRun, IInv, ConnectionAt, Parts
      <3> QED
        BY <1>5, <2>1, <3>1, ConnectionValues
           DEF InsertRun, IInv, TypeOK, ConnectionAt, AnswerAt, Parts
    <2>2. CASE "run" \in conn.work
      <3>1. conn = Nested /\ AttemptError("Storage", Open(Parts)) /\ tripped' = tripped
        BY <1>5, <2>2, ConnectionSteps, ConnectionValues DEF InsertRun, IInv, ConnectionAt
      <3> QED
        BY <1>5, <3>1, AttemptErrorInv DEF InsertRun, StatementErrors
    <2> QED BY <2>1, <2>2
  <1>6. CASE InsertPart
    <2>1. PICK w \in SUBSET Parts : conn = Open(w)
      BY <1>6 DEF InsertPart, Following, IInv, ConnectionAt, Parts
    <2>2. CASE tripped /\ pc \in {"segments", "events"}
      BY <1>6, <2>1, <2>2, ConnectionSteps, ConnectionValues
         DEF InsertPart, Return, IInv, TypeOK, ConnectionAt, AnswerAt, None
    <2>3. CASE ~(tripped /\ pc \in {"segments", "events"})
      BY <1>6, <2>1, <2>3, ConnectionSteps, ConnectionValues, SMTT(30)
         DEF InsertPart, Following, IInv, TypeOK, ConnectionAt, AnswerAt, Parts
    <2> QED BY <2>2, <2>3
  <1>7. CASE InsertFails
    <2>1. rollback_savepoint(conn) \in {Fresh, Open(Parts)}
      BY <1>7, ConnectionSteps DEF InsertFails, Following, IInv, ConnectionAt, Parts
    <2> QED
      BY <1>7, <2>1, AttemptErrorInv DEF InsertFails, Following
  <1>8. CASE CheckpointBeforeCommit
    BY <1>8, ConnectionSteps, ConnectionValues
       DEF CheckpointBeforeCommit, Return, IInv, TypeOK, ConnectionAt, AnswerAt, None
  <1>9. CASE Commit
    BY <1>9, ConnectionSteps, ConnectionValues
       DEF Commit, Return, IInv, TypeOK, ConnectionAt, AnswerAt, None
  <1>10. CASE CommitFails
    BY <1>10, ConnectionSteps, AttemptErrorInv DEF CommitFails, IInv, ConnectionAt
  <1>11. CASE CloseStore
    BY <1>11, ConnectionValues
       DEF CloseStore, IInv, TypeOK, ConnectionAt, AnswerAt, Connection
  <1>12. CASE Crash
    <2>1. conn.durable = {}
      BY <1>12, ConnectionValues DEF Crash, IInv, TypeOK, ConnectionAt, Parts
    <2> QED
      BY <1>12, <2>1, ConnectionValues
         DEF Crash, IInv, TypeOK, ConnectionAt, AnswerAt
  <1>13. CASE Trip
    BY <1>13 DEF Trip, IInv, TypeOK, ConnectionAt, AnswerAt
  <1>14. CASE UNCHANGED vars
    BY <1>14 DEF vars, IInv, TypeOK, ConnectionAt, AnswerAt
  <1> QED
    BY <1>1, <1>2, <1>3, <1>4, <1>5, <1>6, <1>7, <1>8, <1>9, <1>10, <1>11, <1>12, <1>13,
       <1>14 DEF Next, Statement, Ended

\* Every reachable state satisfies the invariant.
THEOREM Invariance == Spec => []IInv
  BY InitInv, StepInv, PTL DEF Spec

-----------------------------------------------------------------------------
(* What it implies.                                                        *)

\* The types of persist_report_cancellable, its retry counter included.
THEOREM TypeCorrect == Spec => []TypeOK
  <1>1. IInv => TypeOK
    BY DEF IInv
  <1> QED BY <1>1, Invariance, PTL

\* No part of a report ever becomes durable without the rest, for every retry budget
\* and whatever a failed RELEASE leaves behind.
THEOREM ReportIsAtomic == Spec => []AllOrNothing
  <1>1. IInv => AllOrNothing
    BY ConnectionValues DEF IInv, TypeOK, ConnectionAt, AnswerAt, AllOrNothing, Parts
  <1> QED BY <1>1, Invariance, PTL

\* Ok is returned exactly when the report is durable.
THEOREM AnswerIsTrue == Spec => []AnswerMatchesDatabase
  <1>1. IInv => AnswerMatchesDatabase
    BY DEF IInv, AnswerAt, AnswerMatchesDatabase, Parts
  <1> QED BY <1>1, Invariance, PTL

-----------------------------------------------------------------------------
(* A stop before the last checkpoint.                                      *)

\* Closed under every step: from here the operation can only answer with an error.
StoppedForGood ==
    /\ tripped
    /\ pc # "release"
    /\ pc \in {"returned", "closed"} => result # "Ok"

\* A stop raised before the last checkpoint of persist_report_once keeps the report
\* out of the database for ever.
THEOREM StopIsRespected == Spec => StopKeepsReportOut
  <1>1. IInv /\ tripped /\ BeforeLastCheckpoint => StoppedForGood
    BY DEF BeforeLastCheckpoint, StoppedForGood
  <1>2. IInv /\ StoppedForGood /\ [Next]_vars => StoppedForGood'
    <2> SUFFICES ASSUME IInv, StoppedForGood, [Next]_vars PROVE StoppedForGood'
      OBVIOUS
    <2>1. CASE OpenFails
      BY <2>1 DEF OpenFails, StoppedForGood, Return, StatementErrors
    <2>2. CASE open
      BY <2>2 DEF open, StoppedForGood
    <2>3. CASE BeginAttempt
      BY <2>3 DEF BeginAttempt, StoppedForGood, Return
    <2>4. CASE SavepointFails
      BY <2>4 DEF SavepointFails, StoppedForGood
    <2>5. CASE InsertRun
      BY <2>5 DEF InsertRun, AttemptError, StoppedForGood, Return
    <2>6. CASE InsertPart
      <3>1. tripped' = tripped
        BY <2>6 DEF InsertPart
      <3>2. CASE tripped /\ pc \in {"segments", "events"}
        BY <2>6, <3>1, <3>2 DEF InsertPart, StoppedForGood, Return
      <3>3. CASE ~(tripped /\ pc \in {"segments", "events"})
        BY <2>6, <3>1, <3>3 DEF InsertPart, Following, StoppedForGood
      <3> QED BY <3>2, <3>3
    <2>7. CASE InsertFails
      <3>1. PICK e \in StatementErrors : AttemptError(e, rollback_savepoint(conn))
        BY <2>7 DEF InsertFails
      <3> QED
        BY <2>7, <3>1 DEF InsertFails, AttemptError, StoppedForGood, Return, StatementErrors
    <2>8. CASE CheckpointBeforeCommit
      BY <2>8 DEF CheckpointBeforeCommit, StoppedForGood, Return
    <2>9. CASE Commit \/ CommitFails
      BY <2>9 DEF Commit, CommitFails, StoppedForGood
    <2>10. CASE CloseStore
      BY <2>10 DEF CloseStore, StoppedForGood
    <2>11. CASE Crash
      BY <2>11 DEF Crash, StoppedForGood
    <2>12. CASE Trip
      BY <2>12 DEF Trip, StoppedForGood
    <2>13. CASE UNCHANGED vars
      BY <2>13 DEF vars, StoppedForGood
    <2> QED
      BY <2>1, <2>2, <2>3, <2>4, <2>5, <2>6, <2>7, <2>8, <2>9, <2>10, <2>11, <2>12, <2>13
         DEF Next, Statement, Ended
  <1>3. IInv /\ StoppedForGood => conn.durable = {}
    BY ConnectionValues DEF IInv, TypeOK, ConnectionAt, AnswerAt, StoppedForGood, Parts
  <1> QED
    BY <1>1, <1>2, <1>3, Invariance, PTL DEF Spec, StopKeepsReportOut
=============================================================================
