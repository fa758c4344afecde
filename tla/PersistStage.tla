---------------------------- MODULE PersistStage ----------------------------
(***************************************************************************)
(* The stages of a run under supervision.  The operation of a stage is     *)
(* either the opaque one of StageSupervisor or, for the persist stage, the *)
(* statements of ReportPersist: run_pipeline_body in src/src/              *)
(* orchestrator.rs calls run_stage_with_budget("persist", ...) with a      *)
(* stage_token, so the commit of the report races the stage budget, Ctrl+C *)
(* and RunCancel.                                                          *)
(***************************************************************************)
EXTENDS StageSupervisor

CONSTANTS ReleaseFailures, PERSIST_BUSY_RETRY_ATTEMPTS

\* As in Savepoints.
ASSUME StoreAssumption ==
    /\ ReleaseFailures \subseteq {"aborts", "keeps_open"}
    /\ PERSIST_BUSY_RETRY_ATTEMPTS \in Nat

VARIABLES
    job,                            \* "persist", or "other" for the other stages
    conn, step, attempt, answer     \* the operation of the persist stage

\* The operation's checkpoints read the stage token.
R == INSTANCE ReportPersist WITH
        tripped <- worker # "none" /\ Tripped(token),
        pc <- step, result <- answer

operation == <<job, conn, step, attempt, answer>>
stageVars == <<vars, operation>>

StageInit ==
    /\ Init
    /\ job \in {"persist", "other"}
    /\ job = "persist" => mode = "budget"
    /\ conn = R!NewConnection({})
    /\ step = "open"
    /\ attempt = 0
    /\ answer = "None"

\* The supervising thread and the environment do not touch the store.
Supervise == Supervisor /\ UNCHANGED operation
Environment == (RequestStop \/ Tick) /\ UNCHANGED operation

\* The worker thread of a stage other than persist.
OtherStage == job = "other" /\ Worker /\ UNCHANGED operation

\* The worker executes one statement of the persist operation.
Work ==
    /\ job = "persist"
    /\ worker = "running"
    /\ UNCHANGED <<vars, job>>
    /\ R!Statement

\* The closure returns: the store is dropped and the answer goes into the channel.
\* For a cancellation the reason in force at that moment is named.
Answer ==
    /\ job = "persist"
    /\ worker = "running"
    /\ \/ answer = "Ok" /\ OperationSucceeds
       \/ answer = "Cancelled" /\ OperationCancelled
       \/ answer \in {"Busy", "Storage"} /\ OperationFails
    /\ R!CloseStore
    /\ job' = job

\* The operation panics between two statements; the unwinding drops the store.
Panic ==
    /\ job = "persist"
    /\ step # "returned"
    /\ OperationPanics
    /\ R!Crash
    /\ job' = job

Exit == job = "persist" /\ WorkerExits /\ UNCHANGED operation

StageReturned == Returned /\ UNCHANGED operation

StageNext ==
    Supervise \/ Environment \/ OtherStage \/ Work \/ Answer \/ Panic \/ Exit \/ StageReturned

\* As in the components: both threads are scheduled, statements return and a running
\* operation keeps reaching its checkpoints.
StageFairness ==
    /\ WF_stageVars(Supervise)
    /\ WF_stageVars(Work \/ Answer)
    /\ WF_stageVars(job = "other" /\ OperationCancelled /\ UNCHANGED operation)
    /\ WF_stageVars(Fence /\ UNCHANGED operation)
    /\ WF_stageVars(WorkerExits /\ UNCHANGED operation)
    /\ WF_stageVars(Tick /\ UNCHANGED operation)

StageSpec == StageInit /\ [][StageNext]_stageVars /\ StageFairness

-----------------------------------------------------------------------------
(* Properties.                                                             *)

\* The operation of the persist stage is the one modelled in ReportPersist, with the
\* stage token deciding when a checkpoint fails: once it fails it keeps failing.
PersistOperation == R!Spec

\* What the caller of the persist stage is told about the row is true where it is
\* definite: success means the whole report is durable, a cancellation that nothing is.
TruthfulReport ==
    sup = "returned" /\ job = "persist" =>
        /\ result = "Ok" => conn.durable = R!Parts
        /\ result \in CancelledErrors => conn.durable = {}

=============================================================================
