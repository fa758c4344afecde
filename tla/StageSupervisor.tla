-------------------------- MODULE StageSupervisor --------------------------
(***************************************************************************)
(* One supervised pipeline stage: src/src/orchestrator.rs runs the work of *)
(* a stage on a thread of its own, and the calling thread (the supervisor) *)
(* waits for it on a channel with a time-out, forwards the events the work *)
(* publishes, joins the thread and returns one result.                     *)
(*                                                                         *)
(* Two modes exist.  "budget" is run_stage_with_budget (ingest, normalize, *)
(* vad, acceleration, align, punctuate, diarize, persist): the operation   *)
(* holds a token made by stage_token and the supervisor reports            *)
(* StageTimeout.  "token" is run_stage_with_token_budget[_streaming]       *)
(* (backend, speculative backend, separate): the operation holds a token   *)
(* made by named_stage_token, the supervisor's time-out is what is left of *)
(* it, and a successful value is fenced by one more checkpoint.            *)
(*                                                                         *)
(* Time is counted in milliseconds from the creation of the PipelineCx.    *)
(* The wall clock the tokens read and the monotonic clock the supervisor   *)
(* reads are one clock here; how far it moves between two steps of the two *)
(* threads is arbitrary.                                                   *)
(***************************************************************************)
EXTENDS Integers, Sequences

CONSTANTS
    Modes,              \* the modes to explore, a subset of {"budget","token"}
    Budgets,            \* stage budgets in milliseconds
    PipelineDeadlines,  \* deadlines of the whole run; NoDeadline is "no timeout_ms"
    NoDeadline,         \* stands for Option::None
    MaxEvents,          \* bound on the events the operation publishes
    SetupMax,           \* bound on the clock while the stage is being set up
    MaxTime             \* bound on the clock

ASSUME ModesAssumption == Modes \subseteq {"budget", "token"}
ASSUME TimeAssumption ==
    /\ Budgets \subseteq Nat
    /\ NoDeadline \notin Nat
    /\ PipelineDeadlines \subseteq Nat \union {NoDeadline}
    /\ MaxEvents \in Nat
    /\ SetupMax \in Nat
    /\ MaxTime \in Nat

VARIABLES
    now,        \* the clock
    mode,       \* how this stage is supervised
    budget,     \* budget_ms
    pipelineDeadline,   \* PipelineCx.deadline
    stop,       \* stop requests raised so far: Ctrl+C, RunCancel::cancel
    stageDeadline,      \* now + budget when the token was made
    token,      \* the CancellationToken of the stage
    timeout,    \* the time-out handed to run_stage_with_timeout_streaming
    sup,        \* control point of the supervising thread
    recvDeadline,       \* its receive deadline
    timeoutError,       \* what timeout_error() returned
    worker,     \* control point of the worker thread
    chan,       \* the mpsc channel
    published,  \* how many events the operation has published
    forwarded,  \* the events handed to on_event, in order
    result      \* what the supervising call returns

config == <<mode, budget, pipelineDeadline>>
supVars == <<sup, timeout, recvDeadline, timeoutError, forwarded, result>>
vars == <<now, config, stop, stageDeadline, token, supVars, worker, chan, published>>

-----------------------------------------------------------------------------
(* Results.  A Cancelled error carries the reason its message gives.       *)

CancelledErrors == {"CtrlC", "CancelledByCaller", "PipelineDeadline"}
OperationErrors == {"OperationFailed", "CommandTimedOut"}
Errors == CancelledErrors \union OperationErrors
            \union {"StageTimeout", "BackendUnavailable", "Io"}
Results == Errors \union {"Ok"}
None == "None"

-----------------------------------------------------------------------------
(* Tokens.                                                                 *)

Before(d, e) == d # NoDeadline /\ (e = NoDeadline \/ d < e)

\* budget mode: the earlier deadline, always reported as a cancellation.
stage_token(pd, sd) ==
    [deadline |-> IF Before(pd, sd) THEN pd ELSE sd, failure |-> "PipelineDeadline"]

\* Mutant of named_stage_token: a tie goes to the pipeline.
NamedTokenTieToPipeline(pd, sd) ==
    IF Before(sd, pd)
    THEN [deadline |-> sd, failure |-> "StageTimeout"]
    ELSE [deadline |-> pd, failure |-> "PipelineDeadline"]

\* token mode: the earlier deadline and its own error; a tie is a stage time-out.
named_stage_token(pd, sd) ==
    IF Before(pd, sd)
    THEN [deadline |-> pd, failure |-> "PipelineDeadline"]
    ELSE [deadline |-> sd, failure |-> "StageTimeout"]

\* Mutant of expiration_error: an expired deadline is looked at first.
DeadlineBeforeStop(t) ==
    IF now >= t.deadline THEN t.failure
    ELSE IF "CtrlC" \in stop THEN "CtrlC" ELSE "CancelledByCaller"

expiration_error(t) ==
    IF "CtrlC" \in stop THEN "CtrlC"
    ELSE IF "CancelledByCaller" \in stop THEN "CancelledByCaller"
    ELSE t.failure

\* Mutant of Tripped: the checkpoint looks only at stop requests.
TrippedByStopOnly(t) == stop # {}

\* checkpoint() returns Err.
Tripped(t) == stop # {} \/ now >= t.deadline

MaxOf(a, b) == IF a >= b THEN a ELSE b

\* What is left of a token; never negative.
remaining(t) == MaxOf(t.deadline - now, 0)

budget_duration(b) == MaxOf(b, 1)

Event(n) == [kind |-> "Event", n |-> n, result |-> None]
Finished(r) == [kind |-> "Finished", n |-> 0, result |-> r]

-----------------------------------------------------------------------------
Init ==
    /\ now = 0
    /\ mode \in Modes
    /\ budget \in Budgets
    /\ pipelineDeadline \in PipelineDeadlines
    /\ stop = {}
    /\ stageDeadline = NoDeadline
    /\ token = [deadline |-> NoDeadline, failure |-> None]
    /\ timeout = 0
    /\ sup = "token"
    /\ recvDeadline = NoDeadline
    /\ timeoutError = None
    /\ worker = "none"
    /\ chan = <<>>
    /\ published = 0
    /\ forwarded = <<>>
    /\ result = None

-----------------------------------------------------------------------------
(* The supervising thread.                                                 *)

\* The stage makes its token: both deadlines are taken from the clock now.
MakeToken ==
    /\ sup = "token"
    /\ stageDeadline' = now + budget
    /\ token' = IF mode = "budget"
                THEN stage_token(pipelineDeadline, stageDeadline')
                ELSE named_stage_token(pipelineDeadline, stageDeadline')
    /\ sup' = "timeout"
    /\ UNCHANGED <<now, config, stop, timeout, recvDeadline, timeoutError, forwarded,
                   result, worker, chan, published>>

\* The time-out is a duration, computed before the worker is spawned.
ComputeTimeout ==
    /\ sup = "timeout"
    /\ timeout' = IF mode = "budget" THEN budget_duration(budget) ELSE remaining(token)
    /\ sup' = "spawn"
    /\ UNCHANGED <<now, config, stop, stageDeadline, token, recvDeadline, timeoutError,
                   forwarded, result, worker, chan, published>>

Spawn ==
    /\ sup = "spawn"
    /\ worker' = "running"
    /\ sup' = "arm"
    /\ UNCHANGED <<now, config, stop, stageDeadline, token, timeout, recvDeadline,
                   timeoutError, forwarded, result, chan, published>>

\* Builder::spawn failed: map_err(FwError::Io)?
SpawnFails ==
    /\ sup = "spawn"
    /\ sup' = "returned"
    /\ result' = "Io"
    /\ UNCHANGED <<now, config, stop, stageDeadline, token, timeout, recvDeadline,
                   timeoutError, forwarded, worker, chan, published>>

\* The receive deadline is counted from after the spawn.
Arm ==
    /\ sup = "arm"
    /\ recvDeadline' = now + timeout
    /\ sup' = "recv"
    /\ UNCHANGED <<now, config, stop, stageDeadline, token, timeout, timeoutError,
                   forwarded, result, worker, chan, published>>

\* recv_timeout hands over a ready message even when the deadline has passed.
RecvEvent ==
    /\ sup = "recv"
    /\ chan # <<>>
    /\ Head(chan).kind = "Event"
    /\ forwarded' = Append(forwarded, Head(chan).n)
    /\ chan' = Tail(chan)
    /\ UNCHANGED <<now, config, stop, stageDeadline, token, sup, timeout, recvDeadline,
                   timeoutError, result, worker, published>>

RecvFinished ==
    /\ sup = "recv"
    /\ chan # <<>>
    /\ Head(chan).kind = "Finished"
    /\ result' = Head(chan).result
    /\ chan' = Tail(chan)
    /\ sup' = "join_result"
    /\ UNCHANGED <<now, config, stop, stageDeadline, token, timeout, recvDeadline,
                   timeoutError, forwarded, worker, published>>

\* Mutant of RecvTimeout: the token's own error in both modes.
RecvTimeoutNamesToken ==
    /\ sup = "recv"
    /\ chan = <<>>
    /\ worker \in {"running", "fence"}
    /\ now >= recvDeadline
    /\ timeoutError' = expiration_error(token)
    /\ sup' = "join_timeout"
    /\ UNCHANGED <<now, config, stop, stageDeadline, token, timeout, recvDeadline,
                   forwarded, result, worker, chan, published>>

\* The channel is empty, a sender is alive and the deadline has passed.  The
\* error is evaluated before the join.
RecvTimeout ==
    /\ sup = "recv"
    /\ chan = <<>>
    /\ worker \in {"running", "fence"}
    /\ now >= recvDeadline
    /\ timeoutError' = IF mode = "budget" THEN "StageTimeout" ELSE expiration_error(token)
    /\ sup' = "join_timeout"
    /\ UNCHANGED <<now, config, stop, stageDeadline, token, timeout, recvDeadline,
                   forwarded, result, worker, chan, published>>

\* Every sender was dropped without a Finished message: the operation panicked.
RecvDisconnected ==
    /\ sup = "recv"
    /\ chan = <<>>
    /\ worker = "panicked"
    /\ result' = "BackendUnavailable"
    /\ sup' = "returned"
    /\ UNCHANGED <<now, config, stop, stageDeadline, token, timeout, recvDeadline,
                   timeoutError, forwarded, worker, chan, published>>

WorkerGone == worker \in {"exited", "panicked"}

\* join after a Finished message; a panic after the send replaces the result.
JoinAfterResult ==
    /\ sup = "join_result"
    /\ WorkerGone
    /\ result' = IF worker = "panicked" THEN "BackendUnavailable" ELSE result
    /\ sup' = "returned"
    /\ UNCHANGED <<now, config, stop, stageDeadline, token, timeout, recvDeadline,
                   timeoutError, forwarded, worker, chan, published>>

\* Mutant of JoinAfterTimeout: the worker is detached instead of joined.
DetachAfterTimeout ==
    /\ sup = "join_timeout"
    /\ sup' = "drain"
    /\ UNCHANGED <<now, config, stop, stageDeadline, token, timeout, recvDeadline,
                   timeoutError, forwarded, result, worker, chan, published>>

\* join after the time-out, whatever the worker ended with.
JoinAfterTimeout ==
    /\ sup = "join_timeout"
    /\ WorkerGone
    /\ sup' = "drain"
    /\ UNCHANGED <<now, config, stop, stageDeadline, token, timeout, recvDeadline,
                   timeoutError, forwarded, result, worker, chan, published>>

\* Mutant of DrainOne: what is left in the channel is thrown away.
DrainDiscards ==
    /\ sup = "drain"
    /\ chan # <<>>
    /\ chan' = Tail(chan)
    /\ UNCHANGED <<now, config, stop, stageDeadline, token, sup, timeout, recvDeadline,
                   timeoutError, forwarded, result, worker, published>>

\* try_iter after the join: events are forwarded, a late Finished is dropped.
DrainOne ==
    /\ sup = "drain"
    /\ chan # <<>>
    /\ forwarded' = IF Head(chan).kind = "Event"
                    THEN Append(forwarded, Head(chan).n) ELSE forwarded
    /\ chan' = Tail(chan)
    /\ UNCHANGED <<now, config, stop, stageDeadline, token, sup, timeout, recvDeadline,
                   timeoutError, result, worker, published>>

DrainEnd ==
    /\ sup = "drain"
    /\ chan = <<>>
    /\ result' = timeoutError
    /\ sup' = "returned"
    /\ UNCHANGED <<now, config, stop, stageDeadline, token, timeout, recvDeadline,
                   timeoutError, forwarded, worker, chan, published>>

-----------------------------------------------------------------------------
(* The worker thread.                                                      *)

Send(m) == chan' = Append(chan, m)

WorkerUnchanged ==
    UNCHANGED <<now, config, stop, stageDeadline, token, supVars>>

\* The streaming operation publishes one event.
Publish ==
    /\ worker = "running"
    /\ mode = "token"
    /\ published < MaxEvents
    /\ published' = published + 1
    /\ Send(Event(published + 1))
    /\ worker' = worker
    /\ WorkerUnchanged

\* A checkpoint inside the operation fails and its error is the outcome.
OperationCancelled ==
    /\ worker = "running"
    /\ Tripped(token)
    /\ Send(Finished(expiration_error(token)))
    /\ worker' = "sent"
    /\ published' = published
    /\ WorkerUnchanged

\* The operation fails for a reason of its own.
OperationFails ==
    /\ worker = "running"
    /\ \E e \in OperationErrors : Send(Finished(e))
    /\ worker' = "sent"
    /\ published' = published
    /\ WorkerUnchanged

\* The operation has a value: budget mode sends it, token mode fences it first.
OperationSucceeds ==
    /\ worker = "running"
    /\ \/ /\ mode = "budget"
          /\ Send(Finished("Ok"))
          /\ worker' = "sent"
       \/ /\ mode = "token"
          /\ worker' = "fence"
          /\ chan' = chan
    /\ published' = published
    /\ WorkerUnchanged

\* Mutant of Fence: the value is returned without the last checkpoint.
NoFence ==
    /\ worker = "fence"
    /\ Send(Finished("Ok"))
    /\ worker' = "sent"
    /\ published' = published
    /\ WorkerUnchanged

\* token.checkpoint()? between the value and Ok(value).
Fence ==
    /\ worker = "fence"
    /\ Send(Finished(IF Tripped(token) THEN expiration_error(token) ELSE "Ok"))
    /\ worker' = "sent"
    /\ published' = published
    /\ WorkerUnchanged

OperationPanics ==
    /\ worker = "running"
    /\ worker' = "panicked"
    /\ UNCHANGED <<chan, published>>
    /\ WorkerUnchanged

\* The thread ends after the send, normally or by a panic while it unwinds its state.
WorkerExits ==
    /\ worker = "sent"
    /\ worker' \in {"exited", "panicked"}
    /\ UNCHANGED <<chan, published>>
    /\ WorkerUnchanged

-----------------------------------------------------------------------------
(* The environment.                                                        *)

\* Mutant of RequestStop: the driver of a batch may re-arm its RunCancel.
StopIsUndone ==
    /\ \/ \E r \in {"CtrlC", "CancelledByCaller"} \ stop : stop' = stop \union {r}
       \/ stop' = stop \ {"CancelledByCaller"}
    /\ UNCHANGED <<now, config, stageDeadline, token, supVars, worker, chan, published>>

\* Ctrl+C, or RunCancel::cancel by the driver of a batch.  Neither is undone.
RequestStop ==
    /\ \E r \in {"CtrlC", "CancelledByCaller"} \ stop : stop' = stop \union {r}
    /\ UNCHANGED <<now, config, stageDeadline, token, supVars, worker, chan, published>>

Tick ==
    /\ now < MaxTime
    /\ sup \in {"token", "timeout", "spawn", "arm"} => now < SetupMax
    /\ sup # "returned"
    /\ now' = now + 1
    /\ UNCHANGED <<config, stop, stageDeadline, token, supVars, worker, chan, published>>

Supervisor ==
    \/ MakeToken \/ ComputeTimeout \/ Spawn \/ SpawnFails \/ Arm
    \/ RecvEvent \/ RecvFinished \/ RecvTimeout \/ RecvDisconnected
    \/ JoinAfterResult \/ JoinAfterTimeout \/ DrainOne \/ DrainEnd

Worker ==
    \/ Publish \/ OperationCancelled \/ OperationFails \/ OperationSucceeds
    \/ Fence \/ OperationPanics \/ WorkerExits

Returned == sup = "returned" /\ UNCHANGED vars

Next == Supervisor \/ Worker \/ RequestStop \/ Tick \/ Returned

Spec == Init /\ [][Next]_vars

-----------------------------------------------------------------------------
(* Properties.                                                             *)

\* Types of every variable of the supervised stage.
TypeOK ==
    /\ now \in Nat
    /\ mode \in {"budget", "token"}
    /\ budget \in Nat
    /\ pipelineDeadline \in Nat \union {NoDeadline}
    /\ stop \subseteq {"CtrlC", "CancelledByCaller"}
    /\ stageDeadline \in Nat \union {NoDeadline}
    /\ token \in [deadline : Nat \union {NoDeadline}, failure : Errors \union {None}]
    /\ timeout \in Nat
    /\ sup \in {"token", "timeout", "spawn", "arm", "recv", "join_result",
                "join_timeout", "drain", "returned"}
    /\ recvDeadline \in Nat \union {NoDeadline}
    /\ timeoutError \in Errors \union {None}
    /\ worker \in {"none", "running", "fence", "sent", "exited", "panicked"}
    /\ chan \in Seq([kind : {"Event", "Finished"}, n : Nat, result : Results \union {None}])
    /\ published \in Nat
    /\ forwarded \in Seq(Nat)
    /\ result \in Results \union {None}

\* When the supervising call returns, the worker thread is gone: no stage leaves
\* native work, memory or file I/O running under the next stage, on any of the
\* four return paths of run_stage_with_timeout_streaming.
Quiescent == sup = "returned" => worker \in {"none", "exited", "panicked"}

\* Every event the operation published is handed to on_event exactly once and in
\* order, and none is missing when the call returns, also when the stage timed
\* out, failed or panicked ("Events published before a timeout are still forwarded").
EventsForwarded ==
    /\ Len(forwarded) <= published
    /\ \A i \in 1 .. Len(forwarded) : forwarded[i] = i
    /\ sup = "returned" => Len(forwarded) = published

\* The supervisor joins a timed-out worker without a bound, so the worker's own
\* checkpoint must be failing by then: the receive deadline, taken from another
\* clock reading than the token's, is never the earlier one ("Stage operations
\* receive a token with the same deadline as this receiver").
TimedOutWorkerIsTold == sup = "join_timeout" /\ worker = "running" => Tripped(token)

\* In token mode the supervisor's time-out, the operation's checkpoint and the
\* fence name the same deadline: without a stop request a deadline failure is a
\* stage time-out exactly when the stage budget ended no later than the pipeline.
DeadlineFailureNamesTheDeadline ==
    sup = "returned" /\ mode = "token" /\ stop = {}
        /\ result \in {"StageTimeout", "PipelineDeadline"}
    => (result = "PipelineDeadline" <=> Before(pipelineDeadline, stageDeadline))

\* In token mode, once the token is tripped while the operation or its fence is
\* still to come, the value is never admitted, however late the supervisor is
\* scheduled and whatever is already queued.
LateValue == mode = "token" /\ worker \in {"running", "fence"} /\ Tripped(token)
LateValueNotAdmitted == [](LateValue => [](result # "Ok"))

\* In token mode a stop request outranks an expired budget: raised before the
\* operation ends and before the supervisor times out, it is never reported as a
\* stage time-out by either thread.
StoppedInTime ==
    /\ mode = "token"
    /\ stop # {}
    /\ worker \in {"running", "fence"}
    /\ sup \in {"arm", "recv"}
StopOutranksTimeout == [](StoppedInTime => [](result # "StageTimeout"))

\* A stage whose operation keeps reaching checkpoints returns, even when it never
\* finishes by itself.
ReturnsEventually == <>(sup = "returned")

=============================================================================
