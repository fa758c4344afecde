--------------------------- MODULE BoundedCommand ---------------------------
(***************************************************************************)
(* run_command_with_timeout and run_command_cancellable of                 *)
(* src/src/process.rs: a child and its descendants write to two pipes, one *)
(* reader thread per pipe captures a bounded amount, and the caller polls  *)
(* the token, the time limit, the capture limit and the child's exit, each *)
(* at its own moment; whatever ends the poll, it cleans the process tree   *)
(* up, stops and joins both readers, and judges what they captured.        *)
(*                                                                         *)
(* The cleanup is that of module ProcessTree: certified, it may leave a    *)
(* descendant that was forked behind its back; failed, it may leave any.   *)
(***************************************************************************)
EXTENDS Integers, Sequences

CONSTANTS
    Kinds,      \* the callers to check: "timeout", "cancellable"
    Limit,      \* MAX_CAPTURED_OUTPUT_BYTES
    MaxWrites   \* bound on what is written to a pipe

ASSUME BoundsAssumption ==
    /\ Kinds \subseteq {"timeout", "cancellable"}
    /\ {Limit, MaxWrites} \subseteq Nat

VARIABLES
    kind,       \* which of the two callers
    alive,      \* processes that hold the pipes
    status,     \* the child's exit status
    tripped,    \* the token's checkpoint fails, or the caller's predicate holds
    expired,    \* the time limit has passed
    written,    \* bytes written to each pipe
    pipe,       \* bytes in each pipe
    reader,     \* the reader of each pipe: whether it runs, what it captured and noticed
    caller,     \* where the caller is, and in which of its poll's checks
    cause,      \* what ended the poll
    certified,  \* the answer of the cleanup
    result      \* what the caller returned

vars == <<kind, alive, status, tripped, expired, written, pipe, reader, caller, cause, certified, result>>

Streams == {"stdout", "stderr"}

\* The checks of one poll, in the order each caller makes them.
Checks == [timeout |-> <<"exit", "limit", "time">>,
           cancellable |-> <<"token", "time", "limit", "exit", "observer">>]

CallerAt(at, check) == [at |-> at, check |-> check]

Init ==
    /\ kind \in Kinds
    /\ alive = {"child"} /\ status = "none"
    /\ tripped = FALSE /\ expired = FALSE
    /\ written = [s \in Streams |-> 0] /\ pipe = [s \in Streams |-> 0]
    /\ reader = [s \in Streams |-> [runs |-> TRUE, got |-> 0, over |-> FALSE, stop |-> FALSE,
                                    grace |-> FALSE, incomplete |-> FALSE]]
    /\ caller = CallerAt("poll", 1)
    /\ cause = "none" /\ certified = FALSE /\ result = "none"

-----------------------------------------------------------------------------
(* The processes and the time.                                             *)

Fork ==
    /\ "child" \in alive /\ "descendant" \notin alive
    /\ alive' = alive \cup {"descendant"}
    /\ UNCHANGED <<kind, status, tripped, expired, written, pipe, reader, caller, cause, certified, result>>

Write(s) ==
    /\ alive # {} /\ written[s] < MaxWrites
    /\ written' = [written EXCEPT ![s] = @ + 1]
    /\ pipe' = [pipe EXCEPT ![s] = @ + 1]
    /\ UNCHANGED <<kind, alive, status, tripped, expired, reader, caller, cause, certified, result>>

Exit(p, code) ==
    /\ p \in alive
    /\ alive' = alive \ {p}
    /\ status' = IF p = "child" THEN code ELSE status
    /\ UNCHANGED <<kind, tripped, expired, written, pipe, reader, caller, cause, certified, result>>

Trip ==
    /\ kind = "cancellable" /\ ~tripped
    /\ tripped' = TRUE
    /\ UNCHANGED <<kind, alive, status, expired, written, pipe, reader, caller, cause, certified, result>>

Expire ==
    /\ ~expired
    /\ expired' = TRUE
    /\ UNCHANGED <<kind, alive, status, tripped, written, pipe, reader, caller, cause, certified, result>>

-----------------------------------------------------------------------------
(* A reader: read_pipe_with_limit_until_stopped_with_grace.                *)

\* A read that returns a byte: kept up to the limit, then only noticed.
Retained(r, runs, incomplete) ==
    [runs |-> runs, got |-> IF r.got < Limit THEN r.got + 1 ELSE r.got,
     over |-> r.over \/ r.got >= Limit, stop |-> r.stop, grace |-> r.grace,
     incomplete |-> incomplete]

\* Mutant of Read: the reader stops as soon as it is told to.
ReadUntilStop(s) ==
    /\ reader[s].runs /\ pipe[s] > 0
    /\ pipe' = [pipe EXCEPT ![s] = @ - 1]
    /\ reader' = [reader EXCEPT ![s] = Retained(@, ~@.stop, @.incomplete)]
    /\ UNCHANGED <<kind, alive, status, tripped, expired, written, caller, cause, certified, result>>

\* When its grace after a stop is over, the reader gives up after the read.
Read(s) ==
    /\ reader[s].runs /\ pipe[s] > 0
    /\ pipe' = [pipe EXCEPT ![s] = @ - 1]
    /\ reader' = [reader EXCEPT ![s] = Retained(@, ~@.grace, @.grace)]
    /\ UNCHANGED <<kind, alive, status, tripped, expired, written, caller, cause, certified, result>>

\* The end of the pipe: empty, and nobody holds it.
Eof(s) ==
    /\ reader[s].runs /\ pipe[s] = 0 /\ alive = {}
    /\ reader' = [reader EXCEPT ![s].runs = FALSE]
    /\ UNCHANGED <<kind, alive, status, tripped, expired, written, pipe, caller, cause, certified, result>>

\* Mutant of GiveUp: the reader waits for the end of the pipe.
NeverGiveUp(s) ==
    /\ reader[s].runs /\ reader[s].grace /\ pipe[s] = 0 /\ alive = {}
    /\ reader' = [reader EXCEPT ![s].runs = FALSE]
    /\ UNCHANGED <<kind, alive, status, tripped, expired, written, pipe, caller, cause, certified, result>>

\* WouldBlock after the grace.
GiveUp(s) ==
    /\ reader[s].runs /\ reader[s].grace /\ pipe[s] = 0 /\ alive # {}
    /\ reader' = [reader EXCEPT ![s].runs = FALSE, ![s].incomplete = TRUE]
    /\ UNCHANGED <<kind, alive, status, tripped, expired, written, pipe, caller, cause, certified, result>>

\* PIPE_CAPTURE_STOP_DRAIN_GRACE has passed since the reader noticed the stop.
GraceEnds(s) ==
    /\ reader[s].runs /\ reader[s].stop /\ ~reader[s].grace
    /\ reader' = [reader EXCEPT ![s].grace = TRUE]
    /\ UNCHANGED <<kind, alive, status, tripped, expired, written, pipe, caller, cause, certified, result>>

-----------------------------------------------------------------------------
(* The caller.                                                             *)

\* What a check finds, if anything.
Finds(check) ==
    CASE check = "token" -> tripped
      [] check = "time" -> expired
      [] check = "limit" -> \E s \in Streams : reader[s].over
      [] check = "exit" -> status # "none"
      [] check = "observer" -> FALSE

\* One check of the poll; after the last, a sleep and the first again.
Check ==
    LET checks == Checks[kind]
        check == checks[caller.check]
    IN  /\ caller.at = "poll"
        /\ IF Finds(check)
           THEN cause' = check /\ caller' = CallerAt("cleanup", caller.check)
           ELSE cause' = cause /\ caller' = CallerAt("poll", (caller.check % Len(checks)) + 1)
        /\ UNCHANGED <<kind, alive, status, tripped, expired, written, pipe, reader, certified, result>>

\* The observer of a cancellable command, or the wait itself, reports an error.
CheckFails ==
    /\ caller.at = "poll" /\ Checks[kind][caller.check] \in {"exit", "observer"}
    /\ cause' = "error" /\ caller' = CallerAt("cleanup", caller.check)
    /\ UNCHANGED <<kind, alive, status, tripped, expired, written, pipe, reader, certified, result>>

\* terminate_descendant_process_tree; what may be left is the descendant.
Cleanup(ok, left) ==
    /\ caller.at = "cleanup"
    /\ alive' = left
    /\ status' = IF status = "none" THEN "killed" ELSE status
    /\ certified' = ok
    /\ caller' = CallerAt("finish stdout", caller.check)
    /\ UNCHANGED <<kind, tripped, expired, written, pipe, reader, cause, result>>

\* finish of a reader, first half: the stop.
Finish(s) ==
    /\ caller.at = IF s = "stdout" THEN "finish stdout" ELSE "finish stderr"
    /\ reader' = [reader EXCEPT ![s].stop = TRUE]
    /\ caller' = CallerAt(IF s = "stdout" THEN "join stdout" ELSE "join stderr", caller.check)
    /\ UNCHANGED <<kind, alive, status, tripped, expired, written, pipe, cause, certified, result>>

\* Its second half: the capture is received and the thread joined.
Join(s) ==
    /\ caller.at = IF s = "stdout" THEN "join stdout" ELSE "join stderr"
    /\ ~reader[s].runs
    /\ caller' = CallerAt(IF s = "stdout" THEN "finish stderr" ELSE "judge", caller.check)
    /\ UNCHANGED <<kind, alive, status, tripped, expired, written, pipe, reader, cause, certified, result>>

\* merge_process_tree_cleanup_result, validate_captured_command_output.
Outcome ==
    CASE ~certified -> "contract"
      [] certified /\ cause # "exit" -> cause
      [] certified /\ cause = "exit" ->
            IF \E s \in Streams : reader[s].incomplete \/ reader[s].over THEN "contract"
            ELSE IF status = "success" THEN "ok" ELSE "failed"

Judge ==
    /\ caller.at = "judge"
    /\ result' = Outcome
    /\ caller' = CallerAt("done", caller.check)
    /\ UNCHANGED <<kind, alive, status, tripped, expired, written, pipe, reader, cause, certified>>

Caller ==
    \/ Check
    \/ \E ok \in BOOLEAN, left \in SUBSET (alive \cap {"descendant"}) : Cleanup(ok, left)
    \/ \E s \in Streams : Finish(s) \/ Join(s)
    \/ Judge

Readers == \E s \in Streams : Read(s) \/ Eof(s) \/ GiveUp(s)

Next ==
    \/ Caller \/ CheckFails \/ Readers
    \/ \E s \in Streams : Write(s) \/ GraceEnds(s)
    \/ Fork \/ Trip \/ Expire
    \/ \E p \in alive, code \in {"success", "failure"} : Exit(p, code)

\* Threads run and time passes: the limit, and the grace of each reader.
Spec ==
    /\ Init /\ [][Next]_vars
    /\ WF_vars(Caller) /\ WF_vars(Expire)
    /\ \A s \in Streams : WF_vars(Read(s) \/ Eof(s) \/ GiveUp(s)) /\ WF_vars(GraceEnds(s))

-----------------------------------------------------------------------------

\* Success means all the output: every byte anyone in the tree wrote was captured, and nobody
\* is left who could write more (validate_captured_command_output).
OkMeansAllOutput ==
    result = "ok" => alive = {} /\ \A s \in Streams : reader[s].got = written[s]

\* A call with a time limit returns, also while a descendant that outlived the cleanup holds
\* the pipes (the drain grace).
Returns == <>(result # "none")

=============================================================================
