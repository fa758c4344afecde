--------------------------- MODULE SpeculativeRun ---------------------------
(***************************************************************************)
(* A run whose backend stage may be speculative: Pipeline with, inside the *)
(* worker of that stage, the streaming pipeline of Speculation, as         *)
(* execute_backend_speculative of src/src/orchestrator.rs composes them.   *)
(*                                                                         *)
(* The worker asks its token before every window. The stage ends when the  *)
(* worker has been joined, whatever it ends with, and the streaming        *)
(* pipeline, which belongs to the worker, goes with it.                    *)
(***************************************************************************)
EXTENDS Pipeline, Speculation

CONSTANT SpeechLists    \* the stage lists that get audio; any other gets an empty waveform

\* Bound: the courses of a run whose waveform holds audio.  The others differ from them in
\* nothing that the streaming pipeline reads.
HasAudio ==
    /\ config \in SpeechLists
    /\ wavHash # None
    /\ \A i \in DOMAIN log : log[i].code # "threads_clamped"

\* The duration and sizes where no streaming pipeline exists.
Nothing == [total |-> 0, overlap |-> 0, initial |-> 0, adaptive |-> FALSE]

\* A streaming pipeline that has done nothing, or none.
Fresh(g, at) ==
    /\ geometry' = g
    /\ walk' = WalkAt(at, 0, 0)
    /\ size' = g.initial
    /\ windows' = << >>
    /\ controller' = [current |-> g.initial, corrections |-> 0, count |-> 0, zeros |-> 0]
    /\ lanes' = Idle
    /\ nextSeq' = 0
    /\ tracker' = [partials |-> << >>, window_to_seq |-> [w \in {} |-> 0], stats |-> NoCounts]
    /\ events' = << >>

Drop == Fresh(Nothing, "absent")

RunInit ==
    /\ Init
    /\ geometry = Nothing
    /\ walk = WalkAt("absent", 0, 0)
    /\ size = 0
    /\ windows = << >>
    /\ controller = [current |-> 0, corrections |-> 0, count |-> 0, zeros |-> 0]
    /\ lanes = Idle
    /\ nextSeq = 0
    /\ tracker = [partials |-> << >>, window_to_seq |-> [w \in {} |-> 0], stats |-> NoCounts]
    /\ events = << >>

Speculating == Running("backend") /\ request.speculative

\* The worker makes its streaming pipeline for the request and the waveform.
NewPipeline ==
    /\ Speculating
    /\ walk.at = "absent"
    /\ \E g \in {h \in Geometries : h.total = 0 \/ HasAudio} : Fresh(g, "loop")
    /\ UNCHANGED vars

\* A step of the streaming pipeline. Once a stop was raised the checkpoint before a window
\* fails; lanes already at work find out for themselves.
WorkerStep ==
    /\ Speculating
    /\ LanesNext
    /\ walk.at = "loop" /\ tripped => walk'.at = "failed"
    /\ UNCHANGED vars

\* The stage fails: before the worker got to its streaming pipeline, with that pipeline's
\* error, or for a reason of the supervisor's once the worker has been joined.
SpeculationFails ==
    /\ Speculating
    /\ walk.at = "absent" \/ Ended
    /\ StageFails
    /\ Drop

\* Every window has its verdict and the merged segments are checked.
SpeculationEnds ==
    /\ Speculating
    /\ walk.at = "done"
    /\ BackendContractViolation \/ execute_backend
    /\ Drop

RunNext ==
    \/ ~Speculating /\ Next /\ UNCHANGED laneVars
    \/ Speculating /\ Trip /\ UNCHANGED laneVars
    \/ NewPipeline \/ WorkerStep \/ SpeculationFails \/ SpeculationEnds

RunSpec == RunInit /\ [][RunNext]_<<vars, laneVars>>

=============================================================================
