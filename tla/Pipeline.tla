------------------------------ MODULE Pipeline ------------------------------
(***************************************************************************)
(* One transcription run: src/src/orchestrator.rs, run_pipeline and        *)
(* run_pipeline_body.  A caller hands over a list of stages; with_config   *)
(* validates it; the stages are skipped or executed in order on shared     *)
(* intermediate state; the report is assembled and persisted; finalizers   *)
(* run.  What a stage's worker does under its supervisor is the subject of *)
(* module StageSupervisor; here it ends with success or with one of the    *)
(* failure codes that supervisor can produce.                              *)
(*                                                                         *)
(* A stop (Ctrl+C, RunCancel, pipeline deadline) may come at any moment    *)
(* and is noticed at the checkpoints of the code.                          *)
(***************************************************************************)
EXTENDS Naturals, Sequences

CONSTANTS
    Configs,    \* the stage lists callers submit, valid or not
    Requests    \* the requests callers submit

Stages == {"ingest", "normalize", "vad", "separate", "backend", "acceleration",
           "align", "punctuate", "diarize", "persist"}

Request == [vad : BOOLEAN, diarize : BOOLEAN, stem : BOOLEAN, punctuate : BOOLEAN,
            detect_language_only : BOOLEAN, speculative : BOOLEAN, persist : BOOLEAN]

ASSUME ConfigsAssumption == Configs \subseteq Seq(Stages)
ASSUME RequestsAssumption == Requests \subseteq Request

VARIABLES
    config,     \* PipelineConfig.stages
    request,    \* the fields of TranscribeRequest that steer the control flow
    phase,      \* where run_pipeline is
    pos,        \* index of the next stage of the loop
    tripped,    \* pcx.checkpoint() would fail: a stop was raised or the deadline passed
    input,      \* PipelineIntermediate.input_path
    wav,        \* .normalized_wav: which waveform
    wavHash,    \* .normalized_input_sha256: of which waveform
    regions,    \* .vad_regions and .native_audio_analysis: of which waveform
    silence,    \* .vad_silence_only
    result,     \* .result
    held,       \* the result a stage has taken out of .result while it works on it
    outputHash, \* .backend_output_sha256: of which result
    timer,      \* EventLog.stage_start: the stage that set it
    log,        \* EventLog.events
    row,        \* the events of the committed run row, <<>> when there is none
    outcome     \* what run_pipeline returns

waveVars == <<input, wav, wavHash, regions, silence>>
resultVars == <<result, held, outputHash>>
vars == <<config, request, phase, pos, tripped, waveVars, resultVars, timer, log, row,
          outcome>>

None == "None"

-----------------------------------------------------------------------------
(* PipelineConfig::validate.                                               *)

\* Mutant of Prerequisite: the rule for diarize is missing.
PrerequisiteWithoutDiarize(s) ==
    CASE s = "normalize" -> {"ingest"}
      [] s \in {"vad", "separate", "backend"} -> {"normalize"}
      [] s \in {"acceleration", "align", "punctuate"} -> {"backend"}
      [] OTHER -> {}

Prerequisite(s) ==
    CASE s = "normalize" -> {"ingest"}
      [] s \in {"vad", "separate", "backend"} -> {"normalize"}
      [] s \in {"acceleration", "align", "punctuate", "diarize"} -> {"backend"}
      [] OTHER -> {}

validate(c) ==
    /\ \A i, j \in DOMAIN c : c[i] = c[j] => i = j
    /\ \A j \in DOMAIN c : \A p \in Prerequisite(c[j]) : \E i \in 1 .. j - 1 : c[i] = p
    /\ \A i, j \in DOMAIN c : c[i] = "separate" /\ c[j] = "backend" => i < j

has_stage(s) == \E i \in DOMAIN config : config[i] = s

\* Whether the request makes the stage unnecessary.
optional_stage_skip(s) ==
    \/ request.detect_language_only /\ s \in {"separate", "align", "punctuate", "diarize"}
    \/ s = "vad" /\ ~request.vad
    \/ s = "separate" /\ ~(request.diarize /\ request.stem)
    \/ s \in {"align", "diarize"} /\ ~request.diarize
    \/ s = "punctuate" /\ ~request.punctuate

AfterSilence == {"separate", "backend", "acceleration", "align", "punctuate", "diarize"}

Skipped(s) == optional_stage_skip(s) \/ (silence /\ s \in AfterSilence)

\* Stages that take the result out of the intermediate state while they run.
Takers == {"acceleration", "align", "punctuate", "diarize"}

\* "X requires Y to have run first".
Missing(s) ==
    \/ s = "normalize" /\ input = None
    \/ s \in {"vad", "separate", "backend", "diarize"} /\ wav = None
    \/ s \in Takers /\ result = None

Entry(s, code, t) == [stage |-> s, code |-> code, timer |-> t]

\* Failure codes a supervised stage can end with.  Only the stages that run on a
\* named_stage_token report a cancellation just when there was one.
TokenStages == {"backend", "separate"}
FailureCodes(s) ==
    IF s \in TokenStages /\ ~tripped THEN {"timeout", "error"}
    ELSE {"timeout", "cancelled", "error"}
Failures == {"timeout", "cancelled", "error", "contract_violation"}

-----------------------------------------------------------------------------
Init ==
    /\ config \in Configs
    /\ request \in Requests
    /\ phase = "build"
    /\ pos = 1
    /\ tripped = FALSE
    /\ input = None
    /\ wav = None
    /\ wavHash = None
    /\ regions = None
    /\ silence = FALSE
    /\ result = None
    /\ held = None
    /\ outputHash = None
    /\ timer = None
    /\ log = <<>>
    /\ row = <<>>
    /\ outcome = None

\* PipelineBuilder::build / FrankenWhisperEngine::with_config, then the start of
\* run_pipeline: the context, the temporary directory (which may fail) and the first
\* events.
Build ==
    /\ phase = "build"
    /\ \/ /\ validate(config)
          /\ phase' = "begin"
          /\ \E clamped \in {<<>>, <<Entry("orchestration", "threads_clamped", None)>>} :
                log' = <<Entry("orchestration", "budgets", None)>> \o clamped
          /\ outcome' = outcome
       \/ /\ validate(config)
          /\ phase' = "done"
          /\ outcome' = "setup_failed"
          /\ log' = log
       \/ /\ ~validate(config)
          /\ phase' = "done"
          /\ outcome' = "invalid_config"
          /\ log' = log
    /\ UNCHANGED <<config, request, pos, tripped, waveVars, resultVars, timer, row>>

\* run_pipeline_body fails: its error is what run_pipeline returns after the finalizers.
Fail(code) == phase' = "finalize" /\ outcome' = code

\* The checkpoint before the first stage.
BeginBody ==
    /\ phase = "begin"
    /\ \/ /\ tripped
          /\ log' = Append(log, Entry("orchestration", "cancelled", None))
          /\ Fail("cancelled")
       \/ /\ ~tripped
          /\ phase' = "loop"
          /\ UNCHANGED <<log, outcome>>
    /\ UNCHANGED <<config, request, pos, tripped, waveVars, resultVars, timer, row>>

-----------------------------------------------------------------------------
(* Entering a stage.                                                       *)

AtStage(s) == phase = "loop" /\ pos <= Len(config) /\ config[pos] = s

\* A skipped stage leaves one event; its elapsed time is that of the last timer.
SkipStage ==
    /\ \E s \in Stages :
          /\ AtStage(s)
          /\ Skipped(s)
          /\ log' = Append(log, Entry(s, "skip", timer))
    /\ pos' = pos + 1
    /\ UNCHANGED <<config, request, phase, tripped, waveVars, resultVars, timer, row,
                   outcome>>

\* The Persist arm of the loop does nothing: persisting follows the loop.
PassPersist ==
    /\ AtStage("persist")
    /\ pos' = pos + 1
    /\ UNCHANGED <<config, request, phase, tripped, waveVars, resultVars, timer, log, row,
                   outcome>>

Runs(s) == AtStage(s) /\ s # "persist" /\ ~Skipped(s)

\* How a stage answers before it starts.  Normalize checks its token before its
\* requirement, every other stage after it; ingest has neither.
Admission(s) ==
    IF Missing(s) /\ ~(s = "normalize" /\ tripped) THEN "requires"
    ELSE IF tripped /\ s # "ingest" THEN "cancelled"
    ELSE "started"

\* backend::resolve_static_backend fails before the stage has emitted anything.
SpeculativeUnresolved ==
    /\ Runs("backend")
    /\ ~Missing("backend")
    /\ request.speculative
    /\ Fail("unresolved_backend")
    /\ UNCHANGED <<config, request, pos, tripped, waveVars, resultVars, timer, log, row>>

\* What execute_backend logs about routing before its checkpoint.
RoutingEvents(s) ==
    IF s = "backend" /\ ~request.speculative
    THEN {<<>>,
          <<Entry("backend_routing", "safe_mode", timer)>>,
          <<Entry("backend_routing", "decision_contract", timer)>>,
          <<Entry("backend_routing", "decision_contract", timer),
            Entry("backend_routing", "calibration_guardrail", timer)>>}
    ELSE {<<>>}

\* Mutant of EntryFails: checkpoint()? where the code has checkpoint_or_emit.
EntryFailsSilently ==
    /\ \E s \in Stages :
          /\ Runs(s)
          /\ Admission(s) # "started"
          /\ result' = IF s \in Takers THEN None ELSE result
          /\ Fail(Admission(s))
    /\ UNCHANGED <<config, request, pos, tripped, waveVars, held, outputHash, timer, log,
                   row>>

\* Mutant of EntryFails: checkpoint_or_emit leaves the timer of an earlier stage.
EntryFailsTimed ==
    /\ \E s \in Stages :
          /\ Runs(s)
          /\ Admission(s) # "started"
          /\ log' = IF Admission(s) = "requires" THEN log
                    ELSE Append(log, Entry(s, "cancelled", timer))
          /\ result' = IF s \in Takers THEN None ELSE result
          /\ Fail(Admission(s))
    /\ UNCHANGED <<config, request, pos, tripped, waveVars, held, outputHash, timer, row>>

\* checkpoint_or_emit clears the timer and reports the cancellation; a missing
\* requirement is returned without an event.  A result already taken out of the
\* intermediate state is dropped with the error.
EntryFails ==
    /\ \E s \in Stages :
          /\ Runs(s)
          /\ Admission(s) # "started"
          /\ \E r \in RoutingEvents(s) :
                log' = IF Admission(s) = "requires" THEN log
                       ELSE log \o r \o <<Entry(s, "cancelled", None)>>
          /\ timer' = IF Admission(s) = "requires" THEN timer ELSE None
          /\ result' = IF s \in Takers THEN None ELSE result
          /\ Fail(Admission(s))
    /\ UNCHANGED <<config, request, pos, tripped, waveVars, held, outputHash, row>>

\* The stage starts its worker.
StartStage ==
    /\ \E s \in Stages :
          /\ Runs(s)
          /\ Admission(s) = "started"
          /\ \E r \in RoutingEvents(s) :
                log' = log \o r \o
                         IF s = "diarize"
                         THEN <<Entry(s, "rollout", s), Entry(s, "start", s)>>
                         ELSE <<Entry(s, "start", s)>>
          /\ timer' = s
          /\ held' = IF s \in Takers THEN result ELSE held
          /\ result' = IF s \in Takers THEN None ELSE result
    /\ phase' = "running"
    /\ UNCHANGED <<config, request, pos, tripped, waveVars, outputHash, row, outcome>>

-----------------------------------------------------------------------------
(* The supervised worker has ended.                                        *)

Running(s) == phase = "running" /\ config[pos] = s

\* The stage's failure event, then `return Err`.
StageFails ==
    /\ phase = "running"
    /\ \E code \in FailureCodes(config[pos]) :
          /\ log' = Append(log, Entry(config[pos], code, timer))
          /\ Fail(code)
    /\ UNCHANGED <<config, request, pos, tripped, waveVars, resultVars, timer, row>>

\* The stage succeeded and said so with these codes.
Succeed(s, codes) ==
    /\ log' = log \o [i \in DOMAIN codes |-> Entry(s, codes[i], timer)]
    /\ pos' = pos + 1
    /\ phase' = "loop"
    /\ UNCHANGED <<config, request, tripped, timer, row, outcome>>

execute_ingest ==
    /\ Running("ingest")
    /\ input' = "file"
    /\ Succeed("ingest", <<"ok">>)
    /\ UNCHANGED <<wav, wavHash, regions, silence, resultVars>>

\* Hashing the waveform may fail, with a warning.
execute_normalize ==
    /\ Running("normalize")
    /\ wav' = "normalized"
    /\ wavHash' \in {"normalized", None}
    /\ Succeed("normalize", <<"ok">>)
    /\ UNCHANGED <<input, regions, silence, resultVars>>

\* Mutant of apply_vad_state: a silence verdict leaves the result alone.
VadKeepsResult(w, silent) ==
    /\ regions' = w
    /\ silence' = silent
    /\ result' = result

\* A silence-only report replaces whatever result there is by an empty one.
apply_vad_state(w, silent) ==
    /\ regions' = w
    /\ silence' = silent
    /\ result' = IF silent THEN "empty" ELSE result

\* Mutant of execute_vad: silence returns before the stage's event.
SilenceReturnsEarly ==
    /\ Running("vad")
    /\ \E silent \in BOOLEAN :
          /\ apply_vad_state(wav, silent)
          /\ Succeed("vad", IF silent THEN <<>> ELSE <<"ok">>)
    /\ UNCHANGED <<input, wav, wavHash, held, outputHash>>

execute_vad ==
    /\ Running("vad")
    /\ \E silent \in BOOLEAN :
          /\ apply_vad_state(wav, silent)
          /\ Succeed("vad", IF silent THEN <<"silence">> ELSE <<"ok">>)
    /\ UNCHANGED <<input, wav, wavHash, held, outputHash>>

\* The second checkpoint of execute_separate: nothing of the bundle is applied.
SeparateFenced ==
    /\ Running("separate")
    /\ tripped
    /\ log' = Append(log, Entry("separate", "cancelled", None))
    /\ timer' = None
    /\ Fail("cancelled")
    /\ UNCHANGED <<config, request, pos, tripped, waveVars, resultVars, row>>

\* Mutant of execute_separate: the new waveform keeps the facts of the old one.
SeparateKeepsFacts ==
    /\ Running("separate")
    /\ ~tripped
    /\ wav' \in {wav, "stem"}
    /\ Succeed("separate", <<"ok">>)
    /\ UNCHANGED <<input, wavHash, regions, silence, result, held, outputHash>>

\* apply_separate_report: with no separator the waveform stays; a replacement
\* brings its own hash and drops what was known of the old waveform, and where VAD
\* had run it is run again on the new one.
execute_separate ==
    /\ Running("separate")
    /\ ~tripped
    /\ \/ UNCHANGED <<wav, wavHash, regions, silence, result>>
       \/ /\ wav' = "stem"
          /\ wavHash' = "stem"
          /\ \/ /\ regions = None
                /\ regions' = None
                /\ silence' = FALSE
                /\ result' = result
             \/ /\ regions # None
                /\ \E silent \in BOOLEAN : apply_vad_state("stem", silent)
    /\ Succeed("separate", <<"ok">>)
    /\ UNCHANGED <<input, held, outputHash>>

\* Segments that break the conformance contract fail the run.
BackendContractViolation ==
    /\ Running("backend")
    /\ log' = Append(log, Entry("backend", IF request.speculative THEN "error"
                                           ELSE "contract_violation", timer))
    /\ Fail(IF request.speculative THEN "error" ELSE "contract_violation")
    /\ UNCHANGED <<config, request, pos, tripped, waveVars, resultVars, timer, row>>

\* The native engine may have dropped windows, which is told after the fact.
execute_backend ==
    /\ Running("backend")
    /\ result' = "transcript"
    /\ outputHash' \in {"transcript", None}
    /\ pos' = pos + 1
    /\ phase' = "loop"
    /\ \E dropped \in {<<>>, <<Entry("backend", "dropped_windows", timer)>>} :
          log' = log \o <<Entry("backend", "ok", timer)>> \o
                IF request.speculative THEN <<>>
                ELSE <<Entry("replay", "envelope", timer)>> \o dropped
    /\ UNCHANGED <<config, request, tripped, timer, row, outcome, waveVars, held>>

\* Acceleration, align, punctuate and diarize put the result back.
PutBack ==
    /\ result' = held
    /\ held' = None
    /\ UNCHANGED <<waveVars, outputHash>>

execute_accelerate ==
    /\ Running("acceleration")
    /\ PutBack
    /\ Succeed("acceleration", <<"context", "ok">>)

execute_align ==
    /\ Running("align")
    /\ PutBack
    /\ \/ Succeed("align", <<"ok">>)
       \/ Succeed("align", <<"fallback">>)

execute_punctuate ==
    /\ Running("punctuate")
    /\ PutBack
    /\ Succeed("punctuate", <<"ok">>)

execute_diarize ==
    /\ Running("diarize")
    /\ PutBack
    /\ \/ Succeed("diarize", <<"ok">>)
       \/ Succeed("diarize", <<"progress", "ok">>)

-----------------------------------------------------------------------------
(* After the loop.                                                         *)

\* Regrouped word units, when there were any, and the latency profile.
Profile ==
    /\ phase = "loop"
    /\ pos = Len(config) + 1
    /\ \E regrouped \in {<<>>, <<Entry("orchestration", "segments_regrouped", timer)>>} :
          /\ regrouped # <<>> => result = "transcript" /\ request.diarize
          /\ log' = log \o regrouped
                      \o <<Entry("orchestration", "latency_profile", timer)>>
    /\ phase' = "assemble"
    /\ UNCHANGED <<config, request, pos, tripped, waveVars, resultVars, timer, row,
                   outcome>>

\* Mutant of Assemble: the configured persist stage ignores request.persist.
AssembleIgnoresRequest ==
    /\ phase = "assemble"
    /\ \/ /\ has_stage("persist") /\ ~tripped
          /\ log' = Append(log, Entry("persist", "start", "persist"))
          /\ timer' = "persist"
          /\ phase' = "persisting"
          /\ outcome' = outcome
       \/ /\ ~has_stage("persist") \/ tripped
          /\ UNCHANGED <<log, timer>>
          /\ phase' = "finalize"
          /\ outcome' = IF has_stage("persist") THEN "cancelled" ELSE "ok"
    /\ result' = IF result = None THEN "empty" ELSE result
    /\ UNCHANGED <<config, request, pos, tripped, waveVars, held, outputHash, row>>

\* The report, with an empty result where no stage made one, and the start of the
\* persist stage or its absence.
Assemble ==
    /\ phase = "assemble"
    /\ \/ /\ has_stage("persist") /\ request.persist /\ tripped
          /\ log' = Append(log, Entry("persist", "cancelled", None))
          /\ timer' = None
          /\ Fail("cancelled")
          /\ result' = result
       \/ /\ has_stage("persist") /\ request.persist /\ ~tripped
          /\ log' = Append(log, Entry("persist", "start", "persist"))
          /\ timer' = "persist"
          /\ phase' = "persisting"
          /\ outcome' = outcome
          /\ result' = IF result = None THEN "empty" ELSE result
       \/ /\ ~(has_stage("persist") /\ request.persist)
          /\ log' = IF has_stage("persist")
                    THEN Append(log, Entry("persist", "skip", timer)) ELSE log
          /\ timer' = timer
          /\ phase' = "finalize"
          /\ outcome' = "ok"
          /\ result' = IF result = None THEN "empty" ELSE result
    /\ UNCHANGED <<config, request, pos, tripped, waveVars, held, outputHash, row>>

\* The row carries the events up to persist.start.
PersistOk ==
    /\ phase = "persisting"
    /\ row' = log
    /\ log' = Append(log, Entry("persist", "ok", timer))
    /\ phase' = "finalize"
    /\ outcome' = "ok"
    /\ UNCHANGED <<config, request, pos, tripped, waveVars, resultVars, timer>>

\* The supervisor reports a failure.  A commit may have slipped in before a time-out
\* or a panic was reported (module PersistStage).
PersistFails ==
    /\ phase = "persisting"
    /\ \E code \in FailureCodes("persist") :
          /\ log' = Append(log, Entry("persist", code, timer))
          /\ row' \in IF code = "cancelled" THEN {<<>>} ELSE {<<>>, log}
          /\ Fail(code)
    /\ UNCHANGED <<config, request, pos, tripped, waveVars, resultVars, timer>>

\* run_finalizers_bounded, on every path out of run_pipeline_body.
Finalize ==
    /\ phase = "finalize"
    /\ phase' = "done"
    /\ UNCHANGED <<config, request, pos, tripped, waveVars, resultVars, timer, log, row,
                   outcome>>

\* Ctrl+C, RunCancel::cancel or the pipeline deadline.
Trip ==
    /\ phase \notin {"build", "done"}
    /\ ~tripped
    /\ tripped' = TRUE
    /\ UNCHANGED <<config, request, phase, pos, waveVars, resultVars, timer, log, row,
                   outcome>>

Done == phase = "done" /\ UNCHANGED vars

Step ==
    \/ Build \/ BeginBody
    \/ SkipStage \/ PassPersist \/ SpeculativeUnresolved \/ EntryFails \/ StartStage
    \/ StageFails \/ execute_ingest \/ execute_normalize \/ execute_vad
    \/ SeparateFenced \/ execute_separate \/ BackendContractViolation \/ execute_backend
    \/ execute_accelerate \/ execute_align \/ execute_punctuate \/ execute_diarize
    \/ Profile \/ Assemble \/ PersistOk \/ PersistFails \/ Finalize

Next == Step \/ Trip \/ Done

Spec == Init /\ [][Next]_vars

-----------------------------------------------------------------------------
(* Properties.                                                             *)

Waveforms == {"normalized", "stem"}

\* Types of every variable of the run.
TypeOK ==
    /\ config \in Seq(Stages)
    /\ request \in Request
    /\ phase \in {"build", "begin", "loop", "running", "assemble", "persisting",
                  "finalize", "done"}
    /\ pos \in 1 .. Len(config) + 1
    /\ phase = "running" => pos <= Len(config)
    /\ tripped \in BOOLEAN
    /\ input \in {"file", None}
    /\ wav \in Waveforms \union {None}
    /\ wavHash \in Waveforms \union {None}
    /\ regions \in Waveforms \union {None}
    /\ silence \in BOOLEAN
    /\ result \in {"transcript", "empty", None}
    /\ held \in {"transcript", "empty", None}
    /\ outputHash \in {"transcript", None}
    /\ timer \in Stages \union {None}
    /\ outcome \in Failures \union {"ok", "requires", "unresolved_backend",
                                    "invalid_config", "setup_failed", None}

\* README: "The `PipelineBuilder` validates ordering at build time; runtime never
\* hits 'stage X requires stage Y' errors" - in every order that validate accepts,
\* whatever is skipped and whatever VAD and separation do to the shared state.
RequirementsAlwaysMet == outcome # "requires"

Terminal == {"ok", "silence", "fallback"} \union Failures

\* The times of the stages are their own: no event of a stage but a skip carries the elapsed
\* time of another one. (A skip may, and stage_latency_profile counts no stage without a start.)
TimesAreOwn ==
    \A i \in DOMAIN log : log[i].stage \in Stages /\ log[i].code # "skip" =>
        log[i].timer \in {log[i].stage, None}

\* Every started stage is closed by exactly one terminal event of its own before
\* another pipeline stage speaks, so a consumer of the stream always sees brackets;
\* only the stage at work may be open, and none is once the run has returned.  Whichever
\* stages were skipped, cancelled or failed before, what a bracket spans is charged to
\* its own stage.
StagesBracketed ==
    /\ \A i \in DOMAIN log : log[i].code = "start" =>
          LET Closes(j) == log[j].stage = log[i].stage /\ log[j].code \in Terminal
          IN  \/ \E j \in i + 1 .. Len(log) :
                    /\ Closes(j)
                    /\ \A k \in i + 1 .. j - 1 : log[k].stage \notin Stages \ {log[i].stage}
                    /\ \A k \in j + 1 .. Len(log) : ~Closes(k)
              \/ /\ phase \in {"running", "persisting"}
                 /\ i = Len(log)
    /\ TimesAreOwn

\* README: "even on cancellation, the NDJSON contract requires a final event for the
\* stage before pipeline termination" - a run that fails with a stage failure ends
\* its log with the failure event of that kind.
FailureIsLastEvent ==
    outcome \in Failures => log[Len(log)].code = outcome

\* Between stages everything the run knows about its waveform (content hash, VAD
\* regions and analysis) was computed from the waveform later stages will read, also
\* after separation replaced it.
WaveformFactsCurrent ==
    phase \in {"loop", "assemble", "persisting"} =>
        /\ wavHash \in {wav, None}
        /\ regions \in {wav, None}

\* A run whose last VAD verdict is silence reports an empty transcript.
SilenceHasNoTranscript ==
    silence /\ phase \in {"loop", "assemble", "persisting", "finalize", "done"}
        /\ outcome \in {None, "ok"} => result = "empty"

\* A successful run has a committed row exactly when persistence was configured and
\* requested, and the row holds the event log up to persist.start.
OkMeansPersisted ==
    /\ outcome = "ok" => (row # <<>> <=> has_stage("persist") /\ request.persist)
    /\ row # <<>> => \E k \in 1 .. Len(log) - 1 :
                        /\ row = SubSeq(log, 1, k)
                        /\ log[k] = Entry("persist", "start", "persist")

=============================================================================
