--------------------------- MODULE PipelineProofs ---------------------------
(***************************************************************************)
(* Proofs about Pipeline for every set of stage lists, of any length and   *)
(* order, and every set of requests.                                       *)
(***************************************************************************)
EXTENDS Pipeline, SequenceTheorems, TLAPS

\* The stages before the current position.
Before(s) == \E i \in 1 .. pos - 1 : config[i] = s

\* Only a valid list is ever executed.
Validated == phase \notin {"build", "done"} => validate(config)

\* What is missing cannot have been passed: ingest leaves its input, normalize its
\* waveform, and nothing else does.
Passed ==
    /\ phase \in {"loop", "running"} /\ Before("ingest") => input # None
    /\ phase \in {"loop", "running"} /\ Before("normalize") => wav # None
    /\ phase \in {"build", "begin", "loop", "running"} /\ ~Before("normalize") => wav = None
    /\ phase = "running" /\ config[pos] \in {"vad", "separate"} => wav # None
    /\ phase \in {"build", "begin"} => pos = 1

\* Where the result is: a passed backend, skipped after silence or not, has left one,
\* and a stage that works on it holds it.
ResultKept ==
    /\ phase = "loop" /\ Before("backend") => result # None
    /\ phase = "running" /\ config[pos] \notin Takers /\ Before("backend") => result # None
    /\ phase = "running" /\ config[pos] \in Takers => held # None

\* Facts belong to the waveform in use.
FactsFollow ==
    phase \in {"build", "begin", "loop", "running", "assemble", "persisting"} =>
        /\ wavHash \in {wav, None}
        /\ regions \in {wav, None}

\* Silence empties the result, and nothing that fills it runs after it.
SilenceKept ==
    /\ silence /\ outcome \in {None, "ok"} => result = "empty"
    /\ silence /\ phase = "running" => config[pos] \notin AfterSilence

\* While the run goes on it has no outcome yet.
NoOutcomeYet ==
    /\ outcome # "requires"
    /\ phase \in {"build", "begin", "loop", "running", "assemble", "persisting"} => outcome = None

IInv == TypeOK /\ Validated /\ Passed /\ ResultKept /\ FactsFollow /\ SilenceKept /\ NoOutcomeYet
-----------------------------------------------------------------------------
(* Stage lists.                                                            *)

\* One more stage is passed.
LEMMA OneMore ==
    ASSUME IInv, config' = config, pos' = pos + 1
    PROVE  \A s : Before(s)' <=> Before(s) \/ config[pos] = s
  <1>1. pos \in Nat /\ pos >= 1
    BY DEF IInv, TypeOK
  <1>2. 1 .. pos' - 1 = (1 .. pos - 1) \union {pos}
    BY <1>1
  <1> QED BY <1>2 DEF Before

\* What validation gives for the stage at the current position.
LEMMA Prerequisites ==
    ASSUME IInv, phase \in {"loop", "running"}, pos <= Len(config)
    PROVE  /\ config[pos] = "normalize" => Before("ingest") /\ ~Before("normalize")
           /\ config[pos] \in {"vad", "separate", "backend"} => Before("normalize")
           /\ config[pos] \in Takers => Before("backend") /\ Before("normalize")
  <1>1. /\ pos \in Nat /\ pos >= 1 /\ pos \in DOMAIN config
        /\ Len(config) \in Nat /\ DOMAIN config = 1 .. Len(config)
        /\ validate(config)
    BY LenProperties DEF IInv, TypeOK, Validated
  <1>2. \A j \in DOMAIN config : \A p \in Prerequisite(config[j]) :
           \E i \in 1 .. j - 1 : config[i] = p
    BY <1>1 DEF validate
  <1>3. CASE config[pos] = "normalize"
    <2>1. "ingest" \in Prerequisite(config[pos])
      BY <1>3 DEF Prerequisite
    <2>2. ~Before("normalize")
      BY <1>1, <1>3 DEF Before, validate
    <2> QED BY <1>1, <1>2, <1>3, <2>1, <2>2 DEF Before, Takers
  <1>4. CASE config[pos] \in {"vad", "separate", "backend"}
    <2>1. "normalize" \in Prerequisite(config[pos])
      BY <1>4 DEF Prerequisite
    <2> QED BY <1>1, <1>2, <1>4, <2>1 DEF Before, Takers
  <1>5. CASE config[pos] \in Takers
    <2>1. "backend" \in Prerequisite(config[pos])
      BY <1>5 DEF Prerequisite, Takers
    <2>2. PICK i \in 1 .. pos - 1 : config[i] = "backend"
      BY <1>1, <1>2, <2>1
    <2>3. i \in DOMAIN config /\ i \in Nat
      BY <1>1
    <2>4. "normalize" \in Prerequisite(config[i])
      BY <2>2 DEF Prerequisite
    <2>5. PICK k \in 1 .. i - 1 : config[k] = "normalize"
      BY <1>2, <2>3, <2>4
    <2>6. k \in 1 .. pos - 1
      BY <1>1, <2>3
    <2> QED BY <1>5, <2>2, <2>5, <2>6 DEF Before, Takers
  <1> QED BY <1>3, <1>4, <1>5

\* "X requires Y to have run first" never applies.
LEMMA NothingMissing ==
    ASSUME IInv, NEW s \in Stages, Runs(s)
    PROVE  ~Missing(s)
  <1>1. phase = "loop" /\ pos <= Len(config) /\ config[pos] = s
    BY DEF Runs, AtStage
  <1> QED
    BY <1>1, Prerequisites DEF IInv, Passed, ResultKept, Missing, Takers

-----------------------------------------------------------------------------
(* The invariant.                                                          *)

LEMMA InitInv == Init => IInv
  <1> SUFFICES ASSUME Init PROVE IInv
    OBVIOUS
  <1>1. config \in Seq(Stages) /\ Len(config) \in Nat
    BY ConfigsAssumption DEF Init
  <1>2. TypeOK
    <2>1. request \in Request /\ pos \in 1 .. Len(config) + 1
      BY <1>1, RequestsAssumption DEF Init
    <2> QED BY <1>1, <2>1 DEF Init, TypeOK, None, Waveforms
  <1>3. Validated /\ Passed /\ ResultKept /\ FactsFollow /\ SilenceKept /\ NoOutcomeYet
    BY DEF Init, Validated, Passed, ResultKept, FactsFollow, SilenceKept, NoOutcomeYet,
           Before, None
  <1> QED BY <1>2, <1>3 DEF IInv

\* A run that fails keeps what it has, except a result that a stage had taken.
LEMMA FailInv ==
    ASSUME IInv, phase \notin {"build", "done"},
           NEW code \in Failures \union {"unresolved_backend"}, Fail(code),
           result' \in {result, None}, held' = held, timer' \in {timer, None},
           UNCHANGED <<config, request, pos, tripped, waveVars, outputHash>>
    PROVE  IInv'
  <1>1. TypeOK'
    BY DEF IInv, TypeOK, Fail, waveVars, Failures
  <1>2. Validated'
    BY DEF IInv, Validated, Fail, validate, Prerequisite
  <1>3. Passed' /\ ResultKept' /\ FactsFollow'
    BY DEF Fail, Passed, ResultKept, FactsFollow
  <1>4. SilenceKept' /\ NoOutcomeYet'
    BY DEF Fail, Failures, SilenceKept, NoOutcomeYet, None
  <1> QED BY <1>1, <1>2, <1>3, <1>4 DEF IInv

\* A supervised stage ends with a failure.
LEMMA StageFailsInv == IInv /\ StageFails => IInv'
  <1> SUFFICES ASSUME IInv, StageFails PROVE IInv'
    OBVIOUS
  <1>1. PICK code \in FailureCodes(config[pos]) : Fail(code)
    BY DEF StageFails
  <1>2. code \in Failures \union {"unresolved_backend"}
    BY <1>1 DEF FailureCodes, Failures
  <1> QED BY <1>1, <1>2, FailInv DEF StageFails, resultVars

\* A stage is passed, executed or skipped.  These are its obligations.
Advances ==
    /\ phase \in {"loop", "running"} /\ phase' = "loop"
    /\ pos <= Len(config) /\ pos' = pos + 1
    /\ UNCHANGED <<config, request, tripped, timer, outcome>>
WaveKept ==
    /\ input' \in {"file", None} /\ (input # None \/ config[pos] = "ingest" => input' # None)
    /\ wav' \in Waveforms \union {None}
    /\ wav' # None <=> wav # None \/ config[pos] = "normalize"
    /\ wavHash' \in {wav', None} /\ regions' \in {wav', None}
ResultLeft ==
    /\ result' \in {"transcript", "empty", None}
    /\ held' \in {"transcript", "empty", None}
    /\ outputHash' \in {"transcript", None}
    /\ Before("backend") \/ config[pos] = "backend" => result' # None
    /\ silence' \in BOOLEAN /\ (silence' => result' = "empty")

LEMMA AdvanceInv ==
    ASSUME IInv, Advances, WaveKept, ResultLeft
    PROVE  IInv'
  <1>0. /\ pos \in Nat /\ pos >= 1 /\ pos <= Len(config) /\ Len(config) \in Nat
        /\ pos' = pos + 1 /\ config' = config /\ phase' = "loop"
    BY LenProperties DEF IInv, TypeOK, Advances
  <1>1. TypeOK'
    <2>1. pos' \in 1 .. Len(config') + 1
      BY <1>0
    <2>2. request' \in Request /\ tripped' \in BOOLEAN /\ config' \in Seq(Stages)
          /\ timer' \in Stages \union {None}
      BY DEF IInv, TypeOK, Advances
    <2>3. outcome' = None
      BY DEF IInv, NoOutcomeYet, Advances
    <2> QED
      BY <1>0, <2>1, <2>2, <2>3 DEF TypeOK, WaveKept, ResultLeft, None
  <1>2. Validated'
    BY DEF IInv, Validated, Advances, validate, Prerequisite
  <1>3. \A s : Before(s)' <=> Before(s) \/ config[pos] = s
    BY <1>0, OneMore
  <1>4. Passed'
    BY <1>0, <1>3 DEF IInv, Passed, Advances, WaveKept
  <1>5. ResultKept'
    BY <1>0, <1>3 DEF ResultKept, ResultLeft
  <1>6. FactsFollow'
    BY DEF FactsFollow, WaveKept
  <1>7. SilenceKept' /\ NoOutcomeYet'
    BY <1>0 DEF IInv, SilenceKept, NoOutcomeYet, Advances, ResultLeft
  <1> QED BY <1>1, <1>2, <1>4, <1>5, <1>6, <1>7 DEF IInv

\* Stages that leave waveform and result alone: skipped ones and the Persist arm.
LEMMA PassInv == IInv /\ (SkipStage \/ PassPersist) => IInv'
  <1> SUFFICES ASSUME IInv, SkipStage \/ PassPersist PROVE IInv'
    OBVIOUS
  <1>1. PICK s \in Stages : AtStage(s) /\ (Skipped(s) \/ s = "persist")
    BY DEF SkipStage, PassPersist, Stages
  <1>2. Advances /\ config[pos] = s /\ phase = "loop"
    BY <1>1 DEF SkipStage, PassPersist, AtStage, Advances
  <1>3. UNCHANGED <<waveVars, resultVars>>
    BY DEF SkipStage, PassPersist
  <1>4. s \notin {"ingest", "normalize"} /\ (s = "backend" => silence)
    BY <1>1 DEF Skipped, optional_stage_skip, AfterSilence
  <1>5. WaveKept
    BY <1>2, <1>3, <1>4 DEF WaveKept, waveVars, IInv, TypeOK, FactsFollow
  <1>6. ResultLeft
    BY <1>2, <1>3, <1>4
       DEF ResultLeft, resultVars, waveVars, IInv, TypeOK, ResultKept, SilenceKept,
           NoOutcomeYet, None
  <1> QED BY <1>2, <1>5, <1>6, AdvanceInv

\* The stages that make or change the waveform.
LEMMA WaveStageInv ==
    IInv /\ (execute_ingest \/ execute_normalize \/ execute_vad \/ execute_separate) => IInv'
  <1> SUFFICES ASSUME IInv, execute_ingest \/ execute_normalize \/ execute_vad
                            \/ execute_separate
               PROVE  IInv'
    OBVIOUS
  <1>0. Advances
    BY DEF execute_ingest, execute_normalize, execute_vad, execute_separate, Running, Succeed,
           Advances, IInv, TypeOK
  <1>1. phase = "running" /\ pos <= Len(config) /\ outcome = None
    BY DEF execute_ingest, execute_normalize, execute_vad, execute_separate, Running,
           IInv, TypeOK, NoOutcomeYet
  <1>2. CASE execute_ingest
    <2>1. WaveKept
      BY <1>1, <1>2 DEF execute_ingest, Running, WaveKept, IInv, TypeOK, FactsFollow, None
    <2>2. ResultLeft
      BY <1>1, <1>2 DEF execute_ingest, Running, ResultLeft, resultVars, IInv, TypeOK,
                        ResultKept, SilenceKept, Takers
    <2> QED BY <1>0, <2>1, <2>2, AdvanceInv
  <1>3. CASE execute_normalize
    <2>1. wav = None /\ regions = None
      BY <1>1, <1>3, Prerequisites
         DEF execute_normalize, Running, IInv, Passed, FactsFollow
    <2>2. WaveKept
      BY <1>1, <1>3, <2>1
         DEF execute_normalize, Running, WaveKept, IInv, TypeOK, Waveforms, None
    <2>3. ResultLeft
      BY <1>1, <1>3 DEF execute_normalize, Running, ResultLeft, resultVars, IInv, TypeOK,
                        ResultKept, SilenceKept, Takers
    <2> QED BY <1>0, <2>2, <2>3, AdvanceInv
  <1>4. CASE execute_vad
    <2>1. PICK silent \in BOOLEAN : apply_vad_state(wav, silent)
      BY <1>4 DEF execute_vad
    <2>2. WaveKept
      BY <1>1, <1>4, <2>1
         DEF execute_vad, Running, apply_vad_state, WaveKept, IInv, TypeOK, FactsFollow
    <2>3. ResultLeft
      BY <1>1, <1>4, <2>1
         DEF execute_vad, Running, apply_vad_state, ResultLeft, IInv, TypeOK, ResultKept,
             SilenceKept, Takers, None
    <2> QED BY <1>0, <2>2, <2>3, AdvanceInv
  <1>5. CASE execute_separate
    <2>1. wav # None /\ ~silence
      BY <1>1, <1>5 DEF execute_separate, Running, IInv, TypeOK, Passed, SilenceKept, AfterSilence
    <2>2. /\ config[pos] = "separate" /\ UNCHANGED <<input, held, outputHash>>
          /\ Before("backend") => result # None
      BY <1>1, <1>5 DEF execute_separate, Running, IInv, ResultKept, Takers
    <2>3. CASE UNCHANGED <<wav, wavHash, regions, silence, result>>
      <3>1. WaveKept
        BY <1>1, <2>2, <2>3 DEF WaveKept, IInv, TypeOK, FactsFollow
      <3>2. ResultLeft
        BY <2>1, <2>2, <2>3 DEF ResultLeft, IInv, TypeOK
      <3> QED BY <1>0, <3>1, <3>2, AdvanceInv
    <2>4. CASE /\ wav' = "stem" /\ wavHash' = "stem"
               /\ regions' = None /\ silence' = FALSE /\ result' = result
      <3>1. WaveKept
        BY <2>1, <2>2, <2>4 DEF WaveKept, IInv, TypeOK, Waveforms, None
      <3>2. ResultLeft
        BY <2>2, <2>4 DEF ResultLeft, IInv, TypeOK
      <3> QED BY <1>0, <3>1, <3>2, AdvanceInv
    <2>5. CASE /\ wav' = "stem" /\ wavHash' = "stem"
               /\ \E silent \in BOOLEAN : apply_vad_state("stem", silent)
      <3>0. PICK silent \in BOOLEAN : apply_vad_state("stem", silent)
        BY <2>5
      <3>1. WaveKept
        BY <2>1, <2>2, <2>5, <3>0 DEF apply_vad_state, WaveKept, IInv, TypeOK, Waveforms, None
      <3>2. ResultLeft
        BY <2>2, <3>0 DEF apply_vad_state, ResultLeft, IInv, TypeOK, None
      <3> QED BY <1>0, <3>1, <3>2, AdvanceInv
    <2> QED BY <1>5, <2>3, <2>4, <2>5 DEF execute_separate
  <1> QED BY <1>2, <1>3, <1>4, <1>5

\* The stages that make a result or work on it.
LEMMA ResultStageInv ==
    IInv /\ (execute_backend \/ execute_accelerate \/ execute_align \/ execute_punctuate
             \/ execute_diarize) => IInv'
  <1> SUFFICES ASSUME IInv, execute_backend \/ execute_accelerate \/ execute_align
                            \/ execute_punctuate \/ execute_diarize
               PROVE  IInv'
    OBVIOUS
  <1>0. Advances
    BY DEF execute_backend, execute_accelerate, execute_align, execute_punctuate,
           execute_diarize, Running, Succeed, Advances, IInv, TypeOK
  <1>1. /\ phase = "running" /\ outcome = None
        /\ config[pos] \in {"backend"} \union Takers
        /\ UNCHANGED waveVars
    BY DEF execute_backend, execute_accelerate, execute_align, execute_punctuate,
           execute_diarize, Running, PutBack, IInv, NoOutcomeYet, Takers
  <1>2. ~silence
    BY <1>1 DEF IInv, TypeOK, SilenceKept, AfterSilence, Takers
  <1>3. WaveKept
    BY <1>1 DEF WaveKept, waveVars, IInv, TypeOK, FactsFollow, Takers
  <1>4. CASE execute_backend
    <2>1. ResultLeft
      BY <1>1, <1>2, <1>4 DEF execute_backend, ResultLeft, waveVars, IInv, TypeOK, None
    <2> QED BY <1>0, <1>3, <2>1, AdvanceInv
  <1>5. CASE ~execute_backend
    <2>1. PutBack /\ config[pos] \in Takers
      BY <1>5 DEF execute_accelerate, execute_align, execute_punctuate, execute_diarize,
                  Running, Takers
    <2>2. ResultLeft
      BY <1>1, <1>2, <2>1
         DEF PutBack, ResultLeft, waveVars, IInv, TypeOK, ResultKept, None
    <2> QED BY <1>0, <1>3, <2>2, AdvanceInv
  <1> QED BY <1>4, <1>5

\* Entering the run and a stage.
LEMMA EnterInv ==
    IInv /\ (Build \/ BeginBody \/ SpeculativeUnresolved \/ EntryFails \/ StartStage) => IInv'
  <1> SUFFICES ASSUME IInv, Build \/ BeginBody \/ SpeculativeUnresolved \/ EntryFails
                            \/ StartStage
               PROVE  IInv'
    OBVIOUS
  <1>1. CASE Build
    <2>1. /\ UNCHANGED <<config, request, pos, tripped, waveVars, resultVars, timer>>
          /\ \/ phase' = "begin" /\ outcome' = outcome /\ validate(config)
             \/ phase' = "done" /\ outcome' \in {"setup_failed", "invalid_config"}
      BY <1>1 DEF Build
    <2>2. phase = "build" /\ outcome = None
      BY <1>1 DEF Build, IInv, NoOutcomeYet
    <2>3. TypeOK'
      BY <2>1, <2>2 DEF IInv, TypeOK, waveVars, resultVars, None
    <2>4. Validated'
      BY <2>1 DEF Validated, validate, Prerequisite
    <2>5. Passed' /\ ResultKept' /\ FactsFollow'
      BY <2>1, <2>2 DEF IInv, Passed, ResultKept, FactsFollow, Before, waveVars
    <2>6. SilenceKept' /\ NoOutcomeYet'
      BY <2>1, <2>2 DEF IInv, SilenceKept, NoOutcomeYet, waveVars, resultVars, None
    <2> QED BY <2>3, <2>4, <2>5, <2>6 DEF IInv
  <1>2. CASE BeginBody
    <2>1. CASE tripped
      BY <1>2, <2>1, FailInv DEF BeginBody, Failures, resultVars
    <2>2. CASE ~tripped
      <3>1. /\ UNCHANGED <<config, request, pos, tripped, waveVars, resultVars, timer, outcome>>
            /\ phase' = "loop" /\ phase = "begin"
        BY <1>2, <2>2 DEF BeginBody
      <3>2. TypeOK'
        BY <3>1 DEF IInv, TypeOK, waveVars, resultVars
      <3>3. Validated'
        BY <3>1 DEF IInv, Validated, validate, Prerequisite
      <3>4. Passed' /\ ResultKept' /\ FactsFollow'
        <4>1. pos = 1 /\ pos' = 1 /\ \A t : ~Before(t)'
          BY <3>1 DEF IInv, Passed, Before
        <4>2. wav' = None /\ FactsFollow'
          BY <3>1 DEF IInv, Passed, FactsFollow, Before, waveVars
        <4> QED BY <3>1, <4>1, <4>2 DEF Passed, ResultKept
      <3>5. SilenceKept' /\ NoOutcomeYet'
        BY <3>1 DEF IInv, SilenceKept, NoOutcomeYet, waveVars, resultVars
      <3> QED BY <3>2, <3>3, <3>4, <3>5 DEF IInv
    <2> QED BY <2>1, <2>2
  <1>3. CASE SpeculativeUnresolved
    BY <1>3, FailInv DEF SpeculativeUnresolved, Runs, AtStage, resultVars
  <1>4. CASE EntryFails
    <2>1. PICK s \in Stages :
             /\ Runs(s)
             /\ Admission(s) # "started"
             /\ timer' = IF Admission(s) = "requires" THEN timer ELSE None
             /\ result' = IF s \in Takers THEN None ELSE result
             /\ Fail(Admission(s))
      BY <1>4 DEF EntryFails
    <2>2. ~Missing(s)
      BY <2>1, NothingMissing
    <2>3. Admission(s) = "cancelled"
      BY <2>1, <2>2 DEF Admission
    <2> QED
      BY <1>4, <2>1, <2>3, FailInv DEF EntryFails, Runs, AtStage, Failures
  <1>5. CASE StartStage
    <2>1. PICK s \in Stages :
             /\ Runs(s)
             /\ timer' = s
             /\ held' = IF s \in Takers THEN result ELSE held
             /\ result' = IF s \in Takers THEN None ELSE result
      BY <1>5 DEF StartStage
    <2>2. /\ phase = "loop" /\ pos <= Len(config) /\ config[pos] = s /\ phase' = "running"
          /\ UNCHANGED <<config, request, pos, tripped, waveVars, outputHash, outcome>>
          /\ silence => s \notin AfterSilence
      BY <1>5, <2>1 DEF StartStage, Runs, AtStage, Skipped
    <2>3. ~Missing(s)
      BY <2>1, NothingMissing
    <2>4. TypeOK'
      BY <2>1, <2>2 DEF IInv, TypeOK, waveVars, None
    <2>5. Validated'
      BY <2>2 DEF IInv, Validated, validate, Prerequisite
    <2>6. Passed'
      BY <2>2, <2>3 DEF IInv, Passed, Before, waveVars, Missing
    <2>7. ResultKept'
      BY <2>1, <2>2, <2>3 DEF IInv, ResultKept, Before, Missing
    <2>8. FactsFollow'
      BY <2>2 DEF IInv, FactsFollow, waveVars
    <2>9. SilenceKept' /\ NoOutcomeYet'
      BY <2>1, <2>2 DEF IInv, SilenceKept, NoOutcomeYet, waveVars, AfterSilence, Takers
    <2> QED BY <2>4, <2>5, <2>6, <2>7, <2>8, <2>9 DEF IInv
  <1> QED BY <1>1, <1>2, <1>3, <1>4, <1>5

\* The failures of separation and of the backend.
LEMMA FencedInv == IInv /\ (SeparateFenced \/ BackendContractViolation) => IInv'
  BY FailInv DEF SeparateFenced, BackendContractViolation, Running, Failures, resultVars

\* What follows the loop: only the phase, the timer and an absent result change.
AfterLoop ==
    /\ phase \notin {"build", "done"}
    /\ phase' \in {"assemble", "persisting", "finalize", "done"}
    /\ phase' \in {"assemble", "persisting"} => phase \in {"loop", "assemble"}
    /\ \/ outcome' = outcome
       \/ outcome' = "ok" /\ phase' = "finalize" /\ outcome = None
    /\ result' = result \/ (result = None /\ result' = "empty")
    /\ held' = held
    /\ timer' \in {timer, "persist"}
    /\ UNCHANGED <<config, request, pos, tripped, waveVars, outputHash>>

LEMMA AfterLoopInv == IInv /\ AfterLoop => IInv'
  <1> SUFFICES ASSUME IInv, AfterLoop PROVE IInv'
    OBVIOUS
  <1>1. TypeOK'
    BY DEF AfterLoop, IInv, TypeOK, waveVars, Stages
  <1>2. Validated'
    BY DEF AfterLoop, IInv, Validated, validate, Prerequisite
  <1>3. Passed' /\ ResultKept'
    BY DEF AfterLoop, Passed, ResultKept
  <1>4. FactsFollow'
    BY DEF AfterLoop, IInv, FactsFollow, waveVars
  <1>5. SilenceKept'
    BY DEF AfterLoop, IInv, SilenceKept, waveVars, None
  <1>6. NoOutcomeYet'
    BY DEF AfterLoop, IInv, NoOutcomeYet, None
  <1> QED BY <1>1, <1>2, <1>3, <1>4, <1>5, <1>6 DEF IInv

LEMMA EndInv == IInv /\ (Profile \/ Assemble \/ PersistOk \/ PersistFails \/ Finalize) => IInv'
  <1> SUFFICES ASSUME IInv, Profile \/ Assemble \/ PersistOk \/ PersistFails \/ Finalize
               PROVE  IInv'
    OBVIOUS
  <1>1. CASE Profile
    <2>1. AfterLoop
      BY <1>1 DEF Profile, AfterLoop, resultVars
    <2> QED BY <2>1, AfterLoopInv
  <1>2. CASE Assemble
    <2>1. CASE has_stage("persist") /\ request.persist /\ tripped
      BY <1>2, <2>1, FailInv DEF Assemble, Failures
    <2>2. CASE ~(has_stage("persist") /\ request.persist /\ tripped)
      <3>1. outcome = None
        BY <1>2 DEF Assemble, IInv, NoOutcomeYet
      <3>2. AfterLoop
        BY <1>2, <2>2, <3>1 DEF Assemble, AfterLoop
      <3> QED BY <3>2, AfterLoopInv
    <2> QED BY <2>1, <2>2
  <1>3. CASE PersistOk
    <2>1. outcome = None
      BY <1>3 DEF PersistOk, IInv, NoOutcomeYet
    <2>2. AfterLoop
      BY <1>3, <2>1 DEF PersistOk, AfterLoop, resultVars
    <2> QED BY <2>2, AfterLoopInv
  <1>4. CASE PersistFails
    <2>1. PICK code \in FailureCodes("persist") : Fail(code)
      BY <1>4 DEF PersistFails
    <2>2. code \in Failures
      BY <2>1 DEF FailureCodes, Failures
    <2> QED BY <1>4, <2>1, <2>2, FailInv DEF PersistFails, resultVars
  <1>5. CASE Finalize
    <2>1. AfterLoop
      BY <1>5 DEF Finalize, AfterLoop, resultVars
    <2> QED BY <2>1, AfterLoopInv
  <1> QED BY <1>1, <1>2, <1>3, <1>4, <1>5

\* A stop, and steps that change nothing.
LEMMA TripInv == IInv /\ (Trip \/ UNCHANGED vars) => IInv'
  <1> SUFFICES ASSUME IInv, Trip \/ UNCHANGED vars PROVE IInv'
    OBVIOUS
  <1>1. /\ UNCHANGED <<config, request, phase, pos, waveVars, resultVars, timer, outcome>>
        /\ tripped' \in BOOLEAN
    BY DEF Trip, vars, IInv, TypeOK
  <1>2. TypeOK'
    BY <1>1 DEF IInv, TypeOK, waveVars, resultVars
  <1>3. Validated'
    BY <1>1 DEF IInv, Validated, validate, Prerequisite
  <1>4. Passed' /\ ResultKept' /\ FactsFollow'
    BY <1>1 DEF IInv, Passed, ResultKept, FactsFollow, Before, waveVars, resultVars
  <1>5. SilenceKept' /\ NoOutcomeYet'
    BY <1>1 DEF IInv, SilenceKept, NoOutcomeYet, waveVars, resultVars
  <1> QED BY <1>2, <1>3, <1>4, <1>5 DEF IInv

LEMMA StepInv == IInv /\ [Next]_vars => IInv'
  BY PassInv, StageFailsInv, WaveStageInv, ResultStageInv, EnterInv, FencedInv, EndInv, TripInv
     DEF Next, Step, Done

\* Every reachable state satisfies the invariant.
THEOREM Invariance == Spec => []IInv
  BY InitInv, StepInv, PTL DEF Spec

-----------------------------------------------------------------------------
(* What it implies.                                                        *)

\* The types of a run for every stage list; the loop index stays in the list.
THEOREM TypeCorrect == Spec => []TypeOK
  <1>1. IInv => TypeOK
    BY DEF IInv
  <1> QED BY <1>1, Invariance, PTL

\* No stage list that PipelineConfig::validate accepts, of any length and in any
\* order, makes a stage fail for want of an earlier one.
THEOREM ValidOrderSuffices == Spec => []RequirementsAlwaysMet
  <1>1. IInv => RequirementsAlwaysMet
    BY DEF IInv, NoOutcomeYet, RequirementsAlwaysMet
  <1> QED BY <1>1, Invariance, PTL

\* Hash, regions and analysis always describe the waveform later stages read.
THEOREM FactsAreCurrent == Spec => []WaveformFactsCurrent
  <1>1. IInv => WaveformFactsCurrent
    BY DEF IInv, FactsFollow, WaveformFactsCurrent
  <1> QED BY <1>1, Invariance, PTL

\* A silence verdict that stands means an empty transcript in every accepted order.
THEOREM SilenceIsEmpty == Spec => []SilenceHasNoTranscript
  <1>1. IInv => SilenceHasNoTranscript
    BY DEF IInv, SilenceKept, SilenceHasNoTranscript
  <1> QED BY <1>1, Invariance, PTL

-----------------------------------------------------------------------------
(* The event log.  A second invariant, on top of the first: no stage has   *)
(* said that it ended before its place in the list is reached, so that a   *)
(* terminal event closes the one stage that is open.                       *)

Speakers == Stages \union {"orchestration", "backend_routing", "replay"}
Passing == {"start", "skip", "budgets", "threads_clamped", "safe_mode", "decision_contract",
            "calibration_guardrail", "rollout", "context", "progress", "envelope",
            "dropped_windows", "segments_regrouped", "latency_profile"}
Timers == Stages \union {None}
Entries == [stage : Speakers, code : Passing \union Terminal, timer : Timers]

Closes(l, i, j) == l[j].stage = l[i].stage /\ l[j].code \in Terminal

\* The stage started by entry i is closed in l, once and before another stage speaks.
Closed(l, i) ==
    \E j \in i + 1 .. Len(l) :
        /\ Closes(l, i, j)
        /\ \A k \in i + 1 .. j - 1 : l[k].stage \notin Stages \ {l[i].stage}
        /\ \A k \in j + 1 .. Len(l) : ~Closes(l, i, k)

AllClosed(l) == \A i \in 1 .. Len(l) : l[i].code = "start" => Closed(l, i)

\* The last entry starts stage s, and every stage before it is closed.
Open(l, s) ==
    /\ Len(l) >= 1 /\ l[Len(l)].code = "start" /\ l[Len(l)].stage = s
    /\ \A i \in 1 .. Len(l) - 1 : l[i].code = "start" => Closed(l, i)

Ended(l, s) == \E k \in 1 .. Len(l) : l[k].stage = s /\ l[k].code \in Terminal

Brackets ==
    /\ log \in Seq(Entries)
    /\ phase = "running" => Open(log, config[pos])
    /\ phase = "persisting" => Open(log, "persist") /\ log[Len(log)] = Entry("persist", "start", "persist")
    /\ phase \notin {"running", "persisting"} => AllClosed(log)

EndedBefore ==
    /\ phase \in {"build", "begin", "loop", "running"} =>
          \A s : Ended(log, s) => Before(s) /\ s # "persist"
    /\ phase \in {"assemble", "persisting"} => ~Ended(log, "persist")

RowKept ==
    /\ phase \notin {"finalize", "done"} => row = <<>>
    /\ phase = "persisting" => has_stage("persist") /\ request.persist
    /\ OkMeansPersisted

LogInv == Brackets /\ EndedBefore /\ RowKept /\ FailureIsLastEvent

\* Sequences that grow.
Extends(l, m) ==
    /\ l \in Seq(Entries) /\ m \in Seq(Entries)
    /\ Len(l) <= Len(m) /\ \A k \in 1 .. Len(l) : m[k] = l[k]

\* The entries of m that l does not have.
NewIn(l, m) == Len(l) + 1 .. Len(m)

LEMMA Lengths ==
    ASSUME NEW l, NEW m, Extends(l, m)
    PROVE  Len(l) \in Nat /\ Len(m) \in Nat
  BY LenProperties DEF Extends

\* What was closed stays closed, if no stage ends a second time.
LEMMA KeepsClosed ==
    ASSUME NEW l, NEW m, Extends(l, m), NEW i \in 1 .. Len(l), Closed(l, i),
           \A k \in NewIn(l, m) : m[k].code \in Terminal => ~Ended(l, m[k].stage)
    PROVE  Closed(m, i)
  <1>0. Len(l) \in Nat /\ Len(m) \in Nat /\ Len(l) <= Len(m)
    BY Lengths DEF Extends
  <1>1. PICK j \in i + 1 .. Len(l) :
           /\ Closes(l, i, j)
           /\ \A k \in i + 1 .. j - 1 : l[k].stage \notin Stages \ {l[i].stage}
           /\ \A k \in j + 1 .. Len(l) : ~Closes(l, i, k)
    BY DEF Closed
  <1>2. j \in i + 1 .. Len(m) /\ j \in 1 .. Len(l) /\ m[i] = l[i] /\ m[j] = l[j]
    BY <1>0, <1>1 DEF Extends
  <1>3. \A k \in i + 1 .. j - 1 : m[k].stage \notin Stages \ {m[i].stage}
    <2> TAKE k \in i + 1 .. j - 1
    <2>1. k \in 1 .. Len(l)
      BY <1>0, <1>1
    <2> QED BY <1>1, <1>2, <2>1 DEF Extends
  <1>4. \A k \in j + 1 .. Len(m) : ~Closes(m, i, k)
    <2> TAKE k \in j + 1 .. Len(m)
    <2>1. CASE k <= Len(l)
      <3>1. k \in 1 .. Len(l) /\ k \in j + 1 .. Len(l)
        BY <1>0, <1>1, <2>1
      <3> QED BY <1>1, <1>2, <3>1 DEF Extends, Closes
    <2>2. CASE ~(k <= Len(l))
      <3>1. k \in NewIn(l, m)
        BY <1>0, <1>1, <2>2 DEF NewIn
      <3>2. Ended(l, m[i].stage)
        BY <1>1, <1>2 DEF Ended, Closes
      <3> QED BY <3>1, <3>2 DEF Closes
    <2> QED BY <2>1, <2>2
  <1> QED BY <1>1, <1>2, <1>3, <1>4 DEF Closed, Closes

\* Entries that start nothing.
LEMMA QuietAppend ==
    ASSUME NEW l, NEW m, Extends(l, m), AllClosed(l),
           \A k \in NewIn(l, m) : m[k].code # "start" /\ (m[k].code \in Terminal => ~Ended(l, m[k].stage))
    PROVE  AllClosed(m)
  <1> SUFFICES ASSUME NEW i \in 1 .. Len(m), m[i].code = "start" PROVE Closed(m, i)
    BY DEF AllClosed
  <1>1. i \in 1 .. Len(l)
    BY Lengths DEF Extends, NewIn
  <1>2. Closed(l, i)
    BY <1>1 DEF AllClosed, Extends
  <1> QED BY <1>1, <1>2, KeepsClosed

\* A stage starts with the last entry.
LEMMA OpenAppend ==
    ASSUME NEW l, NEW m, Extends(l, m), AllClosed(l), Len(l) < Len(m), NEW s,
           m[Len(m)].code = "start", m[Len(m)].stage = s,
           \A k \in NewIn(l, m) : /\ m[k].code \notin Terminal
                                  /\ k # Len(m) => m[k].code # "start"
    PROVE  Open(m, s)
  <1>0. Len(l) \in Nat /\ Len(m) \in Nat
    BY Lengths
  <1>1. ASSUME NEW i \in 1 .. Len(m) - 1, m[i].code = "start" PROVE Closed(m, i)
    <2>1. i \in 1 .. Len(l)
      BY <1>0, <1>1 DEF Extends, NewIn
    <2>2. Closed(l, i)
      BY <1>1, <2>1 DEF AllClosed, Extends
    <2> QED BY <2>1, <2>2, KeepsClosed
  <1> QED BY <1>0, <1>1 DEF Open

\* The open stage ends with entry j, and nobody else speaks before it.
LEMMA CloseAppend ==
    ASSUME NEW l, NEW m, Extends(l, m), NEW s, Open(l, s), ~Ended(l, s),
           NEW j \in NewIn(l, m), m[j].stage = s, m[j].code \in Terminal,
           \A k \in NewIn(l, m) : /\ m[k].code # "start"
                                  /\ k # j => m[k].code \notin Terminal
                                  /\ k < j => m[k].stage \notin Stages \ {s}
    PROVE  AllClosed(m)
  <1>0. Len(l) \in Nat /\ Len(m) \in Nat /\ Len(l) >= 1 /\ Len(l) <= Len(m)
    BY Lengths DEF Open, Extends
  <1> SUFFICES ASSUME NEW i \in 1 .. Len(m), m[i].code = "start" PROVE Closed(m, i)
    BY DEF AllClosed
  <1>1. i \in 1 .. Len(l) /\ m[i] = l[i]
    BY <1>0 DEF Extends, NewIn
  <1>2. CASE i # Len(l)
    <2>1. Closed(l, i)
      BY <1>0, <1>1, <1>2 DEF Open
    <2>2. \A k \in NewIn(l, m) : m[k].code \in Terminal => ~Ended(l, m[k].stage)
      OBVIOUS
    <2> QED BY <1>1, <2>1, <2>2, KeepsClosed
  <1>3. CASE i = Len(l)
    <2>1. m[i].stage = s /\ j \in i + 1 .. Len(m)
      BY <1>1, <1>3 DEF Open, NewIn
    <2>2. \A k \in i + 1 .. Len(m) : k \in NewIn(l, m)
      BY <1>3 DEF NewIn
    <2>3. Closes(m, i, j)
      BY <2>1 DEF Closes
    <2>4. \A k \in i + 1 .. j - 1 : m[k].stage \notin Stages \ {m[i].stage}
      <3> TAKE k \in i + 1 .. j - 1
      <3>1. k \in NewIn(l, m) /\ k < j
        BY <1>0, <1>3 DEF NewIn
      <3> QED BY <2>1, <3>1
    <2>5. \A k \in j + 1 .. Len(m) : ~Closes(m, i, k)
      <3> TAKE k \in j + 1 .. Len(m)
      <3>1. k \in NewIn(l, m) /\ k # j
        BY <1>0 DEF NewIn
      <3> QED BY <3>1 DEF Closes
    <2> QED BY <2>1, <2>3, <2>4, <2>5 DEF Closed
  <1> QED BY <1>2, <1>3

\* Which stages have ended in the longer sequence.
LEMMA EndedIn ==
    ASSUME NEW l, NEW m, Extends(l, m), NEW s, Ended(m, s)
    PROVE  Ended(l, s) \/ \E k \in NewIn(l, m) : m[k].stage = s /\ m[k].code \in Terminal
  <1>1. PICK k \in 1 .. Len(m) : m[k].stage = s /\ m[k].code \in Terminal
    BY DEF Ended
  <1>2. CASE k <= Len(l)
    BY <1>1, <1>2, Lengths DEF Ended, Extends
  <1>3. CASE ~(k <= Len(l))
    BY <1>1, <1>3, Lengths DEF NewIn
  <1> QED BY <1>2, <1>3

\* One or several entries are appended.
LEMMA Appended ==
    ASSUME NEW l \in Seq(Entries), NEW e \in Seq(Entries)
    PROVE  /\ Extends(l, l \o e) /\ Len(l \o e) = Len(l) + Len(e) /\ Len(l) \in Nat /\ Len(e) \in Nat
           /\ \A k \in NewIn(l, l \o e) : k - Len(l) \in 1 .. Len(e) /\ (l \o e)[k] = e[k - Len(l)]
  <1>1. /\ l \o e \in Seq(Entries) /\ Len(l \o e) = Len(l) + Len(e)
        /\ \A i \in 1 .. Len(l) + Len(e) : (l \o e)[i] = IF i <= Len(l) THEN l[i] ELSE e[i - Len(l)]
    BY ConcatProperties
  <1>2. Len(l) \in Nat /\ Len(e) \in Nat
    BY LenProperties
  <1>3. Extends(l, l \o e)
    BY <1>1, <1>2 DEF Extends
  <1> QED BY <1>1, <1>2, <1>3 DEF NewIn

LEMMA AppendedOne ==
    ASSUME NEW l \in Seq(Entries), NEW e \in Entries
    PROVE  /\ Extends(l, Append(l, e)) /\ Len(Append(l, e)) = Len(l) + 1 /\ Len(l) \in Nat
           /\ NewIn(l, Append(l, e)) = {Len(l) + 1} /\ Append(l, e)[Len(l) + 1] = e
  <1>1. Len(l) \in Nat
    BY LenProperties
  <1> QED BY <1>1 DEF Extends, NewIn

-----------------------------------------------------------------------------
(* The log at each step.                                                   *)

\* Entries are well formed, and a start is no end.
LEMMA EntryShape ==
    ASSUME IInv
    PROVE  /\ \A x \in Speakers, c \in Passing \union Terminal, t \in Timers : Entry(x, c, t) \in Entries
           /\ \A x, c, t : Entry(x, c, t).stage = x /\ Entry(x, c, t).code = c
           /\ Stages \subseteq Speakers /\ Stages \subseteq Timers /\ timer \in Timers /\ None \in Timers
           /\ \A c \in Passing : c \notin Terminal
           /\ Failures \subseteq Terminal /\ "start" \in Passing
  <1>1. timer \in Timers
    BY DEF IInv, TypeOK, Timers
  <1>2. (\A c \in Passing : c \notin Terminal) /\ "start" \in Passing
    BY DEF Passing, Terminal, Failures
  <1>3. Failures \subseteq Terminal /\ Stages \subseteq Speakers /\ Stages \subseteq Timers /\ None \in Timers
    BY DEF Terminal, Speakers, Timers
  <1> QED BY <1>1, <1>2, <1>3 DEF Entry, Entries

\* The stage at the current position has not ended, nor has anything but a stage.
LEMMA NotEndedYet ==
    ASSUME IInv, LogInv, phase \in {"begin", "loop", "running"}
    PROVE  /\ \A x : Ended(log, x) => x \in Stages
           /\ phase # "begin" /\ pos <= Len(config) => ~Ended(log, config[pos])
  <1>1. /\ pos \in Nat /\ pos >= 1 /\ pos <= Len(config) + 1
        /\ Len(config) \in Nat /\ DOMAIN config = 1 .. Len(config)
        /\ \A i \in 1 .. Len(config) : config[i] \in Stages
        /\ validate(config)
    BY LenProperties, ElementOfSeq DEF IInv, TypeOK, Validated
  <1>2. \A x : Before(x) => x \in Stages
    BY <1>1 DEF Before
  <1>3. pos <= Len(config) => ~Before(config[pos])
    BY <1>1 DEF Before, validate
  <1> QED BY <1>2, <1>3 DEF LogInv, EndedBefore

\* A run that fails closes its log with the failure.
LEMMA FailLog ==
    ASSUME IInv, LogInv, phase \notin {"finalize", "done"}, NEW code, Fail(code), code # "ok",
           log' \in Seq(Entries), AllClosed(log'), code \in Failures => log'[Len(log')].code = code,
           row' = <<>>
    PROVE  LogInv'
  <1>1. phase' = "finalize" /\ outcome' = code
    BY DEF Fail
  <1>2. AllClosed(log)' /\ log' \in Seq(Entries)
    BY DEF AllClosed, Closed, Closes
  <1>3. OkMeansPersisted'
    BY <1>1 DEF OkMeansPersisted
  <1> QED BY <1>1, <1>2, <1>3 DEF LogInv, Brackets, EndedBefore, RowKept, FailureIsLastEvent

\* A stage that has not started is cancelled: its only event.
LEMMA CancelLog ==
    ASSUME IInv, LogInv, NEW x \in Speakers, ~Ended(log, x), phase \notin {"running", "persisting", "finalize", "done"},
           NEW r \in Seq(Entries), \A k \in 1 .. Len(r) : r[k].code \notin Terminal \union {"start"},
           log' = log \o r \o <<Entry(x, "cancelled", None)>>, Fail("cancelled"), row' = row
    PROVE  LogInv'
  <1> DEFINE e == Entry(x, "cancelled", None)
             l == log \o r
  <1>0. "cancelled" \in Terminal
    BY DEF Failures, Terminal
  <1>1. e \in Entries /\ e.code = "cancelled" /\ e.stage = x /\ "cancelled" \in Terminal /\ "cancelled" \in Failures
        /\ "cancelled" # "start"
    BY <1>0, EntryShape DEF Failures
  <1>2. log \in Seq(Entries) /\ AllClosed(log) /\ row = <<>>
    BY DEF LogInv, Brackets, RowKept
  <1>3. Extends(log, l) /\ l \in Seq(Entries)
        /\ \A k \in NewIn(log, l) : l[k].code \notin Terminal \union {"start"}
    <2>1. Extends(log, l) /\ \A k \in NewIn(log, l) : k - Len(log) \in 1 .. Len(r) /\ l[k] = r[k - Len(log)]
      BY <1>2, Appended
    <2>2. l \in Seq(Entries)
      BY <2>1 DEF Extends
    <2> HIDE DEF l
    <2> QED BY <2>1, <2>2
  <1>4. AllClosed(l)
    BY <1>2, <1>3, QuietAppend
  <1>5. ~Ended(l, x)
    BY <1>3, EndedIn
  <1> HIDE DEF l, e
  <1>6. log' = Append(l, e)
    BY <1>3 DEF l, e
  <1>7. /\ Extends(l, log') /\ NewIn(l, log') = {Len(l) + 1} /\ Len(log') = Len(l) + 1
        /\ log'[Len(l) + 1] = e /\ log' \in Seq(Entries)
    <2>1. l \in Seq(Entries) /\ e \in Entries
      BY <1>1, <1>3
    <2>2. /\ Extends(l, log') /\ NewIn(l, log') = {Len(l) + 1} /\ Len(log') = Len(l) + 1
          /\ log'[Len(l) + 1] = e
      BY <1>6, <2>1, AppendedOne
    <2> QED BY <2>2 DEF Extends
  <1>8. AllClosed(log')
    BY <1>1, <1>4, <1>5, <1>7, QuietAppend
  <1> QED BY <1>1, <1>2, <1>7, <1>8, FailLog

\* The stage at work fails: one event closes it.
LEMMA FailedStageLog ==
    ASSUME IInv, LogInv, phase \in {"running", "persisting"}, NEW x \in Speakers, Open(log, x), ~Ended(log, x),
           NEW code \in Failures, NEW t \in Timers, log' = Append(log, Entry(x, code, t)), Fail(code)
    PROVE  log' \in Seq(Entries) /\ AllClosed(log') /\ log'[Len(log')].code = code /\ (row' = <<>> => LogInv')
  <1> DEFINE e == Entry(x, code, t)
  <1>1. e \in Entries /\ e.code = code /\ e.stage = x /\ code \in Terminal /\ code # "start" /\ code # "ok"
    BY EntryShape DEF Failures
  <1>2. log \in Seq(Entries)
    BY DEF LogInv, Brackets
  <1> HIDE DEF e
  <1>3. log' = Append(log, e)
    BY DEF e
  <1>4. /\ Extends(log, log') /\ NewIn(log, log') = {Len(log) + 1} /\ Len(log') = Len(log) + 1
        /\ log'[Len(log) + 1] = e /\ log' \in Seq(Entries) /\ Len(log) \in Nat
    BY <1>1, <1>2, <1>3, AppendedOne DEF Extends
  <1>5. /\ Len(log) + 1 \in NewIn(log, log')
        /\ \A k \in NewIn(log, log') : /\ k = Len(log) + 1 /\ log'[k].code # "start"
                                         /\ ~(k < Len(log) + 1)
    BY <1>1, <1>4
  <1>6. AllClosed(log')
    <2>1. log'[Len(log) + 1].stage = x /\ log'[Len(log) + 1].code \in Terminal
      BY <1>1, <1>4
    <2> QED BY <1>4, <1>5, <2>1, CloseAppend
  <1> QED BY <1>1, <1>4, <1>6, FailLog

\* A function on an initial segment of the numbers is a sequence.
LEMMA FunctionIsSeq ==
    ASSUME NEW S, NEW n \in Nat, NEW f \in [1 .. n -> S]
    PROVE  f \in Seq(S) /\ Len(f) = n
  <1>1. f \in Seq(S)
    BY SeqDef
  <1>2. DOMAIN f = 1 .. n /\ DOMAIN f = 1 .. Len(f) /\ Len(f) \in Nat
    BY <1>1, LenProperties
  <1>3. \A k \in Nat : k \in 1 .. n <=> k \in 1 .. Len(f)
    BY <1>2
  <1>4. Len(f) <= n /\ n <= Len(f)
    BY <1>2, <1>3
  <1> QED BY <1>1, <1>2, <1>4

\* A stage succeeds: its codes, the last of which closes it.
Codes == {<<"ok">>, <<"silence">>, <<"fallback">>, <<"context", "ok">>, <<"progress", "ok">>}

LEMMA SucceedLog ==
    ASSUME IInv, LogInv, phase = "running", pos <= Len(config), config[pos] # "persist",
           NEW codes \in Codes, Succeed(config[pos], codes)
    PROVE  LogInv'
  <1> DEFINE x == config[pos]
             e == [i \in DOMAIN codes |-> Entry(x, codes[i], timer)]
             n == Len(codes)
  <1>1. x \in Stages /\ x \in Speakers
    BY EntryShape, ElementOfSeq, LenProperties DEF IInv, TypeOK
  <1>2. /\ n \in Nat /\ n >= 1 /\ DOMAIN codes = 1 .. n
        /\ codes[n] \in Terminal
        /\ \A k \in 1 .. n : codes[k] # "start" /\ codes[k] \in Passing \union Terminal
        /\ \A k \in 1 .. n : k # n => codes[k] \notin Terminal
    <2>1. /\ "context" \in Passing /\ "progress" \in Passing
          /\ {"ok", "silence", "fallback"} \subseteq Terminal
          /\ "context" \notin Terminal /\ "progress" \notin Terminal
      BY DEF Passing, Terminal, Failures
    <2>2. CASE \E c \in {"ok", "silence", "fallback"} : codes = <<c>>
      BY <2>1, <2>2
    <2>3. CASE \E c \in {"context", "progress"} : codes = <<c, "ok">>
      <3>1. PICK c \in {"context", "progress"} : codes = <<c, "ok">>
        BY <2>3
      <3>2. n = 2 /\ DOMAIN codes = 1 .. 2 /\ codes[1] = c /\ codes[2] = "ok"
        BY <3>1
      <3>3. \A k \in 1 .. 2 : k = 1 \/ k = 2
        OBVIOUS
      <3> QED BY <2>1, <3>1, <3>2, <3>3
    <2> QED BY <2>2, <2>3 DEF Codes
  <1>3. e \in Seq(Entries) /\ Len(e) = n
    <2>1. \A i \in 1 .. n : Entry(x, codes[i], timer) \in Entries
      BY <1>1, <1>2, EntryShape
    <2>2. e \in [1 .. n -> Entries]
      BY <1>2, <2>1
    <2>3. n \in Nat
      BY <1>2
    <2> HIDE DEF e, n
    <2> QED BY <2>2, <2>3, FunctionIsSeq
  <1>4. \A k \in 1 .. n : e[k].stage = x /\ e[k].code = codes[k]
    <2> TAKE k \in 1 .. n
    <2>1. e[k] = Entry(x, codes[k], timer)
      BY <1>2
    <2> QED BY <2>1, EntryShape
  <1>5. log \in Seq(Entries) /\ Open(log, x) /\ ~Ended(log, x) /\ row = <<>>
    BY NotEndedYet DEF LogInv, Brackets, RowKept
  <1>6. log' = log \o e
    BY DEF Succeed
  <1> HIDE DEF e, n
  <1>7. /\ Extends(log, log') /\ Len(log') = Len(log) + n /\ Len(log) \in Nat /\ log' \in Seq(Entries)
        /\ \A k \in NewIn(log, log') : /\ k - Len(log) \in 1 .. n
                                         /\ log'[k].stage = x /\ log'[k].code = codes[k - Len(log)]
    <2>1. /\ Extends(log, log') /\ Len(log') = Len(log) + Len(e) /\ Len(log) \in Nat
          /\ \A k \in NewIn(log, log') : k - Len(log) \in 1 .. Len(e) /\ log'[k] = e[k - Len(log)]
      BY <1>3, <1>5, <1>6, Appended
    <2>2. log' \in Seq(Entries)
      BY <2>1 DEF Extends
    <2> QED BY <1>3, <1>4, <2>1, <2>2
  <1>8. Len(log') \in NewIn(log, log') /\ Len(log') - Len(log) = n
    BY <1>2, <1>7 DEF NewIn
  <1>9. \A k \in NewIn(log, log') : k # Len(log') => k - Len(log) # n
    BY <1>2, <1>7 DEF NewIn
  <1>10. AllClosed(log')
    BY <1>2, <1>5, <1>7, <1>8, <1>9, CloseAppend, SMTT(30)
  <1>11. /\ phase' = "loop" /\ pos' = pos + 1 /\ UNCHANGED <<config, request, row, outcome>>
    BY DEF Succeed
  <1>12. EndedBefore'
    <2> SUFFICES ASSUME NEW y, Ended(log', y) PROVE Before(y)' /\ y # "persist"
      BY <1>11 DEF EndedBefore, Ended
    <2>1. Ended(log, y) \/ y = x
      BY <1>7, EndedIn
    <2>2. Before(y) \/ y = x
      BY <2>1 DEF LogInv, EndedBefore
    <2> QED BY <1>11, <2>1, <2>2, OneMore DEF LogInv, EndedBefore
  <1>13. AllClosed(log)'
    BY <1>10 DEF AllClosed, Closed, Closes
  <1>14. outcome = None
    BY DEF IInv, NoOutcomeYet
  <1> QED
    BY <1>5, <1>7, <1>11, <1>12, <1>13, <1>14
       DEF LogInv, Brackets, RowKept, OkMeansPersisted, FailureIsLastEvent, Failures, None

\* Entries that neither start nor end a stage.
Calm(e) == e \in Seq(Entries) /\ \A k \in 1 .. Len(e) : e[k].code \in Passing \ {"start"}

LEMMA CalmEntry ==
    ASSUME IInv, NEW x \in Speakers, NEW c \in Passing \ {"start"}, NEW t \in Timers
    PROVE  Calm(<<Entry(x, c, t)>>) /\ Calm(<<>>)
  <1>1. Entry(x, c, t) \in Entries /\ Entry(x, c, t).code = c
    BY EntryShape
  <1> QED BY <1>1 DEF Calm

LEMMA CalmConcat ==
    ASSUME NEW d, NEW e, Calm(d), Calm(e)
    PROVE  Calm(d \o e)
  <1>1. d \in Seq(Entries) /\ e \in Seq(Entries) /\ Len(d) \in Nat /\ Len(e) \in Nat
    BY LenProperties DEF Calm
  <1>2. /\ d \o e \in Seq(Entries) /\ Len(d \o e) = Len(d) + Len(e)
        /\ \A k \in 1 .. Len(d) + Len(e) : (d \o e)[k] = IF k <= Len(d) THEN d[k] ELSE e[k - Len(d)]
    BY <1>1, ConcatProperties
  <1>3. ASSUME NEW k \in 1 .. Len(d) + Len(e)
        PROVE  (d \o e)[k].code \in Passing \ {"start"}
    <2>1. CASE k <= Len(d)
      BY <1>1, <1>2, <2>1 DEF Calm
    <2>2. CASE ~(k <= Len(d))
      <3>1. k - Len(d) \in 1 .. Len(e)
        BY <1>1, <2>2
      <3> QED BY <1>2, <2>2, <3>1 DEF Calm
    <2> QED BY <2>1, <2>2
  <1> QED BY <1>2, <1>3 DEF Calm

\* Such entries leave closed what is closed, and end nothing.
LEMMA CalmAppend ==
    ASSUME IInv, NEW l \in Seq(Entries), AllClosed(l), NEW e, Calm(e)
    PROVE  /\ l \o e \in Seq(Entries) /\ AllClosed(l \o e)
           /\ \A x : Ended(l \o e, x) => Ended(l, x)
  <1> DEFINE m == l \o e
  <1>1. Extends(l, m) /\ \A k \in NewIn(l, m) : m[k].code \in Passing \ {"start"}
    <2>1. e \in Seq(Entries)
      BY DEF Calm
    <2>2. Extends(l, m) /\ \A k \in NewIn(l, m) : k - Len(l) \in 1 .. Len(e) /\ m[k] = e[k - Len(l)]
      BY <2>1, Appended
    <2> HIDE DEF m
    <2> QED BY <2>2 DEF Calm
  <1> HIDE DEF m
  <1>2. \A k \in NewIn(l, m) : m[k].code # "start" /\ m[k].code \notin Terminal
    BY <1>1, EntryShape
  <1>3. AllClosed(m)
    BY <1>1, <1>2, QuietAppend
  <1>4. \A x : Ended(m, x) => Ended(l, x)
    BY <1>1, <1>2, EndedIn
  <1> QED BY <1>1, <1>3, <1>4 DEF Extends, m

\* The invariant speaks of nothing but these.
LEMMA LogFrame ==
    ASSUME /\ log' \in Seq(Entries)
           /\ phase' = "running" => Open(log', config'[pos'])
           /\ phase' = "persisting" => Open(log', "persist") /\ log'[Len(log')] = Entry("persist", "start", "persist")
           /\ phase' \notin {"running", "persisting"} => AllClosed(log'),
           EndedBefore', RowKept', FailureIsLastEvent'
    PROVE  LogInv'
  BY DEF LogInv, Brackets, Open, AllClosed, Closed, Closes, Entry

LEMMA EndedFrame ==
    ASSUME /\ phase' \in {"build", "begin", "loop", "running"} =>
                 \A x : Ended(log', x) => Before(x)' /\ x # "persist"
           /\ phase' \in {"assemble", "persisting"} => ~Ended(log', "persist")
    PROVE  EndedBefore'
  BY DEF EndedBefore, Ended

\* Before the end of a run there is no row and no outcome.
LEMMA GoingOn ==
    ASSUME IInv, LogInv, phase \notin {"finalize", "done"}, phase' # "persisting",
           row' = row, outcome' = outcome
    PROVE  RowKept' /\ FailureIsLastEvent'
  <1>1. row = <<>> /\ outcome = None
    BY DEF LogInv, RowKept, IInv, TypeOK, NoOutcomeYet
  <1> QED BY <1>1 DEF RowKept, OkMeansPersisted, FailureIsLastEvent, Failures, None

\* The loop goes on, or is left, with such entries.
LEMMA CalmLog ==
    ASSUME IInv, LogInv, phase = "loop", NEW e, Calm(e), log' = log \o e,
           \/ phase' = "loop" /\ pos' = pos + 1
           \/ phase' = "assemble",
           UNCHANGED <<config, request, row, outcome>>
    PROVE  LogInv'
  <1>1. log \in Seq(Entries) /\ AllClosed(log)
    BY DEF LogInv, Brackets
  <1>2. log' \in Seq(Entries) /\ AllClosed(log') /\ \A x : Ended(log', x) => Ended(log, x)
    BY <1>1, CalmAppend
  <1>3. EndedBefore'
    BY <1>2, OneMore, EndedFrame DEF LogInv, EndedBefore
  <1>4. RowKept' /\ FailureIsLastEvent'
    BY GoingOn
  <1> QED BY <1>2, <1>3, <1>4, LogFrame

LEMMA PassLog ==
    ASSUME IInv, LogInv, SkipStage \/ PassPersist
    PROVE  LogInv'
  <1>0. log \in Seq(Entries)
    BY DEF LogInv, Brackets
  <1>1. CASE SkipStage
    <2>1. PICK x \in Stages : AtStage(x) /\ log' = Append(log, Entry(x, "skip", timer))
      BY <1>1 DEF SkipStage
    <2>2. "skip" \in Passing \ {"start"} /\ x \in Speakers /\ timer \in Timers
      BY EntryShape DEF Passing
    <2>3. Calm(<<Entry(x, "skip", timer)>>) /\ Entry(x, "skip", timer) \in Entries
      BY <2>2, CalmEntry, EntryShape
    <2>4. log' = log \o <<Entry(x, "skip", timer)>>
      BY <1>0, <2>1, <2>3
    <2> QED BY <1>1, <2>1, <2>3, <2>4, CalmLog DEF SkipStage, AtStage
  <1>2. CASE PassPersist
    <2>1. Calm(<<>>)
      BY DEF Calm
    <2>2. log' = log \o <<>>
      BY <1>0, <1>2, ConcatEmptySeq DEF PassPersist
    <2> QED BY <1>2, <2>1, <2>2, CalmLog DEF PassPersist, AtStage
  <1> QED BY <1>1, <1>2

LEMMA ProfileLog ==
    ASSUME IInv, LogInv, Profile
    PROVE  LogInv'
  <1>1. PICK regrouped \in {<<>>, <<Entry("orchestration", "segments_regrouped", timer)>>} :
           log' = log \o regrouped \o <<Entry("orchestration", "latency_profile", timer)>>
    BY DEF Profile
  <1>2. "orchestration" \in Speakers /\ timer \in Timers
        /\ "segments_regrouped" \in Passing \ {"start"} /\ "latency_profile" \in Passing \ {"start"}
    BY EntryShape DEF Passing, Speakers
  <1> DEFINE e == <<Entry("orchestration", "latency_profile", timer)>>
  <1>3. Calm(regrouped) /\ Calm(e)
    BY <1>1, <1>2, CalmEntry
  <1>4. log \in Seq(Entries)
    BY DEF LogInv, Brackets
  <1> HIDE DEF e
  <1>5. log' = log \o (regrouped \o e)
    BY <1>1, <1>3, <1>4, ConcatAssociative DEF e, Calm
  <1>6. Calm(regrouped \o e)
    BY <1>3, CalmConcat
  <1> QED BY <1>5, <1>6, CalmLog DEF Profile

LEMMA BuildLog ==
    ASSUME IInv, LogInv, Build
    PROVE  LogInv'
  <1>0. phase = "build" /\ log \in Seq(Entries) /\ AllClosed(log) /\ row = <<>>
        /\ UNCHANGED <<row, config, pos>>
    BY DEF Build, LogInv, Brackets, RowKept
  <1>1. CASE phase' = "begin"
    <2>1. PICK clamped \in {<<>>, <<Entry("orchestration", "threads_clamped", None)>>} :
             log' = <<Entry("orchestration", "budgets", None)>> \o clamped
      BY <1>1 DEF Build
    <2>2. "orchestration" \in Speakers /\ None \in Timers
          /\ "threads_clamped" \in Passing \ {"start"} /\ "budgets" \in Passing \ {"start"}
      BY EntryShape DEF Passing, Speakers
    <2>3. Calm(<<Entry("orchestration", "budgets", None)>>) /\ Calm(clamped)
      BY <2>1, <2>2, CalmEntry
    <2>4. Calm(log')
      BY <2>1, <2>3, CalmConcat
    <2>5. log' \in Seq(Entries) /\ \A k \in 1 .. Len(log') : log'[k].code # "start" /\ log'[k].code \notin Terminal
      BY <2>4, EntryShape DEF Calm
    <2>6. AllClosed(log') /\ \A x : ~Ended(log', x)
      BY <2>5 DEF AllClosed, Ended
    <2>7. EndedBefore'
      BY <2>6, EndedFrame
    <2>8. outcome' = outcome
      BY <1>1 DEF Build
    <2> QED BY <1>0, <1>1, <2>5, <2>6, <2>7, <2>8, GoingOn, LogFrame
  <1>2. CASE phase' # "begin"
    <2>1. phase' = "done" /\ log' = log /\ outcome' \in {"setup_failed", "invalid_config"}
      BY <1>2 DEF Build
    <2>2. RowKept' /\ FailureIsLastEvent'
      BY <1>0, <2>1 DEF RowKept, OkMeansPersisted, FailureIsLastEvent, Failures
    <2>3. EndedBefore'
      BY <2>1 DEF EndedBefore
    <2> QED BY <1>0, <2>1, <2>2, <2>3, LogFrame
  <1> QED BY <1>1, <1>2

LEMMA BeginLog ==
    ASSUME IInv, LogInv, BeginBody
    PROVE  LogInv'
  <1>0. phase = "begin" /\ log \in Seq(Entries) /\ AllClosed(log) /\ UNCHANGED <<row, config, pos>>
    BY DEF BeginBody, LogInv, Brackets
  <1>1. CASE tripped
    <2>1. log' = Append(log, Entry("orchestration", "cancelled", None)) /\ Fail("cancelled")
      BY <1>1 DEF BeginBody
    <2>2. "orchestration" \in Speakers /\ "orchestration" \notin Stages
      BY DEF Speakers, Stages
    <2>3. ~Ended(log, "orchestration")
      BY <1>0, <2>2, NotEndedYet
    <2>4. <<>> \in Seq(Entries) /\ log' = log \o <<>> \o <<Entry("orchestration", "cancelled", None)>>
      <3>1. Entry("orchestration", "cancelled", None) \in Entries
        <4>1. "cancelled" \in Terminal
          BY DEF Terminal, Failures
        <4> QED BY <2>2, <4>1, EntryShape
      <3>2. log \o <<>> = log
        BY <1>0, ConcatEmptySeq
      <3> QED BY <1>0, <2>1, <3>1, <3>2
    <2>5. \A k \in 1 .. Len(<<>>) : <<>>[k].code \notin Terminal \union {"start"}
      BY EmptySeq
    <2>6. phase \notin {"running", "persisting", "finalize", "done"} /\ row' = row
      BY <1>0
    <2> DEFINE r == <<>>
    <2>7. r \in Seq(Entries) /\ (\A k \in 1 .. Len(r) : r[k].code \notin Terminal \union {"start"})
          /\ log' = log \o r \o <<Entry("orchestration", "cancelled", None)>>
      BY <2>4, <2>5
    <2> HIDE DEF r
    <2> QED BY <2>1, <2>2, <2>3, <2>6, <2>7, CancelLog
  <1>2. CASE ~tripped
    <2>1. phase' = "loop" /\ UNCHANGED <<log, outcome>>
      BY <1>2 DEF BeginBody
    <2>2. \A x : Before(x)' <=> Before(x)
      BY <1>0 DEF Before
    <2>3. EndedBefore'
      BY <1>0, <2>1, <2>2, EndedFrame DEF LogInv, EndedBefore
    <2> QED BY <1>0, <2>1, <2>3, GoingOn, LogFrame
  <1> QED BY <1>1, <1>2

\* What execute_backend says about routing.
LEMMA RoutingShape ==
    ASSUME IInv, NEW x, NEW r \in RoutingEvents(x)
    PROVE  Calm(r)
  <1>1. "backend_routing" \in Speakers /\ timer \in Timers /\ "safe_mode" \in Passing \ {"start"}
        /\ "decision_contract" \in Passing \ {"start"} /\ "calibration_guardrail" \in Passing \ {"start"}
    BY EntryShape DEF Passing, Speakers
  <1> DEFINE a == Entry("backend_routing", "decision_contract", timer)
             b == Entry("backend_routing", "calibration_guardrail", timer)
  <1>2. Calm(<<>>) /\ Calm(<<Entry("backend_routing", "safe_mode", timer)>>) /\ Calm(<<a>>) /\ Calm(<<b>>)
    BY <1>1, CalmEntry
  <1>3. <<a, b>> = <<a>> \o <<b>>
    OBVIOUS
  <1>4. Calm(<<a, b>>)
    BY <1>2, <1>3, CalmConcat
  <1> HIDE DEF a, b
  <1> QED BY <1>2, <1>4 DEF RoutingEvents, a, b

LEMMA EntryFailsLog ==
    ASSUME IInv, LogInv, EntryFails
    PROVE  LogInv'
  <1>1. PICK x \in Stages :
           /\ Runs(x)
           /\ Admission(x) # "started"
           /\ \E r \in RoutingEvents(x) :
                 log' = IF Admission(x) = "requires" THEN log
                        ELSE log \o r \o <<Entry(x, "cancelled", None)>>
           /\ Fail(Admission(x))
    BY DEF EntryFails
  <1>2. ~Missing(x)
    BY <1>1, NothingMissing
  <1>3. Admission(x) = "cancelled"
    BY <1>1, <1>2 DEF Admission
  <1>4. PICK r \in RoutingEvents(x) : log' = log \o r \o <<Entry(x, "cancelled", None)>>
    BY <1>1, <1>3
  <1>5. phase = "loop" /\ ~Ended(log, x) /\ x \in Speakers /\ row' = row
    BY <1>1, NotEndedYet, EntryShape DEF Runs, AtStage, EntryFails
  <1>6. r \in Seq(Entries) /\ \A k \in 1 .. Len(r) : r[k].code \notin Terminal \union {"start"}
    BY <1>4, RoutingShape, EntryShape DEF Calm
  <1>7. Fail("cancelled")
    BY <1>1, <1>3
  <1> QED BY <1>4, <1>5, <1>6, <1>7, CancelLog

LEMMA StartLog ==
    ASSUME IInv, LogInv, StartStage
    PROVE  LogInv'
  <1>0. PICK x \in Stages :
           /\ Runs(x)
           /\ \E r \in RoutingEvents(x) :
                 log' = log \o r \o (IF x = "diarize" THEN <<Entry(x, "rollout", x), Entry(x, "start", x)>>
                                     ELSE <<Entry(x, "start", x)>>)
    BY DEF StartStage
  <1>1. PICK r \in RoutingEvents(x) :
           log' = log \o r \o (IF x = "diarize" THEN <<Entry(x, "rollout", x), Entry(x, "start", x)>>
                               ELSE <<Entry(x, "start", x)>>)
    BY <1>0
  <1>2. /\ phase = "loop" /\ config[pos] = x /\ phase' = "running"
        /\ UNCHANGED <<config, request, pos, row, outcome>>
    BY <1>0 DEF Runs, AtStage, StartStage
  <1>3. log \in Seq(Entries) /\ AllClosed(log)
    BY <1>2 DEF LogInv, Brackets
  <1> DEFINE l == log \o r
             e == IF x = "diarize" THEN <<Entry(x, "rollout", x), Entry(x, "start", x)>>
                  ELSE <<Entry(x, "start", x)>>
  <1>4. l \in Seq(Entries) /\ AllClosed(l) /\ \A y : Ended(l, y) => Ended(log, y)
    BY <1>1, <1>3, RoutingShape, CalmAppend
  <1>5. /\ e \in Seq(Entries) /\ Len(e) \in Nat /\ Len(e) >= 1
        /\ e[Len(e)].code = "start" /\ e[Len(e)].stage = x
        /\ \A k \in 1 .. Len(e) : e[k].code \notin Terminal /\ (k # Len(e) => e[k].code # "start")
    <2>1. /\ "rollout" \in Passing /\ "start" \in Passing
          /\ "rollout" \notin Terminal /\ "start" \notin Terminal /\ x \in Speakers /\ x \in Timers
      BY EntryShape DEF Passing
    <2> DEFINE a == Entry(x, "rollout", x)
               b == Entry(x, "start", x)
    <2>2. /\ a \in Entries /\ a.code = "rollout" /\ b \in Entries /\ b.code = "start" /\ b.stage = x
      BY <2>1, EntryShape
    <2> HIDE DEF a, b
    <2>3. CASE x = "diarize"
      <3>1. e = <<a, b>>
        BY <2>3 DEF a, b
      <3>2. Len(e) = 2 /\ e[1] = a /\ e[2] = b /\ e \in Seq(Entries)
        BY <2>2, <3>1
      <3>3. \A k \in 1 .. 2 : k = 1 \/ k = 2
        OBVIOUS
      <3> HIDE DEF e
      <3> QED BY <2>1, <2>2, <3>2, <3>3
    <2>4. CASE x # "diarize"
      <3>1. e = <<b>>
        BY <2>4 DEF b
      <3>2. Len(e) = 1 /\ e[1] = b /\ e \in Seq(Entries)
        BY <2>2, <3>1
      <3> HIDE DEF e
      <3> QED BY <2>1, <2>2, <3>2
    <2> QED BY <2>3, <2>4
  <1>6. log' = l \o e
    BY <1>1
  <1> HIDE DEF l, e
  <1>7. /\ Extends(l, log') /\ Len(log') = Len(l) + Len(e) /\ Len(l) \in Nat
        /\ \A k \in NewIn(l, log') : k - Len(l) \in 1 .. Len(e) /\ log'[k] = e[k - Len(l)]
    BY <1>4, <1>5, <1>6, Appended
  <1>8. Len(log') \in NewIn(l, log') /\ Len(log') - Len(l) = Len(e) /\ Len(l) < Len(log')
    BY <1>5, <1>7 DEF NewIn
  <1>9. \A k \in NewIn(l, log') : k # Len(log') => k - Len(l) # Len(e)
    BY <1>5, <1>7 DEF NewIn
  <1>10. log'[Len(log')].code = "start" /\ log'[Len(log')].stage = x
    BY <1>5, <1>7, <1>8
  <1>11. \A k \in NewIn(l, log') : log'[k].code \notin Terminal /\ (k # Len(log') => log'[k].code # "start")
    BY <1>5, <1>7, <1>9
  <1>12. Open(log', x) /\ log' \in Seq(Entries)
    BY <1>4, <1>7, <1>8, <1>10, <1>11, OpenAppend DEF Extends
  <1>13. \A y : Ended(log', y) => Ended(log, y)
    BY <1>4, <1>7, <1>11, EndedIn
  <1>14. \A y : Before(y)' <=> Before(y)
    BY <1>2 DEF Before
  <1>15. EndedBefore'
    BY <1>2, <1>13, <1>14, EndedFrame DEF LogInv, EndedBefore
  <1> QED BY <1>2, <1>12, <1>15, GoingOn, LogFrame

\* The stage at work, as every step out of "running" needs it.
LEMMA AtWork ==
    ASSUME IInv, LogInv, phase = "running"
    PROVE  /\ pos <= Len(config) /\ config[pos] \in Stages /\ config[pos] \in Speakers
           /\ Open(log, config[pos]) /\ ~Ended(log, config[pos])
           /\ log \in Seq(Entries) /\ row = <<>> /\ timer \in Timers
  <1>1. pos <= Len(config) /\ config[pos] \in Stages
    BY LenProperties, ElementOfSeq DEF IInv, TypeOK
  <1> QED BY <1>1, EntryShape, NotEndedYet DEF LogInv, Brackets, RowKept

LEMMA StageFailsLog ==
    ASSUME IInv, LogInv, StageFails \/ SeparateFenced \/ BackendContractViolation
    PROVE  LogInv'
  <1>0. phase = "running" /\ row' = row
    BY DEF StageFails, SeparateFenced, BackendContractViolation, Running
  <1>1. PICK code \in Failures, t \in Timers : log' = Append(log, Entry(config[pos], code, t)) /\ Fail(code)
    <2>1. CASE StageFails
      <3>1. \A x : FailureCodes(x) \subseteq Failures
        BY DEF FailureCodes, Failures
      <3> QED BY <1>0, <2>1, <3>1, AtWork DEF StageFails
    <2>2. CASE SeparateFenced
      BY <2>2, EntryShape DEF SeparateFenced, Running, Failures
    <2>3. CASE BackendContractViolation
      <3>1. CASE request.speculative
        BY <2>3, <3>1, EntryShape DEF BackendContractViolation, Running, Failures
      <3>2. CASE ~request.speculative
        BY <2>3, <3>2, EntryShape DEF BackendContractViolation, Running, Failures
      <3> QED BY <3>1, <3>2
    <2> QED BY <2>1, <2>2, <2>3
  <1> QED BY <1>0, <1>1, AtWork, FailedStageLog

LEMMA UnresolvedLog ==
    ASSUME IInv, LogInv, SpeculativeUnresolved
    PROVE  LogInv'
  <1>1. phase = "loop" /\ Fail("unresolved_backend") /\ log' = log /\ row' = row
    BY DEF SpeculativeUnresolved, Runs, AtStage
  <1>2. log \in Seq(Entries) /\ AllClosed(log) /\ row = <<>>
    BY <1>1 DEF LogInv, Brackets, RowKept
  <1>3. "unresolved_backend" \notin Failures
    BY DEF Failures
  <1> QED BY <1>1, <1>2, <1>3, FailLog

LEMMA StageEndsLog ==
    ASSUME IInv, LogInv,
           \/ execute_ingest \/ execute_normalize \/ execute_vad \/ execute_separate
           \/ execute_accelerate \/ execute_align \/ execute_punctuate \/ execute_diarize
    PROVE  LogInv'
  <1>1. phase = "running" /\ config[pos] # "persist"
    BY DEF execute_ingest, execute_normalize, execute_vad, execute_separate, execute_accelerate,
           execute_align, execute_punctuate, execute_diarize, Running
  <1>2. PICK codes \in Codes : Succeed(config[pos], codes)
    BY DEF execute_ingest, execute_normalize, execute_vad, execute_separate, execute_accelerate,
           execute_align, execute_punctuate, execute_diarize, Running, Codes
  <1> QED BY <1>1, <1>2, AtWork, SucceedLog

LEMMA BackendLog ==
    ASSUME IInv, LogInv, execute_backend
    PROVE  LogInv'
  <1>1. PICK dropped \in {<<>>, <<Entry("backend", "dropped_windows", timer)>>} :
           log' = log \o <<Entry("backend", "ok", timer)>> \o
                  (IF request.speculative THEN <<>> ELSE <<Entry("replay", "envelope", timer)>> \o dropped)
    BY DEF execute_backend
  <1>2. /\ phase = "running" /\ config[pos] = "backend" /\ phase' = "loop" /\ pos' = pos + 1
        /\ UNCHANGED <<config, request, row, outcome>>
    BY DEF execute_backend, Running
  <1> DEFINE k0 == Entry("backend", "ok", timer)
             l == Append(log, k0)
             d == <<Entry("replay", "envelope", timer)>>
             e == IF request.speculative THEN <<>> ELSE d \o dropped
  <1>3. Calm(e)
    <2>1. /\ "replay" \in Speakers /\ "backend" \in Speakers /\ timer \in Timers
          /\ "envelope" \in Passing \ {"start"} /\ "dropped_windows" \in Passing \ {"start"}
      BY EntryShape DEF Passing, Speakers, Stages
    <2>2. Calm(<<>>) /\ Calm(d) /\ Calm(dropped)
      BY <1>1, <2>1, CalmEntry
    <2> HIDE DEF d
    <2>3. Calm(d \o dropped)
      BY <2>2, CalmConcat
    <2> QED BY <2>2, <2>3
  <1>4. k0 \in Entries /\ k0.stage = "backend" /\ k0.code = "ok" /\ "ok" \in Terminal
    <2>1. "ok" \in Terminal /\ "backend" \in Speakers /\ timer \in Timers
      BY EntryShape DEF Terminal, Speakers, Stages
    <2> QED BY <2>1, EntryShape
  <1>5. log \in Seq(Entries) /\ Open(log, "backend") /\ ~Ended(log, "backend")
    BY <1>2, AtWork
  <1> HIDE DEF k0, e
  <1>6. /\ Extends(log, l) /\ NewIn(log, l) = {Len(log) + 1} /\ l[Len(log) + 1] = k0
        /\ l \in Seq(Entries) /\ Len(log) \in Nat
    BY <1>4, <1>5, AppendedOne DEF Extends
  <1>7. log' = l \o e
    <2>1. log \o <<k0>> = l
      BY <1>4, <1>5
    <2> QED BY <1>1, <2>1 DEF k0, e
  <1> HIDE DEF l
  <1>8. AllClosed(l)
    <2>1. /\ Len(log) + 1 \in NewIn(log, l) /\ l[Len(log) + 1].stage = "backend"
          /\ l[Len(log) + 1].code \in Terminal
      BY <1>4, <1>6
    <2>2. \A k \in NewIn(log, l) : k = Len(log) + 1 /\ l[k].code # "start" /\ ~(k < Len(log) + 1)
      BY <1>4, <1>6
    <2> QED BY <1>5, <1>6, <2>1, <2>2, CloseAppend
  <1>9. log' \in Seq(Entries) /\ AllClosed(log') /\ \A y : Ended(log', y) => Ended(l, y)
    BY <1>3, <1>6, <1>7, <1>8, CalmAppend
  <1>10. \A y : Ended(l, y) => Ended(log, y) \/ y = "backend"
    BY <1>4, <1>6, EndedIn
  <1>11. EndedBefore'
    <2>1. \A y : Ended(log, y) => Before(y) /\ y # "persist"
      BY <1>2 DEF LogInv, EndedBefore
    <2>2. \A y : Before(y) \/ y = "backend" => Before(y)'
      BY <1>2, OneMore
    <2> QED BY <1>2, <1>9, <1>10, <2>1, <2>2, EndedFrame
  <1> QED BY <1>2, <1>9, <1>11, GoingOn, LogFrame

LEMMA AssembleLog ==
    ASSUME IInv, LogInv, Assemble
    PROVE  LogInv'
  <1>0. /\ phase = "assemble" /\ log \in Seq(Entries) /\ AllClosed(log) /\ row = <<>> /\ outcome = None
        /\ ~Ended(log, "persist") /\ UNCHANGED <<config, request, row>> /\ "persist" \in Speakers
    BY DEF Assemble, LogInv, Brackets, RowKept, EndedBefore, IInv, NoOutcomeYet, Speakers, Stages
  <1>s. has_stage("persist")' <=> has_stage("persist")
    BY <1>0 DEF has_stage
  <1>1. CASE has_stage("persist") /\ request.persist /\ tripped
    <2>1. log' = Append(log, Entry("persist", "cancelled", None)) /\ Fail("cancelled")
      BY <1>1 DEF Assemble
    <2>2. Entry("persist", "cancelled", None) \in Entries
      <3>1. "cancelled" \in Terminal
        BY DEF Terminal, Failures
      <3> QED BY <1>0, <3>1, EntryShape
    <2> DEFINE r == <<>>
    <2>3. r \in Seq(Entries) /\ (\A k \in 1 .. Len(r) : r[k].code \notin Terminal \union {"start"})
          /\ log' = log \o r \o <<Entry("persist", "cancelled", None)>>
      <3>1. log \o <<>> = log
        BY <1>0, ConcatEmptySeq
      <3> QED BY <1>0, <2>1, <2>2, <3>1
    <2>4. phase \notin {"running", "persisting", "finalize", "done"} /\ row' = row
      BY <1>0
    <2> HIDE DEF r
    <2> QED BY <1>0, <2>1, <2>3, <2>4, CancelLog
  <1>2. CASE has_stage("persist") /\ request.persist /\ ~tripped
    <2> DEFINE e == Entry("persist", "start", "persist")
    <2>1. log' = Append(log, e) /\ phase' = "persisting" /\ outcome' = outcome
      BY <1>2 DEF Assemble
    <2>2. e \in Entries /\ e.code = "start" /\ e.stage = "persist" /\ "start" \notin Terminal
      BY <1>0, EntryShape DEF Stages
    <2> HIDE DEF e
    <2>3. /\ Extends(log, log') /\ NewIn(log, log') = {Len(log) + 1} /\ Len(log') = Len(log) + 1
          /\ log'[Len(log) + 1] = e /\ log' \in Seq(Entries) /\ Len(log) \in Nat
      BY <1>0, <2>1, <2>2, AppendedOne DEF Extends
    <2>4. \A k \in NewIn(log, log') : k = Len(log') /\ log'[k].code \notin Terminal
      BY <2>2, <2>3
    <2>5. Open(log', "persist")
      BY <1>0, <2>2, <2>3, <2>4, OpenAppend
    <2>6. ~Ended(log', "persist")
      BY <1>0, <2>3, <2>4, EndedIn
    <2>7. EndedBefore'
      BY <2>1, <2>6, EndedFrame
    <2>8. RowKept' /\ FailureIsLastEvent'
      BY <1>0, <1>s, <1>2, <2>1 DEF RowKept, OkMeansPersisted, FailureIsLastEvent, Failures, None
    <2> QED BY <2>1, <2>3, <2>5, <2>7, <2>8, LogFrame DEF e
  <1>3. CASE ~(has_stage("persist") /\ request.persist)
    <2>1. /\ phase' = "finalize" /\ outcome' = "ok"
          /\ log' = (IF has_stage("persist") THEN Append(log, Entry("persist", "skip", timer)) ELSE log)
      BY <1>3 DEF Assemble
    <2>2. log' \in Seq(Entries) /\ AllClosed(log')
      <3>1. CASE has_stage("persist")
        <4>1. "skip" \in Passing \ {"start"} /\ timer \in Timers
          BY EntryShape DEF Passing
        <4>2. Calm(<<Entry("persist", "skip", timer)>>) /\ Entry("persist", "skip", timer) \in Entries
          BY <1>0, <4>1, CalmEntry, EntryShape
        <4>3. log' = log \o <<Entry("persist", "skip", timer)>>
          BY <1>0, <2>1, <3>1, <4>2
        <4> QED BY <1>0, <4>2, <4>3, CalmAppend
      <3>2. CASE ~has_stage("persist")
        BY <1>0, <2>1, <3>2
      <3> QED BY <3>1, <3>2
    <2>3. EndedBefore'
      BY <2>1, EndedFrame
    <2>4. RowKept' /\ FailureIsLastEvent'
      BY <1>0, <1>s, <1>3, <2>1 DEF RowKept, OkMeansPersisted, FailureIsLastEvent, Failures
    <2> QED BY <2>1, <2>2, <2>3, <2>4, LogFrame
  <1> QED BY <1>1, <1>2, <1>3

\* The row that is committed while one more event follows is the log up to its start.
LEMMA PersistLog ==
    ASSUME IInv, LogInv, PersistOk \/ PersistFails
    PROVE  LogInv'
  <1>0. /\ phase = "persisting" /\ log \in Seq(Entries) /\ Open(log, "persist")
        /\ log[Len(log)] = Entry("persist", "start", "persist") /\ ~Ended(log, "persist")
        /\ has_stage("persist") /\ request.persist /\ UNCHANGED <<config, request>>
        /\ "persist" \in Speakers /\ timer \in Timers
    BY EntryShape DEF PersistOk, PersistFails, LogInv, Brackets, RowKept, EndedBefore, Speakers, Stages
  <1>s. has_stage("persist")'
    BY <1>0 DEF has_stage
  <1>l. Len(log) \in Nat /\ Len(log) >= 1 /\ log # <<>>
    BY <1>0, LenProperties DEF Open
  <1>1. PICK code \in Failures \union {"ok"} :
           /\ log' = Append(log, Entry("persist", code, timer)) /\ phase' = "finalize" /\ outcome' = code
           /\ code = "ok" => row' = log
           /\ row' \in {<<>>, log}
    <2>1. CASE PersistOk
      BY <2>1 DEF PersistOk
    <2>2. CASE PersistFails
      <3>1. FailureCodes("persist") \subseteq Failures /\ "ok" \notin Failures
        BY DEF FailureCodes, Failures
      <3> QED BY <2>2, <3>1 DEF PersistFails, Fail
    <2> QED BY <2>1, <2>2
  <1> DEFINE e == Entry("persist", code, timer)
  <1>2. e \in Entries /\ e.code = code /\ e.stage = "persist" /\ code \in Terminal /\ code # "start"
    <2>1. code \in Terminal /\ code # "start"
      BY <1>1 DEF Terminal, Failures
    <2> QED BY <1>0, <2>1, EntryShape
  <1> HIDE DEF e
  <1>3. /\ Extends(log, log') /\ NewIn(log, log') = {Len(log) + 1} /\ Len(log') = Len(log) + 1
        /\ log'[Len(log) + 1] = e /\ log' \in Seq(Entries)
    BY <1>0, <1>1, <1>2, AppendedOne DEF Extends, e
  <1>4. AllClosed(log')
    <2>1. /\ Len(log) + 1 \in NewIn(log, log') /\ log'[Len(log) + 1].stage = "persist"
          /\ log'[Len(log) + 1].code \in Terminal
      BY <1>2, <1>3
    <2>2. \A k \in NewIn(log, log') : k = Len(log) + 1 /\ log'[k].code # "start" /\ ~(k < Len(log) + 1)
      BY <1>2, <1>3, <1>l
    <2> QED BY <1>0, <1>3, <2>1, <2>2, CloseAppend
  <1>5. EndedBefore'
    BY <1>1, EndedFrame
  <1>6. FailureIsLastEvent'
    BY <1>1, <1>2, <1>3 DEF FailureIsLastEvent
  <1>7. log = SubSeq(log', 1, Len(log)) /\ log'[Len(log)] = Entry("persist", "start", "persist")
    <2>1. Len(log) \in 1 .. Len(log) /\ log' = Append(log, e)
      BY <1>1, <1>l DEF e
    <2>2. SubSeq(log', 1, Len(log)) = log
      BY <1>0, <1>2, <1>l, <2>1, <1>3
    <2> QED BY <1>0, <1>3, <2>1, <2>2 DEF Extends
  <1>8. row' # <<>> => \E k \in 1 .. Len(log') - 1 :
                          row' = SubSeq(log', 1, k) /\ log'[k] = Entry("persist", "start", "persist")
    <2>1. Len(log) \in 1 .. Len(log') - 1
      BY <1>l, <1>3
    <2> QED BY <1>1, <1>7, <2>1
  <1>9. OkMeansPersisted'
    <2>1. outcome' = "ok" => row' = log
      BY <1>1 DEF Failures
    <2> QED BY <1>0, <1>s, <1>l, <1>8, <2>1 DEF OkMeansPersisted, Entry
  <1>10. RowKept'
    BY <1>1, <1>9 DEF RowKept
  <1> QED BY <1>1, <1>3, <1>4, <1>5, <1>6, <1>10, LogFrame

LEMMA QuietLog ==
    ASSUME IInv, LogInv, Finalize \/ Trip \/ UNCHANGED vars
    PROVE  LogInv'
  <1>1. /\ UNCHANGED <<log, row, config, request, pos, outcome>>
        /\ phase' = phase \/ (phase = "finalize" /\ phase' = "done")
    BY DEF Finalize, Trip, vars
  <1>2. /\ \A x : Before(x)' <=> Before(x)
        /\ has_stage("persist")' <=> has_stage("persist")
        /\ OkMeansPersisted' <=> OkMeansPersisted
        /\ FailureIsLastEvent' <=> FailureIsLastEvent
    BY <1>1 DEF Before, has_stage, OkMeansPersisted, FailureIsLastEvent, Entry
  <1>3. EndedBefore'
    BY <1>1, <1>2, EndedFrame DEF LogInv, EndedBefore
  <1>4. RowKept' /\ FailureIsLastEvent'
    BY <1>1, <1>2 DEF LogInv, RowKept
  <1>5. /\ log' \in Seq(Entries)
        /\ phase' = "running" => Open(log', config'[pos'])
        /\ phase' = "persisting" => Open(log', "persist") /\ log'[Len(log')] = Entry("persist", "start", "persist")
        /\ phase' \notin {"running", "persisting"} => AllClosed(log')
    BY <1>1 DEF LogInv, Brackets
  <1> QED BY <1>3, <1>4, <1>5, LogFrame

LEMMA LogInit == Init => LogInv
  <1> SUFFICES ASSUME Init PROVE LogInv
    OBVIOUS
  <1>1. log = <<>> /\ row = <<>> /\ outcome = None /\ phase = "build"
    BY DEF Init
  <1>2. log \in Seq(Entries) /\ AllClosed(log) /\ \A x : ~Ended(log, x)
    BY <1>1 DEF AllClosed, Ended
  <1> QED
    BY <1>1, <1>2 DEF LogInv, Brackets, EndedBefore, RowKept, OkMeansPersisted,
       FailureIsLastEvent, Failures, None

LEMMA LogStep == IInv /\ LogInv /\ [Next]_vars => LogInv'
  <1> SUFFICES ASSUME IInv, LogInv, [Next]_vars PROVE LogInv'
    OBVIOUS
  <1> QED
    BY BuildLog, BeginLog, PassLog, UnresolvedLog, EntryFailsLog, StartLog, StageFailsLog,
       StageEndsLog, BackendLog, ProfileLog, AssembleLog, PersistLog, QuietLog
       DEF Next, Step, Done

\* Both invariants hold throughout a run.
THEOREM LogInvariance == Spec => [](IInv /\ LogInv)
  <1>1. Init => IInv /\ LogInv
    BY InitInv, LogInit
  <1>2. (IInv /\ LogInv) /\ [Next]_vars => (IInv /\ LogInv)'
    BY StepInv, LogStep
  <1> QED BY <1>1, <1>2, PTL DEF Spec

-----------------------------------------------------------------------------
(* The times in the log.  A third invariant: whoever works has set the     *)
(* timer for itself.                                                       *)

Own(e) == e.stage \in Stages /\ e.code # "skip" => e.timer \in {e.stage, None}

\* Entries with times of their own.
Timed(e) == e \in Seq(Entries) /\ \A k \in 1 .. Len(e) : Own(e[k])

TimesInv ==
    /\ Timed(log)
    /\ phase = "running" => timer = config[pos]
    /\ phase = "persisting" => timer = "persist"

LEMMA TimedEntry ==
    ASSUME IInv, NEW x \in Speakers, NEW c \in Passing \union Terminal, NEW t \in Timers,
           x \notin Stages \/ c = "skip" \/ t \in {x, None}
    PROVE  /\ Timed(<<Entry(x, c, t)>>) /\ Timed(<<>>)
           /\ \A l \in Seq(Entries) : Append(l, Entry(x, c, t)) = l \o <<Entry(x, c, t)>>
  <1> DEFINE e == Entry(x, c, t)
  <1>1. e \in Entries /\ Own(e)
    BY EntryShape DEF Own, Entry
  <1> HIDE DEF e
  <1>2. Timed(<<e>>) /\ \A l \in Seq(Entries) : Append(l, e) = l \o <<e>>
    BY <1>1 DEF Timed
  <1> QED BY <1>2 DEF e, Timed

LEMMA TimedConcat ==
    ASSUME NEW d, NEW e, Timed(d), Timed(e)
    PROVE  Timed(d \o e)
  <1>1. d \in Seq(Entries) /\ e \in Seq(Entries) /\ Len(d) \in Nat /\ Len(e) \in Nat
    BY LenProperties DEF Timed
  <1>2. /\ d \o e \in Seq(Entries) /\ Len(d \o e) = Len(d) + Len(e)
        /\ \A k \in 1 .. Len(d) + Len(e) : (d \o e)[k] = IF k <= Len(d) THEN d[k] ELSE e[k - Len(d)]
    BY <1>1, ConcatProperties
  <1>3. ASSUME NEW k \in 1 .. Len(d) + Len(e)
        PROVE  Own((d \o e)[k])
    <2>1. CASE k <= Len(d)
      BY <1>1, <1>2, <2>1 DEF Timed
    <2>2. CASE ~(k <= Len(d))
      <3>1. k - Len(d) \in 1 .. Len(e)
        BY <1>1, <2>2
      <3> QED BY <1>2, <2>2, <3>1 DEF Timed
    <2> QED BY <2>1, <2>2
  <1> QED BY <1>2, <1>3 DEF Timed

\* One entry is appended, whose time is its own.
LEMMA TimedAppend ==
    ASSUME IInv, NEW l, Timed(l), NEW x \in Speakers, NEW c \in Passing \union Terminal, NEW t \in Timers,
           x \notin Stages \/ c = "skip" \/ t \in {x, None}
    PROVE  Timed(Append(l, Entry(x, c, t)))
  <1>1. l \in Seq(Entries)
    BY DEF Timed
  <1>2. Append(l, Entry(x, c, t)) = l \o <<Entry(x, c, t)>> /\ Timed(<<Entry(x, c, t)>>)
    BY <1>1, TimedEntry
  <1> QED BY <1>2, TimedConcat

\* The codes and speakers of the entries.
LEMMA Vocabulary ==
    /\ {"start", "skip", "budgets", "threads_clamped", "safe_mode", "decision_contract",
        "calibration_guardrail", "rollout", "context", "progress", "envelope", "dropped_windows",
        "segments_regrouped", "latency_profile", "ok", "silence", "fallback"}
           \union Failures \subseteq Passing \union Terminal
    /\ {"orchestration", "backend_routing", "replay"} \subseteq Speakers
    /\ {"orchestration", "backend_routing", "replay"} \cap Stages = {}
    /\ Stages \subseteq Speakers /\ Stages \subseteq Timers /\ None \in Timers
    /\ "cancelled" \in Failures /\ {"persist", "separate", "backend", "diarize"} \subseteq Stages
    /\ Codes \subseteq Seq(Passing \union Terminal)
  <1>1. Codes \subseteq Seq(Passing \union Terminal)
    BY DEF Codes, Passing, Terminal
  <1> QED BY <1>1 DEF Passing, Terminal, Speakers, Stages, Timers, Failures

LEMMA TimesBeforeLoop ==
    ASSUME IInv, TimesInv, Build \/ BeginBody
    PROVE  TimesInv'
  <1>1. CASE Build
    <2>1. CASE phase' = "begin"
      <3>1. PICK clamped \in {<<>>, <<Entry("orchestration", "threads_clamped", None)>>} :
               log' = <<Entry("orchestration", "budgets", None)>> \o clamped
        BY <1>1, <2>1 DEF Build
      <3>2. Timed(<<Entry("orchestration", "budgets", None)>>) /\ Timed(clamped)
        BY <3>1, TimedEntry, Vocabulary
      <3> QED BY <2>1, <3>1, <3>2, TimedConcat DEF TimesInv, Timed, Own
    <2>2. CASE phase' # "begin"
      BY <1>1, <2>2 DEF Build, TimesInv, Timed, Own
    <2> QED BY <2>1, <2>2
  <1>2. CASE BeginBody
    <2>1. log' = log \/ log' = Append(log, Entry("orchestration", "cancelled", None))
      BY <1>2 DEF BeginBody
    <2>2. Timed(log')
      <3>1. Timed(log) /\ "orchestration" \in Speakers \ Stages
        BY Vocabulary DEF TimesInv
      <3>2. "cancelled" \in Passing \union Terminal /\ None \in Timers
        BY Vocabulary
      <3>3. Timed(Append(log, Entry("orchestration", "cancelled", None)))
        BY <3>1, <3>2, TimedAppend
      <3> QED BY <2>1, <3>1, <3>3
    <2> QED BY <1>2, <2>2 DEF BeginBody, Fail, TimesInv, Timed, Own
  <1> QED BY <1>1, <1>2

\* What execute_backend says about routing is no stage's.
LEMMA TimedRouting ==
    ASSUME IInv, NEW x, NEW r \in RoutingEvents(x)
    PROVE  Timed(r)
  <1> DEFINE a == Entry("backend_routing", "decision_contract", timer)
             b == Entry("backend_routing", "calibration_guardrail", timer)
  <1>1. timer \in Timers
    BY EntryShape
  <1>2. Timed(<<>>) /\ Timed(<<Entry("backend_routing", "safe_mode", timer)>>) /\ Timed(<<a>>) /\ Timed(<<b>>)
    BY <1>1, TimedEntry, Vocabulary
  <1>3. <<a, b>> = <<a>> \o <<b>>
    OBVIOUS
  <1>4. Timed(<<a, b>>)
    BY <1>2, <1>3, TimedConcat
  <1> HIDE DEF a, b
  <1> QED BY <1>2, <1>4 DEF RoutingEvents, a, b

LEMMA TimesAtEntry ==
    ASSUME IInv, TimesInv, SkipStage \/ PassPersist \/ SpeculativeUnresolved \/ EntryFails \/ StartStage
    PROVE  TimesInv'
  <1>0. Timed(log) /\ timer \in Timers
    BY EntryShape DEF TimesInv
  <1>1. CASE SkipStage
    <2>1. PICK x \in Stages : AtStage(x) /\ log' = Append(log, Entry(x, "skip", timer))
      BY <1>1 DEF SkipStage
    <2>2. Timed(log')
      BY <1>0, <2>1, TimedAppend, Vocabulary
    <2> QED BY <1>1, <2>1, <2>2 DEF SkipStage, AtStage, TimesInv, Timed, Own
  <1>2. CASE PassPersist \/ SpeculativeUnresolved
    BY <1>0, <1>2 DEF PassPersist, SpeculativeUnresolved, AtStage, Fail, TimesInv, Timed, Own
  <1>3. CASE EntryFails
    <2>1. PICK x \in Stages : \E r \in RoutingEvents(x) :
             log' = IF Admission(x) = "requires" THEN log ELSE log \o r \o <<Entry(x, "cancelled", None)>>
      BY <1>3 DEF EntryFails
    <2>2. PICK r \in RoutingEvents(x) : log' = log \/ log' = log \o r \o <<Entry(x, "cancelled", None)>>
      BY <2>1
    <2>3. Timed(r) /\ Timed(<<Entry(x, "cancelled", None)>>)
      BY <2>2, TimedRouting, TimedEntry, Vocabulary
    <2>4. Timed(log \o r \o <<Entry(x, "cancelled", None)>>)
      <3>1. Timed(log \o r)
        BY <1>0, <2>3, TimedConcat
      <3> QED BY <2>3, <3>1, TimedConcat
    <2>5. Timed(log') /\ phase' = "finalize"
      BY <1>0, <1>3, <2>2, <2>4 DEF EntryFails, Fail
    <2> QED BY <2>5 DEF TimesInv, Timed, Own
  <1>4. CASE StartStage
    <2>1. PICK x \in Stages : Runs(x) /\ timer' = x /\ \E r \in RoutingEvents(x) :
             log' = log \o r \o (IF x = "diarize" THEN <<Entry(x, "rollout", x), Entry(x, "start", x)>>
                                 ELSE <<Entry(x, "start", x)>>)
      BY <1>4 DEF StartStage
    <2>2. PICK r \in RoutingEvents(x) :
             log' = log \o r \o (IF x = "diarize" THEN <<Entry(x, "rollout", x), Entry(x, "start", x)>>
                                 ELSE <<Entry(x, "start", x)>>)
      BY <2>1
    <2> DEFINE a == Entry(x, "rollout", x)
               b == Entry(x, "start", x)
    <2>3. Timed(r) /\ Timed(<<a>>) /\ Timed(<<b>>)
      BY <2>2, TimedRouting, TimedEntry, Vocabulary
    <2>4. <<a, b>> = <<a>> \o <<b>>
      OBVIOUS
    <2>5. Timed(<<a, b>>)
      BY <2>3, <2>4, TimedConcat
    <2>6. Timed(log \o r)
      BY <1>0, <2>3, TimedConcat
    <2> HIDE DEF a, b
    <2>7. Timed(log')
      <3>1. CASE x = "diarize"
        <4>1. log' = log \o r \o <<a, b>>
          BY <2>2, <3>1 DEF a, b
        <4> QED BY <2>5, <2>6, <4>1, TimedConcat
      <3>2. CASE x # "diarize"
        <4>1. log' = log \o r \o <<b>>
          BY <2>2, <3>2 DEF b
        <4> QED BY <2>3, <2>6, <4>1, TimedConcat
      <3> QED BY <3>1, <3>2
    <2> QED BY <1>4, <2>1, <2>7 DEF StartStage, Runs, AtStage, TimesInv, Timed, Own
  <1> QED BY <1>1, <1>2, <1>3, <1>4

LEMMA TimesAtFailure ==
    ASSUME IInv, TimesInv, StageFails \/ SeparateFenced \/ BackendContractViolation
    PROVE  TimesInv'
  <1>0. /\ phase = "running" /\ Timed(log) /\ timer = config[pos] /\ config[pos] \in Stages
        /\ phase' = "finalize"
    <2>1. phase = "running" /\ phase' = "finalize"
      BY DEF StageFails, SeparateFenced, BackendContractViolation, Running, Fail
    <2>2. config[pos] \in Stages
      BY <2>1, LenProperties, ElementOfSeq DEF IInv, TypeOK
    <2> QED BY <2>1, <2>2 DEF TimesInv
  <1>1. PICK code \in Failures, t \in {config[pos], None} : log' = Append(log, Entry(config[pos], code, t))
    <2>1. CASE StageFails
      <3>1. \A x : FailureCodes(x) \subseteq Failures
        BY DEF FailureCodes, Failures
      <3> QED BY <1>0, <2>1, <3>1 DEF StageFails
    <2>2. CASE SeparateFenced
      BY <2>2, Vocabulary DEF SeparateFenced, Running
    <2>3. CASE BackendContractViolation
      <3>1. "error" \in Failures /\ "contract_violation" \in Failures
        BY DEF Failures
      <3>2. CASE request.speculative
        BY <1>0, <2>3, <3>1, <3>2 DEF BackendContractViolation, Running
      <3>3. CASE ~request.speculative
        BY <1>0, <2>3, <3>1, <3>3 DEF BackendContractViolation, Running
      <3> QED BY <3>2, <3>3
    <2> QED BY <2>1, <2>2, <2>3
  <1>2. Timed(log')
    BY <1>0, <1>1, TimedAppend, Vocabulary
  <1> QED BY <1>0, <1>2 DEF TimesInv, Timed, Own

LEMMA TimesAtSuccess ==
    ASSUME IInv, TimesInv,
           \/ execute_ingest \/ execute_normalize \/ execute_vad \/ execute_separate
           \/ execute_accelerate \/ execute_align \/ execute_punctuate \/ execute_diarize
    PROVE  TimesInv'
  <1>1. phase = "running" /\ \E c \in Codes : Succeed(config[pos], c)
    BY DEF execute_ingest, execute_normalize, execute_vad, execute_separate, execute_accelerate,
           execute_align, execute_punctuate, execute_diarize, Running, Codes
  <1>2. PICK codes \in Codes : Succeed(config[pos], codes)
    BY <1>1
  <1>3. Timed(log) /\ timer = config[pos] /\ config[pos] \in Stages
    <2>1. config[pos] \in Stages
      BY <1>1, LenProperties, ElementOfSeq DEF IInv, TypeOK
    <2> QED BY <1>1, <2>1 DEF TimesInv
  <1> DEFINE x == config[pos]
             e == [i \in DOMAIN codes |-> Entry(x, codes[i], timer)]
             n == Len(codes)
  <1>4. n \in Nat /\ DOMAIN codes = 1 .. n /\ \A k \in 1 .. n : codes[k] \in Passing \union Terminal
    BY <1>2, Vocabulary, LenProperties, ElementOfSeq
  <1>5. \A k \in 1 .. n : e[k] = Entry(x, codes[k], timer) /\ e[k] \in Entries /\ Own(e[k])
    <2> TAKE k \in 1 .. n
    <2>1. e[k] = Entry(x, codes[k], timer)
      BY <1>4
    <2> QED BY <1>3, <1>4, <2>1, EntryShape DEF Own, Entry
  <1>6. e \in [1 .. n -> Entries]
    BY <1>4, <1>5
  <1>7. log' = log \o e /\ phase' = "loop"
    BY <1>2 DEF Succeed
  <1> HIDE DEF e, n
  <1>8. e \in Seq(Entries) /\ Len(e) = n
    BY <1>4, <1>6, FunctionIsSeq
  <1>9. Timed(log')
    BY <1>3, <1>5, <1>7, <1>8, TimedConcat DEF Timed
  <1> QED BY <1>7, <1>9 DEF TimesInv, Timed, Own

LEMMA TimesAtBackend ==
    ASSUME IInv, TimesInv, execute_backend
    PROVE  TimesInv'
  <1>1. PICK dropped \in {<<>>, <<Entry("backend", "dropped_windows", timer)>>} :
           log' = log \o <<Entry("backend", "ok", timer)>> \o
                  (IF request.speculative THEN <<>> ELSE <<Entry("replay", "envelope", timer)>> \o dropped)
    BY DEF execute_backend
  <1>2. phase' = "loop" /\ timer = "backend" /\ Timed(log) /\ "backend" \in Timers
    BY Vocabulary DEF execute_backend, Running, TimesInv
  <1> DEFINE d == <<Entry("replay", "envelope", timer)>>
             k0 == <<Entry("backend", "ok", timer)>>
  <1>3. Timed(<<>>) /\ Timed(k0) /\ Timed(d) /\ Timed(dropped)
    BY <1>1, <1>2, TimedEntry, Vocabulary
  <1> HIDE DEF d, k0
  <1>4. Timed(log \o k0) /\ Timed(d \o dropped)
    BY <1>2, <1>3, TimedConcat
  <1>5. Timed(log')
    <2>1. CASE request.speculative
      <3>1. log' = log \o k0 \o <<>>
        BY <1>1, <2>1 DEF k0
      <3> QED BY <1>3, <1>4, <3>1, TimedConcat
    <2>2. CASE ~request.speculative
      <3>1. log' = log \o k0 \o (d \o dropped)
        BY <1>1, <2>2 DEF k0, d
      <3> QED BY <1>4, <3>1, TimedConcat
    <2> QED BY <2>1, <2>2
  <1> QED BY <1>2, <1>5 DEF TimesInv, Timed, Own

LEMMA TimesAfterLoop ==
    ASSUME IInv, TimesInv, Profile \/ Assemble \/ PersistOk \/ PersistFails
    PROVE  TimesInv'
  <1>0. Timed(log) /\ timer \in Timers
    BY EntryShape DEF TimesInv
  <1>1. CASE Profile
    <2>1. PICK regrouped \in {<<>>, <<Entry("orchestration", "segments_regrouped", timer)>>} :
             log' = log \o regrouped \o <<Entry("orchestration", "latency_profile", timer)>>
      BY <1>1 DEF Profile
    <2> DEFINE e == <<Entry("orchestration", "latency_profile", timer)>>
    <2>2. Timed(regrouped) /\ Timed(e)
      BY <1>0, <2>1, TimedEntry, Vocabulary
    <2> HIDE DEF e
    <2>3. Timed(log \o regrouped)
      BY <1>0, <2>2, TimedConcat
    <2>4. Timed(log')
      BY <2>1, <2>2, <2>3, TimedConcat DEF e
    <2> QED BY <1>1, <2>4 DEF Profile, TimesInv, Timed, Own
  <1>2. CASE Assemble
    <2>1. \/ log' = log /\ phase' = "finalize"
          \/ \E t \in {None, timer} : \E c \in {"cancelled", "skip"} :
                /\ log' = Append(log, Entry("persist", c, t)) /\ phase' = "finalize"
                /\ t = None \/ c = "skip"
          \/ log' = Append(log, Entry("persist", "start", "persist")) /\ timer' = "persist" /\ phase' = "persisting"
      BY <1>2 DEF Assemble, Fail
    <2>2. "persist" \in Speakers /\ "persist" \in Timers /\ None \in Timers
          /\ {"cancelled", "skip", "start"} \subseteq Passing \union Terminal
      BY Vocabulary
    <2>3. \A t \in {None, timer}, c \in {"cancelled", "skip"} :
             t = None \/ c = "skip" => Timed(Append(log, Entry("persist", c, t)))
      BY <1>0, <2>2, TimedAppend
    <2>4. Timed(Append(log, Entry("persist", "start", "persist")))
      BY <1>0, <2>2, TimedAppend
    <2>5. Timed(log')
      BY <1>0, <2>1, <2>3, <2>4
    <2> QED BY <2>1, <2>5 DEF TimesInv, Timed, Own
  <1>3. CASE PersistOk \/ PersistFails
    <2>1. FailureCodes("persist") \subseteq Failures /\ timer = "persist"
      BY <1>3 DEF FailureCodes, Failures, TimesInv, PersistOk, PersistFails
    <2>2. PICK c \in Failures \union {"ok"} : log' = Append(log, Entry("persist", c, timer))
      BY <1>3, <2>1 DEF PersistOk, PersistFails
    <2>3. Timed(log') /\ phase' = "finalize"
      BY <1>0, <1>3, <2>1, <2>2, TimedAppend, Vocabulary DEF PersistOk, PersistFails, Fail
    <2> QED BY <2>3 DEF TimesInv, Timed, Own
  <1> QED BY <1>1, <1>2, <1>3

LEMMA TimesStep == IInv /\ TimesInv /\ [Next]_vars => TimesInv'
  <1> SUFFICES ASSUME IInv, TimesInv, [Next]_vars PROVE TimesInv'
    OBVIOUS
  <1>1. CASE Finalize \/ Trip \/ UNCHANGED vars
    BY <1>1 DEF Finalize, Trip, vars, TimesInv, Timed, Own
  <1> QED
    BY <1>1, TimesBeforeLoop, TimesAtEntry, TimesAtFailure, TimesAtSuccess, TimesAtBackend, TimesAfterLoop
       DEF Next, Step, Done

THEOREM TimesInvariance == Spec => []TimesInv
  <1>1. Init => TimesInv
    BY DEF Init, TimesInv, Timed
  <1> QED BY <1>1, Invariance, TimesStep, PTL DEF Spec

\* Whatever the list of stages, a consumer of the event stream sees every started
\* stage closed by one terminal event before another stage speaks, and no time charged to a
\* stage but its own.
THEOREM StagesAreBracketed == Spec => []StagesBracketed
  <1>1. TimesInv => TimesAreOwn
    BY LenProperties DEF TimesInv, Timed, Own, TimesAreOwn
  <1>2. IInv /\ LogInv /\ TimesAreOwn => StagesBracketed
    <2> SUFFICES ASSUME IInv, LogInv, NEW i \in DOMAIN log, log[i].code = "start"
                 PROVE  Closed(log, i) \/ (phase \in {"running", "persisting"} /\ i = Len(log))
      BY DEF StagesBracketed, Closed, Closes
    <2>1. log \in Seq(Entries) /\ Len(log) \in Nat /\ i \in 1 .. Len(log)
      BY LenProperties DEF LogInv, Brackets
    <2>2. CASE phase \in {"running", "persisting"}
      BY <2>1, <2>2 DEF LogInv, Brackets, Open
    <2>3. CASE phase \notin {"running", "persisting"}
      BY <2>1, <2>3 DEF LogInv, Brackets, AllClosed
    <2> QED BY <2>2, <2>3
  <1> QED BY <1>1, <1>2, LogInvariance, TimesInvariance, PTL

\* A run that fails as a stage failed has said so last.
THEOREM FailuresAreLast == Spec => []FailureIsLastEvent
  <1>1. IInv /\ LogInv => FailureIsLastEvent
    BY DEF LogInv
  <1> QED BY <1>1, LogInvariance, PTL

\* A successful run left a row exactly when it was asked to, and a row is a prefix of
\* the log that ends where persisting started.
THEOREM OkIsPersisted == Spec => []OkMeansPersisted
  <1>1. IInv /\ LogInv => OkMeansPersisted
    BY DEF LogInv, RowKept
  <1> QED BY <1>1, LogInvariance, PTL

=============================================================================
