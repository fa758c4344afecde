----------------------------- MODULE LiveSession -----------------------------
(***************************************************************************)
(* A live session: run_listen_session in src/src/listen.rs with its        *)
(* SessionBuffer and StreamingVad, over the sink of ListenPersist.         *)
(*                                                                         *)
(* The loop reads audio, walks the edges the voice detector found in it,   *)
(* closes an utterance that lasts too long, caps the buffer, and decodes   *)
(* what the open utterance has not committed yet.  Every decode hears the  *)
(* audio from the utterance's commit origin to the END of the buffer.      *)
(*                                                                         *)
(* Time is counted in voice-detector frames: tick k is the audio of        *)
(* [k, k+1).  The decoder is an oracle that returns one word for each      *)
(* voiced tick of its window, so a text is the set of ticks it is about.   *)
(* Wall-clock conditions (a step is due, an utterance lasted too long, the *)
(* session is out of time) and the user's interrupt may hold at any time.  *)
(* The verdicts of the confirm lane, previews, statistics and controller   *)
(* changes are events that bear on nothing else here and are left out.     *)
(***************************************************************************)
EXTENDS ListenPersist

CONSTANTS
    MaxTicks,       \* bound on the audio of a session
    MaxRead,        \* bound on the audio of one capture.read
    MaxUtterances,  \* bound on the utterances opened by a timeout
    max_buffer,     \* SessionBufferConfig, in ticks
    keep_back,
    min_tail,
    min_speech,     \* StreamingVadConfig, in ticks
    endpoint,
    pre_pad,
    VadModes        \* the values of vad_enabled

ASSUME GeometryAssumption ==
    /\ {MaxTicks, MaxRead, MaxUtterances, keep_back, min_tail, pre_pad} \subseteq Nat
    /\ {max_buffer, min_speech, endpoint} \subseteq Nat \ {0}
    /\ min_tail <= max_buffer
    /\ VadModes \subseteq BOOLEAN

VARIABLES
    vad_enabled,
    at,         \* where the loop is
    buffer,     \* SessionBuffer: trimmed, end, committed (watermark)
    vad,        \* StreamingVad
    edges,      \* the edges of this read still to be handled
    voiced,     \* the voiced ticks read so far
    utt,        \* id, in_speech, t0, through: the open utterance
    stopping,   \* source_ended or cancelled
    trail       \* the events emitted

audio == <<buffer, vad, edges, voiced>>
sessionVars == <<vad_enabled, at, audio, utt, stopping, trail>>
vars == <<sinkVars, sessionVars>>

Larger(a, b) == IF a > b THEN a ELSE b
Smaller(a, b) == IF a < b THEN a ELSE b
Minus(a, b) == Larger(a - b, 0)

-----------------------------------------------------------------------------
(* SessionBuffer.                                                          *)

\* The voiced ticks of window_from(t): from t, or from what is left of it, to the end.
window_from(t) == {k \in voiced : k >= t /\ k >= buffer.trimmed}

trim_front_to(b, target) ==
    [b EXCEPT !.trimmed = Larger(@, Smaller(target, Minus(b.end, min_tail)))]

set_committed_through(b, t) == [b EXCEPT !.committed = Larger(@, Smaller(t, b.end))]

trim_to_committed(b) == trim_front_to(b, Minus(b.committed, keep_back))

enforce_cap(b) ==
    LET c == trim_front_to(b, b.trimmed + Minus(b.end - b.trimmed, max_buffer))
    IN  [c EXCEPT !.committed = IF c.trimmed > b.trimmed THEN Larger(@, c.trimmed) ELSE @]

-----------------------------------------------------------------------------
(* StreamingVad.                                                           *)

NewVad ==
    [frames |-> 0, speech |-> FALSE, onset |-> {}, last_voiced_end |-> 0, run |-> 0, floor |-> 0]

Edge(kind, t) == [kind |-> kind, t |-> t]

\* step_frame on the next frame: the detector afterwards and the edges it reports.
step_frame(v, loud) ==
    LET k     == v.frames
        heard == [v EXCEPT !.frames = k + 1, !.last_voiced_end = IF loud THEN k + 1 ELSE @]
        onset == {j \in v.onset \union (IF loud THEN {k} ELSE {}) : k - j < 2 * min_speech}
        first == CHOOSE j \in onset : \A i \in onset : j <= i
        run   == IF loud THEN 0 ELSE v.run + 1
    IN  IF ~v.speech
        THEN IF loud /\ Cardinality(onset) >= min_speech
             THEN [vad   |-> [heard EXCEPT !.speech = TRUE, !.run = 0, !.onset = {}],
                   edges |-> <<Edge("SpeechStarted", Larger(Minus(first, pre_pad), v.floor))>>]
             ELSE [vad |-> [heard EXCEPT !.onset = onset], edges |-> <<>>]
        ELSE IF run >= endpoint
             THEN [vad   |-> [heard EXCEPT !.speech = FALSE, !.run = 0, !.onset = {},
                                           !.floor = v.last_voiced_end],
                   edges |-> <<Edge("Endpoint", v.last_voiced_end)>>]
             ELSE [vad |-> [heard EXCEPT !.run = run], edges |-> <<>>]

-----------------------------------------------------------------------------
(* Events.                                                                 *)

Event(kind, id, text, t0, t1) == [kind |-> kind, id |-> id, text |-> text, t0 |-> t0, t1 |-> t1]
SpeechStarted(id, t) == Event("speech_started", id, {}, t, t)
Note(kind) == Event(kind, 0, {}, 0, 0)

\* transcript.delta, if there is text to commit.
Delta(text, t0, t1) ==
    IF text = {} THEN <<>> ELSE <<Event("delta", utt.id, text, t0, t1)>>

\* emit_seq!: every event is recorded into the sink and emitted.
Emit(events) ==
    /\ trail' = trail \o events
    /\ Record(Len(events))

Silent == UNCHANGED <<trail, recorded, pending>>

-----------------------------------------------------------------------------
(* Utterances.                                                             *)

slice_from == utt.t0 + utt.through

NewUtterance(t) == [id |-> utt.id + 1, in_speech |-> TRUE, t0 |-> t, through |-> 0]

\* The last decode of an utterance commits all it hears: the delta, the end of the
\* utterance at t1, and the flush of both.
CloseUtterance(t1) ==
    /\ Emit(Delta(window_from(slice_from), slice_from, t1)
              \o <<Event("utterance_end", utt.id, {}, utt.t0, t1)>>)
    /\ Ask("flush")

\* Mutant of AfterUtterance: everything decoded counts as committed.
AfterUtteranceAll(t1) == trim_to_committed(set_committed_through(buffer, buffer.end))

\* The buffer once an utterance that ended at t1 is committed.
AfterUtterance(t1) == trim_to_committed(set_committed_through(buffer, t1))

\* A decode that may be cancelled is: the loop goes back to its termination check, and
\* the edges not handled yet are gone.
CancelledDecode ==
    /\ at' = "top"
    /\ stopping' = TRUE
    /\ edges' = <<>>
    /\ UNCHANGED <<vad_enabled, buffer, vad, voiced, utt>>
    /\ Silent
    /\ KeepsSink

-----------------------------------------------------------------------------
(* The loop.                                                               *)

Init ==
    /\ SinkInit
    /\ vad_enabled \in VadModes
    /\ at = "start"
    /\ buffer = [trimmed |-> 0, end |-> 0, committed |-> 0]
    /\ vad = NewVad
    /\ edges = <<>>
    /\ voiced = {}
    /\ utt = [id |-> 0, in_speech |-> FALSE, t0 |-> 0, through |-> 0]
    /\ stopping = FALSE
    /\ trail = <<>>

\* The sink is open or the session goes on without one, with a warning.
SessionStart ==
    /\ at = "start"
    /\ SinkReady
    /\ Emit(<<Note("session_start")>> \o IF call = "degraded" THEN <<Note("persist_degraded")>> ELSE <<>>)
    /\ at' = "top"
    /\ KeepsSink
    /\ UNCHANGED <<vad_enabled, audio, utt, stopping>>

\* Mutant of Terminate: an interrupted session drops its open utterance.
TerminateDropsOpen ==
    /\ at = "top"
    /\ SinkReady
    /\ at' = "closing"
    /\ Silent
    /\ KeepsSink
    /\ UNCHANGED <<vad_enabled, audio, utt, stopping>>

\* is_cancelled, out_of_time or source_ended: an open utterance is flushed with a decode
\* that cannot be cancelled, and the loop is left.
Terminate ==
    /\ at = "top"
    /\ SinkReady
    /\ at' = "closing"
    /\ IF utt.in_speech THEN CloseUtterance(buffer.end) ELSE Silent /\ KeepsSink
    /\ UNCHANGED <<vad_enabled, audio, utt, stopping>>

\* capture.read and buffer.push.  Without a detector an utterance is opened by the first
\* audio.
Read ==
    /\ at = "top"
    /\ SinkReady
    /\ ~stopping
    /\ \E n \in 0 .. Smaller(MaxRead, MaxTicks - buffer.end), ended \in BOOLEAN :
         \E loud \in SUBSET (buffer.end .. buffer.end + n - 1) :
             /\ stopping' = ended
             /\ buffer' = [buffer EXCEPT !.end = @ + n]
             /\ voiced' = voiced \union loud
             /\ at' = IF vad_enabled /\ n > 0 THEN "frames" ELSE "edges"
             /\ edges' = IF ~vad_enabled /\ ~utt.in_speech /\ n > 0
                         THEN <<Edge("SpeechStarted", buffer.trimmed)>> ELSE <<>>
    /\ Silent
    /\ KeepsSink
    /\ UNCHANGED <<vad_enabled, vad, utt>>

\* StreamingVad::push takes the frames of the read one after the other and collects their
\* edges.
Frame ==
    LET f == step_frame(vad, vad.frames \in voiced)
    IN  /\ at = "frames"
        /\ SinkReady
        /\ vad' = f.vad
        /\ edges' = edges \o f.edges
        /\ at' = IF vad'.frames = buffer.end THEN "edges" ELSE "frames"
        /\ Silent
        /\ KeepsSink
        /\ UNCHANGED <<vad_enabled, buffer, voiced, utt, stopping>>

Onset ==
    /\ at = "edges"
    /\ SinkReady
    /\ edges # <<>> /\ Head(edges).kind = "SpeechStarted"
    /\ IF utt.in_speech
       THEN Silent /\ UNCHANGED utt
       ELSE /\ utt' = NewUtterance(Head(edges).t)
            /\ Emit(<<SpeechStarted(utt.id + 1, Head(edges).t)>>)
    /\ edges' = Tail(edges)
    /\ KeepsSink
    /\ UNCHANGED <<vad_enabled, at, buffer, vad, voiced, stopping>>

Endpoint ==
    /\ at = "edges"
    /\ SinkReady
    /\ edges # <<>> /\ Head(edges).kind = "Endpoint"
    /\ IF utt.in_speech
       THEN \/ /\ CloseUtterance(Head(edges).t)
               /\ buffer' = AfterUtterance(Head(edges).t)
               /\ utt' = [utt EXCEPT !.in_speech = FALSE]
               /\ edges' = Tail(edges)
               /\ UNCHANGED <<vad_enabled, at, vad, voiced, stopping>>
            \/ CancelledDecode
       ELSE /\ edges' = Tail(edges)
            /\ Silent
            /\ KeepsSink
            /\ UNCHANGED <<vad_enabled, at, buffer, vad, voiced, utt, stopping>>

\* The utterance may have lasted max_utterance_sec: it is closed where the audio ends.
Timeout ==
    /\ at = "edges"
    /\ SinkReady
    /\ edges = <<>>
    /\ \/ /\ utt.in_speech
          /\ utt.id < MaxUtterances
          /\ CloseUtterance(buffer.end)
          /\ buffer' = AfterUtterance(buffer.end)
          /\ at' = "reopen"
          /\ UNCHANGED <<vad_enabled, vad, edges, voiced, utt, stopping>>
       \/ utt.in_speech /\ CancelledDecode
       \/ /\ at' = "cap"
          /\ Silent
          /\ KeepsSink
          /\ UNCHANGED <<vad_enabled, audio, utt, stopping>>

\* After a timeout the next utterance opens where the last one was cut.
Reopen ==
    /\ at = "reopen"
    /\ SinkReady
    /\ utt' = NewUtterance(buffer.end)
    /\ Emit(<<SpeechStarted(utt.id + 1, buffer.end)>>)
    /\ at' = "cap"
    /\ KeepsSink
    /\ UNCHANGED <<vad_enabled, audio, stopping>>

\* The voiced ticks that capping the buffer takes from the decodes still to come, and the
\* utterance whose commit origin it overtakes (0 for none).
Lost(b) == {k \in voiced : buffer.trimmed <= k /\ k < b.trimmed /\ (utt.in_speech => k >= slice_from)}
Overtaken(b) == IF utt.in_speech /\ b.trimmed > slice_from THEN utt.id ELSE 0

Cap ==
    /\ at = "cap"
    /\ SinkReady
    /\ buffer' = enforce_cap(buffer)
    /\ IF buffer'.trimmed > buffer.trimmed
       THEN Emit(<<Event("forced_trim", Overtaken(buffer'), Lost(buffer'), buffer.trimmed, buffer'.trimmed)>>)
       ELSE Silent
    /\ at' = "step"
    /\ KeepsSink
    /\ UNCHANGED <<vad_enabled, vad, edges, voiced, utt, stopping>>

\* Mutant of Committed: the commit does not advance the origin of the next decode.
CommittedInPlace(through) == utt

\* The utterance after a commit of `through` ticks of the decoded window.
Committed(through) == [utt EXCEPT !.through = @ + through]

\* A step decode, if one is due.  The policy may commit the words up to one of its
\* segments, which ends `through` ticks into the decoded WINDOW.
Step ==
    /\ at = "step"
    /\ SinkReady
    /\ at' = "top"
    /\ \/ /\ Silent
          /\ UNCHANGED <<utt, stopping>>
       \/ /\ utt.in_speech
          /\ \E last \in window_from(slice_from) :
                LET start   == Larger(slice_from, buffer.trimmed)
                    through == last + 1 - start
                IN  /\ utt' = Committed(through)
                    /\ Emit(Delta({k \in window_from(slice_from) : k <= last},
                                  slice_from, slice_from + through))
          /\ UNCHANGED stopping
       \/ /\ utt.in_speech
          /\ stopping' = TRUE
          /\ Silent
          /\ UNCHANGED utt
    /\ KeepsSink
    /\ UNCHANGED <<vad_enabled, audio>>

\* The last statistics are recorded and the sink is closed.
Close ==
    /\ at = "closing"
    /\ SinkReady
    /\ Emit(<<Note("session_stats")>>)
    /\ Ask("close")
    /\ at' = "closed"
    /\ UNCHANGED <<vad_enabled, audio, utt, stopping>>

\* A store operation goes on; a flush that fails emits, and records, a warning.
Store ==
    /\ StoreStep
    /\ trail' = IF recorded' > recorded THEN Append(trail, Note("persist_degraded")) ELSE trail
    /\ UNCHANGED <<vad_enabled, at, audio, utt, stopping>>

Abort ==
    /\ at # "closed" \/ call \in {"flush", "close"}
    /\ Crash
    /\ UNCHANGED sessionVars

Over ==
    \/ call \in {"closed", "close_failed", "crashed"}
    \/ at = "closed" /\ call = "degraded"

Ended == Over /\ UNCHANGED vars

Next ==
    \/ SessionStart \/ Terminate \/ Read \/ Frame \/ Onset \/ Endpoint \/ Timeout
    \/ Reopen \/ Cap \/ Step \/ Close \/ Store \/ Abort \/ Ended

Spec == Init /\ [][Next]_vars

-----------------------------------------------------------------------------
(* Properties.                                                             *)

Is(i, kind) == trail[i].kind = kind

\* The utterances open before event i.
OpenAt(i) ==
    {trail[j].id : j \in {j \in 1 .. i - 1 : Is(j, "speech_started")}}
      \ {trail[j].id : j \in {j \in 1 .. i - 1 : Is(j, "utterance_end")}}

\* "Utterance lifecycle contract" of run_listen_session: "every `speech_started` is
\* matched by exactly one later `utterance_end` carrying the same `utterance_id`; ids
\* allocate monotonically from 1 and utterances never nest", and the deltas of an
\* utterance lie between the two, whatever the voice detector, the utterance timeout,
\* a cancelled decode and the end of the session do in whatever order.
UtteranceLifecycle ==
    /\ \A i \in DOMAIN trail :
          /\ Is(i, "speech_started") =>
                /\ OpenAt(i) = {}
                /\ trail[i].id = 1 + Cardinality({j \in 1 .. i - 1 : Is(j, "speech_started")})
          /\ Is(i, "delta") \/ Is(i, "utterance_end") => OpenAt(i) = {trail[i].id}
    /\ at = "closed" => OpenAt(Len(trail) + 1) = {}

\* Deltas are append-only ("later decodes never re-transcribe" committed audio): no
\* voiced tick is in two deltas.  Two exceptions are the code's: a cap on the buffer that
\* overtook the origin of the utterance's next decode, and audio past the reported end of
\* an utterance, which its last decode hears because it runs to the end of the buffer.
CommittedOnce == \A i, j \in DOMAIN trail :
    (i < j /\ Is(i, "delta") /\ Is(j, "delta")) =>
        \A k \in trail[i].text \intersect trail[j].text :
            IF trail[i].id = trail[j].id
            THEN \E c \in DOMAIN trail : Is(c, "forced_trim") /\ trail[c].id = trail[i].id
            ELSE \E e \in i .. j : Is(e, "utterance_end") /\ trail[e].id = trail[i].id /\ k >= trail[e].t1

\* The same without the first exception, as the comment at the step decode has it.
AppendOnly == \A i, j \in DOMAIN trail :
    (i < j /\ Is(i, "delta") /\ Is(j, "delta") /\ trail[i].id = trail[j].id) =>
        trail[i].text \intersect trail[j].text = {}

\* Nothing that was said is missing: every voiced tick between the reported start and end
\* of an utterance is in one of its deltas, unless the cap on the buffer took it and a
\* forced_trim warning said so.  Trims, timeouts and pre-padded onsets cut no word.
VoicedIsHeard == \A e \in DOMAIN trail : Is(e, "utterance_end") =>
    \A k \in voiced : (trail[e].t0 <= k /\ k < trail[e].t1) =>
        \E i \in DOMAIN trail :
            /\ k \in trail[i].text
            /\ \/ Is(i, "forced_trim")
               \/ Is(i, "delta") /\ trail[i].id = trail[e].id

\* storage.rs: "Utterances are the atomic durability unit".  However flushes fail and are
\* retried, whatever a failed RELEASE leaves of the transaction, and whenever the process
\* dies, an utterance is durable with all its events or with none: between two events of
\* which one is durable and the other is not, no utterance is open.  What is durable has its
\* run row, and the end marker only with the last event of a session that was closed ("a
\* crashed session is recognizable as a listen run whose events lack the session-end
\* marker").
UtterancesAtomic ==
    LET Durable(n) == Item(n) \in conn.durable
    IN  /\ \A n \in 1 .. recorded : Durable(n) # Durable(n + 1) => OpenAt(n + 1) = {}
        /\ conn.durable # {} => RunRow \in conn.durable
        /\ EndRow \in conn.durable => at = "closed" /\ Durable(recorded)

\* Persistence is "crash-durable at utterance granularity" and a flush is the "durability
\* point" of an utterance: what a flush reported written survives a crash.
FlushedSurvives == call = "crashed" => flushed \subseteq conn.durable
=============================================================================
