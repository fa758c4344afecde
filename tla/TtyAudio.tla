------------------------------ MODULE TtyAudio ------------------------------
(***************************************************************************)
(* The tty-audio protocol of src/src/tty_audio.rs over a link that loses,  *)
(* damages and repeats lines.  An encoder emits a handshake, numbered      *)
(* frames and perhaps a session close; the far side records the lines it   *)
(* gets; `retransmit-plan`, the retransmit loop and `decode` each read the *)
(* record from its beginning; the frames a plan asks for are sent again    *)
(* and appended to the record.                                             *)
(*                                                                         *)
(* Damage is damage of the payload, which base64, zlib, CRC32 or SHA-256   *)
(* catch.  The codec, the sample rate and the protocol version are those   *)
(* the encoder writes; the loop's repeated identical requests are one.     *)
(***************************************************************************)
EXTENDS Integers, Sequences, FiniteSets, SequencesExt

CONSTANTS
    Frames,         \* frames the encoder has
    Closes,         \* whether it may end with a session_close
    MaxMissing,     \* MAX_RECOVERABLE_MISSING_FRAMES
    MaxLost,        \* bound on the lines the link loses
    MaxDamaged,     \* bound on the frames it damages
    MaxRepeated,    \* bound on the frames it repeats
    MaxResends      \* bound on how often a frame is sent again

ASSUME LinkAssumption ==
    /\ Frames \in Nat \ {0}
    /\ Closes \in BOOLEAN
    /\ {MaxMissing, MaxLost, MaxDamaged, MaxRepeated, MaxResends} \subseteq Nat

VARIABLES
    emitted,    \* lines the encoder has emitted
    link,       \* lines under way
    log,        \* lines recorded
    report,     \* the newest lenient report, the plan, and the frames it found
    request,    \* sequences asked for and not answered
    resends,    \* how often each frame was sent again
    faults      \* lines lost, damaged and repeated

ttyVars == <<emitted, link, log, report, request, resends, faults>>

Seqs == 0 .. Frames - 1
Control(kind) == [kind |-> kind, seq |-> Frames - 1, intact |-> TRUE]
Audio(s) == [kind |-> "audio", seq |-> s, intact |-> TRUE]

\* What encode_to_writer emits.
Stream == <<Control("handshake")>> \o [i \in 1 .. Frames |-> Audio(i - 1)]

Lines == [kind : {"handshake", "audio", "response", "session_close"}, seq : Seqs, intact : BOOLEAN]
SeqsOf(frames) == {frames[i].seq : i \in DOMAIN frames}

-----------------------------------------------------------------------------
(* parse_audio_frames_for_decode                                           *)

ParseStart == [ok |-> TRUE, frames |-> <<>>, handshake |-> FALSE, closed |-> FALSE]

ParseStep(p, line) ==
    IF ~p.ok THEN p
    ELSE CASE line.kind = "audio" ->
                 IF p.closed THEN [p EXCEPT !.ok = FALSE]
                 ELSE [p EXCEPT !.frames = Append(@, line)]
           [] line.kind = "handshake" ->
                 IF p.frames # <<>> \/ p.handshake THEN [p EXCEPT !.ok = FALSE]
                 ELSE [p EXCEPT !.handshake = TRUE]
           [] OTHER ->
                 [p EXCEPT !.ok = p.handshake \/ p.frames # <<>>,
                           !.closed = @ \/ line.kind = "session_close"]

\* Mutant of CloseIsConsistent: the claim of the close is not compared.
CloseUnchecked(p) == TRUE

\* validate_session_close: the highest sequence seen is the one the close names.
CloseIsConsistent(p) ==
    p.closed => p.frames # <<>> /\ Max(SeqsOf(p.frames)) = Frames - 1

\* What the reader knows after each of the lines.
ParseRun(lines) ==
    LET p[n \in 0 .. Len(lines)] == IF n = 0 THEN ParseStart ELSE ParseStep(p[n - 1], lines[n])
    IN  p

\* The frames of a record, and whether it is accepted at all.
Parse(lines) ==
    LET p == ParseRun(lines)[Len(lines)]
    IN  [p EXCEPT !.ok = @ /\ CloseIsConsistent(p) /\ p.frames # <<>>]

-----------------------------------------------------------------------------
(* decode_frames_to_raw_with_policy                                        *)

\* Mutant of SortBySeq: frames stay in the order of their arrival.
Unsorted(frames) == frames

\* A frame is placed after the frames with its number.
Place(sorted, f) == InsertAt(sorted, 1 + Cardinality({i \in DOMAIN sorted : sorted[i].seq <= f.seq}), f)

SortRun(frames) ==
    LET s[n \in 0 .. Len(frames)] == IF n = 0 THEN <<>> ELSE Place(s[n - 1], frames[n])
    IN  s

\* The stable sort by sequence number.
SortBySeq(frames) == SortRun(frames)[Len(frames)]

DecodeStart ==
    [ok |-> TRUE, expected |-> 0, seen |-> {}, raw |-> <<>>, gaps |-> <<>>, missing |-> 0,
     duplicates |-> <<>>, failures |-> <<>>, prefix |-> TRUE, ack |-> -1]

\* A frame beyond the expected one: the gap is recorded, or is too large, or fails the decode.
SeeGap(d, f, policy) ==
    LET missing == d.missing + f.seq - d.expected
    IN  [d EXCEPT !.ok = missing <= MaxMissing /\ policy = "SkipMissing",
                  !.missing = missing,
                  !.gaps = Append(@, <<d.expected, f.seq>>),
                  !.prefix = FALSE,
                  !.expected = f.seq]

\* A frame whose payload fails one of the integrity checks.
Drop(d, f, policy) ==
    [d EXCEPT !.ok = policy = "SkipMissing",
              !.failures = Append(@, f.seq),
              !.prefix = FALSE,
              !.seen = @ \cup {f.seq},
              !.expected = f.seq + 1]

Take(d, f) ==
    [d EXCEPT !.raw = Append(@, f.seq),
              !.seen = @ \cup {f.seq},
              !.ack = IF d.prefix THEN f.seq ELSE @,
              !.expected = f.seq + 1]

DecodeStep(d, f, policy) ==
    LET gapped == IF f.seq > d.expected THEN SeeGap(d, f, policy) ELSE d
    IN  IF ~d.ok THEN d
        ELSE IF f.seq \in d.seen \/ f.seq < d.expected
             THEN [d EXCEPT !.duplicates = Append(@, f.seq), !.ok = policy = "SkipMissing"]
        ELSE IF ~gapped.ok THEN gapped
        ELSE IF f.intact THEN Take(gapped, f) ELSE Drop(gapped, f, policy)

\* What the decoder has after each of the frames.
DecodeRun(frames, policy) ==
    LET d[n \in 0 .. Len(frames)] == IF n = 0 THEN DecodeStart ELSE DecodeStep(d[n - 1], frames[n], policy)
    IN  d

\* An empty or ill-formed record is refused.
Decode(lines, policy) ==
    LET p == Parse(lines)
        frames == SortBySeq(p.frames)
    IN  IF p.ok THEN DecodeRun(frames, policy)[Len(frames)] ELSE [DecodeStart EXCEPT !.ok = FALSE]

\* Mutant of Plan: only gaps are asked for.
PlanOfGaps(d) == UNION {g[1] .. g[2] - 1 : g \in ToSet(d.gaps)}

\* retransmit_plan_from_report: the gaps and the integrity failures, each once.
Plan(d) == (UNION {g[1] .. g[2] - 1 : g \in ToSet(d.gaps)}) \cup ToSet(d.failures)

\* The up_to_seq of the Ack that is emitted when nothing is to be asked for.
UpTo(d) == Max({d.ack, 0})

-----------------------------------------------------------------------------

TtyInit ==
    /\ emitted = 0
    /\ link = <<>> /\ log = <<>>
    /\ report = [d |-> DecodeStart, of |-> <<>>]
    /\ request = {} /\ resends = [s \in Seqs |-> 0]
    /\ faults = [lost |-> 0, damaged |-> 0, repeated |-> 0]

\* The encoder writes its next line.
Emit ==
    /\ emitted < Len(Stream)
    /\ emitted' = emitted + 1
    /\ link' = Append(link, Stream[emitted + 1])
    /\ UNCHANGED <<log, report, request, resends, faults>>

\* emit_session_close, with the last frame's number.
CloseSession ==
    /\ Closes /\ emitted = Len(Stream)
    /\ emitted' = emitted + 1
    /\ link' = Append(link, Control("session_close"))
    /\ UNCHANGED <<log, report, request, resends, faults>>

\* The line at the head of the link is recorded.
Deliver ==
    /\ link # <<>>
    /\ log' = Append(log, Head(link))
    /\ link' = Tail(link)
    /\ UNCHANGED <<emitted, report, request, resends, faults>>

Lose ==
    /\ link # <<>> /\ faults.lost < MaxLost
    /\ link' = Tail(link)
    /\ faults' = [faults EXCEPT !.lost = @ + 1]
    /\ UNCHANGED <<emitted, log, report, request, resends>>

Damage ==
    /\ link # <<>> /\ Head(link).kind = "audio" /\ Head(link).intact
    /\ faults.damaged < MaxDamaged
    /\ link' = [link EXCEPT ![1].intact = FALSE]
    /\ faults' = [faults EXCEPT !.damaged = @ + 1]
    /\ UNCHANGED <<emitted, log, report, request, resends>>

Repeat ==
    /\ link # <<>> /\ Head(link).kind = "audio"
    /\ faults.repeated < MaxRepeated
    /\ log' = Append(log, Head(link))
    /\ faults' = [faults EXCEPT !.repeated = @ + 1]
    /\ UNCHANGED <<emitted, link, report, request, resends>>

\* emit_retransmit_loop_from_reader: decode what is recorded; acknowledge when nothing is
\* to be asked for, else ask.  A record that is refused yields neither.
RetransmitLoop ==
    LET d == Decode(log, "SkipMissing")
    IN  /\ report.of # log
        /\ report' = [d |-> d, of |-> log]
        /\ request' = IF d.ok THEN Plan(d) ELSE request
        /\ UNCHANGED <<emitted, link, log, resends, faults>>

\* The frame with the number s is sent if the number is in the set.
Gather(frames, numbers, s) == IF s \in numbers THEN Append(frames, Audio(s)) ELSE frames

\* The audio frames with the numbers of a set, in order.
AudioRun(numbers) ==
    LET a[n \in 0 .. Frames] == IF n = 0 THEN <<>> ELSE Gather(a[n - 1], numbers, n - 1)
    IN  a

AudioOf(numbers) == AudioRun(numbers)[Frames]

\* The sender answers when its own lines are out: a retransmit_response and the frames.
Resend ==
    LET again == {s \in request : resends[s] < MaxResends}
    IN  /\ emitted >= Len(Stream) /\ link = <<>>
        /\ again # {}
        /\ link' = <<Control("response")>> \o AudioOf(again)
        /\ request' = {}
        /\ resends' = [s \in Seqs |-> IF s \in again THEN resends[s] + 1 ELSE resends[s]]
        /\ UNCHANGED <<emitted, log, report, faults>>

TtyNext == Emit \/ CloseSession \/ Deliver \/ Lose \/ Damage \/ Repeat \/ RetransmitLoop \/ Resend

\* The encoder writes to its end, a link that has no fault left delivers, the user runs the
\* loop on what came, and the sender answers.  No fault is fair.  The third conjunct is
\* WF_ttyVars(RetransmitLoop): the loop is enabled until the record is read, and reads it.
TtySpec ==
    /\ TtyInit /\ [][TtyNext]_ttyVars
    /\ WF_ttyVars(Emit) /\ WF_ttyVars(Deliver)
    /\ []<>(report.of = log)
    /\ WF_ttyVars(Resend)

-----------------------------------------------------------------------------

\* A report accounts for every frame up to the highest it saw: each is either in the audio,
\* once and in order, or in the plan, never both (retransmit_plan_from_report).
PlanCompletesAudio ==
    LET d == report.d
    IN  d.ok /\ report.of # <<>> =>
            /\ \A i, j \in DOMAIN d.raw : i < j => d.raw[i] < d.raw[j]
            /\ ToSet(d.raw) \cap Plan(d) = {}
            /\ ToSet(d.raw) \cup Plan(d) = 0 .. Max(SeqsOf(Parse(report.of).frames))

\* An acknowledgement is true of what was recorded: an intact copy of every frame up to it is
\* there, and of all the sender's frames if a close is (Ack's up_to_seq). This is what the code
\* sends; docs/tty-replay-guarantees.md:79 has an up_to_seq of 0 whenever nothing is missing.
AckIsTrue ==
    LET p == Parse(report.of)
    IN  report.d.ok /\ report.of # <<>> /\ Plan(report.d) = {} =>
            /\ \A s \in 0 .. UpTo(report.d) :
                   \E i \in DOMAIN p.frames : p.frames[i] = Audio(s)
            /\ p.closed => UpTo(report.d) = Frames - 1

\* A frame that was asked for is decoded in the end, unless the record was closed or a damaged
\* copy came first (retransmit requests, answered over a link that loses finitely many lines).
LossHeals ==
    \A s \in Seqs :
        (s \in request) ~> (\/ s \in ToSet(report.d.raw)
                            \/ \E i \in DOMAIN log : \/ log[i].kind = "session_close"
                                                     \/ log[i].seq = s /\ ~log[i].intact)

=============================================================================
