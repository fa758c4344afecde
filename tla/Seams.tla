------------------------------- MODULE Seams --------------------------------
(***************************************************************************)
(* The transcript of a speculative run: what the windows kept of some      *)
(* speech, merged (WindowManager::merge_segments), freed of the words two  *)
(* windows transcribed (dedupe_seam_repeats) and made monotonic            *)
(* (repair_seam_overlaps), as execute_backend_speculative of               *)
(* src/src/orchestrator.rs puts them together.                             *)
(*                                                                         *)
(* Speech is a sequence of utterances, one word per unit of time; both     *)
(* lanes hear every word inside a window's slice, one segment per          *)
(* utterance. No two words are the same.                                   *)
(***************************************************************************)
EXTENDS WindowSchedule, SequencesExt

Utterance(s, e) == [start |-> s, end |-> e]

(* One utterance, or two with nothing between them, anywhere in the audio. *)
Speeches ==
    LET times == 0 .. geometry.total
    IN  {<<Utterance(x[1], x[2])>> : x \in {y \in times \X times : y[1] < y[2]}}
        \cup {<<Utterance(x[1], x[2]), Utterance(x[2], x[3])>> :
                x \in {y \in times \X times \X times : y[1] < y[2] /\ y[2] < y[3]}}

Word(s, e) == [i \in 1 .. (e - s) |-> s + i - 1]

(* The segments a window contributes, in absolute time.                    *)
Heard(w, speech) ==
    LET kept == SelectSeq(speech, LAMBDA u : Keeps(w, u.start, u.end))
    IN  [i \in DOMAIN kept |->
            LET s == Larger(kept[i].start, w.start)
                e == Smaller(kept[i].end, w.end)
            IN  [start |-> s, end |-> e, words |-> Word(s, e)]]

(* merge_segments: sorted by their start, the earlier window's first, and  *)
(* without a segment that another window has at the same times.            *)
Merged(speech) ==
    LET all == FlattenSeq([i \in Indices |-> Heard(windows[i], speech)])
        numbered == [k \in DOMAIN all |-> [segment |-> all[k], number |-> k]]
        sorted == SortSeq(numbered, LAMBDA a, b :
                    \/ a.segment.start < b.segment.start
                    \/ a.segment.start = b.segment.start /\ a.number < b.number)
        Same(a, b) == a.start = b.start /\ a.end = b.end
    IN  FoldLeft(LAMBDA out, x :
                    IF out # << >> /\ Same(out[Len(out)], x.segment) THEN out ELSE Append(out, x.segment),
                 << >>, sorted)

\* Mutant of Repeated: a segment is never taken for a repeat as a whole.
RepeatedInPart(earlier, later) ==
    LET n == Smaller(Len(earlier), Len(later)) - 1
        same == {k \in 1 .. n : SubSeq(earlier, Len(earlier) - k + 1, Len(earlier)) = SubSeq(later, 1, k)}
    IN  CHOOSE k \in same \cup {0} : \A j \in same : j <= k

(* How many of the first words of later are the last ones of earlier.      *)
Repeated(earlier, later) ==
    LET n == Smaller(Len(earlier), Len(later))
        same == {k \in 1 .. n : SubSeq(earlier, Len(earlier) - k + 1, Len(earlier)) = SubSeq(later, 1, k)}
    IN  CHOOSE k \in same \cup {0} : \A j \in same : j <= k

(* dedupe_seam_repeats.                                                    *)
Deduped(segments) ==
    FoldLeft(LAMBDA out, x :
                IF out = << >> \/ x.start >= out[Len(out)].end THEN Append(out, x)
                ELSE LET k == Repeated(out[Len(out)].words, x.words)
                     IN  IF k > 0 /\ k = Len(x.words) THEN out
                         ELSE Append(out, [x EXCEPT !.words = SubSeq(@, k + 1, Len(@))]),
             << >>, segments)

(* repair_seam_overlaps.                                                   *)
Repaired(segments) ==
    FoldLeft(LAMBDA r, x :
                LET y == IF x.start < r.end
                         THEN [x EXCEPT !.start = r.end, !.end = Larger(@, r.end)]
                         ELSE x
                IN  [out |-> Append(r.out, y), end |-> Larger(r.end, y.end)],
             [out |-> << >>, end |-> 0], segments).out

Transcript(speech) == Repaired(Deduped(Merged(speech)))

WordsOf(segments) == FlattenSeq([i \in DOMAIN segments |-> segments[i].words])
WordsSpoken(speech) == FlattenSeq([i \in DOMAIN speech |-> Word(speech[i].start, speech[i].end)])

(* No window overlaps its second neighbour.                                *)
SeamsApart ==
    \A i \in 1 .. (Len(windows) - 2) : windows[i].end <= windows[i + 2].start

(* The transcript says every word that was spoken once and in order, no    *)
(* matter where the windows cut the utterances, as long as no moment is in *)
(* three windows. The overlap is even: half of an odd one cuts a word of   *)
(* the model, where it moves a seam by half a millisecond in the code.     *)
WordsOnce ==
    walk.at = "finish" /\ SeamsApart /\ geometry.overlap % 2 = 0 =>
        \A speech \in Speeches : WordsOf(Transcript(speech)) = WordsSpoken(speech)

=============================================================================
