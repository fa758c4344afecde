--------------------------- MODULE WindowSchedule ---------------------------
(***************************************************************************)
(* The window schedule of speculative streaming: run_windows of            *)
(* src/src/streaming.rs walks overlapping windows over the audio, the      *)
(* WindowManager of src/src/speculation.rs cuts them, and after every      *)
(* verdict the SpeculationWindowController may change the size of the      *)
(* windows to come. LaneWindow::owned_range_ms says which window a moment  *)
(* of speech is taken from.                                                *)
(*                                                                         *)
(* Times are in units of the model, the first of them 0. The Brier score   *)
(* and the mean word error rate are kept as the comparisons made with      *)
(* them: either outcome, whatever was observed.                            *)
(***************************************************************************)
EXTENDS Integers, Sequences

CONSTANTS
    Totals, Overlaps, Sizes,        \* the durations and geometries to check
    MinWindow, MaxWindow, StepSize, \* 1000, 30000 and 500 ms
    MIN_WINDOWS_FOR_ADAPT,          \* 5
    SettledWindows,                 \* 10: samples of a Brier score, windows of half confidence
    ZERO_CORRECTION_FORCE_SHRINK    \* 20

ASSUME GeometryAssumption ==
    /\ Totals \subseteq Nat /\ Overlaps \subseteq Nat /\ Sizes \subseteq Nat
    /\ MinWindow \in Nat \ {0} /\ MaxWindow \in Nat /\ MinWindow <= MaxWindow /\ StepSize \in Nat

ASSUME ThresholdAssumption ==
    {MIN_WINDOWS_FOR_ADAPT, SettledWindows, ZERO_CORRECTION_FORCE_SHRINK} \subseteq Nat

VARIABLES
    geometry,   \* the audio's duration, the overlap, the first window size, and whether it adapts
    walk,       \* where run_windows is: its position and step
    size,       \* WindowManager.window_size_ms
    windows,    \* WindowManager.windows, oldest first
    controller  \* SpeculationWindowController

schedule == <<geometry, walk, size, windows, controller>>

Larger(a, b) == IF a >= b THEN a ELSE b
Smaller(a, b) == IF a <= b THEN a ELSE b

(* SpeculativeConfig::validate refuses every other geometry.               *)
Geometries == {c \in [total : Totals, overlap : Overlaps, initial : Sizes, adaptive : BOOLEAN] :
                c.initial > c.overlap}

WalkAt(at, position, step) == [at |-> at, position |-> position, step |-> step]

ScheduleInit ==
    /\ geometry \in Geometries
    /\ walk = WalkAt("loop", 0, 0)
    /\ size = geometry.initial
    /\ windows = << >>
    /\ controller = [current |-> geometry.initial, corrections |-> 0, count |-> 0, zeros |-> 0]

-----------------------------------------------------------------------------
(* The controller: observe, recommend_with_brier, apply.                   *)

Observed(c, corrected) ==
    [current |-> c.current,
     corrections |-> IF corrected THEN c.corrections + 1 ELSE c.corrections,
     count |-> c.count + 1,
     zeros |-> IF corrected THEN 0 ELSE c.zeros + 1]

Runaway(c) == 4 * c.corrections > 3 * c.count

ForcedShrink(c) == c.zeros >= ZERO_CORRECTION_FORCE_SHRINK /\ c.current > MinWindow

Grows(c, badWer) ==
    /\ c.count >= MIN_WINDOWS_FOR_ADAPT
    /\ c.current < MaxWindow
    /\ \/ Runaway(c)
       \/ /\ ~ForcedShrink(c) /\ c.count >= SettledWindows
          /\ 4 * c.corrections > c.count /\ badWer

Shrinks(c) ==
    /\ c.count >= MIN_WINDOWS_FOR_ADAPT
    /\ c.current > MinWindow
    /\ ~Runaway(c)
    /\ \/ ForcedShrink(c)
       \/ c.count > SettledWindows /\ 16 * c.corrections < c.count

(* The window the controller asks for. A poor Brier score restores the     *)
(* first one.                                                              *)
Applied(c, badWer, badBrier) ==
    CASE badBrier /\ c.count >= SettledWindows -> geometry.initial
      [] ~(badBrier /\ c.count >= SettledWindows) /\ Grows(c, badWer) ->
            Smaller(c.current + StepSize, MaxWindow)
      [] ~(badBrier /\ c.count >= SettledWindows) /\ Shrinks(c) ->
            Larger(c.current - StepSize, MinWindow)
      [] OTHER -> c.current

(* WindowManager::set_window_size.                                         *)
Clamped(n) == Smaller(Larger(n, MinWindow), MaxWindow)

(* The size apply_adaptive_window_update leaves behind: always larger than *)
(* the overlap, and the present one where the ceiling forbids that.        *)
Resized(n) ==
    LET wanted == Larger(n, geometry.overlap + 1)
    IN  IF wanted <= MaxWindow THEN Clamped(wanted) ELSE size

Adapt(corrected, badWer, badBrier) ==
    IF geometry.adaptive
    THEN LET seen == Observed(controller, corrected)
             next == Applied(seen, badWer, badBrier)
         IN  controller' = [seen EXCEPT !.current = next] /\ size' = Resized(next)
    ELSE UNCHANGED <<controller, size>>

-----------------------------------------------------------------------------
(* run_windows.                                                            *)

Window(start, end) == [start |-> start, end |-> end, status |-> "pending"]
Closed(w) == [start |-> w.start, end |-> w.end, status |-> "resolved"]

Current == windows[Len(windows)]

(* One turn of the loop up to the lanes: next_window_bounded_receipt cuts  *)
(* the window. A geometry without a positive step is an error.             *)
OpenWindow ==
    /\ walk.at = "loop" /\ walk.position < geometry.total
    /\ IF size <= geometry.overlap
       THEN walk' = [walk EXCEPT !.at = "failed"] /\ UNCHANGED windows
       ELSE /\ walk' = WalkAt("lanes", walk.position, size - geometry.overlap)
            /\ windows' = Append(windows, Window(walk.position, Smaller(walk.position + size, geometry.total)))
    /\ UNCHANGED <<geometry, size, controller>>

\* Mutant of CloseWindow: the step is that of the size just set.
CloseWindowNewStep(corrected, badWer, badBrier) ==
    /\ walk.at = "lanes"
    /\ windows' = [windows EXCEPT ![Len(windows)] = Closed(@)]
    /\ Adapt(corrected, badWer, badBrier)
    /\ walk' = IF Current.end >= geometry.total
               THEN [walk EXCEPT !.at = "finish"]
               ELSE WalkAt("loop", walk.position + size' - geometry.overlap, walk.step)
    /\ UNCHANGED geometry

(* The window is resolved, the controller adapts the size, and the loop    *)
(* goes on by the step of the window it has just processed, unless that    *)
(* window reached the end.                                                 *)
CloseWindow(corrected, badWer, badBrier) ==
    /\ walk.at = "lanes"
    /\ windows' = [windows EXCEPT ![Len(windows)] = Closed(@)]
    /\ Adapt(corrected, badWer, badBrier)
    /\ walk' = IF Current.end >= geometry.total
               THEN [walk EXCEPT !.at = "finish"]
               ELSE WalkAt("loop", walk.position + walk.step, walk.step)
    /\ UNCHANGED geometry

(* A checkpoint, the preparation of a window or one of its lanes fails.    *)
Abandon ==
    /\ walk.at \in {"loop", "lanes"}
    /\ walk' = [walk EXCEPT !.at = "failed"]
    /\ UNCHANGED <<geometry, size, windows, controller>>

Finish ==
    /\ walk.at = "finish" \/ (walk.at = "loop" /\ walk.position >= geometry.total)
    /\ walk' = [walk EXCEPT !.at = "done"]
    /\ UNCHANGED <<geometry, size, windows, controller>>

Ended == walk.at \in {"done", "failed"}

ScheduleNext ==
    \/ OpenWindow
    \/ \E corrected, badWer, badBrier \in BOOLEAN : CloseWindow(corrected, badWer, badBrier)
    \/ Abandon
    \/ Finish
    \/ Ended /\ UNCHANGED schedule

ScheduleSpec == ScheduleInit /\ [][ScheduleNext]_schedule

-----------------------------------------------------------------------------
(* Ownership.                                                              *)

(* owned_range_ms. The last window's range has no end.                     *)
OwnedFrom(w) == IF w.start = 0 THEN 0 ELSE w.start + geometry.overlap \div 2
OwnedTo(w) == w.end - (geometry.overlap - geometry.overlap \div 2)

(* Twice a moment, so that the middle of two is a number too.              *)
OwnsTwice(w, m) == m >= 2 * OwnedFrom(w) /\ (w.end >= geometry.total \/ m < 2 * OwnedTo(w))
Owns(w, t) == OwnsTwice(w, 2 * t)

(* What a lane that hears well makes of speech from s to e: a segment for  *)
(* the part inside the window's slice, which localize_segments keeps if    *)
(* its middle is owned.                                                    *)
Hears(w, s, e) == s < w.end /\ e > w.start

Keeps(w, s, e) == Hears(w, s, e) /\ OwnsTwice(w, Larger(s, w.start) + Smaller(e, w.end))

Indices == DOMAIN windows
Moments == 0 .. (geometry.total - 1)

(* Types of the schedule; the windows stay larger than their overlap.      *)
ScheduleTypes ==
    /\ geometry \in Geometries
    /\ walk \in [at : {"loop", "lanes", "finish", "done", "failed"}, position : Nat, step : Nat]
    /\ size \in Nat /\ size > geometry.overlap
    /\ windows \in Seq([start : Nat, end : Nat, status : {"pending", "resolved"}])
    /\ controller \in [current : Nat, corrections : Nat, count : Nat, zeros : Nat]

(* Whatever sizes the controller chose between two windows, no moment of   *)
(* the audio is owned by two windows, and when the walk is through every   *)
(* moment is owned: "each instant of audio is owned by exactly one window" *)
(* (src/src/streaming.rs:107).                                             *)
OwnedOnce ==
    /\ \A i, j \in Indices : \A t \in Moments :
            Owns(windows[i], t) /\ Owns(windows[j], t) => i = j
    /\ walk.at \in {"finish", "done"} => \A t \in Moments : \E i \in Indices : Owns(windows[i], t)

=============================================================================
