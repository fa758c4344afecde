------------------------- MODULE SpeculationProofs --------------------------
(***************************************************************************)
(* Windows own every moment of the audio exactly once, for every duration, *)
(* overlap and size, and whatever the adaptive controller does.  The two   *)
(* lanes of a window and the tracker leave a stream that can be replayed,  *)
(* for any number of windows and segments.  Both hold in every run of the  *)
(* pipeline, whatever becomes of the stage the lanes work for.             *)
(***************************************************************************)
EXTENDS SpeculativeRun, SequenceTheorems, TLAPS

LastWindow == windows[Len(windows)]

Cut == [start : Nat, end : Nat, status : {"pending", "resolved"}]

\* A window gives way to the next one where that one begins to own, and only the last
\* window reaches the end.
Apart == \A i, j \in Indices : i < j =>
    /\ windows[i].end < geometry.total
    /\ OwnedTo(windows[i]) <= OwnedFrom(windows[j])

\* Every moment before the range of the last window has an owner.
Covered == windows # << >> =>
    \A t \in Moments : t < OwnedFrom(LastWindow) => \E i \in Indices : Owns(windows[i], t)

\* Where the walk stands relative to the last window.
Walked ==
    /\ windows = << >> =>
          /\ walk.at \in {"loop", "failed", "done"}
          /\ walk.at = "loop" => walk.position = 0
          /\ walk.at = "done" => geometry.total = 0
    /\ windows # << >> =>
          /\ walk.at = "lanes" =>
                /\ walk.position = LastWindow.start
                /\ LastWindow.end < geometry.total =>
                      walk.step > 0 /\ LastWindow.end = LastWindow.start + walk.step + geometry.overlap
          /\ walk.at = "loop" =>
                /\ LastWindow.end < geometry.total
                /\ walk.position = LastWindow.end - geometry.overlap
                /\ LastWindow.start + geometry.overlap < LastWindow.end
          /\ walk.at \in {"finish", "done"} => LastWindow.end >= geometry.total

IInv == ScheduleTypes /\ Apart /\ Covered /\ Walked

\* Half of an overlap.
LEMMA Half == \A n \in Nat : n \div 2 \in Nat /\ n \div 2 <= n
OBVIOUS

\* The numbers of a configuration.
LEMMA ConfigNat ==
    ASSUME geometry \in Geometries
    PROVE  /\ geometry.total \in Nat /\ geometry.overlap \in Nat /\ geometry.initial \in Nat
           /\ geometry.initial > geometry.overlap /\ geometry.adaptive \in BOOLEAN
           /\ geometry.overlap \div 2 \in Nat /\ geometry.overlap \div 2 <= geometry.overlap
BY GeometryAssumption, Half DEF Geometries

\* No window was cut yet.
LEMMA InitInv == ScheduleInit => IInv
<1> SUFFICES ASSUME ScheduleInit PROVE IInv
  OBVIOUS
<1> USE ConfigNat DEF ScheduleInit
<1>1. ScheduleTypes
  BY DEF ScheduleTypes, WalkAt
<1>2. Apart
  BY DEF Apart, Indices
<1> QED
  BY <1>1, <1>2 DEF IInv, Covered, Walked, WalkAt

\* set_window_size keeps a window larger than its overlap, whatever size is asked for.
LEMMA ResizedIsPositive ==
    ASSUME ScheduleTypes, NEW n \in Nat
    PROVE  Resized(n) \in Nat /\ Resized(n) > geometry.overlap
<1> DEFINE wanted == Larger(n, geometry.overlap + 1)
<1>1. geometry.overlap \in Nat /\ size \in Nat /\ size > geometry.overlap
  BY ConfigNat DEF ScheduleTypes
<1>2. wanted \in Nat /\ wanted > geometry.overlap
  BY <1>1 DEF Larger
<1>3. Resized(n) = IF wanted <= MaxWindow THEN Clamped(wanted) ELSE size
  BY DEF Resized
<1> HIDE DEF wanted
<1>4. wanted <= MaxWindow => Clamped(wanted) \in Nat /\ Clamped(wanted) >= wanted
  BY <1>2, GeometryAssumption DEF Clamped, Larger, Smaller
<1> QED
  BY <1>1, <1>2, <1>3, <1>4

\* The controller asks for a natural number.
LEMMA AppliedNat ==
    ASSUME ScheduleTypes,
           NEW c \in [current : Nat, corrections : Nat, count : Nat, zeros : Nat],
           NEW badWer \in BOOLEAN, NEW badBrier \in BOOLEAN
    PROVE  Applied(c, badWer, badBrier) \in Nat
<1>1. Smaller(c.current + StepSize, MaxWindow) \in Nat
  BY GeometryAssumption DEF Smaller
<1>2. Larger(c.current - StepSize, MinWindow) \in Nat
  BY GeometryAssumption DEF Larger
<1>3. geometry.initial \in Nat /\ c.current \in Nat
  BY ConfigNat DEF ScheduleTypes
<1> QED
  BY <1>1, <1>2, <1>3 DEF Applied

\* Adapting keeps the types of the size and of the controller.
LEMMA AdaptTypes ==
    ASSUME ScheduleTypes, NEW corrected \in BOOLEAN, NEW badWer \in BOOLEAN, NEW badBrier \in BOOLEAN,
           Adapt(corrected, badWer, badBrier)
    PROVE  /\ size' \in Nat /\ size' > geometry.overlap
           /\ controller' \in [current : Nat, corrections : Nat, count : Nat, zeros : Nat]
<1>1. CASE ~geometry.adaptive
  BY <1>1 DEF Adapt, ScheduleTypes
<1>2. CASE geometry.adaptive
  <2> DEFINE seen == Observed(controller, corrected)
             next == Applied(seen, badWer, badBrier)
  <2>1. seen \in [current : Nat, corrections : Nat, count : Nat, zeros : Nat]
    BY DEF ScheduleTypes, Observed
  <2>2. next \in Nat
    BY <2>1, AppliedNat
  <2>3. controller' = [seen EXCEPT !.current = next] /\ size' = Resized(next)
    BY <1>2 DEF Adapt
  <2> HIDE DEF seen, next
  <2> QED
    BY <2>1, <2>2, <2>3, ResizedIsPositive
<1> QED
  BY <1>1, <1>2

\* The bounds of the windows are numbers.
LEMMA CutNat ==
    ASSUME windows \in Seq(Cut), NEW i \in 1 .. Len(windows)
    PROVE  windows[i].start \in Nat /\ windows[i].end \in Nat
<1>1. windows[i] \in Cut
  OBVIOUS
<1> QED
  BY <1>1 DEF Cut

\* So are the bounds of what a window owns.
LEMMA OwnedNat ==
    ASSUME geometry \in Geometries, NEW w, w.start \in Nat, w.end \in Nat
    PROVE  /\ OwnedFrom(w) \in Nat /\ OwnedTo(w) \in Int
           /\ w.start > 0 => OwnedFrom(w) = w.start + geometry.overlap \div 2
           /\ OwnedFrom(w) <= w.start + geometry.overlap \div 2
           /\ OwnedTo(w) = w.end - geometry.overlap + geometry.overlap \div 2
<1> DEFINE h == geometry.overlap \div 2
<1>1. h \in Nat /\ geometry.overlap \in Nat
  BY ConfigNat
<1>2. OwnedFrom(w) = IF w.start = 0 THEN 0 ELSE w.start + h
  BY DEF OwnedFrom
<1>3. OwnedTo(w) = w.end - (geometry.overlap - h)
  BY DEF OwnedTo
<1> HIDE DEF h
<1>4. /\ OwnedFrom(w) \in Nat /\ OwnedTo(w) \in Int
      /\ w.start > 0 => OwnedFrom(w) = w.start + h
      /\ OwnedFrom(w) <= w.start + h
      /\ OwnedTo(w) = w.end - geometry.overlap + h
  BY <1>1, <1>2, <1>3
<1> QED
  BY <1>4 DEF h

\* A window that starts where the last one minus the overlap ends, or at 0, is apart from the
\* others and leaves no moment before it without an owner.
LEMMA Extended ==
    ASSUME IInv, NEW v \in Cut, geometry' = geometry, windows' = Append(windows, v),
           windows = << >> => v.start = 0,
           windows # << >> => /\ LastWindow.end < geometry.total
                              /\ v.start = LastWindow.end - geometry.overlap
                              /\ LastWindow.start + geometry.overlap < LastWindow.end
    PROVE  Apart' /\ Covered'
<1> DEFINE n == Len(windows)
<1>1. /\ geometry.total \in Nat /\ geometry.overlap \in Nat /\ geometry.overlap \div 2 \in Nat
      /\ geometry.overlap \div 2 <= geometry.overlap /\ n \in Nat /\ windows \in Seq(Cut)
      /\ Indices = 1 .. n
  BY ConfigNat DEF IInv, ScheduleTypes, Cut, Indices
<1>2. /\ Len(windows') = n + 1 /\ windows'[n + 1] = v
      /\ \A i \in 1 .. n : windows'[i] = windows[i]
      /\ Indices' = 1 .. (n + 1) /\ windows' # << >>
  BY <1>1 DEF Indices
<1>3. /\ v.start \in Nat /\ v.end \in Nat
      /\ \A i \in 1 .. n : windows[i].start \in Nat /\ windows[i].end \in Nat
  BY <1>1, CutNat DEF Cut
<1>4. /\ OwnedFrom(v) \in Nat
      /\ \A i \in 1 .. n : OwnedFrom(windows[i]) \in Nat /\ OwnedTo(windows[i]) \in Int
  BY <1>3, OwnedNat DEF IInv, ScheduleTypes
<1>5. n > 0 => /\ LastWindow = windows[n] /\ windows[n].end < geometry.total
               /\ OwnedFrom(v) = OwnedTo(windows[n])
               /\ OwnedFrom(windows[n]) <= OwnedTo(windows[n])
  <2> SUFFICES ASSUME n > 0 PROVE /\ LastWindow = windows[n] /\ windows[n].end < geometry.total
                                  /\ OwnedFrom(v) = OwnedTo(windows[n])
                                  /\ OwnedFrom(windows[n]) <= OwnedTo(windows[n])
    OBVIOUS
  <2>1. LastWindow = windows[n] /\ windows # << >> /\ n \in 1 .. n
    BY <1>1 DEF LastWindow
  <2>2. /\ windows[n].end < geometry.total /\ v.start = windows[n].end - geometry.overlap
        /\ windows[n].start + geometry.overlap < windows[n].end
    BY <2>1
  <2>3. v.start > 0
    BY <1>1, <1>3, <2>1, <2>2
  <2> QED
    <3> DEFINE h == geometry.overlap \div 2
    <3>1. /\ OwnedFrom(v) = v.start + h
          /\ OwnedFrom(windows[n]) <= windows[n].start + h
          /\ OwnedTo(windows[n]) = windows[n].end - geometry.overlap + h
      BY <1>3, <2>1, <2>3, OwnedNat DEF IInv, ScheduleTypes
    <3>2. h \in Nat
      BY <1>1
    <3> HIDE DEF h
    <3>3. /\ geometry.overlap \in Nat /\ v.start \in Nat
          /\ windows[n].start \in Nat /\ windows[n].end \in Nat
          /\ OwnedFrom(windows[n]) \in Int
      <4>1. windows[n].start \in Nat /\ windows[n].end \in Nat /\ v.start \in Nat
        BY <1>3, <2>1
      <4>2. OwnedFrom(windows[n]) \in Nat
        BY <1>4, <2>1
      <4> QED
        BY <1>1, <4>1, <4>2
    <3>4. OwnedFrom(v) = OwnedTo(windows[n]) /\ OwnedFrom(windows[n]) <= OwnedTo(windows[n])
      BY <2>2, <3>1, <3>2, <3>3, SMTT(30)
    <3> QED
      BY <2>1, <2>2, <3>4
<1>6. n = 0 => OwnedFrom(v) = 0
  BY <1>1 DEF OwnedFrom
<1>7. Apart'
  <2> SUFFICES ASSUME NEW i \in 1 .. (n + 1), NEW j \in 1 .. (n + 1), i < j
               PROVE  /\ windows'[i].end < geometry.total
                      /\ OwnedTo(windows'[i]) <= OwnedFrom(windows'[j])
    BY <1>2 DEF Apart, OwnedFrom, OwnedTo
  <2>1. i \in 1 .. n /\ windows'[i] = windows[i] /\ n > 0 /\ n \in 1 .. n
    BY <1>1, <1>2
  <2>2. CASE j <= n
    <3>1. j \in 1 .. n /\ windows'[j] = windows[j]
      BY <2>2, <1>1, <1>2
    <3> QED
      BY <2>1, <3>1, <1>1 DEF IInv, Apart
  <2>3. CASE j = n + 1 /\ i < n
    <3>1. windows[i].end < geometry.total /\ OwnedTo(windows[i]) <= OwnedFrom(windows[n])
      BY <2>1, <2>3, <1>1 DEF IInv, Apart
    <3> QED
      BY <3>1, <2>1, <2>3, <1>2, <1>4, <1>5, SMTT(30)
  <2>4. CASE j = n + 1 /\ i = n
    BY <2>1, <2>4, <1>2, <1>4, <1>5
  <2> QED
    BY <2>1, <2>2, <2>3, <2>4, <1>1
<1>8. Covered'
  <2> SUFFICES ASSUME NEW t \in Moments, t < OwnedFrom(v)
               PROVE  \E i \in 1 .. (n + 1) : Owns(windows'[i], t)
    <3>1. LastWindow' = v
      BY <1>2 DEF LastWindow
    <3>2. Moments' = Moments /\ OwnedFrom(LastWindow)' = OwnedFrom(v)
      BY <3>1 DEF Moments, OwnedFrom
    <3> QED
      BY <1>2, <3>2 DEF Covered, Owns, OwnsTwice, OwnedFrom, OwnedTo
  <2>1. t \in Nat /\ n > 0 /\ n \in 1 .. n
    BY <1>1, <1>4, <1>6 DEF Moments
  <2>2. CASE t < OwnedFrom(LastWindow)
    <3>1. PICK i \in 1 .. n : Owns(windows[i], t)
      BY <2>1, <2>2, <1>1 DEF IInv, Covered
    <3>2. i \in 1 .. (n + 1) /\ windows'[i] = windows[i]
      BY <1>1, <1>2
    <3> QED
      BY <3>1, <3>2
  <2>3. CASE ~(t < OwnedFrom(LastWindow))
    <3>1. Owns(windows[n], t)
      BY <2>1, <2>3, <1>4, <1>5 DEF Owns, OwnsTwice
    <3>2. n \in 1 .. (n + 1) /\ windows'[n] = windows[n]
      BY <2>1, <1>1, <1>2
    <3> QED
      BY <3>1, <3>2
  <2> QED
    BY <2>2, <2>3
<1> QED
  BY <1>7, <1>8

\* Cutting the next window.
LEMMA OpenStep ==
    ASSUME IInv, OpenWindow
    PROVE  IInv'
<1> DEFINE v == Window(walk.position, Smaller(walk.position + size, geometry.total))
<1>1. /\ geometry.total \in Nat /\ geometry.overlap \in Nat /\ size \in Nat /\ size > geometry.overlap
      /\ walk \in [at : {"loop", "lanes", "finish", "done", "failed"}, position : Nat, step : Nat]
      /\ windows \in Seq(Cut)
  BY ConfigNat DEF IInv, ScheduleTypes, Cut
<1>2. /\ geometry' = geometry /\ size' = size /\ controller' = controller
      /\ windows' = Append(windows, v)
      /\ walk' = WalkAt("lanes", walk.position, size - geometry.overlap)
      /\ walk.at = "loop" /\ walk.position < geometry.total
  BY <1>1 DEF OpenWindow
<1>3. /\ walk'.at = "lanes" /\ walk'.position = walk.position /\ walk'.step = size - geometry.overlap
      /\ walk' \in [at : {"loop", "lanes", "finish", "done", "failed"}, position : Nat, step : Nat]
  BY <1>1, <1>2 DEF WalkAt
<1>4. PICK w \in Cut : /\ w = v /\ w.start = walk.position
                       /\ w.end = Smaller(walk.position + size, geometry.total)
  <2>1. v \in Cut /\ v.start = walk.position /\ v.end = Smaller(walk.position + size, geometry.total)
    BY <1>1 DEF Window, Smaller, Cut
  <2> QED
    BY <2>1
<1> HIDE DEF v
<1>5. windows' = Append(windows, w)
  BY <1>2, <1>4
<1>6. Apart' /\ Covered'
  <2>1. windows = << >> => w.start = 0
    BY <1>2, <1>4 DEF IInv, Walked
  <2>2. windows # << >> => /\ LastWindow.end < geometry.total
                           /\ w.start = LastWindow.end - geometry.overlap
                           /\ LastWindow.start + geometry.overlap < LastWindow.end
    BY <1>2, <1>4 DEF IInv, Walked
  <2> QED
    BY <2>1, <2>2, <1>2, <1>5, Extended
<1>7. windows' \in Seq(Cut) /\ windows' # << >> /\ LastWindow' = w
  BY <1>1, <1>5 DEF LastWindow
<1>8. ScheduleTypes'
  BY <1>1, <1>2, <1>3, <1>7 DEF IInv, ScheduleTypes, Cut
<1>9. Walked'
  <2>1. w.end < geometry.total => size - geometry.overlap > 0 /\ w.end = w.start + (size - geometry.overlap) + geometry.overlap
    BY <1>1, <1>4 DEF Smaller
  <2> QED
    BY <1>2, <1>3, <1>4, <1>7, <2>1 DEF Walked
<1> QED
  BY <1>6, <1>8, <1>9 DEF IInv

\* Steps that leave start and end of every window alone keep who owns what.
LEMMA SameWindows ==
    ASSUME IInv, geometry' = geometry,
           Indices' = Indices, Len(windows') = Len(windows), (windows = << >>) <=> (windows' = << >>),
           \A i \in Indices : windows'[i].start = windows[i].start /\ windows'[i].end = windows[i].end,
           windows # << >> => Len(windows) \in Indices
    PROVE  Apart' /\ Covered'
<1>1. \A i \in Indices : OwnedFrom(windows'[i]) = OwnedFrom(windows[i]) /\ OwnedTo(windows'[i]) = OwnedTo(windows[i])
  BY DEF OwnedFrom, OwnedTo
<1>2. Apart'
  BY <1>1 DEF IInv, Apart, OwnedFrom, OwnedTo
<1>3. Covered'
  BY <1>1 DEF IInv, Covered, Moments, Owns, OwnsTwice, OwnedFrom, OwnedTo, LastWindow
<1> QED
  BY <1>2, <1>3

\* The end of a window: the walk goes on by the step the window was cut with.
LEMMA CloseStep ==
    ASSUME IInv, NEW corrected \in BOOLEAN, NEW badWer \in BOOLEAN, NEW badBrier \in BOOLEAN,
           CloseWindow(corrected, badWer, badBrier)
    PROVE  IInv'
<1> DEFINE n == Len(windows)
<1>1. windows # << >> /\ n \in Nat /\ n \in 1 .. n /\ Indices = 1 .. n
  BY DEF IInv, ScheduleTypes, Walked, CloseWindow, Indices
<1>2. windows' = [windows EXCEPT ![n] = Closed(windows[n])] /\ geometry' = geometry
  BY DEF CloseWindow
<1>3. /\ windows' \in Seq(Cut)
      /\ Len(windows') = n /\ Indices' = Indices
      /\ \A i \in Indices : windows'[i].start = windows[i].start /\ windows'[i].end = windows[i].end
      /\ windows' # << >>
  <2>1. windows \in Seq(Cut) /\ windows[n].start \in Nat /\ windows[n].end \in Nat
    BY <1>1, CutNat DEF IInv, ScheduleTypes, Cut
  <2>2. PICK w \in Cut : /\ w = Closed(windows[n])
                         /\ w.start = windows[n].start /\ w.end = windows[n].end
    <3>1. Closed(windows[n]) = [start |-> windows[n].start, end |-> windows[n].end, status |-> "resolved"]
      BY DEF Closed
    <3> QED
      BY <2>1, <3>1 DEF Cut
  <2>3. windows' = [windows EXCEPT ![n] = w]
    BY <1>2, <2>2
  <2> QED
    BY <1>1, <2>1, <2>2, <2>3 DEF Indices
<1>4. Apart' /\ Covered'
  BY <1>1, <1>2, <1>3, SameWindows
<1>5. /\ size' \in Nat /\ size' > geometry.overlap
      /\ controller' \in [current : Nat, corrections : Nat, count : Nat, zeros : Nat]
  BY AdaptTypes DEF CloseWindow, IInv
<1>6. /\ walk.at = "lanes"
      /\ walk' = IF LastWindow.end >= geometry.total
                 THEN [walk EXCEPT !.at = "finish"]
                 ELSE WalkAt("loop", walk.position + walk.step, walk.step)
  BY DEF CloseWindow, Current, LastWindow
<1>7. /\ geometry.total \in Nat /\ geometry.overlap \in Nat
      /\ LastWindow.start \in Nat /\ LastWindow.end \in Nat
      /\ walk \in [at : {"loop", "lanes", "finish", "done", "failed"}, position : Nat, step : Nat]
  BY <1>1, ConfigNat, CutNat DEF IInv, ScheduleTypes, LastWindow, Cut
<1>8. ScheduleTypes'
  <2>1. walk' \in [at : {"loop", "lanes", "finish", "done", "failed"}, position : Nat, step : Nat]
    BY <1>6, <1>7 DEF WalkAt
  <2> QED
    BY <1>2, <1>3, <1>5, <2>1 DEF IInv, ScheduleTypes, Cut
<1>9. LastWindow'.start = LastWindow.start /\ LastWindow'.end = LastWindow.end
  BY <1>1, <1>3 DEF LastWindow
<1>10. Walked'
  <2>1. CASE LastWindow.end >= geometry.total
    BY <2>1, <1>2, <1>3, <1>6, <1>7, <1>9 DEF Walked
  <2>2. CASE ~(LastWindow.end >= geometry.total)
    <3>1. /\ walk.position = LastWindow.start /\ walk.step > 0
          /\ LastWindow.end = LastWindow.start + walk.step + geometry.overlap
      BY <2>2, <1>1, <1>6, <1>7 DEF IInv, Walked
    <3> QED
      BY <2>2, <3>1, <1>2, <1>3, <1>6, <1>7, <1>9 DEF Walked, WalkAt
  <2> QED
    BY <2>1, <2>2
<1> QED
  BY <1>4, <1>8, <1>10 DEF IInv

\* The invariant is inductive.
LEMMA StepInv == IInv /\ [ScheduleNext]_schedule => IInv'
<1> SUFFICES ASSUME IInv, [ScheduleNext]_schedule PROVE IInv'
  OBVIOUS
<1>1. CASE OpenWindow
  BY <1>1, OpenStep
<1>2. ASSUME NEW corrected \in BOOLEAN, NEW badWer \in BOOLEAN, NEW badBrier \in BOOLEAN,
             CloseWindow(corrected, badWer, badBrier)
      PROVE  IInv'
  BY <1>2, CloseStep
<1>3. CASE Abandon \/ Finish \/ UNCHANGED schedule
  <2>1. UNCHANGED <<geometry, size, windows, controller>>
    BY <1>3 DEF Abandon, Finish, schedule
  <2>2. Apart' /\ Covered'
    BY <2>1, SameWindows DEF IInv, ScheduleTypes, Indices
  <2>3. ScheduleTypes'
    BY <1>3, <2>1 DEF Abandon, Finish, schedule, IInv, ScheduleTypes
  <2>4. Walked'
    <3>1. CASE Abandon
      BY <3>1, <2>1 DEF Abandon, IInv, ScheduleTypes, Walked, LastWindow
    <3>2. CASE Finish
      <4>1. geometry.total \in Nat /\ geometry.overlap \in Nat /\ walk.position \in Nat
        BY ConfigNat DEF IInv, ScheduleTypes
      <4>2. windows # << >> => LastWindow.end \in Nat
        BY CutNat DEF IInv, ScheduleTypes, LastWindow, Cut
      <4>3. /\ LastWindow' = LastWindow /\ windows' = windows /\ geometry' = geometry
            /\ walk.at \in {"loop", "lanes", "finish", "done", "failed"}
        BY <2>1 DEF LastWindow, IInv, ScheduleTypes
      <4> QED
        BY <3>2, <4>1, <4>2, <4>3 DEF Finish, IInv, Walked
    <3>3. CASE UNCHANGED schedule
      BY <3>3 DEF schedule, IInv, Walked, LastWindow
    <3> QED
      BY <1>3, <3>1, <3>2, <3>3
  <2> QED
    BY <2>2, <2>3, <2>4 DEF IInv
<1> QED
  BY <1>1, <1>2, <1>3 DEF ScheduleNext

\* Two windows that own a moment are the same, and at the end the last one owns the rest.
LEMMA InvImplies == IInv => OwnedOnce
<1> SUFFICES ASSUME IInv PROVE OwnedOnce
  OBVIOUS
<1>1. geometry.total \in Nat /\ geometry.overlap \in Nat /\ geometry.overlap \div 2 \in Nat
  BY ConfigNat DEF IInv, ScheduleTypes
<1>2. \A i \in Indices : windows[i].start \in Nat /\ windows[i].end \in Nat /\ i \in Nat
  BY CutNat DEF IInv, ScheduleTypes, Indices, Cut
<1>3. \A i \in Indices : OwnedFrom(windows[i]) \in Int /\ OwnedTo(windows[i]) \in Int
  BY <1>1, <1>2 DEF OwnedFrom, OwnedTo
<1>4. ASSUME NEW i \in Indices, NEW j \in Indices, NEW t \in Moments, i < j,
             Owns(windows[i], t), Owns(windows[j], t)
      PROVE  FALSE
  <2>1. windows[i].end < geometry.total /\ OwnedTo(windows[i]) <= OwnedFrom(windows[j])
    BY <1>4 DEF IInv, Apart
  <2>2. t \in Nat
    BY <1>1 DEF Moments
  <2> QED
    BY <1>1, <1>2, <1>3, <1>4, <2>1, <2>2 DEF Owns, OwnsTwice
<1>5. \A i, j \in Indices : \A t \in Moments : Owns(windows[i], t) /\ Owns(windows[j], t) => i = j
  <2> SUFFICES ASSUME NEW i \in Indices, NEW j \in Indices, NEW t \in Moments,
                      Owns(windows[i], t), Owns(windows[j], t), i # j
               PROVE  FALSE
    OBVIOUS
  <2>1. i < j \/ j < i
    BY <1>2
  <2> QED
    BY <2>1, <1>4
<1>6. ASSUME walk.at \in {"finish", "done"}, NEW t \in Moments
      PROVE  \E i \in Indices : Owns(windows[i], t)
  <2>1. windows # << >>
    BY <1>1, <1>6 DEF IInv, Walked, Moments
  <2>2. Len(windows) \in Indices /\ LastWindow = windows[Len(windows)]
    BY <2>1 DEF IInv, ScheduleTypes, Indices, LastWindow
  <2>3. LastWindow.end >= geometry.total
    BY <1>6, <2>1 DEF IInv, Walked
  <2>4. t \in Nat
    BY <1>1 DEF Moments
  <2>5. CASE t < OwnedFrom(LastWindow)
    BY <2>1, <2>5 DEF IInv, Covered
  <2>6. CASE ~(t < OwnedFrom(LastWindow))
    BY <1>3, <2>2, <2>3, <2>4, <2>6 DEF Owns, OwnsTwice
  <2> QED
    BY <2>5, <2>6
<1> QED
  BY <1>5, <1>6 DEF OwnedOnce

-----------------------------------------------------------------------------
(* The stream of events.                                                   *)

Spoke == {"partial", "confirm", "retract", "correct"}
Messages == [code : Spoke, seq : Nat]
Verdicts == {"confirm", "correct"}

\* The first t events of es tell of the windows with the numbers below n, and decide those
\* with the numbers below open.
Told(es, t, n, open) ==
    /\ \A i \in 1 .. t : es[i] \in Messages /\ es[i].seq < n
    /\ \A i, j \in 1 .. t : i < j => es[i].seq <= es[j].seq
    /\ \A i, v \in 1 .. t : es[v].code \in Verdicts /\ es[v].seq = es[i].seq => i <= v
    /\ \A i \in 1 .. t : es[i].code = "correct" =>
           i > 1 /\ es[i - 1].code = "retract" /\ es[i - 1].seq = es[i].seq
    /\ \A i \in 1 .. t : es[i].code = "retract" => i < t /\ es[i + 1].code = "correct"
    /\ \A k \in 0 .. (open - 1) : \E v \in 1 .. t : es[v].code \in Verdicts /\ es[v].seq = k
    /\ \A i \in 1 .. t : es[i].code # "partial" => es[i].seq < open

\* How many windows have their verdict, and how many events are not the statistics.
Open == IF lanes = Idle THEN nextSeq ELSE nextSeq - 1
Talk == IF walk.at = "done" THEN Len(events) - 1 ELSE Len(events)

\* A retraction of the window with the number k is among the first t events.
Retracts(es, t, k) == \E j \in 1 .. t : es[j].code = "retract" /\ es[j].seq = k

\* Where the lanes are, and how many windows there are.
LanesKept ==
    /\ lanes \in [fast : {"idle", "running", "ok", "err"}, quality : {"idle", "running", "ok", "err"}]
    /\ lanes.fast = "idle" <=> lanes.quality = "idle"
    /\ walk.at \in {"loop", "finish", "done"} => lanes = Idle
    /\ "running" \in {lanes.fast, lanes.quality} => walk.at = "lanes"
    /\ nextSeq \in Nat /\ (lanes # Idle => nextSeq > 0)
    /\ walk.at # "failed" =>
          Len(windows) = (IF walk.at = "lanes" /\ lanes = Idle THEN nextSeq + 1 ELSE nextSeq)
    /\ walk.at # "failed" => \A i \in 1 .. Open : windows[i].status = "resolved"

\* The tracker agrees with the stream about every window that has its verdict.
TrackerKept ==
    /\ tracker = [partials |-> tracker.partials, window_to_seq |-> tracker.window_to_seq,
                  stats |-> tracker.stats]
    /\ tracker.partials \in Seq({"pending", "confirmed", "retracted"})
    /\ Len(tracker.partials) = (IF lanes.fast = "ok" THEN nextSeq ELSE Open)
    /\ \A i \in 1 .. Open :
           tracker.partials[i] = IF Retracts(events, Talk, i - 1) THEN "retracted" ELSE "confirmed"
    /\ lanes.fast = "ok" /\ walk.at = "lanes" => tracker.window_to_seq[WindowId] = nextSeq - 1
    /\ tracker.stats \in [processed : Nat, corrections : Nat, confirmations : Nat]
    /\ tracker.stats.processed = Open

\* Statistics end a run that succeeds, and nothing else does.
EventsKept ==
    /\ events \in Seq(Messages \union [code : {"stats"}, stats : {tracker.stats}])
    /\ walk.at = "done" => Len(events) > 0 /\ events[Len(events)] = [code |-> "stats", stats |-> tracker.stats]
    /\ Told(events, Talk, nextSeq, Open)

StreamInv == LanesKept /\ TrackerKept /\ EventsKept

\* What was told stays told when events are added behind it and numbers are given out.
LEMMA ToldStays ==
    ASSUME NEW es, NEW fs, NEW t \in Nat, NEW n \in Nat, NEW m \in Nat, n <= m,
           NEW open \in Nat, Told(es, t, n, open), \A i \in 1 .. t : fs[i] = es[i]
    PROVE  Told(fs, t, m, open)
<1>1. \A i \in 1 .. t : fs[i] \in Messages /\ fs[i].seq < m
  BY DEF Told, Messages
<1>2. \A i \in 1 .. t : fs[i].code = "correct" =>
          i > 1 /\ fs[i - 1].code = "retract" /\ fs[i - 1].seq = fs[i].seq
  BY DEF Told
<1>3. \A i \in 1 .. t : fs[i].code = "retract" => i < t /\ fs[i + 1].code = "correct"
  BY DEF Told
<1> QED
  BY <1>1, <1>2, <1>3 DEF Told

\* Partials of the open window.
LEMMA ToldPartials ==
    ASSUME NEW es, NEW t \in Nat, NEW u \in Nat, t <= u, NEW open \in Nat, Told(es, t, open + 1, open),
           \A i \in (t + 1) .. u : es[i] = Event("partial", open)
    PROVE  Told(es, u, open + 1, open)
<1>1. \A i \in 1 .. u : i \in 1 .. t \/ i \in (t + 1) .. u
  OBVIOUS
<1>2. \A i \in (t + 1) .. u : es[i] \in Messages /\ es[i].code = "partial" /\ es[i].seq = open
  BY DEF Event, Messages, Spoke
<1>3. \A i \in 1 .. t : es[i].seq \in Nat /\ es[i].seq <= open /\ es[i] \in Messages
  BY DEF Told, Messages
<1>4. \A i \in 1 .. t : es[i].code \in Verdicts => es[i].seq < open
  BY DEF Told, Verdicts
<1>5. \A i \in 1 .. u : es[i] \in Messages /\ es[i].seq < open + 1
  BY <1>1, <1>2, <1>3
<1>6. \A i, j \in 1 .. u : i < j => es[i].seq <= es[j].seq
  BY <1>1, <1>2, <1>3 DEF Told
<1>7. \A i, v \in 1 .. u : es[v].code \in Verdicts /\ es[v].seq = es[i].seq => i <= v
  BY <1>1, <1>2, <1>3, <1>4 DEF Told, Verdicts
<1>8. \A i \in 1 .. u : es[i].code = "correct" =>
          i > 1 /\ es[i - 1].code = "retract" /\ es[i - 1].seq = es[i].seq
  BY <1>1, <1>2 DEF Told
<1>9. \A i \in 1 .. u : es[i].code = "retract" => i < u /\ es[i + 1].code = "correct"
  BY <1>1, <1>2 DEF Told
<1>10. \A k \in 0 .. (open - 1) : \E v \in 1 .. u : es[v].code \in Verdicts /\ es[v].seq = k
  BY DEF Told
<1>11. \A i \in 1 .. u : es[i].code # "partial" => es[i].seq < open
  BY <1>1, <1>2 DEF Told
<1> QED
  BY <1>5, <1>6, <1>7, <1>8, <1>9, <1>10, <1>11 DEF Told

\* The verdict of the open window.
LEMMA ToldConfirm ==
    ASSUME NEW es, NEW t \in Nat, NEW open \in Nat, Told(es, t, open + 1, open),
           es[t + 1] = Event("confirm", open)
    PROVE  Told(es, t + 1, open + 1, open + 1)
<1>1. \A i \in 1 .. (t + 1) : i \in 1 .. t \/ i = t + 1
  OBVIOUS
<1>2. es[t + 1] \in Messages /\ es[t + 1].code = "confirm" /\ es[t + 1].seq = open
  BY DEF Event, Messages, Spoke
<1>3. \A i \in 1 .. t : es[i].seq \in Nat /\ es[i].seq <= open /\ es[i] \in Messages
  BY DEF Told, Messages
<1>4. \A i \in 1 .. t : es[i].code \in Verdicts => es[i].seq < open
  BY DEF Told, Verdicts
<1>5. \A i \in 1 .. (t + 1) : es[i] \in Messages /\ es[i].seq < open + 1
  BY <1>1, <1>2, <1>3
<1>6. \A i, j \in 1 .. (t + 1) : i < j => es[i].seq <= es[j].seq
  BY <1>1, <1>2, <1>3 DEF Told
<1>7. \A i, v \in 1 .. (t + 1) : es[v].code \in Verdicts /\ es[v].seq = es[i].seq => i <= v
  <2> SUFFICES ASSUME NEW i \in 1 .. (t + 1), NEW v \in 1 .. (t + 1),
                      es[v].code \in Verdicts, es[v].seq = es[i].seq
               PROVE  i <= v
    OBVIOUS
  <2>1. CASE v = t + 1
    BY <2>1
  <2>2. CASE v \in 1 .. t /\ i \in 1 .. t
    BY <2>2 DEF Told
  <2>3. CASE v \in 1 .. t /\ i = t + 1
    <3>1. es[v].seq < open /\ es[i].seq = open /\ es[v].seq \in Nat
      BY <1>2, <1>3, <1>4, <2>3
    <3> QED
      BY <3>1
  <2> QED
    BY <1>1, <2>1, <2>2, <2>3
<1>8. \A i \in 1 .. (t + 1) : es[i].code = "correct" =>
          i > 1 /\ es[i - 1].code = "retract" /\ es[i - 1].seq = es[i].seq
  BY <1>1, <1>2 DEF Told
<1>9. \A i \in 1 .. (t + 1) : es[i].code = "retract" => i < t + 1 /\ es[i + 1].code = "correct"
  BY <1>1, <1>2 DEF Told
<1>10. \A k \in 0 .. open : \E v \in 1 .. (t + 1) : es[v].code \in Verdicts /\ es[v].seq = k
  <2> SUFFICES ASSUME NEW k \in 0 .. open
               PROVE  \E v \in 1 .. (t + 1) : es[v].code \in Verdicts /\ es[v].seq = k
    OBVIOUS
  <2>1. k \in 0 .. (open - 1) \/ k = open
    OBVIOUS
  <2> QED
    BY <2>1, <1>2 DEF Told, Verdicts
<1> QED
  BY <1>5, <1>6, <1>7, <1>8, <1>9, <1>10 DEF Told

\* A verdict that corrects is told in two events.
LEMMA ToldCorrect ==
    ASSUME NEW es, NEW t \in Nat, NEW open \in Nat, Told(es, t, open + 1, open),
           es[t + 1] = Event("retract", open), es[t + 2] = Event("correct", open)
    PROVE  Told(es, t + 2, open + 1, open + 1)
<1>1. \A i \in 1 .. (t + 2) : i \in 1 .. t \/ i = t + 1 \/ i = t + 2
  OBVIOUS
<1>2. /\ es[t + 1] \in Messages /\ es[t + 1].code = "retract" /\ es[t + 1].seq = open
      /\ es[t + 2] \in Messages /\ es[t + 2].code = "correct" /\ es[t + 2].seq = open
  BY DEF Event, Messages, Spoke
<1>3. \A i \in 1 .. t : es[i].seq \in Nat /\ es[i].seq <= open /\ es[i] \in Messages
  BY DEF Told, Messages
<1>4. \A i \in 1 .. t : es[i].code \in Verdicts => es[i].seq < open
  BY DEF Told, Verdicts
<1>5. \A i \in 1 .. (t + 2) : es[i] \in Messages /\ es[i].seq < open + 1
  BY <1>1, <1>2, <1>3
<1>6. \A i, j \in 1 .. (t + 2) : i < j => es[i].seq <= es[j].seq
  BY <1>1, <1>2, <1>3 DEF Told
<1>7. \A i, v \in 1 .. (t + 2) : es[v].code \in Verdicts /\ es[v].seq = es[i].seq => i <= v
  BY <1>1, <1>2, <1>3, <1>4, SMTT(30) DEF Told, Verdicts
<1>8. \A i \in 1 .. (t + 2) : es[i].code = "correct" =>
          i > 1 /\ es[i - 1].code = "retract" /\ es[i - 1].seq = es[i].seq
  BY <1>1, <1>2 DEF Told
<1>9. \A i \in 1 .. (t + 2) : es[i].code = "retract" => i < t + 2 /\ es[i + 1].code = "correct"
  BY <1>1, <1>2 DEF Told
<1>10. \A k \in 0 .. open : \E v \in 1 .. (t + 2) : es[v].code \in Verdicts /\ es[v].seq = k
  <2> SUFFICES ASSUME NEW k \in 0 .. open
               PROVE  \E v \in 1 .. (t + 2) : es[v].code \in Verdicts /\ es[v].seq = k
    OBVIOUS
  <2>1. k \in 0 .. (open - 1) \/ k = open
    OBVIOUS
  <2>2. CASE k = open
    BY <2>2, <1>2 DEF Verdicts
  <2> QED
    BY <2>1, <2>2 DEF Told
<1> QED
  BY <1>5, <1>6, <1>7, <1>8, <1>9, <1>10 DEF Told

\* Nothing was cut, started or said.
LEMMA StreamInit == LanesInit => StreamInv
<1> SUFFICES ASSUME LanesInit PROVE StreamInv
  OBVIOUS
<1>1. /\ lanes = Idle /\ nextSeq = 0 /\ events = << >> /\ windows = << >> /\ walk.at = "loop"
      /\ tracker = [partials |-> << >>, window_to_seq |-> [w \in {} |-> 0], stats |-> NoCounts]
  BY DEF LanesInit, ScheduleInit, WalkAt
<1>2. Open = 0 /\ Talk = 0
  BY <1>1 DEF Open, Talk
<1>3. LanesKept
  BY <1>1, <1>2 DEF LanesKept, Idle
<1>4. TrackerKept
  BY <1>1, <1>2 DEF TrackerKept, NoCounts, Idle
<1>5. EventsKept
  BY <1>1, <1>2 DEF EventsKept, Told
<1> QED
  BY <1>3, <1>4, <1>5 DEF StreamInv

\* Steps that leave the lanes, the tracker and the stream alone.
LEMMA WalkSteps ==
    ASSUME ScheduleTypes, StreamInv,
           CheckpointFails \/ PrepareFails \/ JoinFails \/ CutWindow \/ UNCHANGED laneVars
    PROVE  StreamInv'
<1>0. UNCHANGED <<lanes, nextSeq, tracker, events>>
  BY DEF CheckpointFails, PrepareFails, JoinFails, CutWindow, stream, laneVars
<1>1. CASE UNCHANGED laneVars
  BY <1>1 DEF laneVars, StreamInv, LanesKept, TrackerKept, EventsKept, Open, Talk, WindowId
<1>2. CASE CheckpointFails \/ PrepareFails \/ JoinFails \/ CutWindow
  <2>1. walk.at \in {"loop", "lanes"} /\ walk'.at \in {"lanes", "failed"}
    BY <1>2 DEF CheckpointFails, PrepareFails, JoinFails, CutWindow, Abandon, OpenWindow, WalkAt, ScheduleTypes
  <2>2. Open' = Open /\ Talk' = Talk
    BY <1>0, <2>1 DEF Open, Talk
  <2>3. EventsKept'
    BY <1>0, <2>1, <2>2 DEF StreamInv, EventsKept
  <2>4. "running" \notin {lanes.fast, lanes.quality}
    BY <1>2 DEF CheckpointFails, PrepareFails, JoinFails, CutWindow, OpenWindow, Idle, StreamInv, LanesKept
  <2>5. CASE walk'.at = "failed"
    <3>1. LanesKept'
      BY <1>0, <2>4, <2>5, <2>2 DEF StreamInv, LanesKept
    <3>2. TrackerKept'
      BY <1>0, <2>5, <2>2 DEF StreamInv, TrackerKept
    <3> QED
      BY <3>1, <3>2, <2>3 DEF StreamInv
  <2>6. CASE walk'.at # "failed"
    <3>1. /\ walk.at = "loop" /\ walk'.at = "lanes"
          /\ windows' = Append(windows, Window(walk.position, Smaller(walk.position + size, geometry.total)))
      BY <1>2, <2>6 DEF CheckpointFails, PrepareFails, JoinFails, CutWindow, Abandon, OpenWindow, WalkAt, ScheduleTypes
    <3>2. lanes = Idle /\ Open = nextSeq /\ Len(windows) = nextSeq /\ nextSeq \in Nat
      BY <3>1 DEF StreamInv, LanesKept, Open
    <3>3. Len(windows') = nextSeq + 1 /\ \A i \in 1 .. nextSeq : windows'[i] = windows[i]
      BY <3>1, <3>2 DEF ScheduleTypes
    <3>4. LanesKept'
      BY <1>0, <2>2, <3>1, <3>2, <3>3 DEF StreamInv, LanesKept, Idle
    <3>5. TrackerKept'
      BY <1>0, <2>2, <3>2 DEF StreamInv, TrackerKept, Idle
    <3> QED
      BY <3>4, <3>5, <2>3 DEF StreamInv
  <2> QED
    BY <2>5, <2>6
<1> QED
  BY <1>1, <1>2

\* A sequence number is taken, and the lanes run until they are back.
LEMMA LaneSteps ==
    ASSUME ScheduleTypes, StreamInv,
           StartLanes \/ FastFails \/ \E returned \in {"ok", "err"} : QualityReturns(returned)
    PROVE  StreamInv'
<1>0. UNCHANGED <<walk, windows, tracker, events>>
  BY DEF StartLanes, FastFails, QualityReturns, schedule
<1>1. walk.at = "lanes"
  BY DEF StartLanes, FastFails, QualityReturns, StreamInv, LanesKept
<1>2. Talk' = Talk /\ Talk \in Nat
  BY <1>0, <1>1 DEF Talk, StreamInv, EventsKept
<1>3. CASE StartLanes
  <2>1. /\ lanes = Idle /\ lanes' = [fast |-> "running", quality |-> "running"]
        /\ nextSeq' = nextSeq + 1 /\ nextSeq \in Nat
    BY <1>3 DEF StartLanes, StreamInv, LanesKept
  <2>2. Open = nextSeq /\ Open' = nextSeq /\ lanes' # Idle
    BY <2>1 DEF Open, Idle
  <2>3. LanesKept'
    BY <1>0, <1>1, <2>1, <2>2 DEF StreamInv, LanesKept
  <2>4. TrackerKept'
    BY <1>0, <1>2, <2>1, <2>2 DEF StreamInv, TrackerKept, Idle
  <2>5. Told(events', Talk', nextSeq', Open')
    <3>1. /\ Told(events, Talk, nextSeq, nextSeq) /\ nextSeq + 1 \in Nat /\ nextSeq <= nextSeq + 1
          /\ \A i \in 1 .. Talk : events[i] = events[i]
      BY <2>1, <2>2 DEF StreamInv, EventsKept
    <3>2. Told(events, Talk, nextSeq + 1, nextSeq)
      BY ONLY <1>2, <2>1, <3>1, ToldStays
    <3> QED
      BY <1>0, <1>2, <2>1, <2>2, <3>2
  <2> QED
    BY <1>0, <1>1, <2>3, <2>4, <2>5 DEF StreamInv, EventsKept
<1>4. CASE ~StartLanes
  <2>1. /\ nextSeq' = nextSeq /\ lanes # Idle /\ lanes' # Idle
        /\ lanes' \in [fast : {"running", "ok", "err"}, quality : {"running", "ok", "err"}]
        /\ lanes'.fast = "ok" <=> lanes.fast = "ok"
    BY <1>4 DEF FastFails, QualityReturns, StreamInv, LanesKept, Idle
  <2>2. Open = nextSeq - 1 /\ Open' = Open
    BY <2>1 DEF Open
  <2>3. LanesKept'
    BY <1>0, <1>1, <2>1, <2>2 DEF StreamInv, LanesKept
  <2>4. TrackerKept'
    BY <1>0, <1>2, <2>1, <2>2 DEF StreamInv, TrackerKept, WindowId
  <2> QED
    BY <1>0, <1>2, <2>1, <2>2, <2>3, <2>4 DEF StreamInv, EventsKept
<1> QED
  BY <1>3, <1>4

\* The fast lane's partials go out behind what was said, and are registered.
LEMMA FastStep ==
    ASSUME ScheduleTypes, StreamInv, NEW n \in 0 .. MaxSegments, FastReturns(n)
    PROVE  StreamInv'
<1> DEFINE new == [i \in 1 .. n |-> Event("partial", nextSeq - 1)]
<1>0. /\ lanes.fast = "running" /\ lanes' = [lanes EXCEPT !.fast = "ok"]
      /\ events' = events \o new
      /\ tracker' = [tracker EXCEPT !.partials = Append(@, "pending"),
                                    !.window_to_seq = Put(@, WindowId, nextSeq - 1)]
      /\ UNCHANGED <<walk, windows, nextSeq>>
  BY DEF FastReturns, schedule
<1>1. walk.at = "lanes" /\ lanes # Idle /\ lanes' # Idle /\ nextSeq \in Nat \ {0}
  BY <1>0 DEF StreamInv, LanesKept, Idle
<1>2. Open = nextSeq - 1 /\ Open' = Open /\ Open \in Nat
  BY <1>0, <1>1 DEF Open
<1>3. /\ new \in Seq(Messages) /\ Len(new) = n /\ n \in Nat
      /\ \A i \in 1 .. n : new[i] = Event("partial", Open)
  <2>1. n \in Nat
    OBVIOUS
  <2>2. \A i \in 1 .. n : new[i] = Event("partial", Open) /\ new[i] \in Messages
    BY <1>2 DEF Event, Messages, Spoke
  <2>3. new \in [1 .. n -> Messages]
    BY <2>2
  <2> QED
    BY <2>1, <2>2, <2>3
<1> HIDE DEF new
<1>4. /\ events' \in Seq(Messages \union [code : {"stats"}, stats : {tracker.stats}])
      /\ Len(events') = Len(events) + n /\ Len(events) \in Nat
      /\ \A i \in 1 .. Len(events) : events'[i] = events[i]
      /\ \A i \in (Len(events) + 1) .. (Len(events) + n) : events'[i] = Event("partial", Open)
  <2> DEFINE E == Messages \union [code : {"stats"}, stats : {tracker.stats}]
  <2>1. events \in Seq(E) /\ new \in Seq(E)
    BY <1>3 DEF StreamInv, EventsKept
  <2> HIDE DEF E
  <2>2. events' \in Seq(E) /\ Len(events') = Len(events) + Len(new)
    BY <1>0, <2>1
  <2>3. \A i \in 1 .. Len(events) : events'[i] = events[i]
    BY <1>0, <2>1
  <2>4. ASSUME NEW i \in (Len(events) + 1) .. (Len(events) + n)
        PROVE  events'[i] = Event("partial", Open)
    <3>1. i - Len(events) \in 1 .. n /\ events'[i] = new[i - Len(events)]
      BY <1>0, <1>3, <2>1
    <3> QED
      BY <3>1, <1>3
  <2> QED
    BY <2>1, <2>2, <2>3, <2>4, <1>3 DEF E
<1>5. Talk = Len(events) /\ Talk' = Len(events) + n /\ tracker'.stats = tracker.stats
  BY <1>0, <1>1, <1>4 DEF Talk, StreamInv, TrackerKept
<1>6. Told(events', Talk', nextSeq', Open')
  <2>1. Told(events, Len(events), Open + 1, Open)
    BY <1>1, <1>2, <1>5 DEF StreamInv, EventsKept
  <2>2. Told(events', Len(events), Open + 1, Open)
    <3> DEFINE m == Open + 1
               t == Len(events)
    <3>1. m \in Nat /\ m <= m /\ t \in Nat /\ Told(events, t, m, Open) /\ \A i \in 1 .. t : events'[i] = events[i]
      BY <1>2, <1>4, <2>1
    <3> HIDE DEF m, t
    <3>2. Told(events', t, m, Open)
      BY ONLY <1>2, <3>1, ToldStays
    <3> QED
      BY <3>2 DEF m, t
  <2>3. Told(events', Len(events) + n, Open + 1, Open)
    <3>1. Len(events) + n \in Nat /\ Len(events) <= Len(events) + n
      BY <1>3, <1>4
    <3> QED
      BY ONLY <2>2, <3>1, <1>2, <1>4, ToldPartials
  <2> QED
    BY <2>3, <1>0, <1>1, <1>2, <1>5
<1>7. EventsKept'
  BY <1>0, <1>1, <1>4, <1>5, <1>6 DEF EventsKept
<1>8. LanesKept'
  BY <1>0, <1>1, <1>2 DEF StreamInv, LanesKept
<1>9. TrackerKept'
  <2>1. /\ tracker.partials \in Seq({"pending", "confirmed", "retracted"})
        /\ Len(tracker.partials) = Open
    BY <1>0, <1>1 DEF StreamInv, TrackerKept
  <2>2. /\ tracker'.partials = Append(tracker.partials, "pending")
        /\ tracker'.window_to_seq = Put(tracker.window_to_seq, WindowId, nextSeq - 1)
        /\ tracker' = [partials |-> tracker'.partials, window_to_seq |-> tracker'.window_to_seq,
                       stats |-> tracker'.stats]
    BY <1>0 DEF StreamInv, TrackerKept
  <2>3. tracker'.window_to_seq[WindowId'] = nextSeq' - 1
    BY <1>0, <2>2 DEF WindowId, Put
  <2>4. /\ tracker'.partials \in Seq({"pending", "confirmed", "retracted"})
        /\ Len(tracker'.partials) = nextSeq
        /\ \A i \in 1 .. Open : tracker'.partials[i] = tracker.partials[i]
    BY <2>1, <2>2, <1>1, <1>2
  <2>5. \A k \in Nat : Retracts(events', Talk', k) <=> Retracts(events, Talk, k)
    <3>1. \A i \in 1 .. Talk' : i \in 1 .. Talk \/ events'[i].code = "partial"
      BY <1>4, <1>5 DEF Event
    <3>2. \A i \in 1 .. Talk : i \in 1 .. Talk' /\ events'[i] = events[i]
      BY <1>3, <1>4, <1>5
    <3> QED
      BY <3>1, <3>2 DEF Retracts
  <2>6. \A i \in 1 .. Open :
            tracker'.partials[i] = IF Retracts(events', Talk', i - 1) THEN "retracted" ELSE "confirmed"
    <3>1. \A i \in 1 .. Open :
              tracker.partials[i] = IF Retracts(events, Talk, i - 1) THEN "retracted" ELSE "confirmed"
      BY DEF StreamInv, TrackerKept
    <3>2. \A i \in 1 .. Open : i - 1 \in Nat
      BY <1>2
    <3>3. \A i \in 1 .. Open : Retracts(events', Talk', i - 1) <=> Retracts(events, Talk, i - 1)
      BY <2>5, <3>2
    <3> QED
      BY <2>4, <3>1, <3>3
  <2> QED
    BY <1>0, <1>2, <1>5, <2>2, <2>3, <2>4, <2>6 DEF StreamInv, TrackerKept
<1> QED
  BY <1>7, <1>8, <1>9 DEF StreamInv

\* A verdict counts one window.
LEMMA CountedOne ==
    ASSUME NEW s \in [processed : Nat, corrections : Nat, confirmations : Nat], NEW corrected \in BOOLEAN
    PROVE  /\ Counted(s, corrected) \in [processed : Nat, corrections : Nat, confirmations : Nat]
           /\ Counted(s, corrected).processed = s.processed + 1
<1> DEFINE c == IF corrected THEN s.corrections + 1 ELSE s.corrections
           d == IF corrected THEN s.confirmations ELSE s.confirmations + 1
<1>1. s.processed \in Nat /\ c \in Nat /\ d \in Nat
  OBVIOUS
<1>2. Counted(s, corrected) = [s EXCEPT !.processed = s.processed + 1, !.corrections = c, !.confirmations = d]
  BY DEF Counted
<1> HIDE DEF c, d
<1>3. Counted(s, corrected) = [processed |-> s.processed + 1, corrections |-> c, confirmations |-> d]
  BY <1>2
<1> DEFINE p == s.processed + 1
<1>4. p \in Nat /\ Counted(s, corrected) = [processed |-> p, corrections |-> c, confirmations |-> d]
  BY <1>1, <1>3
<1> HIDE DEF p
<1>5. /\ Counted(s, corrected) \in [processed : Nat, corrections : Nat, confirmations : Nat]
      /\ Counted(s, corrected).processed = p
  BY <1>1, <1>4
<1> QED
  BY <1>5 DEF p

\* The verdict of the open window, in the stream and in the tracker.
LEMMA ResolveStep ==
    ASSUME ScheduleTypes, StreamInv, NEW corrected \in BOOLEAN, NEW badWer \in BOOLEAN, NEW badBrier \in BOOLEAN,
           Resolve(corrected, badWer, badBrier)
    PROVE  StreamInv'
<1> DEFINE new == Verdict(corrected, Open)
<1>0. /\ lanes.fast = "ok" /\ lanes # Idle /\ lanes' = Idle /\ walk.at = "lanes" /\ nextSeq' = nextSeq
      /\ windows' = [windows EXCEPT ![Len(windows)] = Closed(@)]
      /\ walk'.at \in {"loop", "finish"}
  BY DEF Resolve, CloseWindow, Idle, WalkAt, ScheduleTypes
<1>1. /\ nextSeq \in Nat \ {0} /\ Len(windows) = nextSeq
      /\ Open = nextSeq - 1 /\ Open \in Nat /\ Open' = nextSeq
      /\ tracker.window_to_seq[WindowId] = Open
  BY <1>0 DEF StreamInv, LanesKept, TrackerKept, Open
<1>2. tracker' = Submitted(corrected, Open) /\ events' = events \o new
  BY <1>1 DEF Resolve
<1>3. /\ new \in Seq(Messages) /\ Len(new) = (IF corrected THEN 2 ELSE 1)
      /\ corrected => new[1] = Event("retract", Open) /\ new[2] = Event("correct", Open)
      /\ ~corrected => new[1] = Event("confirm", Open)
  <2>1. Event("retract", Open) \in Messages /\ Event("correct", Open) \in Messages
        /\ Event("confirm", Open) \in Messages
    BY <1>1 DEF Event, Messages, Spoke
  <2> QED
    BY <2>1 DEF Verdict
<1>4. /\ tracker'.partials = [tracker.partials EXCEPT ![nextSeq] = IF corrected THEN "retracted" ELSE "confirmed"]
      /\ tracker'.stats = Counted(tracker.stats, corrected)
      /\ tracker' = [partials |-> tracker'.partials, window_to_seq |-> tracker'.window_to_seq,
                     stats |-> tracker'.stats]
  <2>1. Open + 1 = nextSeq
    BY <1>1
  <2> QED
    BY <1>2, <2>1 DEF Submitted, StreamInv, TrackerKept
<1> HIDE DEF new
<1>5. /\ events \in Seq(Messages) /\ Talk = Len(events) /\ Talk \in Nat
      /\ events' \in Seq(Messages) /\ Talk' = Talk + Len(new) /\ Len(events') = Talk'
      /\ \A i \in 1 .. Talk : events'[i] = events[i]
      /\ \A i \in 1 .. Len(new) : events'[Talk + i] = new[i]
  <2>1. events \in Seq(Messages \union [code : {"stats"}, stats : {tracker.stats}]) /\ Talk = Len(events)
    BY <1>0 DEF StreamInv, EventsKept, Talk
  <2>2. \A i \in 1 .. Len(events) : events[i] \in Messages
    BY <2>1 DEF StreamInv, EventsKept, Told
  <2>3. events \in Seq(Messages)
    BY <2>1, <2>2
  <2>4. events' \in Seq(Messages) /\ Len(events') = Len(events) + Len(new)
    BY <1>2, <1>3, <2>3
  <2>5. \A i \in 1 .. Len(events) : events'[i] = events[i]
    BY <1>2, <1>3, <2>3
  <2>6. ASSUME NEW i \in 1 .. Len(new)
        PROVE  events'[Len(events) + i] = new[i]
    BY <1>2, <1>3, <2>3
  <2>7. Talk' = Len(events')
    BY <1>0 DEF Talk
  <2>8. Len(events) \in Nat
    BY <2>3
  <2>9. \A i \in 1 .. Len(new) : events'[Talk + i] = new[i]
    BY <2>1, <2>6
  <2> QED
    BY <2>1, <2>3, <2>4, <2>5, <2>7, <2>8, <2>9
<1>6. Told(events', Talk', nextSeq', Open')
  <2> DEFINE t == Talk
             k == Open
  <2>1. t \in Nat /\ k \in Nat /\ k + 1 \in Nat /\ k + 1 <= k + 1 /\ nextSeq = k + 1
        /\ Told(events, t, k + 1, k) /\ \A i \in 1 .. t : events'[i] = events[i]
    BY <1>1, <1>5 DEF StreamInv, EventsKept
  <2>2. Told(events', t, k + 1, k)
    <3> DEFINE m == k + 1
    <3>1. m \in Nat /\ m <= m /\ Told(events, t, m, k)
      BY <2>1
    <3> HIDE DEF m, t, k
    <3>2. Told(events', t, m, k)
      BY ONLY <2>1, <3>1, ToldStays
    <3> QED
      BY <3>2 DEF m
  <2>3. CASE corrected
    <3>1. Talk' = t + 2 /\ events'[t + 1] = Event("retract", k) /\ events'[t + 2] = Event("correct", k)
      BY <2>3, <1>3, <1>5
    <3> HIDE DEF t, k
    <3>2. Told(events', t + 2, k + 1, k + 1)
      BY ONLY <2>1, <2>2, <3>1, ToldCorrect
    <3> QED
      BY <3>1, <3>2, <2>1, <1>0, <1>1
  <2>4. CASE ~corrected
    <3>1. Talk' = t + 1 /\ events'[t + 1] = Event("confirm", k)
      BY <2>4, <1>3, <1>5
    <3> HIDE DEF t, k
    <3>2. Told(events', t + 1, k + 1, k + 1)
      BY ONLY <2>1, <2>2, <3>1, ToldConfirm
    <3> QED
      BY <3>1, <3>2, <2>1, <1>0, <1>1
  <2> QED
    BY <2>3, <2>4
<1>7. EventsKept'
  BY <1>0, <1>5, <1>6 DEF EventsKept
<1>8. LanesKept'
  <2>1. windows \in Seq(Cut)
    BY DEF ScheduleTypes, Cut
  <2>2. Len(windows') = nextSeq /\ windows'[nextSeq].status = "resolved"
        /\ \A i \in 1 .. Open : windows'[i] = windows[i]
    BY <2>1, <1>0, <1>1 DEF Closed
  <2>3. \A i \in 1 .. Open' : windows'[i].status = "resolved"
    BY <2>2, <1>0, <1>1 DEF StreamInv, LanesKept
  <2> QED
    BY <1>0, <1>1, <2>2, <2>3 DEF LanesKept, Idle
<1>9. TrackerKept'
  <2>1. /\ tracker.partials \in Seq({"pending", "confirmed", "retracted"}) /\ Len(tracker.partials) = nextSeq
        /\ tracker.stats \in [processed : Nat, corrections : Nat, confirmations : Nat]
        /\ tracker.stats.processed = Open
    BY <1>0 DEF StreamInv, TrackerKept
  <2>2. /\ tracker'.stats \in [processed : Nat, corrections : Nat, confirmations : Nat]
        /\ tracker'.stats.processed = Open'
    BY <2>1, <1>1, <1>4, CountedOne
  <2>3. /\ tracker'.partials \in Seq({"pending", "confirmed", "retracted"}) /\ Len(tracker'.partials) = nextSeq
        /\ \A i \in 1 .. Open : tracker'.partials[i] = tracker.partials[i]
        /\ tracker'.partials[nextSeq] = IF corrected THEN "retracted" ELSE "confirmed"
    BY <2>1, <1>1, <1>4
  <2>4. \A i \in 1 .. Open : Retracts(events', Talk', i - 1) <=> Retracts(events, Talk, i - 1)
    <3>1. \A i \in 1 .. Talk : i \in 1 .. Talk' /\ events'[i] = events[i]
      BY <1>3, <1>5
    <3>2. \A i \in 1 .. Talk' : i \in 1 .. Talk \/ events'[i].seq = Open
      <4> SUFFICES ASSUME NEW i \in 1 .. Talk', i \notin 1 .. Talk PROVE events'[i].seq = Open
        OBVIOUS
      <4>1. i - Talk \in 1 .. Len(new) /\ Talk + (i - Talk) = i
        BY <1>3, <1>5
      <4>2. events'[i] = new[i - Talk]
        BY <4>1, <1>5
      <4> QED
        BY <4>1, <4>2, <1>3 DEF Event
    <3> QED
      BY <3>1, <3>2, <1>1 DEF Retracts
  <2>5. Retracts(events', Talk', Open) <=> corrected
    <3>1. CASE corrected
      <4>1. Talk + 1 \in 1 .. Talk' /\ events'[Talk + 1] = Event("retract", Open)
        BY <3>1, <1>3, <1>5
      <4> QED
        BY <3>1, <4>1 DEF Retracts, Event
    <3>2. CASE ~corrected
      <4>1. \A i \in 1 .. Talk' : i \in 1 .. Talk \/ events'[i] = Event("confirm", Open)
        BY <3>2, <1>3, <1>5
      <4>2. \A i \in 1 .. Talk : events'[i].code = "retract" => events'[i].seq < Open
        BY <1>5 DEF StreamInv, EventsKept, Told
      <4> QED
        BY <3>2, <4>1, <4>2, <1>1 DEF Retracts, Event
    <3> QED
      BY <3>1, <3>2
  <2>6. ASSUME NEW i \in 1 .. Open'
        PROVE  tracker'.partials[i] = IF Retracts(events', Talk', i - 1) THEN "retracted" ELSE "confirmed"
    <3>1. CASE i \in 1 .. Open
      BY <3>1, <2>3, <2>4 DEF StreamInv, TrackerKept
    <3>2. CASE i = nextSeq
      <4>1. i - 1 = Open
        BY <3>2, <1>1
      <4> QED
        BY <4>1, <3>2, <2>3, <2>5
    <3> QED
      BY <3>1, <3>2, <1>1
  <2> QED
    BY <1>0, <1>1, <1>4, <2>2, <2>3, <2>6 DEF TrackerKept, Idle
<1> QED
  BY <1>7, <1>8, <1>9 DEF StreamInv

\* The statistics end the stream.
LEMMA StatsStep ==
    ASSUME ScheduleTypes, StreamInv, EmitStats
    PROVE  StreamInv'
<1> DEFINE last == [code |-> "stats", stats |-> tracker.stats]
<1>0. /\ events' = Append(events, last) /\ UNCHANGED <<lanes, nextSeq, tracker, windows>>
      /\ walk.at \in {"loop", "finish"} /\ walk'.at = "done"
  BY DEF EmitStats, Finish, ScheduleTypes
<1>1. Open' = Open /\ lanes = Idle /\ Open = nextSeq /\ nextSeq \in Nat
  BY <1>0 DEF Open, StreamInv, LanesKept
<1>2. /\ events' \in Seq(Messages \union [code : {"stats"}, stats : {tracker.stats}])
      /\ Talk = Len(events) /\ Talk' = Talk /\ Talk \in Nat /\ Len(events') = Talk + 1
      /\ \A i \in 1 .. Talk : events'[i] = events[i]
      /\ events'[Len(events')] = last
  <2> DEFINE E == Messages \union [code : {"stats"}, stats : {tracker.stats}]
  <2>1. events \in Seq(E) /\ last \in E /\ Talk = Len(events)
    BY <1>0 DEF StreamInv, EventsKept, Talk
  <2> HIDE DEF E, last
  <2>2. events' \in Seq(E) /\ Len(events') = Len(events) + 1 /\ events'[Len(events) + 1] = last
        /\ \A i \in 1 .. Len(events) : events'[i] = events[i]
    BY <1>0, <2>1
  <2>3. Talk' = Len(events') - 1
    BY <1>0 DEF Talk
  <2> QED
    BY <2>1, <2>2, <2>3 DEF E
<1>3. Told(events', Talk', nextSeq', Open')
  <2> DEFINE t == Talk
             n == nextSeq
  <2>1. t \in Nat /\ n \in Nat /\ n <= n /\ Told(events, t, n, n) /\ \A i \in 1 .. t : events'[i] = events[i]
    BY <1>1, <1>2 DEF StreamInv, EventsKept
  <2> HIDE DEF t, n
  <2>2. Told(events', t, n, n)
    BY ONLY <2>1, ToldStays
  <2> QED
    BY <2>2, <1>0, <1>1, <1>2 DEF t, n
<1>4. EventsKept'
  BY <1>0, <1>2, <1>3 DEF EventsKept
<1>5. LanesKept'
  BY <1>0, <1>1 DEF StreamInv, LanesKept, Idle
<1>6. TrackerKept'
  <2>1. \A k : Retracts(events', Talk', k) <=> Retracts(events, Talk, k)
    BY <1>2 DEF Retracts
  <2> QED
    BY <1>0, <1>1, <2>1 DEF StreamInv, TrackerKept, Idle
<1> QED
  BY <1>4, <1>5, <1>6 DEF StreamInv

\* The invariant of the stream is inductive, given the types of the schedule.
LEMMA StreamStep == ScheduleTypes /\ StreamInv /\ [LanesNext]_laneVars => StreamInv'
<1> SUFFICES ASSUME ScheduleTypes, StreamInv, [LanesNext]_laneVars PROVE StreamInv'
  OBVIOUS
<1>1. CASE Fast
  BY <1>1, FastStep DEF Fast
<1>2. CASE Join
  BY <1>2, WalkSteps, ResolveStep DEF Join
<1>3. CASE ~Fast /\ ~Join
  BY <1>3, WalkSteps, LaneSteps, StatsStep DEF LanesNext
<1> QED
  BY <1>1, <1>2, <1>3

\* Positions next to each other.
LEMMA Neighbours ==
    ASSUME NEW t \in Nat
    PROVE  /\ \A i \in 1 .. t : i > 1 => i - 1 \in 1 .. t
           /\ \A i \in 1 .. t : i < t => i + 1 \in 1 .. t
           /\ \A i \in 1 .. (t + 1) : i \notin 1 .. t => i = t + 1
OBVIOUS

\* A stream that was told so can be replayed.
LEMMA StreamImplies == ScheduleTypes /\ StreamInv => StreamWellFormed
<1> SUFFICES ASSUME ScheduleTypes, StreamInv PROVE StreamWellFormed
  OBVIOUS
<1>1. Told(events, Talk, nextSeq, Open) /\ nextSeq \in Nat /\ Open \in Nat /\ Open \in {nextSeq, nextSeq - 1}
  BY DEF StreamInv, EventsKept, LanesKept, Open
<1>2. Talk \in Nat /\ DOMAIN events = 1 .. Len(events) /\ Len(events) \in {Talk, Talk + 1}
      /\ (Len(events) # Talk => events[Talk + 1].code = "stats" /\ Talk + 1 = Len(events))
  BY DEF StreamInv, EventsKept, Talk
<1>3. \A i \in 1 .. Talk : i \in DOMAIN events /\ events[i].code \in Spoke /\ events[i].seq \in Nat
                           /\ events[i].seq < nextSeq
  <2> TAKE i \in 1 .. Talk
  <2>1. events[i] \in Messages /\ events[i].seq < nextSeq
    BY <1>1 DEF Told
  <2>2. DOMAIN events = 1 .. Talk \/ DOMAIN events = 1 .. (Talk + 1)
    BY <1>2
  <2>3. Talk \in Nat
    BY <1>2
  <2>4. i \in 1 .. Talk /\ i \in 1 .. (Talk + 1)
    BY ONLY <2>3, i \in 1 .. Talk
  <2>5. i \in DOMAIN events
    BY <2>2, <2>4
  <2> QED BY <2>1, <2>5 DEF Messages
<1>4. \A i \in DOMAIN events : i \notin 1 .. Talk => events[i].code = "stats"
  <2> SUFFICES ASSUME NEW i \in DOMAIN events, i \notin 1 .. Talk PROVE events[i].code = "stats"
    OBVIOUS
  <2>1. i \in 1 .. Talk \/ (i \in 1 .. (Talk + 1) /\ Len(events) # Talk)
    BY <1>2
  <2>2. i = Talk + 1 /\ Len(events) # Talk
    BY ONLY <2>1, <1>2, i \notin 1 .. Talk, Neighbours
  <2> QED
    BY <2>2, <1>2
<1>5. Spoken = 1 .. Talk
  BY <1>3, <1>4 DEF Spoken, Spoke
<1>6. \A code \in Spoke : Codes(code) = {i \in 1 .. Talk : events[i].code = code}
  BY <1>3, <1>4 DEF Codes, Spoke
<1>7. \A k : VerdictsOf(k) = {v \in 1 .. Talk : events[v].code \in Verdicts /\ events[v].seq = k}
  BY <1>6 DEF VerdictsOf, Verdicts, Spoke
<1>8. \A i, j \in Spoken : i < j => events[i].seq <= events[j].seq
  BY <1>1, <1>5 DEF Told
<1>9. \A i \in Spoken : \A v \in VerdictsOf(events[i].seq) : i <= v
  BY <1>1, <1>5, <1>7 DEF Told
<1>10. \A i \in Codes("correct") : i - 1 \in Codes("retract") /\ events[i - 1].seq = events[i].seq
  <2> SUFFICES ASSUME NEW i \in Codes("correct")
               PROVE  i - 1 \in Codes("retract") /\ events[i - 1].seq = events[i].seq
    OBVIOUS
  <2>1. i \in 1 .. Talk /\ events[i].code = "correct"
    BY <1>6 DEF Spoke
  <2>2. i > 1 /\ events[i - 1].code = "retract" /\ events[i - 1].seq = events[i].seq
    BY <2>1, <1>1 DEF Told
  <2>3. i - 1 \in 1 .. Talk
    BY ONLY <2>1, <2>2, <1>2, Neighbours
  <2> QED
    BY <2>2, <2>3, <1>6 DEF Spoke
<1>11. \A i \in Codes("retract") : i + 1 \in Codes("correct")
  <2> SUFFICES ASSUME NEW i \in Codes("retract") PROVE i + 1 \in Codes("correct")
    OBVIOUS
  <2>1. i \in 1 .. Talk /\ events[i].code = "retract"
    BY <1>6 DEF Spoke
  <2>2. i < Talk /\ events[i + 1].code = "correct"
    BY <2>1, <1>1 DEF Told
  <2>3. i + 1 \in 1 .. Talk
    BY ONLY <2>1, <2>2, <1>2, Neighbours
  <2> QED
    BY <2>2, <2>3, <1>6 DEF Spoke
<1>12. \A i \in Spoken : VerdictsOf(events[i].seq) = {} => events[i].seq = nextSeq - 1
  <2> SUFFICES ASSUME NEW i \in 1 .. Talk, VerdictsOf(events[i].seq) = {}
               PROVE  events[i].seq = nextSeq - 1
    BY <1>5
  <2>1. events[i].seq \notin 0 .. (Open - 1)
    BY <1>1, <1>7 DEF Told
  <2> QED
    BY <2>1, <1>1, <1>3
<1>13. ASSUME walk.at = "done" PROVE Resolved
  <2>1. lanes = Idle /\ Open = nextSeq /\ Len(windows) = nextSeq /\ Len(tracker.partials) = nextSeq
        /\ DOMAIN windows = 1 .. nextSeq /\ DOMAIN tracker.partials = 1 .. nextSeq
    BY <1>13 DEF StreamInv, LanesKept, TrackerKept, Open, Idle, ScheduleTypes
  <2>2. ASSUME NEW k \in 0 .. (Len(windows) - 1)
        PROVE  \E v \in DOMAIN events : VerdictsOf(k) = {v}
    <3>1. PICK v \in 1 .. Talk : events[v].code \in Verdicts /\ events[v].seq = k
      BY <1>1, <2>1, <2>2 DEF Told
    <3>2. v \in VerdictsOf(k) /\ v \in DOMAIN events
      BY <3>1, <1>3, <1>7
    <3>3. ASSUME NEW w \in VerdictsOf(k) PROVE w = v
      <4>1. w \in 1 .. Talk /\ events[w].code \in Verdicts /\ events[w].seq = k
        BY <3>3, <1>7
      <4>2. v <= w /\ w <= v
        BY <3>1, <4>1, <1>1 DEF Told
      <4> QED
        BY <4>1, <4>2
    <3> QED
      BY <3>2, <3>3
  <2>3. \A i \in DOMAIN tracker.partials :
            tracker.partials[i] = IF \E j \in Codes("retract") : events[j].seq = i - 1
                                  THEN "retracted" ELSE "confirmed"
    <3>1. \A k : Retracts(events, Talk, k) <=> \E j \in Codes("retract") : events[j].seq = k
      BY <1>6 DEF Retracts, Spoke
    <3>2. \A i \in 1 .. Open :
              tracker.partials[i] = IF Retracts(events, Talk, i - 1) THEN "retracted" ELSE "confirmed"
      BY DEF StreamInv, TrackerKept
    <3> QED
      BY <2>1, <3>1, <3>2
  <2>4. "pending" \notin {tracker.partials[i] : i \in DOMAIN tracker.partials}
    BY <2>3
  <2>5. \A i \in DOMAIN windows : windows[i].status = "resolved"
    BY <1>13, <2>1 DEF StreamInv, LanesKept
  <2>6. events[Len(events)].code = "stats" /\ events[Len(events)].stats.processed = Len(windows)
    BY <1>13, <2>1 DEF StreamInv, EventsKept, TrackerKept
  <2> QED
    BY <2>2, <2>3, <2>4, <2>5, <2>6 DEF Resolved
<1> QED
  BY <1>8, <1>9, <1>10, <1>11, <1>12, <1>13 DEF StreamWellFormed

\* Every step of the pipeline is a step of run_windows over its windows, or leaves the
\* schedule alone.
LEMMA LanesWalk == [LanesNext]_laneVars => [ScheduleNext]_schedule
<1> SUFFICES ASSUME [LanesNext]_laneVars PROVE [ScheduleNext]_schedule
  OBVIOUS
<1>1. CASE CheckpointFails \/ PrepareFails \/ JoinFails
  BY <1>1 DEF CheckpointFails, PrepareFails, JoinFails, ScheduleNext
<1>2. CASE CutWindow
  BY <1>2 DEF CutWindow, ScheduleNext
<1>3. CASE Join /\ ~JoinFails
  BY <1>3 DEF Join, Resolve, ScheduleNext
<1>4. CASE EmitStats
  BY <1>4 DEF EmitStats, ScheduleNext
<1>5. CASE UNCHANGED schedule
  BY <1>5
<1>6. CASE UNCHANGED laneVars
  BY <1>6 DEF laneVars, schedule
<1>7. CASE StartLanes \/ Fast \/ FastFails \/ \E returned \in {"ok", "err"} : QualityReturns(returned)
  BY <1>5, <1>7 DEF StartLanes, Fast, FastReturns, FastFails, QualityReturns
<1> QED
  BY <1>1, <1>2, <1>3, <1>4, <1>6, <1>7 DEF LanesNext, Join

\* The lanes and the stream move along with the schedule.
THEOREM ImplementsSchedule == LanesSpec => ScheduleSpec
<1>1. LanesInit => ScheduleInit
  BY DEF LanesInit
<1> QED
  BY <1>1, LanesWalk, PTL DEF LanesSpec, ScheduleSpec

\* Types of the walk; in particular the adaptive size always exceeds the overlap, so that
\* the walk always moves.
THEOREM TypeCorrect == LanesSpec => []ScheduleTypes
<1>1. IInv => ScheduleTypes
  BY DEF IInv
<1> QED
  BY <1>1, InitInv, StepInv, ImplementsSchedule, PTL DEF ScheduleSpec

-----------------------------------------------------------------------------
(* The run around the streaming pipeline.                                  *)

\* There is no streaming pipeline.
Absent == walk.at = "absent" /\ windows = << >> /\ lanes = Idle /\ events = << >>

\* Whenever there is one, it is where it got to by itself.
RunInv == Absent \/ (IInv /\ StreamInv)

LEMMA LanesStep == IInv /\ StreamInv /\ [LanesNext]_laneVars => (IInv /\ StreamInv)'
BY LanesWalk, StepInv, StreamStep DEF IInv

\* Nothing moves where there is no streaming pipeline.
LEMMA AbsentRests == Absent => ~LanesNext
<1> SUFFICES ASSUME Absent, LanesNext PROVE FALSE
  OBVIOUS
<1>1. lanes.fast = "idle" /\ lanes.quality = "idle" /\ lanes # [fast |-> "ok", quality |-> "ok"]
  BY DEF Absent, Idle
<1> QED
  BY <1>1 DEF Absent, LanesNext, CheckpointFails, CutWindow, OpenWindow, PrepareFails, StartLanes, Fast,
     FastReturns, FastFails, QualityReturns, Join, JoinFails, Resolve, EmitStats, Finish, Ended

\* A new pipeline is an initial one.
LEMMA FreshStart == ASSUME NEW g \in Geometries, Fresh(g, "loop") PROVE LanesInit'
BY DEF Fresh, LanesInit, ScheduleInit, WalkAt, Geometries

LEMMA Dropped == Drop => Absent'
BY DEF Drop, Fresh, Absent, WalkAt

\* The schedule and the stream are in order in every run.
THEOREM RunInvariance == RunSpec => []RunInv
<1>1. RunInit => RunInv
  BY DEF RunInit, RunInv, Absent, WalkAt
<1>2. LanesInit => IInv /\ StreamInv
  BY InitInv, StreamInit DEF LanesInit
<1>3. LanesInit' => (IInv /\ StreamInv)'
  BY <1>2, PTL
<1>4. RunInv /\ [RunNext]_<<vars, laneVars>> => RunInv'
  <2> SUFFICES ASSUME RunInv, [RunNext]_<<vars, laneVars>> PROVE RunInv'
    OBVIOUS
  <2>1. CASE UNCHANGED laneVars
    <3>1. Absent => Absent'
      BY <2>1 DEF Absent, laneVars
    <3> QED BY <2>1, <3>1, LanesStep DEF RunInv
  <2>2. CASE NewPipeline
    BY <1>3, <2>2, FreshStart DEF NewPipeline, RunInv
  <2>3. CASE WorkerStep
    BY <2>3, LanesStep, AbsentRests DEF WorkerStep, RunInv
  <2>4. CASE SpeculationFails \/ SpeculationEnds
    BY <2>4, Dropped DEF SpeculationFails, SpeculationEnds, RunInv
  <2> QED BY <2>1, <2>2, <2>3, <2>4 DEF RunNext
<1> QED
  BY <1>1, <1>4, PTL DEF RunSpec

\* "each instant of audio is owned by exactly one window" (streaming.rs), for every
\* duration, overlap, size and course of the controller, and every run around it.
THEOREM EachMomentOwnedOnce == RunSpec => []OwnedOnce
<1>1. Absent => OwnedOnce
  BY DEF Absent, OwnedOnce, Indices
<1> QED
  BY <1>1, InvImplies, RunInvariance, PTL DEF RunInv

\* run_windows with its two lanes emits a stream from which the transcript can be rebuilt,
\* and leaves no partial undecided if it succeeds, for any number of windows and segments and
\* every interleaving of the lanes, wherever the stage is stopped or fails.
THEOREM StreamCanBeReplayed == RunSpec => []StreamWellFormed
<1>1. Absent => StreamWellFormed
  BY DEF Absent, StreamWellFormed, Spoken, Codes
<1>2. IInv /\ StreamInv => StreamWellFormed
  BY StreamImplies DEF IInv
<1> QED
  BY <1>1, <1>2, RunInvariance, PTL DEF RunInv

\* "no lane outlives the call": whichever lane fails, the other one is back before the stage
\* can end (process_window_lanes).
THEOREM LanesEndFirst == RunSpec => []NoLaneOutlives
<1>1. Absent => NoLaneOutlives
  BY DEF Absent, Idle, NoLaneOutlives
<1>2. StreamInv => NoLaneOutlives
  BY DEF StreamInv, LanesKept, NoLaneOutlives, Ended
<1> QED
  BY <1>1, <1>2, RunInvariance, PTL DEF RunInv
=============================================================================
