---------------------------- MODULE Speculation -----------------------------
(***************************************************************************)
(* SpeculativeStreamingPipeline of src/src/streaming.rs: for every window  *)
(* of the schedule a fast lane and, on a thread of its own, a quality lane *)
(* transcribe the same slice. The fast lane's segments go out as partials  *)
(* at once; when both lanes are back the CorrectionTracker of              *)
(* src/src/speculation.rs confirms them, or retracts and corrects them.    *)
(*                                                                         *)
(* Lanes fail for every reason at once: an engine's error, the token, a    *)
(* time-out, or a panic, which takes the same way out.                     *)
(***************************************************************************)
EXTENDS Seams

CONSTANT MaxSegments    \* bound on the segments of a lane

VARIABLES
    lanes,      \* the state of the two lanes of the current window
    nextSeq,    \* next_seq
    tracker,    \* CorrectionTracker: status of each partial, seq of each open window, counters
    events      \* what the event sink was given, oldest first

laneVars == <<geometry, walk, size, windows, controller, lanes, nextSeq, tracker, events>>

stream == <<lanes, nextSeq, tracker, events>>

Idle == [fast |-> "idle", quality |-> "idle"]

NoCounts == [processed |-> 0, corrections |-> 0, confirmations |-> 0]

LanesInit ==
    /\ ScheduleInit
    /\ lanes = Idle
    /\ nextSeq = 0
    /\ tracker = [partials |-> << >>, window_to_seq |-> [w \in {} |-> 0], stats |-> NoCounts]
    /\ events = << >>

(* Ids of windows and sequence numbers are indices less one.               *)
WindowId == Len(windows) - 1

Event(code, seq) == [code |-> code, seq |-> seq]

-----------------------------------------------------------------------------

(* The checkpoint before a window fails.                                   *)
CheckpointFails ==
    /\ walk.at = "loop" /\ Abandon
    /\ UNCHANGED stream

CutWindow ==
    /\ OpenWindow
    /\ UNCHANGED stream

(* The window's slice cannot be written, or no thread can be started.      *)
PrepareFails ==
    /\ walk.at = "lanes" /\ lanes = Idle /\ Abandon
    /\ UNCHANGED stream

(* process_window_lanes takes a sequence number and starts both lanes.     *)
StartLanes ==
    /\ walk.at = "lanes" /\ lanes = Idle
    /\ lanes' = [fast |-> "running", quality |-> "running"]
    /\ nextSeq' = nextSeq + 1
    /\ UNCHANGED <<schedule, tracker, events>>

(* insert of a HashMap.                                                    *)
Put(f, key, value) == [k \in DOMAIN f \cup {key} |-> IF k = key THEN value ELSE f[k]]

(* record_fast_lane: one partial per segment goes out, then the partial is *)
(* registered.                                                             *)
FastReturns(n) ==
    /\ lanes.fast = "running"
    /\ lanes' = [lanes EXCEPT !.fast = "ok"]
    /\ events' = events \o [i \in 1 .. n |-> Event("partial", nextSeq - 1)]
    /\ tracker' = [tracker EXCEPT !.partials = Append(@, "pending"),
                                  !.window_to_seq = Put(@, WindowId, nextSeq - 1)]
    /\ UNCHANGED <<schedule, nextSeq>>

FastFails ==
    /\ lanes.fast = "running"
    /\ lanes' = [lanes EXCEPT !.fast = "err"]
    /\ UNCHANGED <<schedule, nextSeq, tracker, events>>

QualityReturns(outcome) ==
    /\ lanes.quality = "running"
    /\ lanes' = [lanes EXCEPT !.quality = outcome]
    /\ UNCHANGED <<schedule, nextSeq, tracker, events>>

\* Mutant of JoinFails: the fast lane's error is returned at once.
JoinFailsAtOnce ==
    /\ walk.at = "lanes"
    /\ \/ lanes.fast = "err"
       \/ lanes.fast = "ok" /\ lanes.quality = "err"
    /\ Abandon
    /\ UNCHANGED stream

(* Both lanes are back and one of them failed.                             *)
JoinFails ==
    /\ walk.at = "lanes"
    /\ lanes.fast \in {"ok", "err"} /\ lanes.quality \in {"ok", "err"}
    /\ "err" \in {lanes.fast, lanes.quality}
    /\ Abandon
    /\ UNCHANGED stream

\* Mutant of Verdict: a correction takes its partial for replaced without a word.
VerdictSilent(corrected, seq) ==
    IF corrected THEN <<Event("correct", seq)>> ELSE <<Event("confirm", seq)>>

Verdict(corrected, seq) ==
    IF corrected THEN <<Event("retract", seq), Event("correct", seq)>> ELSE <<Event("confirm", seq)>>

Counted(stats, corrected) ==
    [stats EXCEPT !.processed = @ + 1,
                  !.corrections = IF corrected THEN @ + 1 ELSE @,
                  !.confirmations = IF corrected THEN @ ELSE @ + 1]

(* submit_quality_result, for the partial registered for the window.       *)
Submitted(corrected, seq) ==
    [tracker EXCEPT !.partials[seq + 1] = IF corrected THEN "retracted" ELSE "confirmed",
                    !.window_to_seq = Restrict(@, DOMAIN @ \ {WindowId}),
                    !.stats = Counted(@, corrected)]

(* resolve_quality_lane.                                                   *)
Resolve(corrected, badWer, badBrier) ==
    /\ lanes = [fast |-> "ok", quality |-> "ok"]
    /\ LET seq == tracker.window_to_seq[WindowId]
       IN  /\ tracker' = Submitted(corrected, seq)
           /\ events' = events \o Verdict(corrected, seq)
    /\ CloseWindow(corrected, badWer, badBrier)
    /\ lanes' = Idle
    /\ UNCHANGED nextSeq

(* build_result and push_stats_event.                                      *)
EmitStats ==
    /\ Finish
    /\ events' = Append(events, [code |-> "stats", stats |-> tracker.stats])
    /\ UNCHANGED <<lanes, nextSeq, tracker>>

Fast == \E n \in 0 .. MaxSegments : FastReturns(n)
Join == JoinFails \/ \E corrected, badWer, badBrier \in BOOLEAN : Resolve(corrected, badWer, badBrier)

LanesNext ==
    \/ CheckpointFails \/ CutWindow \/ PrepareFails \/ StartLanes
    \/ Fast \/ FastFails \/ (\E outcome \in {"ok", "err"} : QualityReturns(outcome)) \/ Join
    \/ EmitStats
    \/ Ended /\ UNCHANGED laneVars

LanesSpec == LanesInit /\ [][LanesNext]_laneVars

-----------------------------------------------------------------------------
(* Properties.                                                             *)

Codes(code) == {i \in DOMAIN events : events[i].code = code}
VerdictsOf(seq) == {i \in Codes("confirm") \cup Codes("correct") : events[i].seq = seq}
Spoken == {i \in DOMAIN events : events[i].code # "stats"}

(* What the stream and the tracker say once every window has its verdict.  *)
Resolved ==
    /\ \A k \in 0 .. (Len(windows) - 1) : \E v \in DOMAIN events : VerdictsOf(k) = {v}
    /\ "pending" \notin {tracker.partials[i] : i \in DOMAIN tracker.partials}
    /\ \A i \in DOMAIN windows : windows[i].status = "resolved"
    /\ LET last == events[Len(events)]
       IN  /\ last.code = "stats"
           /\ last.stats.processed = Len(windows)
           /\ \A i \in DOMAIN tracker.partials :
                tracker.partials[i] = IF \E j \in Codes("retract") : events[j].seq = i - 1
                                      THEN "retracted" ELSE "confirmed"

(* A consumer that reads the stream in order can rebuild the transcript:   *)
(* windows never interleave, a verdict follows the partials it is about    *)
(* and nothing of its window follows it, every correction is announced by  *)
(* the retraction of what it replaces, and only the last window is open. A *)
(* run that succeeds leaves no partial undecided, in the stream or in the  *)
(* tracker, and the statistics that end the stream count exactly these.    *)
StreamWellFormed ==
    /\ \A i, j \in Spoken : i < j => events[i].seq <= events[j].seq
    /\ \A i \in Spoken : \A v \in VerdictsOf(events[i].seq) : i <= v
    /\ \A i \in Codes("correct") : i - 1 \in Codes("retract") /\ events[i - 1].seq = events[i].seq
    /\ \A i \in Codes("retract") : i + 1 \in Codes("correct")
    /\ \A i \in Spoken : VerdictsOf(events[i].seq) = {} => events[i].seq = nextSeq - 1
    /\ walk.at = "done" => Resolved

(* "no lane outlives the call": when the run is over, neither lane is      *)
(* still transcribing a slice that is about to be deleted.                 *)
NoLaneOutlives == Ended => "running" \notin {lanes.fast, lanes.quality}

=============================================================================
