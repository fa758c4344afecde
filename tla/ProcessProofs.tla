--------------------------- MODULE ProcessProofs ----------------------------
(***************************************************************************)
(* A bounded command that succeeds has captured everything, for every      *)
(* capture limit, any amount of output and every interleaving of the       *)
(* child, its descendant, the two readers and the caller.  The cleanup of  *)
(* its process tree, when it certifies, leaves nothing running that its    *)
(* last pass could see, and its scan spares strangers, for any number of   *)
(* pids and whatever calls fail.                                           *)
(* A report on audio sent over a terminal accounts for every frame, and an *)
(* acknowledgement is true of the record, for any number of frames and any *)
(* number of lines lost, damaged and repeated.                             *)
(***************************************************************************)
EXTENDS BoundedCommand, ProcessTree, TtyAudio, SequenceTheorems, FiniteSetTheorems,
        WellFoundedInduction, TLAPS

-----------------------------------------------------------------------------
(* BoundedCommand.                                                         *)

Reader == [runs : BOOLEAN, got : Nat, over : BOOLEAN, stop : BOOLEAN,
           grace : BOOLEAN, incomplete : BOOLEAN]

\* The types the argument needs.
Types ==
    /\ written \in [Streams -> Nat]
    /\ pipe \in [Streams -> Nat]
    /\ reader \in [Streams -> Reader]
    /\ kind \in {"timeout", "cancellable"}
    /\ caller.check \in 1 .. Len(Checks[kind])
    /\ cause # "ok"

\* What was written is in the pipe or captured, until a capture overflows.
Conserved == \A s \in Streams : ~reader[s].over => reader[s].got + pipe[s] = written[s]

\* A reader that ended without giving up saw the end of its pipe, after which nobody writes.
EndSeen == \A s \in Streams :
    ~reader[s].runs /\ ~reader[s].incomplete => pipe[s] = 0 /\ alive = {}

\* The caller is past the join of a reader only when the reader has ended.
Joined ==
    /\ caller.at \in {"finish stderr", "join stderr", "judge", "done"} => ~reader["stdout"].runs
    /\ caller.at \in {"judge", "done"} => ~reader["stderr"].runs

\* The judgement stands.
Judged == result = "ok" =>
    /\ caller.at = "done"
    /\ \A s \in Streams : ~reader[s].over /\ ~reader[s].incomplete

IInv == Types /\ Conserved /\ EndSeen /\ Joined /\ Judged

\* The checks of a poll: the next one is one of them, and none is called "ok".
LEMMA PollOrder ==
    ASSUME NEW k \in {"timeout", "cancellable"}
    PROVE  /\ Len(Checks[k]) \in {3, 5}
           /\ \A i \in 1 .. Len(Checks[k]) :
                 /\ Checks[k][i] # "ok"
                 /\ (i % Len(Checks[k])) + 1 \in 1 .. Len(Checks[k])
<1>1. CASE k = "timeout"
  <2>1. Checks[k] = <<"exit", "limit", "time">>
    BY <1>1 DEF Checks
  <2>2. Len(Checks[k]) = 3
    BY <2>1
  <2>3. \A i \in 1 .. 3 : (i % 3) + 1 \in 1 .. 3
    OBVIOUS
  <2>4. \A i \in 1 .. 3 : Checks[k][i] # "ok"
    BY <2>1
  <2> QED
    BY <2>2, <2>3, <2>4
<1>2. CASE k = "cancellable"
  <2>1. Checks[k] = <<"token", "time", "limit", "exit", "observer">>
    BY <1>2 DEF Checks
  <2>2. Len(Checks[k]) = 5
    BY <2>1
  <2>3. \A i \in 1 .. 5 : (i % 5) + 1 \in 1 .. 5
    OBVIOUS
  <2>4. \A i \in 1 .. 5 : Checks[k][i] # "ok"
    BY <2>1
  <2> QED
    BY <2>2, <2>3, <2>4
<1> QED
  BY <1>1, <1>2

\* Before the first poll nothing was written and both readers run.
LEMMA InitInv == Init => IInv
<1> SUFFICES ASSUME Init PROVE IInv
  OBVIOUS
<1>1. Types
  <2>1. kind \in {"timeout", "cancellable"}
    BY BoundsAssumption DEF Init
  <2>2. caller.check \in 1 .. Len(Checks[kind])
    <3>1. caller.check = 1
      BY DEF Init, CallerAt
    <3>2. Len(Checks[kind]) \in {3, 5}
      BY <2>1, PollOrder
    <3> QED
      BY <3>1, <3>2, SMTT(30)
  <2>3. reader \in [Streams -> Reader]
    BY DEF Init, Reader
  <2>4. written \in [Streams -> Nat] /\ pipe \in [Streams -> Nat] /\ cause # "ok"
    BY DEF Init
  <2> QED
    BY <2>1, <2>2, <2>3, <2>4 DEF Types
<1>2. \A s \in Streams : /\ reader[s].got = 0 /\ pipe[s] = 0 /\ written[s] = 0
                         /\ reader[s].runs
  BY DEF Init
<1>3. caller.at = "poll" /\ result = "none"
  BY DEF Init, CallerAt
<1> QED
  BY <1>1, <1>2, <1>3 DEF IInv, Conserved, EndSeen, Joined, Judged

\* The processes and the clock: only a living process forks or writes.
LEMMA ProcessSteps ==
    ASSUME IInv,
           \/ Fork \/ Trip \/ Expire
           \/ \E s \in Streams : Write(s)
           \/ \E p \in alive, code \in {"success", "failure"} : Exit(p, code)
    PROVE  IInv'
<1>1. CASE Fork
  BY <1>1 DEF Fork, IInv, Types, Conserved, EndSeen, Joined, Judged
<1>2. CASE Trip \/ Expire
  BY <1>2 DEF Trip, Expire, IInv, Types, Conserved, EndSeen, Joined, Judged
<1>3. ASSUME NEW s \in Streams, Write(s) PROVE IInv'
  <2>1. Types'
    BY <1>3 DEF Write, IInv, Types
  <2>2. Conserved'
    <3> SUFFICES ASSUME NEW t \in Streams, ~reader[t].over
                 PROVE  reader[t].got + pipe'[t] = written'[t]
      BY <1>3 DEF Write, Conserved
    <3>1. /\ reader[t].got \in Nat /\ pipe[t] \in Nat /\ written[t] \in Nat
          /\ reader[t].got + pipe[t] = written[t]
      BY DEF IInv, Types, Reader, Conserved
    <3>2. \/ pipe'[t] = pipe[t] /\ written'[t] = written[t]
          \/ pipe'[t] = pipe[t] + 1 /\ written'[t] = written[t] + 1
      BY <1>3 DEF Write, IInv, Types
    <3> QED
      BY <3>1, <3>2
  <2> QED
    BY <1>3, <2>1, <2>2 DEF Write, IInv, EndSeen, Joined, Judged
<1>4. ASSUME NEW p \in alive, NEW code \in {"success", "failure"}, Exit(p, code) PROVE IInv'
  BY <1>4 DEF Exit, IInv, Types, Conserved, EndSeen, Joined, Judged
<1> QED
  BY <1>1, <1>2, <1>3, <1>4

\* The capture overflows with the byte that exceeds the limit, and for good.
LEMMA RetainedOver ==
    ASSUME NEW r, NEW runs, NEW incomplete
    PROVE  Retained(r, runs, incomplete).over = (r.over \/ r.got >= Limit)
BY Zenon DEF Retained

\* The readers: a byte moves from the pipe into the capture, or a reader ends.
LEMMA ReaderSteps ==
    ASSUME IInv, NEW s \in Streams, Read(s) \/ Eof(s) \/ GiveUp(s) \/ GraceEnds(s)
    PROVE  IInv'
<1> USE DEF IInv, Types, Reader
<1>1. CASE Read(s)
  <2>1. Types'
    BY <1>1 DEF Read, Retained
  <2>2. Conserved'
    <3> SUFFICES ASSUME NEW t \in Streams, ~reader'[t].over
                 PROVE  reader'[t].got + pipe'[t] = written'[t]
      BY DEF Conserved
    <3>1. /\ reader[t].got \in Nat /\ pipe[t] \in Nat /\ Limit \in Nat /\ written' = written
      BY <1>1, BoundsAssumption DEF Read
    <3>2. CASE t # s
      BY <1>1, <3>2 DEF Read, Conserved
    <3>3. CASE t = s
      <4>1. reader'[t] = Retained(reader[t], ~reader[t].grace, reader[t].grace)
        BY <1>1, <3>3 DEF Read
      <4>2. reader'[t].got = IF reader[t].got < Limit THEN reader[t].got + 1 ELSE reader[t].got
        BY <4>1 DEF Retained
      <4>3. ~(reader[t].over \/ reader[t].got >= Limit)
        <5>1. ~Retained(reader[t], ~reader[t].grace, reader[t].grace).over
          BY <4>1, Zenon
        <5>2. Retained(reader[t], ~reader[t].grace, reader[t].grace).over
                 = (reader[t].over \/ reader[t].got >= Limit)
          BY RetainedOver, ZenonT(60)
        <5> QED
          BY <5>1, <5>2, Zenon
      <4>4. ~reader[t].over /\ reader'[t].got = reader[t].got + 1
        BY <3>1, <4>2, <4>3
      <4>5. pipe'[t] = pipe[t] - 1
        BY <1>1, <3>3 DEF Read
      <4> QED
        BY <3>1, <4>4, <4>5 DEF Conserved
    <3> QED
      BY <3>2, <3>3
  <2>3. EndSeen' /\ Joined'
    BY <1>1 DEF Read, Retained, EndSeen, Joined, Streams
  <2>4. Judged'
    BY <1>1 DEF Read, Retained, Judged, Joined, Streams
  <2> QED
    BY <2>1, <2>2, <2>3, <2>4
<1>2. CASE Eof(s)
  <2>1. Types'
    BY <1>2 DEF Eof
  <2>2. Conserved'
    BY <1>2 DEF Eof, Conserved
  <2>3. EndSeen' /\ Joined'
    BY <1>2 DEF Eof, EndSeen, Joined, Streams
  <2>4. Judged'
    BY <1>2 DEF Eof, Judged, Joined, Streams
  <2> QED
    BY <2>1, <2>2, <2>3, <2>4
<1>3. CASE GiveUp(s)
  <2>1. Types' /\ Conserved' /\ EndSeen' /\ Joined'
    <3>1. Types' /\ Conserved'
      <4>1. Types'
        BY <1>3 DEF GiveUp
      <4>2. Conserved'
        BY <1>3 DEF GiveUp, Conserved
      <4> QED
        BY <4>1, <4>2
    <3>2. EndSeen' /\ Joined'
      BY <1>3 DEF GiveUp, EndSeen, Joined, Streams
    <3> QED
      BY <3>1, <3>2
  <2>2. Judged'
    BY <1>3 DEF GiveUp, Judged, Joined, Streams
  <2> QED
    BY <2>1, <2>2
<1>4. CASE GraceEnds(s)
  <2>1. Types'
    BY <1>4 DEF GraceEnds
  <2>2. Conserved' /\ EndSeen'
    BY <1>4 DEF GraceEnds, Conserved, EndSeen
  <2>3. Joined' /\ Judged'
    BY <1>4 DEF GraceEnds, Joined, Judged, Streams
  <2> QED
    BY <2>1, <2>2, <2>3
<1> QED
  BY <1>1, <1>2, <1>3, <1>4

\* The caller: it polls, cleans up, joins both readers, and judges what they captured.
LEMMA CallerSteps ==
    ASSUME IInv, Caller \/ CheckFails
    PROVE  IInv'
<1> USE DEF IInv, Types, Reader
<1>1. CASE Check
  <2>1. /\ caller.at = "poll" /\ UNCHANGED <<kind, alive, written, pipe, reader, result>>
        /\ \/ cause' = Checks[kind][caller.check] /\ caller' = CallerAt("cleanup", caller.check)
           \/ /\ cause' = cause
              /\ caller' = CallerAt("poll", (caller.check % Len(Checks[kind])) + 1)
    BY <1>1 DEF Check
  <2>2. cause' # "ok" /\ caller'.check \in 1 .. Len(Checks[kind])
    <3>1. /\ Checks[kind][caller.check] # "ok"
          /\ (caller.check % Len(Checks[kind])) + 1 \in 1 .. Len(Checks[kind])
      BY PollOrder
    <3>2. CASE cause' = Checks[kind][caller.check] /\ caller' = CallerAt("cleanup", caller.check)
      BY <3>1, <3>2 DEF CallerAt
    <3>3. CASE /\ cause' = cause
               /\ caller' = CallerAt("poll", (caller.check % Len(Checks[kind])) + 1)
      BY <3>1, <3>3 DEF CallerAt
    <3> QED
      BY <2>1, <3>2, <3>3
  <2>3. caller'.at \in {"poll", "cleanup"}
    BY <2>1 DEF CallerAt
  <2> QED
    BY <2>1, <2>2, <2>3 DEF Conserved, EndSeen, Joined, Judged
<1>2. CASE CheckFails
  BY <1>2 DEF CheckFails, CallerAt, Conserved, EndSeen, Joined, Judged
<1>3. ASSUME NEW ok \in BOOLEAN, NEW left \in SUBSET (alive \cap {"descendant"}), Cleanup(ok, left)
      PROVE  IInv'
  BY <1>3 DEF Cleanup, CallerAt, Conserved, EndSeen, Joined, Judged
<1>4. ASSUME NEW s \in Streams, Finish(s) PROVE IInv'
  BY <1>4 DEF Finish, CallerAt, Conserved, EndSeen, Joined, Judged, Streams
<1>5. ASSUME NEW s \in Streams, Join(s) PROVE IInv'
  BY <1>5 DEF Join, CallerAt, Conserved, EndSeen, Joined, Judged, Streams
<1>6. CASE Judge
  <2>1. /\ caller.at = "judge" /\ caller'.at = "done" /\ caller'.check = caller.check
        /\ result' = Outcome
        /\ UNCHANGED <<kind, alive, written, pipe, reader, cause>>
    BY <1>6 DEF Judge, CallerAt
  <2>2. Outcome = "ok" => \A s \in Streams : ~reader[s].over /\ ~reader[s].incomplete
    BY DEF Outcome
  <2> QED
    BY <2>1, <2>2 DEF Conserved, EndSeen, Joined, Judged
<1> QED
  BY <1>1, <1>2, <1>3, <1>4, <1>5, <1>6 DEF Caller

\* The invariant is inductive.
LEMMA StepInv == IInv /\ [Next]_vars => IInv'
<1> SUFFICES ASSUME IInv, [Next]_vars PROVE IInv'
  OBVIOUS
<1>1. CASE UNCHANGED vars
  BY <1>1 DEF vars, IInv, Types, Conserved, EndSeen, Joined, Judged
<1>2. CASE Next
  BY <1>2, ProcessSteps, ReaderSteps, CallerSteps DEF Next, Readers
<1> QED
  BY <1>1, <1>2

\* Both readers were joined before the judgement, and neither gave up or overflowed.
LEMMA InvImplies == IInv => OkMeansAllOutput
<1> SUFFICES ASSUME IInv, result = "ok", NEW s \in Streams
             PROVE  alive = {} /\ reader[s].got = written[s]
  BY DEF OkMeansAllOutput, Streams
<1>1. ~reader[s].over /\ ~reader[s].incomplete /\ ~reader[s].runs
  BY DEF IInv, Joined, Judged, Streams
<1>2. pipe[s] = 0 /\ alive = {}
  BY <1>1 DEF IInv, EndSeen
<1>3. reader[s].got \in Nat /\ reader[s].got + pipe[s] = written[s]
  BY <1>1 DEF IInv, Types, Reader, Conserved
<1> QED
  BY <1>2, <1>3

\* validate_captured_command_output: a command that is reported successful has had all its
\* output captured and left nobody behind who could write more, for every capture limit,
\* any amount of output and every interleaving.
THEOREM SuccessIsComplete == Spec => []OkMeansAllOutput
BY InitInv, StepInv, InvImplies, PTL DEF Spec

-----------------------------------------------------------------------------
(* ProcessTree.                                                            *)

\* Where the owner works on one listing of /proc, and where on one entry of it.
InPass == {"look", "pin", "again", "judge", "send", "verdict"}
AtEntry == {"pin", "again", "judge", "send"}

Entry == Min(pass.todo)

\* A pid that names nothing is nobody's.
ProcsKept ==
    /\ proc \in [Pids -> Procs]
    /\ \A p \in Pids : proc[p].own = "tree" => proc[p].st # "free"

\* What a pass over /proc keeps.
Passes ==
    [todo : SUBSET Pids, live : BOOLEAN, exiting : BOOLEAN, zombie : BOOLEAN,
     late : BOOLEAN, overdue : BOOLEAN, pinned : BOOLEAN]

\* The part of the pass the proofs need the type of.
PassKept ==
    /\ pass \in Passes
    /\ late \in BOOLEAN /\ overdue \in BOOLEAN
    /\ at \in AtEntry => pass.todo # {}
    /\ at = "verdict" => pass.todo = {}
    /\ at = "send" => pass.live

\* What runs, was not forked behind the listing and was not missed is still to be looked at,
\* unless the pass has found a reason for another one.
Covered ==
    at \in InPass =>
        pass.live \/ pass.exiting \/ Running \subseteq ((newborn \union missed) \union pass.todo)

\* A pinned process that was seen to carry the token is of the tree.
PinnedIsOurs ==
    Pidfd /\ at \in {"judge", "send"} /\ pass.pinned => proc[Entry].own = "tree"

TreeInv ==
    /\ ProcsKept /\ PassKept /\ Covered /\ OnlyUnseenSurvive
    /\ PinnedIsOurs /\ (Pidfd => ScanSparesStrangers)

\* The smallest pid of a listing is in it.
LEMMA SmallestPid ==
    ASSUME NEW T \in SUBSET Pids, T # {}
    PROVE  Min(T) \in T /\ Min(T) \in Pids
  <1>1. T \subseteq Nat
    BY TreeBoundsAssumption DEF Pids
  <1> DEFINE R == OpToRel(<, Nat)
  <1>2. R = {ss \in Nat \X Nat : ss[1] < ss[2]}
    BY DEF OpToRel
  <1>3. IsWellFoundedOn(R, Nat)
    BY NatLessThanWellFounded
  <1> HIDE DEF R
  <1>4. PICK x \in T : \A y \in T : ~(<<y, x>> \in R)
    BY <1>1, <1>3, WFMin
  <1>5. \A y \in T : x <= y
    <2> TAKE y \in T
    <2>1. x \in Nat /\ y \in Nat
      BY <1>1
    <2>2. <<y, x>> \in Nat \X Nat /\ <<y, x>>[1] = y /\ <<y, x>>[2] = x
      BY <2>1
    <2>3. ~(y < x)
      BY <1>2, <1>4, <2>2
    <2> QED BY <2>1, <2>3
  <1> QED BY <1>5 DEF Min

LEMMA TreeInitInv == TreeInit => TreeInv
  <1> SUFFICES ASSUME TreeInit PROVE TreeInv
    OBVIOUS
  <1>1. Root \in Pids /\ 2 \in Pids
    BY TreeBoundsAssumption DEF Pids, Root
  <1>2. ProcsKept
    <2>1. PICK group \in BOOLEAN :
             proc = [p \in Pids |-> CASE p = Root -> IF reaped THEN Free ELSE Member(TRUE)
                                      [] p = 2 -> Member(group)
                                      [] OTHER -> Free]
      BY DEF TreeInit
    <2>2. Free \in Procs /\ Free.own = "none" /\ \A g \in BOOLEAN : Member(g) \in Procs /\ Member(g).st = "run"
      BY DEF Free, Member, Procs
    <2>3. \A p \in Pids : proc[p] = Free \/ \E g \in BOOLEAN : proc[p] = Member(g)
      BY <2>1 DEF TreeInit
    <2> QED BY <2>1, <2>2, <2>3 DEF ProcsKept
  <1>3. PassKept
    BY DEF TreeInit, PassKept, Passes, NoPass, AtEntry
  <1> QED BY <1>2, <1>3 DEF TreeInit, TreeInv, Covered, OnlyUnseenSurvive, PinnedIsOurs, ScanSparesStrangers, InPass

-----------------------------------------------------------------------------
(* The processes.                                                          *)

\* What a step of a process may do to the table, the newborn, the missed and the pin.
Behind(p) ==
    /\ at' = at /\ strays' = strays /\ UNCHANGED <<late, overdue>>
    /\ pass' = [pass EXCEPT !.pinned = pass'.pinned] /\ pass'.pinned \in BOOLEAN
    /\ proc' \in [Pids -> Procs] /\ \A q \in Pids \ {p} : proc'[q] = proc[q]
    /\ proc'[p].own = "tree" => proc'[p].st # "free"
    /\ \A q \in Pids : q \in newborn => q \in newborn' \/ q \notin Running'
    /\ \A q \in Pids : q \in missed => q \in missed' \/ q \notin Running'
    /\ p \in Running' => p \in newborn' \/ p \in Running
    /\ pass'.pinned => pass.pinned
    /\ pass'.pinned /\ p = Entry /\ proc[p].own = "tree" => proc'[p].own = "tree"

\* A step of a process changes one entry of the table, forks behind the listing and never pins.
LEMMA ProcessStep ==
    ASSUME TreeInv, NEW p \in Pids, \/ \E q \in Pids : Forks(q, p)
                                 \/ Leave(p) \/ Exits(p) \/ Die(p) \/ Reap(p) \/ Appear(p)
    PROVE  Behind(p)
  <1>0. /\ proc \in [Pids -> Procs] /\ \A q \in Pids : proc[q] \in Procs
        /\ pass.pinned \in BOOLEAN /\ pass = [pass EXCEPT !.pinned = pass.pinned]
    BY DEF TreeInv, ProcsKept, PassKept, Passes
  <1>1. CASE \E q \in Pids : Forks(q, p)
    BY <1>0, <1>1 DEF TreeInv, ProcsKept, Behind, Forks, Running, Member, Procs
  <1>2. CASE Leave(p)
    BY <1>0, <1>2 DEF TreeInv, ProcsKept, Behind, Leave, Running, Procs
  <1>3. CASE Exits(p)
    BY <1>0, <1>3 DEF TreeInv, ProcsKept, Behind, Exits, Running, Procs
  <1>4. CASE Die(p)
    BY <1>0, <1>4 DEF TreeInv, ProcsKept, Behind, Die, Running, Procs
  <1>5. CASE Reap(p)
    BY <1>0, <1>5 DEF TreeInv, ProcsKept, PassKept, Passes, Behind, Reap, Running, Free, Procs, Entry
  <1>6. CASE Appear(p)
    BY <1>0, <1>6 DEF TreeInv, ProcsKept, Behind, Appear, Running, Stranger, Procs
  <1> QED BY <1>1, <1>2, <1>3, <1>4, <1>5, <1>6

\* Whatever the processes do, the rest of the listing still covers what runs.
LEMMA ProcessInv ==
    ASSUME TreeInv, NEW p \in Pids, Behind(p)
    PROVE  TreeInv'
  <1>1. ProcsKept'
    BY DEF TreeInv, ProcsKept, Behind
  <1>2. /\ pass'.todo = pass.todo /\ pass'.live = pass.live /\ pass'.exiting = pass.exiting
        /\ Entry' = Entry /\ PassKept'
    BY DEF TreeInv, PassKept, Passes, Behind, Entry
  <1>3. \A q \in Running' : q \in (newborn' \union missed') \/ (q \in Running /\ q \notin (newborn \union missed))
    BY DEF Behind, Running
  <1>4. Covered' /\ OnlyUnseenSurvive'
    BY <1>2, <1>3 DEF TreeInv, Covered, OnlyUnseenSurvive, Behind
  <1>5. PinnedIsOurs'
    <2> SUFFICES ASSUME Pidfd, at' \in {"judge", "send"}, pass'.pinned PROVE proc'[Entry].own = "tree"
      BY <1>2 DEF PinnedIsOurs
    <2>1. at \in {"judge", "send"} /\ pass.pinned /\ proc[Entry].own = "tree"
      BY DEF Behind, TreeInv, PinnedIsOurs
    <2>2. Entry \in Pids
      BY <2>1, SmallestPid DEF TreeInv, PassKept, Passes, AtEntry, Entry
    <2> QED BY <2>1, <2>2 DEF Behind
  <1>6. Pidfd => ScanSparesStrangers'
    BY DEF TreeInv, ScanSparesStrangers, Behind
  <1> QED BY <1>1, <1>2, <1>4, <1>5, <1>6 DEF TreeInv

-----------------------------------------------------------------------------
(* The owner.                                                              *)

\* A signal dooms what it reaches, and nothing runs that did not.
LEMMA KillKeeps ==
    ASSUME TreeInv, NEW T, NEW by, Kill(T, by)
    PROVE  /\ ProcsKept' /\ Running' \subseteq Running
           /\ \A p \in Pids : proc'[p].own = proc[p].own
           /\ strays' \subseteq strays \union {by}
           /\ (\A p \in T : proc[p].own = "tree") => strays' = strays
  <1>1. \A p \in Pids : proc[p] \in Procs /\ [proc[p] EXCEPT !.st = "doomed"] \in Procs
        /\ [proc[p] EXCEPT !.st = "doomed"].own = proc[p].own /\ [proc[p] EXCEPT !.st = "doomed"].st = "doomed"
    BY DEF TreeInv, ProcsKept, Procs
  <1>2. /\ proc' \in [Pids -> Procs]
        /\ \A p \in Pids : proc'[p] = proc[p] \/ (proc'[p].own = proc[p].own /\ proc'[p].st = "doomed")
    BY <1>1 DEF Kill
  <1>3. ProcsKept' /\ Running' \subseteq Running /\ \A p \in Pids : proc'[p].own = proc[p].own
    BY <1>2 DEF TreeInv, ProcsKept, Running
  <1>4. strays' \subseteq strays \union {by} /\ ((\A p \in T : proc[p].own = "tree") => strays' = strays)
    BY DEF Kill
  <1> QED BY <1>3, <1>4

\* Steps of the owner outside a pass over the descendants.
LEMMA OutsideInv ==
    ASSUME TreeInv, \/ SignalGroup \/ GroupRefuses \/ KillRoot \/ RootRefuses \/ ReapRoot \/ ReapFails
                 \/ ProbeGone \/ ProbeFound \/ ProbeFails \/ LookAtMember \/ MembersTerminated \/ MembersRemain
    PROVE  TreeInv'
  <1> USE DEF InPass, AtEntry
  <1>1. at' \notin InPass \union {"ok"} /\ at \notin InPass
    BY DEF SignalGroup, GroupRefuses, KillRoot, RootRefuses, ReapRoot, ReapFails, ProbeGone, ProbeFound, ProbeFails,
           LookAtMember, MembersTerminated, MembersRemain, MembersDone, GroupIsGone
  <1>2. Covered' /\ OnlyUnseenSurvive' /\ PinnedIsOurs'
    BY <1>1 DEF Covered, OnlyUnseenSurvive, PinnedIsOurs
  <1>3. ProcsKept' /\ (Pidfd => ScanSparesStrangers')
    <2>1. CASE SignalGroup
      BY <2>1, KillKeeps DEF SignalGroup, TreeInv, ScanSparesStrangers
    <2>2. CASE KillRoot
      BY <2>2, KillKeeps DEF KillRoot, TreeInv, ScanSparesStrangers
    <2>3. CASE ReapRoot
      BY <2>3 DEF ReapRoot, TreeInv, ScanSparesStrangers, ProcsKept, Procs, Free
    <2>4. CASE ~(SignalGroup \/ KillRoot \/ ReapRoot)
      BY <2>4 DEF GroupRefuses, RootRefuses, ReapFails, ProbeGone, ProbeFound, ProbeFails, LookAtMember,
                  MembersTerminated, MembersRemain, GroupIsGone, TreeInv, ScanSparesStrangers, ProcsKept
    <2> QED BY <2>1, <2>2, <2>3, <2>4
  <1>4. PassKept'
    <2>1. CASE ProbeFound
      <3>1. late \in BOOLEAN /\ overdue \in BOOLEAN /\ UNCHANGED <<late, overdue>>
        BY <2>1 DEF ProbeFound, TreeInv, PassKept
      <3>2. Listing \in Passes /\ [Listing EXCEPT !.live = TRUE] \in Passes
        BY <3>1 DEF Listing, NoPass, Passes
      <3>3. pass' \in Passes
        BY <2>1, <3>2 DEF ProbeFound
      <3> QED BY <1>1, <3>1, <3>3 DEF PassKept
    <2>2. CASE LookAtMember
      <3>1. pass \in Passes /\ late \in BOOLEAN /\ overdue \in BOOLEAN /\ UNCHANGED <<late, overdue>>
        BY <2>2 DEF LookAtMember, TreeInv, PassKept
      <3>2. \E rest \in SUBSET pass.todo, live, exiting, zombie \in BOOLEAN :
               pass' = [pass EXCEPT !.todo = rest, !.live = live, !.exiting = exiting, !.zombie = zombie]
        <4>1. PICK seen :
                 pass' = [pass EXCEPT !.todo = @ \ {Min(pass.todo)}, !.live = seen = "run",
                                      !.exiting = @ \/ seen = "doomed", !.zombie = @ \/ seen = "zombie"]
          BY <2>2 DEF LookAtMember
        <4>2. /\ pass.todo \ {Min(pass.todo)} \in SUBSET pass.todo /\ (seen = "run") \in BOOLEAN
              /\ (pass.exiting \/ seen = "doomed") \in BOOLEAN /\ (pass.zombie \/ seen = "zombie") \in BOOLEAN
          OBVIOUS
        <4> QED BY <4>1, <4>2
      <3>3. pass' \in Passes
        BY <3>1, <3>2 DEF Passes
      <3>4. late' \in BOOLEAN /\ overdue' \in BOOLEAN
        BY <3>1
      <3> QED BY ONLY <1>1, <3>3, <3>4 DEF PassKept, InPass, AtEntry
    <2>3. CASE ~(ProbeFound \/ LookAtMember)
      <3>1. pass' = pass /\ late' \in BOOLEAN /\ overdue' \in BOOLEAN
        BY <2>3 DEF SignalGroup, GroupRefuses, KillRoot, RootRefuses, ReapRoot, ReapFails, ProbeGone,
               ProbeFails, MembersTerminated, MembersRemain, GroupIsGone, TreeInv, PassKept
      <3> QED BY <1>1, <3>1 DEF TreeInv, PassKept
    <2> QED BY <2>1, <2>2, <2>3
  <1> QED BY <1>2, <1>3, <1>4 DEF TreeInv

\* The entry is done with: it does not run, has been missed, or gave a reason for another pass.
LEMMA PassedOver ==
    ASSUME TreeInv, at \in {"look", "pin", "again", "judge", "send"}, pass.todo # {},
           pass' = [pass' EXCEPT !.todo = pass.todo \ {Entry}, !.live = pass.live],
           pass' \in Passes,
           pass.exiting => pass'.exiting,
           Skip(pass.todo \ {Entry}), ProcsKept', Running' \subseteq Running,
           Entry \notin Running \/ pass.live \/ pass'.exiting \/ Entry \in missed',
           missed \subseteq missed', UNCHANGED <<newborn, late, overdue>>,
           Pidfd => ScanSparesStrangers'
    PROVE  TreeInv'
  <1>1. pass'.todo = pass.todo \ {Entry} /\ pass'.live = pass.live
    BY DEF TreeInv, PassKept, Passes
  <1>2. at' = (IF pass'.todo = {} THEN "verdict" ELSE "look")
    BY <1>1 DEF Skip
  <1>3. PassKept'
    BY <1>1, <1>2 DEF TreeInv, PassKept, AtEntry
  <1>4. Covered'
    BY <1>1 DEF TreeInv, Covered, InPass
  <1> QED BY <1>2, <1>3, <1>4 DEF TreeInv, OnlyUnseenSurvive, PinnedIsOurs

\* A step within the entry, or from one listing to the next.
LEMMA ListInv ==
    ASSUME TreeInv, List \/ ListFails \/ Verdict
    PROVE  TreeInv'
  <1> USE DEF InPass, AtEntry
  <1>1. CASE List
    <2>1. pass' = [NoPass EXCEPT !.todo = {p \in Pids : proc[p].st # "free"}, !.late = late, !.overdue = overdue]
          /\ at' = "look" /\ UNCHANGED <<proc, strays, late, overdue>>
      BY <1>1 DEF List, Listing
    <2>2. PassKept' /\ pass'.todo = {p \in Pids : proc[p].st # "free"} /\ ~pass'.pinned
      BY <2>1 DEF NoPass, TreeInv, PassKept, Passes
    <2>3. Running' \subseteq pass'.todo
      BY <2>1, <2>2 DEF Running
    <2> QED BY <2>1, <2>2, <2>3 DEF TreeInv, Covered, OnlyUnseenSurvive, PinnedIsOurs, ProcsKept, ScanSparesStrangers
  <1>2. CASE Verdict
    <2>1. /\ at \in InPass /\ pass.todo = {} /\ at' \in {"ok", "error", "list"}
          /\ at' = "ok" => ~pass.live /\ ~pass.exiting
          /\ UNCHANGED <<proc, pass, late, overdue, newborn, missed, strays>>
      BY <1>2 DEF Verdict, TreeInv, PassKept
    <2>2. OnlyUnseenSurvive'
      BY <2>1 DEF TreeInv, Covered, OnlyUnseenSurvive, Running
    <2> QED BY <2>1, <2>2 DEF TreeInv, Covered, PinnedIsOurs, ProcsKept, PassKept, ScanSparesStrangers
  <1>3. CASE ListFails
    <2>1. /\ pass' = [Listing EXCEPT !.todo = {}]
          /\ at' = "verdict" /\ UNCHANGED <<proc, strays, late, overdue>> /\ missed' = Running
      BY <1>3 DEF ListFails
    <2>2. late \in BOOLEAN /\ overdue \in BOOLEAN
      BY DEF TreeInv, PassKept
    <2>3. Listing \in Passes
      BY <2>2 DEF Listing, NoPass, Passes
    <2>4. pass' \in Passes /\ pass'.todo = {}
      BY <2>1, <2>3 DEF Passes
    <2>5. PassKept' /\ Running' = Running
      BY <2>1, <2>2, <2>4 DEF PassKept, Running
    <2> QED BY <2>1, <2>4, <2>5 DEF TreeInv, Covered, OnlyUnseenSurvive, PinnedIsOurs, ProcsKept, ScanSparesStrangers
  <1> QED BY <1>1, <1>2, <1>3

\* The pass goes on with the same entry.
LEMMA SameEntry ==
    ASSUME TreeInv, at \in {"look", "pin", "again", "judge"}, pass.todo # {}, at' \in AtEntry,
           pass' \in Passes,
           pass'.todo = pass.todo, pass.live => pass'.live, pass.exiting => pass'.exiting,
           at' = "send" => pass'.live, UNCHANGED <<proc, newborn, missed, late, overdue, strays>>,
           Pidfd /\ at' \in {"judge", "send"} /\ pass'.pinned => proc[Entry].own = "tree"
    PROVE  TreeInv'
  <1>1. ProcsKept' /\ PassKept' /\ Entry' = Entry /\ Running' = Running
    BY DEF TreeInv, ProcsKept, PassKept, Entry, Running, AtEntry
  <1>2. Covered'
    BY <1>1 DEF TreeInv, Covered, InPass, AtEntry
  <1>3. PinnedIsOurs'
    BY <1>1 DEF PinnedIsOurs
  <1> QED BY <1>1, <1>2, <1>3 DEF TreeInv, OnlyUnseenSurvive, AtEntry, ScanSparesStrangers

\* An entry taken for no live carrier: if it runs, it is missed.
LEMMA PassOverInv ==
    ASSUME TreeInv, at \in {"look", "pin", "again", "judge"}, pass.todo # {}, PassOver(Entry),
           UNCHANGED <<proc, newborn, late, overdue, strays>>
    PROVE  TreeInv'
  <1>1. pass \in Passes /\ pass' = [pass EXCEPT !.todo = @ \ {Entry}, !.pinned = FALSE]
        /\ missed' = missed \union ({Entry} \intersect Running) /\ Skip(pass.todo \ {Entry})
    BY DEF TreeInv, PassKept, PassOver
  <1>2. /\ pass' \in Passes /\ pass' = [pass' EXCEPT !.todo = pass.todo \ {Entry}, !.live = pass.live]
        /\ pass.exiting => pass'.exiting
    BY <1>1 DEF Passes
  <1>3. ProcsKept' /\ Running' = Running /\ (Pidfd => ScanSparesStrangers')
    BY DEF TreeInv, ProcsKept, Running, ScanSparesStrangers
  <1>4. (Entry \notin Running \/ Entry \in missed') /\ missed \subseteq missed'
    BY <1>1
  <1> QED BY <1>1, <1>2, <1>3, <1>4, PassedOver

\* The steps within one entry of the listing.
LEMMA LookInv ==
    ASSUME TreeInv, Look \/ Pin \/ LookAgain \/ JudgeCarrier
    PROVE  TreeInv'
  <1>0. /\ at \in {"look", "pin", "again", "judge"} /\ pass.todo # {} /\ pass \in Passes
        /\ Entry \in pass.todo /\ Entry \in Pids
        /\ UNCHANGED <<proc, newborn, late, overdue, strays>>
    <2>1. at \in {"look", "pin", "again", "judge"} /\ pass.todo # {} /\ pass \in Passes
          /\ UNCHANGED <<proc, newborn, late, overdue, strays>>
      BY DEF Look, Pin, LookAgain, JudgeCarrier, TreeInv, PassKept, AtEntry
    <2> QED BY <2>1, SmallestPid DEF Entry, Passes
  <1>1. CASE PassOver(Entry)
    BY <1>0, <1>1, PassOverInv
  <1>2. CASE Look /\ Carries(Entry) /\ at' = (IF Pidfd THEN "pin" ELSE "judge") /\ UNCHANGED <<pass, missed>>
    BY <1>0, <1>2, SameEntry DEF Look, AtEntry
  <1>3. CASE Pin /\ pass' = [pass EXCEPT !.pinned = TRUE] /\ at' = "again" /\ UNCHANGED missed
    BY <1>0, <1>3, SameEntry DEF Pin, AtEntry, Passes
  <1>4. CASE LookAgain /\ Carries(Entry) /\ at' = "judge" /\ UNCHANGED <<pass, missed>>
    BY <1>0, <1>4, SameEntry DEF LookAgain, AtEntry, Carries
  <1>5. CASE JudgeCarrier /\ at' = "send" /\ pass' = [pass EXCEPT !.live = TRUE] /\ UNCHANGED missed
    <2>1. Pidfd /\ pass.pinned => proc[Entry].own = "tree"
      BY <1>5 DEF JudgeCarrier, TreeInv, PinnedIsOurs
    <2>2. /\ pass' \in Passes /\ pass'.todo = pass.todo /\ pass'.live
          /\ (pass.exiting => pass'.exiting)
      BY <1>0, <1>5 DEF Passes
    <2> QED BY <1>0, <1>5, <2>1, <2>2, SameEntry DEF AtEntry
  <1>6. CASE JudgeCarrier /\ Skip(pass.todo \ {Entry}) /\ UNCHANGED missed
             /\ pass' = [pass EXCEPT !.todo = @ \ {Entry}, !.pinned = FALSE, !.exiting = TRUE]
    <2>1. /\ pass' \in Passes /\ pass' = [pass' EXCEPT !.todo = pass.todo \ {Entry}, !.live = pass.live]
          /\ pass'.exiting
      BY <1>0, <1>6 DEF Passes
    <2>2. ProcsKept' /\ Running' = Running /\ (Pidfd => ScanSparesStrangers')
      BY <1>0 DEF TreeInv, ProcsKept, Running, ScanSparesStrangers
    <2> QED BY <1>0, <1>6, <2>1, <2>2, PassedOver
  <1> QED
    BY <1>1, <1>2, <1>3, <1>4, <1>5, <1>6 DEF Look, Pin, LookAgain, JudgeCarrier, Entry

\* What is signalled through a pidfd is the process that was seen to carry the token.
LEMMA SendInv ==
    ASSUME TreeInv, Send \/ SendRefused
    PROVE  TreeInv'
  <1>0. /\ at = "send" /\ pass.todo # {} /\ pass \in Passes /\ pass.live
        /\ pass' = [pass EXCEPT !.todo = @ \ {Entry}, !.pinned = FALSE] /\ Skip(pass.todo \ {Entry})
        /\ UNCHANGED <<newborn, missed, late, overdue>>
    BY DEF Send, SendRefused, TreeInv, PassKept, AtEntry, Entry
  <1>1. pass' \in Passes /\ pass' = [pass' EXCEPT !.todo = pass.todo \ {Entry}, !.live = pass.live]
        /\ (pass.exiting => pass'.exiting)
    BY <1>0 DEF Passes
  <1>2. ProcsKept' /\ Running' \subseteq Running /\ (Pidfd => ScanSparesStrangers')
    <2>1. CASE Send
      <3> DEFINE T == IF pass.pinned \/ ~Pidfd THEN {Entry} ELSE {}
      <3>1. Kill(T, "scan")
        BY <2>1 DEF Send, Entry
      <3>2. Pidfd => \A p \in T : proc[p].own = "tree"
        BY <1>0 DEF TreeInv, PinnedIsOurs
      <3> HIDE DEF T
      <3> QED BY <3>1, <3>2, KillKeeps DEF TreeInv, ScanSparesStrangers
    <2>2. CASE SendRefused
      BY <2>2 DEF SendRefused, TreeInv, ProcsKept, Running, ScanSparesStrangers
    <2> QED BY <2>1, <2>2
  <1> QED BY <1>0, <1>1, <1>2, PassedOver

\* The deadlines only raise flags.
LEMMA TimeInv ==
    ASSUME TreeInv, SurvivorDeadline \/ ExitDeadline \/ UNCHANGED treeVars
    PROVE  TreeInv'
  <1>1. UNCHANGED <<proc, at, pass, newborn, missed, strays>> /\ late' \in BOOLEAN /\ overdue' \in BOOLEAN
    BY DEF SurvivorDeadline, ExitDeadline, treeVars, TreeInv, PassKept
  <1> QED BY <1>1 DEF TreeInv, ProcsKept, PassKept, Covered, OnlyUnseenSurvive, PinnedIsOurs,
                      ScanSparesStrangers, Running, Entry

\* The invariant is inductive.
LEMMA TreeStepInv == TreeInv /\ [TreeNext]_treeVars => TreeInv'
  <1> SUFFICES ASSUME TreeInv, [TreeNext]_treeVars PROVE TreeInv'
    OBVIOUS
  <1>1. CASE Owner \/ GroupRefuses \/ RootRefuses \/ ReapFails \/ ProbeFails \/ ListFails \/ SendRefused
    BY <1>1, OutsideInv, ListInv, LookInv, SendInv DEF Owner
  <1>2. CASE Processes
    <2>1. PICK p \in Pids : \/ \E q \in Pids : Forks(q, p)
                            \/ Leave(p) \/ Exits(p) \/ Die(p) \/ Reap(p) \/ Appear(p)
      BY <1>2 DEF Processes
    <2> QED BY <2>1, ProcessStep, ProcessInv
  <1>3. CASE SurvivorDeadline \/ ExitDeadline \/ UNCHANGED treeVars
    BY <1>3, TimeInv
  <1> QED BY <1>1, <1>2, <1>3 DEF TreeNext

\* The invariant of the cleanup holds in every behaviour of terminate_descendant_process_tree.
THEOREM TreeInvariance == TreeSpec => []TreeInv
  BY TreeInitInv, TreeStepInv, PTL DEF TreeSpec

\* terminate_descendant_process_tree: a certified cleanup leaves nothing of the tree running but
\* what was forked behind its last listing and what its last pass passed over after a failed
\* call, for any number of pids, forks and strangers, with or without pidfds, and whichever
\* reads of /proc, opens of a pidfd and signals fail.
THEOREM CertificateCoversTheSeen == TreeSpec => []OnlyUnseenSurvive
  <1>1. TreeInv => OnlyUnseenSurvive
    BY DEF TreeInv
  <1> QED BY <1>1, TreeInvariance, PTL

\* terminate_escaped_tree_members: on a kernel with pidfds the scan never kills a process outside
\* the tree, however the pids are recycled between its looks.  Without pidfds it may.
THEOREM StrangersAreSpared ==
    ASSUME Pidfd
    PROVE  TreeSpec => []ScanSparesStrangers
  <1>1. TreeInv => ScanSparesStrangers
    BY DEF TreeInv
  <1> QED BY <1>1, TreeInvariance, PTL

-----------------------------------------------------------------------------
(* TtyAudio: what the recursive functions compute.                         *)

\* Induction over the natural numbers, for a set.
LEMMA Induct ==
    ASSUME NEW P, 0 \in P, \A n \in Nat : n \in P => n + 1 \in P
    PROVE  \A n \in Nat : n \in P
<1> DEFINE J == {n \in Nat : n \notin P}
           R == OpToRel(<, Nat)
<1>1. R = {ss \in Nat \X Nat : ss[1] < ss[2]}
  BY DEF OpToRel
<1>2. IsWellFoundedOn(R, Nat)
  BY NatLessThanWellFounded
<1> SUFFICES ASSUME NEW x \in J PROVE FALSE
  OBVIOUS
<1>3. PICK m \in J : \A n \in J : ~(<<n, m>> \in R)
  <2>1. J \subseteq Nat /\ J # {}
    OBVIOUS
  <2> HIDE DEF R, J
  <2> QED
    BY <1>2, <2>1, WFMin
<1>4. m \in Nat /\ m \notin P
  OBVIOUS
<1>5. m # 0 /\ m - 1 \in Nat /\ m - 1 < m /\ (m - 1) + 1 = m
  BY <1>4
<1>6. <<m - 1, m>> \in R
  BY <1>1, <1>4, <1>5
<1>7. m - 1 \in P
  BY <1>3, <1>5, <1>6
<1> QED
  BY <1>4, <1>5, <1>7

\* The parser takes one line after the other.
LEMMA ParseRunIs ==
    ASSUME NEW l, Len(l) \in Nat
    PROVE  /\ ParseRun(l)[0] = ParseStart
           /\ \A n \in 1 .. Len(l) : ParseRun(l)[n] = ParseStep(ParseRun(l)[n - 1], l[n])
<1> DEFINE Is(p, m) == p = [n \in 0 .. m |-> IF n = 0 THEN ParseStart ELSE ParseStep(p[n - 1], l[n])]
           P == {m \in Nat : \E p : Is(p, m)}
<1>1. 0 \in P
  <2>1. Is([n \in 0 .. 0 |-> ParseStart], 0)
    OBVIOUS
  <2> QED
    BY <2>1
<1>2. ASSUME NEW m \in Nat, m \in P PROVE m + 1 \in P
  <2>1. PICK p : Is(p, m)
    BY <1>2
  <2> DEFINE q == [n \in 0 .. m + 1 |-> IF n = m + 1 THEN ParseStep(p[m], l[m + 1]) ELSE p[n]]
  <2>2. ASSUME NEW n \in 0 .. m + 1 PROVE q[n] = (IF n = 0 THEN ParseStart ELSE ParseStep(q[n - 1], l[n]))
    <3>1. CASE n = 0
      BY <2>1, <3>1
    <3>2. CASE n \in 1 .. m
      <4>1. q[n] = p[n] /\ q[n - 1] = p[n - 1] /\ n # 0
        BY <3>2
      <4>2. p[n] = ParseStep(p[n - 1], l[n])
        BY <2>1, <3>2
      <4> QED
        BY <4>1, <4>2
    <3>3. CASE n = m + 1
      <4>1. q[n] = ParseStep(p[m], l[m + 1]) /\ q[m] = p[m] /\ n - 1 = m /\ n # 0
        BY <3>3
      <4> QED
        BY <3>3, <4>1
    <3> QED
      BY <3>1, <3>2, <3>3
  <2>3. q = [n \in 0 .. m + 1 |-> q[n]]
    OBVIOUS
  <2> HIDE DEF q
  <2>4. Is(q, m + 1)
    BY <2>2, <2>3
  <2> QED
    BY <2>4
<1>3. \A m \in Nat : m \in P
  <2> HIDE DEF P
  <2> QED
    BY <1>1, <1>2, Induct
<1> DEFINE Q(p) == Is(p, Len(l))
<1>4. \E p : Q(p)
  BY <1>3
<1>5. ParseRun(l) = CHOOSE p : Q(p)
  BY DEF ParseRun
<1>6. Q(ParseRun(l))
  <2> HIDE DEF Q
  <2> QED
    BY <1>4, <1>5, Zenon
<1> QED
  BY <1>6

\* The sort places one frame after the other.
LEMMA SortRunIs ==
    ASSUME NEW fs, Len(fs) \in Nat
    PROVE  /\ SortRun(fs)[0] = <<>>
           /\ \A n \in 1 .. Len(fs) : SortRun(fs)[n] = Place(SortRun(fs)[n - 1], fs[n])
<1> DEFINE Is(p, m) == p = [n \in 0 .. m |-> IF n = 0 THEN <<>> ELSE Place(p[n - 1], fs[n])]
           P == {m \in Nat : \E p : Is(p, m)}
<1>1. 0 \in P
  <2>1. Is([n \in 0 .. 0 |-> <<>>], 0)
    OBVIOUS
  <2> QED
    BY <2>1
<1>2. ASSUME NEW m \in Nat, m \in P PROVE m + 1 \in P
  <2>1. PICK p : Is(p, m)
    BY <1>2
  <2> DEFINE q == [n \in 0 .. m + 1 |-> IF n = m + 1 THEN Place(p[m], fs[m + 1]) ELSE p[n]]
  <2>2. ASSUME NEW n \in 0 .. m + 1 PROVE q[n] = (IF n = 0 THEN <<>> ELSE Place(q[n - 1], fs[n]))
    <3>1. CASE n = 0
      BY <2>1, <3>1
    <3>2. CASE n \in 1 .. m
      <4>1. q[n] = p[n] /\ q[n - 1] = p[n - 1] /\ n # 0
        BY <3>2
      <4>2. p[n] = Place(p[n - 1], fs[n])
        BY <2>1, <3>2
      <4> QED
        BY <4>1, <4>2
    <3>3. CASE n = m + 1
      <4>1. q[n] = Place(p[m], fs[m + 1]) /\ q[m] = p[m] /\ n - 1 = m /\ n # 0
        BY <3>3
      <4> QED
        BY <3>3, <4>1
    <3> QED
      BY <3>1, <3>2, <3>3
  <2>3. q = [n \in 0 .. m + 1 |-> q[n]]
    OBVIOUS
  <2> HIDE DEF q
  <2>4. Is(q, m + 1)
    BY <2>2, <2>3
  <2> QED
    BY <2>4
<1>3. \A m \in Nat : m \in P
  <2> HIDE DEF P
  <2> QED
    BY <1>1, <1>2, Induct
<1> DEFINE Q(p) == Is(p, Len(fs))
<1>4. \E p : Q(p)
  BY <1>3
<1>5. SortRun(fs) = CHOOSE p : Q(p)
  BY DEF SortRun
<1>6. Q(SortRun(fs))
  <2> HIDE DEF Q
  <2> QED
    BY <1>4, <1>5, Zenon
<1> QED
  BY <1>6

\* The decoder takes one frame after the other.
LEMMA DecodeRunIs ==
    ASSUME NEW fs, NEW policy, Len(fs) \in Nat
    PROVE  /\ DecodeRun(fs, policy)[0] = DecodeStart
           /\ \A n \in 1 .. Len(fs) : DecodeRun(fs, policy)[n] = DecodeStep(DecodeRun(fs, policy)[n - 1], fs[n], policy)
<1> DEFINE Is(p, m) == p = [n \in 0 .. m |-> IF n = 0 THEN DecodeStart ELSE DecodeStep(p[n - 1], fs[n], policy)]
           P == {m \in Nat : \E p : Is(p, m)}
<1>1. 0 \in P
  <2>1. Is([n \in 0 .. 0 |-> DecodeStart], 0)
    OBVIOUS
  <2> QED
    BY <2>1
<1>2. ASSUME NEW m \in Nat, m \in P PROVE m + 1 \in P
  <2>1. PICK p : Is(p, m)
    BY <1>2
  <2> DEFINE q == [n \in 0 .. m + 1 |-> IF n = m + 1 THEN DecodeStep(p[m], fs[m + 1], policy) ELSE p[n]]
  <2>2. ASSUME NEW n \in 0 .. m + 1 PROVE q[n] = (IF n = 0 THEN DecodeStart ELSE DecodeStep(q[n - 1], fs[n], policy))
    <3>1. CASE n = 0
      BY <2>1, <3>1
    <3>2. CASE n \in 1 .. m
      <4>1. q[n] = p[n] /\ q[n - 1] = p[n - 1] /\ n # 0
        BY <3>2
      <4>2. p[n] = DecodeStep(p[n - 1], fs[n], policy)
        BY <2>1, <3>2
      <4> QED
        BY <4>1, <4>2
    <3>3. CASE n = m + 1
      <4>1. q[n] = DecodeStep(p[m], fs[m + 1], policy) /\ q[m] = p[m] /\ n - 1 = m /\ n # 0
        BY <3>3
      <4> QED
        BY <3>3, <4>1
    <3> QED
      BY <3>1, <3>2, <3>3
  <2>3. q = [n \in 0 .. m + 1 |-> q[n]]
    OBVIOUS
  <2> HIDE DEF q
  <2>4. Is(q, m + 1)
    BY <2>2, <2>3
  <2> QED
    BY <2>4
<1>3. \A m \in Nat : m \in P
  <2> HIDE DEF P
  <2> QED
    BY <1>1, <1>2, Induct
<1> DEFINE Q(p) == Is(p, Len(fs))
<1>4. \E p : Q(p)
  BY <1>3
<1>5. DecodeRun(fs, policy) = CHOOSE p : Q(p)
  BY DEF DecodeRun
<1>6. Q(DecodeRun(fs, policy))
  <2> HIDE DEF Q
  <2> QED
    BY <1>4, <1>5, Zenon
<1> QED
  BY <1>6

\* The frames of a set are gathered in order.
LEMMA AudioRunIs ==
    ASSUME NEW numbers, Frames \in Nat
    PROVE  /\ AudioRun(numbers)[0] = <<>>
           /\ \A n \in 1 .. Frames : AudioRun(numbers)[n] = Gather(AudioRun(numbers)[n - 1], numbers, n - 1)
<1> DEFINE Is(p, m) == p = [n \in 0 .. m |-> IF n = 0 THEN <<>> ELSE Gather(p[n - 1], numbers, n - 1)]
           P == {m \in Nat : \E p : Is(p, m)}
<1>1. 0 \in P
  <2>1. Is([n \in 0 .. 0 |-> <<>>], 0)
    OBVIOUS
  <2> QED
    BY <2>1
<1>2. ASSUME NEW m \in Nat, m \in P PROVE m + 1 \in P
  <2>1. PICK p : Is(p, m)
    BY <1>2
  <2> DEFINE q == [n \in 0 .. m + 1 |-> IF n = m + 1 THEN Gather(p[m], numbers, m + 1 - 1) ELSE p[n]]
  <2>2. ASSUME NEW n \in 0 .. m + 1 PROVE q[n] = (IF n = 0 THEN <<>> ELSE Gather(q[n - 1], numbers, n - 1))
    <3>1. CASE n = 0
      BY <2>1, <3>1
    <3>2. CASE n \in 1 .. m
      <4>1. q[n] = p[n] /\ q[n - 1] = p[n - 1] /\ n # 0
        BY <3>2
      <4>2. p[n] = Gather(p[n - 1], numbers, n - 1)
        BY <2>1, <3>2
      <4> QED
        BY <4>1, <4>2
    <3>3. CASE n = m + 1
      <4>1. q[n] = Gather(p[m], numbers, m + 1 - 1) /\ q[m] = p[m] /\ n - 1 = m /\ n # 0
        BY <3>3
      <4> QED
        BY <3>3, <4>1
    <3> QED
      BY <3>1, <3>2, <3>3
  <2>3. q = [n \in 0 .. m + 1 |-> q[n]]
    OBVIOUS
  <2> HIDE DEF q
  <2>4. Is(q, m + 1)
    BY <2>2, <2>3
  <2> QED
    BY <2>4
<1>3. \A m \in Nat : m \in P
  <2> HIDE DEF P
  <2> QED
    BY <1>1, <1>2, Induct
<1> DEFINE Q(p) == Is(p, Frames)
<1>4. \E p : Q(p)
  BY <1>3
<1>5. AudioRun(numbers) = CHOOSE p : Q(p)
  BY DEF AudioRun
<1>6. Q(AudioRun(numbers))
  <2> HIDE DEF Q
  <2> QED
    BY <1>4, <1>5, Zenon
<1> QED
  BY <1>6

\* The elements of a sequence that grows by one.
LEMMA AppendElements ==
    ASSUME NEW A, NEW s \in Seq(A), NEW x \in A
    PROVE  Append(s, x) \in Seq(A) /\ ToSet(Append(s, x)) = ToSet(s) \union {x}
<1>1. /\ Append(s, x) \in Seq(A) /\ Len(Append(s, x)) = Len(s) + 1 /\ Len(s) \in Nat
      /\ \A i \in 1 .. Len(s) : Append(s, x)[i] = s[i]
      /\ Append(s, x)[Len(s) + 1] = x
  OBVIOUS
<1>2. DOMAIN s = 1 .. Len(s) /\ DOMAIN Append(s, x) = 1 .. Len(s) + 1
  BY <1>1, LenProperties
<1> DEFINE t == Append(s, x)
<1>3. ToSet(t) = {t[i] : i \in 1 .. Len(s) + 1} /\ ToSet(s) = {s[i] : i \in 1 .. Len(s)}
  BY <1>2 DEF ToSet
<1> HIDE DEF t
<1>4. \A i \in 1 .. Len(s) + 1 : i \in 1 .. Len(s) \/ i = Len(s) + 1
  BY <1>1
<1>5. (\A i \in 1 .. Len(s) : t[i] = s[i]) /\ t[Len(s) + 1] = x
  BY <1>1 DEF t
<1>6. (\A i \in 1 .. Len(s) : i \in 1 .. Len(s) + 1) /\ Len(s) + 1 \in 1 .. Len(s) + 1
  BY <1>1
<1>7. ToSet(t) = ToSet(s) \union {x}
  BY <1>3, <1>4, <1>5, <1>6
<1> QED
  BY <1>1, <1>7 DEF t

\* The elements of a sequence with one more somewhere.
LEMMA InsertElements ==
    ASSUME NEW A, NEW s \in Seq(A), NEW x \in A, NEW k \in 1 .. Len(s) + 1
    PROVE  InsertAt(s, k, x) \in Seq(A) /\ ToSet(InsertAt(s, k, x)) = ToSet(s) \union {x}
<1> DEFINE a == SubSeq(s, 1, k - 1)
           b == SubSeq(s, k, Len(s))
           c == a \o <<x>>
           t == c \o b
           n == Len(s)
<1>1. n \in Nat /\ k \in Nat /\ 1 <= k /\ k <= n + 1 /\ DOMAIN s = 1 .. n
  BY LenProperties
<1>2. a \in Seq(A) /\ Len(a) = k - 1 /\ \A i \in 1 .. k - 1 : a[i] = s[i]
  BY <1>1
<1>3. b \in Seq(A) /\ Len(b) = n - k + 1 /\ \A i \in 1 .. n - k + 1 : b[i] = s[k - 1 + i]
  BY <1>1
<1>4. <<x>> \in Seq(A) /\ Len(<<x>>) = 1 /\ <<x>>[1] = x
  OBVIOUS
<1>5. InsertAt(s, k, x) = t
  BY DEF InsertAt
<1> HIDE DEF a, b, n
<1>6. /\ c \in Seq(A) /\ Len(c) = k
      /\ \A i \in 1 .. k : c[i] = IF i <= k - 1 THEN a[i] ELSE <<x>>[i - (k - 1)]
  BY <1>1, <1>2, <1>4, ConcatProperties
<1> HIDE DEF c
<1>7. /\ t \in Seq(A) /\ Len(t) = n + 1
      /\ \A i \in 1 .. n + 1 : t[i] = IF i <= k THEN c[i] ELSE b[i - k]
  BY <1>1, <1>3, <1>6, ConcatProperties
<1> HIDE DEF t
<1>8. \A i \in 1 .. n + 1 : t[i] = IF i < k THEN s[i] ELSE IF i = k THEN x ELSE s[i - 1]
  <2> TAKE i \in 1 .. n + 1
  <2>1. i \in Nat /\ 1 <= i /\ i <= n + 1
    BY <1>1
  <2>2. CASE i < k
    <3>1. i \in 1 .. k - 1 /\ i \in 1 .. k
      BY <1>1, <2>1, <2>2
    <3>2. c[i] = a[i] /\ a[i] = s[i]
      BY <1>2, <1>6, <3>1
    <3> QED
      BY <1>1, <1>7, <2>1, <2>2, <3>2
  <2>3. CASE i = k
    <3>1. k \in 1 .. k /\ ~(k <= k - 1) /\ k - (k - 1) = 1
      BY <1>1
    <3>2. c[k] = x
      BY <1>4, <1>6, <3>1
    <3> QED
      BY <1>1, <1>7, <2>1, <2>3, <3>2
  <2>4. CASE i > k
    <3>1. i - k \in 1 .. n - k + 1 /\ k - 1 + (i - k) = i - 1 /\ ~(i <= k) /\ ~(i < k) /\ i # k
      BY <1>1, <2>1, <2>4
    <3>2. b[i - k] = s[i - 1]
      BY <1>3, <3>1
    <3>3. t[i] = b[i - k]
      BY <1>7, <3>1
    <3> QED
      BY <3>1, <3>2, <3>3
  <2> QED
    BY <1>1, <2>1, <2>2, <2>3, <2>4
<1>9. ToSet(t) = {t[i] : i \in 1 .. n + 1} /\ ToSet(s) = {s[i] : i \in 1 .. n}
  BY <1>1, <1>7, LenProperties DEF ToSet
<1>10. ASSUME NEW i \in 1 .. n + 1 PROVE t[i] \in ToSet(s) \union {x}
  <2>1. i < k => i \in 1 .. n
    BY <1>1
  <2>2. i > k => i - 1 \in 1 .. n
    BY <1>1
  <2>3. i < k \/ i = k \/ (i > k /\ ~(i < k) /\ i # k)
    BY <1>1
  <2> QED
    BY <1>8, <1>9, <2>1, <2>2, <2>3
<1>11. ASSUME NEW i \in 1 .. n PROVE s[i] \in ToSet(t)
  <2>1. i \in 1 .. n + 1 /\ i + 1 \in 1 .. n + 1
    BY <1>1
  <2>2. CASE i < k
    BY <1>8, <1>9, <2>1, <2>2
  <2>3. CASE i >= k
    <3>1. ~(i + 1 < k) /\ i + 1 # k /\ (i + 1) - 1 = i
      BY <1>1, <2>3
    <3>2. t[i + 1] = s[i]
      BY <1>8, <2>1, <3>1
    <3> QED
      BY <1>9, <2>1, <3>2
  <2>4. i \in Nat
    BY <1>1
  <2> QED
    BY <1>1, <2>2, <2>3, <2>4
<1>12. x \in ToSet(t)
  <2>1. k \in 1 .. n + 1 /\ ~(k < k)
    BY <1>1
  <2> QED
    BY <1>8, <1>9, <2>1
<1>13. ToSet(t) = ToSet(s) \union {x}
  BY <1>9, <1>10, <1>11, <1>12
<1> QED
  BY <1>5, <1>7, <1>13

\* A frame is put somewhere among the others.
LEMMA PlaceElements ==
    ASSUME NEW A, NEW s \in Seq(A), NEW f \in A
    PROVE  Place(s, f) \in Seq(A) /\ ToSet(Place(s, f)) = ToSet(s) \union {f}
<1> DEFINE T == {i \in DOMAIN s : s[i].seq <= f.seq}
           k == 1 + Cardinality(T)
<1>1. Len(s) \in Nat /\ DOMAIN s = 1 .. Len(s)
  BY LenProperties
<1>2. IsFiniteSet(1 .. Len(s)) /\ Cardinality(1 .. Len(s)) = Len(s)
  BY <1>1, FS_Interval
<1>3. T \in SUBSET (1 .. Len(s))
  BY <1>1
<1>4. Place(s, f) = InsertAt(s, k, f)
  BY DEF Place
<1> HIDE DEF T
<1>5. IsFiniteSet(T) /\ Cardinality(T) <= Len(s)
  BY <1>2, <1>3, FS_Subset
<1>6. Cardinality(T) \in Nat
  BY <1>5, FS_CardinalityType
<1>7. k \in 1 .. Len(s) + 1
  BY <1>1, <1>5, <1>6
<1> HIDE DEF k
<1> QED
  BY <1>4, <1>7, InsertElements

\* The first elements of a sequence.
Firsts(s, n) == {s[i] : i \in 1 .. n}

LEMMA FirstsGrow ==
    ASSUME NEW s, NEW n \in Nat
    PROVE  Firsts(s, 0) = {} /\ Firsts(s, n + 1) = Firsts(s, n) \union {s[n + 1]}
<1>1. \A i : i \in 1 .. n + 1 <=> i \in 1 .. n \/ i = n + 1
  OBVIOUS
<1>2. \A i : i \notin 1 .. 0
  OBVIOUS
<1> QED
  BY <1>1, <1>2 DEF Firsts

\* The sort keeps every frame and adds none.
LEMMA SortElements ==
    ASSUME NEW A, NEW fs \in Seq(A)
    PROVE  SortBySeq(fs) \in Seq(A) /\ ToSet(SortBySeq(fs)) = ToSet(fs)
<1> DEFINE P == {n \in Nat : n <= Len(fs) => /\ SortRun(fs)[n] \in Seq(A)
                                            /\ ToSet(SortRun(fs)[n]) = Firsts(fs, n)}
<1>1. Len(fs) \in Nat /\ DOMAIN fs = 1 .. Len(fs) /\ \A i \in 1 .. Len(fs) : fs[i] \in A
  BY LenProperties
<1>2. /\ SortRun(fs)[0] = <<>>
      /\ \A n \in 1 .. Len(fs) : SortRun(fs)[n] = Place(SortRun(fs)[n - 1], fs[n])
  BY <1>1, SortRunIs
<1>3. 0 \in P
  <2>1. <<>> \in Seq(A) /\ ToSet(<<>>) = {}
    BY DEF ToSet
  <2>2. Firsts(fs, 0) = {}
    BY FirstsGrow
  <2> QED
    BY <1>2, <2>1, <2>2
<1>4. ASSUME NEW n \in Nat, n \in P PROVE n + 1 \in P
  <2> SUFFICES ASSUME n + 1 <= Len(fs)
               PROVE  /\ SortRun(fs)[n + 1] \in Seq(A)
                      /\ ToSet(SortRun(fs)[n + 1]) = Firsts(fs, n + 1)
    OBVIOUS
  <2>1. n + 1 \in 1 .. Len(fs) /\ (n + 1) - 1 = n /\ n <= Len(fs)
    BY <1>1
  <2> DEFINE s == SortRun(fs)[n]
             f == fs[n + 1]
  <2>2. s \in Seq(A) /\ ToSet(s) = Firsts(fs, n) /\ f \in A
    BY <1>1, <1>4, <2>1
  <2>3. SortRun(fs)[n + 1] = Place(s, f)
    BY <1>2, <2>1
  <2>4. Firsts(fs, n + 1) = Firsts(fs, n) \union {f}
    BY FirstsGrow
  <2> HIDE DEF s, f
  <2>5. Place(s, f) \in Seq(A) /\ ToSet(Place(s, f)) = ToSet(s) \union {f}
    BY <2>2, PlaceElements
  <2> QED
    BY <2>2, <2>3, <2>4, <2>5
<1>5. \A n \in Nat : n \in P
  <2> HIDE DEF P
  <2> QED
    BY <1>3, <1>4, Induct
<1>6. SortRun(fs)[Len(fs)] \in Seq(A) /\ ToSet(SortRun(fs)[Len(fs)]) = Firsts(fs, Len(fs))
  BY <1>1, <1>5
<1>7. Firsts(fs, Len(fs)) = ToSet(fs)
  BY <1>1 DEF Firsts, ToSet
<1> QED
  BY <1>6, <1>7 DEF SortBySeq

\* The largest number of a set.
LEMMA MaxIs ==
    ASSUME NEW S \in SUBSET Int, NEW m \in S, \A x \in S : x <= m
    PROVE  Max(S) = m
<1>1. \A x \in S : (\A y \in S : x >= y) => x = m
  OBVIOUS
<1>2. \A y \in S : m >= y
  OBVIOUS
<1> QED
  BY <1>1, <1>2 DEF Max

-----------------------------------------------------------------------------
(* What the parser accepts.                                                *)

Audios == {f \in Lines : f.kind = "audio"}
Parses == [ok : BOOLEAN, frames : Seq(Audios), handshake : BOOLEAN, closed : BOOLEAN]

\* A line leaves a record of frames.
LEMMA ParseStepType ==
    ASSUME NEW p \in Parses, NEW line \in Lines
    PROVE  ParseStep(p, line) \in Parses
<1>1. p.frames \in Seq(Audios) /\ p.handshake \in BOOLEAN
  BY DEF Parses
<1>2. CASE line.kind = "audio"
  <2>1. line \in Audios
    BY <1>2 DEF Audios
  <2>2. Append(p.frames, line) \in Seq(Audios)
    BY <1>1, <2>1
  <2>3. [p EXCEPT !.ok = FALSE] \in Parses
    BY DEF Parses
  <2>4. [p EXCEPT !.frames = Append(p.frames, line)] \in Parses
    BY <2>2 DEF Parses
  <2>5. \/ ParseStep(p, line) = p
        \/ ParseStep(p, line) = [p EXCEPT !.ok = FALSE]
        \/ ParseStep(p, line) = [p EXCEPT !.frames = Append(p.frames, line)]
    BY <1>2 DEF ParseStep
  <2> QED
    BY <2>3, <2>4, <2>5
<1>3. CASE line.kind = "handshake"
  <2>1. [p EXCEPT !.ok = FALSE] \in Parses /\ [p EXCEPT !.handshake = TRUE] \in Parses
    BY DEF Parses
  <2>2. \/ ParseStep(p, line) = p
        \/ ParseStep(p, line) = [p EXCEPT !.ok = FALSE]
        \/ ParseStep(p, line) = [p EXCEPT !.handshake = TRUE]
    BY <1>3 DEF ParseStep
  <2> QED
    BY <2>1, <2>2
<1>4. CASE line.kind \notin {"audio", "handshake"}
  <2> DEFINE b == p.handshake \/ p.frames # <<>>
             c == p.closed \/ line.kind = "session_close"
  <2>1. b \in BOOLEAN /\ c \in BOOLEAN
    OBVIOUS
  <2>2. ParseStep(p, line) = p \/ ParseStep(p, line) = [p EXCEPT !.ok = b, !.closed = c]
    BY <1>4 DEF ParseStep
  <2> HIDE DEF b, c
  <2>3. [p EXCEPT !.ok = b, !.closed = c] \in Parses
    BY <2>1 DEF Parses
  <2> QED
    BY <2>2, <2>3
<1> QED
  BY <1>2, <1>3, <1>4

\* An accepted record has frames, and its close names the highest of them.
LEMMA ParseAccepts ==
    ASSUME NEW l \in Seq(Lines)
    PROVE  /\ Parse(l) \in Parses
           /\ Parse(l).ok => /\ Parse(l).frames # <<>>
                             /\ Parse(l).closed => Max(SeqsOf(Parse(l).frames)) = Frames - 1
<1> DEFINE P == {n \in Nat : n <= Len(l) => ParseRun(l)[n] \in Parses}
<1>1. Len(l) \in Nat /\ \A i \in 1 .. Len(l) : l[i] \in Lines
  BY LenProperties
<1>2. /\ ParseRun(l)[0] = ParseStart
      /\ \A n \in 1 .. Len(l) : ParseRun(l)[n] = ParseStep(ParseRun(l)[n - 1], l[n])
  BY <1>1, ParseRunIs
<1>3. 0 \in P
  <2>1. <<>> \in Seq(Audios)
    OBVIOUS
  <2>2. ParseStart \in Parses
    BY <2>1 DEF ParseStart, Parses
  <2> QED
    BY <1>2, <2>2
<1>4. ASSUME NEW n \in Nat, n \in P PROVE n + 1 \in P
  <2> SUFFICES ASSUME n + 1 <= Len(l) PROVE ParseRun(l)[n + 1] \in Parses
    OBVIOUS
  <2>1. n + 1 \in 1 .. Len(l) /\ (n + 1) - 1 = n /\ n <= Len(l)
    BY <1>1
  <2>2. ParseRun(l)[n] \in Parses /\ l[n + 1] \in Lines
    BY <1>1, <1>4, <2>1
  <2>3. ParseRun(l)[n + 1] = ParseStep(ParseRun(l)[n], l[n + 1])
    BY <1>2, <2>1
  <2> QED
    BY <2>2, <2>3, ParseStepType
<1>5. \A n \in Nat : n \in P
  <2> HIDE DEF P
  <2> QED
    BY <1>3, <1>4, Induct
<1> DEFINE p == ParseRun(l)[Len(l)]
           b == p.ok /\ CloseIsConsistent(p) /\ p.frames # <<>>
<1>6. p \in Parses
  BY <1>1, <1>5
<1>7. Parse(l) = [p EXCEPT !.ok = b] /\ b \in BOOLEAN
  BY DEF Parse
<1>8. b => p.frames # <<>> /\ (p.closed => Max(SeqsOf(p.frames)) = Frames - 1)
  BY DEF CloseIsConsistent
<1> HIDE DEF p, b
<1>9. Parse(l) \in Parses
  BY <1>6, <1>7 DEF Parses
<1>10. Parse(l).ok = b /\ Parse(l).frames = p.frames /\ Parse(l).closed = p.closed
  BY <1>6, <1>7 DEF Parses
<1> QED
  BY <1>8, <1>9, <1>10

-----------------------------------------------------------------------------
(* What the decoder accounts for.                                          *)

Decodes == [ok : BOOLEAN, expected : Nat, seen : SUBSET Nat, raw : Seq(Nat), gaps : Seq(Nat \X Nat),
            missing : Int, duplicates : Seq(Nat), failures : Seq(Nat), prefix : BOOLEAN, ack : Int]

\* Each number below the expected one is in the audio, in order, or in the plan, and the
\* prefix is whole when the plan is empty.
Accounts(d) ==
    /\ \A i, j \in DOMAIN d.raw : i < j => d.raw[i] < d.raw[j]
    /\ ToSet(d.raw) \cap Plan(d) = {}
    /\ ToSet(d.raw) \cup Plan(d) = 0 .. d.expected - 1
    /\ d.seen \subseteq 0 .. d.expected - 1
    /\ d.prefix <=> Plan(d) = {}
    /\ d.prefix => d.ack = d.expected - 1

\* The expected number is above the frames, and the audio is of intact ones.
Covers(d, frames) ==
    /\ \A f \in frames : f.seq < d.expected
    /\ \A s \in ToSet(d.raw) : \E f \in frames : f.seq = s /\ f.intact

\* ... and it follows the highest of them.
Follows(d, frames) ==
    \/ frames = {} /\ d.expected = 0
    \/ \E f \in frames : f.seq = d.expected - 1

\* A gap adds its numbers to the plan.
LEMMA PlanOfGap ==
    ASSUME NEW d \in Decodes, NEW g \in Decodes, NEW m \in Nat, NEW n \in Nat,
           g.gaps = Append(d.gaps, <<m, n>>), g.failures = d.failures
    PROVE  Plan(g) = Plan(d) \union m .. n - 1
<1>1. d.gaps \in Seq(Nat \X Nat) /\ <<m, n>> \in Nat \X Nat
  BY DEF Decodes
<1> DEFINE P == Nat \X Nat
           p == <<m, n>>
           s == d.gaps
<1>2. p \in P /\ s \in Seq(P) /\ p[1] = m /\ p[2] = n
  BY <1>1
<1> HIDE DEF P, p, s
<1>3. ToSet(Append(s, p)) = ToSet(s) \union {p}
  BY <1>2, AppendElements
<1>4. UNION {e[1] .. e[2] - 1 : e \in ToSet(s) \union {p}}
        = (UNION {e[1] .. e[2] - 1 : e \in ToSet(s)}) \union p[1] .. p[2] - 1
  OBVIOUS
<1>5. g.gaps = Append(s, p) /\ d.gaps = s
  BY DEF p, s
<1> QED
  BY <1>2, <1>3, <1>4, <1>5 DEF Plan

\* A failure adds its number.
LEMMA PlanOfFailure ==
    ASSUME NEW d \in Decodes, NEW g \in Decodes, NEW n \in Nat,
           g.gaps = d.gaps, g.failures = Append(d.failures, n)
    PROVE  Plan(g) = Plan(d) \union {n}
<1>1. d.failures \in Seq(Nat)
  BY DEF Decodes
<1> DEFINE s == d.failures
<1>2. s \in Seq(Nat)
  BY <1>1
<1>3. g.failures = Append(s, n) /\ d.failures = s
  OBVIOUS
<1> HIDE DEF s
<1>4. ToSet(Append(s, n)) = ToSet(s) \union {n}
  BY <1>2, AppendElements
<1> QED
  BY <1>3, <1>4 DEF Plan

\* A frame beyond the expected one: the gap is accounted for.
LEMMA GapAccounts ==
    ASSUME NEW d \in Decodes, NEW f \in Audios, NEW frames, d.ok, f.seq > d.expected,
           Accounts(d), Covers(d, frames), \A e \in frames : e.seq \in Nat
    PROVE  LET g == SeeGap(d, f, "SkipMissing")
           IN  g \in Decodes /\ g.expected = f.seq /\ Accounts(g) /\ Covers(g, frames)
<1> DEFINE g == SeeGap(d, f, "SkipMissing")
           m == d.missing + f.seq - d.expected
           e == d.expected
           q == f.seq
<1>1. e \in Nat /\ q \in Nat /\ e < q /\ m \in Int /\ d.gaps \in Seq(Nat \X Nat) /\ d.raw \in Seq(Nat)
  <2>1. f.seq \in Nat
    BY DEF Audios, Lines, Seqs
  <2> QED
    BY <2>1 DEF Decodes
<1> DEFINE b == m <= MaxMissing
           gaps == Append(d.gaps, <<e, q>>)
<1>2. b \in BOOLEAN /\ gaps \in Seq(Nat \X Nat)
  BY <1>1
<1>3. g = [d EXCEPT !.ok = b, !.missing = m, !.gaps = gaps, !.prefix = FALSE, !.expected = q]
  BY DEF SeeGap
<1> HIDE DEF g, b, gaps, m
<1>4. g \in Decodes
  <2>1. q \in Nat /\ m \in Int
    BY <1>1
  <2> HIDE DEF q, e
  <2> QED
    BY <1>2, <1>3, <2>1 DEF Decodes
<1>5. /\ g.expected = q /\ g.gaps = gaps /\ g.failures = d.failures /\ g.raw = d.raw
      /\ g.seen = d.seen /\ g.prefix = FALSE
  <2> HIDE DEF q, e
  <2> QED
    BY <1>3 DEF Decodes
<1>6. Plan(g) = Plan(d) \union e .. q - 1
  BY <1>1, <1>4, <1>5, PlanOfGap DEF gaps
<1>7. e \in Plan(g) /\ \A x : x \in 0 .. q - 1 <=> x \in 0 .. e - 1 \/ x \in e .. q - 1
  BY <1>1, <1>6
<1>8. \A x \in e .. q - 1 : x \notin 0 .. e - 1
  BY <1>1
<1> HIDE DEF q
<1>9. Accounts(g)
  <2>1. ToSet(d.raw) \cup Plan(d) = 0 .. e - 1 /\ ToSet(d.raw) \cap Plan(d) = {} /\ d.seen \subseteq 0 .. e - 1
    BY DEF Accounts
  <2> HIDE DEF e
  <2>2. ToSet(g.raw) \cup Plan(g) = 0 .. g.expected - 1
    BY <1>5, <1>6, <1>7, <2>1
  <2>3. ToSet(g.raw) \cap Plan(g) = {}
    BY <1>5, <1>6, <1>8, <2>1
  <2>4. g.seen \subseteq 0 .. g.expected - 1
    BY <1>5, <1>7, <2>1
  <2>5. \A i, j \in DOMAIN g.raw : i < j => g.raw[i] < g.raw[j]
    BY <1>5 DEF Accounts
  <2> QED
    BY <1>5, <1>7, <2>2, <2>3, <2>4, <2>5 DEF Accounts
<1>10. Covers(g, frames)
  <2>1. \A x \in frames : x.seq < q
    BY <1>1 DEF Covers
  <2> QED
    BY <1>5, <2>1 DEF Covers
<1> QED
  BY <1>4, <1>5, <1>9, <1>10 DEF g, q

\* An intact frame that is the expected one joins the audio.
LEMMA TakeAccounts ==
    ASSUME NEW d \in Decodes, NEW f \in Audios, NEW frames, f.seq = d.expected, f.intact,
           Accounts(d), Covers(d, frames), \A e \in frames : e.seq \in Nat
    PROVE  LET t == Take(d, f)
           IN  /\ t \in Decodes /\ Accounts(t)
               /\ Covers(t, frames \union {f}) /\ Follows(t, frames \union {f})
<1> DEFINE t == Take(d, f)
           q == f.seq
           raw == Append(d.raw, q)
           a == IF d.prefix THEN q ELSE d.ack
           s == d.raw
<1>1. q \in Nat /\ q = d.expected /\ s \in Seq(Nat)
  BY DEF Audios, Lines, Seqs, Decodes
<1>2. raw \in Seq(Nat) /\ ToSet(raw) = ToSet(s) \union {q}
  <2> HIDE DEF q, s
  <2>1. Append(s, q) \in Seq(Nat) /\ ToSet(Append(s, q)) = ToSet(s) \union {q}
    BY <1>1, AppendElements
  <2> QED
    BY <2>1 DEF s
<1>3. a \in Int /\ q + 1 \in Nat /\ d.seen \union {q} \in SUBSET Nat
  BY <1>1 DEF Decodes
<1>4. t = [d EXCEPT !.raw = raw, !.seen = d.seen \union {q}, !.ack = a, !.expected = q + 1]
  BY DEF Take
<1>5. t \in Decodes
  <2> HIDE DEF t, raw, q, a, s
  <2> QED
    BY <1>2, <1>3, <1>4 DEF Decodes
<1>6. /\ t.expected = q + 1 /\ t.gaps = d.gaps /\ t.failures = d.failures /\ t.raw = raw
      /\ t.seen = d.seen \union {q} /\ t.prefix = d.prefix /\ t.ack = a
  <2> HIDE DEF t, raw, q, a, s
  <2> QED
    BY <1>4 DEF Decodes
<1>7. Plan(t) = Plan(d)
  <2> HIDE DEF t
  <2> QED
    BY <1>6 DEF Plan
<1>8. ToSet(s) \cap Plan(d) = {} /\ ToSet(s) \cup Plan(d) = 0 .. q - 1 /\ d.seen \subseteq 0 .. q - 1
  BY <1>1 DEF Accounts
<1>9. q \notin 0 .. q - 1 /\ \A x : x \in 0 .. (q + 1) - 1 <=> x \in 0 .. q - 1 \/ x = q
  BY <1>1
<1>10. \A i, j \in DOMAIN raw : i < j => raw[i] < raw[j]
  <2>1. Len(s) \in Nat /\ DOMAIN s = 1 .. Len(s) /\ DOMAIN raw = 1 .. Len(s) + 1
    BY <1>1, <1>2, LenProperties
  <2>2. (\A i \in 1 .. Len(s) : raw[i] = s[i]) /\ raw[Len(s) + 1] = q
    BY <1>1
  <2>3. \A i \in 1 .. Len(s) : s[i] \in ToSet(s)
    BY <2>1 DEF ToSet
  <2>4. \A i \in 1 .. Len(s) : s[i] < q
    BY <1>1, <1>8, <2>3
  <2>5. \A i, j \in 1 .. Len(s) : i < j => s[i] < s[j]
    BY <2>1 DEF Accounts
  <2> HIDE DEF raw, s, q
  <2> SUFFICES ASSUME NEW i \in 1 .. Len(s) + 1, NEW j \in 1 .. Len(s) + 1, i < j PROVE raw[i] < raw[j]
    BY <2>1
  <2>6. i \in 1 .. Len(s)
    BY <2>1
  <2>7. j \in 1 .. Len(s) \/ j = Len(s) + 1
    BY <2>1
  <2> QED
    BY <2>2, <2>4, <2>5, <2>6, <2>7
<1> HIDE DEF t, raw, q, s
<1>11. Accounts(t)
  <2>1. ToSet(t.raw) \cap Plan(t) = {}
    BY <1>2, <1>6, <1>7, <1>8, <1>9
  <2>2. ToSet(t.raw) \cup Plan(t) = 0 .. t.expected - 1
    BY <1>2, <1>6, <1>7, <1>8, <1>9
  <2>3. t.seen \subseteq 0 .. t.expected - 1
    BY <1>6, <1>8, <1>9
  <2>4. t.prefix <=> Plan(t) = {}
    BY <1>6, <1>7 DEF Accounts
  <2>5. t.prefix => t.ack = t.expected - 1
    BY <1>1, <1>6
  <2> QED
    BY <1>6, <1>10, <2>1, <2>2, <2>3, <2>4, <2>5 DEF Accounts
<1>12. \A e \in frames \union {f} : e.seq < q + 1
  BY <1>1 DEF Covers, q
<1>13. \A x \in ToSet(t.raw) : \E e \in frames \union {f} : e.seq = x /\ e.intact
  <2>1. \A x \in ToSet(s) : \E e \in frames : e.seq = x /\ e.intact
    BY DEF Covers, s
  <2>2. f.seq = q
    BY DEF q
  <2> QED
    BY <1>2, <1>6, <2>1, <2>2
<1>14. f.seq = (q + 1) - 1
  BY <1>1 DEF q
<1> QED
  BY <1>5, <1>6, <1>11, <1>12, <1>13, <1>14 DEF t, Covers, Follows

\* A damaged frame that is the expected one joins the plan.
LEMMA DropAccounts ==
    ASSUME NEW d \in Decodes, NEW f \in Audios, NEW frames, f.seq = d.expected,
           Accounts(d), Covers(d, frames), \A e \in frames : e.seq \in Nat
    PROVE  LET t == Drop(d, f, "SkipMissing")
           IN  /\ t \in Decodes /\ Accounts(t)
               /\ Covers(t, frames \union {f}) /\ Follows(t, frames \union {f})
<1> DEFINE t == Drop(d, f, "SkipMissing")
           q == f.seq
           failures == Append(d.failures, q)
<1>1. q \in Nat /\ q = d.expected
  BY DEF Audios, Lines, Seqs, Decodes
<1>2. failures \in Seq(Nat)
  BY <1>1 DEF Decodes
<1>3. q + 1 \in Nat /\ d.seen \union {q} \in SUBSET Nat
  BY <1>1 DEF Decodes
<1>4. t = [d EXCEPT !.ok = TRUE, !.failures = failures, !.prefix = FALSE, !.seen = d.seen \union {q},
                    !.expected = q + 1]
  BY DEF Drop
<1> HIDE DEF t, failures
<1>5. t \in Decodes
  <2> HIDE DEF q
  <2> QED
    BY <1>2, <1>3, <1>4 DEF Decodes
<1>6. /\ t.expected = q + 1 /\ t.gaps = d.gaps /\ t.failures = failures /\ t.raw = d.raw
      /\ t.seen = d.seen \union {q} /\ t.prefix = FALSE
  <2> HIDE DEF q
  <2> QED
    BY <1>4 DEF Decodes
<1>7. Plan(t) = Plan(d) \union {q}
  BY <1>1, <1>5, <1>6, PlanOfFailure DEF failures
<1>8. /\ ToSet(d.raw) \cap Plan(d) = {} /\ ToSet(d.raw) \cup Plan(d) = 0 .. q - 1
      /\ d.seen \subseteq 0 .. q - 1
  BY <1>1 DEF Accounts
<1>9. q \notin 0 .. q - 1 /\ \A x : x \in 0 .. (q + 1) - 1 <=> x \in 0 .. q - 1 \/ x = q
  BY <1>1
<1> HIDE DEF q
<1>10. Accounts(t)
  <2>1. ToSet(t.raw) \cap Plan(t) = {}
    BY <1>6, <1>7, <1>8, <1>9
  <2>2. ToSet(t.raw) \cup Plan(t) = 0 .. t.expected - 1
    BY <1>6, <1>7, <1>8, <1>9
  <2>3. t.seen \subseteq 0 .. t.expected - 1
    BY <1>6, <1>8, <1>9
  <2>4. \A i, j \in DOMAIN t.raw : i < j => t.raw[i] < t.raw[j]
    BY <1>6 DEF Accounts
  <2>5. t.prefix = FALSE /\ Plan(t) # {}
    BY <1>6, <1>7
  <2> QED
    BY <2>1, <2>2, <2>3, <2>4, <2>5 DEF Accounts
<1>11. \A e \in frames \union {f} : e.seq < q + 1
  BY <1>1 DEF Covers, q
<1>12. \A x \in ToSet(t.raw) : \E e \in frames \union {f} : e.seq = x /\ e.intact
  BY <1>6 DEF Covers
<1>13. f.seq = (q + 1) - 1
  BY <1>1 DEF q
<1> QED
  BY <1>5, <1>6, <1>10, <1>11, <1>12, <1>13 DEF t, Covers, Follows

\* What the lenient decoder has after some frames, unless it gave up.
Kept(d, frames) ==
    /\ d \in Decodes
    /\ d.ok => Accounts(d) /\ Covers(d, frames) /\ Follows(d, frames)

LEMMA DecodeStepKept ==
    ASSUME NEW d, NEW f \in Audios, NEW frames \in SUBSET Audios, Kept(d, frames)
    PROVE  Kept(DecodeStep(d, f, "SkipMissing"), frames \union {f})
<1>1. d \in Decodes /\ \A e \in frames \union {f} : e.seq \in Nat
  BY DEF Kept, Audios, Lines, Seqs
<1>2. CASE ~d.ok
  <2>1. DecodeStep(d, f, "SkipMissing") = d
    BY <1>2 DEF DecodeStep
  <2> QED
    BY <1>1, <1>2, <2>1 DEF Kept
<1>3. CASE d.ok /\ (f.seq \in d.seen \/ f.seq < d.expected)
  <2> DEFINE q == f.seq
             n == Append(d.duplicates, q)
             t == [d EXCEPT !.duplicates = n, !.ok = TRUE]
  <2>1. q \in Nat /\ d.expected \in Nat /\ n \in Seq(Nat)
    BY <1>1 DEF Decodes
  <2>2. DecodeStep(d, f, "SkipMissing") = t
    BY <1>3 DEF DecodeStep
  <2> HIDE DEF n, q
  <2>3. /\ t \in Decodes /\ t.expected = d.expected /\ t.raw = d.raw /\ t.seen = d.seen
        /\ t.prefix = d.prefix /\ t.ack = d.ack /\ t.gaps = d.gaps /\ t.failures = d.failures
    BY <1>1, <2>1 DEF Decodes
  <2> HIDE DEF t
  <2>4. Plan(t) = Plan(d)
    BY <2>3 DEF Plan
  <2>5. Accounts(d) /\ Covers(d, frames) /\ Follows(d, frames)
    BY <1>3 DEF Kept
  <2>6. q < d.expected
    BY <1>3, <2>1, <2>5 DEF Accounts, q
  <2>7. Accounts(t)
    BY <2>3, <2>4, <2>5 DEF Accounts
  <2>8. Covers(t, frames \union {f})
    BY <2>3, <2>5, <2>6 DEF Covers, q
  <2>9. Follows(t, frames \union {f})
    <3>1. d.expected # 0
      BY <2>1, <2>6
    <3> QED
      BY <2>3, <2>5, <3>1 DEF Follows
  <2> QED
    BY <2>2, <2>3, <2>7, <2>8, <2>9 DEF Kept
<1>4. CASE d.ok /\ f.seq \notin d.seen /\ ~(f.seq < d.expected)
  <2> DEFINE g == IF f.seq > d.expected THEN SeeGap(d, f, "SkipMissing") ELSE d
             t == DecodeStep(d, f, "SkipMissing")
  <2>1. Accounts(d) /\ Covers(d, frames) /\ d.expected \in Nat /\ f.seq \in Nat
    BY <1>1, <1>4 DEF Kept, Decodes
  <2>2. g \in Decodes /\ g.expected = f.seq /\ Accounts(g) /\ Covers(g, frames)
    <3>1. CASE f.seq > d.expected
      BY <1>1, <1>4, <2>1, <3>1, GapAccounts
    <3>2. CASE ~(f.seq > d.expected)
      BY <1>1, <1>4, <2>1, <3>2
    <3> QED
      BY <3>1, <3>2
  <2>3. \/ t = g /\ ~g.ok
        \/ f.intact /\ t = Take(g, f)
        \/ t = Drop(g, f, "SkipMissing")
    BY <1>4 DEF DecodeStep
  <2> HIDE DEF g, t
  <2>4. CASE t = g /\ ~g.ok
    BY <2>2, <2>4 DEF Kept, t
  <2>5. CASE f.intact /\ t = Take(g, f)
    BY <1>1, <2>2, <2>5, TakeAccounts DEF Kept, t
  <2>6. CASE t = Drop(g, f, "SkipMissing")
    BY <1>1, <2>2, <2>6, DropAccounts DEF Kept, t
  <2> QED
    BY <2>3, <2>4, <2>5, <2>6
<1> QED
  BY <1>2, <1>3, <1>4

\* What it has in the end.
LEMMA DecodeKept ==
    ASSUME NEW fs \in Seq(Audios)
    PROVE  Kept(DecodeRun(fs, "SkipMissing")[Len(fs)], ToSet(fs))
<1> DEFINE D == DecodeRun(fs, "SkipMissing")
           P == {n \in Nat : n <= Len(fs) => Kept(D[n], Firsts(fs, n))}
<1>1. Len(fs) \in Nat /\ DOMAIN fs = 1 .. Len(fs) /\ \A i \in 1 .. Len(fs) : fs[i] \in Audios
  BY LenProperties
<1>2. D[0] = DecodeStart /\ \A n \in 1 .. Len(fs) : D[n] = DecodeStep(D[n - 1], fs[n], "SkipMissing")
  BY <1>1, DecodeRunIs
<1> HIDE DEF D
<1>3. 0 \in P
  <2>1. <<>> \in Seq(Nat) /\ <<>> \in Seq(Nat \X Nat) /\ {} \in SUBSET Nat /\ ToSet(<<>>) = {}
    BY DEF ToSet
  <2> DEFINE d == DecodeStart
  <2>2. d \in Decodes
    BY <2>1 DEF DecodeStart, Decodes
  <2>3. /\ d.raw = <<>> /\ d.gaps = <<>> /\ d.failures = <<>> /\ d.expected = 0 /\ d.seen = {}
        /\ d.prefix = TRUE /\ d.ack = -1
    BY DEF DecodeStart
  <2> HIDE DEF d
  <2>4. Plan(d) = {}
    BY <2>1, <2>3 DEF Plan
  <2>5. 0 .. 0 - 1 = {} /\ -1 = 0 - 1 /\ DOMAIN <<>> = {}
    OBVIOUS
  <2>6. Accounts(d)
    BY <2>1, <2>3, <2>4, <2>5 DEF Accounts
  <2>7. Firsts(fs, 0) = {}
    BY FirstsGrow
  <2>8. Covers(d, {}) /\ Follows(d, {})
    BY <2>1, <2>3 DEF Covers, Follows
  <2> QED
    BY <1>2, <2>2, <2>6, <2>7, <2>8 DEF Kept, d
<1>4. ASSUME NEW n \in Nat, n \in P PROVE n + 1 \in P
  <2> SUFFICES ASSUME n + 1 <= Len(fs) PROVE Kept(D[n + 1], Firsts(fs, n + 1))
    OBVIOUS
  <2>1. n + 1 \in 1 .. Len(fs) /\ (n + 1) - 1 = n /\ n <= Len(fs)
    BY <1>1
  <2>2. Kept(D[n], Firsts(fs, n)) /\ fs[n + 1] \in Audios /\ Firsts(fs, n) \in SUBSET Audios
    BY <1>1, <1>4, <2>1 DEF Firsts
  <2>3. D[n + 1] = DecodeStep(D[n], fs[n + 1], "SkipMissing")
    BY <1>2, <2>1
  <2>4. Firsts(fs, n + 1) = Firsts(fs, n) \union {fs[n + 1]}
    BY FirstsGrow
  <2> QED
    BY <2>2, <2>3, <2>4, DecodeStepKept
<1>5. \A n \in Nat : n \in P
  <2> HIDE DEF P
  <2> QED
    BY <1>3, <1>4, Induct
<1>6. Firsts(fs, Len(fs)) = ToSet(fs)
  BY <1>1 DEF Firsts, ToSet
<1> QED
  BY <1>1, <1>5, <1>6 DEF D

\* A report of an accepted record, against the frames of the record.
LEMMA ReportIs ==
    ASSUME NEW l \in Seq(Lines), Decode(l, "SkipMissing").ok
    PROVE  LET d == Decode(l, "SkipMissing")
               p == Parse(l)
           IN  /\ d \in Decodes /\ Accounts(d) /\ Covers(d, ToSet(p.frames))
               /\ d.expected \in Nat \ {0} /\ Max(SeqsOf(p.frames)) = d.expected - 1
               /\ p.frames \in Seq(Audios)
               /\ p.closed => d.expected = Frames
<1> DEFINE d == Decode(l, "SkipMissing")
           p == Parse(l)
           fs == SortBySeq(p.frames)
<1>1. p \in Parses /\ (p.ok => p.frames # <<>> /\ (p.closed => Max(SeqsOf(p.frames)) = Frames - 1))
  BY ParseAccepts
<1>2. p.ok /\ d = DecodeRun(fs, "SkipMissing")[Len(fs)]
  <2>1. [DecodeStart EXCEPT !.ok = FALSE].ok = FALSE
    BY DEF DecodeStart
  <2> QED
    BY <2>1 DEF Decode
<1> HIDE DEF d, p
<1>3. p.frames \in Seq(Audios)
  BY <1>1 DEF Parses
<1>4. fs \in Seq(Audios) /\ ToSet(fs) = ToSet(p.frames)
  <2> DEFINE ps == p.frames
  <2> HIDE DEF ps
  <2>1. ps \in Seq(Audios)
    BY <1>3 DEF ps
  <2>2. SortBySeq(ps) \in Seq(Audios) /\ ToSet(SortBySeq(ps)) = ToSet(ps)
    BY <2>1, SortElements
  <2> QED
    BY <2>2 DEF ps
<1>5. Kept(d, ToSet(p.frames))
  <2> HIDE DEF fs
  <2> QED
    BY <1>2, <1>4, DecodeKept
<1>6. d \in Decodes /\ Accounts(d) /\ Covers(d, ToSet(p.frames)) /\ Follows(d, ToSet(p.frames))
  BY <1>5 DEF Kept, d
<1> DEFINE F == ToSet(p.frames)
           S == SeqsOf(p.frames)
<1>7. F \subseteq Audios /\ F # {} /\ S = {f.seq : f \in F}
  <2>1. Len(p.frames) \in Nat /\ DOMAIN p.frames = 1 .. Len(p.frames) /\ Len(p.frames) # 0
    BY <1>1, <1>2, <1>3, LenProperties, EmptySeq
  <2>2. 1 \in DOMAIN p.frames
    BY <2>1
  <2>3. \A i \in DOMAIN p.frames : p.frames[i] \in Audios
    BY <1>3, <2>1
  <2>4. F = {p.frames[i] : i \in DOMAIN p.frames}
    BY DEF ToSet
  <2>5. S = {p.frames[i].seq : i \in DOMAIN p.frames}
    BY DEF SeqsOf
  <2> HIDE DEF F, S
  <2> QED
    BY <2>2, <2>3, <2>4, <2>5
<1> HIDE DEF F, S
<1>8. S \in SUBSET Int /\ \A f \in F : f.seq \in Nat
  BY <1>7 DEF Audios, Lines, Seqs
<1>9. PICK f \in F : f.seq = d.expected - 1
  BY <1>6, <1>7 DEF Follows, F
<1>10. d.expected \in Nat
  BY <1>6 DEF Decodes
<1>11. \A x \in S : x <= d.expected - 1
  <2>1. \A e \in F : e.seq < d.expected
    BY <1>6 DEF Covers, F
  <2>2. \A e \in F : e.seq <= d.expected - 1
    BY <1>8, <1>10, <2>1
  <2> QED
    BY <1>7, <2>2
<1>12. d.expected - 1 \in S
  BY <1>7, <1>9
<1>13. Max(S) = d.expected - 1
  BY <1>8, <1>11, <1>12, MaxIs
<1>14. d.expected # 0
  BY <1>8, <1>9, <1>10
<1>15. p.closed => d.expected = Frames
  <2>1. Frames \in Int
    BY LinkAssumption
  <2> QED
    BY <1>1, <1>2, <1>10, <1>13, <2>1 DEF S
<1> QED
  BY <1>3, <1>6, <1>10, <1>13, <1>14, <1>15 DEF d, p, S

-----------------------------------------------------------------------------
(* The protocol.                                                           *)

\* The lines are the encoder's, and the report is of a record.
TtyInv ==
    /\ emitted \in 0 .. Frames + 2 /\ link \in Seq(Lines) /\ log \in Seq(Lines)
    /\ report.of \in Seq(Lines)
    /\ report.of # <<>> => report.d = Decode(report.of, "SkipMissing")

\* The encoder writes lines.
LEMMA EncoderLines ==
    /\ Frames \in Nat \ {0}
    /\ \A s \in Seqs : Audio(s) \in Lines
    /\ \A word \in {"handshake", "response", "session_close"} : Control(word) \in Lines
    /\ Len(Stream) = Frames + 1
    /\ \A i \in 1 .. Frames + 1 : Stream[i] \in Lines
    /\ \A numbers : AudioOf(numbers) \in Seq(Lines)
<1>1. Frames \in Nat \ {0}
  BY LinkAssumption
<1>2. \A s \in Seqs : Audio(s) \in Lines
  BY <1>1 DEF Seqs, Audio, Lines
<1>3. \A word \in {"handshake", "response", "session_close"} : Control(word) \in Lines
  <2>1. Frames - 1 \in Seqs
    BY <1>1 DEF Seqs
  <2> QED
    BY <2>1 DEF Control, Lines
<1>4. Len(Stream) = Frames + 1 /\ \A i \in 1 .. Frames + 1 : Stream[i] \in Lines
  <2> DEFINE a == <<Control("handshake")>>
             b == [i \in 1 .. Frames |-> Audio(i - 1)]
  <2>1. \A i \in 1 .. Frames : Audio(i - 1) \in Lines
    <3>1. \A i \in 1 .. Frames : i - 1 \in Seqs
      BY <1>1 DEF Seqs
    <3> QED
      BY <1>2, <3>1
  <2>2. b \in Seq(Lines) /\ Len(b) = Frames
    BY <1>1, <2>1
  <2>3. a \in Seq(Lines) /\ Len(a) = 1
    BY <1>3
  <2> HIDE DEF a, b
  <2>4. a \o b \in Seq(Lines) /\ Len(a \o b) = 1 + Frames
    <3>1. a \o b \in Seq(Lines) /\ Len(a \o b) = Len(a) + Len(b)
      BY <2>2, <2>3, ConcatProperties
    <3> QED
      BY <2>2, <2>3, <3>1
  <2>5. Stream = a \o b
    BY DEF Stream, a, b
  <2> HIDE DEF Stream
  <2>6. Stream \in Seq(Lines) /\ Len(Stream) = Frames + 1
    BY <1>1, <2>4, <2>5
  <2> QED
    BY <2>6, LenProperties
<1>5. ASSUME NEW numbers PROVE AudioOf(numbers) \in Seq(Lines)
  <2> DEFINE P == {n \in Nat : n <= Frames => AudioRun(numbers)[n] \in Seq(Lines)}
  <2>1. /\ AudioRun(numbers)[0] = <<>>
        /\ \A n \in 1 .. Frames : AudioRun(numbers)[n] = Gather(AudioRun(numbers)[n - 1], numbers, n - 1)
    BY <1>1, AudioRunIs
  <2>2. 0 \in P
    <3>1. <<>> \in Seq(Lines)
      OBVIOUS
    <3> HIDE DEF Gather
    <3> QED
      BY <2>1, <3>1
  <2>3. ASSUME NEW n \in Nat, n \in P PROVE n + 1 \in P
    <3> SUFFICES ASSUME n + 1 <= Frames PROVE AudioRun(numbers)[n + 1] \in Seq(Lines)
      OBVIOUS
    <3>1. n + 1 \in 1 .. Frames /\ (n + 1) - 1 = n /\ n <= Frames /\ n \in Seqs
      BY <1>1 DEF Seqs
    <3> DEFINE a == AudioRun(numbers)[n]
               x == Audio(n)
    <3>2. a \in Seq(Lines) /\ x \in Lines
      BY <1>2, <2>3, <3>1
    <3>3. AudioRun(numbers)[n + 1] = Gather(a, numbers, n)
      BY <2>1, <3>1
    <3>4. Gather(a, numbers, n) = a \/ Gather(a, numbers, n) = Append(a, x)
      BY DEF Gather
    <3> HIDE DEF a, x
    <3>5. Append(a, x) \in Seq(Lines)
      BY <3>2
    <3> QED
      BY <3>2, <3>3, <3>4, <3>5
  <2>4. \A n \in Nat : n \in P
    <3> HIDE DEF P
    <3> QED
      BY <2>2, <2>3, Induct
  <2> QED
    BY <1>1, <2>4 DEF AudioOf
<1> QED
  BY <1>1, <1>2, <1>3, <1>4, <1>5

LEMMA TtyInvInit == TtyInit => TtyInv
<1>1. Frames \in Nat /\ <<>> \in Seq(Lines)
  BY LinkAssumption
<1> QED
  BY <1>1 DEF TtyInit, TtyInv

LEMMA TtyInvStep == TtyInv /\ [TtyNext]_ttyVars => TtyInv'
<1> SUFFICES ASSUME TtyInv, [TtyNext]_ttyVars PROVE TtyInv'
  OBVIOUS
<1>1. Frames \in Nat \ {0} /\ Len(Stream) = Frames + 1 /\ emitted \in Nat
  BY EncoderLines DEF TtyInv
<1>2. link # <<>> => Head(link) \in Lines /\ Tail(link) \in Seq(Lines)
  BY DEF TtyInv
<1>3. CASE Emit
  <2> DEFINE x == Stream[emitted + 1]
  <2>1. x \in Lines
    <3>1. emitted + 1 \in 1 .. Frames + 1
      BY <1>1, <1>3 DEF Emit
    <3> QED
      BY <3>1, EncoderLines
  <2>2. link' = Append(link, x) /\ emitted' = emitted + 1 /\ emitted' <= Frames + 1
    BY <1>1, <1>3 DEF Emit
  <2> HIDE DEF x
  <2>3. link' \in Seq(Lines)
    BY <2>1, <2>2 DEF TtyInv
  <2> QED
    BY <1>1, <1>3, <2>2, <2>3 DEF Emit, TtyInv
<1>4. CASE CloseSession
  <2> DEFINE x == Control("session_close")
  <2>1. x \in Lines
    BY EncoderLines
  <2>2. link' = Append(link, x) /\ emitted' = Frames + 2
    BY <1>1, <1>4 DEF CloseSession
  <2> HIDE DEF x
  <2>3. link' \in Seq(Lines)
    BY <2>1, <2>2 DEF TtyInv
  <2> QED
    BY <1>1, <1>4, <2>2, <2>3 DEF CloseSession, TtyInv
<1>5. CASE Deliver \/ Lose \/ Repeat
  <2>1. UNCHANGED <<emitted, report>> /\ (link' = link \/ link' = Tail(link)) /\ link # <<>>
    BY <1>5 DEF Deliver, Lose, Repeat
  <2>2. log' = log \/ log' = Append(log, Head(link))
    BY <1>5 DEF Deliver, Lose, Repeat
  <2> DEFINE x == Head(link)
  <2>3. x \in Lines
    BY <1>2, <2>1
  <2>4. log' = log \/ log' = Append(log, x)
    BY <2>2
  <2> HIDE DEF x
  <2>5. log' \in Seq(Lines)
    <3>1. log \in Seq(Lines)
      BY DEF TtyInv
    <3>2. Append(log, x) \in Seq(Lines)
      BY <2>3, <3>1
    <3> QED
      BY <2>4, <3>1, <3>2
  <2>6. link' \in Seq(Lines)
    BY <1>2, <2>1 DEF TtyInv
  <2> QED
    BY <2>1, <2>5, <2>6 DEF TtyInv
<1>6. CASE Damage
  <2>1. link # <<>> /\ link' = [link EXCEPT ![1].intact = FALSE] /\ UNCHANGED <<emitted, log, report>>
    BY <1>6 DEF Damage
  <2>2. link \in Seq(Lines) /\ Len(link) \in Nat /\ DOMAIN link = 1 .. Len(link) /\ Len(link) # 0
    BY <2>1, LenProperties, EmptySeq DEF TtyInv
  <2> DEFINE x == [link[1] EXCEPT !.intact = FALSE]
  <2>3. x \in Lines
    <3>1. link[1] \in Lines
      BY <2>2
    <3> QED
      BY <3>1 DEF Lines
  <2>4. link' = [link EXCEPT ![1] = x]
    BY <2>1
  <2> HIDE DEF x
  <2>5. link' \in Seq(Lines)
    BY <2>2, <2>3, <2>4
  <2> QED
    BY <2>1, <2>5 DEF TtyInv
<1>7. CASE RetransmitLoop
  <2>1. UNCHANGED <<emitted, link, log>> /\ report' = [d |-> Decode(log, "SkipMissing"), of |-> log]
    BY <1>7 DEF RetransmitLoop
  <2>2. report'.of = log /\ report'.d = Decode(log, "SkipMissing")
    BY <2>1
  <2> QED
    BY <2>1, <2>2 DEF TtyInv
<1>8. CASE Resend
  <2> DEFINE again == {s \in request : resends[s] < MaxResends}
             a == <<Control("response")>>
             b == AudioOf(again)
  <2>1. UNCHANGED <<emitted, log, report>> /\ link' = a \o b
    BY <1>8 DEF Resend
  <2>2. a \in Seq(Lines) /\ b \in Seq(Lines)
    <3>1. Control("response") \in Lines
      BY EncoderLines
    <3>2. AudioOf(again) \in Seq(Lines)
      <4> HIDE DEF again
      <4> QED
        BY EncoderLines
    <3> QED
      BY <3>1, <3>2
  <2> HIDE DEF a, b
  <2>3. link' \in Seq(Lines)
    BY <2>1, <2>2, ConcatProperties
  <2> QED
    BY <2>1, <2>3 DEF TtyInv
<1>9. CASE UNCHANGED ttyVars
  BY <1>9 DEF ttyVars, TtyInv
<1> QED
  BY <1>3, <1>4, <1>5, <1>6, <1>7, <1>8, <1>9 DEF TtyNext

\* A report accounts for every frame up to the highest it saw, in the audio, in order, or in
\* the plan (retransmit_plan_from_report), whatever a link loses, damages and repeats and
\* however long the recording: the gaps and the integrity failures are all that is missing.
THEOREM PlanAccountsForEveryFrame == TtySpec => []PlanCompletesAudio
<1>1. TtyInv => PlanCompletesAudio
  <2> SUFFICES ASSUME TtyInv, report.d.ok, report.of # <<>> PROVE PlanCompletesAudio
    BY DEF PlanCompletesAudio
  <2> DEFINE l == report.of
             d == report.d
  <2>1. l \in Seq(Lines) /\ d = Decode(l, "SkipMissing") /\ d.ok
    BY DEF TtyInv
  <2> HIDE DEF l, d
  <2>2. Accounts(d) /\ Max(SeqsOf(Parse(l).frames)) = d.expected - 1
    BY <2>1, ReportIs
  <2> QED
    BY <2>2 DEF PlanCompletesAudio, Accounts, l, d
<1> QED
  BY TtyInvInit, TtyInvStep, <1>1, PTL DEF TtySpec

\* An acknowledgement is true of the record: an intact copy of every frame up to its up_to_seq
\* is there, and of all the sender's frames if a close is (emit_retransmit_loop_from_reader).
THEOREM AcknowledgementsAreTrue == TtySpec => []AckIsTrue
<1>1. TtyInv => AckIsTrue
  <2> SUFFICES ASSUME TtyInv, report.d.ok, report.of # <<>>, Plan(report.d) = {} PROVE AckIsTrue
    BY DEF AckIsTrue
  <2> DEFINE l == report.of
             d == report.d
             p == Parse(l)
             n == d.expected
  <2>1. l \in Seq(Lines) /\ d = Decode(l, "SkipMissing") /\ d.ok /\ Plan(d) = {}
    BY DEF TtyInv
  <2> HIDE DEF l, d
  <2>2. /\ Accounts(d) /\ Covers(d, ToSet(p.frames)) /\ n \in Nat \ {0}
        /\ p.frames \in Seq(Audios) /\ (p.closed => n = Frames)
    BY <2>1, ReportIs
  <2> HIDE DEF p, n
  <2>3. d.ack = n - 1 /\ ToSet(d.raw) = 0 .. n - 1
    BY <2>1, <2>2 DEF Accounts, n
  <2>4. UpTo(d) = n - 1
    <3>1. {d.ack, 0} \in SUBSET Int /\ d.ack \in {d.ack, 0} /\ \A x \in {d.ack, 0} : x <= d.ack
      BY <2>2, <2>3
    <3> QED
      BY <2>3, <3>1, MaxIs DEF UpTo
  <2>5. ASSUME NEW s \in 0 .. n - 1 PROVE \E i \in DOMAIN p.frames : p.frames[i] = Audio(s)
    <3>1. PICK f \in ToSet(p.frames) : f.seq = s /\ f.intact
      BY <2>2, <2>3 DEF Covers
    <3>2. PICK i \in DOMAIN p.frames : p.frames[i] = f
      BY DEF ToSet
    <3>3. f \in Audios
      BY <2>2, <3>2, LenProperties
    <3>4. f = Audio(s)
      BY <3>1, <3>3 DEF Audios, Lines, Audio
    <3> QED
      BY <3>2, <3>4
  <2>6. p.closed => UpTo(d) = Frames - 1
    BY <2>2, <2>4
  <2> QED
    BY <2>4, <2>5, <2>6 DEF AckIsTrue, l, d, p
<1> QED
  BY TtyInvInit, TtyInvStep, <1>1, PTL DEF TtySpec

=============================================================================
