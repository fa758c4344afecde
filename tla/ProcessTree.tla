---------------------------- MODULE ProcessTree ----------------------------
(***************************************************************************)
(* terminate_descendant_process_tree of src/src/process.rs on Linux: the   *)
(* owner of a bounded command kills the command's process group, reaps the *)
(* root, waits until the group is gone, and then looks through /proc for   *)
(* descendants that left the group, which carry a token in their           *)
(* environment.  Meanwhile the processes of the tree fork, leave the group *)
(* and exit, and pids that become free are given to strangers.             *)
(*                                                                         *)
(* A pass over /proc works on a listing: what is born after the listing is *)
(* not in it.  Any call of a pass may fail (a process may hide its         *)
(* environment, the owner may be out of file descriptors), and most of     *)
(* these failures are taken for a process that is gone.  The two deadlines *)
(* are flags that are raised some time after their window opens; a pass    *)
(* judges by their value when it began.                                    *)
(***************************************************************************)
EXTENDS Integers, FiniteSets, FiniteSetsExt

CONSTANTS
    LastPid,        \* pids are 1 .. LastPid; the root's is 1
    Pidfd,          \* whether the kernel has pidfd_open
    MaxForks,       \* bound on the processes the tree forks during the cleanup
    MaxStrangers    \* bound on the strangers that appear

ASSUME TreeBoundsAssumption ==
    /\ LastPid \in Nat \ {0, 1}
    /\ Pidfd \in BOOLEAN
    /\ {MaxForks, MaxStrangers} \subseteq Nat

VARIABLES
    proc,       \* what each pid names: its state, whose it is, whether it is in the group
    reaped,     \* the owner has reaped the root
    at,         \* where the owner is
    refused,    \* the group rejected the signal
    pass,       \* the pass over /proc: pids to look at, what it found, the deadlines it
                \* judges by, and whether the pinned process still has its pid
    late,       \* survivor_deadline has passed
    overdue,    \* exit_deadline has passed
    newborn,    \* pids forked since the latest listing
    missed,     \* running processes of the tree the latest pass passed over after a failed call
    strays,     \* what has killed a stranger
    spent       \* forks and strangers so far

treeVars == <<proc, reaped, at, refused, pass, late, overdue, newborn, missed, strays, spent>>

Pids == 1 .. LastPid
Root == 1

Free == [st |-> "free", own |-> "none", group |-> FALSE]
Member(group) == [st |-> "run", own |-> "tree", group |-> group]
Stranger(pid) == [st |-> "run", own |-> "stranger", group |-> pid = Root]

Procs == [st : {"free", "run", "doomed", "zombie"}, own : {"none", "tree", "stranger"}, group : BOOLEAN]

NoPass == [todo |-> {}, live |-> FALSE, exiting |-> FALSE, zombie |-> FALSE,
           late |-> FALSE, overdue |-> FALSE, pinned |-> FALSE]

InGroup == {p \in Pids : proc[p].group}
Running == {p \in Pids : proc[p].st = "run" /\ proc[p].own = "tree"}

\* The command may still run, or have exited and been reaped by the poll that ended it; it
\* has one descendant, in the group or out of it.
TreeInit ==
    /\ reaped \in BOOLEAN
    /\ \E group \in BOOLEAN :
           proc = [p \in Pids |-> CASE p = Root -> IF reaped THEN Free ELSE Member(TRUE)
                                    [] p = 2 -> Member(group)
                                    [] OTHER -> Free]
    /\ at = "signal" /\ refused = FALSE
    /\ pass = NoPass
    /\ late = FALSE /\ overdue = FALSE
    /\ newborn = {} /\ missed = {} /\ strays = {}
    /\ spent = [forks |-> 0, strangers |-> 0]

-----------------------------------------------------------------------------
(* The processes.                                                          *)

\* A fork gives the child a free pid and its parent's group.
Forks(p, q) ==
    /\ p \in Running /\ proc[q].st = "free" /\ ~(q = Root /\ InGroup # {})
    /\ spent.forks < MaxForks
    /\ proc' = [proc EXCEPT ![q] = Member(proc[p].group)]
    /\ newborn' = newborn \cup {q}
    /\ spent' = [spent EXCEPT !.forks = @ + 1]
    /\ UNCHANGED <<reaped, at, refused, pass, late, overdue, missed, strays>>

\* setsid, which a group leader may not call.
Leave(p) ==
    /\ p \in Running /\ p # Root /\ proc[p].group
    /\ proc' = [proc EXCEPT ![p].group = FALSE]
    /\ UNCHANGED <<reaped, at, refused, pass, late, overdue, newborn, missed, strays, spent>>

\* A process exits by itself.
Exits(p) ==
    /\ proc[p].st = "run"
    /\ proc' = [proc EXCEPT ![p].st = "zombie"]
    /\ UNCHANGED <<reaped, at, refused, pass, late, overdue, newborn, missed, strays, spent>>

\* A killed process has been scheduled through its exit.
Die(p) ==
    /\ proc[p].st = "doomed"
    /\ proc' = [proc EXCEPT ![p].st = "zombie"]
    /\ UNCHANGED <<reaped, at, refused, pass, late, overdue, newborn, missed, strays, spent>>

\* A parent or init reaps a zombie; only the owner reaps the root.
Reap(p) ==
    /\ proc[p].st = "zombie" /\ (p = Root => reaped)
    /\ proc' = [proc EXCEPT ![p] = Free]
    /\ pass' = [pass EXCEPT !.pinned = @ /\ pass.todo # {} /\ p # Min(pass.todo)]
    /\ newborn' = newborn \ {p} /\ missed' = missed \ {p}
    /\ UNCHANGED <<reaped, at, refused, late, overdue, strays, spent>>

\* A process outside the tree gets a free pid, but not one that still names a group.
Appear(q) ==
    /\ proc[q].st = "free" /\ ~(q = Root /\ (InGroup # {} \/ ~reaped))
    /\ spent.strangers < MaxStrangers
    /\ proc' = [proc EXCEPT ![q] = Stranger(q)]
    /\ spent' = [spent EXCEPT !.strangers = @ + 1]
    /\ UNCHANGED <<reaped, at, refused, pass, late, overdue, newborn, missed, strays>>

-----------------------------------------------------------------------------
(* terminate_descendant_process_tree                                       *)

Kill(targets, by) ==
    /\ proc' = [p \in Pids |-> IF p \in targets /\ proc[p].st = "run"
                               THEN [proc[p] EXCEPT !.st = "doomed"] ELSE proc[p]]
    /\ strays' = strays \cup {by : p \in {q \in targets : proc[q].own = "stranger" /\ proc[q].st = "run"}}

\* kill_process_group
SignalGroup ==
    /\ at = "signal"
    /\ at' = "root"
    /\ Kill(InGroup, "group")
    /\ UNCHANGED <<reaped, refused, pass, late, overdue, newborn, missed, spent>>

\* The group may not be signalled: recorded, and the cleanup goes on.
GroupRefuses ==
    /\ at = "signal" /\ InGroup # {}
    /\ at' = "root" /\ refused' = TRUE
    /\ UNCHANGED <<proc, reaped, pass, late, overdue, newborn, missed, strays, spent>>

\* The root is looked at and, if it has not exited, killed directly.
KillRoot ==
    /\ at = "root"
    /\ at' = "reap"
    /\ Kill(IF reaped THEN {} ELSE {Root}, "root")
    /\ UNCHANGED <<reaped, refused, pass, late, overdue, newborn, missed, spent>>

\* The root may not be killed or looked at: the cleanup fails.
RootRefuses ==
    /\ at = "root" /\ ~reaped
    /\ at' = "error"
    /\ UNCHANGED <<proc, reaped, refused, pass, late, overdue, newborn, missed, strays, spent>>

\* wait_for_child_reap
ReapRoot ==
    /\ at = "reap" /\ (reaped \/ proc[Root].st = "zombie")
    /\ at' = "probe"
    /\ proc' = IF reaped THEN proc ELSE [proc EXCEPT ![Root] = Free]
    /\ reaped' = TRUE
    /\ late' = FALSE
    /\ UNCHANGED <<refused, pass, overdue, newborn, missed, strays, spent>>

\* The root is not dead in time, or cannot be monitored.
ReapFails ==
    /\ at = "reap" /\ ~reaped /\ proc[Root].st # "zombie"
    /\ at' = "error"
    /\ UNCHANGED <<proc, reaped, refused, pass, late, overdue, newborn, missed, strays, spent>>

\* Mutant of GroupIsGone: the cleanup ends with the group.
GroupIsGoneEnds ==
    /\ at' = "ok" /\ late' = FALSE
    /\ UNCHANGED <<proc, reaped, refused, pass, overdue, newborn, missed, strays, spent>>

\* From the group to the descendants that left it, whose window opens now.
GroupIsGone ==
    /\ at' = "list" /\ late' = FALSE
    /\ UNCHANGED <<proc, reaped, refused, pass, overdue, newborn, missed, strays, spent>>

\* The listing of /proc, and the deadlines the pass will judge by.
Listing == [NoPass EXCEPT !.todo = {p \in Pids : proc[p].st # "free"}, !.late = late, !.overdue = overdue]

\* The group is probed: gone, or its members are looked at one by one.
ProbeGone == at = "probe" /\ InGroup = {} /\ GroupIsGone

\* A /proc that cannot be listed makes the group live.
ProbeFound ==
    /\ at = "probe" /\ InGroup # {}
    /\ at' = "members" /\ pass' \in {Listing, [Listing EXCEPT !.live = TRUE]}
    /\ UNCHANGED <<proc, reaped, refused, late, overdue, newborn, missed, strays, spent>>

\* The probe fails, other than by an interruption in time.
ProbeFails ==
    /\ at = "probe"
    /\ at' = "error"
    /\ UNCHANGED <<proc, reaped, refused, pass, late, overdue, newborn, missed, strays, spent>>

\* What a look at the threads of a process may find: its state; no thread, when their list
\* or their stat cannot be read; a dying one, when the status of a live one cannot be read.
killed_process_state(p) ==
    {proc[p].st, "free"} \cup (IF proc[p].st = "run" THEN {"doomed"} ELSE {})

\* killed_process_group_state: one entry of the listing.
LookAtMember ==
    LET p == Min(pass.todo)
    IN  /\ at = "members" /\ pass.todo # {} /\ ~pass.live
        /\ \E seen \in IF proc[p].group THEN killed_process_state(p) ELSE {"free"} :
              pass' = [pass EXCEPT !.todo = @ \ {p}, !.live = seen = "run",
                                   !.exiting = @ \/ seen = "doomed", !.zombie = @ \/ seen = "zombie"]
        /\ UNCHANGED <<proc, reaped, at, refused, late, overdue, newborn, missed, strays, spent>>

MembersDone == at = "members" /\ (pass.todo = {} \/ pass.live)

\* KilledTreeState::Terminated
MembersTerminated == MembersDone /\ ~pass.live /\ pass.zombie /\ ~pass.exiting /\ GroupIsGone

\* Live or Exiting: again, or an error when the pass began after the deadline.
MembersRemain ==
    /\ MembersDone /\ (pass.live \/ pass.exiting \/ ~pass.zombie)
    /\ at' = IF (IF pass.live THEN pass.late ELSE pass.overdue) THEN "error" ELSE "probe"
    /\ UNCHANGED <<proc, reaped, refused, pass, late, overdue, newborn, missed, strays, spent>>

-----------------------------------------------------------------------------
(* terminate_escaped_tree_members                                          *)

List ==
    /\ at = "list"
    /\ at' = "look" /\ pass' = Listing
    /\ newborn' = {} /\ missed' = {}
    /\ UNCHANGED <<proc, reaped, refused, late, overdue, strays, spent>>

\* /proc cannot be listed: a pass over nothing.
ListFails ==
    /\ at = "list"
    /\ at' = "verdict" /\ pass' = [Listing EXCEPT !.todo = {}]
    /\ newborn' = {} /\ missed' = Running
    /\ UNCHANGED <<proc, reaped, refused, late, overdue, strays, spent>>

\* environ is readable until the process releases its memory, and carries the token.
Carries(p) == proc[p].own = "tree" /\ proc[p].st \in {"run", "doomed"}

\* The next entry: the one after this, or the verdict of the pass.
Skip(rest) == at' = (IF rest = {} THEN "verdict" ELSE "look")

\* The pass goes on with the next entry as if this one were no live carrier.
PassOver(p) ==
    /\ pass' = [pass EXCEPT !.todo = @ \ {p}, !.pinned = FALSE]
    /\ missed' = missed \cup ({p} \cap Running)
    /\ Skip(pass.todo \ {p})

\* The first read of environ.  An entry that is no carrier or cannot be read is passed over,
\* as is one that the listing has dropped.
Look ==
    LET p == Min(pass.todo)
    IN  /\ at = "look" /\ pass.todo # {}
        /\ \/ /\ Carries(p)
              /\ at' = IF Pidfd THEN "pin" ELSE "judge"
              /\ UNCHANGED <<pass, missed>>
           \/ PassOver(p)
        /\ UNCHANGED <<proc, reaped, refused, late, overdue, newborn, strays, spent>>

\* pidfd_open pins whatever the pid names now; an entry it fails on is passed over.
Pin ==
    LET p == Min(pass.todo)
    IN  /\ at = "pin"
        /\ \/ /\ proc[p].st # "free"
              /\ pass' = [pass EXCEPT !.pinned = TRUE]
              /\ at' = "again"
              /\ UNCHANGED missed
           \/ PassOver(p)
        /\ UNCHANGED <<proc, reaped, refused, late, overdue, newborn, strays, spent>>

\* Mutant of LookAgain: environ is not read a second time.
LookOnce ==
    /\ at = "again"
    /\ at' = "judge"
    /\ UNCHANGED <<proc, reaped, refused, pass, late, overdue, newborn, missed, strays, spent>>

\* The second read of environ.
LookAgain ==
    LET p == Min(pass.todo)
    IN  /\ at = "again"
        /\ \/ /\ Carries(p)
              /\ at' = "judge"
              /\ UNCHANGED <<pass, missed>>
           \/ PassOver(p)
        /\ UNCHANGED <<proc, reaped, refused, late, overdue, newborn, strays, spent>>

\* A carrier is live and to be signalled, or dying, or gone.
JudgeCarrier ==
    LET p == Min(pass.todo)
    IN  /\ at = "judge"
        /\ \/ /\ "run" \in killed_process_state(p)
              /\ at' = "send" /\ pass' = [pass EXCEPT !.live = TRUE]
              /\ UNCHANGED missed
           \/ /\ "doomed" \in killed_process_state(p)
              /\ pass' = [pass EXCEPT !.todo = @ \ {p}, !.pinned = FALSE, !.exiting = TRUE]
              /\ Skip(pass.todo \ {p})
              /\ UNCHANGED missed
           \/ PassOver(p)
        /\ UNCHANGED <<proc, reaped, refused, late, overdue, newborn, strays, spent>>

\* pidfd_send_signal reaches the pinned process only; without pidfds, whatever has the pid.
Send ==
    LET p == Min(pass.todo)
    IN  /\ at = "send"
        /\ Kill(IF pass.pinned \/ ~Pidfd THEN {p} ELSE {}, "scan")
        /\ pass' = [pass EXCEPT !.todo = @ \ {p}, !.pinned = FALSE]
        /\ Skip(pass.todo \ {p})
        /\ UNCHANGED <<reaped, refused, late, overdue, newborn, missed, spent>>

\* A carrier that may not be signalled stays live, and has been counted.
SendRefused ==
    LET p == Min(pass.todo)
    IN  /\ at = "send"
        /\ pass' = [pass EXCEPT !.todo = @ \ {p}, !.pinned = FALSE]
        /\ Skip(pass.todo \ {p})
        /\ UNCHANGED <<proc, reaped, refused, late, overdue, newborn, missed, strays, spent>>

\* Mutant of Verdict: a live carrier never fails the cleanup.
VerdictPatient ==
    /\ at = "verdict" \/ (at = "look" /\ pass.todo = {})
    /\ at' = IF ~pass.live /\ ~pass.exiting THEN "ok"
             ELSE IF ~pass.live /\ pass.overdue THEN "error"
             ELSE "list"
    /\ UNCHANGED <<proc, reaped, refused, pass, late, overdue, newborn, missed, strays, spent>>

Verdict ==
    /\ at = "verdict" \/ (at = "look" /\ pass.todo = {})
    /\ at' = IF ~pass.live /\ ~pass.exiting THEN "ok"
             ELSE IF (IF pass.live THEN pass.late ELSE pass.overdue) THEN "error"
             ELSE "list"
    /\ UNCHANGED <<proc, reaped, refused, pass, late, overdue, newborn, missed, strays, spent>>

\* Time passes.
SurvivorDeadline ==
    /\ ~late /\ at \in {"probe", "members", "list", "look", "pin", "again", "judge", "send", "verdict"}
    /\ late' = TRUE
    /\ UNCHANGED <<proc, reaped, at, refused, pass, overdue, newborn, missed, strays, spent>>

ExitDeadline ==
    /\ ~overdue /\ at \notin {"ok", "error"}
    /\ overdue' = TRUE
    /\ UNCHANGED <<proc, reaped, at, refused, pass, late, newborn, missed, strays, spent>>

Owner ==
    \/ SignalGroup \/ KillRoot \/ ReapRoot \/ (overdue /\ ReapFails)
    \/ ProbeGone \/ ProbeFound \/ LookAtMember \/ MembersTerminated \/ MembersRemain
    \/ List \/ Look \/ Pin \/ LookAgain \/ JudgeCarrier \/ Send \/ Verdict

Processes ==
    \E p \in Pids :
        \/ \E q \in Pids : Forks(p, q)
        \/ Leave(p) \/ Exits(p) \/ Die(p) \/ Reap(p) \/ Appear(p)

TreeNext ==
    \/ Owner
    \/ GroupRefuses \/ RootRefuses \/ ReapFails \/ ProbeFails \/ ListFails \/ SendRefused
    \/ Processes
    \/ SurvivorDeadline \/ ExitDeadline

\* The owner runs and time passes; nothing is assumed of the processes, killed or not.
TreeSpec ==
    /\ TreeInit /\ [][TreeNext]_treeVars
    /\ WF_treeVars(Owner) /\ WF_treeVars(SurvivorDeadline) /\ WF_treeVars(ExitDeadline)

-----------------------------------------------------------------------------

\* A certified cleanup leaves nothing of the tree running, in the group or out of it, that
\* its last pass over /proc could see: what still runs was forked behind the listing, or was
\* passed over because a call about it failed (terminate_descendant_process_tree).
OnlyUnseenSurvive == at = "ok" => Running \subseteq newborn \cup missed

\* The scan never signals a process outside the tree, although a pid may be given to a
\* stranger between any two looks at it ("a recycled pid can never receive the kill").
ScanSparesStrangers == "scan" \notin strays

\* The cleanup comes to an end although a process may never die (the two deadlines).
CleanupReturns == <>(at \in {"ok", "error"})

=============================================================================
