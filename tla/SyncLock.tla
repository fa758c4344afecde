------------------------------ MODULE SyncLock ------------------------------
(***************************************************************************)
(* The lock under which exports and imports run: SyncLock in               *)
(* src/src/sync_engine.rs.  Processes contend for one lock file.  An       *)
(* advisory lock on a guard file, which the operating system drops when    *)
(* its holder dies, serialises "check, archive a stale lock, create"; the  *)
(* guard is dropped once the lock file exists, before its payload is in    *)
(* it.  Processes die anywhere, their pids are given out again, and a dead *)
(* process leaves its lock file behind.                                    *)
(*                                                                         *)
(* This is the Linux build: a pid is alive when /proc has it.              *)
(***************************************************************************)
EXTENDS Naturals

CONSTANTS
    Procs,      \* pids
    Nobody,     \* no process
    MaxLocks    \* bound on the lock files ever created: nobody acquires after that

ASSUME ProcsAssumption == Nobody \notin Procs
ASSUME MaxLocksAssumption == MaxLocks \in Nat

VARIABLES
    pc,         \* where each process is in acquire, its operation, or release
    guard,      \* who holds the advisory lock on sync.lock.guard
    file,       \* sync.lock; id 0 when there is none
    created,    \* lock files created so far; their number is their created_at
    lock,       \* the lock file each process has created
    seen        \* the pid each process has read from the lock file

lockVars == <<pc, guard, file, created, lock, seen>>

\* Holding the guard; having created a lock file and not yet given it up.
Guarded == {"check", "inspect", "judge", "archive", "create"}
Holding == {"write", "held", "remove"}

NoFile == [id |-> 0, owner |-> Nobody, written |-> FALSE, old |-> FALSE]

LockInit ==
    /\ pc = [p \in Procs |-> "idle"]
    /\ guard = Nobody
    /\ file = NoFile
    /\ created = 0
    /\ lock = [p \in Procs |-> 0]
    /\ seen = [p \in Procs |-> Nobody]

Goto(p, l) == pc' = [pc EXCEPT ![p] = l]

pid_is_alive(p) == pc[p] # "dead"

-----------------------------------------------------------------------------
(* SyncLock::acquire.                                                      *)

\* Mutant of TakeGuard: nobody waits for the guard.
TakeGuardUnchecked(p) ==
    /\ pc[p] = "idle"
    /\ created < MaxLocks
    /\ guard' = p
    /\ Goto(p, "check")
    /\ UNCHANGED <<file, created, lock, seen>>

\* lock_acquisition_guard.  A contender that waits too long fails and is idle again.
TakeGuard(p) ==
    /\ pc[p] = "idle"
    /\ created < MaxLocks
    /\ guard = Nobody
    /\ guard' = p
    /\ Goto(p, "check")
    /\ UNCHANGED <<file, created, lock, seen>>

\* acquire returns an error: dropping the guard file releases the guard.
GiveUp(p) ==
    /\ guard' = Nobody
    /\ Goto(p, "idle")
    /\ UNCHANGED <<file, created, lock, seen>>

\* path.exists()
CheckExists(p) ==
    /\ pc[p] = "check"
    /\ Goto(p, IF file.id = 0 THEN "create" ELSE "inspect")
    /\ UNCHANGED <<guard, file, created, lock, seen>>

\* Mutant of Inspect: an unreadable lock file is archived at any age.
InspectArchivesYoung(p) ==
    /\ pc[p] = "inspect"
    /\ \/ file.id = 0 /\ GiveUp(p)
       \/ /\ file.id # 0 /\ file.written
          /\ seen' = [seen EXCEPT ![p] = file.owner]
          /\ Goto(p, "judge")
          /\ UNCHANGED <<guard, file, created, lock>>
       \/ /\ file.id # 0 /\ ~file.written
          /\ Goto(p, "archive")
          /\ UNCHANGED <<guard, file, created, lock, seen>>

\* read_lock_info: a file that has gone is an error; a readable one names its pid; an
\* unreadable one is archived when it is older than LOCK_STALE_SECONDS, else an error.
Inspect(p) ==
    /\ pc[p] = "inspect"
    /\ \/ file.id = 0 /\ GiveUp(p)
       \/ /\ file.id # 0 /\ file.written
          /\ seen' = [seen EXCEPT ![p] = file.owner]
          /\ Goto(p, "judge")
          /\ UNCHANGED <<guard, file, created, lock>>
       \/ /\ file.id # 0 /\ ~file.written /\ file.old
          /\ Goto(p, "archive")
          /\ UNCHANGED <<guard, file, created, lock, seen>>
       \/ file.id # 0 /\ ~file.written /\ ~file.old /\ GiveUp(p)

\* is_lock_stale: the age of a readable lock does not count.
Judge(p) ==
    /\ pc[p] = "judge"
    /\ \/ pid_is_alive(seen[p]) /\ GiveUp(p)
       \/ /\ ~pid_is_alive(seen[p])
          /\ Goto(p, "archive")
          /\ UNCHANGED <<guard, file, created, lock, seen>>

\* archive_stale_lock renames whatever is at the path; nothing there is an error.
Archive(p) ==
    /\ pc[p] = "archive"
    /\ \/ file.id = 0 /\ GiveUp(p)
       \/ /\ file.id # 0
          /\ file' = NoFile
          /\ Goto(p, "create")
          /\ UNCHANGED <<guard, created, lock, seen>>

\* create_new, then the guard is dropped.  A file at the path is an error.
Create(p) ==
    /\ pc[p] = "create"
    /\ \/ file.id # 0 /\ GiveUp(p)
       \/ /\ file.id = 0
          /\ created' = created + 1
          /\ file' = [id |-> created + 1, owner |-> p, written |-> FALSE, old |-> FALSE]
          /\ lock' = [lock EXCEPT ![p] = created + 1]
          /\ guard' = Nobody
          /\ Goto(p, "write")
          /\ seen' = seen

\* Any other I/O error before the lock file exists.
AcquireFails(p) == pc[p] \in Guarded /\ GiveUp(p)

\* The payload goes to the file p created, wherever that is by now.
Filled(p) == IF file.id = lock[p]
             THEN [id |-> file.id, owner |-> file.owner, written |-> TRUE, old |-> file.old]
             ELSE file

\* write_all and sync_all succeed.
WritePayload(p) ==
    /\ pc[p] = "write"
    /\ file' = Filled(p)
    /\ Goto(p, "held")
    /\ UNCHANGED <<guard, created, lock, seen>>

\* write_all fails: acquire returns an error and the unreadable file stays.
WriteFails(p) ==
    /\ pc[p] = "write"
    /\ Goto(p, "idle")
    /\ UNCHANGED <<guard, file, created, lock, seen>>

\* sync_all fails: acquire returns an error and the readable file stays.
SyncFails(p) ==
    /\ pc[p] = "write"
    /\ file' = Filled(p)
    /\ Goto(p, "idle")
    /\ UNCHANGED <<guard, created, lock, seen>>

-----------------------------------------------------------------------------
(* SyncLock::release and Drop.                                             *)

\* release_inner removes the file only when it still holds this lock's payload.
ReleaseCheck(p) ==
    /\ pc[p] = "held"
    /\ Goto(p, IF file.id = lock[p] /\ file.written THEN "remove" ELSE "idle")
    /\ UNCHANGED <<guard, file, created, lock, seen>>

\* remove_file removes whatever is at the path by then.
Remove(p) ==
    /\ pc[p] = "remove"
    /\ file' = NoFile
    /\ Goto(p, "idle")
    /\ UNCHANGED <<guard, created, lock, seen>>

\* Reading or removing the file fails and the file stays.  After a failed removal
\* release leaves a second attempt to Drop; after Drop's there is none.
ReleaseFails(p) ==
    /\ \/ pc[p] \in {"held", "remove"} /\ Goto(p, "idle")
       \/ pc[p] = "remove" /\ Goto(p, "held")
    /\ UNCHANGED <<guard, file, created, lock, seen>>

-----------------------------------------------------------------------------
(* The environment.                                                        *)

\* The process dies; the operating system drops its advisory lock.
Crash(p) ==
    /\ pc[p] # "dead"
    /\ guard' = IF guard = p THEN Nobody ELSE guard
    /\ Goto(p, "dead")
    /\ UNCHANGED <<file, created, lock, seen>>

\* The pid is given to a new process.
ReusePid(p) ==
    /\ pc[p] = "dead"
    /\ Goto(p, "idle")
    /\ UNCHANGED <<guard, file, created, lock, seen>>

Aged == [id |-> file.id, owner |-> file.owner, written |-> file.written, old |-> TRUE]

\* LOCK_STALE_SECONDS go by.  A process that lives writes its payload sooner.
Age ==
    /\ file.id # 0
    /\ ~file.old
    /\ \A p \in Procs : pc[p] = "write" => lock[p] # file.id
    /\ file' = Aged
    /\ UNCHANGED <<pc, guard, created, lock, seen>>

Acquire(p) == CheckExists(p) \/ Inspect(p) \/ Judge(p) \/ Archive(p) \/ Create(p)

Proc(p) ==
    \/ TakeGuard(p) \/ Acquire(p) \/ AcquireFails(p) \/ WritePayload(p) \/ WriteFails(p) \/ SyncFails(p)
    \/ ReleaseCheck(p) \/ Remove(p) \/ ReleaseFails(p) \/ Crash(p) \/ ReusePid(p)

LockNext == (\E p \in Procs : Proc(p)) \/ Age

LockSpec == LockInit /\ [][LockNext]_lockVars

-----------------------------------------------------------------------------
(* Properties.                                                             *)

\* Types; the guard belongs to a living process inside acquire.
TypeOK ==
    /\ pc \in [Procs -> {"idle", "dead"} \union Guarded \union Holding]
    /\ guard \in {p \in Procs : pc[p] \in Guarded} \union {Nobody}
    /\ file \in [id : Nat, owner : Procs \union {Nobody}, written : BOOLEAN, old : BOOLEAN]
    /\ created \in Nat
    /\ lock \in [Procs -> Nat]
    /\ seen \in [Procs -> Procs \union {Nobody}]

\* Two processes never run an export or import under the lock at the same time,
\* whatever died, was archived or was released while they were acquiring it.
MutualExclusion ==
    \A p, q \in Procs : pc[p] = "held" /\ pc[q] = "held" => p = q

\* A living process's lock file is never archived by a contender nor removed by
\* another process's late release, from its creation to its own removal.
LiveLockInPlace ==
    \A p \in Procs : pc[p] \in Holding => file.id = lock[p] /\ file.owner = p

=============================================================================
