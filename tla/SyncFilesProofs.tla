-------------------------- MODULE SyncFilesProofs ---------------------------
(***************************************************************************)
(* The files sync works on.  The sync lock excludes for every set of       *)
(* processes and any number of lock files, as long as a living process     *)
(* writes its payload within LOCK_STALE_SECONDS of creating its lock file. *)
(* What an import replays is one whole export, and a replica that imports  *)
(* follows the source, for any number of runs, mutations and exports.      *)
(***************************************************************************)
EXTENDS SyncLock, SyncExport, TLAPS

-----------------------------------------------------------------------------
(* SyncLock.                                                               *)

\* Whoever is between check and create holds the guard.
GuardedHold == \A p \in Procs : pc[p] \in Guarded => guard = p

\* A holder's file is there, and what a contender reads of it depends on the
\* holder's progress: unreadable and young, then readable.
HoldersFile ==
    \A p \in Procs :
        /\ pc[p] \in Holding => lock[p] # 0 /\ file.id = lock[p] /\ file.owner = p
        /\ pc[p] = "write" => ~file.written /\ ~file.old
        /\ pc[p] \in {"held", "remove"} => file.written

\* The pid a contender judges is the owner of the file it would archive.
JudgedIsOwner ==
    \A p \in Procs : pc[p] = "judge" => file.id = 0 \/ file.owner = seen[p]

\* A contender about to archive or create has ruled every holder out.
HoldersRuledOut ==
    \A p, q \in Procs : pc[p] \in {"archive", "create"} => pc[q] \notin Holding

LockInv ==
    /\ TypeOK
    /\ GuardedHold
    /\ HoldersFile
    /\ JudgedIsOwner
    /\ HoldersRuledOut

\* No process has a lock file before the first acquire.
LEMMA LockInitInv == LockInit => LockInv
BY ProcsAssumption
   DEF LockInit, LockInv, TypeOK, GuardedHold, HoldersFile, JudgedIsOwner, HoldersRuledOut,
       Guarded, Holding, NoFile

\* Taking the guard, giving it up and the checks under it leave the file alone.
LEMMA GuardSteps ==
    ASSUME LockInv, NEW p \in Procs, TakeGuard(p) \/ CheckExists(p) \/ AcquireFails(p)
    PROVE  LockInv'
<1> USE ProcsAssumption DEF Guarded, Holding, Goto, GiveUp
<1>1. CASE TakeGuard(p)
  BY <1>1 DEF TakeGuard, LockInv, TypeOK, GuardedHold, HoldersFile, JudgedIsOwner, HoldersRuledOut
<1>2. CASE CheckExists(p)
  BY <1>2 DEF CheckExists, LockInv, TypeOK, GuardedHold, HoldersFile, JudgedIsOwner, HoldersRuledOut
<1>3. CASE AcquireFails(p)
  BY <1>3 DEF AcquireFails, LockInv, TypeOK, GuardedHold, HoldersFile, JudgedIsOwner, HoldersRuledOut
<1> QED
  BY <1>1, <1>2, <1>3

\* Reading and judging the lock: only a lock no living process holds is to be archived.
LEMMA JudgeSteps ==
    ASSUME LockInv, NEW p \in Procs, Inspect(p) \/ Judge(p)
    PROVE  LockInv'
<1> USE ProcsAssumption DEF Guarded, Holding, Goto, GiveUp, pid_is_alive
<1>1. CASE Inspect(p)
  BY <1>1 DEF Inspect, LockInv, TypeOK, GuardedHold, HoldersFile, JudgedIsOwner, HoldersRuledOut
<1>2. CASE Judge(p)
  BY <1>2 DEF Judge, LockInv, TypeOK, GuardedHold, HoldersFile, JudgedIsOwner, HoldersRuledOut
<1> QED
  BY <1>1, <1>2

\* Archiving and creating, with every holder ruled out.
LEMMA FileSteps ==
    ASSUME LockInv, NEW p \in Procs, Archive(p) \/ Create(p)
    PROVE  LockInv'
<1> USE ProcsAssumption DEF Guarded, Holding, Goto, GiveUp, NoFile
<1>1. ASSUME pc[p] \in Guarded, GiveUp(p)
      PROVE  LockInv'
  BY <1>1, GuardSteps DEF AcquireFails
<1>2. CASE pc[p] = "archive" /\ file.id # 0 /\ Archive(p)
  <2>1. /\ file' = NoFile /\ pc' = [pc EXCEPT ![p] = "create"]
        /\ UNCHANGED <<guard, created, lock, seen>>
    BY <1>2 DEF Archive, LockInv
  <2>2. \A q \in Procs : pc[q] \notin Holding
    BY <1>2 DEF LockInv, HoldersRuledOut
  <2>3. TypeOK'
    BY <2>1, <1>2 DEF LockInv, TypeOK
  <2>4. GuardedHold' /\ HoldersFile' /\ JudgedIsOwner' /\ HoldersRuledOut'
    BY <2>1, <2>2, <1>2 DEF LockInv, TypeOK, GuardedHold, HoldersFile, JudgedIsOwner, HoldersRuledOut
  <2> QED
    BY <2>3, <2>4 DEF LockInv
<1>3. CASE pc[p] = "create" /\ file.id = 0 /\ Create(p)
  <2>1. /\ created' = created + 1
        /\ file' = [id |-> created + 1, owner |-> p, written |-> FALSE, old |-> FALSE]
        /\ lock' = [lock EXCEPT ![p] = created + 1]
        /\ guard' = Nobody /\ pc' = [pc EXCEPT ![p] = "write"] /\ seen' = seen
    BY <1>3 DEF Create
  <2>2. \A q \in Procs : pc[q] \notin Holding
    BY <1>3 DEF LockInv, HoldersRuledOut
  <2>3. TypeOK'
    BY <2>1, <1>3 DEF LockInv, TypeOK
  <2>4. \A q \in Procs : q # p => pc'[q] \notin Guarded /\ pc'[q] \notin Holding
    BY <2>1, <2>2, <1>3 DEF LockInv, TypeOK, GuardedHold
  <2>5. pc'[p] = "write" /\ lock'[p] = created + 1 /\ created + 1 # 0
    BY <2>1 DEF LockInv, TypeOK
  <2>6. /\ file'.id = created + 1 /\ file'.owner = p
        /\ ~file'.written /\ ~file'.old
    BY <2>1
  <2>7. GuardedHold' /\ JudgedIsOwner' /\ HoldersRuledOut'
    BY <2>4, <2>5 DEF GuardedHold, JudgedIsOwner, HoldersRuledOut
  <2>8. HoldersFile'
    BY <2>4, <2>5, <2>6 DEF HoldersFile
  <2> QED
    BY <2>3, <2>7, <2>8 DEF LockInv
<1> QED
  BY <1>1, <1>2, <1>3 DEF Archive, Create

\* The steps of the one process that has a lock file.
LEMMA HolderSteps ==
    ASSUME LockInv, NEW p \in Procs,
           \/ WritePayload(p) \/ WriteFails(p) \/ SyncFails(p)
           \/ ReleaseCheck(p) \/ Remove(p) \/ ReleaseFails(p)
    PROVE  LockInv'
<1> USE ProcsAssumption DEF Guarded, Holding, Goto, NoFile, Filled
<1>1. CASE WritePayload(p)
  BY <1>1 DEF WritePayload, LockInv, TypeOK, GuardedHold, HoldersFile, JudgedIsOwner, HoldersRuledOut
<1>2. CASE WriteFails(p)
  BY <1>2 DEF WriteFails, LockInv, TypeOK, GuardedHold, HoldersFile, JudgedIsOwner, HoldersRuledOut
<1>3. CASE SyncFails(p)
  BY <1>3 DEF SyncFails, LockInv, TypeOK, GuardedHold, HoldersFile, JudgedIsOwner, HoldersRuledOut
<1>4. CASE ReleaseCheck(p)
  BY <1>4 DEF ReleaseCheck, LockInv, TypeOK, GuardedHold, HoldersFile, JudgedIsOwner, HoldersRuledOut
<1>5. CASE Remove(p)
  BY <1>5 DEF Remove, LockInv, TypeOK, GuardedHold, HoldersFile, JudgedIsOwner, HoldersRuledOut
<1>6. CASE ReleaseFails(p)
  BY <1>6 DEF ReleaseFails, LockInv, TypeOK, GuardedHold, HoldersFile, JudgedIsOwner, HoldersRuledOut
<1> QED
  BY <1>1, <1>2, <1>3, <1>4, <1>5, <1>6

\* A death, a pid given out again and the passing of time.
LEMMA EnvironmentSteps ==
    ASSUME LockInv, (\E p \in Procs : Crash(p) \/ ReusePid(p)) \/ Age
    PROVE  LockInv'
<1> USE ProcsAssumption DEF Guarded, Holding, Goto
<1>1. ASSUME NEW p \in Procs, Crash(p)
      PROVE  LockInv'
  BY <1>1 DEF Crash, LockInv, TypeOK, GuardedHold, HoldersFile, JudgedIsOwner, HoldersRuledOut
<1>2. ASSUME NEW p \in Procs, ReusePid(p)
      PROVE  LockInv'
  BY <1>2 DEF ReusePid, LockInv, TypeOK, GuardedHold, HoldersFile, JudgedIsOwner, HoldersRuledOut
<1>3. CASE Age
  BY <1>3 DEF Age, Aged, LockInv, TypeOK, GuardedHold, HoldersFile, JudgedIsOwner, HoldersRuledOut
<1> QED
  BY <1>1, <1>2, <1>3

\* The inductive step, action by action.
LEMMA LockNextInv == LockInv /\ [LockNext]_lockVars => LockInv'
<1> SUFFICES ASSUME LockInv, [LockNext]_lockVars
             PROVE  LockInv'
  OBVIOUS
<1>1. ASSUME NEW p \in Procs, Proc(p)
      PROVE  LockInv'
  BY <1>1, GuardSteps, JudgeSteps, FileSteps, HolderSteps, EnvironmentSteps DEF Proc, Acquire
<1>2. CASE Age
  BY <1>2, EnvironmentSteps
<1>3. CASE UNCHANGED lockVars
  BY <1>3 DEF lockVars, LockInv, TypeOK, GuardedHold, HoldersFile, JudgedIsOwner, HoldersRuledOut
<1> QED
  BY <1>1, <1>2, <1>3 DEF LockNext

\* The inductive invariant holds throughout.
THEOREM LockInvariance == LockSpec => []LockInv
BY LockInitInv, LockNextInv, PTL DEF LockSpec

\* Types; in particular the guard never belongs to a dead process nor to one outside
\* acquire, so a crash cannot wedge it.
THEOREM LockTypeCorrect == LockSpec => []TypeOK
<1>1. LockInv => TypeOK
  BY DEF LockInv
<1> QED
  BY <1>1, LockInvariance, PTL

\* For any number of contenders, no living process's lock file is archived or removed
\* by another.
THEOREM LiveLockStays == LockSpec => []LiveLockInPlace
<1>1. LockInv => LiveLockInPlace
  BY DEF LockInv, HoldersFile, LiveLockInPlace
<1> QED
  BY <1>1, LockInvariance, PTL

\* For any number of contenders, crashes, reused pids and stale locks, at most one
\* process runs under the lock.
THEOREM OneHolder == LockSpec => []MutualExclusion
<1>1. LockInv => MutualExclusion
  BY DEF LockInv, HoldersFile, MutualExclusion, Holding
<1> QED
  BY <1>1, LockInvariance, PTL

-----------------------------------------------------------------------------
(* SyncExport.                                                             *)

-----------------------------------------------------------------------------
(* The inductive invariant.                                                *)

Modes == {"full", "incremental"}
Idle == [at |-> "idle"]

\* How many channels an export of the mode writes.
Last(mode) == IF mode = "full" THEN 2 ELSE 3

\* The exporter has not yet, or has, published its manifest.
Unpublished == {"channel", "clean", "manifest"}
Done == {"cursor", "gzip"}

Types ==
    /\ seq \in Nat /\ mutated \in [Runs -> Nat] /\ present \subseteq Runs
    /\ cursor \in Nat \union {None}
    /\ plain \in [Stems -> Files \union {None}] /\ gz \in [Stems -> Files \union {None}]
    /\ replica \in [Runs -> Nat] /\ position \in Nat /\ missed \in BOOLEAN

\* The exporter between its steps.
Exports == [at : Unpublished \union Done, mode : Modes, compress : BOOLEAN, i : 1..4,
            used : Nat \union {None}, after : Nat, data : [Stems -> Files]]

Exporting ==
    \/ export = Idle
    \/ /\ export \in Exports
       /\ export.at \in {"channel", "clean"} => export.i <= Last(export.mode)
       /\ export.at = "cursor" => export.mode = "incremental"

\* The importer between its steps.
Importing ==
    \/ pin = Idle
    \/ /\ pin \in [at : {"pin", "replay"}, m : Manifests, i : 1..3, data : [Stems -> Files \union {None}]]
       /\ pin.i <= Last(pin.m.mode)
       /\ pin.at = "pin" => \A j \in 1..3 :
             pin.data[Channels[j]] = IF j < pin.i THEN pin.m.sums[Channels[j]] ELSE None
       /\ pin.at = "replay" => \A s \in Stems :
             pin.data[s] = IF s \in Written(pin.m.mode) THEN pin.m.sums[s] ELSE None

\* The channels of a manifest belong together.
Whole(m) ==
    /\ m.sums["children"].rows = m.sums["runs"].rows
    /\ m.mode = "incremental" =>
          \A r \in Runs, x, y \in Nat :
              ~(<<r, x>> \in m.sums["runs"].rows /\ <<r, y>> \in m.sums["deleted_runs"].rows)

\* The archive has the source's rows of the runs that did not change since its snapshot.
Current(m, rows, there) ==
    \A r \in Runs, n \in Nat : rows[r] <= m.after =>
        /\ <<r, n>> \in m.sums["runs"].rows <=>
               n = rows[r] /\ n > Position(m.used) /\ r \in there
        /\ m.mode = "incremental" =>
              (<<r, n>> \in m.sums["deleted_runs"].rows <=>
                   n = rows[r] /\ n > Position(m.used) /\ r \notin there)

\* A manifest that an export made of one snapshot of a source.
SoundFor(m, last, rows, there) ==
    /\ m \in Manifests /\ m.sums \in [Written(m.mode) -> Files]
    /\ m.mode = "full" => m.used = None
    /\ m.after <= last
    /\ Whole(m) /\ Current(m, rows, there)

Sound(m) == SoundFor(m, seq, mutated, present)

Archives ==
    /\ export # Idle => Sound(Manifest(export))
    /\ manifest # None => Sound(manifest)
    /\ pin # Idle => Sound(pin.m)

\* Snapshots, manifests, the cursor and the replica's position follow each other.
Ordered ==
    /\ manifest = None => position = 0 /\ cursor = None /\ pin = Idle
    /\ manifest # None => position <= manifest.after /\ Position(cursor) <= manifest.after
    /\ pin # Idle => position <= pin.m.after /\ pin.m.after <= manifest.after
    /\ export # Idle /\ export.at \in Unpublished =>
          /\ manifest # None => manifest.after <= export.after
          /\ export.mode = "incremental" => export.used = cursor
    /\ export # Idle /\ export.at \in Done => manifest = Manifest(export)

\* The replica has everything before the increments it can still see.
Followed ==
    ~missed =>
        /\ manifest = None \/ manifest.mode = "full" => Position(cursor) <= position
        /\ manifest # None /\ manifest.mode = "incremental" => Position(manifest.used) <= position
        /\ pin # Idle /\ pin.m.mode = "incremental" => Position(pin.m.used) <= position

\* The channels in the directory while an export is under way.
LaidOut ==
    export # Idle =>
        /\ export.at = "channel" => \A j \in 1..3 : j < export.i =>
              plain[Channels[j]] = export.data[Channels[j]]
        /\ export.at = "clean" =>
              /\ \A s \in Written(export.mode) : plain[s] = export.data[s]
              /\ \A j \in 1..3 : j < export.i => gz[Channels[j]] = None
        /\ export.at \in {"manifest", "cursor"} =>
              \A s \in Written(export.mode) : plain[s] = export.data[s] /\ gz[s] = None
        /\ export.at = "gzip" =>
              \A s \in Written(export.mode) :
                 Resolved(s) = export.data[s] /\ plain[s] \in {export.data[s], None}

IInv == Types /\ Exporting /\ Importing /\ Archives /\ Ordered /\ Followed /\ LaidOut /\ InSync

-----------------------------------------------------------------------------
(* Facts about the definitions.                                            *)

\* The channels in their order.
LEMMA Names ==
    /\ DOMAIN Channels = 1..3
    /\ Channels[1] = "runs" /\ Channels[2] = "children" /\ Channels[3] = "deleted_runs"
    /\ Stems = {"runs", "children", "deleted_runs"}
    /\ \A j \in 1..3 : Channels[j] \in Stems
    /\ \A s \in Stems : \E j \in 1..3 : s = Channels[j]
    /\ Written("full") = {"runs", "children"} /\ Written("incremental") = Stems
    /\ \A mode \in Modes, j \in 1..3 : Channels[j] \in Written(mode) <=> j <= Last(mode)
    /\ \A j, k \in 1..3 : Channels[j] = Channels[k] => j = k
<1>1. DOMAIN Channels = 1..3 /\ Channels[1] = "runs" /\ Channels[2] = "children" /\ Channels[3] = "deleted_runs"
  BY DEF Channels
<1>2. \A j : j \in 1..3 <=> j = 1 \/ j = 2 \/ j = 3
  OBVIOUS
<1>3. Stems = {"runs", "children", "deleted_runs"}
  BY <1>1, <1>2 DEF Stems
<1>4. Written("full") = {"runs", "children"} /\ Written("incremental") = Stems
  BY <1>3 DEF Written
<1>5. \A mode \in Modes, j \in 1..3 : Channels[j] \in Written(mode) <=> j <= Last(mode)
  BY <1>1, <1>2, <1>3, <1>4 DEF Modes, Last
<1> QED
  BY <1>1, <1>2, <1>3, <1>4, <1>5

\* The exporter after a channel: the next channel, or the next part.
LEMMA ChannelDone ==
    ASSUME Exporting, export.at \in {"channel", "clean"}, export' = AdvanceChannel
    PROVE  /\ Exporting' /\ export' # Idle /\ export # Idle
           /\ Manifest(export)' = Manifest(export)
           /\ UNCHANGED <<export.mode, export.data, export.used, export.after>>
           /\ \/ export'.at = export.at /\ export'.i = export.i + 1
              \/ /\ export.at = "channel" /\ export'.at = "clean" /\ export'.i = 1
                 /\ export.i = Last(export.mode)
              \/ /\ export.at = "clean" /\ export'.at = "manifest"
                 /\ export.i = Last(export.mode)
<1>1. /\ export \in Exports
      /\ export.i <= Last(export.mode) /\ export # Idle /\ export.mode \in Modes /\ export.i \in 1..3
  BY DEF Exporting, Exports, Idle, Last, Modes
<1>2. CASE export.i < Last(export.mode)
  <2>1. export.i + 1 \in 1..3 /\ export.i + 1 <= Last(export.mode)
    BY <1>1, <1>2 DEF Last, Modes
  <2>2. \E j \in DOMAIN Channels : j > export.i /\ Channels[j] \in Written(export.mode)
    BY <1>1, <2>1, Names
  <2>3. export' = [export EXCEPT !.i = export.i + 1]
    BY <2>2 DEF AdvanceChannel
  <2>4. /\ export' \in Exports
        /\ export'.at = export.at /\ export'.i = export.i + 1
        /\ UNCHANGED <<export.mode, export.data, export.used, export.after>>
    BY <1>1, <2>1, <2>3 DEF Exports
  <2>5. export' # Idle
    BY <2>4 DEF Exports, Idle
  <2> QED
    BY <1>1, <2>1, <2>4, <2>5 DEF Exporting, Manifest
<1>3. CASE export.i >= Last(export.mode)
  <2>1. ~\E j \in DOMAIN Channels : j > export.i /\ Channels[j] \in Written(export.mode)
    BY <1>1, <1>3, Names DEF Last
  <2> DEFINE a == After(export.at, export.mode)
  <2>3. a = (IF export.at = "channel" THEN "clean" ELSE "manifest") /\ a \in Unpublished \union Done
    BY DEF After, Unpublished
  <2>2. export' = [export EXCEPT !.at = a, !.i = 1]
    BY <2>1 DEF AdvanceChannel, Advance
  <2> HIDE DEF a
  <2>4. /\ export' \in Exports
        /\ export'.at = a /\ export'.i = 1
        /\ UNCHANGED <<export.mode, export.data, export.used, export.after>>
    <3> DEFINE e == [export EXCEPT !.at = a]
    <3>1. /\ e \in Exports
          /\ e.at = a /\ e.mode = export.mode /\ e.data = export.data /\ e.used = export.used
          /\ e.after = export.after
      BY <1>1, <2>3 DEF Exports
    <3>2. export' = [e EXCEPT !.i = 1]
      BY <2>2
    <3> HIDE DEF e
    <3> QED
      BY <3>1, <3>2 DEF Exports
  <2>5. export' # Idle /\ export.i = Last(export.mode)
    BY <1>1, <1>3, <2>3, <2>4 DEF Exports, Idle, Last
  <2> QED
    BY <1>1, <2>3, <2>4, <2>5 DEF Exporting, Manifest, Last
<1> QED
  BY <1>1, <1>2, <1>3 DEF Last

\* The exporter after the manifest or the cursor.
LEMMA PartDone ==
    ASSUME Exporting, export.at \in {"manifest", "cursor"}, export' = Advance
    PROVE  /\ Exporting' /\ export' # Idle /\ export # Idle
           /\ Manifest(export)' = Manifest(export)
           /\ UNCHANGED <<export.mode, export.data, export.used, export.after>>
           /\ export'.at = IF export.at = "manifest" /\ export.mode = "incremental" THEN "cursor" ELSE "gzip"
<1>1. export \in Exports /\ export # Idle /\ export.mode \in Modes
  BY DEF Exporting, Exports, Idle
<1> DEFINE a == After(export.at, export.mode)
<1>2. a = (IF export.at = "manifest" /\ export.mode = "incremental" THEN "cursor" ELSE "gzip")
      /\ a \in Unpublished \union Done
  BY <1>1 DEF After, Done, Modes
<1>3. export' = [export EXCEPT !.at = a, !.i = 1]
  BY DEF Advance
<1> HIDE DEF a
<1> DEFINE e == [export EXCEPT !.at = a]
<1>4. /\ e \in Exports
      /\ e.at = a /\ e.mode = export.mode /\ e.data = export.data /\ e.used = export.used
      /\ e.after = export.after
  BY <1>1, <1>2 DEF Exports
<1>5. export' = [e EXCEPT !.i = 1]
  BY <1>3
<1> HIDE DEF e
<1>6. export' \in Exports /\ export'.at = a /\ UNCHANGED <<export.mode, export.data, export.used, export.after>>
  BY <1>4, <1>5 DEF Exports
<1>7. export' # Idle
  BY <1>2, <1>6 DEF Idle
<1> QED
  BY <1>1, <1>2, <1>6, <1>7 DEF Exporting, Manifest

\* Idle is when there is nothing under way.
LEMMA IdleIs ==
    ASSUME Exporting, Importing
    PROVE  /\ export.at = "idle" <=> export = Idle
           /\ pin.at = "idle" <=> pin = Idle
           /\ export # Idle => export \in Exports
BY DEF Exporting, Importing, Exports, Idle, Unpublished, Done

\* The manifest of an exporter is one, and has the channels of its snapshot.
LEMMA ManifestShape ==
    ASSUME Exporting, export # Idle
    PROVE  /\ Manifest(export) \in Manifests
           /\ Manifest(export).sums \in [Written(export.mode) -> Files]
           /\ \A s \in Written(export.mode) : Manifest(export).sums[s] = export.data[s]
           /\ Manifest(export).mode = export.mode /\ Manifest(export).after = export.after
           /\ Manifest(export).used = export.used
<1>1. export.mode \in Modes /\ export.used \in Nat \union {None} /\ export.after \in Nat
      /\ export.data \in [Stems -> Files]
  BY DEF Exporting, Exports
<1>2. Written(export.mode) \subseteq Stems
  BY DEF Written
<1>3. Manifest(export).sums \in [Written(export.mode) -> Files]
  BY <1>1, <1>2 DEF Manifest
<1>4. Manifest(export) \in Manifests
  BY <1>1, <1>3 DEF Manifest, Manifests, Modes
<1> QED
  BY <1>3, <1>4 DEF Manifest

-----------------------------------------------------------------------------
(* The steps.                                                              *)

LEMMA InitInv == Init => IInv
<1> SUFFICES ASSUME Init PROVE IInv
  OBVIOUS
<1>1. export = Idle /\ pin = Idle /\ manifest = None /\ position = 0 /\ cursor = None /\ missed = FALSE
  BY DEF Init, Idle
<1>2. Types
  BY DEF Init, Types, NoFiles
<1>3. Exporting /\ Importing /\ Archives /\ LaidOut
  BY <1>1 DEF Exporting, Importing, Archives, LaidOut
<1>4. Ordered /\ Followed
  BY <1>1 DEF Ordered, Followed, Position, Idle
<1>5. InSync
  BY DEF Init, InSync
<1> QED
  BY <1>2, <1>3, <1>4, <1>5 DEF IInv

\* A run that changes leaves every snapshot behind it.
LEMMA SourceStep ==
    ASSUME Types, NEW r \in Runs, Mutate(r) \/ Delete(r), NEW m, Sound(m)
    PROVE  SoundFor(m, seq', mutated', present')
<1>1. /\ seq \in Nat /\ mutated \in [Runs -> Nat] /\ seq' = seq + 1
      /\ mutated' = [mutated EXCEPT ![r] = seq + 1]
      /\ \A q \in Runs : q # r => (q \in present' <=> q \in present)
  BY DEF Types, Mutate, Delete
<1>2. m.after \in Nat /\ m.after <= seq
  BY DEF Sound, SoundFor, Manifests
<1>3. Current(m, mutated', present')
  <2> SUFFICES ASSUME NEW q \in Runs, NEW n \in Nat, mutated'[q] <= m.after
               PROVE  /\ <<q, n>> \in m.sums["runs"].rows <=>
                             n = mutated'[q] /\ n > Position(m.used) /\ q \in present'
                      /\ m.mode = "incremental" =>
                            (<<q, n>> \in m.sums["deleted_runs"].rows <=>
                                 n = mutated'[q] /\ n > Position(m.used) /\ q \notin present')
    BY DEF Current
  <2>1. q # r /\ mutated'[q] = mutated[q]
    BY <1>1, <1>2
  <2> QED
    BY <1>1, <2>1 DEF Sound, SoundFor, Current
<1> QED
  BY <1>1, <1>2, <1>3 DEF Sound, SoundFor

LEMMA SourceInv ==
    ASSUME IInv, NEW r \in Runs, Mutate(r) \/ Delete(r)
    PROVE  IInv'
<1>1. /\ seq' = seq + 1 /\ mutated' = [mutated EXCEPT ![r] = seq + 1] /\ present' \subseteq Runs
      /\ \A q \in Runs : q # r => (q \in present' <=> q \in present)
      /\ UNCHANGED <<cursor, plain, gz, manifest, export, pin, replica, position, missed>>
  BY DEF IInv, Types, Mutate, Delete, directory, target
<1>2. Types'
  BY <1>1 DEF IInv, Types
<1>3. Exporting' /\ Importing' /\ Ordered' /\ Followed'
  BY <1>1 DEF IInv, Exporting, Importing, Ordered, Followed, Manifest
<1>4. LaidOut'
  BY <1>1 DEF IInv, LaidOut, Resolved
<1>5. Archives'
  <2>1. \A m : Sound(m) => SoundFor(m, seq', mutated', present')
    BY SourceStep DEF IInv
  <2>2. Manifest(export)' = Manifest(export)
    BY <1>1 DEF Manifest
  <2> QED
    BY <1>1, <2>1, <2>2 DEF IInv, Archives, Sound
<1>6. InSync'
  <2>1. position <= seq /\ position \in Nat /\ seq \in Nat /\ mutated \in [Runs -> Nat]
    BY DEF IInv, Types, Ordered, Archives, Sound, SoundFor, Manifests
  <2> QED
    BY <1>1, <2>1 DEF IInv, InSync
<1> QED
  BY <1>2, <1>3, <1>4, <1>5, <1>6 DEF IInv

\* What a snapshot holds.
LEMMA SnapshotShape ==
    ASSUME Types, NEW u \in Nat
    PROVE  /\ Snapshot(u) \in [Stems -> Files]
           /\ Snapshot(u)["children"].rows = Snapshot(u)["runs"].rows
           /\ \A r \in Runs, n \in Nat :
                 /\ <<r, n>> \in Snapshot(u)["runs"].rows <=> n = mutated[r] /\ n > u /\ r \in present
                 /\ <<r, n>> \in Snapshot(u)["deleted_runs"].rows <=>
                       n = mutated[r] /\ n > u /\ r \notin present
<1> DEFINE rows == {<<r, mutated[r]>> : r \in {q \in present : mutated[q] > u}}
           tombstones == {<<r, mutated[r]>> : r \in {q \in Runs \ present : mutated[q] > u}}
<1>1. rows \in SUBSET (Runs \X Nat) /\ tombstones \in SUBSET (Runs \X Nat)
  BY DEF Types
<1>2. \A r \in Runs, n \in Nat :
        /\ <<r, n>> \in rows <=> n = mutated[r] /\ n > u /\ r \in present
        /\ <<r, n>> \in tombstones <=> n = mutated[r] /\ n > u /\ r \notin present
  BY DEF Types
<1>3. Snapshot(u) = [s \in Stems |-> [channel |-> s, rows |-> IF s = "deleted_runs" THEN tombstones ELSE rows]]
  BY DEF Snapshot
<1> HIDE DEF rows, tombstones
<1>4. Snapshot(u) \in [Stems -> Files]
  BY <1>1, <1>3 DEF Files
<1>5. Snapshot(u)["children"].rows = rows /\ Snapshot(u)["runs"].rows = rows
      /\ Snapshot(u)["deleted_runs"].rows = tombstones
  BY <1>3, Names
<1> QED
  BY <1>2, <1>4, <1>5

LEMMA BeginExportInv ==
    ASSUME IInv, NEW mode \in Modes, NEW compress \in BOOLEAN, BeginExport(mode, compress)
    PROVE  IInv'
<1> DEFINE used == IF mode = "full" THEN None ELSE cursor
<1>1. /\ export = Idle
      /\ export' = [at |-> "channel", mode |-> mode, compress |-> compress, i |-> 1,
                     used |-> used, after |-> seq, data |-> Snapshot(Position(used))]
      /\ UNCHANGED <<seq, mutated, present, cursor, plain, gz, manifest, pin, replica, position, missed>>
  BY IdleIs DEF IInv, BeginExport, source, directory, target
<1>2. used \in Nat \union {None} /\ Position(used) \in Nat /\ seq \in Nat
  BY DEF IInv, Types, Position
<1> HIDE DEF used
<1>3. Snapshot(Position(used)) \in [Stems -> Files]
  BY <1>2, SnapshotShape DEF IInv
<1>4. /\ export' \in Exports /\ export' # Idle /\ export'.at = "channel" /\ export'.mode = mode
      /\ export'.i = 1 /\ export'.used = used /\ export'.after = seq
      /\ export'.data = Snapshot(Position(used))
  BY <1>1, <1>2, <1>3 DEF Exports, Idle, Unpublished
<1>5. Types' /\ Importing'
  BY <1>1 DEF IInv, Types, Importing
<1>6. Exporting'
  BY <1>4 DEF Exporting, Last, Modes
<1>7. Archives'
  <2>1. Sound(Manifest(export))'
    <3> DEFINE m == Manifest(export)'
    <3>1. /\ m \in Manifests /\ m.sums \in [Written(mode) -> Files]
          /\ \A s \in Written(mode) : m.sums[s] = Snapshot(Position(used))[s]
          /\ m.mode = mode /\ m.after = seq /\ m.used = used
      <4>1. Written(mode) \subseteq Stems
        BY DEF Written
      <4>2. m.sums = [s \in Written(mode) |-> Snapshot(Position(used))[s]]
        BY <1>4 DEF Manifest
      <4>3. m.mode = mode /\ m.after = seq /\ m.used = used
        BY <1>4 DEF Manifest
      <4>4. m.sums \in [Written(mode) -> Files]
        BY <1>3, <4>1, <4>2
      <4>5. m = [mode |-> mode, sums |-> m.sums, used |-> used, after |-> seq]
        BY <1>4 DEF Manifest
      <4>6. m \in Manifests
        BY <1>2, <4>4, <4>5 DEF Manifests, Modes
      <4> QED
        BY <4>2, <4>3, <4>4, <4>6
    <3> HIDE DEF m
    <3>2. "runs" \in Written(mode) /\ "children" \in Written(mode)
          /\ (mode = "incremental" => "deleted_runs" \in Written(mode))
      BY Names DEF Modes
    <3>3. Whole(m)
      BY <1>2, <3>1, <3>2, SnapshotShape DEF Whole, IInv
    <3>4. Current(m, mutated, present)
      BY <1>2, <3>1, <3>2, SnapshotShape DEF Current, IInv
    <3>5. mode = "full" => used = None
      BY DEF used
    <3> QED
      BY <1>1, <1>2, <3>1, <3>3, <3>4, <3>5 DEF Sound, SoundFor, m
  <2> QED
    BY <1>1, <2>1 DEF IInv, Archives, Sound
<1>8. Ordered'
  <2>1. manifest # None => manifest.after <= seq
    BY DEF IInv, Archives, Sound, SoundFor
  <2> QED
    BY <1>1, <1>4, <2>1 DEF IInv, Ordered, Done, used
<1>9. Followed' /\ InSync'
  BY <1>1 DEF IInv, Followed, InSync
<1>10. LaidOut'
  BY <1>4 DEF LaidOut
<1> QED
  BY <1>5, <1>6, <1>7, <1>8, <1>9, <1>10 DEF IInv

\* A channel is written, or a stale compressed one removed.
LEMMA ChannelInv ==
    ASSUME IInv, WriteChannel \/ RemoveStale
    PROVE  IInv'
<1>1. export.at \in {"channel", "clean"} /\ export' = AdvanceChannel
      /\ UNCHANGED <<seq, mutated, present, cursor, manifest, pin, replica, position, missed>>
  BY DEF WriteChannel, RemoveStale, source, target
<1>2. /\ Exporting' /\ export' # Idle /\ export # Idle
      /\ Manifest(export)' = Manifest(export)
      /\ UNCHANGED <<export.mode, export.data, export.used, export.after>>
      /\ \/ export'.at = export.at /\ export'.i = export.i + 1
         \/ /\ export.at = "channel" /\ export'.at = "clean" /\ export'.i = 1
            /\ export.i = Last(export.mode)
         \/ /\ export.at = "clean" /\ export'.at = "manifest"
            /\ export.i = Last(export.mode)
  BY <1>1, ChannelDone DEF IInv
<1>3. export \in Exports /\ export.i \in 1..3 /\ export.i <= Last(export.mode) /\ export.mode \in Modes
      /\ export.data \in [Stems -> Files]
  BY <1>1, <1>2 DEF IInv, Exporting, Exports, Last, Modes
<1> DEFINE c == Channels[export.i]
<1>4. c \in Stems /\ export.data[c] \in Files
  BY <1>3, Names
<1>5. /\ plain' \in [Stems -> Files \union {None}] /\ gz' \in [Stems -> Files \union {None}]
      /\ \A s \in Stems : s # c => plain'[s] = plain[s] /\ gz'[s] = gz[s]
      /\ IF export.at = "channel" THEN plain'[c] = export.data[c] /\ gz' = gz
                                  ELSE gz'[c] = None /\ plain' = plain
  BY <1>4 DEF WriteChannel, RemoveStale, IInv, Types
<1>6. Types' /\ Importing'
  BY <1>1, <1>5 DEF IInv, Types, Importing
<1>7. Archives' /\ Followed' /\ InSync'
  BY <1>1, <1>2 DEF IInv, Archives, Followed, InSync, Sound
<1>8. Ordered'
  BY <1>1, <1>2 DEF IInv, Ordered, Unpublished, Done
<1>9. LaidOut'
  <2>1. /\ \A j \in 1..3 : Channels[j] \in Stems /\ (Channels[j] = c => j = export.i)
        /\ \A j \in 1..3 : Channels[j] \in Written(export.mode) <=> j <= Last(export.mode)
        /\ \A s \in Written(export.mode) : \E j \in 1..3 : s = Channels[j]
    BY <1>3, Names DEF Written
  <2> HIDE DEF c
  <2>2. CASE export.at = "channel"
    <3>1. \A j \in 1..3 : j < export.i + 1 => plain'[Channels[j]] = export.data[Channels[j]]
      BY <1>2, <1>3, <1>5, <2>1, <2>2 DEF IInv, LaidOut, c
    <3>2. CASE export'.at = "channel"
      BY <1>2, <2>2, <3>1, <3>2 DEF LaidOut
    <3>3. CASE export'.at = "clean"
      <4>1. \A s \in Written(export.mode) : plain'[s] = export.data[s]
        BY <1>2, <1>3, <2>1, <2>2, <3>1, <3>3
      <4> QED
        BY <1>2, <2>2, <3>3, <4>1 DEF LaidOut
    <3> QED
      BY <1>2, <2>2, <3>2, <3>3
  <2>3. CASE export.at = "clean"
    <3>1. \A j \in 1..3 : j < export.i + 1 => gz'[Channels[j]] = None
      BY <1>2, <1>3, <1>5, <2>1, <2>3 DEF IInv, LaidOut, c
    <3>2. \A s \in Written(export.mode) : plain'[s] = export.data[s]
      BY <1>2, <1>5, <2>3 DEF IInv, LaidOut
    <3>3. CASE export'.at = "clean"
      BY <1>2, <3>1, <3>2, <3>3 DEF LaidOut
    <3>4. CASE export'.at = "manifest"
      <4>1. \A s \in Written(export.mode) : gz'[s] = None
        BY <1>2, <1>3, <2>1, <2>3, <3>1, <3>4
      <4> QED
        BY <1>2, <3>2, <3>4, <4>1 DEF LaidOut
    <3> QED
      BY <1>2, <2>3, <3>3, <3>4
  <2> QED
    BY <1>1, <2>2, <2>3
<1> QED
  BY <1>2, <1>6, <1>7, <1>8, <1>9 DEF IInv

\* A new manifest: the replica has missed an increment, or has everything before this one.
LEMMA PublishManifestInv ==
    ASSUME IInv, PublishManifest
    PROVE  IInv'
<1>1. /\ export.at = "manifest" /\ export' = Advance /\ manifest' = Manifest(export)
      /\ missed' = (missed \/ Replaces(export))
      /\ UNCHANGED <<seq, mutated, present, cursor, plain, gz, pin, replica, position>>
  BY DEF PublishManifest, source
<1>2. /\ Exporting' /\ export' # Idle /\ export # Idle
      /\ Manifest(export)' = Manifest(export)
      /\ UNCHANGED <<export.mode, export.data, export.used, export.after>>
      /\ export'.at = IF export.mode = "incremental" THEN "cursor" ELSE "gzip"
  BY <1>1, PartDone DEF IInv
<1>3. /\ manifest' \in Manifests /\ manifest' # None
      /\ manifest'.mode = export.mode /\ manifest'.after = export.after /\ manifest'.used = export.used
  BY <1>1, <1>2, ManifestShape, NoneAssumption DEF IInv
<1>4. Types' /\ Importing'
  BY <1>1 DEF IInv, Types, Importing
<1>5. Archives'
  BY <1>1, <1>2 DEF IInv, Archives, Sound
<1>6. /\ position \in Nat /\ cursor \in Nat \union {None} /\ Position(cursor) \in Nat
      /\ export.after \in Nat /\ export.mode \in Modes
      /\ manifest # None => manifest.after \in Nat /\ manifest.mode \in Modes /\ Position(manifest.used) \in Nat
      /\ pin # Idle => pin.m.after \in Nat
  BY <1>2, NoneAssumption DEF IInv, Types, Exporting, Exports, Archives, Sound, SoundFor, Manifests, Modes, Position
<1>7. /\ manifest # None => manifest.after <= export.after
      /\ export.mode = "incremental" => export.used = cursor
  BY <1>1, <1>2 DEF IInv, Ordered, Unpublished
<1>8. Ordered'
  <2>1. position <= export.after /\ Position(cursor) <= export.after
    BY <1>6, <1>7 DEF IInv, Ordered, Position
  <2>2. pin # Idle => manifest # None /\ position <= pin.m.after /\ pin.m.after <= export.after
    BY <1>6, <1>7 DEF IInv, Ordered
  <2> QED
    BY <1>1, <1>2, <1>3, <2>1, <2>2 DEF Ordered, Unpublished, Done
<1>9. Followed'
  <2> SUFFICES ASSUME ~missed' PROVE Position(cursor) <= position
    BY <1>1, <1>3, <1>6, <1>7 DEF IInv, Followed, Modes
  <2>1. ~missed /\ ~Replaces(export)
    BY <1>1
  <2>2. CASE manifest = None \/ manifest.mode = "full"
    BY <2>1, <2>2 DEF IInv, Followed
  <2>3. CASE manifest # None /\ manifest.mode = "incremental"
    BY <1>6, <1>7, <2>1, <2>3 DEF IInv, Ordered, Replaces
  <2> QED
    BY <1>6, <2>2, <2>3 DEF Modes
<1>10. InSync'
  BY <1>1 DEF IInv, InSync
<1>11. LaidOut'
  <2>1. \A s \in Written(export.mode) : plain[s] = export.data[s] /\ gz[s] = None
    BY <1>1, <1>2 DEF IInv, LaidOut
  <2> QED
    BY <1>1, <1>2, <2>1 DEF LaidOut, Resolved
<1> QED
  BY <1>2, <1>4, <1>5, <1>8, <1>9, <1>10, <1>11 DEF IInv

LEMMA SaveCursorInv ==
    ASSUME IInv, SaveCursor
    PROVE  IInv'
<1>1. /\ export.at = "cursor" /\ export' = Advance /\ cursor' = export.after
      /\ UNCHANGED <<seq, mutated, present, plain, gz, manifest, pin, replica, position, missed>>
  BY DEF SaveCursor, source, directory, target
<1>2. /\ Exporting' /\ export' # Idle /\ export # Idle
      /\ Manifest(export)' = Manifest(export)
      /\ UNCHANGED <<export.mode, export.data, export.used, export.after>>
      /\ export'.at = "gzip"
  BY <1>1, PartDone DEF IInv
<1>3. /\ export.mode = "incremental" /\ export.after \in Nat
      /\ manifest = Manifest(export) /\ manifest # None
      /\ manifest.mode = "incremental" /\ manifest.after = export.after
  BY <1>1, <1>2, ManifestShape, NoneAssumption DEF IInv, Exporting, Exports, Ordered, Done
<1>4. Position(cursor') = manifest.after /\ manifest.after \in Nat
  BY <1>1, <1>3, NoneAssumption DEF Position
<1>5. Types' /\ Importing' /\ Archives' /\ InSync'
  BY <1>1, <1>2, <1>3 DEF IInv, Types, Importing, Archives, InSync, Sound
<1>6. Ordered'
  BY <1>1, <1>2, <1>3, <1>4 DEF IInv, Ordered, Unpublished, Done
<1>7. Followed'
  BY <1>1, <1>3 DEF IInv, Followed
<1>8. LaidOut'
  <2>1. \A s \in Written(export.mode) : plain[s] = export.data[s] /\ gz[s] = None
    BY <1>1, <1>2 DEF IInv, LaidOut
  <2> QED
    BY <1>1, <1>2, <2>1 DEF LaidOut, Resolved
<1> QED
  BY <1>2, <1>5, <1>6, <1>7, <1>8 DEF IInv

\* Compression keeps each channel readable: the plain file goes when the other is there.
LEMMA CompressInv ==
    ASSUME IInv, Compress
    PROVE  IInv'
<1>1. /\ export.at = "gzip" /\ export.i \in 1..3
      /\ export' = export \/ export' = [export EXCEPT !.i = export.i + 1]
      /\ UNCHANGED <<seq, mutated, present, cursor, manifest, pin, replica, position, missed>>
  BY Names DEF Compress, source, target
<1>2. export \in Exports /\ export # Idle
  BY <1>1, IdleIs DEF IInv
<1>3. export' \in Exports /\ export' # Idle
      /\ UNCHANGED <<export.at, export.mode, export.data, export.used, export.after>>
  <2>1. export' \in Exports /\ UNCHANGED <<export.at, export.mode, export.data, export.used, export.after>>
    BY <1>1, <1>2 DEF Exports
  <2> QED
    BY <1>1, <2>1 DEF Idle
<1>4. Exporting' /\ Manifest(export)' = Manifest(export)
  BY <1>1, <1>3 DEF Exporting, Manifest
<1> DEFINE c == Channels[export.i]
<1>5. c \in Stems
  BY <1>1, Names
<1>6. /\ plain' \in [Stems -> Files \union {None}] /\ gz' \in [Stems -> Files \union {None}]
      /\ \A s \in Stems : s # c => plain'[s] = plain[s] /\ gz'[s] = gz[s]
      /\ \/ plain[c] # None /\ gz'[c] = plain[c] /\ plain' = plain
         \/ plain[c] # None /\ gz[c] = plain[c] /\ plain'[c] = None /\ gz' = gz
         \/ UNCHANGED <<plain, gz>>
  BY <1>5 DEF Compress, IInv, Types
<1>7. Types' /\ Importing' /\ Archives' /\ Followed' /\ InSync'
  BY <1>1, <1>2, <1>3, <1>4, <1>6 DEF IInv, Types, Importing, Archives, Followed, InSync, Sound
<1>8. Ordered'
  BY <1>1, <1>2, <1>3, <1>4 DEF IInv, Ordered, Unpublished, Done
<1>9. LaidOut'
  <2>1. \A s \in Written(export.mode) : s \in Stems /\ Resolved(s) = export.data[s] /\ plain[s] \in {export.data[s], None}
    BY <1>1, <1>2 DEF IInv, LaidOut, Written
  <2> HIDE DEF c
  <2>2. \A s \in Written(export.mode) : Resolved(s)' = export.data[s] /\ plain'[s] \in {export.data[s], None}
    BY <1>6, <2>1 DEF Resolved
  <2> QED
    BY <1>1, <1>3, <2>2 DEF LaidOut
<1> QED
  BY <1>4, <1>7, <1>8, <1>9 DEF IInv

\* The end of an export, or of an import that stops, leaves nothing to say about it.
LEMMA EndInv ==
    ASSUME IInv, EndExport \/ StopExport \/ StopImport
    PROVE  IInv'
<1>1. /\ UNCHANGED <<seq, mutated, present, cursor, plain, gz, manifest, replica, position, missed>>
      /\ \/ export' = Idle /\ pin' = pin
         \/ pin' = Idle /\ export' = export
  BY DEF EndExport, StopExport, StopImport, Idle, source, directory, target
<1>2. Types' /\ Exporting' /\ Importing' /\ Followed' /\ InSync'
  BY <1>1 DEF IInv, Types, Exporting, Importing, Followed, InSync
<1>3. Archives' /\ Ordered'
  BY <1>1 DEF IInv, Archives, Ordered, Manifest, Sound
<1>4. LaidOut'
  BY <1>1 DEF IInv, LaidOut, Resolved
<1> QED
  BY <1>2, <1>3, <1>4 DEF IInv

LEMMA BeginImportInv ==
    ASSUME IInv, BeginImport
    PROVE  IInv'
<1>1. /\ manifest # None /\ pin' = [at |-> "pin", m |-> manifest, i |-> 1, data |-> NoFiles]
      /\ UNCHANGED <<seq, mutated, present, cursor, plain, gz, manifest, export, replica, position, missed>>
  BY DEF BeginImport, source, directory, target
<1>2. Sound(manifest) /\ manifest \in Manifests /\ manifest.after \in Nat
  BY <1>1 DEF IInv, Archives, Sound, SoundFor, Manifests
<1>3. Importing'
  <2>1. pin' \in [at : {"pin", "replay"}, m : Manifests, i : 1..3, data : [Stems -> Files \union {None}]]
    BY <1>1, <1>2 DEF NoFiles
  <2> QED
    BY <1>1, <2>1, Names DEF Importing, NoFiles, Last
<1>4. Archives'
  BY <1>1, <1>2 DEF IInv, Archives, Sound, Manifest
<1>5. Types' /\ Exporting' /\ Followed' /\ InSync'
  BY <1>1 DEF IInv, Types, Exporting, Followed, InSync
<1>6. Ordered'
  BY <1>1, <1>2 DEF IInv, Ordered, Manifest
<1>7. LaidOut'
  BY <1>1 DEF IInv, LaidOut, Resolved
<1> QED
  BY <1>3, <1>4, <1>5, <1>6, <1>7 DEF IInv

\* A channel is pinned only with the bytes its manifest declares.
LEMMA PinChannelInv ==
    ASSUME IInv, PinChannel
    PROVE  IInv'
<1> DEFINE c == Channels[pin.i]
           more == \E j \in DOMAIN Channels : j > pin.i /\ Channels[j] \in Written(pin.m.mode)
<1>1. /\ pin.at = "pin" /\ Resolved(c) = pin.m.sums[c]
      /\ pin' = IF more THEN [pin EXCEPT !.i = pin.i + 1, !.data[c] = pin.m.sums[c]]
                ELSE [pin EXCEPT !.at = "replay", !.data[c] = pin.m.sums[c]]
      /\ UNCHANGED <<seq, mutated, present, cursor, plain, gz, manifest, export, replica, position, missed>>
  BY DEF PinChannel, source, directory, target
<1>2. /\ pin # Idle
      /\ pin \in [at : {"pin", "replay"}, m : Manifests, i : 1..3, data : [Stems -> Files \union {None}]]
      /\ pin.i <= Last(pin.m.mode)
      /\ \A j \in 1..3 : pin.data[Channels[j]] = IF j < pin.i THEN pin.m.sums[Channels[j]] ELSE None
  BY <1>1 DEF IInv, Importing, Idle
<1>3. /\ pin.m.mode \in Modes /\ pin.m.sums \in [Written(pin.m.mode) -> Files] /\ Sound(pin.m)
      /\ c \in Stems /\ c \in Written(pin.m.mode) /\ pin.m.sums[c] \in Files
  BY <1>2, Names DEF IInv, Archives, Sound, SoundFor, Manifests, Modes
<1>4. more <=> pin.i < Last(pin.m.mode)
  BY <1>2, <1>3, Names DEF Last
<1> DEFINE d == [pin.data EXCEPT ![c] = pin.m.sums[c]]
<1>5. /\ d \in [Stems -> Files \union {None}]
      /\ \A j \in 1..3 : d[Channels[j]] = IF j < pin.i + 1 THEN pin.m.sums[Channels[j]] ELSE None
  BY <1>2, <1>3, Names
<1> HIDE DEF more, c
<1>6. Importing' /\ pin' # Idle /\ pin'.m = pin.m
  <2>1. CASE more
    <3>1. pin' = [pin EXCEPT !.i = pin.i + 1, !.data = d]
      BY <1>1, <2>1
    <3> DEFINE q == [pin EXCEPT !.i = pin.i + 1]
    <3>2. /\ q \in [at : {"pin", "replay"}, m : Manifests, i : 1..3, data : [Stems -> Files \union {None}]]
          /\ q.at = "pin" /\ q.m = pin.m /\ q.i = pin.i + 1
      BY <1>1, <1>2, <1>4, <2>1 DEF Last
    <3>3. pin' = [q EXCEPT !.data = d]
      BY <3>1
    <3> HIDE DEF q, d
    <3>4. /\ pin' \in [at : {"pin", "replay"}, m : Manifests, i : 1..3, data : [Stems -> Files \union {None}]]
          /\ pin'.at = "pin" /\ pin'.m = pin.m /\ pin'.i = pin.i + 1 /\ pin'.data = d
      BY <1>5, <3>2, <3>3
    <3>5. pin.i + 1 <= Last(pin.m.mode)
      BY <1>2, <1>4, <2>1 DEF Last
    <3> QED
      BY <1>5, <3>4, <3>5 DEF Importing, Idle
  <2>2. CASE ~more
    <3>1. pin' = [pin EXCEPT !.at = "replay", !.data = d]
      BY <1>1, <2>2
    <3> DEFINE q == [pin EXCEPT !.at = "replay"]
    <3>2. /\ q \in [at : {"pin", "replay"}, m : Manifests, i : 1..3, data : [Stems -> Files \union {None}]]
          /\ q.at = "replay" /\ q.m = pin.m /\ q.i = pin.i
      BY <1>2
    <3>3. pin' = [q EXCEPT !.data = d]
      BY <3>1
    <3> HIDE DEF q, d
    <3>4. /\ pin' \in [at : {"pin", "replay"}, m : Manifests, i : 1..3, data : [Stems -> Files \union {None}]]
          /\ pin'.at = "replay" /\ pin'.m = pin.m /\ pin'.i = pin.i /\ pin'.data = d
      BY <1>5, <3>2, <3>3
    <3>5. \A s \in Stems : d[s] = IF s \in Written(pin.m.mode) THEN pin.m.sums[s] ELSE None
      <4> SUFFICES ASSUME NEW j \in 1..3
                   PROVE d[Channels[j]] = IF Channels[j] \in Written(pin.m.mode) THEN pin.m.sums[Channels[j]] ELSE None
        BY Names
      <4>1. j < pin.i + 1 <=> Channels[j] \in Written(pin.m.mode)
        BY <1>2, <1>3, <1>4, <2>2, Names DEF Last
      <4> QED
        BY <1>5, <4>1
    <3> QED
      BY <1>2, <3>4, <3>5 DEF Importing, Idle
  <2> QED
    BY <2>1, <2>2
<1>7. Types' /\ Exporting' /\ Followed' /\ InSync'
  BY <1>1, <1>2, <1>6 DEF IInv, Types, Exporting, Followed, InSync
<1>8. Archives' /\ Ordered'
  BY <1>1, <1>2, <1>6 DEF IInv, Archives, Ordered, Manifest, Sound
<1>9. LaidOut'
  BY <1>1 DEF IInv, LaidOut, Resolved
<1> QED
  BY <1>6, <1>7, <1>8, <1>9 DEF IInv

\* What is pinned is of one export.
LEMMA PinnedWhole ==
    ASSUME IInv, pin.at = "replay"
    PROVE  /\ pin # Idle /\ Sound(pin.m) /\ pin.m.mode \in Modes
           /\ pin.data["runs"] = pin.m.sums["runs"] /\ pin.data["children"] = pin.m.sums["children"]
           /\ pin.data["runs"].rows \subseteq Runs \X Nat
           /\ pin.m.mode = "incremental" => /\ pin.data["deleted_runs"] = pin.m.sums["deleted_runs"]
                                            /\ pin.data["deleted_runs"] # None
                                            /\ pin.data["deleted_runs"].rows \subseteq Runs \X Nat
           /\ pin.m.mode = "full" => pin.data["deleted_runs"] = None
           /\ NoTornArchive
<1>1. /\ pin # Idle /\ Sound(pin.m) /\ pin.m.mode \in Modes
      /\ \A s \in Stems : pin.data[s] = IF s \in Written(pin.m.mode) THEN pin.m.sums[s] ELSE None
      /\ pin.m.sums \in [Written(pin.m.mode) -> Files]
  BY DEF IInv, Importing, Archives, Idle, Sound, SoundFor, Manifests, Modes
<1>2. pin.data["runs"] = pin.m.sums["runs"] /\ pin.data["children"] = pin.m.sums["children"]
      /\ pin.data["runs"] \in Files
  BY <1>1, Names DEF Modes
<1>3. pin.m.mode = "incremental" => pin.data["deleted_runs"] = pin.m.sums["deleted_runs"] /\ pin.data["deleted_runs"] \in Files
  BY <1>1, Names
<1>4. pin.m.mode = "full" => pin.data["deleted_runs"] = None
  BY <1>1, Names
<1>5. \A f \in Files : f.rows \subseteq Runs \X Nat
  BY DEF Files
<1>6. NoTornArchive
  <2>1. pin.data["children"].rows = pin.data["runs"].rows
    BY <1>1, <1>2 DEF Sound, SoundFor, Whole
  <2>2. ASSUME NEW r, r \in Carried, r \in Tombstones PROVE FALSE
    <3>1. PICK x \in pin.data["runs"].rows : r = x[1]
      BY <2>2 DEF Carried
    <3>2. pin.m.mode = "incremental"
      BY <1>1, <1>4, <2>2 DEF Tombstones, Modes
    <3>3. PICK y \in pin.data["deleted_runs"].rows : r = y[1]
      BY <1>3, <2>2, <3>2, NoneAssumption DEF Tombstones
    <3>4. x \in Runs \X Nat /\ y \in Runs \X Nat
      BY <1>2, <1>3, <1>5, <3>1, <3>2, <3>3
    <3>5. x = <<r, x[2]>> /\ y = <<r, y[2]>> /\ r \in Runs /\ x[2] \in Nat /\ y[2] \in Nat
      <4>1. x = <<x[1], x[2]>> /\ x[1] \in Runs /\ x[2] \in Nat
        BY <3>4
      <4>2. y = <<y[1], y[2]>> /\ y[2] \in Nat
        BY <3>4
      <4> QED
        BY <3>1, <3>3, <4>1, <4>2
    <3> QED
      BY <1>1, <1>2, <1>3, <3>1, <3>2, <3>3, <3>5 DEF Sound, SoundFor, Whole
  <2> QED
    BY <2>1, <2>2 DEF NoTornArchive
<1> QED
  BY <1>1, <1>2, <1>3, <1>4, <1>5, <1>6, NoneAssumption

\* The replica after an import: what the source has, in all that the archive speaks of.
LEMMA Replayed ==
    ASSUME IInv, Replay, NEW r \in Runs, mutated[r] <= pin.m.after,
           mutated[r] <= Position(pin.m.used) => replica[r] = IF r \in present THEN mutated[r] ELSE 0,
           pin.m.mode = "full" /\ r \notin present => replica[r] = 0
    PROVE  replica'[r] = IF r \in present THEN mutated[r] ELSE 0
<1>1. pin.at = "replay"
  BY DEF Replay
<1>2. /\ pin.data["runs"] = pin.m.sums["runs"] /\ pin.data["runs"].rows \subseteq Runs \X Nat
      /\ Sound(pin.m) /\ pin.m.mode \in Modes
      /\ pin.m.mode = "incremental" => /\ pin.data["deleted_runs"] = pin.m.sums["deleted_runs"]
                                       /\ pin.data["deleted_runs"] # None
                                       /\ pin.data["deleted_runs"].rows \subseteq Runs \X Nat
      /\ pin.m.mode = "full" => pin.data["deleted_runs"] = None
  BY <1>1, PinnedWhole
<1> DEFINE found == CHOOSE row \in pin.data["runs"].rows : row[1] = r
<1>3. replica'[r] = IF r \in Carried THEN found[2]
                   ELSE IF r \in Tombstones THEN 0 ELSE replica[r]
  BY DEF Replay
<1>4. mutated[r] \in Nat /\ Position(pin.m.used) \in Nat
  BY <1>2 DEF IInv, Types, Sound, SoundFor, Manifests, Position
<1>5. /\ \A n \in Nat : <<r, n>> \in pin.data["runs"].rows <=>
             n = mutated[r] /\ n > Position(pin.m.used) /\ r \in present
      /\ pin.m.mode = "incremental" => \A n \in Nat : <<r, n>> \in pin.data["deleted_runs"].rows <=>
             n = mutated[r] /\ n > Position(pin.m.used) /\ r \notin present
  BY <1>2 DEF Sound, SoundFor, Current
<1>6. \A x \in pin.data["runs"].rows : x[1] = r => x = <<r, mutated[r]>> /\ mutated[r] > Position(pin.m.used) /\ r \in present
  <2> TAKE x \in pin.data["runs"].rows
  <2> HAVE x[1] = r
  <2>1. x[2] \in Nat /\ x = <<r, x[2]>>
    BY <1>2
  <2> QED
    BY <1>5, <2>1
<1>7. r \in Carried <=> mutated[r] > Position(pin.m.used) /\ r \in present
  <2>1. ASSUME mutated[r] > Position(pin.m.used), r \in present PROVE r \in Carried
    <3>1. <<r, mutated[r]>> \in pin.data["runs"].rows
      BY <1>4, <1>5, <2>1
    <3> QED
      BY <3>1 DEF Carried
  <2> QED
    BY <1>6, <2>1 DEF Carried
<1>8. CASE r \in Carried
  <2>1. <<r, mutated[r]>> \in pin.data["runs"].rows
    BY <1>4, <1>5, <1>7, <1>8
  <2>2. found = <<r, mutated[r]>>
    BY <1>6, <2>1
  <2> HIDE DEF found
  <2> QED
    BY <1>3, <1>7, <1>8, <2>2
<1>9. CASE r \notin Carried /\ pin.m.mode = "incremental"
  <2>1. r \in Tombstones <=> mutated[r] > Position(pin.m.used) /\ r \notin present
    <3>1. \A y \in pin.data["deleted_runs"].rows : y[1] = r =>
             mutated[r] > Position(pin.m.used) /\ r \notin present
      <4> TAKE y \in pin.data["deleted_runs"].rows
      <4> HAVE y[1] = r
      <4>1. y[2] \in Nat /\ y = <<r, y[2]>>
        BY <1>2, <1>9
      <4> QED
        BY <1>5, <1>9, <4>1
    <3>2. ASSUME mutated[r] > Position(pin.m.used), r \notin present PROVE r \in Tombstones
      <4>1. <<r, mutated[r]>> \in pin.data["deleted_runs"].rows
        BY <1>4, <1>5, <1>9, <3>2
      <4> QED
        BY <1>2, <1>9, <4>1 DEF Tombstones
    <3> QED
      BY <1>2, <1>9, <3>1, <3>2 DEF Tombstones
  <2>2. CASE r \in Tombstones
    BY <1>3, <1>9, <2>1, <2>2
  <2>3. CASE r \notin Tombstones
    <3>1. mutated[r] <= Position(pin.m.used)
      BY <1>4, <1>7, <1>9, <2>1, <2>3
    <3> QED
      BY <1>3, <1>9, <2>3, <3>1
  <2> QED
    BY <2>2, <2>3
<1>10. CASE r \notin Carried /\ pin.m.mode = "full"
  <2>1. r \notin Tombstones
    BY <1>2, <1>10 DEF Tombstones
  <2>2. r \in present => mutated[r] <= Position(pin.m.used)
    BY <1>4, <1>7, <1>10
  <2> QED
    BY <1>3, <1>10, <2>1, <2>2
<1> QED
  BY <1>2, <1>8, <1>9, <1>10 DEF Modes

LEMMA ReplayInv ==
    ASSUME IInv, Replay
    PROVE  IInv'
<1>1. /\ pin.at = "replay" /\ pin' = Idle
      /\ position' = IF pin.m.mode = "incremental" THEN pin.m.after ELSE position
      /\ UNCHANGED <<seq, mutated, present, cursor, plain, gz, manifest, export, missed>>
  BY DEF Replay, Idle, source, directory
<1>2. pin # Idle /\ Sound(pin.m) /\ pin.m.mode \in Modes /\ pin.data["runs"].rows \subseteq Runs \X Nat
  BY <1>1, PinnedWhole
<1>3. /\ pin.m.after \in Nat /\ position \in Nat /\ position <= pin.m.after /\ pin.m.after <= manifest.after
      /\ manifest # None /\ manifest.after \in Nat /\ Position(cursor) \in Nat /\ mutated \in [Runs -> Nat]
      /\ Position(manifest.used) \in Nat /\ Position(pin.m.used) \in Nat
  BY <1>2 DEF IInv, Types, Ordered, Archives, Sound, SoundFor, Manifests, Position
<1>4. position' \in Nat /\ position <= position' /\ position' <= manifest.after
  BY <1>1, <1>3
<1>5. replica' \in [Runs -> Nat]
  <2>1. \A r \in Carried : (CHOOSE row \in pin.data["runs"].rows : row[1] = r)[2] \in Nat
    <3> TAKE r \in Carried
    <3>1. \E row \in pin.data["runs"].rows : row[1] = r
      BY DEF Carried
    <3>2. (CHOOSE row \in pin.data["runs"].rows : row[1] = r) \in pin.data["runs"].rows
      BY <3>1
    <3> QED
      BY <1>2, <3>2
  <2> QED
    BY <2>1 DEF Replay, IInv, Types
<1>6. Types' /\ Exporting' /\ Importing' /\ LaidOut'
  BY <1>1, <1>4, <1>5 DEF IInv, Types, Exporting, Importing, LaidOut, Resolved
<1>7. Archives'
  BY <1>1 DEF IInv, Archives, Manifest, Sound
<1>8. Ordered'
  BY <1>1, <1>3, <1>4 DEF IInv, Ordered, Manifest
<1>9. Followed'
  BY <1>1, <1>3, <1>4 DEF IInv, Followed
<1>10. InSync'
  <2> SUFFICES ASSUME ~missed, NEW r \in Runs, mutated[r] <= position'
               PROVE  replica'[r] = IF r \in present THEN mutated[r] ELSE 0
    BY <1>1 DEF InSync
  <2>1. mutated[r] \in Nat /\ mutated[r] <= pin.m.after
    BY <1>1, <1>3
  <2>2. mutated[r] <= position => replica[r] = IF r \in present THEN mutated[r] ELSE 0
    BY DEF IInv, InSync
  <2>3. CASE pin.m.mode = "incremental"
    <3>1. Position(pin.m.used) <= position
      BY <1>2, <2>3 DEF IInv, Followed
    <3> QED
      BY <1>3, <2>1, <2>2, <2>3, <3>1, Replayed
  <2>4. CASE pin.m.mode = "full"
    <3>1. mutated[r] <= position
      BY <1>1, <2>4
    <3> QED
      BY <2>1, <2>2, <2>4, <3>1, Replayed
  <2> QED
    BY <1>2, <2>3, <2>4 DEF Modes
<1> QED
  BY <1>6, <1>7, <1>8, <1>9, <1>10 DEF IInv

LEMMA NextInv == IInv /\ [Next]_vars => IInv'
<1> SUFFICES ASSUME IInv, [Next]_vars PROVE IInv'
  OBVIOUS
<1>1. CASE UNCHANGED vars
  <2>1. UNCHANGED <<seq, mutated, present, cursor, plain, gz, manifest, export, pin, replica, position, missed>>
    BY <1>1 DEF vars, source, directory, target
  <2>2. Types' /\ Exporting' /\ Importing' /\ Followed' /\ InSync'
    BY <2>1 DEF IInv, Types, Exporting, Importing, Followed, InSync
  <2>3. Archives' /\ Ordered' /\ LaidOut'
    BY <2>1 DEF IInv, Archives, Ordered, Manifest, Sound, LaidOut, Resolved
  <2> QED
    BY <2>2, <2>3 DEF IInv
<1> QED
  BY <1>1, SourceInv, BeginExportInv, ChannelInv, PublishManifestInv, SaveCursorInv, CompressInv,
     EndInv, BeginImportInv, PinChannelInv, ReplayInv DEF Next, Exporter, Importer, Modes

-----------------------------------------------------------------------------
(* The theorems.                                                           *)

THEOREM Invariance == Spec => []IInv
BY InitInv, NextInv, PTL DEF Spec

\* What an import replays is of one export, however many exports, crashes and compressions
\* pass over the directory while it is read (pin_import, import_pinned_inner).
THEOREM ReplayIsOfOneExport == Spec => []NoTornArchive
<1>1. IInv => NoTornArchive
  BY PinnedWhole DEF NoTornArchive
<1> QED
  BY <1>1, Invariance, PTL

\* A replica that imports every increment before it is replaced has every change of the
\* source up to its position, although exports stop anywhere and are repeated
\* (export_incremental_inner).
THEOREM ReplicaFollows == Spec => []InSync
<1>1. IInv => InSync
  BY DEF IInv
<1> QED
  BY <1>1, Invariance, PTL

\* An export that ends leaves an archive that can be imported (remove_stale_compressed_jsonl,
\* gzip_export_files).
THEOREM ArchiveCanBeRead == Spec => ArchiveReadable
<1>1. IInv /\ EndExport => \A s \in Written(manifest.mode) : Resolved(s) = manifest.sums[s]
  <2> SUFFICES ASSUME IInv, EndExport PROVE \A s \in Written(manifest.mode) : Resolved(s) = manifest.sums[s]
    OBVIOUS
  <2>1. export.at = "gzip" /\ export # Idle
    BY DEF EndExport, Idle
  <2>2. manifest = Manifest(export)
    BY <2>1 DEF IInv, Ordered, Done
  <2>3. manifest.mode = export.mode /\ \A s \in Written(export.mode) : manifest.sums[s] = export.data[s]
    BY <2>1, <2>2, ManifestShape DEF IInv
  <2> QED
    BY <2>1, <2>3 DEF IInv, LaidOut
<1> QED
  BY <1>1, Invariance, PTL DEF ArchiveReadable

=============================================================================
