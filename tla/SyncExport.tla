----------------------------- MODULE SyncExport -----------------------------
(***************************************************************************)
(* Export of the run database to a directory of JSONL channels and a       *)
(* manifest, and a replica that follows it by importing what it finds      *)
(* there: export, export_incremental, the compression that may follow, and *)
(* the pinning import, src/src/sync_engine.rs and src/src/sync_input.rs.   *)
(*                                                                         *)
(* The exporter runs under the sync lock of its state root.  The replica   *)
(* belongs to another state root, so it reads the directory at any moment. *)
(* Either may stop anywhere, by an error or by a crash: what it has        *)
(* renamed into place by then stays.                                       *)
(*                                                                         *)
(* A run's aggregate (its row, segments and events) is abstracted to the   *)
(* mutation sequence of its last change, and a checksum to the bytes.      *)
(***************************************************************************)
EXTENDS Naturals

CONSTANTS
    Runs,       \* run ids
    None,       \* no file, no cursor
    MaxSeq,     \* bound on the mutations of the source
    MaxExports  \* bound on the exports begun

ASSUME BoundsAssumption == MaxSeq \in Nat /\ MaxExports \in Nat

VARIABLES
    seq,        \* the last mutation_seq the triggers have assigned
    mutated,    \* sync_run_mutations: the mutation_seq of each run, 0 if it has none
    present,    \* runs with a row in the runs table
    cursor,     \* sync_cursor.json: its last_mutation_seq, or None
    plain, gz,  \* the channels in the directory, as .jsonl and as .jsonl.gz
    manifest,   \* manifest.json, or None
    begun,      \* how many exports have begun
    export,     \* the exporter: where it is, its mode, snapshot and cursor
    pin,        \* the importer: where it is, the manifest it read, what it pinned
    replica,    \* the aggregate of each run in the replica, 0 if it has none
    position,   \* the position of the newest increment the replica has imported
    missed      \* an increment was replaced in the directory before the replica had it

source == <<seq, mutated, present>>
directory == <<plain, gz, manifest>>
target == <<replica, position, missed>>
vars == <<source, cursor, directory, begun, export, pin, target>>

\* The files of an archive in the order they are written and read.  segments and events
\* go through the same calls one after the other and are one channel here.
Channels == <<"runs", "children", "deleted_runs">>
Stems == {Channels[i] : i \in DOMAIN Channels}

\* The channels an export of each mode writes, and those its manifest declares.
Written(mode) == IF mode = "full" THEN Stems \ {"deleted_runs"} ELSE Stems

\* What a file of the archive can be.
Files == [channel : Stems, rows : SUBSET (Runs \X Nat)]
Manifests == [mode : {"full", "incremental"},
              sums : [Written("full") -> Files] \union [Written("incremental") -> Files],
              used : Nat \union {None}, after : Nat]

ASSUME NoneAssumption == None \notin Nat /\ None \notin Files /\ None \notin Manifests

NoFiles == [s \in Stems |-> None]

Init ==
    /\ seq = 0
    /\ mutated = [r \in Runs |-> 0]
    /\ present = {}
    /\ cursor = None
    /\ plain = NoFiles
    /\ gz = NoFiles
    /\ manifest = None
    /\ begun = 0
    /\ export = [at |-> "idle"]
    /\ pin = [at |-> "idle"]
    /\ replica = [r \in Runs |-> 0]
    /\ position = 0
    /\ missed = FALSE

-----------------------------------------------------------------------------
(* The source database.                                                    *)

\* A run, or a segment or event of it, is inserted or updated: a trigger gives the run
\* a new mutation_seq.
Mutate(r) ==
    /\ seq < MaxSeq
    /\ seq' = seq + 1
    /\ mutated' = [mutated EXCEPT ![r] = seq + 1]
    /\ present' = present \union {r}
    /\ UNCHANGED <<begun, cursor, directory, export, pin, target>>

\* A run is deleted: its mutation row stays, with a new mutation_seq.
Delete(r) ==
    /\ r \in present
    /\ seq < MaxSeq
    /\ seq' = seq + 1
    /\ mutated' = [mutated EXCEPT ![r] = seq + 1]
    /\ present' = present \ {r}
    /\ UNCHANGED <<begun, cursor, directory, export, pin, target>>

-----------------------------------------------------------------------------
(* export_inner and export_incremental_inner.                              *)

\* The read snapshot an export works from, with the rows each channel gets from it.
\* after is the cursor position from which the export is incremental.
Snapshot(after) ==
    LET rows == {<<r, mutated[r]>> : r \in {q \in present : mutated[q] > after}}
        tombstones == {<<r, mutated[r]>> : r \in {q \in Runs \ present : mutated[q] > after}}
    IN [s \in Stems |-> [channel |-> s, rows |-> IF s = "deleted_runs" THEN tombstones ELSE rows]]

\* The manifest of an export: its mode, checksums and the cursors before and after it.
Manifest(e) == [mode |-> e.mode, sums |-> [s \in Written(e.mode) |-> e.data[s]],
                used |-> e.used, after |-> e.after]

\* validated_cursor_mutation_seq: a cursor beyond the database's sequence is an error.
CursorIsValid == cursor # None => cursor <= seq

Position(c) == IF c = None THEN 0 ELSE c

\* Mutant of After: the cursor is saved before the manifest is published.
AfterCursorFirst(at, mode) ==
    CASE at = "channel" -> "clean"
      [] at = "clean" -> IF mode = "full" THEN "manifest" ELSE "cursor"
      [] at = "cursor" -> "manifest"
      [] at = "manifest" -> "gzip"

\* The order of an export's parts.
After(at, mode) ==
    CASE at = "channel" -> "clean"
      [] at = "clean" -> "manifest"
      [] at = "manifest" -> IF mode = "full" THEN "gzip" ELSE "cursor"
      [] at = "cursor" -> "gzip"

\* The exporter once its current part, or the current channel of it, is done.
Advance == [export EXCEPT !.at = After(export.at, export.mode), !.i = 1]
AdvanceChannel == IF \E j \in DOMAIN Channels : j > export.i /\ Channels[j] \in Written(export.mode)
                  THEN [export EXCEPT !.i = @ + 1] ELSE Advance

\* Load the cursor and open the read snapshot.  A full export ignores the cursor.
BeginExport(mode, compress) ==
    /\ export.at = "idle"
    /\ begun < MaxExports
    /\ begun' = begun + 1
    /\ mode = "incremental" => CursorIsValid
    /\ LET used == IF mode = "full" THEN None ELSE cursor
       IN export' = [at |-> "channel", mode |-> mode, compress |-> compress, i |-> 1,
                     used |-> used, after |-> seq, data |-> Snapshot(Position(used))]
    /\ UNCHANGED <<source, cursor, directory, pin, target>>

\* Write the next channel to a temporary file and rename it into place.
WriteChannel ==
    /\ export.at = "channel"
    /\ LET s == Channels[export.i]
       IN /\ plain' = [plain EXCEPT ![s] = export.data[s]]
          /\ export' = AdvanceChannel
    /\ UNCHANGED <<begun, source, cursor, gz, manifest, pin, target>>

\* Mutant of RemoveStale: the compressed channels of the last export stay.
RemoveNothing ==
    /\ export.at = "clean"
    /\ export' = AdvanceChannel
    /\ UNCHANGED <<begun, source, cursor, directory, pin, target>>

\* remove_stale_compressed_jsonl, one channel after the other.
RemoveStale ==
    /\ export.at = "clean"
    /\ gz' = [gz EXCEPT ![Channels[export.i]] = None]
    /\ export' = AdvanceChannel
    /\ UNCHANGED <<begun, source, cursor, plain, manifest, pin, target>>

\* The manifest in the directory is of an increment the replica does not have, and the
\* export that replaces it does not repeat it.
Replaces(e) ==
    /\ manifest # None
    /\ manifest.mode = "incremental" /\ manifest.after > position
    /\ e.mode = "incremental" => Position(e.used) > position

\* Publish manifest.json.
PublishManifest ==
    /\ export.at = "manifest"
    /\ manifest' = Manifest(export)
    /\ missed' = (missed \/ Replaces(export))
    /\ export' = Advance
    /\ UNCHANGED <<begun, source, cursor, plain, gz, pin, replica, position>>

\* save_cursor: the high-water mark of the snapshot.
SaveCursor ==
    /\ export.at = "cursor"
    /\ cursor' = export.after
    /\ export' = Advance
    /\ UNCHANGED <<begun, source, directory, pin, target>>

\* gzip_export_files: each channel that is there is compressed, then its plain file removed.
Compress ==
    /\ export.at = "gzip" /\ export.compress /\ export.i \in DOMAIN Channels
    /\ LET s == Channels[export.i]
       IN \/ /\ plain[s] # None /\ gz[s] # plain[s]
             /\ gz' = [gz EXCEPT ![s] = plain[s]]
             /\ UNCHANGED <<plain, export>>
          \/ /\ plain[s] # None /\ gz[s] = plain[s]
             /\ plain' = [plain EXCEPT ![s] = None]
             /\ export' = [export EXCEPT !.i = @ + 1]
             /\ gz' = gz
          \/ /\ plain[s] = None
             /\ export' = [export EXCEPT !.i = @ + 1]
             /\ UNCHANGED <<plain, gz>>
    /\ UNCHANGED <<begun, source, cursor, manifest, pin, target>>

EndExport ==
    /\ export.at = "gzip"
    /\ export.compress => export.i \notin DOMAIN Channels
    /\ export' = [at |-> "idle"]
    /\ UNCHANGED <<begun, source, cursor, directory, pin, target>>

\* An error or a crash.
StopExport ==
    /\ export.at # "idle"
    /\ export' = [at |-> "idle"]
    /\ UNCHANGED <<begun, source, cursor, directory, pin, target>>

-----------------------------------------------------------------------------
(* pin_import and the replay into the replica under overwrite-strict.      *)

\* Read manifest.json.
BeginImport ==
    /\ pin.at = "idle"
    /\ manifest # None
    /\ pin' = [at |-> "pin", m |-> manifest, i |-> 1, data |-> NoFiles]
    /\ UNCHANGED <<begun, source, cursor, directory, export, target>>

\* resolve_jsonl_path: a compressed channel shadows a plain one.
Resolved(s) == IF gz[s] # None THEN gz[s] ELSE plain[s]

\* Mutant of PinChannel: the checksums are not compared.
PinUnchecked ==
    /\ pin.at = "pin"
    /\ LET s == Channels[pin.i]
       IN /\ Resolved(s) # None
          /\ pin' = IF \E j \in DOMAIN Channels : j > pin.i /\ Channels[j] \in Written(pin.m.mode)
                    THEN [pin EXCEPT !.i = @ + 1, !.data[s] = Resolved(s)]
                    ELSE [pin EXCEPT !.at = "replay", !.data[s] = Resolved(s)]
    /\ UNCHANGED <<begun, source, cursor, directory, export, target>>

\* Copy a channel and compare its checksum with the manifest's; a difference is an error.
PinChannel ==
    /\ pin.at = "pin"
    /\ LET s == Channels[pin.i]
       IN /\ Resolved(s) = pin.m.sums[s]
          /\ pin' = IF \E j \in DOMAIN Channels : j > pin.i /\ Channels[j] \in Written(pin.m.mode)
                    THEN [pin EXCEPT !.i = @ + 1, !.data[s] = Resolved(s)]
                    ELSE [pin EXCEPT !.at = "replay", !.data[s] = Resolved(s)]
    /\ UNCHANGED <<begun, source, cursor, directory, export, target>>

\* An error, a crash, or a checksum that differs.
StopImport ==
    /\ pin.at # "idle"
    /\ pin' = [at |-> "idle"]
    /\ UNCHANGED <<begun, source, cursor, directory, export, target>>

Carried == {row[1] : row \in pin.data["runs"].rows}
Tombstones == IF pin.data["deleted_runs"] = None THEN {}
              ELSE {row[1] : row \in pin.data["deleted_runs"].rows}

\* import_tables and apply_deleted_runs, in one transaction.  The replica's position and
\* whether it has missed an increment are for the properties: the code keeps neither.
Replay ==
    /\ pin.at = "replay"
    /\ replica' = [r \in Runs |->
                     IF r \in Carried THEN (CHOOSE row \in pin.data["runs"].rows : row[1] = r)[2]
                     ELSE IF r \in Tombstones THEN 0 ELSE replica[r]]
    /\ position' = IF pin.m.mode = "incremental" THEN pin.m.after ELSE position
    /\ pin' = [at |-> "idle"]
    /\ UNCHANGED <<begun, source, cursor, directory, export, missed>>

-----------------------------------------------------------------------------
Exporter ==
    \/ \E mode \in {"full", "incremental"}, compress \in BOOLEAN : BeginExport(mode, compress)
    \/ WriteChannel \/ RemoveStale \/ PublishManifest \/ SaveCursor \/ Compress \/ EndExport

Importer == BeginImport \/ PinChannel \/ Replay

Next ==
    \/ \E r \in Runs : Mutate(r) \/ Delete(r)
    \/ Exporter \/ StopExport
    \/ Importer \/ StopImport

Spec == Init /\ [][Next]_vars

-----------------------------------------------------------------------------
(* Properties.                                                             *)

\* What an import replays is of one export, however exports, compression, crashes and
\* the reading of the channels interleave: the segments and events are those of the runs,
\* and no run is both carried and deleted (pin_import, import_pinned_inner).
NoTornArchive ==
    pin.at = "replay" =>
        /\ pin.data["children"].rows = pin.data["runs"].rows
        /\ Carried \intersect Tombstones = {}

\* A replica that has imported every increment equals the source in every run that did
\* not change since the newest one, deletions included, although exports stop between any
\* two steps and are repeated (export_incremental_inner, lines 872 to 964).
InSync ==
    ~missed => \A r \in Runs :
        mutated[r] <= position => replica[r] = IF r \in present THEN mutated[r] ELSE 0

\* Between exports, the archive that the newest manifest declares can be imported, unless
\* an export stopped on the way: stale compressed channels never shadow the new ones.
\* (remove_stale_compressed_jsonl, gzip_export_files.)
ArchiveReadable ==
    [][EndExport => \A s \in Written(manifest.mode) : Resolved(s) = manifest.sums[s]]_vars

=============================================================================
