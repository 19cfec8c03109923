------------------------------- MODULE Backup -------------------------------
(***************************************************************************)
(* Database::backup and Database::restore (src/lib.rs) beside the engine.  *)
(* backup() flushes, then copies VERSION, the MANIFEST on disk and the     *)
(* tables that the manifest in memory names, one file after the other; it  *)
(* holds `&mut self', so only the end of the process comes between.        *)
(* restore() reads a copy that nothing else touches: it is the function    *)
(* Restored.  The copies are not fsynced, so the module is about process   *)
(* ends, not about power losses.                                           *)
(***************************************************************************)
EXTENDS LsmProperties

CONSTANTS
    CopyMayFail,   \* whether std::fs::copy may fail
    CallsBefore,   \* bound: calls made before backup() is called
    Missing        \* what is not there: a file, a first backup

\* version::FORMAT_VERSION, what every directory's VERSION holds.
FormatVersion == 1

ASSUME BackupAssumption ==
    /\ CopyMayFail \in BOOLEAN
    /\ CallsBefore \in Nat
    /\ ~PowerLoss
    /\ Missing \notin Manifest \cup Table \cup {Broken, FormatVersion}

VARIABLES
    step,    \* the next step of backup(), or "none"
    todo,    \* local `files': the tables that are still to be copied
    dest,    \* the directory the copy is written to
    saved    \* history: what get returned when backup() returned Ok

backupVars == <<step, todo, dest, saved>>
bvars == <<vars, backupVars>>

-----------------------------------------------------------------------------
(* The copy.                                                               *)

\* A destination: VERSION, MANIFEST and the tables copied so far.
EmptyDest == [version |-> Missing, man |-> Missing, files |-> <<>>]

\* No backup() has returned Ok yet.
NotSaved == Missing

\* MANIFEST is first written when a table is saved or the database is closed:
\* until then it may be missing.
ManifestFile == {disk.man} \cup (IF disk.man = NewManifest THEN {Missing} ELSE {})

TablesToCopyMutant == Range(man.l0)

\* self.manifest.all_ids()
TablesToCopy == AllIds(man)

\* read_version and check_compatible: a directory without VERSION is an old
\* one of version 1, a VERSION cut short does not parse.
Compatible(version) == version \in {Missing, FormatVersion}

\* restore() goes ahead: the version is compatible and MANIFEST exists.
RestoreAccepts(d) == Compatible(d.version) /\ d.man # Missing

\* What restore() writes: MANIFEST and those of its tables that the copy has.
Restored(d) ==
    [man |-> d.man,
     files |-> [i \in AllIds(d.man) \cap DOMAIN d.files |-> d.files[i]]]

-----------------------------------------------------------------------------
(* backup()                                                                *)

StartBackupMutant ==
    /\ step = "none"
    /\ pc = "idle"
    /\ nCalls >= CallsBefore
    /\ CountCall
    /\ step' = "flush"
    /\ UNCHANGED <<pc, cont, local, disk, older, todo, dest, saved>>

\* backup() starts with flush().
StartBackup ==
    /\ step = "none"
    /\ nCalls >= CallsBefore
    /\ Call("flush")
    /\ step' = "flush"
    /\ UNCHANGED <<todo, dest, saved>>

\* A step of that flush(): if it fails, the `?' ends backup().
FlushStep ==
    /\ step = "flush"
    /\ pc # "idle"
    /\ Next
    /\ step' = IF Running' /\ (pc' = "idle" => FlushSucceeds) THEN "flush" ELSE "none"
    /\ UNCHANGED <<todo, dest, saved>>

\* The destination must be empty.
PrepareDest ==
    /\ step = "flush"
    /\ pc = "idle"
    /\ IF dest = EmptyDest
       THEN step' = "version" /\ todo' = TablesToCopy
       ELSE step' = "none" /\ UNCHANGED todo
    /\ UNCHANGED <<vars, dest, saved>>

CopyVersion ==
    /\ step = "version"
    /\ dest' = [dest EXCEPT !.version = FormatVersion]
    /\ step' = "manifest"
    /\ UNCHANGED <<vars, todo, saved>>

CopyManifest ==
    /\ step = "manifest"
    /\ \E m \in ManifestFile : dest' = [dest EXCEPT !.man = m]
    /\ step' = "tables"
    /\ UNCHANGED <<vars, todo, saved>>

CopyTable(id) ==
    /\ step = "tables"
    /\ id \in todo \cap DOMAIN disk.files
    /\ dest' = WithFile(dest, id, disk.files[id])
    /\ todo' = todo \ {id}
    /\ UNCHANGED <<vars, step, saved>>

\* backup() returns Ok.
EndBackup ==
    /\ step = "tables"
    /\ todo = {}
    /\ step' = "none"
    /\ saved' = Current
    /\ UNCHANGED <<vars, todo, dest>>

\* The parts of a destination that may stay after copying the next file failed:
\* what was copied is removed, the file that was being written is not.  An
\* empty MANIFEST loads as that of a new database.
LeftBehind ==
    {EmptyDest} \cup
    (CASE step = "version" -> {[EmptyDest EXCEPT !.version = Broken]}
       [] step = "manifest" -> {[EmptyDest EXCEPT !.man = NewManifest]}
       [] step = "tables" -> {WithFile(EmptyDest, id, Broken) : id \in todo})

\* A file cannot be copied, or a table is not there: backup() returns Err.
CopyFails ==
    /\ step \in {"version", "manifest", "tables"}
    /\ step = "tables" => todo # {}
    /\ CopyMayFail \/ (step = "tables" /\ ~(todo \subseteq DOMAIN disk.files))
    /\ step' = "none"
    /\ todo' = {}
    /\ dest' \in LeftBehind
    /\ UNCHANGED <<vars, saved>>

\* The process ends while backup() runs: the destination stays as it is.
KilledInBackup ==
    /\ step # "none"
    /\ pc = "idle"
    /\ Kill
    /\ step' = "none"
    /\ todo' = {}
    /\ UNCHANGED <<dest, saved>>

\* Any other call of the engine, or a step of one.
EngineStep ==
    /\ step = "none"
    /\ Next
    /\ UNCHANGED backupVars

-----------------------------------------------------------------------------
BInit ==
    /\ Init
    /\ step = "none"
    /\ todo = {}
    /\ dest = EmptyDest
    /\ saved = NotSaved

BNext ==
    \/ StartBackup
    \/ FlushStep
    \/ PrepareDest
    \/ CopyVersion
    \/ CopyManifest
    \/ \E id \in todo : CopyTable(id)
    \/ EndBackup
    \/ CopyFails
    \/ KilledInBackup
    \/ EngineStep

BSpec == BInit /\ [][BNext]_bvars

-----------------------------------------------------------------------------
(* Properties.                                                             *)

\* What opening the restored directory yields: it has no log.
ReadBack(d) == ViewOf(EmptyTable, d.man, d.files)

\* A copy that backup() reported as complete is restored to a directory that
\* opens and reads as the database did then, whatever was flushed, compacted or
\* collected before and since.  Only of a database that never held anything the
\* copy has no MANIFEST, and restore() refuses it (backup, restore,
\* validate_open_state).
BackupsReadBack ==
    saved # NotSaved =>
        IF RestoreAccepts(dest)
        THEN Opens(Restored(dest)) /\ ReadBack(Restored(dest)) = saved
        ELSE dest.man = Missing /\ saved = EmptyTable

\* When backup() returns Ok every crash leaves exactly what is now read: direct
\* writes are durable after backup() as after flush() (backup, put's contract).
BackupDurable == [][EndBackup => Survivors' = {Current'}]_bvars

\* restore() takes nothing that backup() did not report as complete
\* (`a half-finished state is never reported as success': backup, restore).
RestoresOnlyBackups == step = "none" /\ RestoreAccepts(dest) => saved # NotSaved
=============================================================================
