------------------------------ MODULE Restore ------------------------------
(***************************************************************************)
(* Restoring a backup (backupRestoreService.ts): it replaces the uploads,   *)
(* the records in Redis and a skill's or voice's folder, which is shared    *)
(* with every other Batshit on the computer, behind a journal from which an *)
(* error at once, and a start or an Inspect later, undoes or completes it.  *)
(***************************************************************************)
EXTENDS Naturals, FiniteSets

CONSTANTS
  OldFiles, NewFiles,       \* uploads there, and the backup's
  OldKeys, NewKeys,   \* records there, and the backup's
  MaxMishaps,               \* bound of the instance: errors and crashes
  MaxTheirs,                \* bound of the instance: what another Batshit does
  MarkMayBeLost,            \* the save of "redis-replacing" may fail without an effect
  Extracted, NoFolder

ASSUME RestoreAssumption ==
  /\ {MaxMishaps, MaxTheirs} \subseteq Nat /\ MarkMayBeLost \in BOOLEAN
  /\ {Extracted, NoFolder} \cap Nat = {} /\ Extracted # NoFolder

Files == OldFiles \cup NewFiles
Keys == OldKeys \cup NewKeys

\* A folder's identity: the backup's, the one that was there (0), or another Batshit's.
Folders == {NoFolder, Extracted} \cup (0 .. MaxTheirs)

VARIABLES
  step,       \* where the restore, or a recovery, is
  duty,       \* what it is done for: a restore, another request, or a start
  disk,       \* the journal's phase, the files, the records, the folder
  memory,     \* the phase in the process's memory
  captured,   \* the journal's inventory: which uploads and which folder were there
  left,       \* the records this pass has still to write
  reply,      \* what the last restore answered
  mishaps, theirs

restoreVars == <<step, duty, disk, memory, captured, left, reply, mishaps, theirs>>

Phases == { "prepared", "files-old-moved", "files-swapped", "redis-replacing",
            "redis-complete", "rollback-complete" }

RestoreInit ==
  /\ step = "idle" /\ duty = "start" /\ memory = "none" /\ left = {} /\ reply = "none"
  /\ mishaps = 0 /\ theirs = 0
  /\ captured = [files |-> {}, folder |-> NoFolder]
  /\ \E f \in {NoFolder, 0} :
       disk = [ journal |-> "none",
                live |-> [u \in Files |-> IF u \in OldFiles THEN "old" ELSE "none"],
                aside |-> {}, fresh |-> {},
                records |-> [k \in Keys |-> IF k \in OldKeys THEN "old" ELSE "none"],
                folder |-> f, folderFresh |-> NoFolder, folderAside |-> NoFolder, kept |-> NoFolder ]

\* The uploads, the records and the folder are those that were there; or the uploads and
\* the records are the backup's.
AllOld ==
  /\ disk.live = [u \in Files |-> IF u \in OldFiles THEN "old" ELSE "none"]
  /\ disk.records = [k \in Keys |-> IF k \in OldKeys THEN "old" ELSE "none"]
  /\ disk.folder # Extracted /\ disk.folderAside = NoFolder

AllNew ==
  /\ disk.live = [u \in Files |-> IF u \in NewFiles THEN "new" ELSE "none"]
  /\ disk.records = [k \in Keys |-> IF k \in NewKeys THEN "new" ELSE "none"]

-----------------------------------------------------------------------------
(* How a step ends.                                                         *)

\* The steps of the try block, whose errors are undone at once.
Guarded == { "check", "files out", "look out", "folder out", "save moved", "files in",
             "look in", "folder in", "save swapped", "save mark", "delete", "write" }

\* The steps of the undoing, whose errors leave it to a recovery; and of the rest.
Undoing == { "census", "undo records", "rewrite", "undo files", "files back", "undo folder",
             "remove folder", "look back", "folder back", "save undone" }

Steps == Guarded \cup Undoing \cup
         { "idle", "down", "blocked", "save prepared", "save complete", "keep", "clean", "end",
           "undone census", "sweep" }

\* The request fails, and keeps what journal there is; a start that fails serves nobody.
Fails ==
  /\ step' = IF duty = "start" THEN "blocked" ELSE "idle"
  /\ reply' = IF duty = "restore" THEN "failed" ELSE reply

Throws == IF step \in Guarded THEN step' = "census" /\ UNCHANGED reply ELSE Fails

\* A check that does not hold is thrown.
Refuses == Throws /\ UNCHANGED <<disk, mishaps>>

\* A step leaves the disk as next and goes on; or it fails, before or after its effect.
Attempt(next, place) ==
  \/ disk' = next /\ step' = place /\ UNCHANGED <<reply, mishaps>>
  \/ /\ mishaps < MaxMishaps /\ mishaps' = mishaps + 1
     /\ disk' \in {disk, next} /\ Throws

\* A look, or a step with nothing left to do.
GoesTo(place) == Attempt(disk, place)

Plain == UNCHANGED <<duty, memory, captured, left, theirs>>

-----------------------------------------------------------------------------
(* The restore.                                                             *)

\* The backup is extracted beside what it replaces, and what that is, taken down.
\* A restore of a backup that is in already is not modelled.
StagesBackup ==
  LET staged == [disk EXCEPT !.fresh = NewFiles, !.folderFresh = Extracted]
  IN  /\ step = "idle" /\ disk.journal = "none" /\ ~AllNew
      /\ duty' = "restore" /\ memory' = "none"
      /\ captured' = [ files |-> {u \in Files : disk.live[u] # "none"},
                       folder |-> disk.folder ]
      /\ \/ disk' = staged /\ step' = "save prepared" /\ UNCHANGED <<reply, mishaps>>
         \/ /\ mishaps < MaxMishaps /\ mishaps' = mishaps + 1
            /\ disk' = [disk EXCEPT !.fresh = NewFiles]
            /\ step' = "idle" /\ reply' = "failed"
      /\ UNCHANGED <<left, theirs>>

\* saveRestoreJournal: memory is ahead of the disk, whose rename may yet come about
\* when the save fails.
Saves == { <<"save prepared", "prepared", "check">>,
           <<"save moved", "files-old-moved", "files in">>,
           <<"save swapped", "files-swapped", "save mark">>,
           <<"save mark", "redis-replacing", "delete">>,
           <<"save complete", "redis-complete", "keep">>,
           <<"save undone", "rollback-complete", "clean">> }

SavesPhase ==
  \E s \in Saves :
    /\ step = s[1] /\ memory' = s[2]
    /\ Attempt([disk EXCEPT !.journal = s[2]], s[3])
    /\ step = "save mark" /\ ~MarkMayBeLost => disk'.journal = s[2]
    /\ UNCHANGED <<duty, captured, left, theirs>>

\* assertHostFolderUnchanged: the folder is where, and what, the journal says.
Unchanged(live) == disk.folder = live /\ disk.folderFresh = Extracted

\* assertHostFoldersUnchanged, and right before the folder's own move.
Looks ==
  /\ \/ /\ step = "check"
        /\ IF Unchanged(captured.folder) THEN GoesTo("files out") ELSE Refuses
     \/ /\ step = "look out"
        /\ IF captured.folder = NoFolder THEN GoesTo("save moved")
           ELSE IF Unchanged(captured.folder) THEN GoesTo("folder out") ELSE Refuses
     \/ /\ step = "look in"
        /\ IF Unchanged(NoFolder) THEN GoesTo("folder in") ELSE Refuses
  /\ Plain

FilesOut ==
  LET staying == {u \in captured.files : disk.live[u] # "none"}
  IN  /\ step = "files out"
      /\ \/ staying = {} /\ GoesTo("look out")
         \/ \E u \in staying :
              Attempt([disk EXCEPT !.live[u] = "none", !.aside = @ \cup {u}], "files out")
      /\ Plain

\* moveHostOriginalsAside; assertHostNodeAfterRename sees whose folder was moved.
FolderOut ==
  LET moved == [disk EXCEPT !.folder = NoFolder, !.folderAside = disk.folder]
  IN  /\ step = "folder out"
      /\ \/ disk.folder = NoFolder /\ Refuses
         \/ disk.folder = captured.folder /\ Attempt(moved, "save moved")
         \/ /\ disk.folder \notin {NoFolder, captured.folder}
            /\ disk' = moved /\ Throws /\ UNCHANGED mishaps
      /\ Plain

FilesIn ==
  /\ step = "files in"
  /\ \/ disk.fresh = {} /\ GoesTo("look in")
     \/ \E u \in disk.fresh :
          Attempt([disk EXCEPT !.live[u] = "new", !.fresh = @ \ {u}], "files in")
  /\ Plain

\* moveHostReplacementsIn; a folder that is not empty is not renamed over.
FolderIn ==
  /\ step = "folder in"
  /\ \/ disk.folder # NoFolder /\ Refuses
     \/ /\ disk.folder = NoFolder
        /\ Attempt([disk EXCEPT !.folder = Extracted, !.folderFresh = NoFolder], "save swapped")
  /\ Plain

\* Every record goes at once, and the undoing's, those of the plan; then each is written.
RecordsGo ==
  /\ \/ /\ step = "delete" /\ left' = NewKeys
        /\ Attempt([disk EXCEPT !.records = [k \in Keys |-> "none"]], "write")
     \/ /\ step = "undo records" /\ left' = OldKeys
        /\ Attempt([disk EXCEPT !.records = [k \in Keys |->
                      IF k \in NewKeys THEN "none" ELSE @[k]]], "rewrite")
  /\ UNCHANGED <<duty, memory, captured, theirs>>

\* writeRecord: the key is deleted, and then set.
WritesRecord ==
  /\ step \in {"write", "rewrite"}
  /\ \/ /\ left = {} /\ UNCHANGED left
        /\ GoesTo(IF step = "write" THEN "save complete" ELSE "undo files")
     \/ \E k \in left :
          \/ /\ disk.records[k] # "none" /\ UNCHANGED left
             /\ Attempt([disk EXCEPT !.records[k] = "none"], step)
          \/ /\ disk.records[k] = "none" /\ left' = left \ {k}
             /\ Attempt([disk EXCEPT !.records[k] = IF step = "write" THEN "new" ELSE "old"],
                        step)
  /\ UNCHANGED <<duty, memory, captured, theirs>>

-----------------------------------------------------------------------------
(* Undoing it: after an error at once, or from the journal.                 *)

\* A mistake: a folder another Batshit changed before it was moved keeps a start out.
FolderAsTakenDown ==
  IF disk.folderAside = NoFolder THEN disk.folder = captured.folder
  ELSE disk.folderAside = captured.folder /\ disk.folder \in {NoFolder, Extracted}

\* planHostFolderRecovery: the folder is where one of its two identities says, or is
\* one this restore never moved.
FolderVerified ==
  IF captured.folder = NoFolder THEN disk.folderAside = NoFolder
  ELSE IF disk.folderAside = NoFolder THEN disk.folder # Extracted
  ELSE disk.folderAside = captured.folder /\ disk.folder \in {NoFolder, Extracted}

\* A mistake: the uploads alone are undone.
CensusOfFiles ==
  /\ step = "census"
  /\ IF FolderVerified THEN GoesTo("undo files") ELSE Refuses
  /\ Plain

Census ==
  /\ step = "census"
  /\ IF FolderVerified
     THEN GoesTo(IF memory = "redis-replacing" THEN "undo records" ELSE "undo files")
     ELSE Refuses
  /\ Plain

\* restoreUploadTree: every original is found before anything is removed.
FilesVerified ==
  \A u \in captured.files : disk.live[u] = "old" <=> u \notin disk.aside

FilesCensus ==
  /\ step = "undo files"
  /\ IF FilesVerified THEN GoesTo("files back") ELSE Refuses
  /\ Plain

\* What came in goes; and each original that was moved returns to its place.
FilesBack ==
  LET extra == {u \in Files \ captured.files : disk.live[u] # "none"}
  IN  /\ step = "files back"
      /\ \/ extra \cup disk.aside = {} /\ GoesTo("undo folder")
         \/ \E u \in extra \cup disk.aside :
              /\ disk.live[u] # "none" /\ (extra = {} \/ u \in extra)
              /\ Attempt([disk EXCEPT !.live[u] = "none"], "files back")
         \/ \E u \in disk.aside :
              /\ disk.live[u] = "none" /\ extra = {}
              /\ Attempt([disk EXCEPT !.live[u] = "old", !.aside = @ \ {u}], "files back")
      /\ Plain

\* restoreHostFolders: it looks again before it removes the backup's folder, and before
\* it moves the original back.
UndoesFolder ==
  /\ \/ /\ step = "undo folder"
        /\ IF ~FolderVerified THEN Refuses
           ELSE GoesTo(IF disk.folder = Extracted THEN "remove folder" ELSE "look back")
     \/ /\ step = "remove folder"
        /\ Attempt([disk EXCEPT !.folder = NoFolder], "look back")
     \/ /\ step = "look back"
        /\ IF disk.folderAside = NoFolder THEN GoesTo("save undone")
           ELSE IF disk.folder = NoFolder THEN GoesTo("folder back") ELSE Refuses
     \/ /\ step = "folder back"
        /\ IF disk.folder # NoFolder THEN Refuses
           ELSE Attempt([disk EXCEPT !.folder = disk.folderAside, !.folderAside = NoFolder],
                        "save undone")
  /\ Plain

-----------------------------------------------------------------------------
(* Cleaning up.  The journal goes last.                                     *)

\* A mistake: the folder that was replaced goes with the rest.
KeepsNoFolder == step = "keep" /\ GoesTo("clean") /\ Plain

\* keepReplacedHostFolders: the folder that was replaced stays, under another name.
KeepsFolder ==
  /\ step = "keep"
  /\ IF captured.folder \in {NoFolder, disk.folderAside, disk.kept}
     THEN Attempt([disk EXCEPT !.kept = IF disk.folderAside = NoFolder THEN @ ELSE disk.folderAside,
                               !.folderAside = NoFolder], "clean")
     ELSE Refuses
  /\ Plain

\* cleanupRestoreOperation: whatever of it fails, the rest is done.
Cleans ==
  /\ step = "clean"
  /\ \/ Attempt([disk EXCEPT !.aside = {}, !.fresh = {}, !.folderFresh = NoFolder,
                             !.folderAside = NoFolder], "end")
     \/ /\ mishaps < MaxMishaps /\ mishaps' = mishaps + 1 /\ Fails
        /\ \E a \in SUBSET disk.aside, n \in SUBSET disk.fresh :
             disk' = [disk EXCEPT !.aside = a, !.fresh = n, !.folderFresh = NoFolder]
  /\ Plain

\* The journal is removed, and the restore answers; a start sweeps what no journal names.
EndsJournal ==
  /\ step = "end"
  /\ \/ /\ disk' = [disk EXCEPT !.journal = "none"] /\ UNCHANGED mishaps
        /\ step' = IF duty = "start" THEN "sweep" ELSE "idle"
        /\ reply' = IF duty # "restore" THEN reply
                    ELSE IF memory = "redis-complete" THEN "restored" ELSE "failed"
     \/ /\ mishaps < MaxMishaps /\ mishaps' = mishaps + 1
        /\ disk' \in {disk, [disk EXCEPT !.journal = "none"]} /\ Fails
  /\ Plain

-----------------------------------------------------------------------------
(* Recovery, and what may happen to it all.                                 *)

\* recoverRestoreJournals: of a start, before it serves anybody, or of an Inspect.
Recovers(for) ==
  /\ \/ for = "start" /\ step \in {"down", "blocked"}
     \/ for = "inspect" /\ step = "idle" /\ disk.journal # "none"
  /\ duty' = for /\ memory' = disk.journal
  /\ step' = CASE disk.journal = "none" -> "sweep"
               [] disk.journal = "redis-complete" -> "keep"
               [] disk.journal = "rollback-complete" -> "undone census"
               [] OTHER -> "census"
  /\ UNCHANGED <<disk, captured, left, reply, mishaps, theirs>>

UndoneCensus ==
  /\ step = "undone census"
  /\ IF FolderVerified THEN GoesTo("clean") ELSE Refuses
  /\ Plain

\* sweepOrphanedUploadRestoreFolders
Sweeps ==
  /\ step = "sweep"
  /\ Attempt([disk EXCEPT !.fresh = {}], "idle")
  /\ Plain

Crashes ==
  /\ step \notin {"down", "blocked"} /\ mishaps < MaxMishaps /\ mishaps' = mishaps + 1
  /\ step' = "down" /\ memory' = "none" /\ left' = {}
  /\ UNCHANGED <<duty, disk, captured, reply, theirs>>

\* Another Batshit puts a folder of its own there, or deletes the one that is.
OtherBatshit ==
  /\ theirs < MaxTheirs /\ theirs' = theirs + 1
  /\ \E f \in {NoFolder, theirs'} : f # disk.folder /\ disk' = [disk EXCEPT !.folder = f]
  /\ UNCHANGED <<step, duty, memory, captured, left, reply, mishaps>>

Proceeds ==
  \/ SavesPhase \/ Looks \/ FilesOut \/ FolderOut \/ FilesIn \/ FolderIn \/ RecordsGo
  \/ WritesRecord \/ Census \/ FilesCensus \/ FilesBack \/ UndoesFolder \/ KeepsFolder
  \/ Cleans \/ EndsJournal \/ UndoneCensus \/ Sweeps

RestoreNext ==
  \/ StagesBackup \/ Proceeds \/ Recovers("start") \/ Recovers("inspect") \/ Crashes \/ OtherBatshit

RestoreSpec == RestoreInit /\ [][RestoreNext]_restoreVars

\* What is begun is gone on with, and Batshit is started again.
RestoreFairness == WF_restoreVars(Proceeds) /\ WF_restoreVars(Recovers("start"))

-----------------------------------------------------------------------------
(* Properties.                                                              *)

Disks ==
  [ journal : Phases \cup {"none"}, live : [Files -> {"none", "old", "new"}],
    aside : SUBSET OldFiles, fresh : SUBSET NewFiles,
    records : [Keys -> {"none", "old", "new"}],
    folder : Folders, folderFresh : {NoFolder, Extracted},
    folderAside : Folders \ {Extracted}, kept : Folders \ {Extracted} ]

\* The variables' types.
RestoreTypeOK ==
  /\ step \in Steps /\ duty \in {"restore", "inspect", "start"}
  /\ disk \in Disks
  /\ memory \in Phases \cup {"none"}
  /\ captured \in [files : SUBSET Files, folder : Folders] /\ left \subseteq Keys
  /\ reply \in {"none", "failed", "restored"}
  /\ mishaps \in 0 .. MaxMishaps /\ theirs \in 0 .. MaxTheirs

\* Whatever fails or dies where: a restore that no journal is left of replaced all or
\* nothing, one that answered so replaced all, for good; and until all is replaced no
\* upload that was there is lost.
RestoreIsWhole ==
  /\ step = "idle" /\ disk.journal = "none" => AllOld \/ AllNew
  /\ reply = "restored" => AllNew
  /\ AllNew \/ \A u \in OldFiles : disk.live[u] = "old" \/ u \in disk.aside

\* The folders there are that no restore extracted.
FoldersOf(d) == {d.folder, d.folderAside, d.kept} \ {NoFolder, Extracted}

\* A folder the restore did not extract stays somewhere, unless another Batshit deletes
\* it, or put it there after the restore looked and before it removed its own.
FoldersAreKept ==
  [][ \/ FoldersOf(disk) \subseteq FoldersOf(disk') \/ theirs' # theirs
      \/ step = "remove folder" ]_restoreVars

\* However a restore failed or died, Batshit serves again, and again, with nothing of
\* it going on, unless another Batshit took the place of a folder while that was moved
\* aside: then a start refuses, until a person has looked.
PlaceTaken ==
  \/ disk.folderAside \notin {NoFolder, captured.folder}
  \/ disk.folderAside # NoFolder /\ disk.folder \notin {NoFolder, Extracted}

Reopens == []<>(step = "idle" \/ PlaceTaken)
=============================================================================
