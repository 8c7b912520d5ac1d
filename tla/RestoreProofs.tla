--------------------------- MODULE RestoreProofs ---------------------------
(***************************************************************************)
(* A restore is whole, and loses no folder, whatever fails, dies and is     *)
(* recovered in whatever order, for any uploads, records and number of      *)
(* mishaps.                                                                 *)
(***************************************************************************)
EXTENDS Restore, TLAPS

(* The inductive invariant.                                                 *)

\* The uploads and the records, each as they were or as the backup has them.
LiveIsOld(d) == \A u \in Files : d.live[u] = IF u \in OldFiles THEN "old" ELSE "none"
LiveIsNew(d) == \A u \in Files : d.live[u] = IF u \in NewFiles THEN "new" ELSE "none"
RecordsOld(d) == \A k \in Keys : d.records[k] = IF k \in OldKeys THEN "old" ELSE "none"
RecordsNew(d) == \A k \in Keys : d.records[k] = IF k \in NewKeys THEN "new" ELSE "none"

\* Every upload that was there is in its place or aside, and none that was not.
FilesKept(d) ==
  /\ \A u \in OldFiles : d.live[u] = "old" <=> u \notin d.aside
  /\ \A u \in Files \ OldFiles : d.live[u] # "old"

\* The phases from which a recovery undoes the restore.
Begun == {"prepared", "files-old-moved", "files-swapped", "redis-replacing"}

\* What the journal says of the rest of the disk, whoever died when.
JournalTells(d, c) ==
  /\ d.journal = "none" =>
       /\ d.aside = {} /\ d.folderAside = NoFolder
       /\ \/ LiveIsOld(d) /\ RecordsOld(d) /\ d.folder # Extracted
          \/ LiveIsNew(d) /\ RecordsNew(d)
  /\ d.journal \in Begun =>
       /\ c.files = OldFiles /\ FilesKept(d)
       /\ d.journal # "redis-replacing" => RecordsOld(d)
  /\ d.journal = "redis-complete" => LiveIsNew(d) /\ RecordsNew(d)
  /\ d.journal = "rollback-complete" =>
       LiveIsOld(d) /\ RecordsOld(d) /\ d.folder # Extracted /\ d.folderAside = NoFolder

\* Memory and journal agree on whether the records may have changed.
MarkAgrees(d, m) ==
  /\ d.journal \in Begun /\ m \in Begun
  /\ m = "redis-replacing" <=> d.journal = "redis-replacing"

\* The steps up to the mark; those of the undoing that find the uploads back.
BeforeMark == {"check", "files out", "look out", "folder out", "save moved", "files in",
               "look in", "folder in", "save swapped", "save mark"}
FilesBackAt == {"undo folder", "remove folder", "look back", "folder back", "save undone"}

\* What each step of the restore finds: of the disk d, the inventory c, the step st, the
\* phase m in memory and the records l still to write.
Forward(d, c, st, m, l) ==
  /\ st = "save prepared" =>
       /\ d.journal = "none" /\ c.files = OldFiles /\ d.fresh = NewFiles
       /\ LiveIsOld(d) /\ RecordsOld(d) /\ d.folder # Extracted
  /\ st \in BeforeMark => MarkAgrees(d, m) /\ m # "redis-replacing"
  /\ st \in {"delete", "write"} => MarkAgrees(d, m) /\ m = "redis-replacing"
  /\ st \in {"check", "files out", "look out", "folder out"} => d.folder # Extracted
  /\ st \in {"check", "files out"} => d.fresh = NewFiles /\ \A u \in Files : d.live[u] # "new"
  /\ st \in {"look out", "folder out", "save moved"} =>
       d.fresh = NewFiles /\ d.aside = OldFiles /\ \A u \in Files : d.live[u] = "none"
  /\ st = "files in" =>
       /\ d.aside = OldFiles
       /\ \A u \in Files : d.live[u] = IF u \in NewFiles \ d.fresh THEN "new" ELSE "none"
  /\ st \in {"look in", "folder in", "save swapped", "save mark", "delete", "write", "save complete"} =>
       d.aside = OldFiles /\ LiveIsNew(d)
  /\ st = "write" =>
       /\ l \subseteq NewKeys
       /\ \A k \in Keys \ l : d.records[k] = IF k \in NewKeys THEN "new" ELSE "none"
  /\ st = "save complete" => d.journal = "redis-replacing" /\ RecordsNew(d)

\* What each step of its undoing finds.
Backward(d, c, st, m, l) ==
  /\ st = "census" => MarkAgrees(d, m)
  /\ st \in {"undo records", "rewrite"} => d.journal = "redis-replacing"
  /\ st = "rewrite" =>
       /\ l \subseteq OldKeys
       /\ \A k \in Keys \ l : d.records[k] = IF k \in OldKeys THEN "old" ELSE "none"
  /\ st \in {"undo files", "files back"} \cup FilesBackAt => d.journal \in Begun /\ RecordsOld(d)
  /\ st \in FilesBackAt => LiveIsOld(d)
  /\ st \in {"look back", "folder back", "save undone"} => d.folder # Extracted
  /\ st = "save undone" => d.folderAside = NoFolder

\* What the cleaning up finds: the journal says which way it ended.
Ending(d, c, st, m, l) ==
  /\ st = "keep" => d.journal = "redis-complete" /\ m = "redis-complete"
  /\ st = "undone census" => d.journal = "rollback-complete" /\ m = "rollback-complete"
  /\ st \in {"clean", "end"} => d.journal \in {"redis-complete", "rollback-complete"} /\ m = d.journal
  /\ st = "end" => d.aside = {} /\ d.folderAside = NoFolder
  /\ st = "sweep" => d.journal = "none"

\* Nothing goes on; and a restore that answered so, did so with no journal left.
Resting == {"idle", "down", "blocked", "sweep"}
ReplyIsTrue(d, st, r) ==
  r = "restored" => st \in Resting /\ d.journal = "none" /\ LiveIsNew(d) /\ RecordsNew(d)

RestoreInv ==
  /\ RestoreTypeOK
  /\ JournalTells(disk, captured)
  /\ Forward(disk, captured, step, memory, left)
  /\ Backward(disk, captured, step, memory, left)
  /\ Ending(disk, captured, step, memory, left)
  /\ ReplyIsTrue(disk, step, reply)

-----------------------------------------------------------------------------
(* How a step ends.                                                         *)

\* A step that goes on as it should, or fails where an undoing or a recovery can.
LEMMA Attempts ==
  ASSUME RestoreAssumption, RestoreInv, NEW STATE next, next \in Disks,
         NEW STATE place, place \in Steps, Attempt(next, place), step \notin Resting,
         UNCHANGED <<duty, captured, theirs>>,
         memory' \in Phases \cup {"none"}, left' \subseteq Keys,
         JournalTells(next, captured),
         step \in Guarded => MarkAgrees(disk', memory'),
         Forward(next, captured, place, memory', left'),
         Backward(next, captured, place, memory', left'),
         Ending(next, captured, place, memory', left')
  PROVE  RestoreInv'
<1>1. reply # "restored"
  BY DEF RestoreInv, ReplyIsTrue
<1>2. CASE disk' = next /\ step' = place /\ UNCHANGED <<reply, mishaps>>
  <2>1. RestoreTypeOK'
    BY <1>2 DEF RestoreInv, RestoreTypeOK
  <2>2. JournalTells(disk', captured')
    BY <1>2
  <2>3. /\ Forward(disk', captured', step', memory', left')
        /\ Backward(disk', captured', step', memory', left')
        /\ Ending(disk', captured', step', memory', left')
    BY <1>2
  <2>4. ReplyIsTrue(disk', step', reply')
    BY <1>1, <1>2 DEF ReplyIsTrue
  <2> QED BY <2>1, <2>2, <2>3, <2>4 DEF RestoreInv
<1>3. CASE mishaps < MaxMishaps /\ mishaps' = mishaps + 1 /\ disk' \in {disk, next} /\ Throws
  <2>1. step' \in {"census", "blocked", "idle"} /\ reply' \in {reply, "failed"}
    BY <1>3 DEF Throws, Fails
  <2>2. step' = "census" => MarkAgrees(disk', memory')
    BY <1>3 DEF Throws, Fails
  <2>3. RestoreTypeOK'
    <3>1. step' \in Steps
      BY <2>1 DEF Steps, Undoing
    <3>2. mishaps' \in 0 .. MaxMishaps
      BY <1>3 DEF RestoreInv, RestoreTypeOK, RestoreAssumption
    <3>3. disk' \in Disks
      BY <1>3 DEF RestoreInv, RestoreTypeOK
    <3> QED BY <2>1, <3>1, <3>2, <3>3 DEF RestoreInv, RestoreTypeOK
  <2>4. JournalTells(disk', captured')
    BY <1>3 DEF RestoreInv
  <2>5. Forward(disk', captured', step', memory', left')
    BY <2>1 DEF Forward, BeforeMark
  <2>6. Backward(disk', captured', step', memory', left')
    BY <2>1, <2>2 DEF Backward, FilesBackAt
  <2>7. Ending(disk', captured', step', memory', left')
    BY <2>1 DEF Ending
  <2>8. ReplyIsTrue(disk', step', reply')
    BY <1>1, <2>1 DEF ReplyIsTrue
  <2> QED BY <2>3, <2>4, <2>5, <2>6, <2>7, <2>8 DEF RestoreInv
<1> QED BY <1>2, <1>3 DEF Attempt

\* The same of a step that changes the disk alone, and of one that changes nothing.
LEMMA Moving ==
  ASSUME RestoreAssumption, RestoreInv, NEW STATE next, next \in Disks,
         NEW STATE place, place \in Steps,
         Attempt(next, place), step \notin Resting, Plain,
         JournalTells(next, captured),
         step \in Guarded => MarkAgrees(disk, memory) /\ MarkAgrees(next, memory),
         Forward(next, captured, place, memory, left),
         Backward(next, captured, place, memory, left),
         Ending(next, captured, place, memory, left)
  PROVE  RestoreInv'
<1>1. /\ UNCHANGED <<duty, captured, theirs>>
      /\ memory' = memory /\ left' = left /\ disk' \in {disk, next}
  BY DEF Plain, Attempt
<1>2. memory \in Phases \cup {"none"} /\ left \subseteq Keys
  BY DEF RestoreInv, RestoreTypeOK
<1>3. /\ Forward(next, captured, place, memory', left')
      /\ Backward(next, captured, place, memory', left')
      /\ Ending(next, captured, place, memory', left')
  BY <1>1
<1>4. step \in Guarded => MarkAgrees(disk', memory')
  BY <1>1
<1> QED BY <1>1, <1>2, <1>3, <1>4, Attempts

LEMMA Going ==
  ASSUME RestoreAssumption, RestoreInv, NEW STATE place, place \in Steps,
         GoesTo(place), step \notin Resting, Plain,
         step \in Guarded => MarkAgrees(disk, memory),
         Forward(disk, captured, place, memory, left),
         Backward(disk, captured, place, memory, left),
         Ending(disk, captured, place, memory, left)
  PROVE  RestoreInv'
<1>1. Attempt(disk, place)
  BY DEF GoesTo
<1>2. disk \in Disks /\ JournalTells(disk, captured)
  BY DEF RestoreInv, RestoreTypeOK
<1> QED BY <1>1, <1>2, Moving

\* A step that is refused, or breaks off with part of its effect.
LEMMA Refusals ==
  ASSUME RestoreAssumption, RestoreInv, Throws, step \notin Resting, Plain,
         disk' \in Disks, mishaps' \in 0 .. MaxMishaps, JournalTells(disk', captured),
         step \in Guarded => MarkAgrees(disk', memory)
  PROVE  RestoreInv'
<1>1. reply # "restored"
  BY DEF RestoreInv, ReplyIsTrue
<1>2. step' \in {"census", "blocked", "idle"} /\ reply' \in {reply, "failed"}
  BY DEF Throws, Fails
<1>3. step' = "census" => MarkAgrees(disk', memory')
  BY DEF Throws, Fails, Plain
<1>4. RestoreTypeOK'
  BY <1>2 DEF RestoreInv, RestoreTypeOK, Plain, Steps, Guarded, Undoing
<1>5. JournalTells(disk', captured')
  BY DEF Plain
<1>6. Forward(disk', captured', step', memory', left')
  BY <1>2 DEF Forward, BeforeMark
<1>7. Backward(disk', captured', step', memory', left')
  BY <1>2, <1>3 DEF Backward, FilesBackAt
<1>8. Ending(disk', captured', step', memory', left')
  BY <1>2 DEF Ending
<1>9. ReplyIsTrue(disk', step', reply')
  BY <1>1, <1>2 DEF ReplyIsTrue
<1> QED BY <1>4, <1>5, <1>6, <1>7, <1>8, <1>9 DEF RestoreInv

LEMMA Refusing ==
  ASSUME RestoreAssumption, RestoreInv, Refuses, step \notin Resting, Plain,
         step \in Guarded => MarkAgrees(disk, memory)
  PROVE  RestoreInv'
<1>1. Throws /\ disk' = disk /\ mishaps' = mishaps
  BY DEF Refuses
<1>2. disk \in Disks /\ mishaps \in 0 .. MaxMishaps /\ JournalTells(disk, captured)
  BY DEF RestoreInv, RestoreTypeOK
<1>3. disk' \in Disks /\ mishaps' \in 0 .. MaxMishaps /\ JournalTells(disk', captured)
  BY <1>1, <1>2
<1>4. step \in Guarded => MarkAgrees(disk', memory)
  BY <1>1
<1> QED BY <1>1, <1>3, <1>4, Refusals

-----------------------------------------------------------------------------
(* The restore's steps.                                                     *)

LEMMA FilesOutKeeps ==
  ASSUME RestoreAssumption, RestoreInv, FilesOut
  PROVE  RestoreInv'
<1>1. /\ step = "files out" /\ step \notin Resting /\ Plain
      /\ disk \in Disks
  BY DEF FilesOut, RestoreInv, RestoreTypeOK, Resting
<1>2. /\ MarkAgrees(disk, memory) /\ memory # "redis-replacing"
      /\ disk.fresh = NewFiles /\ disk.folder # Extracted
      /\ \A u \in Files : disk.live[u] # "new"
  BY <1>1 DEF RestoreInv, Forward, BeforeMark
<1>3. /\ disk.journal \in Begun \ {"redis-replacing"} /\ captured.files = OldFiles
      /\ FilesKept(disk) /\ RecordsOld(disk)
  BY <1>2 DEF RestoreInv, JournalTells, MarkAgrees
<1>4. CASE GoesTo("look out") /\ \A u \in OldFiles : disk.live[u] = "none"
  <2>1. disk.aside \subseteq OldFiles /\ \A u \in Files : disk.live[u] \in {"none", "old", "new"}
    BY <1>1 DEF Disks
  <2>2. disk.aside = OldFiles
    BY <1>3, <1>4, <2>1 DEF FilesKept
  <2>3. \A u \in Files : disk.live[u] = "none"
    BY <1>2, <1>3, <1>4, <2>1 DEF FilesKept
  <2>4. Forward(disk, captured, "look out", memory, left)
    BY <1>2, <2>2, <2>3 DEF Forward, BeforeMark
  <2>5. Backward(disk, captured, "look out", memory, left)
    BY DEF Backward, FilesBackAt
  <2>6. Ending(disk, captured, "look out", memory, left)
    BY DEF Ending
  <2>7. "look out" \in Steps
    BY DEF Steps, Guarded
  <2> QED BY <1>1, <1>2, <1>4, <2>4, <2>5, <2>6, <2>7, Going
<1>5. ASSUME NEW u \in OldFiles, disk.live[u] # "none",
             Attempt([disk EXCEPT !.live[u] = "none", !.aside = @ \cup {u}], "files out")
      PROVE  RestoreInv'
  <2> DEFINE next == [disk EXCEPT !.live[u] = "none", !.aside = @ \cup {u}]
  <2>1. /\ next \in Disks /\ next.aside = disk.aside \cup {u}
        /\ next.journal = disk.journal /\ next.fresh = disk.fresh
        /\ next.records = disk.records /\ next.folder = disk.folder
        /\ \A v \in Files : next.live[v] = IF v = u THEN "none" ELSE disk.live[v]
    BY <1>1 DEF Disks, Files
  <2>2. Attempt(next, "files out")
    BY <1>5
  <2> HIDE DEF next
  <2>3. FilesKept(next)
    BY <1>3, <2>1 DEF FilesKept, Files
  <2>4. RecordsOld(next) /\ MarkAgrees(next, memory)
    BY <1>2, <1>3, <2>1 DEF RecordsOld, MarkAgrees
  <2>5. JournalTells(next, captured)
    BY <1>3, <2>1, <2>3, <2>4 DEF JournalTells, Begun
  <2>6. Forward(next, captured, "files out", memory, left)
    BY <1>2, <2>1, <2>4 DEF Forward, BeforeMark
  <2>7. Backward(next, captured, "files out", memory, left)
    BY DEF Backward, FilesBackAt
  <2>8. Ending(next, captured, "files out", memory, left)
    BY DEF Ending
  <2>9. "files out" \in Steps
    BY DEF Steps, Guarded
  <2> QED BY <1>1, <1>2, <2>1, <2>2, <2>4, <2>5, <2>6, <2>7, <2>8, <2>9, Moving
<1> QED BY <1>1, <1>3, <1>4, <1>5 DEF FilesOut

LEMMA OneOfSix ==
  ASSUME NEW s, NEW a, NEW b, NEW c, NEW d, NEW e, NEW f, s \in {a, b, c, d, e, f}
  PROVE  s = a \/ s = b \/ s = c \/ s = d \/ s = e \/ s = f
OBVIOUS

LEMMA SavesPhaseKeeps ==
  ASSUME RestoreAssumption, RestoreInv, SavesPhase, ~MarkMayBeLost
  PROVE  RestoreInv'
<1>0. PICK s \in Saves :
        /\ step = s[1] /\ memory' = s[2]
        /\ Attempt([disk EXCEPT !.journal = s[2]], s[3])
        /\ step = "save mark" /\ ~MarkMayBeLost => disk'.journal = s[2]
        /\ UNCHANGED <<duty, captured, left, theirs>>
  BY DEF SavesPhase
<1> DEFINE next == [disk EXCEPT !.journal = s[2]]
<1>1. s[2] \in Phases /\ disk \in Disks /\ step \notin Resting
  <2>1. s[2] \in Phases /\ s[1] \notin Resting
    <3>1. CASE s = <<"save prepared", "prepared", "check">>
      BY <3>1 DEF Phases, Resting
    <3>2. CASE s = <<"save moved", "files-old-moved", "files in">>
      BY <3>2 DEF Phases, Resting
    <3>3. CASE s = <<"save swapped", "files-swapped", "save mark">>
      BY <3>3 DEF Phases, Resting
    <3>4. CASE s = <<"save mark", "redis-replacing", "delete">>
      BY <3>4 DEF Phases, Resting
    <3>5. CASE s = <<"save complete", "redis-complete", "keep">>
      BY <3>5 DEF Phases, Resting
    <3>6. CASE s = <<"save undone", "rollback-complete", "clean">>
      BY <3>6 DEF Phases, Resting
    <3> QED BY Zenon, OneOfSix, <3>1, <3>2, <3>3, <3>4, <3>5, <3>6 DEF Saves
  <2>2. disk \in Disks
    BY DEF RestoreInv, RestoreTypeOK
  <2> QED BY <1>0, <2>1, <2>2
<1>2. /\ next \in Disks /\ next.journal = s[2]
      /\ next.live = disk.live /\ next.records = disk.records /\ next.aside = disk.aside
      /\ next.fresh = disk.fresh /\ next.folder = disk.folder
      /\ next.folderAside = disk.folderAside
  BY <1>1 DEF Disks
<1>3. Attempt(next, s[3]) /\ disk' \in {disk, next}
  BY <1>0 DEF Attempt
<1> HIDE DEF next
<1>4. /\ memory' = s[2] /\ s[2] \in Phases \cup {"none"} /\ left' = left /\ left \subseteq Keys
      /\ UNCHANGED <<duty, captured, theirs>>
  BY <1>0, <1>1 DEF RestoreInv, RestoreTypeOK
<1>5. CASE s = <<"save prepared", "prepared", "check">>
  <2>1. s[1] = "save prepared" /\ s[2] = "prepared" /\ s[3] = "check" /\ step = "save prepared"
    BY <1>0, <1>5
  <2>2. /\ disk.journal = "none" /\ captured.files = OldFiles /\ disk.fresh = NewFiles
        /\ LiveIsOld(disk) /\ RecordsOld(disk) /\ disk.folder # Extracted
    BY <2>1 DEF RestoreInv, Forward
  <2>3. disk.aside = {}
    BY <2>2 DEF RestoreInv, JournalTells
  <2>4. FilesKept(next) /\ RecordsOld(next) /\ MarkAgrees(next, s[2])
    BY <1>2, <2>1, <2>2, <2>3 DEF FilesKept, LiveIsOld, RecordsOld, MarkAgrees, Begun, Files
  <2>5. JournalTells(next, captured)
    BY <1>2, <2>1, <2>2, <2>4 DEF JournalTells, Begun
  <2>6. \A u \in Files : next.live[u] # "new"
    BY <1>2, <2>2 DEF LiveIsOld
  <2>7. step \in Guarded => MarkAgrees(disk', s[2])
    BY <2>1 DEF Guarded
  <2>8. Forward(next, captured, s[3], s[2], left)
    BY <1>2, <2>1, <2>2, <2>4, <2>6 DEF Forward, BeforeMark
  <2>9. Backward(next, captured, s[3], s[2], left)
    BY <2>1 DEF Backward, FilesBackAt
  <2>10. Ending(next, captured, s[3], s[2], left)
    BY <2>1 DEF Ending
  <2>11. /\ Forward(next, captured, s[3], memory', left')
         /\ Backward(next, captured, s[3], memory', left')
         /\ Ending(next, captured, s[3], memory', left')
    BY <1>4, <2>8, <2>9, <2>10
  <2>12. s[3] \in Steps
    BY <2>1 DEF Steps, Guarded
  <2>13. step \in Guarded => MarkAgrees(disk', memory')
    BY <1>4, <2>7
  <2> QED BY <1>1, <1>2, <1>3, <1>4, <2>5, <2>11, <2>12, <2>13, Attempts
<1>6. CASE s = <<"save moved", "files-old-moved", "files in">>
  <2>1. s[1] = "save moved" /\ s[2] = "files-old-moved" /\ s[3] = "files in" /\ step = "save moved"
    BY <1>0, <1>6
  <2>2. /\ MarkAgrees(disk, memory) /\ memory # "redis-replacing"
        /\ disk.fresh = NewFiles /\ disk.aside = OldFiles /\ \A u \in Files : disk.live[u] = "none"
    BY <2>1 DEF RestoreInv, Forward, BeforeMark
  <2>3. /\ disk.journal \in Begun \ {"redis-replacing"} /\ captured.files = OldFiles
        /\ FilesKept(disk) /\ RecordsOld(disk)
    BY <2>2 DEF RestoreInv, JournalTells, MarkAgrees
  <2>4. FilesKept(next) /\ RecordsOld(next) /\ MarkAgrees(next, s[2])
    <3>1. FilesKept(next) /\ RecordsOld(next)
      BY Zenon, <1>2, <2>3 DEF FilesKept, RecordsOld
    <3>2. s[2] \in Begun /\ (s[2] = "redis-replacing" <=> next.journal = "redis-replacing")
      BY <1>2, <2>1 DEF Begun
    <3> QED BY Zenon, <1>2, <3>1, <3>2 DEF MarkAgrees
  <2>5. JournalTells(next, captured)
    BY <1>2, <2>1, <2>3, <2>4 DEF JournalTells, Begun
  <2>6. \A u \in Files : next.live[u] = IF u \in NewFiles \ next.fresh THEN "new" ELSE "none"
    BY <1>2, <2>2
  <2>7. step \in Guarded => MarkAgrees(disk', s[2])
    BY <1>2, <1>3, <2>1, <2>3 DEF MarkAgrees, Begun
  <2>8. Forward(next, captured, s[3], s[2], left)
    BY <1>2, <2>1, <2>2, <2>4, <2>6 DEF Forward, BeforeMark
  <2>9. Backward(next, captured, s[3], s[2], left)
    BY <2>1 DEF Backward, FilesBackAt
  <2>10. Ending(next, captured, s[3], s[2], left)
    BY <2>1 DEF Ending
  <2>11. /\ Forward(next, captured, s[3], memory', left')
         /\ Backward(next, captured, s[3], memory', left')
         /\ Ending(next, captured, s[3], memory', left')
    BY <1>4, <2>8, <2>9, <2>10
  <2>12. s[3] \in Steps
    BY <2>1 DEF Steps, Guarded
  <2>13. step \in Guarded => MarkAgrees(disk', memory')
    BY <1>4, <2>7
  <2> QED BY <1>1, <1>2, <1>3, <1>4, <2>5, <2>11, <2>12, <2>13, Attempts
<1>7. CASE s = <<"save swapped", "files-swapped", "save mark">>
  <2>1. s[1] = "save swapped" /\ s[2] = "files-swapped" /\ s[3] = "save mark" /\ step = "save swapped"
    BY <1>0, <1>7
  <2>2. /\ MarkAgrees(disk, memory) /\ memory # "redis-replacing"
        /\ disk.aside = OldFiles /\ LiveIsNew(disk)
    BY <2>1 DEF RestoreInv, Forward, BeforeMark
  <2>3. /\ disk.journal \in Begun \ {"redis-replacing"} /\ captured.files = OldFiles
        /\ FilesKept(disk) /\ RecordsOld(disk)
    BY <2>2 DEF RestoreInv, JournalTells, MarkAgrees
  <2>4. FilesKept(next) /\ RecordsOld(next) /\ MarkAgrees(next, s[2])
    <3>1. FilesKept(next) /\ RecordsOld(next)
      BY Zenon, <1>2, <2>3 DEF FilesKept, RecordsOld
    <3>2. s[2] \in Begun /\ (s[2] = "redis-replacing" <=> next.journal = "redis-replacing")
      BY <1>2, <2>1 DEF Begun
    <3> QED BY Zenon, <1>2, <3>1, <3>2 DEF MarkAgrees
  <2>5. JournalTells(next, captured)
    BY <1>2, <2>1, <2>3, <2>4 DEF JournalTells, Begun
  <2>6. LiveIsNew(next)
    BY <1>2, <2>2 DEF LiveIsNew
  <2>7. step \in Guarded => MarkAgrees(disk', s[2])
    BY <1>2, <1>3, <2>1, <2>3 DEF MarkAgrees, Begun
  <2>8. Forward(next, captured, s[3], s[2], left)
    BY <1>2, <2>1, <2>2, <2>4, <2>6 DEF Forward, BeforeMark
  <2>9. Backward(next, captured, s[3], s[2], left)
    BY <2>1 DEF Backward, FilesBackAt
  <2>10. Ending(next, captured, s[3], s[2], left)
    BY <2>1 DEF Ending
  <2>11. /\ Forward(next, captured, s[3], memory', left')
         /\ Backward(next, captured, s[3], memory', left')
         /\ Ending(next, captured, s[3], memory', left')
    BY <1>4, <2>8, <2>9, <2>10
  <2>12. s[3] \in Steps
    BY <2>1 DEF Steps, Guarded
  <2>13. step \in Guarded => MarkAgrees(disk', memory')
    BY <1>4, <2>7
  <2> QED BY <1>1, <1>2, <1>3, <1>4, <2>5, <2>11, <2>12, <2>13, Attempts
<1>8. CASE s = <<"save mark", "redis-replacing", "delete">>
  <2>1. s[1] = "save mark" /\ s[2] = "redis-replacing" /\ s[3] = "delete" /\ step = "save mark"
    BY <1>0, <1>8
  <2>2. /\ MarkAgrees(disk, memory) /\ memory # "redis-replacing"
        /\ disk.aside = OldFiles /\ LiveIsNew(disk)
    BY <2>1 DEF RestoreInv, Forward, BeforeMark
  <2>3. /\ disk.journal \in Begun \ {"redis-replacing"} /\ captured.files = OldFiles
        /\ FilesKept(disk) /\ RecordsOld(disk)
    BY <2>2 DEF RestoreInv, JournalTells, MarkAgrees
  <2>4. FilesKept(next) /\ RecordsOld(next) /\ MarkAgrees(next, s[2])
    <3>1. FilesKept(next) /\ RecordsOld(next)
      BY Zenon, <1>2, <2>3 DEF FilesKept, RecordsOld
    <3>2. s[2] \in Begun /\ (s[2] = "redis-replacing" <=> next.journal = "redis-replacing")
      BY <1>2, <2>1 DEF Begun
    <3> QED BY Zenon, <1>2, <3>1, <3>2 DEF MarkAgrees
  <2>5. JournalTells(next, captured)
    BY <1>2, <2>1, <2>3, <2>4 DEF JournalTells, Begun
  <2>6. LiveIsNew(next)
    BY <1>2, <2>2 DEF LiveIsNew
  <2>7. step \in Guarded => MarkAgrees(disk', s[2])
    BY <1>0, <1>2, <1>3, <2>1 DEF MarkAgrees, Begun
  <2>8. Forward(next, captured, s[3], s[2], left)
    BY <1>2, <2>1, <2>2, <2>4, <2>6 DEF Forward, BeforeMark
  <2>9. Backward(next, captured, s[3], s[2], left)
    BY <2>1 DEF Backward, FilesBackAt
  <2>10. Ending(next, captured, s[3], s[2], left)
    BY <2>1 DEF Ending
  <2>11. /\ Forward(next, captured, s[3], memory', left')
         /\ Backward(next, captured, s[3], memory', left')
         /\ Ending(next, captured, s[3], memory', left')
    BY <1>4, <2>8, <2>9, <2>10
  <2>12. s[3] \in Steps
    BY <2>1 DEF Steps, Guarded
  <2>13. step \in Guarded => MarkAgrees(disk', memory')
    BY <1>4, <2>7
  <2> QED BY <1>1, <1>2, <1>3, <1>4, <2>5, <2>11, <2>12, <2>13, Attempts
<1>9. CASE s = <<"save complete", "redis-complete", "keep">>
  <2>1. s[1] = "save complete" /\ s[2] = "redis-complete" /\ s[3] = "keep" /\ step = "save complete"
    BY <1>0, <1>9
  <2>2. LiveIsNew(disk) /\ RecordsNew(disk)
    BY <2>1 DEF RestoreInv, Forward
  <2>3. LiveIsNew(next) /\ RecordsNew(next)
    BY <1>2, <2>2 DEF LiveIsNew, RecordsNew
  <2>5. JournalTells(next, captured)
    BY <1>2, <2>1, <2>3 DEF JournalTells, Begun
  <2>7. step \in Guarded => MarkAgrees(disk', s[2])
    BY <2>1 DEF Guarded
  <2>8. Forward(next, captured, s[3], s[2], left)
    BY <2>1 DEF Forward, BeforeMark
  <2>9. Backward(next, captured, s[3], s[2], left)
    BY <2>1 DEF Backward, FilesBackAt
  <2>10. Ending(next, captured, s[3], s[2], left)
    BY <1>2, <2>1 DEF Ending
  <2>11. /\ Forward(next, captured, s[3], memory', left')
         /\ Backward(next, captured, s[3], memory', left')
         /\ Ending(next, captured, s[3], memory', left')
    BY <1>4, <2>8, <2>9, <2>10
  <2>12. s[3] \in Steps
    BY <2>1 DEF Steps, Guarded
  <2>13. step \in Guarded => MarkAgrees(disk', memory')
    BY <1>4, <2>7
  <2> QED BY <1>1, <1>2, <1>3, <1>4, <2>5, <2>11, <2>12, <2>13, Attempts
<1>10. CASE s = <<"save undone", "rollback-complete", "clean">>
  <2>1. s[1] = "save undone" /\ s[2] = "rollback-complete" /\ s[3] = "clean" /\ step = "save undone"
    BY <1>0, <1>10
  <2>2. LiveIsOld(disk) /\ RecordsOld(disk) /\ disk.folder # Extracted /\ disk.folderAside = NoFolder
    BY <2>1 DEF RestoreInv, Backward, FilesBackAt
  <2>3. LiveIsOld(next) /\ RecordsOld(next)
    BY <1>2, <2>2 DEF LiveIsOld, RecordsOld
  <2>5. JournalTells(next, captured)
    BY <1>2, <2>1, <2>2, <2>3 DEF JournalTells, Begun
  <2>7. step \in Guarded => MarkAgrees(disk', s[2])
    BY <2>1 DEF Guarded
  <2>8. Forward(next, captured, s[3], s[2], left)
    BY <2>1 DEF Forward, BeforeMark
  <2>9. Backward(next, captured, s[3], s[2], left)
    BY <2>1 DEF Backward, FilesBackAt
  <2>10. Ending(next, captured, s[3], s[2], left)
    BY <1>2, <2>1 DEF Ending
  <2>11. /\ Forward(next, captured, s[3], memory', left')
         /\ Backward(next, captured, s[3], memory', left')
         /\ Ending(next, captured, s[3], memory', left')
    BY <1>4, <2>8, <2>9, <2>10
  <2>12. s[3] \in Steps
    BY <2>1 DEF Steps, Guarded
  <2>13. step \in Guarded => MarkAgrees(disk', memory')
    BY <1>4, <2>7
  <2> QED BY <1>1, <1>2, <1>3, <1>4, <2>5, <2>11, <2>12, <2>13, Attempts
<1> QED BY Zenon, OneOfSix, <1>5, <1>6, <1>7, <1>8, <1>9, <1>10 DEF Saves

\* What holds before the mark, whatever the step.
LEMMA BeforeTheMark ==
  ASSUME RestoreInv, step \in BeforeMark
  PROVE  /\ step \notin Resting /\ disk \in Disks
         /\ MarkAgrees(disk, memory) /\ memory # "redis-replacing"
         /\ disk.journal \in Begun \ {"redis-replacing"} /\ captured.files = OldFiles
         /\ FilesKept(disk) /\ RecordsOld(disk)
<1>1. step \notin Resting /\ disk \in Disks
  BY DEF RestoreInv, RestoreTypeOK, BeforeMark, Resting
<1>2. MarkAgrees(disk, memory) /\ memory # "redis-replacing"
  BY DEF RestoreInv, Forward
<1>3. /\ disk.journal \in Begun \ {"redis-replacing"} /\ captured.files = OldFiles
      /\ FilesKept(disk) /\ RecordsOld(disk)
  BY <1>2 DEF RestoreInv, JournalTells, MarkAgrees
<1> QED BY <1>1, <1>2, <1>3

LEMMA LooksKeeps ==
  ASSUME RestoreAssumption, RestoreInv, Looks
  PROVE  RestoreInv'
<1>1. step \in {"check", "look out", "look in"} /\ Plain
  BY DEF Looks
<1>2. step \in BeforeMark
  BY <1>1 DEF BeforeMark
<1>3. step \notin Resting /\ MarkAgrees(disk, memory) /\ memory # "redis-replacing"
  BY <1>2, BeforeTheMark
<1>4. CASE Refuses
  BY <1>1, <1>3, <1>4, Refusing
<1>5. CASE step = "check" /\ GoesTo("files out")
  <2>1. disk.fresh = NewFiles /\ disk.folder # Extracted /\ \A u \in Files : disk.live[u] # "new"
    BY <1>5 DEF RestoreInv, Forward
  <2>2. Forward(disk, captured, "files out", memory, left)
    BY <1>3, <1>5, <2>1 DEF Forward, BeforeMark
  <2>3. Backward(disk, captured, "files out", memory, left)
    BY DEF Backward, FilesBackAt
  <2>4. Ending(disk, captured, "files out", memory, left)
    BY DEF Ending
  <2>5. "files out" \in Steps
    BY DEF Steps, Guarded, Undoing
  <2> QED BY <1>1, <1>3, <1>5, <2>2, <2>3, <2>4, <2>5, Going
<1>6. ASSUME step = "look out"
      PROVE  /\ disk.folder # Extracted /\ disk.fresh = NewFiles /\ disk.aside = OldFiles
             /\ \A u \in Files : disk.live[u] = "none"
  BY <1>6 DEF RestoreInv, Forward
<1>7. CASE step = "look out" /\ GoesTo("save moved")
  <2>1. Forward(disk, captured, "save moved", memory, left)
    BY <1>3, <1>6, <1>7 DEF Forward, BeforeMark
  <2>2. Backward(disk, captured, "save moved", memory, left)
    BY DEF Backward, FilesBackAt
  <2>3. Ending(disk, captured, "save moved", memory, left)
    BY DEF Ending
  <2>4. "save moved" \in Steps
    BY DEF Steps, Guarded, Undoing
  <2> QED BY <1>1, <1>3, <1>7, <2>1, <2>2, <2>3, <2>4, Going
<1>8. CASE step = "look out" /\ GoesTo("folder out")
  <2>1. Forward(disk, captured, "folder out", memory, left)
    BY <1>3, <1>6, <1>8 DEF Forward, BeforeMark
  <2>2. Backward(disk, captured, "folder out", memory, left)
    BY DEF Backward, FilesBackAt
  <2>3. Ending(disk, captured, "folder out", memory, left)
    BY DEF Ending
  <2>4. "folder out" \in Steps
    BY DEF Steps, Guarded, Undoing
  <2> QED BY <1>1, <1>3, <1>8, <2>1, <2>2, <2>3, <2>4, Going
<1>9. CASE step = "look in" /\ GoesTo("folder in")
  <2>1. disk.aside = OldFiles /\ LiveIsNew(disk)
    BY <1>9 DEF RestoreInv, Forward
  <2>2. Forward(disk, captured, "folder in", memory, left)
    BY <1>3, <1>9, <2>1 DEF Forward, BeforeMark
  <2>3. Backward(disk, captured, "folder in", memory, left)
    BY DEF Backward, FilesBackAt
  <2>4. Ending(disk, captured, "folder in", memory, left)
    BY DEF Ending
  <2>5. "folder in" \in Steps
    BY DEF Steps, Guarded, Undoing
  <2> QED BY <1>1, <1>3, <1>9, <2>2, <2>3, <2>4, <2>5, Going
<1> QED BY <1>4, <1>5, <1>7, <1>8, <1>9 DEF Looks

LEMMA FolderOutKeeps ==
  ASSUME RestoreAssumption, RestoreInv, FolderOut
  PROVE  RestoreInv'
<1>1. step = "folder out" /\ Plain
  BY DEF FolderOut
<1>2. step \in BeforeMark
  BY <1>1 DEF BeforeMark
<1>3. /\ step \notin Resting /\ disk \in Disks
      /\ MarkAgrees(disk, memory) /\ memory # "redis-replacing"
      /\ disk.journal \in Begun \ {"redis-replacing"} /\ captured.files = OldFiles
      /\ FilesKept(disk) /\ RecordsOld(disk)
  BY <1>2, BeforeTheMark
<1>4. /\ disk.folder # Extracted /\ disk.fresh = NewFiles /\ disk.aside = OldFiles
      /\ \A u \in Files : disk.live[u] = "none"
  BY <1>1 DEF RestoreInv, Forward
<1> DEFINE moved == [disk EXCEPT !.folder = NoFolder, !.folderAside = disk.folder]
<1>5. /\ moved \in Disks /\ moved.journal = disk.journal /\ moved.live = disk.live
      /\ moved.aside = disk.aside /\ moved.fresh = disk.fresh /\ moved.records = disk.records
  BY <1>3, <1>4 DEF Disks, Folders
<1>6. \/ Refuses
      \/ Attempt(moved, "save moved")
      \/ disk' = moved /\ Throws /\ mishaps' = mishaps
  BY DEF FolderOut
<1> HIDE DEF moved
<1>7. JournalTells(moved, captured) /\ MarkAgrees(moved, memory)
  BY <1>3, <1>5 DEF JournalTells, MarkAgrees, FilesKept, RecordsOld, Begun
<1>8. CASE Refuses
  BY <1>1, <1>3, <1>8, Refusing
<1>9. CASE Attempt(moved, "save moved")
  <2>1. Forward(moved, captured, "save moved", memory, left)
    BY <1>3, <1>4, <1>5, <1>7 DEF Forward, BeforeMark
  <2>2. Backward(moved, captured, "save moved", memory, left)
    BY DEF Backward, FilesBackAt
  <2>3. Ending(moved, captured, "save moved", memory, left)
    BY DEF Ending
  <2>4. "save moved" \in Steps
    BY DEF Steps, Guarded, Undoing
  <2> QED BY <1>1, <1>3, <1>5, <1>7, <1>9, <2>1, <2>2, <2>3, <2>4, Moving
<1>10. CASE disk' = moved /\ Throws /\ mishaps' = mishaps
  <2>1. mishaps' \in 0 .. MaxMishaps
    BY <1>10 DEF RestoreInv, RestoreTypeOK
  <2>2. disk' \in Disks /\ JournalTells(disk', captured) /\ MarkAgrees(disk', memory)
    BY <1>5, <1>7, <1>10
  <2> QED BY <1>1, <1>3, <1>10, <2>1, <2>2, Refusals
<1> QED BY <1>6, <1>8, <1>9, <1>10

LEMMA FilesInKeeps ==
  ASSUME RestoreAssumption, RestoreInv, FilesIn
  PROVE  RestoreInv'
<1>1. step = "files in" /\ Plain
  BY DEF FilesIn
<1>2. step \in BeforeMark
  BY <1>1 DEF BeforeMark
<1>3. /\ step \notin Resting /\ disk \in Disks
      /\ MarkAgrees(disk, memory) /\ memory # "redis-replacing"
      /\ disk.journal \in Begun \ {"redis-replacing"} /\ captured.files = OldFiles
      /\ FilesKept(disk) /\ RecordsOld(disk)
  BY <1>2, BeforeTheMark
<1>4. /\ disk.aside = OldFiles
      /\ \A u \in Files : disk.live[u] = IF u \in NewFiles \ disk.fresh THEN "new" ELSE "none"
  BY <1>1 DEF RestoreInv, Forward
<1>5. CASE disk.fresh = {} /\ GoesTo("look in")
  <2>1. LiveIsNew(disk)
    BY <1>4, <1>5 DEF LiveIsNew
  <2>2. Forward(disk, captured, "look in", memory, left)
    BY <1>3, <1>4, <2>1 DEF Forward, BeforeMark
  <2>3. Backward(disk, captured, "look in", memory, left)
    BY DEF Backward, FilesBackAt
  <2>4. Ending(disk, captured, "look in", memory, left)
    BY DEF Ending
  <2>5. "look in" \in Steps
    BY DEF Steps, Guarded, Undoing
  <2> QED BY <1>1, <1>3, <1>5, <2>2, <2>3, <2>4, <2>5, Going
<1>6. ASSUME NEW u \in disk.fresh,
             Attempt([disk EXCEPT !.live[u] = "new", !.fresh = @ \ {u}], "files in")
      PROVE  RestoreInv'
  <2> DEFINE next == [disk EXCEPT !.live[u] = "new", !.fresh = @ \ {u}]
  <2>1. /\ next \in Disks /\ next.aside = disk.aside
        /\ next.journal = disk.journal /\ next.fresh = disk.fresh \ {u}
        /\ next.records = disk.records /\ next.folder = disk.folder
        /\ \A v \in Files : next.live[v] = IF v = u THEN "new" ELSE disk.live[v]
        /\ u \in NewFiles
    BY <1>3 DEF Disks, Files
  <2>2. Attempt(next, "files in")
    BY <1>6
  <2> HIDE DEF next
  <2>3. \A v \in Files : next.live[v] = IF v \in NewFiles \ next.fresh THEN "new" ELSE "none"
    BY <1>4, <2>1
  <2>4. FilesKept(next)
    BY <1>4, <2>1, <2>3 DEF FilesKept, Files
  <2>5. RecordsOld(next) /\ MarkAgrees(next, memory)
    BY <1>3, <2>1 DEF RecordsOld, MarkAgrees
  <2>6. JournalTells(next, captured)
    BY <1>3, <2>1, <2>4, <2>5 DEF JournalTells, Begun
  <2>7. Forward(next, captured, "files in", memory, left)
    BY <1>3, <1>4, <2>1, <2>3, <2>5 DEF Forward, BeforeMark
  <2>8. Backward(next, captured, "files in", memory, left)
    BY DEF Backward, FilesBackAt
  <2>9. Ending(next, captured, "files in", memory, left)
    BY DEF Ending
  <2>10. "files in" \in Steps
    BY DEF Steps, Guarded, Undoing
  <2> QED BY <1>1, <1>3, <2>1, <2>2, <2>5, <2>6, <2>7, <2>8, <2>9, <2>10, Moving
<1> QED BY <1>1, <1>5, <1>6 DEF FilesIn

LEMMA FolderInKeeps ==
  ASSUME RestoreAssumption, RestoreInv, FolderIn
  PROVE  RestoreInv'
<1>1. step = "folder in" /\ Plain
  BY DEF FolderIn
<1>2. step \in BeforeMark
  BY <1>1 DEF BeforeMark
<1>3. /\ step \notin Resting /\ disk \in Disks
      /\ MarkAgrees(disk, memory) /\ memory # "redis-replacing"
      /\ disk.journal \in Begun \ {"redis-replacing"} /\ captured.files = OldFiles
      /\ FilesKept(disk) /\ RecordsOld(disk)
  BY <1>2, BeforeTheMark
<1>4. disk.aside = OldFiles /\ LiveIsNew(disk)
  BY <1>1 DEF RestoreInv, Forward
<1>5. CASE Refuses
  BY <1>1, <1>3, <1>5, Refusing
<1>6. CASE Attempt([disk EXCEPT !.folder = Extracted, !.folderFresh = NoFolder], "save swapped")
  <2> DEFINE next == [disk EXCEPT !.folder = Extracted, !.folderFresh = NoFolder]
  <2>1. /\ next \in Disks /\ next.aside = disk.aside /\ next.live = disk.live
        /\ next.journal = disk.journal /\ next.records = disk.records
    BY <1>3 DEF Disks, Folders
  <2>2. Attempt(next, "save swapped")
    BY <1>6
  <2> HIDE DEF next
  <2>3. /\ FilesKept(next) /\ LiveIsNew(next) /\ RecordsOld(next)
        /\ MarkAgrees(next, memory)
    BY <1>3, <1>4, <2>1 DEF FilesKept, LiveIsNew, RecordsOld, MarkAgrees
  <2>4. JournalTells(next, captured)
    BY <1>3, <2>1, <2>3 DEF JournalTells, Begun
  <2>5. Forward(next, captured, "save swapped", memory, left)
    BY <1>3, <1>4, <2>1, <2>3 DEF Forward, BeforeMark
  <2>6. Backward(next, captured, "save swapped", memory, left)
    BY DEF Backward, FilesBackAt
  <2>7. Ending(next, captured, "save swapped", memory, left)
    BY DEF Ending
  <2>8. "save swapped" \in Steps
    BY DEF Steps, Guarded, Undoing
  <2> QED BY <1>1, <1>3, <2>1, <2>2, <2>3, <2>4, <2>5, <2>6, <2>7, <2>8, Moving
<1> QED BY <1>5, <1>6 DEF FolderIn

LEMMA RecordsGoKeeps ==
  ASSUME RestoreAssumption, RestoreInv, RecordsGo
  PROVE  RestoreInv'
<1>1. disk \in Disks /\ memory' = memory /\ UNCHANGED <<duty, captured, theirs>>
  BY DEF RecordsGo, RestoreInv, RestoreTypeOK
<1>2. memory' \in Phases \cup {"none"} /\ OldKeys \subseteq Keys /\ NewKeys \subseteq Keys
  BY <1>1 DEF RestoreInv, RestoreTypeOK, Keys
<1>3. ASSUME step = "delete", left' = NewKeys,
             Attempt([disk EXCEPT !.records = [k \in Keys |-> "none"]], "write")
      PROVE  RestoreInv'
  <2> DEFINE next == [disk EXCEPT !.records = [k \in Keys |-> "none"]]
  <2>1. /\ next \in Disks /\ next.aside = disk.aside /\ next.live = disk.live
        /\ next.journal = disk.journal /\ \A k \in Keys : next.records[k] = "none"
    BY <1>1 DEF Disks
  <2>2. Attempt(next, "write") /\ disk' \in {disk, next}
    BY <1>3 DEF Attempt
  <2> HIDE DEF next
  <2>3. /\ MarkAgrees(disk, memory) /\ memory = "redis-replacing"
        /\ disk.aside = OldFiles /\ LiveIsNew(disk) /\ step \notin Resting
    BY <1>3 DEF RestoreInv, Forward, Resting
  <2>4. disk.journal = "redis-replacing" /\ captured.files = OldFiles /\ FilesKept(disk)
    BY <2>3 DEF RestoreInv, JournalTells, MarkAgrees, Begun
  <2>5. FilesKept(next) /\ LiveIsNew(next) /\ MarkAgrees(next, memory)
    BY <2>1, <2>3, <2>4 DEF FilesKept, LiveIsNew, MarkAgrees
  <2>6. JournalTells(next, captured)
    BY <2>1, <2>4, <2>5 DEF JournalTells, Begun
  <2>7. \A k \in Keys \ NewKeys : next.records[k] = IF k \in NewKeys THEN "new" ELSE "none"
    BY <2>1
  <2>8. step \in Guarded => MarkAgrees(disk', memory')
    BY <1>1, <2>2, <2>3, <2>5
  <2>9. Forward(next, captured, "write", memory, NewKeys)
    BY <2>1, <2>3, <2>5, <2>7 DEF Forward, BeforeMark
  <2>10. Backward(next, captured, "write", memory, NewKeys)
    BY DEF Backward, FilesBackAt
  <2>11. Ending(next, captured, "write", memory, NewKeys)
    BY DEF Ending
  <2>12. /\ Forward(next, captured, "write", memory', left')
         /\ Backward(next, captured, "write", memory', left')
         /\ Ending(next, captured, "write", memory', left')
    BY <1>1, <1>3, <2>9, <2>10, <2>11
  <2>13. "write" \in Steps /\ left' \subseteq Keys
    BY <1>2, <1>3 DEF Steps, Guarded
  <2> QED BY <1>1, <1>2, <2>1, <2>2, <2>3, <2>6, <2>8, <2>12, <2>13, Attempts
<1>4. ASSUME step = "undo records", left' = OldKeys,
             Attempt([disk EXCEPT !.records = [k \in Keys |->
                        IF k \in NewKeys THEN "none" ELSE @[k]]], "rewrite")
      PROVE  RestoreInv'
  <2> DEFINE next == [disk EXCEPT !.records = [k \in Keys |->
                        IF k \in NewKeys THEN "none" ELSE @[k]]]
  <2>1. /\ next \in Disks /\ next.aside = disk.aside /\ next.live = disk.live
        /\ next.journal = disk.journal /\ \A k \in NewKeys : next.records[k] = "none"
    BY <1>1 DEF Disks, Keys
  <2>2. Attempt(next, "rewrite")
    BY <1>4
  <2> HIDE DEF next
  <2>3. disk.journal = "redis-replacing" /\ step \notin Resting /\ step \notin Guarded
    BY <1>4 DEF RestoreInv, Backward, Resting, Guarded
  <2>4. captured.files = OldFiles /\ FilesKept(disk)
    BY <2>3 DEF RestoreInv, JournalTells, Begun
  <2>5. FilesKept(next)
    BY <2>1, <2>4 DEF FilesKept
  <2>6. JournalTells(next, captured)
    BY <2>1, <2>3, <2>4, <2>5 DEF JournalTells, Begun
  <2>7. \A k \in Keys \ OldKeys : next.records[k] = IF k \in OldKeys THEN "old" ELSE "none"
    BY <2>1 DEF Keys
  <2>9. Forward(next, captured, "rewrite", memory, OldKeys)
    BY DEF Forward, BeforeMark
  <2>10. Backward(next, captured, "rewrite", memory, OldKeys)
    BY <2>1, <2>3, <2>7 DEF Backward, FilesBackAt
  <2>11. Ending(next, captured, "rewrite", memory, OldKeys)
    BY DEF Ending
  <2>12. /\ Forward(next, captured, "rewrite", memory', left')
         /\ Backward(next, captured, "rewrite", memory', left')
         /\ Ending(next, captured, "rewrite", memory', left')
    BY <1>1, <1>4, <2>9, <2>10, <2>11
  <2>13. "rewrite" \in Steps /\ left' \subseteq Keys
    BY <1>2, <1>4 DEF Steps, Undoing
  <2> QED BY <1>1, <1>2, <2>1, <2>2, <2>3, <2>6, <2>12, <2>13, Attempts
<1> QED BY <1>3, <1>4 DEF RecordsGo

LEMMA WritesNewKeeps ==
  ASSUME RestoreAssumption, RestoreInv, WritesRecord, step = "write"
  PROVE  RestoreInv'
<1>1. /\ disk \in Disks /\ step \notin Resting /\ memory \in Phases \cup {"none"} /\ left \subseteq Keys
      /\ UNCHANGED <<duty, memory, captured, theirs>>
  BY DEF WritesRecord, RestoreInv, RestoreTypeOK, Resting
<1>2. /\ MarkAgrees(disk, memory) /\ memory = "redis-replacing"
      /\ disk.aside = OldFiles /\ LiveIsNew(disk) /\ left \subseteq NewKeys
      /\ \A k \in Keys \ left : disk.records[k] = IF k \in NewKeys THEN "new" ELSE "none"
  BY DEF RestoreInv, Forward
<1>3. disk.journal = "redis-replacing" /\ captured.files = OldFiles /\ FilesKept(disk)
  BY <1>2 DEF RestoreInv, JournalTells, MarkAgrees, Begun
<1>4. CASE left = {} /\ left' = left /\ GoesTo("save complete")
  <2>1. RecordsNew(disk)
    BY <1>2, <1>4 DEF RecordsNew
  <2>2. Plain
    BY <1>1, <1>4 DEF Plain
  <2>3. Forward(disk, captured, "save complete", memory, left)
    BY <1>2, <1>3, <2>1 DEF Forward, BeforeMark
  <2>4. Backward(disk, captured, "save complete", memory, left)
    BY DEF Backward, FilesBackAt
  <2>5. Ending(disk, captured, "save complete", memory, left)
    BY DEF Ending
  <2>6. "save complete" \in Steps
    BY DEF Steps, Guarded, Undoing
  <2> QED BY <1>1, <1>2, <1>4, <2>1, <2>2, <2>3, <2>4, <2>5, <2>6, Going
<1>5. ASSUME NEW k \in left, left' = left,
             Attempt([disk EXCEPT !.records[k] = "none"], "write")
      PROVE  RestoreInv'
  <2> DEFINE next == [disk EXCEPT !.records[k] = "none"]
  <2>1. /\ next \in Disks /\ next.aside = disk.aside /\ next.live = disk.live
        /\ next.journal = disk.journal
        /\ \A j \in Keys : next.records[j] = IF j = k THEN "none" ELSE disk.records[j]
    BY <1>1 DEF Disks
  <2>2. Attempt(next, "write") /\ disk' \in {disk, next}
    BY <1>5 DEF Attempt
  <2> HIDE DEF next
  <2>3. FilesKept(next) /\ LiveIsNew(next) /\ MarkAgrees(next, memory)
    BY <1>2, <1>3, <2>1 DEF FilesKept, LiveIsNew, MarkAgrees
  <2>4. JournalTells(next, captured)
    BY <1>2, <1>3, <2>1, <2>3 DEF JournalTells, Begun
  <2>5. /\ left' \subseteq NewKeys
        /\ \A j \in Keys \ left' : next.records[j] = IF j \in NewKeys THEN "new" ELSE "none"
    BY <1>1, <1>2, <1>5, <2>1
  <2>6. step \in Guarded => MarkAgrees(disk', memory')
    BY <1>1, <1>2, <2>2, <2>3
  <2>7. Forward(next, captured, "write", memory, left')
    BY <1>2, <1>3, <2>1, <2>3, <2>5 DEF Forward, BeforeMark
  <2>8. Backward(next, captured, "write", memory, left')
    BY DEF Backward, FilesBackAt
  <2>9. Ending(next, captured, "write", memory, left')
    BY DEF Ending
  <2>10. /\ Forward(next, captured, "write", memory', left')
         /\ Backward(next, captured, "write", memory', left')
         /\ Ending(next, captured, "write", memory', left')
    BY <1>1, <2>7, <2>8, <2>9
  <2>11. "write" \in Steps /\ left' \subseteq Keys /\ memory' \in Phases \cup {"none"}
    BY <1>1, <1>5 DEF Steps, Guarded, Undoing
  <2> QED BY <1>1, <2>1, <2>2, <2>4, <2>6, <2>10, <2>11, Attempts
<1>6. ASSUME NEW k \in left, left' = left \ {k},
             Attempt([disk EXCEPT !.records[k] = "new"], "write")
      PROVE  RestoreInv'
  <2> DEFINE next == [disk EXCEPT !.records[k] = "new"]
  <2>1. /\ next \in Disks /\ next.aside = disk.aside /\ next.live = disk.live
        /\ next.journal = disk.journal
        /\ \A j \in Keys : next.records[j] = IF j = k THEN "new" ELSE disk.records[j]
    BY <1>1 DEF Disks
  <2>2. Attempt(next, "write") /\ disk' \in {disk, next}
    BY <1>6 DEF Attempt
  <2> HIDE DEF next
  <2>3. FilesKept(next) /\ LiveIsNew(next) /\ MarkAgrees(next, memory)
    BY <1>2, <1>3, <2>1 DEF FilesKept, LiveIsNew, MarkAgrees
  <2>4. JournalTells(next, captured)
    BY <1>2, <1>3, <2>1, <2>3 DEF JournalTells, Begun
  <2>5. /\ left' \subseteq NewKeys
        /\ \A j \in Keys \ left' : next.records[j] = IF j \in NewKeys THEN "new" ELSE "none"
    BY <1>1, <1>2, <1>6, <2>1
  <2>6. step \in Guarded => MarkAgrees(disk', memory')
    BY <1>1, <1>2, <2>2, <2>3
  <2>7. Forward(next, captured, "write", memory, left')
    BY <1>2, <1>3, <2>1, <2>3, <2>5 DEF Forward, BeforeMark
  <2>8. Backward(next, captured, "write", memory, left')
    BY DEF Backward, FilesBackAt
  <2>9. Ending(next, captured, "write", memory, left')
    BY DEF Ending
  <2>10. /\ Forward(next, captured, "write", memory', left')
         /\ Backward(next, captured, "write", memory', left')
         /\ Ending(next, captured, "write", memory', left')
    BY <1>1, <2>7, <2>8, <2>9
  <2>11. "write" \in Steps /\ left' \subseteq Keys /\ memory' \in Phases \cup {"none"}
    BY <1>1, <1>6 DEF Steps, Guarded, Undoing
  <2> QED BY <1>1, <2>1, <2>2, <2>4, <2>6, <2>10, <2>11, Attempts
<1> QED BY <1>4, <1>5, <1>6 DEF WritesRecord

LEMMA WritesOldKeeps ==
  ASSUME RestoreAssumption, RestoreInv, WritesRecord, step = "rewrite"
  PROVE  RestoreInv'
<1>1. /\ disk \in Disks /\ step \notin Resting /\ memory \in Phases \cup {"none"} /\ left \subseteq Keys
      /\ UNCHANGED <<duty, memory, captured, theirs>>
  BY DEF WritesRecord, RestoreInv, RestoreTypeOK, Resting
<1>2. /\ disk.journal = "redis-replacing" /\ left \subseteq OldKeys /\ step \notin Guarded
      /\ \A k \in Keys \ left : disk.records[k] = IF k \in OldKeys THEN "old" ELSE "none"
  BY DEF RestoreInv, Backward, Guarded
<1>3. captured.files = OldFiles /\ FilesKept(disk)
  BY <1>2 DEF RestoreInv, JournalTells, Begun
<1>4. CASE left = {} /\ left' = left /\ GoesTo("undo files")
  <2>1. RecordsOld(disk)
    BY <1>2, <1>4 DEF RecordsOld
  <2>2. Plain
    BY <1>1, <1>4 DEF Plain
  <2>3. Forward(disk, captured, "undo files", memory, left)
    BY DEF Forward, BeforeMark
  <2>4. Backward(disk, captured, "undo files", memory, left)
    BY <1>2, <2>1 DEF Backward, FilesBackAt, Begun
  <2>5. Ending(disk, captured, "undo files", memory, left)
    BY DEF Ending
  <2>6. "undo files" \in Steps
    BY DEF Steps, Guarded, Undoing
  <2> QED BY <1>1, <1>2, <1>4, <2>1, <2>2, <2>3, <2>4, <2>5, <2>6, Going
<1>5. ASSUME NEW k \in left, left' = left,
             Attempt([disk EXCEPT !.records[k] = "none"], "rewrite")
      PROVE  RestoreInv'
  <2> DEFINE next == [disk EXCEPT !.records[k] = "none"]
  <2>1. /\ next \in Disks /\ next.aside = disk.aside /\ next.live = disk.live
        /\ next.journal = disk.journal
        /\ \A j \in Keys : next.records[j] = IF j = k THEN "none" ELSE disk.records[j]
    BY <1>1 DEF Disks
  <2>2. Attempt(next, "rewrite") /\ disk' \in {disk, next}
    BY <1>5 DEF Attempt
  <2> HIDE DEF next
  <2>3. FilesKept(next)
    BY <1>2, <1>3, <2>1 DEF FilesKept
  <2>4. JournalTells(next, captured)
    BY <1>2, <1>3, <2>1, <2>3 DEF JournalTells, Begun
  <2>5. /\ left' \subseteq OldKeys
        /\ \A j \in Keys \ left' : next.records[j] = IF j \in OldKeys THEN "old" ELSE "none"
    BY <1>1, <1>2, <1>5, <2>1
  <2>6. step \in Guarded => MarkAgrees(disk', memory')
    BY <1>1, <1>2, <2>2, <2>3
  <2>7. Forward(next, captured, "rewrite", memory, left')
    BY DEF Forward, BeforeMark
  <2>8. Backward(next, captured, "rewrite", memory, left')
    BY <1>2, <2>1, <2>5 DEF Backward, FilesBackAt
  <2>9. Ending(next, captured, "rewrite", memory, left')
    BY DEF Ending
  <2>10. /\ Forward(next, captured, "rewrite", memory', left')
         /\ Backward(next, captured, "rewrite", memory', left')
         /\ Ending(next, captured, "rewrite", memory', left')
    BY <1>1, <2>7, <2>8, <2>9
  <2>11. "rewrite" \in Steps /\ left' \subseteq Keys /\ memory' \in Phases \cup {"none"}
    BY <1>1, <1>5 DEF Steps, Guarded, Undoing
  <2> QED BY <1>1, <2>1, <2>2, <2>4, <2>6, <2>10, <2>11, Attempts
<1>6. ASSUME NEW k \in left, left' = left \ {k},
             Attempt([disk EXCEPT !.records[k] = "old"], "rewrite")
      PROVE  RestoreInv'
  <2> DEFINE next == [disk EXCEPT !.records[k] = "old"]
  <2>1. /\ next \in Disks /\ next.aside = disk.aside /\ next.live = disk.live
        /\ next.journal = disk.journal
        /\ \A j \in Keys : next.records[j] = IF j = k THEN "old" ELSE disk.records[j]
    BY <1>1 DEF Disks
  <2>2. Attempt(next, "rewrite") /\ disk' \in {disk, next}
    BY <1>6 DEF Attempt
  <2> HIDE DEF next
  <2>3. FilesKept(next)
    BY <1>2, <1>3, <2>1 DEF FilesKept
  <2>4. JournalTells(next, captured)
    BY <1>2, <1>3, <2>1, <2>3 DEF JournalTells, Begun
  <2>5. /\ left' \subseteq OldKeys
        /\ \A j \in Keys \ left' : next.records[j] = IF j \in OldKeys THEN "old" ELSE "none"
    BY <1>1, <1>2, <1>6, <2>1
  <2>6. step \in Guarded => MarkAgrees(disk', memory')
    BY <1>1, <1>2, <2>2, <2>3
  <2>7. Forward(next, captured, "rewrite", memory, left')
    BY DEF Forward, BeforeMark
  <2>8. Backward(next, captured, "rewrite", memory, left')
    BY <1>2, <2>1, <2>5 DEF Backward, FilesBackAt
  <2>9. Ending(next, captured, "rewrite", memory, left')
    BY DEF Ending
  <2>10. /\ Forward(next, captured, "rewrite", memory', left')
         /\ Backward(next, captured, "rewrite", memory', left')
         /\ Ending(next, captured, "rewrite", memory', left')
    BY <1>1, <2>7, <2>8, <2>9
  <2>11. "rewrite" \in Steps /\ left' \subseteq Keys /\ memory' \in Phases \cup {"none"}
    BY <1>1, <1>6 DEF Steps, Guarded, Undoing
  <2> QED BY <1>1, <2>1, <2>2, <2>4, <2>6, <2>10, <2>11, Attempts
<1> QED BY <1>4, <1>5, <1>6 DEF WritesRecord

-----------------------------------------------------------------------------
(* The undoing's.                                                           *)

LEMMA CensusKeeps ==
  ASSUME RestoreAssumption, RestoreInv, Census
  PROVE  RestoreInv'
<1>1. step = "census" /\ step \notin Resting /\ step \notin Guarded /\ Plain
  BY DEF Census, Resting, Guarded
<1>2. MarkAgrees(disk, memory)
  BY <1>1 DEF RestoreInv, Backward
<1>3. CASE Refuses
  BY <1>1, <1>3, Refusing
<1>4. CASE memory = "redis-replacing" /\ GoesTo("undo records")
  <2>1. Forward(disk, captured, "undo records", memory, left)
    BY DEF Forward, BeforeMark
  <2>2. Backward(disk, captured, "undo records", memory, left)
    BY <1>2, <1>4 DEF Backward, FilesBackAt, MarkAgrees
  <2>3. Ending(disk, captured, "undo records", memory, left)
    BY DEF Ending
  <2>4. "undo records" \in Steps
    BY DEF Steps, Guarded, Undoing
  <2> QED BY <1>1, <1>4, <2>1, <2>2, <2>3, <2>4, Going
<1>5. CASE memory # "redis-replacing" /\ GoesTo("undo files")
  <2>1. RecordsOld(disk)
    BY <1>2, <1>5 DEF MarkAgrees, RestoreInv, JournalTells
  <2>2. Forward(disk, captured, "undo files", memory, left)
    BY DEF Forward, BeforeMark
  <2>3. Backward(disk, captured, "undo files", memory, left)
    BY <1>2, <1>5, <2>1 DEF Backward, FilesBackAt, MarkAgrees
  <2>4. Ending(disk, captured, "undo files", memory, left)
    BY DEF Ending
  <2>5. "undo files" \in Steps
    BY DEF Steps, Guarded, Undoing
  <2> QED BY <1>1, <1>5, <2>2, <2>3, <2>4, <2>5, Going
<1> QED BY <1>3, <1>4, <1>5 DEF Census

LEMMA FilesCensusKeeps ==
  ASSUME RestoreAssumption, RestoreInv, FilesCensus
  PROVE  RestoreInv'
<1>1. step = "undo files" /\ step \notin Resting /\ step \notin Guarded /\ Plain
  BY DEF FilesCensus, Resting, Guarded
<1>2. disk.journal \in Begun /\ RecordsOld(disk)
  BY <1>1 DEF RestoreInv, Backward
<1>3. CASE Refuses
  BY <1>1, <1>3, Refusing
<1>4. CASE GoesTo("files back")
  <2>1. Forward(disk, captured, "files back", memory, left)
    BY DEF Forward, BeforeMark
  <2>2. Backward(disk, captured, "files back", memory, left)
    BY <1>2 DEF Backward, FilesBackAt
  <2>3. Ending(disk, captured, "files back", memory, left)
    BY DEF Ending
  <2>4. "files back" \in Steps
    BY DEF Steps, Guarded, Undoing
  <2> QED BY <1>1, <1>4, <2>1, <2>2, <2>3, <2>4, Going
<1> QED BY <1>3, <1>4 DEF FilesCensus

LEMMA FilesBackKeeps ==
  ASSUME RestoreAssumption, RestoreInv, FilesBack
  PROVE  RestoreInv'
<1> DEFINE extra == {u \in Files \ captured.files : disk.live[u] # "none"}
<1>1. step = "files back" /\ step \notin Resting /\ step \notin Guarded /\ Plain /\ disk \in Disks
  BY DEF FilesBack, Resting, Guarded, RestoreInv, RestoreTypeOK
<1>2. disk.journal \in Begun /\ RecordsOld(disk)
  BY <1>1 DEF RestoreInv, Backward
<1>3. captured.files = OldFiles /\ FilesKept(disk)
  BY <1>2 DEF RestoreInv, JournalTells
<1>4. CASE extra \cup disk.aside = {} /\ GoesTo("undo folder")
  <2>1. LiveIsOld(disk)
    BY <1>3, <1>4 DEF LiveIsOld, FilesKept
  <2>2. Forward(disk, captured, "undo folder", memory, left)
    BY DEF Forward, BeforeMark
  <2>3. Backward(disk, captured, "undo folder", memory, left)
    BY <1>2, <2>1 DEF Backward, FilesBackAt
  <2>4. Ending(disk, captured, "undo folder", memory, left)
    BY DEF Ending
  <2>5. "undo folder" \in Steps
    BY DEF Steps, Guarded, Undoing
  <2> QED BY <1>1, <1>4, <2>2, <2>3, <2>4, <2>5, Going
<1>5. ASSUME NEW u \in extra \cup disk.aside, extra = {} \/ u \in extra,
             Attempt([disk EXCEPT !.live[u] = "none"], "files back"), disk.live[u] # "none"
      PROVE  RestoreInv'
  <2> DEFINE next == [disk EXCEPT !.live[u] = "none"]
  <2>1. /\ next \in Disks /\ next.aside = disk.aside /\ disk.aside \subseteq OldFiles
        /\ next.journal = disk.journal /\ next.records = disk.records
        /\ \A v \in Files : next.live[v] = IF v = u THEN "none" ELSE disk.live[v]
    BY <1>1 DEF Disks
  <2>2. Attempt(next, "files back")
    BY <1>5
  <2> HIDE DEF next
  <2>3. FilesKept(next)
    BY <1>3, <1>5, <2>1 DEF FilesKept, Files
  <2>4. RecordsOld(next)
    BY <1>2, <2>1 DEF RecordsOld
  <2>5. JournalTells(next, captured)
    BY <1>2, <1>3, <2>1, <2>3, <2>4 DEF JournalTells, Begun
  <2>6. Forward(next, captured, "files back", memory, left)
    BY DEF Forward, BeforeMark
  <2>7. Backward(next, captured, "files back", memory, left)
    BY <1>2, <2>1, <2>4 DEF Backward, FilesBackAt
  <2>8. Ending(next, captured, "files back", memory, left)
    BY DEF Ending
  <2>9. "files back" \in Steps
    BY DEF Steps, Guarded, Undoing
  <2> QED BY <1>1, <2>1, <2>2, <2>5, <2>6, <2>7, <2>8, <2>9, Moving
<1>6. ASSUME NEW u \in disk.aside, disk.live[u] = "none",
             Attempt([disk EXCEPT !.live[u] = "old", !.aside = @ \ {u}], "files back")
      PROVE  RestoreInv'
  <2> DEFINE next == [disk EXCEPT !.live[u] = "old", !.aside = @ \ {u}]
  <2>1. /\ next \in Disks /\ next.aside = disk.aside \ {u} /\ disk.aside \subseteq OldFiles
        /\ next.journal = disk.journal /\ next.records = disk.records
        /\ \A v \in Files : next.live[v] = IF v = u THEN "old" ELSE disk.live[v]
    BY <1>1 DEF Disks
  <2>2. Attempt(next, "files back")
    BY <1>6
  <2> HIDE DEF next
  <2>3. FilesKept(next)
    BY <1>3, <1>6, <2>1 DEF FilesKept, Files
  <2>4. RecordsOld(next)
    BY <1>2, <2>1 DEF RecordsOld
  <2>5. JournalTells(next, captured)
    BY <1>2, <1>3, <2>1, <2>3, <2>4 DEF JournalTells, Begun
  <2>6. Forward(next, captured, "files back", memory, left)
    BY DEF Forward, BeforeMark
  <2>7. Backward(next, captured, "files back", memory, left)
    BY <1>2, <2>1, <2>4 DEF Backward, FilesBackAt
  <2>8. Ending(next, captured, "files back", memory, left)
    BY DEF Ending
  <2>9. "files back" \in Steps
    BY DEF Steps, Guarded, Undoing
  <2> QED BY <1>1, <2>1, <2>2, <2>5, <2>6, <2>7, <2>8, <2>9, Moving
<1> QED BY <1>1, <1>4, <1>5, <1>6 DEF FilesBack

LEMMA UndoesFolderKeeps ==
  ASSUME RestoreAssumption, RestoreInv, UndoesFolder
  PROVE  RestoreInv'
<1>1. /\ step \in {"undo folder", "remove folder", "look back", "folder back"}
      /\ Plain /\ disk \in Disks
  BY DEF UndoesFolder, RestoreInv, RestoreTypeOK
<1>2. step \notin Resting /\ step \notin Guarded
  BY <1>1 DEF Resting, Guarded
<1>3. disk.journal \in Begun /\ RecordsOld(disk) /\ LiveIsOld(disk)
  BY <1>1 DEF RestoreInv, Backward, FilesBackAt
<1>4. captured.files = OldFiles /\ FilesKept(disk)
  BY <1>3 DEF RestoreInv, JournalTells
<1>5. step \in {"look back", "folder back"} => disk.folder # Extracted
  BY DEF RestoreInv, Backward
<1>6. CASE Refuses
  BY <1>1, <1>2, <1>6, Refusing
<1>7. CASE GoesTo("remove folder")
  <2>1. Forward(disk, captured, "remove folder", memory, left)
    BY DEF Forward, BeforeMark
  <2>2. Backward(disk, captured, "remove folder", memory, left)
    BY <1>3 DEF Backward, FilesBackAt
  <2>3. Ending(disk, captured, "remove folder", memory, left)
    BY DEF Ending
  <2>4. "remove folder" \in Steps
    BY DEF Steps, Guarded, Undoing
  <2> QED BY <1>1, <1>2, <1>7, <2>1, <2>2, <2>3, <2>4, Going
<1>8. CASE disk.folder # Extracted /\ GoesTo("look back")
  <2>1. Forward(disk, captured, "look back", memory, left)
    BY DEF Forward, BeforeMark
  <2>2. Backward(disk, captured, "look back", memory, left)
    BY <1>3, <1>8 DEF Backward, FilesBackAt
  <2>3. Ending(disk, captured, "look back", memory, left)
    BY DEF Ending
  <2>4. "look back" \in Steps
    BY DEF Steps, Guarded, Undoing
  <2> QED BY <1>1, <1>2, <1>8, <2>1, <2>2, <2>3, <2>4, Going
<1>9. CASE Attempt([disk EXCEPT !.folder = NoFolder], "look back")
  <2> DEFINE next == [disk EXCEPT !.folder = NoFolder]
  <2>1. /\ next \in Disks /\ next.journal = disk.journal /\ next.live = disk.live
        /\ next.aside = disk.aside /\ next.records = disk.records /\ next.folder = NoFolder
    BY <1>1 DEF Disks, Folders
  <2>2. Attempt(next, "look back") /\ next.folder # Extracted
    BY <1>9, <2>1 DEF RestoreAssumption
  <2> HIDE DEF next
  <2>3. FilesKept(next) /\ RecordsOld(next) /\ LiveIsOld(next)
    BY <1>3, <1>4, <2>1 DEF FilesKept, RecordsOld, LiveIsOld
  <2>4. JournalTells(next, captured)
    BY <1>3, <1>4, <2>1, <2>3 DEF JournalTells, Begun
  <2>5. Forward(next, captured, "look back", memory, left)
    BY DEF Forward, BeforeMark
  <2>6. Backward(next, captured, "look back", memory, left)
    BY <1>3, <2>1, <2>2, <2>3 DEF Backward, FilesBackAt
  <2>7. Ending(next, captured, "look back", memory, left)
    BY DEF Ending
  <2>8. "look back" \in Steps
    BY DEF Steps, Guarded, Undoing
  <2> QED BY <1>1, <1>2, <2>1, <2>2, <2>4, <2>5, <2>6, <2>7, <2>8, Moving
<1>10. CASE step = "look back" /\ disk.folderAside = NoFolder /\ GoesTo("save undone")
  <2>1. Forward(disk, captured, "save undone", memory, left)
    BY DEF Forward, BeforeMark
  <2>2. Backward(disk, captured, "save undone", memory, left)
    BY <1>3, <1>5, <1>10 DEF Backward, FilesBackAt
  <2>3. Ending(disk, captured, "save undone", memory, left)
    BY DEF Ending
  <2>4. "save undone" \in Steps
    BY DEF Steps, Guarded, Undoing
  <2> QED BY <1>1, <1>2, <1>10, <2>1, <2>2, <2>3, <2>4, Going
<1>11. CASE step = "look back" /\ GoesTo("folder back")
  <2>1. Forward(disk, captured, "folder back", memory, left)
    BY DEF Forward, BeforeMark
  <2>2. Backward(disk, captured, "folder back", memory, left)
    BY <1>3, <1>5, <1>11 DEF Backward, FilesBackAt
  <2>3. Ending(disk, captured, "folder back", memory, left)
    BY DEF Ending
  <2>4. "folder back" \in Steps
    BY DEF Steps, Guarded, Undoing
  <2> QED BY <1>1, <1>2, <1>11, <2>1, <2>2, <2>3, <2>4, Going
<1>12. CASE Attempt([disk EXCEPT !.folder = disk.folderAside, !.folderAside = NoFolder],
                      "save undone")
  <2> DEFINE next == [disk EXCEPT !.folder = disk.folderAside, !.folderAside = NoFolder]
  <2>1. /\ next \in Disks /\ next.journal = disk.journal /\ next.live = disk.live
        /\ next.aside = disk.aside /\ next.records = disk.records
        /\ next.folder # Extracted /\ next.folderAside = NoFolder
    BY <1>1 DEF Disks, Folders, RestoreAssumption
  <2>2. Attempt(next, "save undone")
    BY <1>12
  <2> HIDE DEF next
  <2>3. FilesKept(next) /\ RecordsOld(next) /\ LiveIsOld(next)
    BY <1>3, <1>4, <2>1 DEF FilesKept, RecordsOld, LiveIsOld
  <2>4. JournalTells(next, captured)
    BY <1>3, <1>4, <2>1, <2>3 DEF JournalTells, Begun
  <2>5. Forward(next, captured, "save undone", memory, left)
    BY DEF Forward, BeforeMark
  <2>6. Backward(next, captured, "save undone", memory, left)
    BY <1>3, <2>1, <2>2, <2>3 DEF Backward, FilesBackAt
  <2>7. Ending(next, captured, "save undone", memory, left)
    BY DEF Ending
  <2>8. "save undone" \in Steps
    BY DEF Steps, Guarded, Undoing
  <2> QED BY <1>1, <1>2, <2>1, <2>2, <2>4, <2>5, <2>6, <2>7, <2>8, Moving
<1> QED BY <1>6, <1>7, <1>8, <1>9, <1>10, <1>11, <1>12 DEF UndoesFolder

-----------------------------------------------------------------------------
(* The rest.                                                                *)

LEMMA KeepsFolderKeeps ==
  ASSUME RestoreAssumption, RestoreInv, KeepsFolder
  PROVE  RestoreInv'
<1> DEFINE next == [disk EXCEPT !.kept = IF disk.folderAside = NoFolder THEN @
                                         ELSE disk.folderAside,
                                !.folderAside = NoFolder]
<1>1. step = "keep" /\ step \notin Resting /\ step \notin Guarded /\ Plain /\ disk \in Disks
  BY DEF KeepsFolder, Resting, Guarded, RestoreInv, RestoreTypeOK
<1>2. disk.journal = "redis-complete" /\ memory = "redis-complete"
  BY <1>1 DEF RestoreInv, Ending
<1>3. LiveIsNew(disk) /\ RecordsNew(disk)
  BY <1>2 DEF RestoreInv, JournalTells
<1>4. Refuses \/ Attempt(next, "clean")
  BY DEF KeepsFolder
<1>5. /\ next \in Disks /\ next.journal = disk.journal /\ next.live = disk.live
      /\ next.records = disk.records
  BY <1>1 DEF Disks, Folders, RestoreAssumption
<1> HIDE DEF next
<1>6. CASE Refuses
  BY <1>1, <1>6, Refusing
<1>7. CASE Attempt(next, "clean")
  <2>1. JournalTells(next, captured)
    BY <1>2, <1>3, <1>5 DEF JournalTells, LiveIsNew, RecordsNew, Begun
  <2>2. Forward(next, captured, "clean", memory, left)
    BY DEF Forward, BeforeMark
  <2>3. Backward(next, captured, "clean", memory, left)
    BY DEF Backward, FilesBackAt
  <2>4. Ending(next, captured, "clean", memory, left)
    BY <1>2, <1>5 DEF Ending
  <2>5. "clean" \in Steps
    BY DEF Steps, Guarded, Undoing
  <2> QED BY <1>1, <1>5, <1>7, <2>1, <2>2, <2>3, <2>4, <2>5, Moving
<1> QED BY <1>4, <1>6, <1>7

\* Whatever is thrown away, a journal that is complete, or undone, tells the same.
LEMMA CleanedTells ==
  ASSUME NEW STATE next,
         disk.journal \in {"redis-complete", "rollback-complete"}, JournalTells(disk, captured),
         next.journal = disk.journal, next.live = disk.live, next.records = disk.records,
         next.folder = disk.folder, next.folderAside \in {disk.folderAside, NoFolder}
  PROVE  JournalTells(next, captured)
BY DEF JournalTells, LiveIsOld, LiveIsNew, RecordsOld, RecordsNew, Begun

LEMMA CleansKeeps ==
  ASSUME RestoreAssumption, RestoreInv, Cleans
  PROVE  RestoreInv'
<1>1. step = "clean" /\ step \notin Resting /\ step \notin Guarded /\ Plain /\ disk \in Disks
  BY DEF Cleans, Resting, Guarded, RestoreInv, RestoreTypeOK
<1>2. /\ disk.journal \in {"redis-complete", "rollback-complete"} /\ memory = disk.journal
      /\ JournalTells(disk, captured)
  BY <1>1 DEF RestoreInv, Ending
<1>3. CASE Attempt([disk EXCEPT !.aside = {}, !.fresh = {}, !.folderFresh = NoFolder,
                                !.folderAside = NoFolder], "end")
  <2> DEFINE next == [disk EXCEPT !.aside = {}, !.fresh = {}, !.folderFresh = NoFolder,
                                  !.folderAside = NoFolder]
  <2>1. /\ next \in Disks /\ next.journal = disk.journal /\ next.live = disk.live
        /\ next.records = disk.records /\ next.folder = disk.folder
        /\ next.aside = {} /\ next.folderAside = NoFolder
    BY <1>1 DEF Disks, Folders, RestoreAssumption
  <2>2. Attempt(next, "end")
    BY <1>3
  <2> HIDE DEF next
  <2>3. JournalTells(next, captured)
    BY <1>2, <2>1, CleanedTells
  <2>4. Forward(next, captured, "end", memory, left)
    BY DEF Forward, BeforeMark
  <2>5. Backward(next, captured, "end", memory, left)
    BY DEF Backward, FilesBackAt
  <2>6. Ending(next, captured, "end", memory, left)
    BY <1>2, <2>1 DEF Ending
  <2>7. "end" \in Steps
    BY DEF Steps, Guarded, Undoing
  <2> QED BY <1>1, <2>1, <2>2, <2>3, <2>4, <2>5, <2>6, <2>7, Moving
<1>4. ASSUME mishaps < MaxMishaps, mishaps' = mishaps + 1, Fails,
             NEW a \in SUBSET disk.aside, NEW n \in SUBSET disk.fresh,
             disk' = [disk EXCEPT !.aside = a, !.fresh = n, !.folderFresh = NoFolder]
      PROVE  RestoreInv'
  <2> DEFINE next == [disk EXCEPT !.aside = a, !.fresh = n, !.folderFresh = NoFolder]
  <2>1. /\ next \in Disks /\ next.journal = disk.journal /\ next.live = disk.live
        /\ next.records = disk.records /\ next.folder = disk.folder
        /\ next.folderAside = disk.folderAside
    BY <1>1 DEF Disks
  <2>2. disk' = next
    BY <1>4
  <2> HIDE DEF next
  <2>3. JournalTells(next, captured)
    BY <1>2, <2>1, CleanedTells
  <2>4. JournalTells(disk', captured) /\ disk' \in Disks
    BY <2>1, <2>2, <2>3
  <2>5. Throws
    BY <1>1, <1>4 DEF Throws
  <2>6. mishaps' \in 0 .. MaxMishaps
    BY <1>4 DEF RestoreInv, RestoreTypeOK, RestoreAssumption
  <2> QED BY <1>1, <2>4, <2>5, <2>6, Refusals
<1> QED BY <1>3, <1>4 DEF Cleans

LEMMA UndoneCensusKeeps ==
  ASSUME RestoreAssumption, RestoreInv, UndoneCensus
  PROVE  RestoreInv'
<1>1. step = "undone census" /\ step \notin Resting /\ step \notin Guarded /\ Plain
  BY DEF UndoneCensus, Resting, Guarded
<1>2. disk.journal = "rollback-complete" /\ memory = "rollback-complete"
  BY <1>1 DEF RestoreInv, Ending
<1>3. CASE Refuses
  BY <1>1, <1>3, Refusing
<1>4. CASE GoesTo("clean")
  <2>1. Forward(disk, captured, "clean", memory, left)
    BY DEF Forward, BeforeMark
  <2>2. Backward(disk, captured, "clean", memory, left)
    BY DEF Backward, FilesBackAt
  <2>3. Ending(disk, captured, "clean", memory, left)
    BY <1>2 DEF Ending
  <2>4. "clean" \in Steps
    BY DEF Steps, Guarded, Undoing
  <2> QED BY <1>1, <1>4, <2>1, <2>2, <2>3, <2>4, Going
<1> QED BY <1>3, <1>4 DEF UndoneCensus

\* Where nothing goes on, there is the journal to tell, and the reply.
LEMMA AtRest ==
  ASSUME RestoreTypeOK', step' \in Resting, step' = "sweep" => disk'.journal = "none",
         JournalTells(disk', captured'), ReplyIsTrue(disk', step', reply')
  PROVE  RestoreInv'
<1>1. Forward(disk', captured', step', memory', left')
  BY DEF Forward, BeforeMark, Resting
<1>2. Backward(disk', captured', step', memory', left')
  BY DEF Backward, FilesBackAt, Resting
<1>3. Ending(disk', captured', step', memory', left')
  BY DEF Ending, Resting
<1> QED BY <1>1, <1>2, <1>3 DEF RestoreInv

LEMMA EndsJournalKeeps ==
  ASSUME RestoreAssumption, RestoreInv, EndsJournal
  PROVE  RestoreInv'
<1> DEFINE next == [disk EXCEPT !.journal = "none"]
<1>1. /\ step = "end" /\ step \notin Resting /\ step \notin Guarded /\ Plain
      /\ disk \in Disks /\ reply # "restored"
  BY DEF EndsJournal, Resting, Guarded, RestoreInv, RestoreTypeOK, ReplyIsTrue
<1>2. /\ disk.journal \in {"redis-complete", "rollback-complete"} /\ memory = disk.journal
      /\ disk.aside = {} /\ disk.folderAside = NoFolder
  BY <1>1 DEF RestoreInv, Ending
<1>3. /\ next \in Disks /\ next.journal = "none" /\ next.live = disk.live
      /\ next.records = disk.records /\ next.folder = disk.folder
      /\ next.aside = disk.aside /\ next.folderAside = disk.folderAside
  BY <1>1 DEF Disks
<1>4. \/ /\ disk' = next /\ UNCHANGED mishaps
         /\ step' \in {"sweep", "idle"}
         /\ reply' = "restored" => memory = "redis-complete"
         /\ reply' \in {"none", "failed", "restored"}
      \/ /\ mishaps < MaxMishaps /\ mishaps' = mishaps + 1 /\ disk' \in {disk, next} /\ Fails
  BY <1>1 DEF EndsJournal, RestoreInv, RestoreTypeOK
<1> HIDE DEF next
<1>5. disk.journal = "redis-complete" => LiveIsNew(next) /\ RecordsNew(next)
  BY <1>3 DEF RestoreInv, JournalTells, LiveIsNew, RecordsNew
<1>6. JournalTells(next, captured)
  BY <1>2, <1>3, <1>5 DEF RestoreInv, JournalTells, LiveIsOld, RecordsOld, Begun
<1>7. CASE /\ disk' = next /\ UNCHANGED mishaps
           /\ step' \in {"sweep", "idle"}
           /\ reply' = "restored" => memory = "redis-complete"
           /\ reply' \in {"none", "failed", "restored"}
  <2>1. RestoreTypeOK'
    BY <1>1, <1>3, <1>7 DEF RestoreInv, RestoreTypeOK, Plain, Steps
  <2>2. step' \in Resting /\ disk'.journal = "none"
    BY <1>3, <1>7 DEF Resting
  <2>3. JournalTells(disk', captured')
    BY <1>1, <1>6, <1>7 DEF Plain
  <2>4. ReplyIsTrue(disk', step', reply')
    BY <1>2, <1>5, <1>7, <2>2 DEF ReplyIsTrue
  <2> QED BY <2>1, <2>2, <2>3, <2>4, AtRest
<1>8. CASE mishaps < MaxMishaps /\ mishaps' = mishaps + 1 /\ disk' \in {disk, next} /\ Fails
  <2>1. Throws
    BY <1>1, <1>8 DEF Throws
  <2>2. JournalTells(disk, captured)
    BY DEF RestoreInv
  <2>3. disk' \in Disks /\ JournalTells(disk', captured)
    BY <1>1, <1>3, <1>6, <1>8, <2>2
  <2>4. mishaps' \in 0 .. MaxMishaps
    BY <1>8 DEF RestoreInv, RestoreTypeOK, RestoreAssumption
  <2> QED BY <1>1, <2>1, <2>3, <2>4, Refusals
<1> QED BY <1>4, <1>7, <1>8

LEMMA SweepsKeeps ==
  ASSUME RestoreAssumption, RestoreInv, Sweeps
  PROVE  RestoreInv'
<1> DEFINE next == [disk EXCEPT !.fresh = {}]
<1>1. step = "sweep" /\ step \notin Guarded /\ Plain /\ disk \in Disks
  BY DEF Sweeps, Guarded, RestoreInv, RestoreTypeOK
<1>2. disk.journal = "none" /\ JournalTells(disk, captured)
  BY <1>1 DEF RestoreInv, Ending
<1>3. /\ next \in Disks /\ next.journal = disk.journal /\ next.live = disk.live
      /\ next.records = disk.records /\ next.folder = disk.folder
      /\ next.aside = disk.aside /\ next.folderAside = disk.folderAside
  BY <1>1 DEF Disks
<1>4. /\ disk' \in {disk, next} /\ step' \in {"idle", "blocked"}
      /\ reply' \in {reply, "failed"} /\ mishaps' \in 0 .. MaxMishaps
  <2>1. Attempt(next, "idle") /\ mishaps \in 0 .. MaxMishaps
    BY DEF Sweeps, RestoreInv, RestoreTypeOK
  <2> QED BY <1>1, <2>1 DEF Attempt, Throws, Fails, RestoreAssumption
<1> HIDE DEF next
<1>5. JournalTells(next, captured)
  BY <1>2, <1>3 DEF JournalTells, LiveIsOld, LiveIsNew, RecordsOld, RecordsNew, Begun
<1>6. RestoreTypeOK'
  BY <1>1, <1>3, <1>4 DEF RestoreInv, RestoreTypeOK, Plain, Steps
<1>7. step' \in Resting /\ step' # "sweep"
  BY <1>4 DEF Resting
<1>8. JournalTells(disk', captured')
  BY <1>1, <1>2, <1>4, <1>5 DEF Plain
<1>9. ReplyIsTrue(disk', step', reply')
  BY <1>2, <1>3, <1>4, <1>7 DEF RestoreInv, ReplyIsTrue, LiveIsNew, RecordsNew
<1> QED BY <1>6, <1>7, <1>8, <1>9, AtRest

-----------------------------------------------------------------------------
(* A restore begins, a recovery does, and what may happen to it all.        *)

\* All is as it was, or as the backup has it, where each part is.
LEMMA Wholes ==
  ASSUME disk \in Disks
  PROVE  /\ LiveIsOld(disk) => disk.live = [u \in Files |-> IF u \in OldFiles THEN "old" ELSE "none"]
         /\ RecordsOld(disk) => disk.records = [k \in Keys |-> IF k \in OldKeys THEN "old" ELSE "none"]
         /\ LiveIsNew(disk) /\ RecordsNew(disk) => AllNew
<1>1. disk.live \in [Files -> {"none", "old", "new"}] /\ disk.records \in [Keys -> {"none", "old", "new"}]
  BY DEF Disks
<1> QED BY <1>1 DEF LiveIsOld, LiveIsNew, RecordsOld, RecordsNew, AllNew

LEMMA StagesBackupKeeps ==
  ASSUME RestoreAssumption, RestoreInv, StagesBackup
  PROVE  RestoreInv'
<1> DEFINE staged == [disk EXCEPT !.fresh = NewFiles, !.folderFresh = Extracted]
           broken == [disk EXCEPT !.fresh = NewFiles]
<1>1. /\ step = "idle" /\ disk.journal = "none" /\ ~AllNew /\ disk \in Disks
      /\ duty' = "restore" /\ memory' = "none" /\ left' = left /\ theirs' = theirs
  BY DEF StagesBackup, RestoreInv, RestoreTypeOK
<1>2. /\ LiveIsOld(disk) /\ RecordsOld(disk) /\ disk.folder # Extracted
      /\ disk.aside = {} /\ disk.folderAside = NoFolder /\ JournalTells(disk, captured)
  BY <1>1, Wholes DEF RestoreInv, JournalTells
<1>3. reply # "restored"
  BY <1>1, Wholes DEF RestoreInv, ReplyIsTrue
<1>4. captured' = [files |-> OldFiles, folder |-> disk.folder]
  <2>1. {u \in Files : disk.live[u] # "none"} = OldFiles
    BY <1>2 DEF LiveIsOld, Files
  <2> QED BY <2>1 DEF StagesBackup
<1>5. /\ captured' \in [files : SUBSET Files, folder : Folders] /\ captured'.files = OldFiles
  BY <1>1, <1>4 DEF Disks, Files
<1>6. \A next \in {staged, broken} :
        /\ next \in Disks /\ next.journal = disk.journal /\ next.live = disk.live
        /\ next.records = disk.records /\ next.folder = disk.folder
        /\ next.aside = disk.aside /\ next.folderAside = disk.folderAside
        /\ next.fresh = NewFiles
  <2>1. NewFiles \in SUBSET NewFiles
    OBVIOUS
  <2>2. staged \in Disks /\ broken \in Disks
    BY <1>1, <2>1 DEF Disks
  <2>3. \A next \in {staged, broken} :
          /\ next.journal = disk.journal /\ next.live = disk.live
          /\ next.records = disk.records /\ next.folder = disk.folder
          /\ next.aside = disk.aside /\ next.folderAside = disk.folderAside
          /\ next.fresh = NewFiles
    BY <1>1 DEF Disks
  <2> QED BY <2>2, <2>3
<1>7. \/ disk' = staged /\ step' = "save prepared" /\ UNCHANGED <<reply, mishaps>>
      \/ /\ mishaps < MaxMishaps /\ mishaps' = mishaps + 1
         /\ disk' = broken /\ step' = "idle" /\ reply' = "failed"
  BY DEF StagesBackup
<1> HIDE DEF staged, broken
<1>8. /\ disk' \in Disks /\ disk'.journal = "none" /\ disk'.fresh = NewFiles
      /\ LiveIsOld(disk') /\ RecordsOld(disk') /\ disk'.folder # Extracted
      /\ disk'.aside = {} /\ disk'.folderAside = NoFolder
  BY <1>1, <1>2, <1>6, <1>7 DEF LiveIsOld, RecordsOld
<1>9. JournalTells(disk', captured')
  BY <1>8 DEF JournalTells, Begun
<1>10. reply' # "restored" /\ step' \in {"save prepared", "idle"}
  BY <1>3, <1>7
<1>11. RestoreTypeOK'
  <2>1. mishaps' \in 0 .. MaxMishaps
    <3>1. MaxMishaps \in Nat /\ mishaps \in 0 .. MaxMishaps
      BY DEF RestoreInv, RestoreTypeOK, RestoreAssumption
    <3>2. CASE UNCHANGED <<reply, mishaps>>
      BY <3>1, <3>2
    <3>3. CASE mishaps < MaxMishaps /\ mishaps' = mishaps + 1
      BY <3>1, <3>3
    <3> QED BY <1>7, <3>2, <3>3
  <2>2. step' \in Steps
    BY <1>10 DEF Steps
  <2>3. reply' \in {"none", "failed", "restored"}
    BY <1>7 DEF RestoreInv, RestoreTypeOK
  <2> QED BY <1>1, <1>5, <1>8, <2>1, <2>2, <2>3 DEF RestoreInv, RestoreTypeOK
<1>12. Forward(disk', captured', step', memory', left')
  BY <1>5, <1>8, <1>10 DEF Forward, BeforeMark
<1>13. Backward(disk', captured', step', memory', left')
  BY <1>10 DEF Backward, FilesBackAt
<1>14. Ending(disk', captured', step', memory', left')
  BY <1>10 DEF Ending
<1>15. ReplyIsTrue(disk', step', reply')
  BY <1>10 DEF ReplyIsTrue
<1> QED BY <1>9, <1>11, <1>12, <1>13, <1>14, <1>15 DEF RestoreInv

LEMMA RecoversKeeps ==
  ASSUME RestoreAssumption, RestoreInv, NEW for \in {"start", "inspect"}, Recovers(for)
  PROVE  RestoreInv'
<1>1. /\ step \in Resting \ {"sweep"} /\ duty' = for /\ memory' = disk.journal
      /\ UNCHANGED <<disk, captured, left, reply, mishaps, theirs>>
  BY DEF Recovers, Resting
<1>2. disk.journal \in Phases \cup {"none"} /\ JournalTells(disk, captured)
  BY DEF RestoreInv, RestoreTypeOK, Disks
<1>3. /\ step' \in {"sweep", "keep", "undone census", "census"}
      /\ step' = "sweep" <=> disk.journal = "none"
      /\ step' = "keep" <=> disk.journal = "redis-complete"
      /\ step' = "undone census" <=> disk.journal = "rollback-complete"
      /\ step' = "census" <=> disk.journal \in Begun
  BY <1>2 DEF Recovers, Begun, Phases
<1>4. RestoreTypeOK'
  <2>1. step' \in Steps
    BY <1>3 DEF Steps, Undoing
  <2> QED BY <1>1, <1>2, <2>1 DEF RestoreInv, RestoreTypeOK
<1>5. JournalTells(disk', captured')
  BY <1>1, <1>2
<1>6. Forward(disk', captured', step', memory', left')
  BY <1>3 DEF Forward, BeforeMark
<1>7. Backward(disk', captured', step', memory', left')
  BY <1>1, <1>3 DEF Backward, FilesBackAt, MarkAgrees
<1>8. Ending(disk', captured', step', memory', left')
  BY <1>1, <1>3 DEF Ending
<1>9. ReplyIsTrue(disk', step', reply')
  BY <1>1, <1>3 DEF RestoreInv, ReplyIsTrue, Resting
<1> QED BY <1>4, <1>5, <1>6, <1>7, <1>8, <1>9 DEF RestoreInv

LEMMA CrashesKeeps ==
  ASSUME RestoreAssumption, RestoreInv, Crashes
  PROVE  RestoreInv'
<1>1. /\ step' = "down" /\ memory' = "none" /\ left' = {}
      /\ mishaps < MaxMishaps /\ mishaps' = mishaps + 1
      /\ UNCHANGED <<duty, disk, captured, reply, theirs>>
  BY DEF Crashes
<1>2. RestoreTypeOK'
  <2>1. MaxMishaps \in Nat /\ mishaps \in 0 .. MaxMishaps
    BY DEF RestoreInv, RestoreTypeOK, RestoreAssumption
  <2>2. mishaps' \in 0 .. MaxMishaps
    BY <1>1, <2>1
  <2>3. step' \in Steps
    BY <1>1 DEF Steps
  <2> QED BY <1>1, <2>2, <2>3 DEF RestoreInv, RestoreTypeOK
<1>3. step' \in Resting /\ step' # "sweep"
  BY <1>1 DEF Resting
<1>4. JournalTells(disk', captured')
  BY <1>1 DEF RestoreInv
<1>5. ReplyIsTrue(disk', step', reply')
  BY <1>1, <1>3 DEF RestoreInv, ReplyIsTrue
<1> QED BY <1>2, <1>3, <1>4, <1>5, AtRest

\* Another Batshit's folder is not the one the restore extracted.
LEMMA OtherBatshitKeeps ==
  ASSUME RestoreAssumption, RestoreInv, OtherBatshit
  PROVE  RestoreInv'
<1>1. /\ theirs < MaxTheirs /\ theirs' = theirs + 1
      /\ UNCHANGED <<step, duty, memory, captured, left, reply, mishaps>>
  BY DEF OtherBatshit
<1>2. theirs' \in 0 .. MaxTheirs /\ theirs' # Extracted /\ NoFolder # Extracted
  BY <1>1 DEF RestoreInv, RestoreTypeOK, RestoreAssumption
<1>3. PICK f \in {NoFolder, theirs'} : disk' = [disk EXCEPT !.folder = f]
  BY DEF OtherBatshit
<1>4. f \in Folders \ {Extracted}
  BY <1>2 DEF Folders
<1>5. disk \in Disks
  BY DEF RestoreInv, RestoreTypeOK
<1>6. /\ disk' \in Disks /\ disk'.journal = disk.journal /\ disk'.live = disk.live
      /\ disk'.aside = disk.aside /\ disk'.fresh = disk.fresh /\ disk'.records = disk.records
      /\ disk'.folder # Extracted /\ disk'.folderAside = disk.folderAside
  BY <1>3, <1>4, <1>5 DEF Disks
<1>7. RestoreTypeOK'
  BY <1>1, <1>2, <1>6 DEF RestoreInv, RestoreTypeOK
<1>8. JournalTells(disk', captured')
  BY <1>1, <1>6
  DEF RestoreInv, JournalTells, LiveIsOld, LiveIsNew, RecordsOld, RecordsNew, FilesKept
<1>9. /\ Forward(disk', captured', step', memory', left')
      /\ Backward(disk', captured', step', memory', left')
  <2>1. /\ LiveIsOld(disk) => LiveIsOld(disk')
        /\ LiveIsNew(disk) => LiveIsNew(disk')
        /\ RecordsOld(disk) => RecordsOld(disk')
        /\ RecordsNew(disk) => RecordsNew(disk')
        /\ MarkAgrees(disk, memory) => MarkAgrees(disk', memory')
    BY Zenon, <1>1, <1>6 DEF LiveIsOld, LiveIsNew, RecordsOld, RecordsNew, MarkAgrees
  <2>2. Forward(disk', captured', step', memory', left')
    BY <1>1, <1>6, <2>1 DEF RestoreInv, Forward
  <2>3. Backward(disk', captured', step', memory', left')
    BY <1>1, <1>6, <2>1 DEF RestoreInv, Backward
  <2> QED BY <2>2, <2>3
<1>11. Ending(disk', captured', step', memory', left')
  BY <1>1, <1>6 DEF RestoreInv, Ending
<1>12. ReplyIsTrue(disk', step', reply')
  BY <1>1, <1>6 DEF RestoreInv, ReplyIsTrue, LiveIsNew, RecordsNew
<1> QED BY <1>7, <1>8, <1>9, <1>11, <1>12 DEF RestoreInv

-----------------------------------------------------------------------------
(* What is proved.                                                          *)

LEMMA RestoreInvAtFirst ==
  ASSUME RestoreAssumption, RestoreInit
  PROVE  RestoreInv
<1>1. /\ step = "idle" /\ duty = "start" /\ memory = "none" /\ left = {} /\ reply = "none"
      /\ mishaps = 0 /\ theirs = 0 /\ captured = [files |-> {}, folder |-> NoFolder]
  BY DEF RestoreInit
<1>2. PICK f \in {NoFolder, 0} :
        disk = [ journal |-> "none",
                 live |-> [u \in Files |-> IF u \in OldFiles THEN "old" ELSE "none"],
                 aside |-> {}, fresh |-> {},
                 records |-> [k \in Keys |-> IF k \in OldKeys THEN "old" ELSE "none"],
                 folder |-> f, folderFresh |-> NoFolder, folderAside |-> NoFolder,
                 kept |-> NoFolder ]
  BY DEF RestoreInit
<1>3. f \in Folders \ {Extracted} /\ NoFolder \in Folders \ {Extracted}
  BY DEF Folders, RestoreAssumption
<1>4. disk \in Disks
  BY <1>2, <1>3 DEF Disks
<1>5. RestoreTypeOK
  BY <1>1, <1>4 DEF RestoreTypeOK, Steps, RestoreAssumption, Folders
<1>6. JournalTells(disk, captured)
  BY <1>2, <1>3 DEF JournalTells, LiveIsOld, RecordsOld, Begun
<1>7. /\ Forward(disk, captured, step, memory, left)
      /\ Backward(disk, captured, step, memory, left)
      /\ Ending(disk, captured, step, memory, left)
  BY <1>1 DEF Forward, Backward, Ending, BeforeMark, FilesBackAt
<1>8. ReplyIsTrue(disk, step, reply)
  BY <1>1 DEF ReplyIsTrue
<1> QED BY <1>5, <1>6, <1>7, <1>8 DEF RestoreInv

LEMMA RestoreStepKeeps ==
  ASSUME RestoreAssumption, ~MarkMayBeLost, RestoreInv, [RestoreNext]_restoreVars
  PROVE  RestoreInv'
<1>1. CASE Proceeds
  BY <1>1, SavesPhaseKeeps, LooksKeeps, FilesOutKeeps, FolderOutKeeps, FilesInKeeps,
     FolderInKeeps, RecordsGoKeeps, WritesNewKeeps, WritesOldKeeps, CensusKeeps,
     FilesCensusKeeps, FilesBackKeeps, UndoesFolderKeeps, KeepsFolderKeeps, CleansKeeps,
     EndsJournalKeeps, UndoneCensusKeeps, SweepsKeeps DEF Proceeds, WritesRecord
<1>2. CASE StagesBackup
  BY <1>2, StagesBackupKeeps
<1>3. CASE Recovers("start") \/ Recovers("inspect")
  BY <1>3, RecoversKeeps
<1>4. CASE Crashes
  BY <1>4, CrashesKeeps
<1>5. CASE OtherBatshit
  BY <1>5, OtherBatshitKeeps
<1>6. CASE UNCHANGED restoreVars
  <2>1. UNCHANGED <<step, duty, disk, memory, captured, left, reply, mishaps, theirs>>
    BY <1>6 DEF restoreVars
  <2>2. RestoreTypeOK'
    BY <2>1 DEF RestoreInv, RestoreTypeOK
  <2>3. JournalTells(disk', captured')
    BY <2>1 DEF RestoreInv
  <2>4. Forward(disk', captured', step', memory', left')
    BY <2>1 DEF RestoreInv
  <2>5. Backward(disk', captured', step', memory', left')
    BY <2>1 DEF RestoreInv
  <2>6. Ending(disk', captured', step', memory', left')
    BY <2>1 DEF RestoreInv
  <2>7. ReplyIsTrue(disk', step', reply')
    BY <2>1 DEF RestoreInv
  <2> QED BY <2>2, <2>3, <2>4, <2>5, <2>6, <2>7 DEF RestoreInv
<1> QED BY <1>1, <1>2, <1>3, <1>4, <1>5, <1>6 DEF RestoreNext

LEMMA RestoreInvIsWhole ==
  ASSUME RestoreInv
  PROVE  RestoreIsWhole
<1>1. disk \in Disks /\ JournalTells(disk, captured)
  BY DEF RestoreInv, RestoreTypeOK
<1>2. step = "idle" /\ disk.journal = "none" => AllOld \/ AllNew
  BY <1>1, Wholes DEF JournalTells, AllOld
<1>3. reply = "restored" => AllNew
  BY <1>1, Wholes DEF RestoreInv, ReplyIsTrue
<1>4. AllNew \/ \A u \in OldFiles : disk.live[u] = "old" \/ u \in disk.aside
  <2>1. disk.journal \in {"none", "redis-complete", "rollback-complete"} \cup Begun
    BY <1>1 DEF Disks, Phases, Begun
  <2>2. LiveIsOld(disk) => \A u \in OldFiles : disk.live[u] = "old"
    BY DEF LiveIsOld, Files
  <2>3. FilesKept(disk) => \A u \in OldFiles : disk.live[u] = "old" \/ u \in disk.aside
    BY DEF FilesKept
  <2> QED BY <1>1, <2>1, <2>2, <2>3, Wholes DEF JournalTells
<1> QED BY <1>2, <1>3, <1>4 DEF RestoreIsWhole

\* The types of a restore's state, where the mark's save has its effect when it fails.
THEOREM RestoreTypes ==
  ASSUME ~MarkMayBeLost
  PROVE  RestoreSpec => []RestoreTypeOK
<1>1. RestoreInit => RestoreInv
  BY RestoreInvAtFirst, RestoreAssumption
<1>2. RestoreInv /\ [RestoreNext]_restoreVars => RestoreInv'
  BY RestoreStepKeeps, RestoreAssumption
<1>3. RestoreInv => RestoreTypeOK
  BY DEF RestoreInv
<1> QED BY <1>1, <1>2, <1>3, PTL DEF RestoreSpec

\* Whatever fails, dies and is recovered in whatever order, and whatever another Batshit
\* does: all was replaced or nothing once no journal is left, a restore that answered so
\* replaced all, and no upload that was there is lost before all is replaced
\* (restoreBackupLocked, rollbackFiles and recoverRestoreJournals); where the save of
\* the mark that the records are being replaced has its effect when it fails.
THEOREM RestoresAreWhole ==
  ASSUME ~MarkMayBeLost
  PROVE  RestoreSpec => []RestoreIsWhole
<1>1. RestoreInit => RestoreInv
  BY RestoreInvAtFirst, RestoreAssumption
<1>2. RestoreInv /\ [RestoreNext]_restoreVars => RestoreInv'
  BY RestoreStepKeeps, RestoreAssumption
<1>3. RestoreInv => RestoreIsWhole
  BY RestoreInvIsWhole
<1> QED BY <1>1, <1>2, <1>3, PTL DEF RestoreSpec

-----------------------------------------------------------------------------
(* The folders.                                                             *)

BeforeFolder == {"save prepared", "check", "files out", "look out", "folder out"}

\* Nothing is aside before the folder is moved, and when a restore is over; and a folder
\* is kept only of a restore that replaced all.
FoldersInv ==
  /\ step \in BeforeFolder \cup {"clean", "end"} => disk.folderAside = NoFolder
  /\ disk.kept # NoFolder =>
       /\ step \in Resting \cup {"keep", "clean", "end"}
       /\ disk.journal \in {"none", "redis-complete"} /\ LiveIsNew(disk) /\ RecordsNew(disk)
       /\ disk.folderAside = NoFolder

SameFolders(d, e) == e.folder = d.folder /\ e.folderAside = d.folderAside /\ e.kept = d.kept

\* What each step has to keep of them.
Kept == FoldersInv' /\ FoldersOf(disk) \subseteq FoldersOf(disk')

\* A step amid a restore or its undoing that does not touch the folders.
LEMMA Apart ==
  ASSUME FoldersInv, NEW STATE next, NEW STATE place, Attempt(next, place),
         step \notin Resting \cup {"keep", "clean", "end"},
         SameFolders(disk, next),
         place \in BeforeFolder \cup {"clean", "end"} => disk.folderAside = NoFolder
  PROVE  Kept
<1>1. disk.kept = NoFolder
  BY DEF FoldersInv
<1>2. /\ disk'.kept = NoFolder /\ disk'.folderAside = disk.folderAside
      /\ disk'.folder = disk.folder
  BY <1>1 DEF Attempt, SameFolders
<1>3. step' = place \/ step' \in {"census", "blocked", "idle"}
  BY DEF Attempt, Throws, Fails
<1>4. step' \in BeforeFolder \cup {"clean", "end"} => disk'.folderAside = NoFolder
  BY <1>2, <1>3 DEF BeforeFolder
<1>5. FoldersInv'
  BY <1>2, <1>4 DEF FoldersInv
<1>6. FoldersOf(disk) \subseteq FoldersOf(disk')
  BY <1>1, <1>2 DEF FoldersOf
<1> QED BY <1>5, <1>6 DEF Kept

LEMMA ApartRefused ==
  ASSUME FoldersInv, Refuses, step \notin Resting \cup {"clean", "end"}
  PROVE  Kept
<1>1. disk' = disk /\ step' \in {"census", "blocked", "idle"}
  BY DEF Refuses, Throws, Fails
<1>2. step' = "census" => step \in Guarded
  BY DEF Refuses, Throws, Fails
<1>3. disk.kept # NoFolder => step' \in Resting
  BY <1>1, <1>2 DEF FoldersInv, Resting, Guarded
<1>4. step' \notin BeforeFolder \cup {"clean", "end"}
  BY <1>1 DEF BeforeFolder
<1>5. FoldersInv'
  BY <1>1, <1>3, <1>4 DEF FoldersInv, LiveIsNew, RecordsNew
<1>6. FoldersOf(disk) \subseteq FoldersOf(disk')
  BY <1>1
<1> QED BY <1>5, <1>6 DEF Kept

LEMMA UploadsAreApart ==
  ASSUME RestoreInv, FoldersInv, FilesOut \/ FilesIn \/ FilesCensus \/ FilesBack
  PROVE  Kept
<1>1. /\ disk \in Disks /\ step \in {"files out", "files in", "undo files", "files back"}
      /\ step \notin Resting \cup {"keep", "clean", "end"}
  BY DEF RestoreInv, RestoreTypeOK, FilesOut, FilesIn, FilesCensus, FilesBack, Resting
<1>2. step = "files out" => disk.folderAside = NoFolder
  BY DEF FoldersInv, BeforeFolder
<1>3. CASE FilesOut
  <2>1. PICK next : /\ SameFolders(disk, next)
                    /\ Attempt(next, "look out") \/ Attempt(next, "files out")
    BY <1>1, <1>3 DEF FilesOut, GoesTo, SameFolders, Disks
  <2>2. disk.folderAside = NoFolder
    BY <1>2, <1>3 DEF FilesOut
  <2> QED BY <1>1, <2>1, <2>2, Apart
<1>4. CASE FilesIn
  <2>1. PICK next : /\ SameFolders(disk, next)
                    /\ Attempt(next, "look in") \/ Attempt(next, "files in")
    BY <1>1, <1>4 DEF FilesIn, GoesTo, SameFolders, Disks
  <2>2. {"look in", "files in"} \cap (BeforeFolder \cup {"clean", "end"}) = {}
    BY DEF BeforeFolder
  <2> QED BY <1>1, <2>1, <2>2, Apart
<1>5. CASE FilesCensus
  <2>1. CASE Refuses
    BY <1>1, <2>1, ApartRefused
  <2>2. CASE Attempt(disk, "files back")
    BY <1>1, <2>2, Apart DEF SameFolders, BeforeFolder
  <2> QED BY <1>5, <2>1, <2>2 DEF FilesCensus, GoesTo
<1>6. CASE FilesBack
  <2>1. PICK next : /\ SameFolders(disk, next)
                    /\ Attempt(next, "undo folder") \/ Attempt(next, "files back")
    BY <1>1, <1>6 DEF FilesBack, GoesTo, SameFolders, Disks
  <2>2. {"undo folder", "files back"} \cap (BeforeFolder \cup {"clean", "end"}) = {}
    BY DEF BeforeFolder
  <2> QED BY <1>1, <2>1, <2>2, Apart
<1> QED BY <1>3, <1>4, <1>5, <1>6

LEMMA RecordsAreApart ==
  ASSUME RestoreInv, FoldersInv, RecordsGo \/ WritesRecord \/ Census
  PROVE  Kept
<1>1. /\ disk \in Disks /\ step \notin Resting \cup {"keep", "clean", "end"}
  BY DEF RestoreInv, RestoreTypeOK, RecordsGo, WritesRecord, Census, Resting
<1>2. {"write", "rewrite", "save complete", "undo records", "undo files"}
        \cap (BeforeFolder \cup {"clean", "end"}) = {}
  BY DEF BeforeFolder
<1>3. CASE RecordsGo
  <2>1. PICK next : /\ SameFolders(disk, next)
                    /\ Attempt(next, "write") \/ Attempt(next, "rewrite")
    BY <1>1, <1>3 DEF RecordsGo, SameFolders, Disks
  <2> QED BY <1>1, <1>2, <2>1, Apart
<1>4. CASE WritesRecord
  <2>1. step \in {"write", "rewrite"}
    BY <1>4 DEF WritesRecord
  <2>2. PICK next, place :
          /\ SameFolders(disk, next) /\ Attempt(next, place)
          /\ place \in {"save complete", "undo files", "write", "rewrite"}
    <3>1. CASE left = {} /\ GoesTo(IF step = "write" THEN "save complete" ELSE "undo files")
      BY <3>1 DEF GoesTo, SameFolders
    <3>2. ASSUME NEW k \in left, Attempt([disk EXCEPT !.records[k] = "none"], step)
          PROVE  \E next, place :
                   /\ SameFolders(disk, next) /\ Attempt(next, place)
                   /\ place \in {"save complete", "undo files", "write", "rewrite"}
      <4>1. SameFolders(disk, [disk EXCEPT !.records[k] = "none"])
        BY <1>1 DEF SameFolders, Disks
      <4> QED BY <2>1, <3>2, <4>1
    <3>3. ASSUME NEW k \in left,
                 Attempt([disk EXCEPT !.records[k] = IF step = "write" THEN "new" ELSE "old"],
                         step)
          PROVE  \E next, place :
                   /\ SameFolders(disk, next) /\ Attempt(next, place)
                   /\ place \in {"save complete", "undo files", "write", "rewrite"}
      <4>1. SameFolders(disk, [disk EXCEPT !.records[k] = IF step = "write" THEN "new" ELSE "old"])
        BY <1>1 DEF SameFolders, Disks
      <4> QED BY <2>1, <3>3, <4>1
    <3> QED BY <1>4, <3>1, <3>2, <3>3 DEF WritesRecord
  <2> QED BY <1>1, <1>2, <2>2, Apart
<1>5. CASE Census
  <2>1. CASE Refuses
    BY <1>1, <2>1, ApartRefused
  <2>2. CASE Attempt(disk, "undo records") \/ Attempt(disk, "undo files")
    BY <1>1, <1>2, <2>2, Apart DEF SameFolders
  <2> QED BY <1>5, <2>1, <2>2 DEF Census, GoesTo
<1> QED BY <1>3, <1>4, <1>5

LEMMA SavesAreApart ==
  ASSUME RestoreInv, FoldersInv, SavesPhase
  PROVE  Kept
<1>1. PICK s \in Saves : step = s[1] /\ Attempt([disk EXCEPT !.journal = s[2]], s[3])
  BY DEF SavesPhase
<1> DEFINE next == [disk EXCEPT !.journal = s[2]]
<1>2. SameFolders(disk, next) /\ Attempt(next, s[3])
  BY <1>1 DEF RestoreInv, RestoreTypeOK, SameFolders, Disks
<1> HIDE DEF next
<1>3. /\ s[1] \notin Resting \cup {"keep", "clean", "end"}
      /\ s[3] \in BeforeFolder \cup {"clean", "end"} =>
           s[1] = "save prepared" \/ s[1] = "save undone"
  <2>1. CASE s = <<"save prepared", "prepared", "check">>
    BY <2>1 DEF Resting
  <2>2. CASE s = <<"save moved", "files-old-moved", "files in">>
    BY <2>2 DEF Resting, BeforeFolder
  <2>3. CASE s = <<"save swapped", "files-swapped", "save mark">>
    BY <2>3 DEF Resting, BeforeFolder
  <2>4. CASE s = <<"save mark", "redis-replacing", "delete">>
    BY <2>4 DEF Resting, BeforeFolder
  <2>5. CASE s = <<"save complete", "redis-complete", "keep">>
    BY <2>5 DEF Resting, BeforeFolder
  <2>6. CASE s = <<"save undone", "rollback-complete", "clean">>
    BY <2>6 DEF Resting
  <2> QED BY Zenon, OneOfSix, <2>1, <2>2, <2>3, <2>4, <2>5, <2>6 DEF Saves
<1>4. step = "save prepared" \/ step = "save undone" => disk.folderAside = NoFolder
  BY DEF RestoreInv, Backward, FoldersInv, BeforeFolder
<1> QED BY <1>1, <1>2, <1>3, <1>4, Apart

LEMMA FolderMoves ==
  ASSUME RestoreAssumption, RestoreInv, FoldersInv, Looks \/ FolderOut \/ FolderIn
  PROVE  Kept
<1>1. /\ disk \in Disks /\ disk.kept = NoFolder
      /\ step \in {"check", "look out", "look in", "folder out", "folder in"}
      /\ step \notin Resting \cup {"keep", "clean", "end"}
      /\ step \in {"check", "look out", "folder out"} => disk.folderAside = NoFolder
  BY DEF RestoreInv, RestoreTypeOK, FoldersInv, Looks, FolderOut, FolderIn, Resting, BeforeFolder
<1>2. CASE Refuses
  BY <1>1, <1>2, ApartRefused
<1>3. CASE Looks
  <2>1. \/ Refuses
        \/ step = "check" /\ Attempt(disk, "files out")
        \/ step = "look out" /\ (Attempt(disk, "save moved") \/ Attempt(disk, "folder out"))
        \/ step = "look in" /\ Attempt(disk, "folder in")
    BY <1>3 DEF Looks, GoesTo
  <2>2. SameFolders(disk, disk) /\ "folder in" \notin BeforeFolder
    BY DEF SameFolders, BeforeFolder
  <2>3. CASE step = "look in" /\ Attempt(disk, "folder in")
    BY <1>1, <2>2, <2>3, Apart
  <2> QED BY <1>1, <1>2, <2>1, <2>2, <2>3, Apart
<1>4. CASE FolderOut
  <2> DEFINE moved == [disk EXCEPT !.folder = NoFolder, !.folderAside = disk.folder]
  <2>1. /\ moved.folder = NoFolder /\ moved.folderAside = disk.folder /\ moved.kept = disk.kept
    BY <1>1 DEF Disks
  <2>2. step = "folder out" /\ disk.folderAside = NoFolder
    BY <1>1, <1>4 DEF FolderOut
  <2>3. \/ Refuses
        \/ Attempt(moved, "save moved")
        \/ disk' = moved /\ Throws /\ mishaps' = mishaps
    BY <1>4 DEF FolderOut
  <2> HIDE DEF moved
  <2>4. CASE \/ Attempt(moved, "save moved")
             \/ disk' = moved /\ Throws /\ mishaps' = mishaps
    <3>1. /\ disk' \in {disk, moved} /\ step' \in {"save moved", "census", "blocked", "idle"}
      BY <2>4 DEF Attempt, Throws, Fails
    <3>2. disk'.kept = NoFolder /\ FoldersOf(disk) \subseteq FoldersOf(disk')
      BY <1>1, <2>1, <2>2, <3>1 DEF FoldersOf
    <3>3. FoldersInv'
      BY <3>1, <3>2 DEF FoldersInv, BeforeFolder
    <3> QED BY <3>2, <3>3 DEF Kept
  <2> QED BY <1>2, <2>3, <2>4
<1>5. CASE FolderIn
  <2> DEFINE moved == [disk EXCEPT !.folder = Extracted, !.folderFresh = NoFolder]
  <2>1. /\ moved.folder = Extracted /\ moved.folderAside = disk.folderAside
        /\ moved.kept = disk.kept
    BY <1>1 DEF Disks
  <2>2. Refuses \/ (disk.folder = NoFolder /\ Attempt(moved, "save swapped"))
    BY <1>5 DEF FolderIn
  <2> HIDE DEF moved
  <2>3. CASE disk.folder = NoFolder /\ Attempt(moved, "save swapped")
    <3>1. /\ disk' \in {disk, moved} /\ step' \in {"save swapped", "census", "blocked", "idle"}
      BY <2>3 DEF Attempt, Throws, Fails
    <3>2. disk'.kept = NoFolder /\ FoldersOf(disk) \subseteq FoldersOf(disk')
      BY <1>1, <2>1, <2>3, <3>1 DEF FoldersOf
    <3>3. FoldersInv'
      BY <3>1, <3>2 DEF FoldersInv, BeforeFolder
    <3> QED BY <3>2, <3>3 DEF Kept
  <2> QED BY <1>2, <2>2, <2>3
<1> QED BY <1>3, <1>4, <1>5

LEMMA UndoingMoves ==
  ASSUME RestoreAssumption, RestoreInv, FoldersInv, UndoesFolder
  PROVE  /\ FoldersInv'
         /\ FoldersOf(disk) \subseteq FoldersOf(disk') \/ step = "remove folder"
<1>1. /\ disk \in Disks /\ disk.kept = NoFolder
      /\ step \in {"undo folder", "remove folder", "look back", "folder back"}
      /\ step \notin Resting \cup {"keep", "clean", "end"}
  BY DEF RestoreInv, RestoreTypeOK, FoldersInv, UndoesFolder, Resting
<1>2. CASE Refuses
  BY <1>1, <1>2, ApartRefused DEF Kept
<1>3. CASE \/ Attempt(disk, "remove folder") \/ Attempt(disk, "look back")
           \/ Attempt(disk, "save undone") \/ Attempt(disk, "folder back")
  <2>1. SameFolders(disk, disk)
    BY DEF SameFolders
  <2>2. {"remove folder", "look back", "save undone", "folder back"}
          \cap (BeforeFolder \cup {"clean", "end"}) = {}
    BY DEF BeforeFolder
  <2> QED BY <1>1, <1>3, <2>1, <2>2, Apart DEF Kept
<1>4. CASE step = "remove folder" /\ Attempt([disk EXCEPT !.folder = NoFolder], "look back")
  <2>1. disk'.kept = NoFolder /\ step' \in {"look back", "census", "blocked", "idle"}
    BY <1>1, <1>4 DEF Attempt, Throws, Fails, Disks
  <2> QED BY <1>4, <2>1 DEF FoldersInv, BeforeFolder
<1>5. CASE /\ disk.folder = NoFolder
           /\ Attempt([disk EXCEPT !.folder = disk.folderAside, !.folderAside = NoFolder],
                      "save undone")
  <2> DEFINE moved == [disk EXCEPT !.folder = disk.folderAside, !.folderAside = NoFolder]
  <2>1. /\ moved.folder = disk.folderAside /\ moved.folderAside = NoFolder
        /\ moved.kept = disk.kept
    BY <1>1 DEF Disks
  <2>2. disk' \in {disk, moved} /\ step' \in {"save undone", "census", "blocked", "idle"}
    BY <1>5 DEF Attempt, Throws, Fails
  <2> HIDE DEF moved
  <2>3. disk'.kept = NoFolder /\ FoldersOf(disk) \subseteq FoldersOf(disk')
    BY <1>1, <1>5, <2>1, <2>2 DEF FoldersOf
  <2> QED BY <2>2, <2>3 DEF FoldersInv, BeforeFolder
<1> QED BY <1>2, <1>3, <1>4, <1>5 DEF UndoesFolder, GoesTo

\* What is cleaned up is in its place, or was left by a restore that was undone.
LEMMA CleaningKeeps ==
  ASSUME RestoreAssumption, RestoreInv, FoldersInv,
         KeepsFolder \/ Cleans \/ EndsJournal \/ UndoneCensus \/ Sweeps
  PROVE  Kept
<1>1. /\ disk \in Disks
      /\ step \in {"keep", "clean", "end", "undone census", "sweep"} /\ step \notin Guarded
  BY DEF RestoreInv, RestoreTypeOK, KeepsFolder, Cleans, EndsJournal, UndoneCensus, Sweeps, Guarded
<1>2. CASE UndoneCensus
  <2>1. step = "undone census" /\ step \notin Resting \cup {"keep", "clean", "end"}
    BY <1>2 DEF UndoneCensus, Resting
  <2>2. disk.folderAside = NoFolder
    BY <2>1 DEF RestoreInv, Ending, JournalTells
  <2>3. CASE Refuses
    BY <2>1, <2>3, ApartRefused
  <2>4. CASE Attempt(disk, "clean")
    BY <2>1, <2>2, <2>4, Apart DEF SameFolders
  <2> QED BY <1>2, <2>3, <2>4 DEF UndoneCensus, GoesTo
<1>3. CASE KeepsFolder
  <2> DEFINE moved == [disk EXCEPT !.kept = IF disk.folderAside = NoFolder THEN @
                                            ELSE disk.folderAside,
                                   !.folderAside = NoFolder]
  <2>1. /\ moved.folder = disk.folder /\ moved.folderAside = NoFolder
        /\ moved.kept = IF disk.folderAside = NoFolder THEN disk.kept ELSE disk.folderAside
        /\ moved.journal = disk.journal /\ moved.live = disk.live /\ moved.records = disk.records
    BY <1>1 DEF Disks
  <2>2. step = "keep" /\ (Refuses \/ Attempt(moved, "clean"))
    BY <1>3 DEF KeepsFolder
  <2> HIDE DEF moved
  <2>3. CASE Refuses
    <3>1. step \notin Resting \cup {"clean", "end"}
      BY <2>2 DEF Resting
    <3> QED BY <2>3, <3>1, ApartRefused
  <2>4. CASE Attempt(moved, "clean")
    <3>1. /\ disk' \in {disk, moved} /\ step' \in {"clean", "blocked", "idle"}
          /\ step' = "clean" => disk' = moved
      BY <1>1, <2>4 DEF Attempt, Throws, Fails
    <3>2. disk.journal = "redis-complete" /\ LiveIsNew(disk) /\ RecordsNew(disk)
      BY <2>2 DEF RestoreInv, Ending, JournalTells
    <3>3. /\ disk'.journal = "redis-complete" /\ LiveIsNew(disk') /\ RecordsNew(disk')
      BY <2>1, <3>1, <3>2 DEF LiveIsNew, RecordsNew
    <3>4. disk.kept # NoFolder => disk.folderAside = NoFolder
      BY DEF FoldersInv
    <3>5. /\ FoldersOf(disk) \subseteq FoldersOf(disk')
          /\ disk'.kept # NoFolder => disk'.folderAside = NoFolder
          /\ step' = "clean" => disk'.folderAside = NoFolder
      BY <2>1, <3>1, <3>4 DEF FoldersOf
    <3>6. step' \in Resting \cup {"clean"} /\ step' \notin BeforeFolder \cup {"end"}
      BY <3>1 DEF Resting, BeforeFolder
    <3>7. FoldersInv'
      BY <3>3, <3>5, <3>6 DEF FoldersInv
    <3> QED BY <3>5, <3>7 DEF Kept
  <2> QED BY <2>2, <2>3, <2>4
<1>4. CASE Cleans \/ EndsJournal \/ Sweeps
  <2>1. /\ disk'.folder = disk.folder /\ disk'.kept = disk.kept
        /\ disk'.folderAside \in {disk.folderAside, NoFolder}
        /\ disk'.live = disk.live /\ disk'.records = disk.records
        /\ disk'.journal \in {disk.journal, "none"}
        /\ step' \in {"end", "sweep", "idle", "blocked"}
        /\ step' = "end" => disk'.folderAside = NoFolder
    <3>1. CASE Cleans
      <4>1. /\ step' \in {"end", "idle", "blocked"}
            /\ \/ disk' = disk /\ step' # "end"
               \/ disk' = [disk EXCEPT !.aside = {}, !.fresh = {}, !.folderFresh = NoFolder,
                                       !.folderAside = NoFolder]
               \/ /\ step' # "end"
                  /\ \E a \in SUBSET disk.aside, n \in SUBSET disk.fresh :
                       disk' = [disk EXCEPT !.aside = a, !.fresh = n, !.folderFresh = NoFolder]
        BY <1>1, <3>1 DEF Cleans, Attempt, Throws, Fails
      <4> QED BY <1>1, <4>1 DEF Disks
    <3>2. CASE EndsJournal
      <4>1. /\ step' \in {"sweep", "idle", "blocked"}
            /\ disk' \in {disk, [disk EXCEPT !.journal = "none"]}
        BY <3>2 DEF EndsJournal, Fails
      <4> QED BY <1>1, <4>1 DEF Disks
    <3>3. CASE Sweeps
      <4>1. /\ step' \in {"idle", "blocked"} /\ disk' \in {disk, [disk EXCEPT !.fresh = {}]}
        BY <1>1, <3>3 DEF Sweeps, Attempt, Throws, Fails
      <4> QED BY <1>1, <4>1 DEF Disks
    <3> QED BY <1>4, <3>1, <3>2, <3>3
  <2>2. disk.folderAside = NoFolder
    <3>1. CASE step \in {"clean", "end"}
      BY <3>1 DEF FoldersInv
    <3>2. CASE step = "sweep"
      BY <3>2 DEF RestoreInv, Ending, JournalTells
    <3> QED BY <1>4, <3>1, <3>2 DEF Cleans, EndsJournal, Sweeps
  <2>3. FoldersOf(disk) \subseteq FoldersOf(disk')
    BY <2>1, <2>2 DEF FoldersOf
  <2>4. step' \in Resting \cup {"end"} /\ disk'.folderAside = NoFolder
    BY <2>1, <2>2 DEF Resting
  <2>5. disk'.kept # NoFolder =>
          disk'.journal \in {"none", "redis-complete"} /\ LiveIsNew(disk') /\ RecordsNew(disk')
    BY <2>1 DEF FoldersInv, LiveIsNew, RecordsNew
  <2>6. FoldersInv'
    BY <2>4, <2>5 DEF FoldersInv
  <2> QED BY <2>3, <2>6 DEF Kept
<1> QED BY <1>2, <1>3, <1>4

LEMMA BeginningsKeep ==
  ASSUME RestoreAssumption, RestoreInv, FoldersInv,
         StagesBackup \/ (\E for \in {"start", "inspect"} : Recovers(for)) \/ Crashes
  PROVE  Kept
<1>1. disk \in Disks
  BY DEF RestoreInv, RestoreTypeOK
<1>2. CASE StagesBackup
  <2>1. /\ ~AllNew /\ disk.journal = "none"
        /\ disk' \in {[disk EXCEPT !.fresh = NewFiles, !.folderFresh = Extracted],
                      [disk EXCEPT !.fresh = NewFiles]}
    BY <1>2 DEF StagesBackup
  <2>2. disk.kept = NoFolder /\ disk.folderAside = NoFolder
    BY <1>1, <2>1, Wholes DEF FoldersInv, RestoreInv, JournalTells
  <2>3. disk'.kept = NoFolder /\ disk'.folderAside = NoFolder /\ disk'.folder = disk.folder
    BY <1>1, <2>1, <2>2 DEF Disks
  <2> QED BY <2>2, <2>3 DEF Kept, FoldersInv, FoldersOf
<1>3. CASE \E for \in {"start", "inspect"} : Recovers(for)
  <2>1. /\ disk' = disk
        /\ step' = CASE disk.journal = "none" -> "sweep"
                     [] disk.journal = "redis-complete" -> "keep"
                     [] disk.journal = "rollback-complete" -> "undone census"
                     [] OTHER -> "census"
    BY <1>3 DEF Recovers
  <2>2. /\ step' \in {"sweep", "keep", "undone census", "census"}
        /\ disk.journal \in {"none", "redis-complete"} => step' \in {"sweep", "keep"}
    BY <2>1
  <2>3. FoldersInv'
    BY <2>1, <2>2 DEF FoldersInv, BeforeFolder, Resting, LiveIsNew, RecordsNew
  <2>4. FoldersOf(disk) \subseteq FoldersOf(disk')
    BY <2>1
  <2> QED BY <2>3, <2>4 DEF Kept
<1>4. CASE Crashes
  <2>1. disk' = disk /\ step' = "down"
    BY <1>4 DEF Crashes
  <2>2. FoldersInv'
    BY <2>1 DEF FoldersInv, BeforeFolder, Resting, LiveIsNew, RecordsNew
  <2>3. FoldersOf(disk) \subseteq FoldersOf(disk')
    BY <2>1
  <2> QED BY <2>2, <2>3 DEF Kept
<1> QED BY <1>2, <1>3, <1>4

LEMMA FoldersStep ==
  ASSUME RestoreAssumption, RestoreInv, FoldersInv, [RestoreNext]_restoreVars
  PROVE  /\ FoldersInv'
         /\ \/ FoldersOf(disk) \subseteq FoldersOf(disk') \/ theirs' # theirs
            \/ step = "remove folder"
            \/ UNCHANGED restoreVars
<1>1. CASE SavesPhase
  BY <1>1, SavesAreApart DEF Kept
<1>2. CASE FilesOut \/ FilesIn \/ FilesCensus \/ FilesBack
  BY <1>2, UploadsAreApart DEF Kept
<1>3. CASE RecordsGo \/ WritesRecord \/ Census
  BY <1>3, RecordsAreApart DEF Kept
<1>4. CASE Looks \/ FolderOut \/ FolderIn
  BY <1>4, FolderMoves DEF Kept
<1>5. CASE UndoesFolder
  BY <1>5, UndoingMoves
<1>6. CASE KeepsFolder \/ Cleans \/ EndsJournal \/ UndoneCensus \/ Sweeps
  BY <1>6, CleaningKeeps DEF Kept
<1>7. CASE StagesBackup \/ Recovers("start") \/ Recovers("inspect") \/ Crashes
  BY <1>7, BeginningsKeep DEF Kept
<1>8. CASE OtherBatshit
  <2>1. theirs' # theirs /\ step' = step
    BY <1>8 DEF OtherBatshit, RestoreInv, RestoreTypeOK
  <2>2. PICK f : disk' = [disk EXCEPT !.folder = f]
    BY <1>8 DEF OtherBatshit
  <2>3. /\ disk'.kept = disk.kept /\ disk'.folderAside = disk.folderAside
        /\ disk'.journal = disk.journal /\ disk'.live = disk.live /\ disk'.records = disk.records
    BY <2>2 DEF RestoreInv, RestoreTypeOK, Disks
  <2>4. FoldersInv'
    BY <2>1, <2>3 DEF FoldersInv, LiveIsNew, RecordsNew
  <2> QED BY <2>1, <2>4
<1>9. CASE UNCHANGED restoreVars
  <2>1. disk' = disk /\ step' = step
    BY <1>9 DEF restoreVars
  <2> QED BY <1>9, <2>1 DEF FoldersInv, LiveIsNew, RecordsNew
<1> QED BY <1>1, <1>2, <1>3, <1>4, <1>5, <1>6, <1>7, <1>8, <1>9 DEF RestoreNext, Proceeds

\* No step of a restore, of its undoing, of a recovery or of the cleaning up loses a
\* folder that was there (moveHostOriginalsAside, restoreHostFolders and
\* keepReplacedHostFolders), but for the removal of what took the extracted one's place
\* after the undoing looked; where the mark's save has its effect when it fails.
THEOREM FoldersStay ==
  ASSUME ~MarkMayBeLost
  PROVE  RestoreSpec => FoldersAreKept
<1>1. RestoreInit => RestoreInv /\ FoldersInv
  <2>1. RestoreInit => step = "idle" /\ disk.kept = NoFolder
    BY DEF RestoreInit
  <2>2. RestoreInit => FoldersInv
    BY <2>1 DEF FoldersInv, BeforeFolder
  <2> QED BY <2>2, RestoreInvAtFirst, RestoreAssumption
<1>2. RestoreInv /\ FoldersInv /\ [RestoreNext]_restoreVars => RestoreInv' /\ FoldersInv'
  BY RestoreStepKeeps, FoldersStep, RestoreAssumption
<1>3. RestoreInv /\ FoldersInv /\ [RestoreNext]_restoreVars =>
        [ \/ FoldersOf(disk) \subseteq FoldersOf(disk') \/ theirs' # theirs
          \/ step = "remove folder" ]_restoreVars
  BY FoldersStep, RestoreAssumption
<1> QED BY <1>1, <1>2, <1>3, PTL DEF RestoreSpec, FoldersAreKept
=============================================================================
