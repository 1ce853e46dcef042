---------------------------- MODULE StoreProofs ----------------------------
(***************************************************************************)
(* The invariants the store run checks, for any number of threads, edits   *)
(* and changes.                                                            *)
(*                                                                         *)
(* The inductive invariant has six parts.  Placed says where threads can   *)
(* be and what they hold there, Made that every edit there is has been     *)
(* made, always.  The others say what holds as long as certain windows     *)
(* have not been gone through: Versioned what version the file has, Backed *)
(* what the backup holds, Merged where edits are, and Known when the       *)
(* Store's digest is that of the file.                                     *)
(***************************************************************************)
EXTENDS Store, TLAPS

Copied == {"backup", "copying", "rename"}
Saving == {"check", "written", "digested"} \cup Copied

-----------------------------------------------------------------------------
\* A daemon that is down does nothing; its first pass is alone.
FirstAlone ==
    /\ phase = "down" => \A t \in Threads : pc[t] = "idle"
    /\ phase # "up" => mutating = {} /\ moved = {}
    /\ phase = "boot" =>
         \A t, u \in Threads : pc[t] # "idle" /\ pc[u] # "idle" => t = u

\* Who mutates, and what is held on the way.
Holding == \A t \in Threads :
    /\ t \in mutating => pc[t] \in Saving \cup {"snapshot"}
    /\ pc[t] \in {"snapshot", "check"} => t \in mutating
    /\ pc[t] \in Reading => Readable(held[t])
    /\ pc[t] \in Saving => held[t] # None /\ held[t].version = SchemaVersion
    /\ pc[t] = "copying" => backup # None

Placed == TypeOK /\ FirstAlone /\ Holding /\ memory.version = SchemaVersion

-----------------------------------------------------------------------------
\* The version of the file, where there is one.
Has(v) == file # None => file.version = v

\* Until a file is put there under the daemon: the first pass knows its version,
\* and from the end of that pass on it is the current one.
Versioned == "swapped" \notin windows =>
    /\ "newer" \notin replaced
    /\ phase = "down" => ~backedUp
    /\ phase = "up" =>
         /\ Has(SchemaVersion) /\ loadedVersion = SchemaVersion
         /\ \A t \in Threads : pc[t] \in Reading => held[t] = None \/ held[t].version = SchemaVersion
         /\ \A t \in Threads : pc[t] # "copying"
    /\ phase = "boot" => \A t \in Threads :
         /\ pc[t] = "read" => Has(VersionRead(t))
         /\ pc[t] \in {"versioned", "loaded", "committed", "rewrite"} \cup Copied => Has(loadedVersion)
         /\ pc[t] \in {"written", "digested"} => Has(SchemaVersion)
         /\ pc[t] \in Reading \cup {"load", "committed", "rewrite", "backup", "copying"} => ~backedUp

\* The copy of an older file is one, and whole once it is not being written; a
\* rename finds it there.
IsCopy == backup # None /\ backup.contents.version < SchemaVersion

Backed == windows \cap {"torn", "swapped"} = {} =>
    /\ backup # None => IsCopy
    /\ backup # None /\ ~backup.whole => \E t \in Threads : pc[t] = "copying"
    /\ "older" \in replaced => IsCopy /\ backup.whole
    /\ \A t \in Threads :
         pc[t] = "rename" /\ file # None /\ file.version < SchemaVersion => IsCopy /\ backup.whole

-----------------------------------------------------------------------------
\* Every edit there is has been made.
Made ==
    /\ EditsOf(file) \subseteq made /\ EditsOf(digest) \subseteq made
    /\ memory.edits \subseteq made
    /\ \A t \in Threads : EditsOf(held[t]) \subseteq made

InStep == EditsOf(file) = memory.edits

\* The Store takes c for what is in the file.
Recognised(c) == c = file /\ (\A t \in Threads : pc[t] # "loaded") => EditsOf(file) \subseteq memory.edits

Merged == windows \cap {"late", "masked"} = {} =>
    /\ lost = {}
    /\ Recognised(digest)
    /\ \A t \in Threads :
         /\ pc[t] \in Reading => EditsOf(held[t]) = EditsOf(file)
         /\ pc[t] \in Reading /\ (mutating # {} \/ t \in moved) => InStep
         /\ pc[t] \in Copied \cup {"committed", "rewrite"} /\ t \notin mutating => InStep
         /\ pc[t] \in Copied \cup {"check"} => held[t].edits = memory.edits
         /\ pc[t] \in Copied /\ t \notin warned => EditsOf(file) \subseteq memory.edits
         /\ pc[t] = "written" => Recognised(held[t])

-----------------------------------------------------------------------------
\* A thread has the file, or the digest of it, and the Store has not.
Between == {"read", "versioned", "written"}

Begun == phase = "up" \/ \E t \in Threads : pc[t] \notin {"idle", "load"}

Known == "raced" \notin windows =>
    /\ FALSE \notin alarms
    /\ ~touched => /\ \A t \in Threads : pc[t] \in Between => file = held[t]
                   /\ Begun /\ (\A t \in Threads : pc[t] \notin Between) => file = digest

IInv == Placed /\ Versioned /\ Backed /\ Made /\ Merged /\ Known

-----------------------------------------------------------------------------
(***************************************************************************)
(* What the steps are                                                      *)
(***************************************************************************)

\* The daemon ends, by a crash or because its first pass failed.
Falls ==
    /\ phase # "down" /\ Down
    /\ UNCHANGED <<disk, made, touched, history>>
    /\ windows' \in {windows, windows \cup {"torn"}}
    /\ (\E t \in Threads : pc[t] = "copying") => "torn" \in windows'

\* What a thread of a daemon that is up was doing fails.
Gives(t) ==
    /\ pc[t] \in {"load", "check", "backup", "copying", "rename"} /\ phase = "up"
    /\ Finish(t) /\ moved' = moved \ {t}
    /\ UNCHANGED <<disk, memory, store, made, touched, history>>
    /\ windows' = IF pc[t] = "copying" THEN windows \cup {"torn"} ELSE windows

Moves(t) ==
    \/ StartPass(t) \/ Load(t) \/ LoadVersion(t) \/ LoadDigest(t) \/ Commit(t)
    \/ Discard(t) \/ Decide(t) \/ Mutate(t) \/ Snapshot(t) \/ Check(t)
    \/ Backup(t) \/ BackupWritten(t) \/ Rename(t) \/ SetDigest(t)
    \/ SetVersion(t) \/ Launch(t) \/ Gives(t)

\* A failure ends what the thread was doing, or the daemon.
LEMMA FailEnds ==
    ASSUME TypeOK, FirstAlone, NEW t \in Threads, LoadFails(t) \/ SaveFails(t)
    PROVE  Falls \/ Gives(t)
<1> USE DEF disk, store, history
<1>1. pc[t] # "idle" /\ phase \in {"boot", "up"}
  BY DEF LoadFails, SaveFails, TypeOK, FirstAlone
<1>2. Fail(t) /\ UNCHANGED disk /\ pc[t] \in {"load", "check", "backup", "copying", "rename"}
  BY DEF LoadFails, SaveFails
<1>3. windows' = IF pc[t] = "copying" THEN windows \cup {"torn"} ELSE windows
  BY DEF LoadFails, SaveFails
<1>4. CASE phase = "boot"
  <2>1. \A u \in Threads : pc[u] = "copying" => u = t BY <1>1, <1>4 DEF FirstAlone
  <2> QED BY <1>2, <1>3, <1>4, <2>1 DEF Fail, Falls
<1>5. CASE phase = "up" BY <1>2, <1>3, <1>5 DEF Fail, Gives
<1> QED BY <1>1, <1>4, <1>5

\* Every step is one of these.
LEMMA Steps ==
    ASSUME TypeOK, FirstAlone, Next \/ UNCHANGED vars
    PROVE  \/ Falls \/ MoveAside \/ UNCHANGED vars
           \/ \E t \in Threads : Moves(t)
           \/ \E e \in Edits : Edit(e)
           \/ \E v \in 0 .. 2 : Replace(v)
<1>1. ASSUME Crash PROVE Falls BY <1>1 DEF Crash, Falls, disk, history
<1>2. ASSUME NEW t \in Threads, LoadFails(t) \/ SaveFails(t) PROVE Falls \/ Moves(t)
  BY <1>2, FailEnds DEF Moves
<1> QED BY <1>1, <1>2 DEF Next, Moves

-----------------------------------------------------------------------------
(***************************************************************************)
(* Where threads are and what they hold                                    *)
(***************************************************************************)

\* Every step keeps the types.
LEMMA TypeKept ==
    ASSUME TypeOK, FirstAlone, Holding, Next \/ UNCHANGED vars
    PROVE  TypeOK'
<1> USE DEF disk, store, threads, history
<1>1. ASSUME NEW t \in Threads, StartPass(t) PROVE TypeOK'
  BY <1>1, StoreAssumption DEF StartPass, Goto, TypeOK, Contents, Location, Blind, Reading,
     Window, SchemaVersion
<1>2. ASSUME NEW t \in Threads, Load(t) PROVE TypeOK'
  BY <1>2, StoreAssumption DEF Load, Goto, Hold, Readable, TypeOK, Contents, Location, Blind,
     Reading, Window, SchemaVersion
<1>3. ASSUME NEW t \in Threads, LoadVersion(t) PROVE TypeOK'
  BY <1>3, StoreAssumption DEF LoadVersion, VersionRead, Goto, TypeOK, Contents, Location,
     Blind, Reading, SchemaVersion, Holding, Readable
<1>4. ASSUME NEW t \in Threads, LoadDigest(t) PROVE TypeOK'
  BY <1>4, StoreAssumption DEF LoadDigest, Goto, TypeOK, Contents, Location, Blind, Reading,
     Window, SchemaVersion
<1>5. ASSUME NEW t \in Threads, Commit(t) PROVE TypeOK'
  BY <1>5, StoreAssumption DEF Commit, Goto, Hold, Empty, Overtaken, TypeOK, Contents, Location,
     Blind, Reading, Window, SchemaVersion
<1>6. ASSUME NEW t \in Threads, Discard(t) PROVE TypeOK'
  BY <1>6, StoreAssumption DEF Discard, Finish, Goto, Hold, Overtaken, TypeOK, Contents,
     Location, Blind, Reading, Window, SchemaVersion
<1>7. ASSUME NEW t \in Threads, Decide(t) PROVE TypeOK'
  BY <1>7, StoreAssumption DEF Decide, MustRewrite, Finish, Goto, Hold, TypeOK, Contents,
     Location, Blind, Reading, Window, SchemaVersion
<1>8. ASSUME NEW t \in Threads, Mutate(t) PROVE TypeOK'
  BY <1>8, StoreAssumption DEF Mutate, Bump, Goto, TypeOK, Contents, Location, Blind, Reading,
     Window, SchemaVersion
<1>9. ASSUME NEW t \in Threads, Snapshot(t) PROVE TypeOK'
  BY <1>9, StoreAssumption DEF Snapshot, Hold, Bump, Goto, TypeOK, Contents, Location, Blind,
     Reading, Window, SchemaVersion
<1>10. ASSUME NEW t \in Threads, Check(t) PROVE TypeOK'
  BY <1>10, StoreAssumption DEF Check, Goto, Raced, TypeOK, Contents, Location, Blind, Reading,
     Window, SchemaVersion
<1>11. ASSUME NEW t \in Threads, Backup(t) PROVE TypeOK'
  <2>1. backup' \in Backups \cup {None}
    <3>1. CASE backup' = backup BY <3>1 DEF TypeOK, Backups
    <3>2. CASE file # None /\ backup' = [contents |-> file, whole |-> FALSE]
      <4>1. file \in Contents BY <3>2 DEF TypeOK
      <4> QED BY <3>2, <4>1 DEF Backups
    <3> QED BY <1>11, <3>1, <3>2 DEF Backup
  <2>2. backedUp' \in BOOLEAN BY <1>11 DEF Backup, TypeOK
  <2>3. pc' \in [Threads -> Location] BY <1>11 DEF Backup, Goto, TypeOK, Location, Blind
  <2> QED BY <1>11, <2>1, <2>2, <2>3 DEF Backup, TypeOK
<1>12. ASSUME NEW t \in Threads, BackupWritten(t) PROVE TypeOK'
  <2>1. pc' \in [Threads -> Location] BY <1>12 DEF BackupWritten, Goto, TypeOK, Location, Blind
  <2>2. backup' \in Backups BY <1>12 DEF BackupWritten, TypeOK, Holding, Backups
  <2> QED BY <1>12, <2>1, <2>2 DEF BackupWritten, TypeOK
<1>13. ASSUME NEW t \in Threads, Rename(t) PROVE TypeOK'
  BY <1>13, StoreAssumption DEF Rename, EditsOf, Kind, Raced, Goto, TypeOK, Contents, Location,
     Blind, Reading, Window, SchemaVersion
<1>14. ASSUME NEW t \in Threads, SetDigest(t) PROVE TypeOK'
  BY <1>14, StoreAssumption DEF SetDigest, RememberDigest, Goto, TypeOK, Contents, Location,
     Blind, Reading, Window, SchemaVersion
<1>15. ASSUME NEW t \in Threads, SetVersion(t) PROVE TypeOK'
  BY <1>15, StoreAssumption DEF SetVersion, VersionWritten, Finish, Goto, Hold, TypeOK,
     Contents, Location, Blind, Reading, Window, SchemaVersion
<1>16. ASSUME NEW t \in Threads, Launch(t) PROVE TypeOK'
  BY <1>16, StoreAssumption DEF Launch, Goto, TypeOK, Contents, Location, Blind, Reading,
     Window, SchemaVersion
<1>17. ASSUME NEW t \in Threads, Gives(t) PROVE TypeOK'
  BY <1>17, StoreAssumption DEF Gives, Finish, Goto, Hold, TypeOK, Contents, Location, Blind,
     Reading, Window, SchemaVersion
<1>18. ASSUME Falls PROVE TypeOK'
  <2>1. memory' \in Contents BY <1>18, StoreAssumption DEF Falls, Down, Empty, Contents,
       SchemaVersion
  <2>2. /\ phase' = "down" /\ digest' = None /\ loadedVersion' = 0 /\ backedUp' = FALSE
    BY <1>18 DEF Falls, Down
  <2>5. windows' \subseteq Window BY <1>18 DEF Falls, TypeOK, Window
  <2>3. pc' \in [Threads -> Location] /\ held' \in [Threads -> Contents \cup {None}]
    BY <1>18 DEF Falls, Down, Location
  <2>4. moved' \subseteq Threads /\ mutating' \subseteq Threads /\ warned' \subseteq Threads
    BY <1>18 DEF Falls, Down
  <2>6. UNCHANGED <<file, backup, made, touched, lost, replaced, alarms>> BY <1>18 DEF Falls
  <2>7. digest' \in Contents \cup {None} /\ loadedVersion' \in 0 .. SchemaVersion
    BY <2>2 DEF SchemaVersion
  <2> QED BY <2>1, <2>2, <2>3, <2>4, <2>5, <2>6, <2>7 DEF TypeOK
<1>19. ASSUME MoveAside PROVE TypeOK'
  BY <1>19, StoreAssumption DEF MoveAside, User, BehindBack, TypeOK, Contents, Location, Blind,
     Reading, Window, SchemaVersion
<1>20. ASSUME NEW e \in Edits, Edit(e) PROVE TypeOK'
  BY <1>20, StoreAssumption DEF Edit, User, BehindBack, TypeOK, Contents, Location, Blind,
     Reading, Window, SchemaVersion
<1>21. ASSUME NEW v \in 0 .. 2, Replace(v) PROVE TypeOK'
  BY <1>21, StoreAssumption DEF Replace, User, BehindBack, Empty, TypeOK, Contents, Location,
     Blind, Reading, Window, SchemaVersion
<1>22. ASSUME UNCHANGED vars PROVE TypeOK'
  BY <1>22, StoreAssumption DEF vars, TypeOK, Contents, Location, Blind, Reading, Window,
     SchemaVersion
<1> QED BY Steps, <1>1, <1>2, <1>3, <1>4, <1>5, <1>6, <1>7, <1>8, <1>9, <1>10, <1>11, <1>12,
     <1>13, <1>14, <1>15, <1>16, <1>17, <1>18, <1>19, <1>20, <1>21, <1>22 DEF Moves, Placed

\* Every step keeps the first pass alone.
LEMMA AloneKept ==
    ASSUME TypeOK, FirstAlone, Holding, Next \/ UNCHANGED vars
    PROVE  FirstAlone'
<1> USE DEF disk, store, threads, history
<1>0. pc \in [Threads -> Location] /\ phase \in {"down", "boot", "up"} BY DEF TypeOK
<1>1. ASSUME NEW t \in Threads, StartPass(t) PROVE FirstAlone'
  BY <1>1, <1>0 DEF StartPass, Goto, FirstAlone, Reading
<1>2. ASSUME NEW t \in Threads, Load(t) PROVE FirstAlone'
  BY <1>2, <1>0 DEF Load, Goto, Hold, Readable, FirstAlone, Reading
<1>3. ASSUME NEW t \in Threads, LoadVersion(t) PROVE FirstAlone'
  BY <1>3, <1>0 DEF LoadVersion, VersionRead, Goto, FirstAlone, Reading
<1>4. ASSUME NEW t \in Threads, LoadDigest(t) PROVE FirstAlone'
  BY <1>4, <1>0 DEF LoadDigest, Goto, FirstAlone, Reading
<1>5. ASSUME NEW t \in Threads, Commit(t) PROVE FirstAlone'
  BY <1>5, <1>0 DEF Commit, Goto, Hold, Empty, Overtaken, FirstAlone, Reading
<1>6. ASSUME NEW t \in Threads, Discard(t) PROVE FirstAlone'
  BY <1>6, <1>0 DEF Discard, Finish, Goto, Hold, Overtaken, FirstAlone, Reading
<1>7. ASSUME NEW t \in Threads, Decide(t) PROVE FirstAlone'
  BY <1>7, <1>0 DEF Decide, MustRewrite, Finish, Goto, Hold, FirstAlone, Reading
<1>8. ASSUME NEW t \in Threads, Mutate(t) PROVE FirstAlone'
  BY <1>8, <1>0 DEF Mutate, Bump, Goto, FirstAlone, Reading
<1>9. ASSUME NEW t \in Threads, Snapshot(t) PROVE FirstAlone'
  BY <1>9, <1>0 DEF Snapshot, Hold, Bump, Goto, FirstAlone, Reading
<1>10. ASSUME NEW t \in Threads, Check(t) PROVE FirstAlone'
  BY <1>10, <1>0 DEF Check, Goto, Raced, FirstAlone, Reading
<1>11. ASSUME NEW t \in Threads, Backup(t) PROVE FirstAlone'
  BY <1>11, <1>0 DEF Backup, NeedsBackup, Goto, FirstAlone, Reading
<1>12. ASSUME NEW t \in Threads, BackupWritten(t) PROVE FirstAlone'
  BY <1>12, <1>0 DEF BackupWritten, Goto, FirstAlone, Reading
<1>13. ASSUME NEW t \in Threads, Rename(t) PROVE FirstAlone'
  BY <1>13, <1>0 DEF Rename, EditsOf, Kind, Raced, Goto, FirstAlone, Reading
<1>14. ASSUME NEW t \in Threads, SetDigest(t) PROVE FirstAlone'
  BY <1>14, <1>0 DEF SetDigest, RememberDigest, Goto, FirstAlone, Reading
<1>15. ASSUME NEW t \in Threads, SetVersion(t) PROVE FirstAlone'
  BY <1>15, <1>0 DEF SetVersion, VersionWritten, Finish, Goto, Hold, FirstAlone, Reading
<1>16. ASSUME NEW t \in Threads, Launch(t) PROVE FirstAlone'
  BY <1>16, <1>0 DEF Launch, Goto, FirstAlone
<1>17. ASSUME NEW t \in Threads, Gives(t) PROVE FirstAlone'
  BY <1>17, <1>0 DEF Gives, Finish, Goto, Hold, FirstAlone, Reading
<1>18. ASSUME Falls PROVE FirstAlone'
  BY <1>18, <1>0 DEF Falls, Down, Empty, FirstAlone, Reading
<1>19. ASSUME MoveAside PROVE FirstAlone'
  BY <1>19, <1>0 DEF MoveAside, User, BehindBack, FirstAlone, Reading
<1>20. ASSUME NEW e \in Edits, Edit(e) PROVE FirstAlone'
  BY <1>20, <1>0 DEF Edit, User, BehindBack, FirstAlone, Reading
<1>21. ASSUME NEW v \in 0 .. 2, Replace(v) PROVE FirstAlone'
  BY <1>21, <1>0 DEF Replace, User, BehindBack, Empty, FirstAlone, Reading
<1>22. ASSUME UNCHANGED vars PROVE FirstAlone'
  BY <1>22, <1>0 DEF vars, FirstAlone, Reading
<1> QED BY Steps, <1>1, <1>2, <1>3, <1>4, <1>5, <1>6, <1>7, <1>8, <1>9, <1>10, <1>11, <1>12,
     <1>13, <1>14, <1>15, <1>16, <1>17, <1>18, <1>19, <1>20, <1>21, <1>22 DEF Moves, Placed

\* Every step keeps what is held on the way.
LEMMA HoldingKept ==
    ASSUME TypeOK, FirstAlone, Holding, memory.version = SchemaVersion, Next \/ UNCHANGED vars
    PROVE  Holding'
<1> USE DEF disk, store, threads, history
<1>0. /\ pc \in [Threads -> Location] /\ held \in [Threads -> Contents \cup {None}]
      /\ memory \in Contents
  BY DEF TypeOK
<1>1. ASSUME NEW t \in Threads, StartPass(t) PROVE Holding'
  BY <1>1, StoreAssumption, <1>0 DEF StartPass, Goto, Holding, Reading, Saving, Copied, Readable
<1>2. ASSUME NEW t \in Threads, Load(t) PROVE Holding'
  BY <1>2, StoreAssumption, <1>0 DEF Load, Goto, Hold, Readable, Holding, Reading, Saving, Copied
<1>3. ASSUME NEW t \in Threads, LoadVersion(t) PROVE Holding'
  BY <1>3, StoreAssumption, <1>0 DEF LoadVersion, VersionRead, Goto, Holding, Reading, Saving,
     Copied, Readable
<1>4. ASSUME NEW t \in Threads, LoadDigest(t) PROVE Holding'
  BY <1>4, StoreAssumption, <1>0 DEF LoadDigest, Goto, Holding, Reading, Saving, Copied, Readable
<1>5. ASSUME NEW t \in Threads, Commit(t) PROVE Holding'
  BY <1>5, StoreAssumption, <1>0 DEF Commit, Goto, Hold, Empty, Overtaken, Holding, Reading,
     Saving, Copied, Readable
<1>6. ASSUME NEW t \in Threads, Discard(t) PROVE Holding'
  BY <1>6, StoreAssumption, <1>0 DEF Discard, Finish, Goto, Hold, Overtaken, Holding, Reading,
     Saving, Copied, Readable
<1>7. ASSUME NEW t \in Threads, Decide(t) PROVE Holding'
  BY <1>7, StoreAssumption, <1>0 DEF Decide, MustRewrite, Finish, Goto, Hold, Holding, Reading,
     Saving, Copied, Readable
<1>8. ASSUME NEW t \in Threads, Mutate(t) PROVE Holding'
  BY <1>8, StoreAssumption, <1>0 DEF Mutate, Bump, Goto, Holding, Reading, Saving, Copied, Readable
<1>9. ASSUME NEW t \in Threads, Snapshot(t) PROVE Holding'
  BY <1>9, StoreAssumption, <1>0 DEF Snapshot, Hold, Bump, Goto, Holding, Reading, Saving,
     Copied, Readable
<1>10. ASSUME NEW t \in Threads, Check(t) PROVE Holding'
  BY <1>10, StoreAssumption, <1>0 DEF Check, Goto, Raced, Holding, Reading, Saving, Copied, Readable
<1>11. ASSUME NEW t \in Threads, Backup(t) PROVE Holding'
  <2>1. pc'[t] = "copying" => backup' # None
    <3>1. CASE backup' = [contents |-> file, whole |-> FALSE] /\ file # None
      <4>1. backup' \in Backups BY <3>1 DEF TypeOK, Backups
      <4> QED BY <4>1, StoreAssumption
    <3>2. CASE pc' = [pc EXCEPT ![t] = "rename"] BY <3>2, <1>0
    <3> QED BY <1>11, <3>1, <3>2 DEF Backup, Goto
  <2>2. pc[t] = "backup" /\ pc'[t] \in {"copying", "rename"} /\ \A u \in Threads \ {t} : pc'[u] = pc[u]
    BY <1>11, <1>0 DEF Backup, Goto
  <2>3. backup # None => backup' # None BY <1>11 DEF Backup
  <2>4. UNCHANGED <<held, mutating>> BY <1>11 DEF Backup
  <2> QED BY <2>1, <2>2, <2>3, <2>4 DEF Holding, Reading, Saving, Copied, Readable
<1>12. ASSUME NEW t \in Threads, BackupWritten(t) PROVE Holding'
  <2>1. backup' \in Backups BY <1>12 DEF BackupWritten, TypeOK, Holding, Backups
  <2> QED BY <1>12, <2>1, <1>0, StoreAssumption DEF BackupWritten, Goto, Holding, Reading,
       Saving, Copied, Readable
<1>13. ASSUME NEW t \in Threads, Rename(t) PROVE Holding'
  BY <1>13, StoreAssumption, <1>0 DEF Rename, EditsOf, Kind, Raced, Goto, Holding, Reading,
     Saving, Copied, Readable
<1>14. ASSUME NEW t \in Threads, SetDigest(t) PROVE Holding'
  BY <1>14, StoreAssumption, <1>0 DEF SetDigest, RememberDigest, Goto, Holding, Reading, Saving,
     Copied, Readable
<1>15. ASSUME NEW t \in Threads, SetVersion(t) PROVE Holding'
  BY <1>15, StoreAssumption, <1>0 DEF SetVersion, VersionWritten, Finish, Goto, Hold, Holding,
     Reading, Saving, Copied, Readable
<1>16. ASSUME NEW t \in Threads, Launch(t) PROVE Holding'
  BY <1>16, StoreAssumption, <1>0 DEF Launch, Goto, FirstAlone, Holding, Reading, Saving,
     Copied, Readable
<1>17. ASSUME NEW t \in Threads, Gives(t) PROVE Holding'
  BY <1>17, StoreAssumption, <1>0 DEF Gives, Finish, Goto, Hold, Holding, Reading, Saving,
     Copied, Readable
<1>18. ASSUME Falls PROVE Holding'
  BY <1>18, StoreAssumption, <1>0 DEF Falls, Down, Empty, Holding, Reading, Saving, Copied, Readable
<1>19. ASSUME MoveAside PROVE Holding'
  BY <1>19, StoreAssumption, <1>0 DEF MoveAside, User, BehindBack, Holding, Reading, Saving,
     Copied, Readable
<1>20. ASSUME NEW e \in Edits, Edit(e) PROVE Holding'
  BY <1>20, StoreAssumption, <1>0 DEF Edit, User, BehindBack, Holding, Reading, Saving, Copied,
     Readable
<1>21. ASSUME NEW v \in 0 .. 2, Replace(v) PROVE Holding'
  BY <1>21, StoreAssumption, <1>0 DEF Replace, User, BehindBack, Empty, Holding, Reading,
     Saving, Copied, Readable
<1>22. ASSUME UNCHANGED vars PROVE Holding'
  BY <1>22, StoreAssumption, <1>0 DEF vars, Holding, Reading, Saving, Copied, Readable
<1> QED BY Steps, <1>1, <1>2, <1>3, <1>4, <1>5, <1>6, <1>7, <1>8, <1>9, <1>10, <1>11, <1>12,
     <1>13, <1>14, <1>15, <1>16, <1>17, <1>18, <1>19, <1>20, <1>21, <1>22 DEF Moves, Placed

\* What the daemon would save is of the current schema.
LEMMA MemoryKept ==
    ASSUME TypeOK, FirstAlone, Holding, memory.version = SchemaVersion, Next \/ UNCHANGED vars
    PROVE  memory.version' = SchemaVersion
<1> USE DEF disk, store, threads, history
<1>0. held \in [Threads -> Contents \cup {None}] /\ memory \in Contents BY DEF TypeOK
<1>1. ASSUME NEW t \in Threads, StartPass(t) PROVE memory.version' = SchemaVersion
  BY <1>1, <1>0 DEF StartPass, Goto, SchemaVersion
<1>2. ASSUME NEW t \in Threads, Load(t) PROVE memory.version' = SchemaVersion
  BY <1>2, <1>0 DEF Load, Goto, Hold, Readable, SchemaVersion
<1>3. ASSUME NEW t \in Threads, LoadVersion(t) PROVE memory.version' = SchemaVersion
  BY <1>3, <1>0 DEF LoadVersion, VersionRead, Goto, SchemaVersion
<1>4. ASSUME NEW t \in Threads, LoadDigest(t) PROVE memory.version' = SchemaVersion
  BY <1>4, <1>0 DEF LoadDigest, Goto, SchemaVersion
<1>5. ASSUME NEW t \in Threads, Commit(t) PROVE memory.version' = SchemaVersion
  BY <1>5, <1>0 DEF Commit, Goto, Hold, Empty, Overtaken, SchemaVersion
<1>6. ASSUME NEW t \in Threads, Discard(t) PROVE memory.version' = SchemaVersion
  BY <1>6, <1>0 DEF Discard, Finish, Goto, Hold, Overtaken, SchemaVersion
<1>7. ASSUME NEW t \in Threads, Decide(t) PROVE memory.version' = SchemaVersion
  BY <1>7, <1>0 DEF Decide, MustRewrite, Finish, Goto, Hold, SchemaVersion
<1>8. ASSUME NEW t \in Threads, Mutate(t) PROVE memory.version' = SchemaVersion
  BY <1>8, <1>0 DEF Mutate, Bump, Goto, SchemaVersion
<1>9. ASSUME NEW t \in Threads, Snapshot(t) PROVE memory.version' = SchemaVersion
  BY <1>9, <1>0 DEF Snapshot, Hold, Bump, Goto, SchemaVersion
<1>10. ASSUME NEW t \in Threads, Check(t) PROVE memory.version' = SchemaVersion
  BY <1>10, <1>0 DEF Check, Goto, Raced, SchemaVersion
<1>11. ASSUME NEW t \in Threads, Backup(t) PROVE memory.version' = SchemaVersion
  BY <1>11, <1>0 DEF Backup, NeedsBackup, Goto, SchemaVersion
<1>12. ASSUME NEW t \in Threads, BackupWritten(t) PROVE memory.version' = SchemaVersion
  BY <1>12, <1>0 DEF BackupWritten, Goto, SchemaVersion
<1>13. ASSUME NEW t \in Threads, Rename(t) PROVE memory.version' = SchemaVersion
  BY <1>13, <1>0 DEF Rename, EditsOf, Kind, Raced, Goto, SchemaVersion
<1>14. ASSUME NEW t \in Threads, SetDigest(t) PROVE memory.version' = SchemaVersion
  BY <1>14, <1>0 DEF SetDigest, RememberDigest, Goto, SchemaVersion
<1>15. ASSUME NEW t \in Threads, SetVersion(t) PROVE memory.version' = SchemaVersion
  BY <1>15, <1>0 DEF SetVersion, VersionWritten, Finish, Goto, Hold, SchemaVersion
<1>16. ASSUME NEW t \in Threads, Launch(t) PROVE memory.version' = SchemaVersion
  BY <1>16, <1>0 DEF Launch, Goto, SchemaVersion
<1>17. ASSUME NEW t \in Threads, Gives(t) PROVE memory.version' = SchemaVersion
  BY <1>17, <1>0 DEF Gives, Finish, Goto, Hold, SchemaVersion
<1>18. ASSUME Falls PROVE memory.version' = SchemaVersion
  BY <1>18, <1>0 DEF Falls, Down, Empty, SchemaVersion
<1>19. ASSUME MoveAside PROVE memory.version' = SchemaVersion
  BY <1>19, <1>0 DEF MoveAside, User, BehindBack, SchemaVersion
<1>20. ASSUME NEW e \in Edits, Edit(e) PROVE memory.version' = SchemaVersion
  BY <1>20, <1>0 DEF Edit, User, BehindBack, SchemaVersion
<1>21. ASSUME NEW v \in 0 .. 2, Replace(v) PROVE memory.version' = SchemaVersion
  BY <1>21, <1>0 DEF Replace, User, BehindBack, Empty, SchemaVersion
<1>22. ASSUME UNCHANGED vars PROVE memory.version' = SchemaVersion
  BY <1>22, <1>0 DEF vars, SchemaVersion
<1> QED BY Steps, <1>1, <1>2, <1>3, <1>4, <1>5, <1>6, <1>7, <1>8, <1>9, <1>10, <1>11, <1>12,
     <1>13, <1>14, <1>15, <1>16, <1>17, <1>18, <1>19, <1>20, <1>21, <1>22 DEF Moves, Placed

\* Only a file of a later version is a newer one, only one of an earlier one older.
LEMMA KindIs ==
    ASSUME NEW c \in Contents \cup {None}
    PROVE  /\ "newer" \in Kind(c) => c # None /\ c.version > SchemaVersion
           /\ "older" \in Kind(c) => c # None /\ c.version < SchemaVersion
<1>1. CASE c = None
  <2>1. Kind(c) = {} BY <1>1 DEF Kind
  <2> QED BY <2>1
<1>2. CASE c # None
  <2>1. c.version \in Int BY <1>2 DEF Contents
  <2>2. CASE c.version < SchemaVersion
    <3>1. Kind(c) = {"older"} BY <1>2, <2>1, <2>2 DEF Kind, SchemaVersion
    <3> QED BY <1>2, <2>1, <2>2, <3>1 DEF SchemaVersion
  <2>3. CASE c.version > SchemaVersion
    <3>1. Kind(c) = {"newer"} BY <1>2, <2>1, <2>3 DEF Kind, SchemaVersion
    <3> QED BY <1>2, <2>1, <2>3, <3>1 DEF SchemaVersion
  <2>4. CASE c.version = SchemaVersion
    <3>1. Kind(c) = {} BY <1>2, <2>4 DEF Kind, SchemaVersion
    <3> QED BY <3>1
  <2> QED BY <2>1, <2>2, <2>3, <2>4 DEF SchemaVersion
<1> QED BY <1>1, <1>2

\* Every step keeps what is known of versions.
LEMMA VersionedKept ==
    ASSUME Placed, Versioned, Next \/ UNCHANGED vars
    PROVE  Versioned'
<1> USE DEF disk, store, threads, history
<1>0. /\ pc \in [Threads -> Location] /\ phase \in {"down", "boot", "up"}
      /\ held \in [Threads -> Contents \cup {None}] /\ memory \in Contents
      /\ loadedVersion \in 0 .. SchemaVersion /\ file \in Contents \cup {None}
  BY DEF TypeOK, Placed
<1>1. ASSUME NEW t \in Threads, StartPass(t) PROVE Versioned'
  BY <1>1, <1>0 DEF StartPass, Goto, Placed, Versioned, Has, FirstAlone, Holding, Reading,
     Copied, Saving, Readable, SchemaVersion, Contents, VersionRead
<1>2. ASSUME NEW t \in Threads, Load(t) PROVE Versioned'
  BY <1>2, <1>0 DEF Load, Goto, Hold, Readable, Placed, Versioned, Has, FirstAlone, Holding,
     Reading, Copied, Saving, SchemaVersion, Contents, VersionRead
<1>3. ASSUME NEW t \in Threads, LoadVersion(t) PROVE Versioned'
  BY <1>3, <1>0 DEF LoadVersion, VersionRead, Goto, Placed, Versioned, Has, FirstAlone, Holding,
     Reading, Copied, Saving, Readable, SchemaVersion, Contents
<1>4. ASSUME NEW t \in Threads, LoadDigest(t) PROVE Versioned'
  BY <1>4, <1>0 DEF LoadDigest, Goto, Placed, Versioned, Has, FirstAlone, Holding, Reading,
     Copied, Saving, Readable, SchemaVersion, Contents, VersionRead
<1>5. ASSUME NEW t \in Threads, Commit(t) PROVE Versioned'
  BY <1>5, <1>0 DEF Commit, Goto, Hold, Empty, Overtaken, Placed, Versioned, Has, FirstAlone,
     Holding, Reading, Copied, Saving, Readable, SchemaVersion, Contents, VersionRead
<1>6. ASSUME NEW t \in Threads, Discard(t) PROVE Versioned'
  BY <1>6, <1>0 DEF Discard, Finish, Goto, Hold, Overtaken, Placed, Versioned, Has, FirstAlone,
     Holding, Reading, Copied, Saving, Readable, SchemaVersion, Contents, VersionRead
<1>7. ASSUME NEW t \in Threads, Decide(t) PROVE Versioned'
  BY <1>7, <1>0 DEF Decide, MustRewrite, Finish, Goto, Hold, Placed, Versioned, Has, FirstAlone,
     Holding, Reading, Copied, Saving, Readable, SchemaVersion, Contents, VersionRead
<1>8. ASSUME NEW t \in Threads, Mutate(t) PROVE Versioned'
  BY <1>8, <1>0 DEF Mutate, Bump, Goto, Placed, Versioned, Has, FirstAlone, Holding, Reading,
     Copied, Saving, Readable, SchemaVersion, Contents, VersionRead
<1>9. ASSUME NEW t \in Threads, Snapshot(t) PROVE Versioned'
  BY <1>9, <1>0 DEF Snapshot, Hold, Bump, Goto, Placed, Versioned, Has, FirstAlone, Holding,
     Reading, Copied, Saving, Readable, SchemaVersion, Contents, VersionRead
<1>10. ASSUME NEW t \in Threads, Check(t) PROVE Versioned'
  BY <1>10, <1>0 DEF Check, Goto, Raced, Placed, Versioned, Has, FirstAlone, Holding, Reading,
     Copied, Saving, Readable, SchemaVersion, Contents, VersionRead
<1>11. ASSUME NEW t \in Threads, Backup(t) PROVE Versioned'
  BY <1>11, <1>0 DEF Backup, NeedsBackup, Goto, Placed, Versioned, Has, FirstAlone, Holding,
     Reading, Copied, Saving, Readable, SchemaVersion, Contents, VersionRead
<1>12. ASSUME NEW t \in Threads, BackupWritten(t) PROVE Versioned'
  BY <1>12, <1>0 DEF BackupWritten, Goto, Placed, Versioned, Has, FirstAlone, Holding, Reading,
     Copied, Saving, Readable, SchemaVersion, Contents, VersionRead
<1>13. ASSUME NEW t \in Threads, Rename(t) PROVE Versioned'
  <2> USE DEF Placed, Versioned, Has, Holding, Saving, Copied, SchemaVersion
  <2>1. /\ file' = held[t] /\ replaced' = replaced \cup Kind(file)
        /\ pc[t] = "rename" /\ pc' = [pc EXCEPT ![t] = "written"]
        /\ UNCHANGED <<phase, loadedVersion, backedUp, held>>
        /\ windows \subseteq windows'
    BY <1>13 DEF Rename, Goto, store
  <2>2. phase \in {"boot", "up"} BY <1>0, <2>1 DEF FirstAlone
  <2>3. SUFFICES ASSUME "swapped" \notin windows PROVE Versioned'
    BY <2>1
  <2>4. "newer" \notin replaced'
    <3>1. file # None => file.version \in 0 .. 1 
      <4>1. CASE phase = "up" BY <2>3, <4>1
      <4>2. CASE phase = "boot"
        <5>1. Has(loadedVersion) BY <2>1, <2>3, <4>2
        <5> QED BY <1>0, <5>1
      <4> QED BY <2>2, <4>1, <4>2
    <3>2. "newer" \notin Kind(file) BY <1>0, <3>1, KindIs
    <3> QED BY <2>1, <2>3, <3>2
  <2>5. CASE phase = "up" BY <1>0, <2>1, <2>3, <2>4, <2>5 DEF Reading
  <2>6. CASE phase = "boot" BY <1>0, <2>1, <2>3, <2>4, <2>6 DEF Reading, FirstAlone
  <2> QED BY <2>2, <2>5, <2>6
<1>14. ASSUME NEW t \in Threads, SetDigest(t) PROVE Versioned'
  BY <1>14, <1>0 DEF SetDigest, RememberDigest, Goto, Placed, Versioned, Has, FirstAlone,
     Holding, Reading, Copied, Saving, Readable, SchemaVersion, Contents, VersionRead
<1>15. ASSUME NEW t \in Threads, SetVersion(t) PROVE Versioned'
  BY <1>15, <1>0 DEF SetVersion, VersionWritten, Finish, Goto, Hold, Placed, Versioned, Has,
     FirstAlone, Holding, Reading, Copied, Saving, Readable, SchemaVersion, Contents,
     VersionRead
<1>16. ASSUME NEW t \in Threads, Launch(t) PROVE Versioned'
  <2>1. UNCHANGED <<file, loadedVersion, backedUp, held, replaced, windows>> BY <1>16 DEF Launch
  <2>2. phase = "down" /\ phase' = "boot" /\ pc' = [pc EXCEPT ![t] = "load"] BY <1>16
       DEF Launch, Goto
  <2>3. \A u \in Threads : pc'[u] \in {"idle", "load"} BY <2>2, <1>0 DEF Placed, FirstAlone
  <2> QED BY <2>1, <2>2, <2>3 DEF Versioned, Reading, Copied
<1>17. ASSUME NEW t \in Threads, Gives(t) PROVE Versioned'
  BY <1>17, <1>0 DEF Gives, Finish, Goto, Hold, Placed, Versioned, Has, FirstAlone, Holding,
     Reading, Copied, Saving, Readable, SchemaVersion, Contents, VersionRead
<1>18. ASSUME Falls PROVE Versioned'
  BY <1>18, <1>0 DEF Falls, Down, Empty, Placed, Versioned, Has, FirstAlone, Holding, Reading,
     Copied, Saving, Readable, SchemaVersion, Contents, VersionRead
<1>19. ASSUME MoveAside PROVE Versioned'
  BY <1>19, <1>0 DEF MoveAside, User, BehindBack, Placed, Versioned, Has, FirstAlone, Holding,
     Reading, Copied, Saving, Readable, SchemaVersion, Contents, VersionRead
<1>20. ASSUME NEW e \in Edits, Edit(e) PROVE Versioned'
  BY <1>20, <1>0 DEF Edit, User, BehindBack, Placed, Versioned, Has, FirstAlone, Holding,
     Reading, Copied, Saving, Readable, SchemaVersion, Contents, VersionRead
<1>21. ASSUME NEW v \in 0 .. 2, Replace(v) PROVE Versioned'
  BY <1>21, <1>0 DEF Replace, User, BehindBack, Empty, Placed, Versioned, Has, FirstAlone,
     Holding, Reading, Copied, Saving, Readable, SchemaVersion, Contents, VersionRead
<1>22. ASSUME UNCHANGED vars PROVE Versioned'
  BY <1>22, <1>0 DEF vars, Placed, Versioned, Has, FirstAlone, Holding, Reading, Copied, Saving,
     Readable, SchemaVersion, Contents, VersionRead
<1> QED BY Steps, <1>1, <1>2, <1>3, <1>4, <1>5, <1>6, <1>7, <1>8, <1>9, <1>10, <1>11, <1>12,
     <1>13, <1>14, <1>15, <1>16, <1>17, <1>18, <1>19, <1>20, <1>21, <1>22 DEF Moves, Placed

\* Every step keeps what is known of the copy.
LEMMA BackedKept ==
    ASSUME Placed, Versioned, Backed, Next \/ UNCHANGED vars
    PROVE  Backed'
<1> USE DEF disk, store, threads, history
<1>0. /\ pc \in [Threads -> Location] /\ phase \in {"down", "boot", "up"}
      /\ loadedVersion \in 0 .. SchemaVersion /\ file \in Contents \cup {None}
      /\ backup \in Backups \cup {None}
  BY DEF TypeOK, Placed
<1>1. ASSUME NEW t \in Threads, StartPass(t) PROVE Backed'
  BY <1>1, <1>0 DEF StartPass, Goto, Placed, Backed, IsCopy, FirstAlone, Holding, SchemaVersion,
     Contents, Backups
<1>2. ASSUME NEW t \in Threads, Load(t) PROVE Backed'
  BY <1>2, <1>0 DEF Load, Goto, Hold, Readable, Placed, Backed, IsCopy, FirstAlone, Holding,
     SchemaVersion, Contents, Backups
<1>3. ASSUME NEW t \in Threads, LoadVersion(t) PROVE Backed'
  BY <1>3, <1>0 DEF LoadVersion, VersionRead, Goto, Placed, Backed, IsCopy, FirstAlone, Holding,
     SchemaVersion, Contents, Backups
<1>4. ASSUME NEW t \in Threads, LoadDigest(t) PROVE Backed'
  BY <1>4, <1>0 DEF LoadDigest, Goto, Placed, Backed, IsCopy, FirstAlone, Holding,
     SchemaVersion, Contents, Backups
<1>5. ASSUME NEW t \in Threads, Commit(t) PROVE Backed'
  BY <1>5, <1>0 DEF Commit, Goto, Hold, Empty, Overtaken, Placed, Backed, IsCopy, FirstAlone,
     Holding, SchemaVersion, Contents, Backups
<1>6. ASSUME NEW t \in Threads, Discard(t) PROVE Backed'
  BY <1>6, <1>0 DEF Discard, Finish, Goto, Hold, Overtaken, Placed, Backed, IsCopy, FirstAlone,
     Holding, SchemaVersion, Contents, Backups
<1>7. ASSUME NEW t \in Threads, Decide(t) PROVE Backed'
  BY <1>7, <1>0 DEF Decide, MustRewrite, Finish, Goto, Hold, Placed, Backed, IsCopy, FirstAlone,
     Holding, SchemaVersion, Contents, Backups
<1>8. ASSUME NEW t \in Threads, Mutate(t) PROVE Backed'
  BY <1>8, <1>0 DEF Mutate, Bump, Goto, Placed, Backed, IsCopy, FirstAlone, Holding,
     SchemaVersion, Contents, Backups
<1>9. ASSUME NEW t \in Threads, Snapshot(t) PROVE Backed'
  BY <1>9, <1>0 DEF Snapshot, Hold, Bump, Goto, Placed, Backed, IsCopy, FirstAlone, Holding,
     SchemaVersion, Contents, Backups
<1>10. ASSUME NEW t \in Threads, Check(t) PROVE Backed'
  BY <1>10, <1>0 DEF Check, Goto, Raced, Placed, Backed, IsCopy, FirstAlone, Holding,
     SchemaVersion, Contents, Backups
<1>11. ASSUME NEW t \in Threads, Backup(t) PROVE Backed'
  <2>1. pc[t] = "backup" /\ UNCHANGED <<file, replaced, windows>> BY <1>11 DEF Backup
  <2>2. SUFFICES ASSUME windows \cap {"torn", "swapped"} = {}
                 PROVE  Backed'
    BY <2>1 DEF Backed
  <2>3. phase = "up" => Has(SchemaVersion) /\ loadedVersion = SchemaVersion
    BY <2>2 DEF Versioned
  <2>4. phase = "boot" => Has(loadedVersion) /\ ~backedUp
    BY <2>1, <2>2 DEF Versioned, Copied
  <2>5. phase \in {"boot", "up"} BY <1>0, <2>1 DEF Placed, FirstAlone
  <2>6. CASE NeedsBackup /\ file # None /\ backup = None
    <3>1. backup' = [contents |-> file, whole |-> FALSE] /\ pc' = [pc EXCEPT ![t] = "copying"]
      BY <1>11, <2>6 DEF Backup, Goto
    <3>2. backup' \in Backups /\ backup'.contents = file
      BY <1>0, <2>6, <3>1 DEF Backups
    <3>3. backup' # None BY <3>2, StoreAssumption
    <3>4. file.version < SchemaVersion
      BY <2>3, <2>4, <2>5, <2>6 DEF NeedsBackup, Has, SchemaVersion
    <3>5. "older" \notin replaced /\ \A u \in Threads : pc[u] # "rename"
      BY <2>2, <2>6, <3>4 DEF Backed, IsCopy
    <3> QED BY <1>0, <2>1, <3>1, <3>2, <3>3, <3>4, <3>5 DEF Backed, IsCopy
  <2>7. CASE ~(NeedsBackup /\ file # None /\ backup = None)
    <3>1. backup' = backup /\ pc' = [pc EXCEPT ![t] = "rename"]
      BY <1>11, <2>7 DEF Backup, Goto
    <3>2. ASSUME file # None, file.version < SchemaVersion PROVE backup # None
      <4>1. phase = "boot" BY <2>3, <2>5, <3>2 DEF Has, SchemaVersion
      <4> QED BY <2>4, <2>7, <3>2, <4>1 DEF NeedsBackup, Has
    <3>3. ASSUME file # None, file.version < SchemaVersion PROVE IsCopy /\ backup.whole
      <4>1. phase = "boot" BY <2>3, <2>5, <3>3 DEF Has, SchemaVersion
      <4>2. \A u \in Threads : pc[u] # "copying" BY <2>1, <4>1 DEF Placed, FirstAlone
      <4> QED BY <2>2, <3>2, <3>3, <4>2 DEF Backed
    <3>4. \A u \in Threads : pc[u] = "copying" => pc'[u] = "copying" BY <1>0, <2>1, <3>1
    <3>5. \A u \in Threads : pc'[u] = "rename" => u = t \/ pc[u] = "rename" BY <1>0, <3>1
    <3> QED BY <2>1, <2>2, <3>1, <3>3, <3>4, <3>5 DEF Backed, IsCopy
  <2> QED BY <2>6, <2>7
<1>12. ASSUME NEW t \in Threads, BackupWritten(t) PROVE Backed'
  <2>1. /\ pc[t] = "copying" /\ pc' = [pc EXCEPT ![t] = "rename"]
        /\ backup' = [backup EXCEPT !.whole = TRUE] /\ backup \in Backups
        /\ UNCHANGED <<file, replaced, windows>>
    BY <1>12, <1>0 DEF BackupWritten, Goto, Placed, Holding
  <2>2. backup' \in Backups /\ backup'.whole /\ backup'.contents = backup.contents
    BY <2>1 DEF Backups
  <2>3. backup # None /\ backup' # None BY <2>1, <2>2, StoreAssumption
  <2> QED BY <1>0, <2>1, <2>2, <2>3 DEF Backed, IsCopy
<1>13. ASSUME NEW t \in Threads, Rename(t) PROVE Backed'
  <2>1. /\ pc[t] = "rename" /\ pc' = [pc EXCEPT ![t] = "written"]
        /\ file' = held[t] /\ replaced' = replaced \cup Kind(file)
        /\ backup' = backup /\ windows \subseteq windows'
    BY <1>13 DEF Rename, Goto
  <2>2. SUFFICES ASSUME windows \cap {"torn", "swapped"} = {}
                 PROVE  Backed'
    BY <2>1 DEF Backed
  <2>3. held[t] # None /\ held[t].version = SchemaVersion
    BY <2>1 DEF Placed, Holding, Saving, Copied
  <2>4. "older" \in Kind(file) => file # None /\ file.version < SchemaVersion BY <1>0, KindIs
  <2>5. "older" \in replaced' => IsCopy /\ backup.whole BY <2>1, <2>2, <2>4 DEF Backed
  <2>6. \A u \in Threads : pc[u] = "copying" => pc'[u] = "copying" BY <1>0, <2>1
  <2> QED BY <2>1, <2>2, <2>3, <2>5, <2>6 DEF Backed, IsCopy, SchemaVersion
<1>14. ASSUME NEW t \in Threads, SetDigest(t) PROVE Backed'
  BY <1>14, <1>0 DEF SetDigest, RememberDigest, Goto, Placed, Backed, IsCopy, FirstAlone,
     Holding, SchemaVersion, Contents, Backups
<1>15. ASSUME NEW t \in Threads, SetVersion(t) PROVE Backed'
  BY <1>15, <1>0 DEF SetVersion, VersionWritten, Finish, Goto, Hold, Placed, Backed, IsCopy,
     FirstAlone, Holding, SchemaVersion, Contents, Backups
<1>16. ASSUME NEW t \in Threads, Launch(t) PROVE Backed'
  BY <1>16, <1>0 DEF Launch, Goto, Placed, Backed, IsCopy, FirstAlone, Holding, SchemaVersion,
     Contents, Backups
<1>17. ASSUME NEW t \in Threads, Gives(t) PROVE Backed'
  BY <1>17, <1>0 DEF Gives, Finish, Goto, Hold, Placed, Backed, IsCopy, FirstAlone, Holding,
     SchemaVersion, Contents, Backups
<1>18. ASSUME Falls PROVE Backed'
  BY <1>18, <1>0 DEF Falls, Down, Empty, Placed, Backed, IsCopy, FirstAlone, Holding,
     SchemaVersion, Contents, Backups
<1>19. ASSUME MoveAside PROVE Backed'
  BY <1>19, <1>0 DEF MoveAside, User, BehindBack, Placed, Backed, IsCopy, FirstAlone, Holding,
     SchemaVersion, Contents, Backups
<1>20. ASSUME NEW e \in Edits, Edit(e) PROVE Backed'
  BY <1>20, <1>0 DEF Edit, User, BehindBack, Placed, Backed, IsCopy, FirstAlone, Holding,
     SchemaVersion, Contents, Backups
<1>21. ASSUME NEW v \in 0 .. 2, Replace(v) PROVE Backed'
  BY <1>21, <1>0 DEF Replace, User, BehindBack, Empty, Placed, Backed, IsCopy, FirstAlone,
     Holding, SchemaVersion, Contents, Backups
<1>22. ASSUME UNCHANGED vars PROVE Backed'
  BY <1>22, <1>0 DEF vars, Placed, Backed, IsCopy, FirstAlone, Holding, SchemaVersion, Contents,
     Backups
<1> QED BY Steps, <1>1, <1>2, <1>3, <1>4, <1>5, <1>6, <1>7, <1>8, <1>9, <1>10, <1>11, <1>12,
     <1>13, <1>14, <1>15, <1>16, <1>17, <1>18, <1>19, <1>20, <1>21, <1>22 DEF Moves, Placed

\* No step makes an edit but those that are made.
LEMMA MadeKept ==
    ASSUME Placed, Made, Next \/ UNCHANGED vars
    PROVE  Made'
<1> USE DEF disk, store, threads, history
<1>0. /\ held \in [Threads -> Contents \cup {None}] /\ memory \in Contents
      /\ file \in Contents \cup {None} /\ digest \in Contents \cup {None}
  BY DEF TypeOK, Placed
<1>1. ASSUME NEW t \in Threads, StartPass(t) PROVE Made'
  BY <1>1, StoreAssumption, <1>0 DEF StartPass, Goto, Made, EditsOf, Contents
<1>2. ASSUME NEW t \in Threads, Load(t) PROVE Made'
  BY <1>2, StoreAssumption, <1>0 DEF Load, Goto, Hold, Readable, Made, EditsOf, Contents
<1>3. ASSUME NEW t \in Threads, LoadVersion(t) PROVE Made'
  BY <1>3, StoreAssumption, <1>0 DEF LoadVersion, VersionRead, Goto, Made, EditsOf, Contents
<1>4. ASSUME NEW t \in Threads, LoadDigest(t) PROVE Made'
  BY <1>4, StoreAssumption, <1>0 DEF LoadDigest, Goto, Made, EditsOf, Contents
<1>5. ASSUME NEW t \in Threads, Commit(t) PROVE Made'
  BY <1>5, StoreAssumption, <1>0 DEF Commit, Goto, Hold, Empty, Overtaken, Made, EditsOf, Contents
<1>6. ASSUME NEW t \in Threads, Discard(t) PROVE Made'
  BY <1>6, StoreAssumption, <1>0 DEF Discard, Finish, Goto, Hold, Overtaken, Made, EditsOf, Contents
<1>7. ASSUME NEW t \in Threads, Decide(t) PROVE Made'
  BY <1>7, StoreAssumption, <1>0 DEF Decide, MustRewrite, Finish, Goto, Hold, Made, EditsOf,
     Contents
<1>8. ASSUME NEW t \in Threads, Mutate(t) PROVE Made'
  BY <1>8, StoreAssumption, <1>0 DEF Mutate, Bump, Goto, Made, EditsOf, Contents
<1>9. ASSUME NEW t \in Threads, Snapshot(t) PROVE Made'
  BY <1>9, StoreAssumption, <1>0 DEF Snapshot, Hold, Bump, Goto, Made, EditsOf, Contents
<1>10. ASSUME NEW t \in Threads, Check(t) PROVE Made'
  BY <1>10, StoreAssumption, <1>0 DEF Check, Goto, Raced, Made, EditsOf, Contents
<1>11. ASSUME NEW t \in Threads, Backup(t) PROVE Made'
  BY <1>11, StoreAssumption, <1>0 DEF Backup, NeedsBackup, Goto, Made, EditsOf, Contents
<1>12. ASSUME NEW t \in Threads, BackupWritten(t) PROVE Made'
  BY <1>12, StoreAssumption, <1>0 DEF BackupWritten, Goto, Made, EditsOf, Contents
<1>13. ASSUME NEW t \in Threads, Rename(t) PROVE Made'
  BY <1>13, StoreAssumption, <1>0 DEF Rename, EditsOf, Kind, Raced, Goto, Made, Contents
<1>14. ASSUME NEW t \in Threads, SetDigest(t) PROVE Made'
  BY <1>14, StoreAssumption, <1>0 DEF SetDigest, RememberDigest, Goto, Made, EditsOf, Contents
<1>15. ASSUME NEW t \in Threads, SetVersion(t) PROVE Made'
  BY <1>15, StoreAssumption, <1>0 DEF SetVersion, VersionWritten, Finish, Goto, Hold, Made,
     EditsOf, Contents
<1>16. ASSUME NEW t \in Threads, Launch(t) PROVE Made'
  BY <1>16, StoreAssumption, <1>0 DEF Launch, Goto, Made, EditsOf, Contents
<1>17. ASSUME NEW t \in Threads, Gives(t) PROVE Made'
  BY <1>17, StoreAssumption, <1>0 DEF Gives, Finish, Goto, Hold, Made, EditsOf, Contents
<1>18. ASSUME Falls PROVE Made'
  BY <1>18, StoreAssumption, <1>0 DEF Falls, Down, Empty, Made, EditsOf, Contents
<1>19. ASSUME MoveAside PROVE Made'
  BY <1>19, StoreAssumption, <1>0 DEF MoveAside, User, BehindBack, Made, EditsOf, Contents
<1>20. ASSUME NEW e \in Edits, Edit(e) PROVE Made'
  BY <1>20, StoreAssumption, <1>0 DEF Edit, User, BehindBack, Made, EditsOf, Contents
<1>21. ASSUME NEW v \in 0 .. 2, Replace(v) PROVE Made'
  BY <1>21, StoreAssumption, <1>0 DEF Replace, User, BehindBack, Empty, Made, EditsOf, Contents
<1>22. ASSUME UNCHANGED vars PROVE Made'
  BY <1>22, StoreAssumption, <1>0 DEF vars, Made, EditsOf, Contents
<1> QED BY Steps, <1>1, <1>2, <1>3, <1>4, <1>5, <1>6, <1>7, <1>8, <1>9, <1>10, <1>11, <1>12,
     <1>13, <1>14, <1>15, <1>16, <1>17, <1>18, <1>19, <1>20, <1>21, <1>22 DEF Moves, Placed

\* A change by the user is one the Store sees, or takes for a file without edits
\* that memory does not have; or it is made behind a thread's back.
LEMMA UserMerges ==
    ASSUME Merged, UNCHANGED <<memory, digest, threads, lost>>,
           windows \cup BehindBack \subseteq windows',
           \A c \in {digest} \cup {held[u] : u \in Threads} :
               c = file' => EditsOf(file') \subseteq memory.edits
    PROVE  Merged'
<1> USE DEF threads
<1>1. SUFFICES ASSUME windows' \cap {"late", "masked"} = {} PROVE Merged'
  BY DEF Merged
<1>2. \A u \in Threads : pc[u] \notin Blind BY <1>1 DEF BehindBack
<1>3. windows \cap {"late", "masked"} = {} BY <1>1
<1> QED BY <1>2, <1>3 DEF Merged, Recognised, Blind, Reading, Copied

\* Every step keeps what is known of edits.
LEMMA MergedKept ==
    ASSUME Placed, Made, Merged, Next \/ UNCHANGED vars
    PROVE  Merged'
<1> USE DEF disk, store, threads, history
<1>0. /\ held \in [Threads -> Contents \cup {None}] /\ memory \in Contents
      /\ file \in Contents \cup {None} /\ digest \in Contents \cup {None}
      /\ pc \in [Threads -> Location] /\ phase \in {"down", "boot", "up"}
      /\ warned \subseteq Threads /\ mutating \subseteq Threads /\ moved \subseteq Threads
  BY DEF TypeOK, Placed
<1>1. ASSUME NEW t \in Threads, StartPass(t) PROVE Merged'
  BY <1>1, StoreAssumption, <1>0 DEF StartPass, Goto, Placed, Holding, FirstAlone, Saving,
     Merged, InStep, Recognised, Made, EditsOf, Contents, Reading, Copied
<1>2. ASSUME NEW t \in Threads, Load(t) PROVE Merged'
  BY <1>2, StoreAssumption, <1>0 DEF Load, Goto, Hold, Readable, Placed, Holding, FirstAlone,
     Saving, Merged, InStep, Recognised, Made, EditsOf, Contents, Reading, Copied
<1>3. ASSUME NEW t \in Threads, LoadVersion(t) PROVE Merged'
  BY <1>3, StoreAssumption, <1>0 DEF LoadVersion, VersionRead, Goto, Placed, Holding,
     FirstAlone, Saving, Merged, InStep, Recognised, Made, EditsOf, Contents, Reading, Copied
<1>4. ASSUME NEW t \in Threads, LoadDigest(t) PROVE Merged'
  BY <1>4, StoreAssumption, <1>0 DEF LoadDigest, Goto, Placed, Holding, FirstAlone, Saving,
     Merged, InStep, Recognised, Made, EditsOf, Contents, Reading, Copied
<1>5. ASSUME NEW t \in Threads, Commit(t) PROVE Merged'
  <2>1. /\ pc[t] = "loaded" /\ mutating = {} /\ pc' = [pc EXCEPT ![t] = "committed"]
        /\ held' = [held EXCEPT ![t] = None]
        /\ UNCHANGED <<file, digest, moved, mutating, warned, lost, windows>>
    BY <1>5 DEF Commit, Goto, Hold, Overtaken
  <2>2. memory' = IF held[t] = None THEN Empty ELSE [held[t] EXCEPT !.version = SchemaVersion]
    BY <1>5 DEF Commit
  <2>3. memory'.edits = EditsOf(held[t])
    <3>1. CASE held[t] = None BY <2>2, <3>1 DEF EditsOf, Empty
    <3>2. CASE held[t] # None
      <4>1. held[t] \in Contents BY <1>0, <3>2
      <4> QED BY <2>2, <3>2, <4>1 DEF EditsOf, Contents
    <3> QED BY <3>1, <3>2
  <2>4. SUFFICES ASSUME windows \cap {"late", "masked"} = {} PROVE Merged'
    BY <2>1 DEF Merged
  <2>5. memory'.edits = EditsOf(file) BY <2>1, <2>3, <2>4 DEF Merged, Reading
  <2>6. ASSUME NEW u \in Threads, pc[u] \in Copied \cup {"check"}
        PROVE  u # t /\ held[u].edits = memory'.edits
    <3>1. pc[u] # "check" BY <2>1 DEF Placed, Holding
    <3>2. held[u].edits = memory.edits /\ InStep BY <2>1, <2>4, <2>6, <3>1 DEF Merged
    <3> QED BY <2>1, <2>5, <2>6, <3>2 DEF InStep, Copied
  <2>7. pc'[t] = "committed" /\ \A u \in Threads \ {t} : pc'[u] = pc[u] /\ held'[u] = held[u]
    BY <1>0, <2>1
  <2> QED BY <2>1, <2>4, <2>5, <2>6, <2>7 DEF Merged, Recognised, InStep, Reading, Copied
<1>6. ASSUME NEW t \in Threads, Discard(t) PROVE Merged'
  BY <1>6, StoreAssumption, <1>0 DEF Discard, Finish, Goto, Hold, Overtaken, Placed, Holding,
     FirstAlone, Saving, Merged, InStep, Recognised, Made, EditsOf, Contents, Reading, Copied
<1>7. ASSUME NEW t \in Threads, Decide(t) PROVE Merged'
  BY <1>7, StoreAssumption, <1>0 DEF Decide, MustRewrite, Finish, Goto, Hold, Placed, Holding,
     FirstAlone, Saving, Merged, InStep, Recognised, Made, EditsOf, Contents, Reading, Copied
<1>8. ASSUME NEW t \in Threads, Mutate(t) PROVE Merged'
  <2>1. /\ pc[t] = "idle" /\ pc' = [pc EXCEPT ![t] = "snapshot"]
        /\ memory' = [memory EXCEPT !.body = @ + 1] /\ mutating' = mutating \cup {t}
        /\ moved' = moved \cup {u \in Threads : pc[u] \in Reading}
        /\ windows \subseteq windows'
        /\ (\E u \in Threads : pc[u] \in Reading /\ EditsOf(held[u]) # memory.edits)
             => "masked" \in windows'
        /\ UNCHANGED <<file, digest, held, warned, lost>>
    BY <1>8 DEF Mutate, Goto, Bump
  <2>2. SUFFICES ASSUME windows' \cap {"late", "masked"} = {} PROVE Merged'
    BY DEF Merged
  <2>3. windows \cap {"late", "masked"} = {} BY <2>1, <2>2
  <2>4. memory'.edits = memory.edits BY <1>0, <2>1 DEF Contents
  <2>5. ASSUME NEW u \in Threads, pc[u] \in Reading PROVE InStep
    BY <2>1, <2>2, <2>3, <2>5 DEF Merged, InStep
  <2>6. pc'[t] = "snapshot" /\ \A u \in Threads \ {t} : pc'[u] = pc[u] BY <1>0, <2>1
  <2> QED BY <2>1, <2>3, <2>4, <2>5, <2>6 DEF Merged, Recognised, InStep, Reading, Copied
<1>9. ASSUME NEW t \in Threads, Snapshot(t) PROVE Merged'
  BY <1>9, StoreAssumption, <1>0 DEF Snapshot, Hold, Bump, Goto, Placed, Holding, FirstAlone,
     Saving, Merged, InStep, Recognised, Made, EditsOf, Contents, Reading, Copied
<1>10. ASSUME NEW t \in Threads, Check(t) PROVE Merged'
  <2>1. /\ pc[t] = "check" /\ pc' = [pc EXCEPT ![t] = "backup"] /\ windows \subseteq windows'
        /\ warned' = IF file # digest THEN warned \cup {t} ELSE warned
        /\ UNCHANGED <<file, memory, digest, held, moved, mutating, lost>>
    BY <1>10 DEF Check, Goto, ChangedOnDisk
  <2>2. SUFFICES ASSUME windows \cap {"late", "masked"} = {} PROVE Merged'
    BY <2>1 DEF Merged
  <2>3. t \in mutating BY <2>1 DEF Placed, Holding
  <2>4. \A u \in Threads : (pc'[u] = "loaded") <=> (pc[u] = "loaded") BY <1>0, <2>1
  <2>5. t \notin warned' => EditsOf(file) \subseteq memory.edits
    <3>1. CASE \E u \in Threads : pc[u] = "loaded"
      BY <2>2, <2>3, <3>1 DEF Merged, InStep, Reading
    <3>2. CASE \A u \in Threads : pc[u] # "loaded"
      BY <2>1, <2>2, <3>2 DEF Merged, Recognised
    <3> QED BY <3>1, <3>2
  <2>6. held[t].edits = memory.edits BY <2>1, <2>2 DEF Merged
  <2>7. lost' = {} /\ Recognised(digest)'
    BY <2>1, <2>2, <2>4 DEF Merged, Recognised
  <2>8. ASSUME NEW u \in Threads
        PROVE  /\ pc'[u] \in Reading => EditsOf(held[u]) = EditsOf(file)
               /\ pc'[u] \in Reading /\ (mutating # {} \/ u \in moved) => InStep
               /\ pc'[u] \in Copied \cup {"committed", "rewrite"} /\ u \notin mutating => InStep
               /\ pc'[u] \in Copied \cup {"check"} => held[u].edits = memory.edits
               /\ pc'[u] \in Copied /\ u \notin warned' => EditsOf(file) \subseteq memory.edits
               /\ pc'[u] = "written" => pc[u] = "written"
    <3>1. CASE u = t BY <1>0, <2>1, <2>3, <2>5, <2>6, <3>1 DEF Reading, Copied
    <3>2. CASE u # t BY <1>0, <2>1, <2>2, <3>2 DEF Merged
    <3> QED BY <3>1, <3>2
  <2> QED BY <2>1, <2>2, <2>4, <2>7, <2>8 DEF Merged, Recognised, InStep
<1>11. ASSUME NEW t \in Threads, Backup(t) PROVE Merged'
  BY <1>11, StoreAssumption, <1>0 DEF Backup, NeedsBackup, Goto, Placed, Holding, FirstAlone,
     Saving, Merged, InStep, Recognised, Made, EditsOf, Contents, Reading, Copied
<1>12. ASSUME NEW t \in Threads, BackupWritten(t) PROVE Merged'
  BY <1>12, StoreAssumption, <1>0 DEF BackupWritten, Goto, Placed, Holding, FirstAlone, Saving,
     Merged, InStep, Recognised, Made, EditsOf, Contents, Reading, Copied
<1>13. ASSUME NEW t \in Threads, Rename(t) PROVE Merged'
  <2>1. /\ pc[t] = "rename" /\ pc' = [pc EXCEPT ![t] = "written"] /\ file' = held[t]
        /\ lost' = IF t \in warned THEN lost ELSE lost \cup (EditsOf(file) \ held[t].edits)
        /\ windows \subseteq windows'
        /\ UNCHANGED <<memory, digest, held, moved, mutating, warned>>
    BY <1>13 DEF Rename, Goto
  <2>2. SUFFICES ASSUME windows \cap {"late", "masked"} = {} PROVE Merged'
    BY <2>1 DEF Merged
  <2>3. held[t] # None /\ held[t].edits = memory.edits
    BY <2>1, <2>2 DEF Placed, Holding, Merged, Saving, Copied
  <2>4. InStep' BY <2>1, <2>3 DEF InStep, EditsOf
  <2>5. lost' = {} BY <2>1, <2>2, <2>3 DEF Merged, Copied
  <2>6. ASSUME NEW u \in Threads, pc[u] \in Reading PROVE EditsOf(held[u]) = EditsOf(file')
    <3>1. EditsOf(held[u]) = EditsOf(file) BY <2>2, <2>6 DEF Merged
    <3>2. InStep
      <4>1. CASE t \in mutating BY <2>2, <2>6, <4>1 DEF Merged
      <4>2. CASE t \notin mutating BY <2>1, <2>2, <4>2 DEF Merged, Copied
      <4> QED BY <4>1, <4>2
    <3> QED BY <2>1, <2>4, <3>1, <3>2 DEF InStep
  <2>7. \A u \in Threads \ {t} : pc'[u] = pc[u] BY <1>0, <2>1
  <2>8. pc'[t] = "written" BY <1>0, <2>1
  <2> QED BY <2>1, <2>2, <2>4, <2>5, <2>6, <2>7, <2>8 DEF Merged, Recognised, InStep, Reading,
       Copied
<1>14. ASSUME NEW t \in Threads, SetDigest(t) PROVE Merged'
  BY <1>14, StoreAssumption, <1>0 DEF SetDigest, RememberDigest, Goto, Placed, Holding,
     FirstAlone, Saving, Merged, InStep, Recognised, Made, EditsOf, Contents, Reading, Copied
<1>15. ASSUME NEW t \in Threads, SetVersion(t) PROVE Merged'
  BY <1>15, StoreAssumption, <1>0 DEF SetVersion, VersionWritten, Finish, Goto, Hold, Placed,
     Holding, FirstAlone, Saving, Merged, InStep, Recognised, Made, EditsOf, Contents, Reading,
     Copied
<1>16. ASSUME NEW t \in Threads, Launch(t) PROVE Merged'
  BY <1>16, StoreAssumption, <1>0 DEF Launch, Goto, Placed, Holding, FirstAlone, Saving, Merged,
     InStep, Recognised, Made, EditsOf, Contents, Reading, Copied
<1>17. ASSUME NEW t \in Threads, Gives(t) PROVE Merged'
  BY <1>17, StoreAssumption, <1>0 DEF Gives, Finish, Goto, Hold, Placed, Holding, FirstAlone,
     Saving, Merged, InStep, Recognised, Made, EditsOf, Contents, Reading, Copied
<1>18. ASSUME Falls PROVE Merged'
  BY <1>18, StoreAssumption, <1>0 DEF Falls, Down, Empty, Placed, Holding, FirstAlone, Saving,
     Merged, InStep, Recognised, Made, EditsOf, Contents, Reading, Copied
<1>19. ASSUME MoveAside PROVE Merged'
  <2>1. UNCHANGED <<memory, digest, threads, lost>> /\ windows \cup BehindBack \subseteq windows'
    BY <1>19 DEF MoveAside, User
  <2>2. EditsOf(file') = {} BY <1>19, StoreAssumption DEF MoveAside, EditsOf, Empty, Contents
  <2> QED BY <2>1, <2>2, UserMerges DEF Placed
<1>20. ASSUME NEW e \in Edits, Edit(e) PROVE Merged'
  <2>1. UNCHANGED <<memory, digest, threads, lost>> /\ windows \cup BehindBack \subseteq windows'
    BY <1>20 DEF Edit, User
  <2>2. file' \in Contents /\ e \in file'.edits BY <1>20, <1>0 DEF Edit, Contents
  <2>3. e \in EditsOf(file') BY <2>2, StoreAssumption DEF EditsOf
  <2>4. \A c \in {digest} \cup {held[u] : u \in Threads} : e \notin EditsOf(c)
    BY <1>20 DEF Edit, Made
  <2> QED BY <2>1, <2>3, <2>4, UserMerges
<1>21. ASSUME NEW v \in 0 .. 2, Replace(v) PROVE Merged'
  <2>1. UNCHANGED <<memory, digest, threads, lost>> /\ windows \cup BehindBack \subseteq windows'
    BY <1>21 DEF Replace, User
  <2>2. file' \in Contents /\ file'.edits = {}
    BY <1>21, StoreAssumption DEF Replace, Empty, Contents, SchemaVersion
  <2>3. EditsOf(file') = {} BY <2>2, StoreAssumption DEF EditsOf
  <2> QED BY <2>1, <2>3, UserMerges
<1>22. ASSUME UNCHANGED vars PROVE Merged'
  BY <1>22, StoreAssumption, <1>0 DEF vars, Placed, Holding, FirstAlone, Saving, Merged, InStep,
     Recognised, Made, EditsOf, Contents, Reading, Copied
<1> QED BY Steps, <1>1, <1>2, <1>3, <1>4, <1>5, <1>6, <1>7, <1>8, <1>9, <1>10, <1>11, <1>12,
     <1>13, <1>14, <1>15, <1>16, <1>17, <1>18, <1>19, <1>20, <1>21, <1>22 DEF Moves, Placed

\* Every step keeps what the Store knows of the file.
LEMMA KnownKept ==
    ASSUME Placed, Known, Next \/ UNCHANGED vars
    PROVE  Known'
<1> USE DEF disk, store, threads, history
<1>0. /\ held \in [Threads -> Contents \cup {None}] /\ alarms \subseteq BOOLEAN
      /\ pc \in [Threads -> Location] /\ phase \in {"down", "boot", "up"}
      /\ touched \in BOOLEAN
  BY DEF TypeOK, Placed
<1>1. ASSUME NEW t \in Threads, StartPass(t) PROVE Known'
  BY <1>1, StoreAssumption, <1>0 DEF StartPass, Goto, Placed, FirstAlone, Known, Between, Begun
<1>2. ASSUME NEW t \in Threads, Load(t) PROVE Known'
  BY <1>2, StoreAssumption, <1>0 DEF Load, Goto, Hold, Readable, Placed, FirstAlone, Known,
     Between, Begun
<1>3. ASSUME NEW t \in Threads, LoadVersion(t) PROVE Known'
  <2>1. /\ pc[t] = "read" /\ pc' = [pc EXCEPT ![t] = "versioned"]
        /\ UNCHANGED <<file, held, digest, phase, touched, alarms, windows>>
    BY <1>3 DEF LoadVersion, Goto
  <2>2. \A u \in Threads : /\ pc'[u] \in Between <=> pc[u] \in Between
                           /\ pc'[u] \in {"idle", "load"} <=> pc[u] \in {"idle", "load"}
    BY <2>1, <1>0 DEF Between
  <2>3. Begun' <=> Begun
    BY <2>1, <2>2 DEF Begun
  <2> QED BY <2>1, <2>2, <2>3 DEF Known
<1>4. ASSUME NEW t \in Threads, LoadDigest(t) PROVE Known'
  BY <1>4, StoreAssumption, <1>0 DEF LoadDigest, Goto, Placed, FirstAlone, Known, Between, Begun
<1>5. ASSUME NEW t \in Threads, Commit(t) PROVE Known'
  BY <1>5, StoreAssumption, <1>0 DEF Commit, Goto, Hold, Empty, Overtaken, Placed, FirstAlone,
     Known, Between, Begun
<1>6. ASSUME NEW t \in Threads, Discard(t) PROVE Known'
  BY <1>6, StoreAssumption, <1>0 DEF Discard, Finish, Goto, Hold, Overtaken, Placed, FirstAlone,
     Known, Between, Begun
<1>7. ASSUME NEW t \in Threads, Decide(t) PROVE Known'
  BY <1>7, StoreAssumption, <1>0 DEF Decide, MustRewrite, Finish, Goto, Hold, Placed,
     FirstAlone, Known, Between, Begun
<1>8. ASSUME NEW t \in Threads, Mutate(t) PROVE Known'
  BY <1>8, StoreAssumption, <1>0 DEF Mutate, Bump, Goto, Placed, FirstAlone, Known, Between, Begun
<1>9. ASSUME NEW t \in Threads, Snapshot(t) PROVE Known'
  BY <1>9, StoreAssumption, <1>0 DEF Snapshot, Hold, Bump, Goto, Placed, FirstAlone, Known,
     Between, Begun
<1>10. ASSUME NEW t \in Threads, Check(t) PROVE Known'
  <2>1. /\ pc[t] = "check" /\ pc' = [pc EXCEPT ![t] = "backup"]
        /\ windows' = windows \cup Raced(t)
        /\ alarms' = IF file # digest THEN alarms \cup {touched} ELSE alarms
        /\ UNCHANGED <<file, digest, phase, held, touched>>
    BY <1>10 DEF Check, Goto, ChangedOnDisk
  <2>2. SUFFICES ASSUME "raced" \notin windows' PROVE Known'
    BY DEF Known
  <2>3. "raced" \notin windows /\ \A u \in Threads \ {t} : pc[u] \notin Between
    BY <2>1, <2>2 DEF Raced, Between
  <2>4. \A u \in Threads : pc[u] \notin Between BY <2>1, <2>3 DEF Between
  <2>5. \A u \in Threads : pc'[u] \notin Between BY <1>0, <2>1, <2>4 DEF Between
  <2>6. ~touched => file = digest BY <2>1, <2>3, <2>4 DEF Known, Begun
  <2>7. FALSE \notin alarms' BY <1>0, <2>1, <2>3, <2>6 DEF Known
  <2> QED BY <2>1, <2>5, <2>6, <2>7 DEF Known
<1>11. ASSUME NEW t \in Threads, Backup(t) PROVE Known'
  BY <1>11, StoreAssumption, <1>0 DEF Backup, NeedsBackup, Goto, Placed, FirstAlone, Known,
     Between, Begun
<1>12. ASSUME NEW t \in Threads, BackupWritten(t) PROVE Known'
  BY <1>12, StoreAssumption, <1>0 DEF BackupWritten, Goto, Placed, FirstAlone, Known, Between, Begun
<1>13. ASSUME NEW t \in Threads, Rename(t) PROVE Known'
  BY <1>13, StoreAssumption, <1>0 DEF Rename, EditsOf, Kind, Raced, Goto, Placed, FirstAlone,
     Known, Between, Begun
<1>14. ASSUME NEW t \in Threads, SetDigest(t) PROVE Known'
  BY <1>14, StoreAssumption, <1>0 DEF SetDigest, RememberDigest, Goto, Placed, FirstAlone,
     Known, Between, Begun
<1>15. ASSUME NEW t \in Threads, SetVersion(t) PROVE Known'
  BY <1>15, StoreAssumption, <1>0 DEF SetVersion, VersionWritten, Finish, Goto, Hold, Placed,
     FirstAlone, Known, Between, Begun
<1>16. ASSUME NEW t \in Threads, Launch(t) PROVE Known'
  BY <1>16, StoreAssumption, <1>0 DEF Launch, Goto, Placed, FirstAlone, Known, Between, Begun
<1>17. ASSUME NEW t \in Threads, Gives(t) PROVE Known'
  BY <1>17, StoreAssumption, <1>0 DEF Gives, Finish, Goto, Hold, Placed, FirstAlone, Known,
     Between, Begun
<1>18. ASSUME Falls PROVE Known'
  BY <1>18, StoreAssumption, <1>0 DEF Falls, Down, Empty, Placed, FirstAlone, Known, Between, Begun
<1>19. ASSUME MoveAside PROVE Known'
  BY <1>19, StoreAssumption, <1>0 DEF MoveAside, User, BehindBack, Placed, FirstAlone, Known,
     Between, Begun
<1>20. ASSUME NEW e \in Edits, Edit(e) PROVE Known'
  BY <1>20, StoreAssumption, <1>0 DEF Edit, User, BehindBack, Placed, FirstAlone, Known,
     Between, Begun
<1>21. ASSUME NEW v \in 0 .. 2, Replace(v) PROVE Known'
  BY <1>21, StoreAssumption, <1>0 DEF Replace, User, BehindBack, Empty, Placed, FirstAlone,
     Known, Between, Begun
<1>22. ASSUME UNCHANGED vars PROVE Known'
  BY <1>22, StoreAssumption, <1>0 DEF vars, Placed, FirstAlone, Known, Between, Begun
<1> QED BY Steps, <1>1, <1>2, <1>3, <1>4, <1>5, <1>6, <1>7, <1>8, <1>9, <1>10, <1>11, <1>12,
     <1>13, <1>14, <1>15, <1>16, <1>17, <1>18, <1>19, <1>20, <1>21, <1>22 DEF Moves, Placed

-----------------------------------------------------------------------------
(***************************************************************************)
(* The invariant, and the theorems                                         *)
(***************************************************************************)

\* Before the daemon is first started.
LEMMA InitHolds ==
    ASSUME Init
    PROVE  IInv
<1> USE StoreAssumption DEF Init
<1>1. file = None \/ (file \in Contents /\ file.edits = {})
  BY DEF Empty, Contents, SchemaVersion
<1>2. memory \in Contents /\ memory.version = SchemaVersion /\ memory.edits = {}
  BY DEF Empty, Contents, SchemaVersion
<1>3. pc \in [Threads -> Location] /\ \A t \in Threads : pc[t] = "idle" BY DEF Location
<1>4. held \in [Threads -> Contents \cup {None}] /\ \A t \in Threads : held[t] = None
  OBVIOUS
<1>5. TypeOK
  <2>1. file \in Contents \cup {None} BY <1>1
  <2>2. digest \in Contents \cup {None} /\ backup \in Backups \cup {None} OBVIOUS
  <2>3. phase \in {"down", "boot", "up"} OBVIOUS
  <2>4. loadedVersion \in 0 .. SchemaVersion BY DEF SchemaVersion
  <2>5. /\ moved \subseteq Threads /\ mutating \subseteq Threads /\ warned \subseteq Threads
        /\ made \subseteq Edits /\ lost \subseteq Edits /\ alarms \subseteq BOOLEAN
        /\ replaced \subseteq {"older", "newer"} /\ windows \subseteq Window
    OBVIOUS
  <2>6. backedUp \in BOOLEAN /\ touched \in BOOLEAN OBVIOUS
  <2> QED BY <1>2, <1>3, <1>4, <2>1, <2>2, <2>3, <2>4, <2>5, <2>6 DEF TypeOK
<1>6. Placed BY <1>2, <1>3, <1>5 DEF Placed, FirstAlone, Holding, Reading, Saving, Copied
<1>7. Versioned /\ Backed BY <1>3 DEF Versioned, Backed
<1>8. EditsOf(file) = {} /\ EditsOf(digest) = {} BY <1>1 DEF EditsOf
<1>9. Made BY <1>2, <1>4, <1>8 DEF Made, EditsOf
<1>10. Merged BY <1>2, <1>3, <1>8 DEF Merged, Recognised, Reading, Copied
<1>11. Known BY <1>3 DEF Known, Between, Begun
<1> QED BY <1>6, <1>7, <1>9, <1>10, <1>11 DEF IInv

\* The invariant of instances.toml and its Store: where threads are, and what is
\* known of versions, of the copy, of edits and of the file, in every behaviour.
THEOREM Invariance == Spec => []IInv
<1>1. ASSUME IInv, [Next]_vars PROVE IInv'
  <2>1. Next \/ UNCHANGED vars BY <1>1
  <2>2. Placed' BY <1>1, <2>1, TypeKept, AloneKept, HoldingKept, MemoryKept DEF IInv, Placed,
       SchemaVersion
  <2>3. Versioned' /\ Backed' BY <1>1, <2>1, VersionedKept, BackedKept DEF IInv
  <2>4. Made' /\ Merged' BY <1>1, <2>1, MadeKept, MergedKept DEF IInv
  <2>5. Known' BY <1>1, <2>1, KnownKept DEF IInv
  <2> QED BY <2>2, <2>3, <2>4, <2>5 DEF IInv
<1> QED BY InitHolds, <1>1, PTL DEF Spec

\* Every field of the Store, and every contents read or written, is of its type.
THEOREM TypeCorrect == Spec => []TypeOK
<1>1. IInv => TypeOK BY DEF IInv, Placed
<1> QED BY <1>1, Invariance, PTL

\* An edit made by hand is in the file or was overwritten with a warning, unless
\* it was made behind a thread's back or read by a pass that was dropped
\* (store.go:123-146, 243-255; manager.go:355).
THEOREM EditsSurvive == Spec => []EditsNotSilentlyLost
<1>1. IInv => EditsNotSilentlyLost BY DEF IInv, Merged, EditsNotSilentlyLost
<1> QED BY <1>1, Invariance, PTL

\* Once a file of an older schema has been replaced a whole copy of such a file
\* exists (store.go:205-226, 262-288).
THEOREM OriginalSurvives == Spec => []OriginalKept
<1>1. IInv => OriginalKept BY DEF IInv, Backed, IsCopy, OriginalKept
<1> QED BY <1>1, Invariance, PTL

\* The daemon never replaces a file that a newer dbforge wrote, and stays down
\* rather than read it (store.go:123-130).
THEOREM NewerIsSafe == Spec => []NewerLeftAlone
<1>1. IInv => NewerLeftAlone BY DEF IInv, Versioned, NewerLeftAlone
<1> QED BY <1>1, Invariance, PTL

\* A daemon that is up has upgraded the file, drift or no drift.
THEOREM UpIsUpgraded == Spec => []Upgraded
<1>1. IInv => Upgraded BY DEF IInv, Versioned, Has, Upgraded
<1> QED BY <1>1, Invariance, PTL

\* The daemon does not take its own write for an edit made by hand, unless a save
\* runs into another thread's load or write.
THEOREM AlarmsAreReal == Spec => []AlarmsReal
<1>1. IInv => AlarmsReal BY DEF IInv, Known, AlarmsReal
<1> QED BY <1>1, Invariance, PTL

=============================================================================
