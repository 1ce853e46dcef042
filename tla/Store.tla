-------------------------------- MODULE Store --------------------------------
(***************************************************************************)
(* instances.toml and the Store that reads and writes it, used by several  *)
(* threads of the daemon at once, next to a user who edits the file, moves *)
(* it aside or puts another in its place.  The Store has no mutex: its     *)
(* fields are read and assigned by every thread, one at a time here.       *)
(*                                                                         *)
(* Of the manager only what decides when the Store is called is kept: a    *)
(* mutation changes memory and ends in a save, a pass loads, commits or is *)
(* overtaken, and may end in a forced save.  Module Manager has the rest.  *)
(*                                                                         *)
(* A digest is modelled by the contents it is the digest of, a hand edit   *)
(* by a name.  "body" stands for what the daemon itself changes.           *)
(***************************************************************************)
EXTENDS Integers

CONSTANTS
    None,     \* no file, no backup, or nothing read yet
    Threads,  \* the daemon's threads
    Edits,    \* edits made by hand, each made once
    MaxBody,  \* bound: changes the daemon makes
    Faults    \* "disk": a read or a write may fail; "crash": all may stop

SchemaVersion == 1

Contents == [version : 0 .. 2, edits : SUBSET Edits, body : 0 .. MaxBody]
Backups  == [contents : Contents, whole : BOOLEAN]

ASSUME StoreAssumption ==
    /\ None \notin Contents \cup Backups /\ MaxBody \in Nat
    /\ Faults \subseteq {"disk", "crash"}

Empty == [version |-> SchemaVersion, edits |-> {}, body |-> 0]

VARIABLES
    file,           \* instances.toml
    backup,         \* instances.toml.v0.bak: its contents and whether all is there
    phase,          \* "down", "boot" (the first pass) or "up"
    memory,         \* what the daemon would save
    digest,         \* Store.digest
    loadedVersion,  \* Store.loadedVersion
    backedUp,       \* Store.backedUp
    pc,
    held,           \* the contents a thread has read, or is about to write
    moved,          \* passes overtaken by a change
    mutating,       \* threads that are changing memory (Manager.inflight)
    warned,         \* threads that logged "config changed on disk"
    made,           \* edits made so far
    touched,        \* history: the file is as the user, not the daemon, left it
    lost,           \* history: edits overwritten without a warning
    replaced,       \* history: kinds of file the daemon has replaced
    alarms,         \* history: was a file warned about as the user left it?
    windows         \* history: what this behaviour went through, see Window

disk    == <<file, backup>>
store   == <<digest, loadedVersion, backedUp>>
threads == <<pc, held, moved, mutating, warned>>
history == <<lost, replaced, alarms>>
vars    == <<disk, phase, memory, store, threads, made, touched, history, windows>>

(* The ways past the Store's checks that the code leaves open: a hand      *)
(* change read by a pass while a mutation is under way, one made behind a  *)
(* thread's back, a backup interrupted, a file put there under a running   *)
(* daemon, a save checked or made while another has not told the Store.    *)
Window == {"masked", "late", "torn", "swapped", "raced"}

(* A pass between reading the file and deciding what to make of it.        *)
Reading == {"read", "versioned", "loaded"}

(* From here on a thread does not look at the file again before it has     *)
(* replaced it.                                                            *)
Blind == Reading \cup {"committed", "rewrite", "backup", "copying", "rename"}

Location == Blind \cup {"idle", "load", "snapshot", "check", "written", "digested"}

(* Another thread has the file or the digest of it, but not both: it has    *)
(* read one that the Store does not know yet, or written one.              *)
Raced(t) ==
    IF \E u \in Threads \ {t} : pc[u] \in {"read", "versioned", "written"}
    THEN {"raced"} ELSE {}

EditsOf(c) == IF c = None THEN {} ELSE c.edits

Init ==
    /\ file \in {None} \cup {[Empty EXCEPT !.version = v] : v \in 0 .. 2}
    /\ backup = None /\ phase = "down" /\ memory = Empty
    /\ digest = None /\ loadedVersion = 0 /\ backedUp = FALSE
    /\ pc = [t \in Threads |-> "idle"] /\ held = [t \in Threads |-> None]
    /\ moved = {} /\ mutating = {} /\ warned = {}
    /\ made = {} /\ touched = FALSE /\ lost = {} /\ replaced = {}
    /\ alarms = {} /\ windows = {}

-----------------------------------------------------------------------------

Goto(t, l) == pc' = [pc EXCEPT ![t] = l]
Hold(t, c) == held' = [held EXCEPT ![t] = c]

(* gen++: every pass that has not committed is overtaken.                  *)
Bump == moved' = moved \cup {t \in Threads : pc[t] \in Reading}

Overtaken(t) == t \in moved \/ mutating # {}

(* The daemon ends; the next one starts with a new Store.                  *)
Down ==
    /\ phase' = "down" /\ memory' = Empty
    /\ digest' = None /\ loadedVersion' = 0 /\ backedUp' = FALSE
    /\ pc' = [t \in Threads |-> "idle"] /\ held' = [t \in Threads |-> None]
    /\ moved' = {} /\ mutating' = {} /\ warned' = {}

(* What a thread was doing is over; the first pass opens the daemon.       *)
Finish(t) ==
    /\ Goto(t, "idle") /\ Hold(t, None)
    /\ mutating' = mutating \ {t} /\ warned' = warned \ {t}
    /\ phase' = "up"

(* An error: of the first pass it ends the daemon.                         *)
Fail(t) ==
    /\ IF phase = "boot" THEN Down
       ELSE Finish(t) /\ moved' = moved \ {t} /\ UNCHANGED <<memory, store>>
    /\ UNCHANGED <<made, touched, history>>

-----------------------------------------------------------------------------
(* Load, inside a reconcile pass                                           *)

StartPass(t) ==
    /\ pc[t] = "idle" /\ phase = "up"
    /\ Goto(t, "load")
    /\ UNCHANGED <<disk, phase, memory, store, held, moved, mutating, warned,
                   made, touched, history, windows>>

SlipAnyVersion(c) == TRUE

(* A file written by a newer dbforge is refused.                           *)
Readable(c) == c # None => c.version <= SchemaVersion

(* Read gen, then the file.                                                *)
Load(t) ==
    /\ pc[t] = "load" /\ Readable(file)
    /\ Hold(t, file) /\ Goto(t, "read")
    /\ moved' = moved \ {t}
    /\ windows' = IF mutating # {} /\ EditsOf(file) # memory.edits
                  THEN windows \cup {"masked"} ELSE windows
    /\ UNCHANGED <<disk, phase, memory, store, mutating, warned, made, touched,
                   history>>

LoadFails(t) ==
    /\ pc[t] = "load"
    /\ ~Readable(file) \/ "disk" \in Faults
    /\ Fail(t)
    /\ UNCHANGED <<disk, windows>>

SlipMigrated(t) == SchemaVersion

(* The version is taken before the contents are migrated.                  *)
VersionRead(t) == IF held[t] = None THEN SchemaVersion ELSE held[t].version

LoadVersion(t) ==
    /\ pc[t] = "read"
    /\ loadedVersion' = VersionRead(t)
    /\ Goto(t, "versioned")
    /\ UNCHANGED <<disk, phase, memory, digest, backedUp, held, moved, mutating,
                   warned, made, touched, history, windows>>

LoadDigest(t) ==
    /\ pc[t] = "versioned"
    /\ digest' = held[t]
    /\ Goto(t, "loaded")
    /\ UNCHANGED <<disk, phase, memory, loadedVersion, backedUp, held, moved,
                   mutating, warned, made, touched, history, windows>>

-----------------------------------------------------------------------------
(* The rest of the pass                                                    *)

(* What was read replaces memory, edits and all.                           *)
Commit(t) ==
    /\ pc[t] = "loaded" /\ ~Overtaken(t)
    /\ memory' = IF held[t] = None THEN Empty
                 ELSE [held[t] EXCEPT !.version = SchemaVersion]
    /\ Hold(t, None) /\ Goto(t, "committed")
    /\ UNCHANGED <<disk, phase, store, moved, mutating, warned, made, touched,
                   history, windows>>

(* Overtaken: what was read is dropped, but the Store remembers it as read. *)
Discard(t) ==
    /\ pc[t] = "loaded" /\ Overtaken(t)
    /\ Finish(t)
    /\ moved' = moved \ {t}
    /\ UNCHANGED <<disk, memory, store, made, touched, history, windows>>

SlipOnlyDrift(drifted) == drifted

(* A file of an older schema is rewritten even when nothing drifted.       *)
MustRewrite(drifted) == drifted \/ loadedVersion < SchemaVersion

Decide(t) ==
    /\ pc[t] = "committed"
    /\ \E drifted \in BOOLEAN :
          IF MustRewrite(drifted)
          THEN Goto(t, "rewrite") /\ UNCHANGED <<phase, held, mutating, warned>>
          ELSE Finish(t)
    /\ UNCHANGED <<disk, memory, store, moved, made, touched, history, windows>>

-----------------------------------------------------------------------------
(* Save                                                                    *)

(* A request changes an instance; the save that follows is part of it.     *)
Mutate(t) ==
    /\ pc[t] = "idle" /\ phase = "up" /\ memory.body < MaxBody
    /\ memory' = [memory EXCEPT !.body = @ + 1]
    /\ mutating' = mutating \cup {t}
    /\ Bump
    /\ Goto(t, "snapshot")
    /\ windows' = IF \E u \in Threads :
                        /\ pc[u] \in Reading
                        /\ EditsOf(held[u]) # memory.edits
                  THEN windows \cup {"masked"} ELSE windows
    /\ UNCHANGED <<disk, phase, store, held, warned, made, touched, history>>

(* Copy memory under mu. The save of a pass is forced: it does not check.  *)
Snapshot(t) ==
    /\ pc[t] \in {"snapshot", "rewrite"}
    /\ Hold(t, memory)
    /\ Bump
    /\ Goto(t, IF pc[t] = "rewrite" THEN "backup" ELSE "check")
    /\ UNCHANGED <<disk, phase, memory, store, mutating, warned, made, touched,
                   history, windows>>

SlipNoCheck == FALSE

ChangedOnDisk == file # digest

(* A changed file is overwritten all the same, after a warning.            *)
Check(t) ==
    /\ pc[t] = "check"
    /\ warned' = IF ChangedOnDisk THEN warned \cup {t} ELSE warned
    /\ alarms' = IF ChangedOnDisk THEN alarms \cup {touched} ELSE alarms
    /\ Goto(t, "backup")
    /\ windows' = windows \cup Raced(t)
    /\ UNCHANGED <<disk, phase, memory, store, held, moved, mutating, made,
                   touched, lost, replaced>>

NeedsBackup == loadedVersion < SchemaVersion /\ ~backedUp

(* An existing backup is never overwritten.                                *)
Backup(t) ==
    /\ pc[t] = "backup"
    /\ IF NeedsBackup /\ file # None /\ backup = None
       THEN /\ backup' = [contents |-> file, whole |-> FALSE]
            /\ Goto(t, "copying")
            /\ UNCHANGED backedUp
       ELSE /\ backedUp' = (backedUp \/ NeedsBackup)
            /\ Goto(t, "rename")
            /\ UNCHANGED backup
    /\ UNCHANGED <<file, phase, memory, digest, loadedVersion, held, moved,
                   mutating, warned, made, touched, history, windows>>

BackupWritten(t) ==
    /\ pc[t] = "copying"
    /\ backup' = [backup EXCEPT !.whole = TRUE]
    /\ backedUp' = TRUE
    /\ Goto(t, "rename")
    /\ UNCHANGED <<file, phase, memory, digest, loadedVersion, held, moved,
                   mutating, warned, made, touched, history, windows>>

Kind(c) ==
    IF c = None THEN {}
    ELSE CASE c.version < SchemaVersion -> {"older"}
           [] c.version > SchemaVersion -> {"newer"}
           [] OTHER                     -> {}

(* Atomic: a crash or a full disk leaves the old file.                     *)
Rename(t) ==
    /\ pc[t] = "rename"
    /\ file' = held[t]
    /\ touched' = FALSE
    /\ lost' = IF t \in warned THEN lost
               ELSE lost \cup (EditsOf(file) \ held[t].edits)
    /\ replaced' = replaced \cup Kind(file)
    /\ Goto(t, "written")
    /\ windows' = windows \cup Raced(t)
    /\ UNCHANGED <<backup, phase, memory, store, held, moved, mutating, warned,
                   made, alarms>>

SlipKeepDigest(t) == UNCHANGED digest

RememberDigest(t) == digest' = held[t]

SetDigest(t) ==
    /\ pc[t] = "written"
    /\ RememberDigest(t)
    /\ Goto(t, "digested")
    /\ UNCHANGED <<disk, phase, memory, loadedVersion, backedUp, held, moved,
                   mutating, warned, made, touched, history, windows>>

SlipNextVersion == loadedVersion + 1

VersionWritten == SchemaVersion

SetVersion(t) ==
    /\ pc[t] = "digested"
    /\ loadedVersion' = VersionWritten
    /\ Finish(t)
    /\ UNCHANGED <<disk, memory, digest, backedUp, moved, made, touched, history,
                   windows>>

(* Every step of Save up to the rename may fail; a backup under way then   *)
(* stays as it is.                                                         *)
SaveFails(t) ==
    /\ "disk" \in Faults
    /\ pc[t] \in {"check", "backup", "copying", "rename"}
    /\ Fail(t)
    /\ windows' = IF pc[t] = "copying" THEN windows \cup {"torn"} ELSE windows
    /\ UNCHANGED disk

-----------------------------------------------------------------------------

Launch(t) ==
    /\ phase = "down"
    /\ phase' = "boot"
    /\ Goto(t, "load")
    /\ UNCHANGED <<disk, memory, store, held, moved, mutating, warned, made,
                   touched, history, windows>>

Crash ==
    /\ "crash" \in Faults /\ phase # "down"
    /\ Down
    /\ windows' = IF \E t \in Threads : pc[t] = "copying"
                  THEN windows \cup {"torn"} ELSE windows
    /\ UNCHANGED <<disk, made, touched, history>>

(* A change made while some thread works from what it read before is one   *)
(* that thread cannot see.                                                 *)
BehindBack ==
    IF \E t \in Threads : pc[t] \in Blind THEN {"late"} ELSE {}

User == /\ touched' = TRUE
        /\ UNCHANGED <<backup, phase, memory, store, threads, history>>

Edit(e) ==
    /\ e \notin made /\ file # None
    /\ file' = [file EXCEPT !.edits = @ \cup {e}]
    /\ made' = made \cup {e}
    /\ windows' = windows \cup BehindBack
    /\ User

MoveAside ==
    /\ file # None
    /\ file' = None
    /\ windows' = windows \cup BehindBack
    /\ User /\ UNCHANGED made

(* A file of another version is put in place: by an upgrade or a downgrade *)
(* while the daemon is down, by hand at any time.                          *)
Replace(v) ==
    /\ file' = [Empty EXCEPT !.version = v]
    /\ windows' = windows \cup BehindBack
                   \cup (IF phase = "down" THEN {} ELSE {"swapped"})
    /\ User /\ UNCHANGED made

Next ==
    \/ \E t \in Threads :
          \/ StartPass(t) \/ Load(t) \/ LoadFails(t) \/ LoadVersion(t)
          \/ LoadDigest(t) \/ Commit(t) \/ Discard(t) \/ Decide(t)
          \/ Mutate(t) \/ Snapshot(t) \/ Check(t) \/ Backup(t)
          \/ BackupWritten(t) \/ Rename(t) \/ SetDigest(t) \/ SetVersion(t)
          \/ SaveFails(t) \/ Launch(t)
    \/ Crash \/ MoveAside
    \/ \E e \in Edits : Edit(e)
    \/ \E v \in 0 .. 2 : Replace(v)

Spec == Init /\ [][Next]_vars

-----------------------------------------------------------------------------
(* Properties                                                              *)

TypeOK ==
    /\ file \in Contents \cup {None} /\ digest \in Contents \cup {None}
    /\ backup \in Backups \cup {None}
    /\ phase \in {"down", "boot", "up"} /\ memory \in Contents
    /\ loadedVersion \in 0 .. SchemaVersion /\ backedUp \in BOOLEAN
    /\ pc \in [Threads -> Location]
    /\ held \in [Threads -> Contents \cup {None}]
    /\ moved \subseteq Threads /\ mutating \subseteq Threads
    /\ warned \subseteq Threads
    /\ made \subseteq Edits /\ lost \subseteq Edits
    /\ touched \in BOOLEAN /\ alarms \subseteq BOOLEAN
    /\ replaced \subseteq {"older", "newer"}
    /\ windows \subseteq Window

(* An edit made by hand is in the file or was overwritten with a warning,  *)
(* across every order of passes and saves, failures and restarts, unless   *)
(* it was made behind a thread's back or read by a pass that was dropped.  *)
EditsNotSilentlyLost == windows \cap {"late", "masked"} = {} => lost = {}

(* Once a file of an older schema has been replaced, a whole copy of such  *)
(* a file exists, unless the copy was interrupted or the old file was put  *)
(* there under a running daemon.                                           *)
OriginalKept ==
    windows \cap {"torn", "swapped"} = {} /\ "older" \in replaced =>
        /\ backup # None /\ backup.whole
        /\ backup.contents.version < SchemaVersion

(* A file written by a newer dbforge is left alone, unless it was put      *)
(* there under a running daemon.                                           *)
NewerLeftAlone == "swapped" \notin windows => "newer" \notin replaced

(* A daemon that is up has upgraded the file, drift or no drift.           *)
Upgraded ==
    phase = "up" /\ file # None /\ "swapped" \notin windows
        => file.version = SchemaVersion

(* "config changed on disk" is said only of a file as the user left it     *)
(* (manager.go:355): the daemon does not take its own write for an edit.   *)
(* Only a save that runs into another thread's load, or between another's  *)
(* rename and its digest (store.go:251-255), may raise a false alarm.      *)
AlarmsReal == "raced" \notin windows => FALSE \notin alarms

(* Hand edits made while the daemon was running are never silently         *)
(* clobbered (store.go:5). A pass that reads an edit makes the Store       *)
(* remember it as seen (store.go:140) even when the pass is then dropped,  *)
(* and the next save finds nothing changed.                                *)
NeverSilentlyClobbered == windows \subseteq {"masked"} => lost = {}

(* The original of an upgraded file is kept (store.go:205). A backup that  *)
(* could not be written whole is taken for one that was (store.go:273).    *)
OriginalAlwaysKept ==
    windows \subseteq {"torn"} /\ "older" \in replaced =>
        backup # None /\ backup.whole

=============================================================================
