------------------------------- MODULE OpenProject ------------------------------
(***************************************************************************)
(* Opening a project file and upgrading one of the alpha's layouts in      *)
(* place (project-redb, open_inner and migration).  Every database open    *)
(* takes a lock on the file it opened; the upgrade is made in a private    *)
(* sibling directory, the old file is kept under a backup name and the new *)
(* one renamed over it.                                                    *)
(*   files     the files, by number: their layout (revision), the work in  *)
(*             them, whether they were closed cleanly, and the features    *)
(*             their schema marker admits                                  *)
(*   path      the file the project's path names, or 0                     *)
(*   backups   the files that have a .bak name                             *)
(*   at        where a process is                                          *)
(*   handle    the file it has open, or 0                                  *)
(*   copy      the private copy: None until its directory is made          *)
(*   made      the pieces of work committed so far                         *)
(***************************************************************************)
EXTENDS Naturals, Sequences, FiniteSets

CONSTANTS
  Openers,       \* the processes that open the path
  NoCopy,        \* no private copy
  MaxMade,       \* bound: commits
  Errors         \* bound: the layouts whose upgrade may fail on its input and output

ASSUME OpenProjectAssumption == MaxMade \in Nat

VARIABLES files, path, backups, at, handle, copy, made

project == <<files, path, backups, at, handle, copy, made>>

(* "container" is the old database version, "raw" the present one without   *)
(* the tile revision, "stored" the present layout.  "unmarked" is an old    *)
(* database that is not a project, "blank" a new one that is not yet one,   *)
(* and "foreign" any other file.                                            *)
File(layout, work) ==
  [layout |-> layout, work |-> work, clean |-> TRUE, features |-> work # {}]

ProjectInit(layouts) ==
  /\ \/ "missing" \in layouts /\ files = <<>> /\ path = 0 /\ made = 0
     \/ \E layout \in layouts \cap {"container", "raw", "stored"}, clean \in BOOLEAN :
          /\ layout = "container" => clean
          /\ files = <<[File(layout, {1}) EXCEPT !.clean = clean]>> /\ path = 1 /\ made = 1
     \/ \E layout \in layouts \cap {"unmarked", "foreign"} :
          files = <<File(layout, {})>> /\ path = 1 /\ made = 0
  /\ backups = {}
  /\ at = [p \in Openers |-> "closed"] /\ handle = [p \in Openers |-> 0]
  /\ copy = [p \in Openers |-> NoCopy]

Moves(p, there) == at' = [at EXCEPT ![p] = there]

(* The locks: those that read only share them, and looking at the path or   *)
(* having opened the source of an upgrade takes none.                       *)
Shares(p) == at[p] = "checked"
Owns(p)   == handle[p] # 0 /\ at[p] \notin {"checked", "source"}
Owned(f, p)  == \E q \in Openers \ {p} : handle[q] = f /\ Owns(q)
Locked(f, p) == \E q \in Openers \ {p} : handle[q] = f /\ (Owns(q) \/ Shares(q))

-----------------------------------------------------------------------------
(* open_inner: the read-only look first, its lock let go before anything    *)
(* else is opened.                                                          *)
OpenMode(p) ==
  /\ at[p] = "mode"
  /\ Moves(p, IF path = 0 THEN "create" ELSE "check")
  /\ UNCHANGED <<files, path, backups, handle, copy, made>>

Invalid(file) == file.layout = "foreign" \/ (file.layout = "blank" /\ file.clean)

Check(p) ==
  /\ at[p] = "check"
  /\ LET file == files[path] IN
     \/ /\ Owned(path, p) \/ Invalid(file)
        /\ Moves(p, "refused") /\ handle' = handle
     \/ /\ ~Owned(path, p) /\ file.layout \in {"container", "unmarked"}
        /\ Moves(p, "upgrade") /\ handle' = handle
     \/ /\ ~Owned(path, p) /\ file.clean /\ file.layout \in {"raw", "stored"}
        /\ Moves(p, "checked") /\ handle' = [handle EXCEPT ![p] = path]
     \/ /\ ~Owned(path, p) /\ ~file.clean
        /\ Moves(p, "write") /\ handle' = handle
  /\ UNCHANGED <<files, path, backups, copy, made>>

Checked(p) ==
  /\ at[p] = "checked"
  /\ Moves(p, IF files[handle[p]].layout = "raw" THEN "upgrade" ELSE "write")
  /\ handle' = [handle EXCEPT ![p] = 0]
  /\ UNCHANGED <<files, path, backups, copy, made>>

(* Database::open repairs what was not closed cleanly and holds the lock.   *)
OpenWritable(p) ==
  /\ at[p] = "write"
  /\ IF Locked(path, p) \/ files[path].layout \notin {"raw", "stored", "blank"}
     THEN Moves(p, "refused") /\ UNCHANGED <<handle, files>>
     ELSE /\ Moves(p, "opened") /\ handle' = [handle EXCEPT ![p] = path]
          /\ files' = [files EXCEPT ![path].clean = FALSE]
  /\ UNCHANGED <<path, backups, copy, made>>

Opened(p) ==
  /\ at[p] = "opened"
  /\ IF files[handle[p]].layout = "stored"
     THEN Moves(p, "open") /\ UNCHANGED <<handle, files>>
     ELSE /\ Moves(p, IF files[handle[p]].layout = "raw" THEN "upgrade" ELSE "refused")
          /\ handle' = [handle EXCEPT ![p] = 0]
          /\ files' = [files EXCEPT ![handle[p]].clean = TRUE]
  /\ UNCHANGED <<path, backups, copy, made>>

(* Database::create opens what is there by now.                             *)
Create(p) ==
  /\ at[p] = "create"
  /\ \/ /\ path = 0
        /\ files' = Append(files, [File("blank", {}) EXCEPT !.clean = FALSE])
        /\ path' = Len(files') /\ handle' = [handle EXCEPT ![p] = Len(files')]
        /\ Moves(p, "created")
     \/ /\ path # 0 /\ Locked(path, p)
        /\ Moves(p, "refused") /\ UNCHANGED <<files, path, handle>>
     \/ /\ path # 0 /\ ~Locked(path, p)
        /\ files' = [files EXCEPT ![path].clean = FALSE]
        /\ handle' = [handle EXCEPT ![p] = path] /\ path' = path /\ Moves(p, "created")
  /\ UNCHANGED <<backups, copy, made>>

(* write_marker writes the marker and the page of an empty project.  Until  *)
(* then a file that has been created is no project to any later open.       *)
WriteMarker(p) ==
  /\ at[p] = "created" /\ Moves(p, "open")
  /\ files' = [files EXCEPT ![handle[p]].layout = "stored", ![handle[p]].features = FALSE]
  /\ UNCHANGED <<path, backups, handle, copy, made>>

-----------------------------------------------------------------------------
(* migrate_inner, in place.  The source is opened and locked in two steps;  *)
(* leaving, by whatever way, removes the private directory (Staging) and    *)
(* then lets the lock go.                                                   *)
OpenSource(p) ==
  /\ at[p] = "upgrade" /\ Moves(p, "source")
  /\ handle' = [handle EXCEPT ![p] = path]
  /\ UNCHANGED <<files, path, backups, copy, made>>

Leaves(p, there) ==
  /\ Moves(p, there)
  /\ copy' = [copy EXCEPT ![p] = NoCopy] /\ handle' = [handle EXCEPT ![p] = 0]

Fails(p) == files[handle[p]].layout \in Errors /\ Leaves(p, "refused")

(* Fault: the source of an upgrade is not locked. *)
LockSourceFault(p) ==
  /\ at[p] = "source" /\ Moves(p, "locked")
  /\ UNCHANGED <<files, path, backups, handle, copy, made>>

LockSource(p) ==
  /\ at[p] = "source"
  /\ IF Locked(handle[p], p) THEN Leaves(p, "refused")
     ELSE Moves(p, "locked") /\ UNCHANGED <<handle, copy>>
  /\ UNCHANGED <<files, path, backups, made>>

Copy(p) ==
  /\ at[p] = "locked"
  /\ \/ /\ copy' = [copy EXCEPT ![p] = files[handle[p]]] /\ Moves(p, "copied")
        /\ handle' = handle
     \/ Fails(p)
  /\ UNCHANGED <<files, path, backups, made>>

(* Container upgrade, rebuild_storage, rename over the copy, validation and *)
(* comparison of every record, fsync: all on the private copy.              *)
Rebuild(p) ==
  /\ at[p] = "copied"
  /\ \/ /\ copy[p].layout \in {"container", "raw", "stored"}
        /\ copy' = [copy EXCEPT ![p].layout = "stored", ![p].clean = TRUE]
        /\ Moves(p, "rebuilt") /\ handle' = handle
     \/ copy[p].layout = "unmarked" /\ Leaves(p, "refused")
     \/ Fails(p)
  /\ UNCHANGED <<files, path, backups, made>>

(* Fault: the old file is not kept. *)
KeepBackupFault(p) ==
  /\ at[p] = "rebuilt" /\ Moves(p, "kept")
  /\ UNCHANGED <<files, path, backups, handle, copy, made>>

KeepBackup(p) ==
  /\ at[p] = "rebuilt"
  /\ \/ backups' = backups \cup {path} /\ Moves(p, "kept") /\ UNCHANGED <<copy, handle>>
     \/ Fails(p) /\ backups' = backups
  /\ UNCHANGED <<files, path, made>>

Publish(p) ==
  /\ at[p] = "kept"
  /\ \/ /\ files' = Append(files, copy[p]) /\ path' = Len(files')
        /\ Moves(p, "published") /\ UNCHANGED <<copy, handle>>
     \/ Fails(p) /\ UNCHANGED <<files, path>>
  /\ UNCHANGED <<backups, made>>

Upgraded(p) ==
  /\ at[p] = "published" /\ Leaves(p, "mode")
  /\ UNCHANGED <<files, path, backups, made>>

-----------------------------------------------------------------------------
(* The open project.                                                        *)
Commit(p) ==
  /\ at[p] = "open" /\ made < MaxMade
  /\ made' = made + 1
  /\ files' = [files EXCEPT ![handle[p]].work = @ \cup {made + 1},
                            ![handle[p]].features = TRUE]
  /\ UNCHANGED <<path, backups, at, handle, copy>>

Close(p) ==
  /\ at[p] = "open" /\ Moves(p, "done")
  /\ files' = [files EXCEPT ![handle[p]].clean = TRUE]
  /\ handle' = [handle EXCEPT ![p] = 0]
  /\ UNCHANGED <<path, backups, copy, made>>

(* A process that dies leaves its private directory and its locks go.       *)
Die(p) ==
  /\ Moves(p, "dead") /\ handle' = [handle EXCEPT ![p] = 0]
  /\ UNCHANGED <<files, path, backups, copy, made>>

Opening(p) ==
  \/ OpenMode(p) \/ Check(p) \/ Checked(p) \/ OpenWritable(p) \/ Opened(p) \/ Create(p)
  \/ WriteMarker(p) \/ OpenSource(p) \/ LockSource(p) \/ Copy(p) \/ Rebuild(p)
  \/ KeepBackup(p) \/ Publish(p) \/ Upgraded(p)
=============================================================================
