--------------------------------- MODULE Startup --------------------------------
(***************************************************************************)
(* From an invocation to an open project (main, desktop_shell): a process  *)
(* becomes the primary and opens the project, or routes its file and ends. *)
(* Only Windows has the single instance; elsewhere every process opens the *)
(* project itself, and the lock on the file is all that keeps two apart.   *)
(***************************************************************************)
EXTENDS SingleInstance, OpenProject

CONSTANTS
  Guarded, Shared,   \* bounds: what the path may name at first, with and
                     \* without the single instance
  Solo,              \* bound: the processes started without it
  MaxKills           \* bound: processes killed

(* Any process may open the project.                                        *)
ASSUME StartupAssumption == Openers = Processes

VARIABLES
  windows,   \* cfg(windows)
  kills

vars == <<instance, project, windows, kills>>

Init ==
  /\ InstanceInit /\ kills = 0
  /\ windows \in BOOLEAN /\ ProjectInit(IF windows THEN Guarded ELSE Shared)

Instance(action) == action /\ UNCHANGED <<project, windows, kills>>

(* Elsewhere main launches at once.                                         *)
Launch(p) ==
  /\ ~windows /\ Starts(p) /\ p \in Solo
  /\ Goes(p, "alone")
  /\ UNCHANGED <<tries, mutex, thread, stop, window>>

Begin(p) ==
  /\ at[p] = "closed" /\ (attached[p] \/ step[p] = "alone")
  /\ Moves(p, "mode")
  /\ UNCHANGED <<files, path, backups, handle, copy, made>>

(* The window goes once the actor has closed the project or could not open  *)
(* it (surface_retired).                                                    *)
Finished(p) == at[p] \in {"closed", "done", "refused"}

Quits(p) ==
  \/ windows /\ Finished(p) /\ Shutdown(p)
  \/ /\ step[p] = "alone" /\ Finished(p) /\ Goes(p, "left")
     /\ UNCHANGED <<tries, mutex, thread, stop, window>>

Killed(p) ==
  /\ kills < MaxKills /\ kills' = kills + 1
  /\ \/ windows /\ Kill(p)
     \/ /\ step[p] = "alone" /\ Goes(p, "dead")
        /\ UNCHANGED <<tries, mutex, thread, stop, window>>
  /\ IF Finished(p) THEN UNCHANGED project ELSE Die(p)

Runs(p) ==
  \/ windows /\ Instance(Acquire(p) \/ Route(p) \/ Window(p))
  \/ windows /\ Instance(Listen(p))
  \/ (Begin(p) \/ Opening(p)) /\ UNCHANGED <<instance, windows, kills>>

User(p) ==
  \/ Instance(Launch(p) \/ Quits(p))
  \/ (Commit(p) \/ Close(p)) /\ UNCHANGED <<instance, windows, kills>>

Next == \E p \in Processes : Runs(p) \/ User(p) \/ (Killed(p) /\ windows' = windows)

Spec == Init /\ [][Next]_vars

(* The threads of a process run.  Whether anyone launches, draws, closes or *)
(* kills is up to the user.                                                 *)
Fairness ==
  \A p \in Processes :
    /\ WF_vars(step[p] # "new" /\ Instance(Acquire(p) \/ Route(p) \/ Window(p)))
    /\ WF_vars(Instance(Listen(p)))
    /\ WF_vars((Begin(p) \/ Opening(p)) /\ UNCHANGED <<instance, windows, kills>>)

FairSpec == Spec /\ Fairness

-----------------------------------------------------------------------------
(* Properties. *)

(* There is one primary: only the holder of the mutex serves the pipe or    *)
(* has the project open, and what it has open is the file the path names,   *)
(* whoever else starts, leaves or dies.                                     *)
OnePrimary ==
  windows =>
    /\ Cardinality({p \in Processes : step[p] \in {"primary", "leaving"}}) <= 1
    /\ \A p \in Processes :
         /\ (ear[p] \notin {"none", "ended"} \/ pipe[p] # None \/ handle[p] # 0) => p \in mutex
         /\ at[p] = "open" => handle[p] = path

(* Work that was committed stays under a name, the project's or a backup's, *)
(* whatever fails or dies.  With one instance it stays under the project's, *)
(* an upgrade changes nothing in it, a backup is the file as it was, and    *)
(* the marker admits what the file has.  What is not a project is never     *)
(* replaced.  (Without it, two processes lose nothing either; three may,    *)
(* two of them upgrading the file after it was looked at.)                  *)
Named == {path} \cup backups
WorkKeepsItsName ==
  /\ [](windows \/ Cardinality(Solo) <= 2 =>
         \A n \in 1..made : \E f \in Named \ {0} : n \in files[f].work)
  /\ [](windows /\ path # 0 => files[path].work = 1..made /\ (made > 0 => files[path].features))
  /\ [][/\ path' # path /\ path # 0 => files[path].layout \in {"container", "raw", "stored"}
        /\ windows => \A f \in backups : files'[f].work = files[f].work]_vars

(* A file routed is handed to the window at most once, and never the file   *)
(* of a process that reports that it could not route it.                    *)
RoutedOnce ==
  /\ IsInjective(taken)
  /\ \A p \in Processes : \A q \in ToSet(inbox[p]) : q \notin ToSet(taken)
  /\ \A p \in Processes : IsInjective(inbox[p])
  /\ \A q \in ToSet(taken) \cup UNION {ToSet(inbox[p]) : p \in Processes} :
       step[q] \in {"sent", "routed", "dead"}

(* Everything that starts ends: a process that is not the primary, a        *)
(* primary that leaves, whatever client holds its pipe, an opening, and the *)
(* wait of a file in the inbox.  (Each process starts once, so that in the  *)
(* end nobody is busy any more.)                                            *)
Busy(p) ==
  \/ step[p] \in {"secondary", "route", "connected", "sent", "leaving"}
  \/ at[p] \notin {"open", "dead"} /\ ~Finished(p)
  \/ step[p] = "primary" /\ inbox[p] # <<>>

EveryoneEnds == <>[](\A p \in Processes : ~Busy(p))
=============================================================================
