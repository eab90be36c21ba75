----------------------------- MODULE SingleInstance -----------------------------
(***************************************************************************)
(* Who is the one running instance, and how a later invocation hands its   *)
(* file to it (single_instance).  A named mutex says whether there is a    *)
(* primary; a named pipe, served by the primary's listener thread, carries *)
(* one path per connection into a bounded inbox the window empties.        *)
(*   step      what a process is doing                                     *)
(*   tries     its attempts to route                                       *)
(*   mutex     the processes that have the named mutex open                *)
(*   pipe      the listener's instance of the pipe: the client connected   *)
(*             to it, whether it sent its frame, and has closed its end    *)
(*   ear       where the listener thread is                                *)
(*   stop      the shutdown flag the listener and its pipe operations read *)
(*   inbox, posted, attached   the pending paths, the message to the       *)
(*             window, and whether there is one                            *)
(*   taken     the invocations whose path the window has taken, in order   *)
(* A process is one invocation with a path, and stands for it; processes   *)
(* are numbered in the order they start.  An invocation without a path     *)
(* only brings the window to the front and is left out.                    *)
(***************************************************************************)
EXTENDS Naturals, Sequences, SequencesExt, FiniteSets

CONSTANTS
  Processes,     \* the invocations
  None,          \* no process, no pipe
  Tries,         \* ROUTE_RETRY_COUNT
  Pending        \* MAX_PENDING_ACTIVATIONS

Pipe == [client : Processes \cup {None}, frame : BOOLEAN, closed : BOOLEAN]

ASSUME SingleInstanceAssumption ==
  /\ Processes \subseteq Nat /\ None \notin Processes \cup Pipe
  /\ Tries \in Nat \ {0} /\ Pending \in Nat \ {0}

VARIABLES step, tries, mutex, pipe, ear, stop, inbox, posted, attached, taken

thread   == <<pipe, ear>>
window   == <<inbox, posted, attached, taken>>
instance == <<step, tries, mutex, pipe, ear, stop, inbox, posted, attached, taken>>

Fresh == [client |-> None, frame |-> FALSE, closed |-> FALSE]

InstanceInit ==
  /\ step = [p \in Processes |-> "new"] /\ tries = [p \in Processes |-> 0]
  /\ mutex = {} /\ pipe = [p \in Processes |-> None]
  /\ ear = [p \in Processes |-> "none"] /\ stop = [p \in Processes |-> FALSE]
  /\ inbox = [p \in Processes |-> <<>>]
  /\ posted = [p \in Processes |-> FALSE] /\ attached = [p \in Processes |-> FALSE]
  /\ taken = <<>>

Goes(p, there) == step' = [step EXCEPT ![p] = there]

-----------------------------------------------------------------------------
(* acquire_or_route.  Nobody but the opener of an existing mutex knows that *)
(* its handle is temporary.                                                 *)
Starts(p) == step[p] = "new" /\ \A q \in Processes : q < p => step[q] # "new"

CreateMutex(p) ==
  /\ Starts(p)
  /\ mutex' = mutex \cup {p}
  /\ IF mutex = {}
     THEN \/ Goes(p, "primary") /\ ear' = [ear EXCEPT ![p] = "idle"]
          \/ Goes(p, "spawn failed") /\ ear' = ear
     ELSE Goes(p, "secondary") /\ ear' = ear
  /\ UNCHANGED <<tries, pipe, stop, window>>

ReleaseMutex(p) ==
  /\ step[p] \in {"secondary", "spawn failed"}
  /\ mutex' = mutex \ {p}
  /\ Goes(p, IF step[p] = "secondary" THEN "route" ELSE "failed")
  /\ UNCHANGED <<tries, thread, stop, window>>

-----------------------------------------------------------------------------
(* route_secondary_invocation.                                              *)
Retry(p) ==
  /\ tries' = [tries EXCEPT ![p] = @ + 1]
  /\ Goes(p, IF tries[p] + 1 < Tries THEN "route" ELSE "failed")

Connectable == {o \in Processes : pipe[o] # None /\ pipe[o].client = None}
ServerOf(p) == {o \in Processes : pipe[o] # None /\ pipe[o].client = p /\ ~pipe[o].closed}

Connect(p) ==
  /\ step[p] = "route"
  /\ \/ \E o \in Connectable :
          /\ pipe' = [pipe EXCEPT ![o].client = p]
          /\ Goes(p, "connected") /\ tries' = tries
     \/ Connectable = {} /\ Retry(p) /\ pipe' = pipe
  /\ UNCHANGED <<mutex, ear, stop, window>>

(* write_all and, in the step after it, CloseHandle.  A listener that has   *)
(* disconnected meanwhile makes the write fail.                             *)
Send(p) ==
  /\ step[p] = "connected"
  /\ \/ \E o \in ServerOf(p) :
          /\ pipe' = [pipe EXCEPT ![o].frame = TRUE]
          /\ Goes(p, "sent") /\ tries' = tries
     \/ ServerOf(p) = {} /\ Retry(p) /\ pipe' = pipe
  /\ UNCHANGED <<mutex, ear, stop, window>>

Hung(p) == [o \in Processes |->
              IF o \in ServerOf(p) THEN [pipe[o] EXCEPT !.closed = TRUE] ELSE pipe[o]]

Routed(p) ==
  /\ step[p] = "sent" /\ Goes(p, "routed")
  /\ pipe' = Hung(p)
  /\ UNCHANGED <<tries, mutex, ear, stop, window>>

-----------------------------------------------------------------------------
(* activation_listener: one connection at a time.  It ends with the flag,   *)
(* and for good when the pipe cannot be created.                            *)
Hears(p, there) == ear' = [ear EXCEPT ![p] = there]

CreatePipe(p) ==
  /\ ear[p] = "idle"
  /\ \/ ~stop[p] /\ Hears(p, "connect") /\ pipe' = [pipe EXCEPT ![p] = Fresh]
     \/ Hears(p, "ended") /\ pipe' = pipe
  /\ UNCHANGED <<step, tries, mutex, stop, window>>

(* ConnectNamedPipe takes a client that is already there (PIPE_CONNECTED),  *)
(* but not one that has gone again (NO_DATA).                               *)
ConnectPipe(p) ==
  /\ ear[p] = "connect"
  /\ Hears(p, IF stop[p] THEN "close"
              ELSE IF pipe[p].client = None THEN "waiting"
              ELSE IF pipe[p].closed THEN "close" ELSE "read")
  /\ UNCHANGED <<step, tries, mutex, pipe, stop, window>>

(* Fault: the wait for a client does not look at the flag. *)
ConnectedFault(p) ==
  /\ ear[p] = "waiting"
  /\ pipe[p].client # None /\ Hears(p, "read")
  /\ UNCHANGED <<step, tries, mutex, pipe, stop, window>>

(* A pending operation ends with its client or with the shutdown flag,      *)
(* whichever its poll sees first.                                           *)
Connected(p) ==
  /\ ear[p] = "waiting"
  /\ \/ pipe[p].client # None /\ Hears(p, "read")
     \/ stop[p] /\ Hears(p, "close")
  /\ UNCHANGED <<step, tries, mutex, pipe, stop, window>>

(* ActivationInbox::accept: a full inbox drops the path with a line in the  *)
(* log; the window is told in any case.                                     *)
Accept(p) ==
  /\ inbox' = IF Len(inbox[p]) >= Pending THEN inbox
              ELSE [inbox EXCEPT ![p] = Append(@, pipe[p].client)]
  /\ posted' = [posted EXCEPT ![p] = @ \/ attached[p]]

(* read_frame: shutdown, the one deadline of the whole frame and a client   *)
(* that has gone without sending one end it.                                *)
ReadFrame(p) ==
  /\ ear[p] = "read"
  /\ \/ ~stop[p] /\ pipe[p].frame /\ Accept(p)
     \/ UNCHANGED <<inbox, posted>>
  /\ Hears(p, "close")
  /\ UNCHANGED <<step, tries, mutex, pipe, stop, attached, taken>>

(* Fault: the next client is awaited on the connection of the last. *)
ClosePipeFault(p) ==
  /\ ear[p] = "close" /\ Hears(p, IF stop[p] THEN "idle" ELSE "connect")
  /\ UNCHANGED <<step, tries, mutex, pipe, stop, window>>

(* DisconnectNamedPipe and CloseHandle; what was not read is gone.          *)
ClosePipe(p) ==
  /\ ear[p] = "close" /\ Hears(p, "idle")
  /\ pipe' = [pipe EXCEPT ![p] = None]
  /\ UNCHANGED <<step, tries, mutex, stop, window>>

-----------------------------------------------------------------------------
(* The primary's window.                                                    *)
AttachWindows(p) ==
  /\ step[p] = "primary" /\ ~attached[p]
  /\ attached' = [attached EXCEPT ![p] = TRUE] /\ posted' = [posted EXCEPT ![p] = TRUE]
  /\ UNCHANGED <<step, tries, mutex, thread, stop, inbox, taken>>

(* process_activations drains the whole inbox for one message.              *)
TakeActivations(p) ==
  /\ step[p] = "primary" /\ posted[p]
  /\ posted' = [posted EXCEPT ![p] = FALSE]
  /\ inbox' = [inbox EXCEPT ![p] = <<>>] /\ taken' = taken \o inbox[p]
  /\ UNCHANGED <<step, tries, mutex, thread, stop, attached>>

(* PrimaryInstance::drop, when the window goes: the flag, the listener's    *)
(* thread, and only then the mutex.                                         *)
Shutdown(p) ==
  /\ step[p] = "primary" /\ attached[p]
  /\ Goes(p, "leaving") /\ stop' = [stop EXCEPT ![p] = TRUE]
  /\ posted' = [posted EXCEPT ![p] = FALSE] /\ attached' = [attached EXCEPT ![p] = FALSE]
  /\ UNCHANGED <<tries, mutex, thread, inbox, taken>>

(* Fault: the mutex is released before the listener has been joined. *)
JoinListenerFault(p) ==
  /\ step[p] = "leaving"
  /\ Goes(p, "left") /\ mutex' = mutex \ {p}
  /\ UNCHANGED <<tries, thread, stop, window>>

JoinListener(p) ==
  /\ step[p] = "leaving" /\ ear[p] = "ended"
  /\ Goes(p, "left") /\ mutex' = mutex \ {p}
  /\ UNCHANGED <<tries, thread, stop, window>>

(* The operating system closes every handle of a process that dies.         *)
Kill(p) ==
  /\ step[p] \notin {"new", "failed", "routed", "left", "dead"}
  /\ Goes(p, "dead") /\ mutex' = mutex \ {p}
  /\ pipe' = [Hung(p) EXCEPT ![p] = None] /\ Hears(p, "none")
  /\ inbox' = [inbox EXCEPT ![p] = <<>>]
  /\ posted' = [posted EXCEPT ![p] = FALSE] /\ attached' = [attached EXCEPT ![p] = FALSE]
  /\ UNCHANGED <<tries, stop, taken>>

Acquire(p) == CreateMutex(p) \/ ReleaseMutex(p)
Route(p)   == Connect(p) \/ Send(p) \/ Routed(p)
Listen(p)  == CreatePipe(p) \/ ConnectPipe(p) \/ Connected(p) \/ ReadFrame(p)
              \/ ClosePipe(p)
Window(p)  == AttachWindows(p) \/ TakeActivations(p) \/ JoinListener(p)
=============================================================================
