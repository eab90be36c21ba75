------------------------------ MODULE WebRecovery ------------------------------
(***************************************************************************)
(* Browser recovery: the page (apps/web/runtime.rs) captures differences   *)
(* from the last accepted save and sends them through browser.js to a      *)
(* worker (crates/project-web/recovery.rs), which rebuilds the document,   *)
(* adds it to the project file and stores that in IndexedDB, while editing *)
(* goes on.  A file is what its operations up to the one it shows left,    *)
(* oldest first; the branches beside them are the history's (History.tla). *)
(* Page:                                                                   *)
(*   backing     the file the document was opened from, or last encoded to *)
(*   epoch, generation    the project opened, and the last call of persist *)
(*   pc, pending save_running with what its loop waits for; save_pending   *)
(*   checkpoint  recovery_checkpoint: what the worker last accepted        *)
(*   download    download_pending, as the generation it was asked at or 0  *)
(*   failed, unsaved, status   worker_failed, the beforeunload flag and    *)
(*               RecoveryStatus                                            *)
(* Between:                                                                *)
(*   request     the packet in flight (and the artwork it was captured of) *)
(*   broken      recoveryBroken: the worker was terminated                 *)
(* Worker:                                                                 *)
(*   accepted, staged   RecoveryWriter                                     *)
(*   job         how far the request came: sent, staged, stored, then the  *)
(*               answer ok or error                                        *)
(*   disk        the workspace record of IndexedDB                         *)
(* History:                                                                *)
(*   opened      the file the document was opened from                     *)
(*   given       the last download delivered: asked and captured at        *)
(***************************************************************************)
EXTENDS WebDocument

CONSTANTS
  Files,           \* files the user may open instead
  MaxGeneration,   \* bound: calls of persist in one session
  MaxEpoch,        \* bound: projects opened in one session
  MaxOperations    \* operations a file keeps: 128 in the code

(* A save the worker has accepted, as the page and as the worker keep it.   *)
Checkpoints == [epoch : Nat, revision : Nat, tiles : Artworks]
Writers     == [epoch : Nat, revision : Nat, tiles : Artworks, file : Seq(Artworks)]

(* What is sent: every tile there is, unchanged or with its pixels.         *)
Same == None
Packets ==
  [epoch : Nat, revision : Nat, base : Nat, backing : Seq(Artworks),
   tiles : UNION {[present -> Hashes \cup {Same}] : present \in SUBSET Tiles},
   captured : Artworks, asked : Nat]

ASSUME RecoveryAssumption ==
  /\ MaxOperations \in Nat \ {0}
  /\ Files \subseteq Seq(Artworks)
  /\ \A file \in Files : Len(file) <= MaxOperations
  /\ {MaxGeneration, MaxEpoch} \subseteq Nat
  /\ None \notin Checkpoints \cup Writers \cup Packets

VARIABLES
  backing, epoch, generation, pc, pending, checkpoint, download, failed, unsaved, status,
  request, broken, accepted, staged, job, disk, opened, given

flags   == <<failed, unsaved, status>>
project == <<backing, epoch, opened>>
worker  == <<accepted, staged, job, disk>>
vars    == <<document, project, generation, pc, pending, checkpoint, download, flags,
             request, broken, worker, given>>

Shown(file) == IF file = <<>> THEN Blank ELSE Last(file)

-----------------------------------------------------------------------------
(* Fault: a tile both have is taken for unchanged. *)
UnchangedFault(tile, old) == old # None /\ old.tiles[tile] # 0

Unchanged(tile, old) == old # None /\ old.tiles[tile] = art[tile]

Base == IF checkpoint # None /\ checkpoint.epoch = epoch THEN checkpoint ELSE None

Packet(old) ==
  [epoch    |-> epoch,
   revision |-> generation,
   base     |-> IF old = None THEN 0 ELSE old.revision,
   backing  |-> IF old = None THEN backing ELSE <<>>,
   tiles    |-> [t \in {u \in Tiles : art[u] # 0} |->
                   IF Unchanged(t, old) THEN Same ELSE art[t]],
   captured |-> art,
   asked    |-> download]

Capturable(old) == ~Drawing /\ (old # None => generation > old.revision)

(* What the worker makes of a packet, or its refusal. *)
StaleReplacement(packet) ==
  packet.base = 0 /\ accepted # None /\ packet.epoch <= accepted.epoch

BaseMismatch(packet) ==
  packet.base # 0 /\ ~(/\ accepted # None
                       /\ accepted.epoch = packet.epoch
                       /\ accepted.revision = packet.base)

MissingTile(packet) ==
  \E t \in DOMAIN packet.tiles :
    packet.tiles[t] = Same /\ (packet.base = 0 \/ accepted.tiles[t] = 0)

Refused(packet) ==
  StaleReplacement(packet) \/ BaseMismatch(packet) \/ MissingTile(packet)

Rebuilt(packet) ==
  [t \in Tiles |->
     IF t \notin DOMAIN packet.tiles THEN 0
     ELSE IF packet.tiles[t] = Same THEN accepted.tiles[t] ELSE packet.tiles[t]]

(* The oldest operation of a file that has one too many goes: what it left  *)
(* is the artwork the next one started from, and can no longer be undone.   *)
Retained(file) == IF Len(file) > MaxOperations THEN Tail(file) ELSE file

(* A file gets one more entry only when the artwork differs from its last. *)
Encoded(file, artwork) ==
  IF file # <<>> /\ Last(file) = artwork THEN file ELSE Retained(Append(file, artwork))

(* Fault: the file the difference was taken from is not carried along. *)
SourceFault(packet) == packet.backing

Source(packet) == IF packet.base = 0 THEN packet.backing ELSE accepted.file

Stored(packet) ==
  [epoch |-> packet.epoch, revision |-> packet.revision, tiles |-> Rebuilt(packet),
   file |-> Encoded(Source(packet), Rebuilt(packet))]

-----------------------------------------------------------------------------
(* The page.  Persist asks for a save; an asleep loop starts.               *)
Persist ==
  /\ generation < MaxGeneration
  /\ generation' = generation + 1
  /\ pending' = TRUE
  /\ status' = "pending" /\ unsaved' = TRUE
  /\ pc' = IF pc = "off" THEN "waiting" ELSE pc

saving == <<generation, pending, pc, status, unsaved>>

Begin ==
  /\ generation < MaxGeneration
  /\ \E t \in Tiles, h \in Hashes : BeginStroke(t, h)
  /\ unsaved' = TRUE
  /\ UNCHANGED <<generation, pending, pc, status>>

Move == (\E t \in Tiles, h \in Hashes : MoveStroke(t, h)) /\ UNCHANGED saving

(* Fault: a stroke that painted nothing is not worth a save. *)
EndFault ==
  /\ EndStroke
  /\ IF art = stroke THEN UNCHANGED saving ELSE Persist

End == EndStroke /\ Persist

(* Cancel, overflow of the input and every failing sample. *)
Cancel == (CancelStroke \/ CancelPreview) /\ Persist

Resize ==
  /\ IF Drawing THEN CancelStroke ELSE pending /\ UNCHANGED document
  /\ Persist

(* try_edit: what is done, or undone, or refused, is followed by a save, but *)
(* for the candidates of a colour adjustment.                                *)
TryEdit ==
  /\ ~Drawing
  /\ \/ /\ \/ \E t \in Tiles, h \in Hashes : Edit(Painted(t, h))
           \/ Undo \/ Redo \/ CommitPreview
           \/ \E t \in Tiles, h \in Hashes : Adjust(Painted(t, h))
           \/ UNCHANGED document
        /\ Persist
     \/ (\E t \in Tiles, h \in Hashes : Adjust(Painted(t, h))) /\ UNCHANGED saving

EditPage ==
  /\ Begin \/ Move \/ End \/ Cancel \/ Resize \/ TryEdit
  /\ UNCHANGED <<project, checkpoint, download, failed, request, broken, worker, given>>

(* Another project, opened or new, takes the document's place. *)
Replace(file) ==
  /\ ~Drawing /\ epoch < MaxEpoch
  /\ Open(Shown(file), ToSet(file))
  /\ backing' = file /\ opened' = file /\ epoch' = epoch + 1
  /\ Persist
  /\ UNCHANGED <<checkpoint, download, failed, request, broken, worker, given>>

(* The project file is wanted: from the worker, or after its failure encoded *)
(* here, which a stroke refuses.                                             *)
DownloadByWorker ==
  /\ ~failed
  /\ Persist
  /\ download' = generation'
  /\ UNCHANGED <<document, project, checkpoint, failed, request, broken, worker, given>>

DownloadHere ==
  /\ failed /\ ~Drawing
  /\ backing' = Encoded(backing, art)
  /\ given' = [asked |-> generation, revision |-> generation, art |-> Shown(backing')]
  /\ UNCHANGED <<document, epoch, opened, generation, pc, pending, checkpoint, download,
                 flags, request, broken, worker>>

-----------------------------------------------------------------------------
(* The loop.  The quiet time has passed, or it would wait again; a stroke in *)
(* progress ends the loop, whose end asks for a save again.                  *)
LetStrokeGoOn ==
  /\ pc = "waiting" /\ Drawing
  /\ pc' = "off"
  /\ UNCHANGED <<document, project, generation, pending, checkpoint, download, flags,
                 request, broken, worker, given>>

(* The failure is shown; the page's next save tries again. *)
Fail ==
  /\ pc' = "off" /\ failed' = TRUE /\ status' = "failed"
  /\ UNCHANGED <<unsaved>>

Capture ==
  /\ pc = "waiting" /\ ~Drawing
  /\ pending' = FALSE /\ download' = 0
  /\ IF Capturable(Base)
     THEN /\ request' = Packet(Base) /\ pc' = "asking"
          /\ status' = "saving" /\ UNCHANGED <<failed, unsaved>>
     ELSE Fail /\ UNCHANGED request
  /\ UNCHANGED <<document, project, generation, checkpoint, broken, worker, given>>

Send ==
  /\ pc = "asking" /\ job = "none" /\ ~broken
  /\ job' = "sent"
  /\ UNCHANGED <<document, project, generation, pc, pending, checkpoint, download, flags,
                 request, broken, accepted, staged, disk, given>>

(* Broken before, or the worker's files cannot be fetched. *)
SendFails ==
  /\ pc = "asking" /\ job = "none"
  /\ Fail /\ request' = None
  /\ UNCHANGED <<document, project, generation, pending, checkpoint, download, broken,
                 worker, given>>

(* The worker, whose abort forgets what was staged. *)
Stage ==
  /\ job = "sent"
  /\ \/ ~Refused(request) /\ staged' = Stored(request) /\ job' = "staged"
     \/ staged' = None /\ job' = "error"
  /\ UNCHANGED <<document, project, generation, pc, pending, checkpoint, download, flags,
                 request, broken, accepted, disk, given>>

Store ==
  /\ job = "staged"
  /\ \/ disk' = staged.file /\ job' = "stored" /\ UNCHANGED staged
     \/ staged' = None /\ job' = "error" /\ UNCHANGED disk
  /\ UNCHANGED <<document, project, generation, pc, pending, checkpoint, download, flags,
                 request, broken, accepted, given>>

Accept ==
  /\ job = "stored"
  /\ accepted' = staged /\ staged' = None /\ job' = "ok"
  /\ UNCHANGED <<document, project, generation, pc, pending, checkpoint, download, flags,
                 request, broken, disk, given>>

(* Fault: a late answer speaks for the document of today. *)
CurrentFault == TRUE

Current == ~pending /\ request.revision = generation /\ ~Drawing

Asked == request.asked

Answered ==
  /\ job = "ok"
  /\ job' = "none" /\ request' = None
  /\ checkpoint' = [epoch    |-> request.epoch,
                    revision |-> request.revision,
                    tiles    |-> request.captured]
  /\ failed' = FALSE
  /\ pc' = IF pending THEN "waiting" ELSE "off"
  /\ given' = IF Asked = 0 THEN given
              ELSE [asked |-> Asked, revision |-> request.revision,
                    art |-> Shown(accepted.file)]
  /\ CASE pending           -> UNCHANGED <<unsaved, status>>
       [] ~pending /\ Current -> unsaved' = FALSE /\ status' = "saved"
       [] OTHER             -> status' = "pending" /\ UNCHANGED unsaved
  /\ UNCHANGED <<document, project, generation, pending, download, broken, accepted,
                 staged, disk>>

AnsweredError ==
  /\ job = "error"
  /\ Fail /\ job' = "none" /\ request' = None
  /\ UNCHANGED <<document, project, generation, pending, checkpoint, download, broken,
                 accepted, staged, disk, given>>

(* Two minutes without an answer, or a failing worker: it is terminated, and *)
(* its transaction completes or aborts.                                      *)
Break ==
  /\ job # "none"
  /\ Fail /\ broken' = TRUE /\ job' = "none" /\ request' = None
  /\ disk' \in {disk} \cup {s.file : s \in {staged} \ {None}}
  /\ accepted' = None /\ staged' = None
  /\ UNCHANGED <<document, project, generation, pending, checkpoint, download, given>>

(* The tab is closed or dies, and the workspace is loaded by the next one. *)
Reload ==
  /\ disk' \in {disk} \cup {s.file : s \in {staged} \ {None}}
  /\ Open(Shown(disk'), ToSet(disk'))
  /\ backing' = disk' /\ opened' = disk' /\ epoch' = 1 /\ generation' = 0
  /\ pc' = "off" /\ pending' = FALSE /\ checkpoint' = None /\ download' = 0
  /\ failed' = FALSE /\ unsaved' = FALSE
  /\ status' = IF disk' = <<>> THEN "none" ELSE "saved"
  /\ request' = None /\ broken' = FALSE
  /\ accepted' = None /\ staged' = None /\ job' = "none" /\ given' = None

-----------------------------------------------------------------------------
Init ==
  /\ New
  /\ backing = <<>> /\ opened = <<>> /\ epoch = 1 /\ generation = 0
  /\ pc = "off" /\ pending = FALSE /\ checkpoint = None /\ download = 0
  /\ failed = FALSE /\ unsaved = FALSE /\ status = "none"
  /\ request = None /\ broken = FALSE
  /\ accepted = None /\ staged = None /\ job = "none" /\ disk = <<>> /\ given = None

Saving == Capture \/ Send \/ Stage \/ Store \/ Accept \/ Answered \/ AnsweredError

Next ==
  \/ EditPage \/ (\E file \in Files : Replace(file))
  \/ DownloadByWorker \/ DownloadHere
  \/ LetStrokeGoOn \/ SendFails \/ Break \/ Reload
  \/ Saving

Spec == Init /\ [][Next]_vars

(* Timers fire, and the worker and IndexedDB answer unless they fail. *)
Fairness ==
  /\ WF_vars(Capture) /\ WF_vars(Send) /\ WF_vars(Stage) /\ WF_vars(Store)
  /\ WF_vars(Accept) /\ WF_vars(Answered) /\ WF_vars(AnsweredError)
  /\ WF_vars(broken /\ SendFails)

FairSpec == Spec /\ Fairness

-----------------------------------------------------------------------------
(* Properties. *)

(* When the page lets the tab close without a warning, what a reload would   *)
(* find is exactly the artwork shown, and no stroke is in progress; a file   *)
(* delivered was captured no earlier than it was asked for.                  *)
SavedMeansStored ==
  /\ ~unsaved => ~Drawing /\ Shown(disk) = art
  /\ given # None => given.revision >= given.asked

(* Page and worker never disagree about the last accepted save: no packet is *)
(* refused as stale, mismatched or missing a tile, and differences put       *)
(* together again are the artwork that was captured, tile by tile, whatever  *)
(* saves failed, projects were replaced or tiles vanished in between.        *)
RebuiltIsCaptured ==
  /\ job = "sent" => ~Refused(request)
  /\ staged # None => staged.tiles = request.captured

(* The file goes on from an older one, entry by entry, but for some of the   *)
(* oldest entries, which a full file dropped.                                *)
GoesOn(file, old, lost) ==
  \E k \in 0..lost :
    /\ k <= Len(old)
    /\ IsPrefix(SubSeq(old, k + 1, Len(old)), file)
    /\ k > 0 => Len(file) = MaxOperations

(* A save goes on from the file opened and from what was saved of it before: *)
(* an entry is dropped only as the oldest of a full file, and by one save no *)
(* more than one.  Neither a cancelled stroke nor an adjustment that was not *)
(* confirmed is in the artwork, in what can be undone or redone, or in what  *)
(* was stored.                                                               *)
OnlyFinishedArt ==
  {IF Drawing THEN stroke ELSE art} \cup ToSet(undo) \cup ToSet(redo) \cup ToSet(disk)
    \subseteq finished

HistoryIsKept ==
  /\ []OnlyFinishedArt
  /\ [][disk' # disk =>
          /\ Len(disk') <= MaxOperations
          /\ staged.epoch = epoch => GoesOn(disk', opened, Len(opened))
          /\ (accepted # None /\ accepted.epoch = staged.epoch)
               => GoesOn(disk', accepted.file, 1)]_vars

(* Once the user stops drawing, what is unsaved gets saved, or the failure   *)
(* is shown.                                                                 *)
EventuallySaved ==
  (unsaved /\ ~Drawing) ~> (~unsaved \/ Drawing \/ status = "failed")
=============================================================================
