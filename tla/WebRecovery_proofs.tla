-------------------------- MODULE WebRecovery_proofs --------------------------
(***************************************************************************)
(* For any tiles, hashes, files and bounds: the page lets a tab close      *)
(* without a warning only when what is stored is what is shown             *)
(* (SavedIsStored), the worker makes of every packet the artwork that was  *)
(* captured (DifferencesAddUp), and what was opened, saved or finished     *)
(* stays in the file (NothingSavedIsDropped).                              *)
(*                                                                         *)
(* The page and the worker each keep their idea of the last accepted save, *)
(* checkpoint and accepted.  Agreement says that they are the same, except *)
(* while the answer that makes them so is on its way and once the worker   *)
(* is gone for good; everything else about a packet follows from the       *)
(* checkpoint it was captured against (Sent) and from what the worker      *)
(* makes of it (Staged).                                                   *)
(***************************************************************************)
EXTENDS WebRecovery, SequenceTheorems, TLAPS

Type ==
  /\ art \in Artworks
  /\ stroke \in Artworks \cup {None} /\ preview \in Artworks \cup {None}
  /\ undo \in Seq(Artworks) /\ redo \in Seq(Artworks)
  /\ backing \in Seq(Artworks) /\ opened \in Seq(Artworks) /\ disk \in Seq(Artworks)
  /\ epoch \in Nat /\ generation \in Nat /\ download \in Nat
  /\ pc \in {"off", "waiting", "asking"}
  /\ job \in {"none", "sent", "staged", "stored", "ok", "error"}
  /\ unsaved \in BOOLEAN /\ pending \in BOOLEAN /\ broken \in BOOLEAN
  /\ checkpoint \in Checkpoints \cup {None}
  /\ request \in Packets \cup {None}
  /\ accepted \in Writers \cup {None} /\ staged \in Writers \cup {None}

(* A save under way is a change not yet saved; a request is answered, or    *)
(* fails, before the next one is captured.                                  *)
Underway ==
  /\ pc # "off" => unsaved /\ generation > 0
  /\ pc = "asking" <=> request # None
  /\ job # "none" => pc = "asking" /\ ~broken
  /\ job \in {"staged", "stored"} <=> staged # None
  /\ download <= generation

(* What is finished: all there is but the paint of a stroke in progress.   *)
(* No file has more operations than it keeps.                              *)
Finished ==
  /\ OnlyFinishedArt
  /\ ToSet(backing) \subseteq finished /\ GoesOn(backing, opened, Len(opened))
  /\ Len(backing) <= MaxOperations /\ Len(disk) <= MaxOperations

(* The page's checkpoint is of this project or of one opened before. *)
Checked ==
  checkpoint # None => checkpoint.epoch <= epoch /\ checkpoint.revision > 0

(* The request as it was captured, against the checkpoint of its project, *)
(* or, without one, with the file of its project.                         *)
Sent ==
  request # None =>
    /\ request.revision > 0 /\ request.revision <= generation
    /\ request.epoch <= epoch /\ request.asked <= request.revision
    /\ request.captured \in finished /\ ToSet(request.backing) \subseteq finished
    /\ Len(request.backing) <= MaxOperations
    /\ DOMAIN request.tiles = {t \in Tiles : request.captured[t] # 0}
    /\ request.base = 0 =>
         /\ checkpoint # None => checkpoint.epoch < request.epoch
         /\ request.epoch = epoch => GoesOn(request.backing, opened, Len(opened))
         /\ \A t \in DOMAIN request.tiles : request.tiles[t] = request.captured[t]
    /\ request.base # 0 =>
         /\ checkpoint # None
         /\ checkpoint.epoch = request.epoch /\ checkpoint.revision = request.base
         /\ \A t \in DOMAIN request.tiles :
              request.tiles[t] = IF checkpoint.tiles[t] = request.captured[t] THEN Same
                                 ELSE request.captured[t]

(* Until something asks for another save, what was captured is shown. *)
Timely == request # None /\ request.revision = generation /\ ~Drawing => request.captured = art

(* Page and worker agree on the last accepted save, but for the answer on   *)
(* its way and a worker that was terminated.                                *)
Agreement ==
  ~broken /\ job # "ok" =>
    /\ (accepted = None) <=> (checkpoint = None)
    /\ accepted # None => /\ accepted.epoch = checkpoint.epoch
                          /\ accepted.revision = checkpoint.revision
                          /\ accepted.tiles = checkpoint.tiles

(* A save of the request, stored or about to be *)
SaveOf(save) ==
  /\ save.epoch = request.epoch /\ save.revision = request.revision
  /\ save.tiles = request.captured /\ Shown(save.file) = request.captured

(* What the worker has: a file of finished artworks that goes on from the   *)
(* one opened and from the save before.                                     *)
Carries(save) ==
  /\ ToSet(save.file) \subseteq finished /\ Len(save.file) <= MaxOperations
  /\ save.epoch <= epoch
  /\ save.epoch = epoch => GoesOn(save.file, opened, Len(opened))

Staged ==
  /\ accepted # None => Carries(accepted)
  /\ staged # None =>
       /\ SaveOf(staged) /\ Carries(staged)
       /\ accepted # None /\ accepted.epoch = staged.epoch => GoesOn(staged.file, accepted.file, 1)
  /\ job = "stored" => disk = staged.file
  /\ job = "ok" => accepted # None /\ SaveOf(accepted) /\ disk = accepted.file

IInv == Type /\ Underway /\ Finished /\ Checked /\ Sent /\ Timely /\ Agreement /\ Staged
        /\ SavedMeansStored

-----------------------------------------------------------------------------
(* Files *)

(* A file is a prefix of another when it is no longer and entry by entry   *)
(* the same.                                                               *)
LEMMA EntryByEntry ==
  ASSUME NEW s \in Seq(Artworks), NEW t \in Seq(Artworks)
  PROVE  IsPrefix(s, t) <=> (Len(s) <= Len(t) /\ \A i \in 1..Len(s) : s[i] = t[i])
  <1>1. /\ SubSeq(s, 1, Len(s)) = s /\ Len(s) \in Nat /\ Len(t) \in Nat
        /\ DOMAIN s = 1..Len(s) /\ DOMAIN t = 1..Len(t)
    BY SubSeqFull, LenProperties
  <1>2. ASSUME Len(s) <= Len(t)
        PROVE  s = SubSeq(t, 1, Len(s)) <=> \A i \in 1..Len(s) : s[i] = t[i]
    <2>1. \A i \in 1..Len(s) : t[i] \in Artworks
      BY <1>1, <1>2, ElementOfSeq
    <2>2. /\ SubSeq(t, 1, Len(s)) \in Seq(Artworks)
          /\ Len(SubSeq(t, 1, Len(s))) = Len(s)
          /\ \A i \in 1..Len(s) : SubSeq(t, 1, Len(s))[i] = t[i]
      BY <1>1, <2>1
    <2>3. QED
      BY <2>2, SeqEqual
  <1>3. QED
    BY <1>1, <1>2 DEF IsPrefix

(* An entry more: what was a prefix stays one.                             *)
LEMMA Appended ==
  ASSUME NEW file \in Seq(Artworks), NEW a \in Artworks
  PROVE  /\ Append(file, a) \in Seq(Artworks) /\ Append(file, a) # <<>>
         /\ Last(Append(file, a)) = a
         /\ ToSet(Append(file, a)) = ToSet(file) \cup {a}
  <1> DEFINE f == Append(file, a)
  <1>1. /\ f \in Seq(Artworks) /\ f # <<>> /\ Len(f) = Len(file) + 1 /\ Len(file) \in Nat
        /\ \A i \in 1..Len(file) : f[i] = file[i]
        /\ f[Len(f)] = a /\ DOMAIN f = 1..Len(f) /\ DOMAIN file = 1..Len(file)
    BY AppendProperties, LenProperties
  <1> HIDE DEF f
  <1>2. ToSet(f) = ToSet(file) \cup {a}
    <2>1. DOMAIN f = DOMAIN file \cup {Len(f)} /\ \A i \in DOMAIN file : f[i] = file[i]
      BY <1>1
    <2>2. QED
      BY <1>1, <2>1 DEF ToSet
  <1>3. QED
    BY <1>1, <1>2 DEF Last, f

(* Going on from a file, entry by entry: the last entries of the older one *)
(* are the first of the newer.                                             *)
LEMMA GoesOnByEntry ==
  ASSUME NEW file \in Seq(Artworks), NEW old \in Seq(Artworks), NEW lost \in Nat
  PROVE  GoesOn(file, old, lost) <=>
           \E k \in 0..lost :
             /\ k <= Len(old) /\ Len(old) - k <= Len(file)
             /\ \A i \in 1..(Len(old) - k) : file[i] = old[i + k]
             /\ k > 0 => Len(file) = MaxOperations
  <1>1. Len(old) \in Nat /\ Len(file) \in Nat
    BY LenProperties
  <1>2. ASSUME NEW k \in 0..lost, k <= Len(old)
        PROVE  IsPrefix(SubSeq(old, k + 1, Len(old)), file) <=>
                 /\ Len(old) - k <= Len(file)
                 /\ \A i \in 1..(Len(old) - k) : file[i] = old[i + k]
    <2> DEFINE rest == SubSeq(old, k + 1, Len(old))
    <2>1. \A i \in (k + 1)..Len(old) : old[i] \in Artworks
      BY <1>1, <1>2, ElementOfSeq
    <2>2. /\ rest \in Seq(Artworks) /\ Len(rest) = Len(old) - k
          /\ \A i \in 1..(Len(old) - k) : rest[i] = old[i + k]
      BY <1>1, <1>2, <2>1
    <2> HIDE DEF rest
    <2>3. IsPrefix(rest, file) <=>
            (Len(rest) <= Len(file) /\ \A i \in 1..Len(rest) : rest[i] = file[i])
      BY <2>2, EntryByEntry
    <2>4. QED
      BY <2>2, <2>3 DEF rest
  <1>3. QED
    BY <1>2 DEF GoesOn

(* A file goes on from itself.                                             *)
LEMMA Unchanging ==
  ASSUME NEW file \in Seq(Artworks), NEW lost \in Nat
  PROVE  GoesOn(file, file, lost)
  <1>1. Len(file) \in Nat
    BY LenProperties
  <1>2. 0 \in 0..lost /\ \A i \in 1..(Len(file) - 0) : file[i] = file[i + 0]
    BY <1>1
  <1>3. QED
    BY <1>1, <1>2, GoesOnByEntry

(* An operation more, the oldest of a full file dropped: every entry but   *)
(* that one is where it was, or one place further to the front.            *)
LEMMA RetainedFile ==
  ASSUME NEW file \in Seq(Artworks), Len(file) <= MaxOperations, NEW a \in Artworks
  PROVE  LET kept == Retained(Append(file, a))
         IN  /\ kept \in Seq(Artworks) /\ kept # <<>> /\ Last(kept) = a
             /\ Len(kept) <= MaxOperations /\ ToSet(kept) \subseteq ToSet(file) \cup {a}
             /\ \E k \in {0, 1} :
                  /\ Len(kept) = Len(file) + 1 - k
                  /\ \A i \in 1..(Len(file) - k) : kept[i] = file[i + k]
                  /\ k = 1 => Len(kept) = MaxOperations
  <1> DEFINE f    == Append(file, a)
             kept == Retained(f)
  <1>1. /\ f \in Seq(Artworks) /\ f # <<>> /\ Len(f) = Len(file) + 1 /\ Len(file) \in Nat
        /\ \A i \in 1..Len(file) : f[i] = file[i]
        /\ f[Len(f)] = a /\ MaxOperations \in Nat \ {0}
    BY AppendProperties, LenProperties, RecoveryAssumption
  <1>2. Last(f) = a /\ ToSet(f) = ToSet(file) \cup {a}
    BY Appended
  <1> HIDE DEF f
  <1>3. CASE Len(f) <= MaxOperations
    <2>1. kept = f
      BY <1>1, <1>3 DEF Retained
    <2> HIDE DEF kept
    <2>2. 0 \in {0, 1} /\ Len(kept) = Len(file) + 1 - 0
          /\ \A i \in 1..(Len(file) - 0) : kept[i] = file[i + 0]
      BY <1>1, <2>1
    <2>3. QED
      BY <1>1, <1>2, <1>3, <2>1, <2>2 DEF f, kept
  <1>4. CASE Len(f) > MaxOperations
    <2>1. kept = Tail(f)
      BY <1>4 DEF Retained
    <2>2. /\ kept \in Seq(Artworks) /\ Len(kept) = Len(f) - 1
          /\ \A i \in 1..Len(kept) : kept[i] = f[i + 1]
      BY <1>1, <2>1, HeadTailProperties
    <2> HIDE DEF kept
    <2>3. /\ Len(kept) = Len(file) + 1 - 1 /\ Len(kept) = MaxOperations /\ kept # <<>>
          /\ \A i \in 1..(Len(file) - 1) : kept[i] = file[i + 1]
      BY <1>1, <1>4, <2>2
    <2>4. Last(kept) = a
      BY <1>1, <2>2, <2>3 DEF Last
    <2>5. ToSet(kept) \subseteq ToSet(f)
      <3>1. DOMAIN kept = 1..Len(kept) /\ DOMAIN f = 1..Len(f)
        BY <1>1, <2>2, LenProperties
      <3>2. \A i \in DOMAIN kept : i + 1 \in DOMAIN f /\ kept[i] = f[i + 1]
        BY <1>1, <2>2, <3>1
      <3>3. QED
        BY <3>2 DEF ToSet
    <2>6. QED
      BY <1>2, <2>2, <2>3, <2>4, <2>5 DEF f, kept
  <1>5. QED
    BY <1>1, <1>3, <1>4 DEF f

(* What is encoded shows the artwork and goes on from what the file went   *)
(* on from, and from the file with at most one entry dropped.              *)
LEMMA EncodedFile ==
  ASSUME NEW file \in Seq(Artworks), Len(file) <= MaxOperations, NEW a \in Artworks
  PROVE  /\ Encoded(file, a) \in Seq(Artworks) /\ Shown(Encoded(file, a)) = a
         /\ ToSet(Encoded(file, a)) \subseteq ToSet(file) \cup {a}
         /\ Len(Encoded(file, a)) <= MaxOperations
         /\ GoesOn(Encoded(file, a), file, 1)
         /\ \A old \in Seq(Artworks) :
              GoesOn(file, old, Len(old)) => GoesOn(Encoded(file, a), old, Len(old))
  <1>1. CASE file # <<>> /\ Last(file) = a
    <2>1. Encoded(file, a) = file /\ Shown(file) = a
      BY <1>1 DEF Encoded, Shown
    <2>2. QED
      BY <2>1, Unchanging
  <1>2. CASE ~(file # <<>> /\ Last(file) = a)
    <2> DEFINE kept == Retained(Append(file, a))
    <2>1. Encoded(file, a) = kept
      BY <1>2 DEF Encoded
    <2>2. /\ kept \in Seq(Artworks) /\ kept # <<>> /\ Last(kept) = a
          /\ Len(kept) <= MaxOperations /\ ToSet(kept) \subseteq ToSet(file) \cup {a}
      BY RetainedFile
    <2>3. PICK k \in {0, 1} :
            /\ Len(kept) = Len(file) + 1 - k
            /\ \A i \in 1..(Len(file) - k) : kept[i] = file[i + k]
            /\ k = 1 => Len(kept) = MaxOperations
      BY RetainedFile
    <2> HIDE DEF kept
    <2>4. Len(file) \in Nat /\ Len(kept) \in Nat /\ MaxOperations \in Nat \ {0}
      BY <2>2, LenProperties, RecoveryAssumption
    <2>5. GoesOn(kept, file, 1)
      <3>1. /\ k \in 0..1 /\ k <= Len(file) /\ Len(file) - k <= Len(kept)
            /\ k > 0 => Len(kept) = MaxOperations
        BY <2>3, <2>4
      <3>2. QED
        BY <2>2, <2>3, <3>1, GoesOnByEntry
    <2>6. ASSUME NEW old \in Seq(Artworks), GoesOn(file, old, Len(old))
          PROVE  GoesOn(kept, old, Len(old))
      <3>1. Len(old) \in Nat
        BY LenProperties
      <3>2. PICK j \in 0..Len(old) :
              /\ j <= Len(old) /\ Len(old) - j <= Len(file)
              /\ \A i \in 1..(Len(old) - j) : file[i] = old[i + j]
              /\ j > 0 => Len(file) = MaxOperations
        BY <2>6, <3>1, GoesOnByEntry
      <3>3. CASE k = 0
        <4>1. /\ Len(old) - j <= Len(kept)
              /\ \A i \in 1..(Len(old) - j) : kept[i] = old[i + j]
          BY <2>3, <2>4, <3>1, <3>2, <3>3
        <4>2. j > 0 => Len(kept) = MaxOperations
          BY <2>2, <2>3, <2>4, <3>2, <3>3
        <4>3. QED
          BY <2>2, <3>1, <3>2, <4>1, <4>2, GoesOnByEntry
      <3>4. CASE k = 1 /\ j = Len(old)
        <4>1. /\ Len(old) \in 0..Len(old) /\ Len(old) - Len(old) <= Len(kept)
              /\ \A i \in 1..(Len(old) - Len(old)) : kept[i] = old[i + Len(old)]
              /\ Len(kept) = MaxOperations
          BY <2>3, <2>4, <3>1, <3>4
        <4>2. \E w \in 0..Len(old) :
                /\ w <= Len(old) /\ Len(old) - w <= Len(kept)
                /\ \A i \in 1..(Len(old) - w) : kept[i] = old[i + w]
                /\ w > 0 => Len(kept) = MaxOperations
          <5>1. WITNESS Len(old) \in 0..Len(old)
          <5>2. QED
            BY <3>1, <4>1
        <4>3. QED
          BY <2>2, <3>1, <4>2, GoesOnByEntry
      <3>5. CASE k = 1 /\ j < Len(old)
        <4>1. /\ j + 1 \in 0..Len(old) /\ Len(old) - (j + 1) <= Len(kept)
              /\ Len(kept) = MaxOperations
          BY <2>3, <2>4, <3>1, <3>2, <3>5
        <4>2. \A i \in 1..(Len(old) - (j + 1)) : kept[i] = old[i + (j + 1)]
          <5>1. SUFFICES ASSUME NEW i \in 1..(Len(old) - (j + 1))
                         PROVE  kept[i] = old[i + (j + 1)]
            OBVIOUS
          <5>2. i \in 1..(Len(file) - 1) /\ i + 1 \in 1..(Len(old) - j)
            BY <2>4, <3>1, <3>2, <3>5
          <5>3. kept[i] = file[i + 1] /\ file[i + 1] = old[(i + 1) + j]
            BY <2>3, <3>2, <3>5, <5>2
          <5>4. QED
            BY <3>1, <3>2, <5>3
        <4>3. j + 1 <= Len(old)
          BY <3>1, <3>2, <3>5
        <4>4. QED
          BY <2>2, <3>1, <4>1, <4>2, <4>3, GoesOnByEntry
      <3>6. QED
        BY <3>1, <3>2, <3>3, <3>4, <3>5
    <2>7. Shown(kept) = a
      BY <2>2 DEF Shown
    <2>8. QED
      BY <2>1, <2>2, <2>5, <2>6, <2>7
  <1>3. QED
    BY <1>1, <1>2

(* A file shows one of its entries, or the blank artwork.                  *)
LEMMA ShownEntry ==
  ASSUME NEW file \in Seq(Artworks)
  PROVE  /\ Shown(file) \in Artworks
         /\ file # <<>> => Shown(file) \in ToSet(file)
  <1>1. Blank \in Artworks
    BY DocumentAssumption DEF Blank, Artworks
  <1>2. file # <<>> => Len(file) \in DOMAIN file /\ file[Len(file)] \in Artworks
    BY EmptySeq, LenProperties, ElementOfSeq
  <1>3. QED
    BY <1>1, <1>2 DEF Shown, Last, ToSet

-----------------------------------------------------------------------------
(* The document *)

DocumentTyped ==
  /\ art \in Artworks
  /\ stroke \in Artworks \cup {None} /\ preview \in Artworks \cup {None}
  /\ undo \in Seq(Artworks) /\ redo \in Seq(Artworks)

DocumentFinished ==
  {IF Drawing THEN stroke ELSE art} \cup ToSet(undo) \cup ToSet(redo) \subseteq finished

Document == DocumentTyped /\ DocumentFinished

(* What is left of the entries after the oldest are dropped.               *)
LEMMA TrimmedEntries ==
  ASSUME NEW entries \in Seq(Artworks), NEW kept \in Trimmed(entries)
  PROVE  kept \in Seq(Artworks) /\ ToSet(kept) \subseteq ToSet(entries)
  <1>1. PICK k \in 1..(Len(entries) + 1) : kept = SubSeq(entries, k, Len(entries))
    BY DEF Trimmed
  <1>2. Len(entries) \in Nat /\ DOMAIN entries = 1..Len(entries)
    BY LenProperties
  <1>3. \A i \in k..Len(entries) : entries[i] \in Artworks
    BY <1>2, ElementOfSeq
  <1>4. /\ kept \in Seq(Artworks)
        /\ Len(kept) = Len(entries) - k + 1
        /\ \A i \in 1..Len(kept) : kept[i] = entries[k + i - 1]
    <2>1. /\ kept \in Seq(Artworks)
          /\ Len(kept) = IF k <= Len(entries) THEN Len(entries) - k + 1 ELSE 0
          /\ \A i \in 1..(Len(entries) - k + 1) : kept[i] = entries[k + i - 1]
      BY <1>1, <1>2, <1>3, SubSeqProperties
    <2>2. QED
      BY <1>2, <2>1
  <1>5. \A i \in DOMAIN kept : k + i - 1 \in DOMAIN entries /\ kept[i] = entries[k + i - 1]
    <2>1. DOMAIN kept = 1..Len(kept) /\ Len(kept) \in Nat
      BY <1>4, LenProperties
    <2>2. QED
      BY <1>2, <1>4, <2>1
  <1>6. QED
    BY <1>4, <1>5 DEF ToSet

(* The last entry and the others.                                          *)
LEMMA LastAndFront ==
  ASSUME NEW entries \in Seq(Artworks), entries # <<>>
  PROVE  /\ Last(entries) \in Artworks /\ Last(entries) \in ToSet(entries)
         /\ Front(entries) \in Seq(Artworks) /\ ToSet(Front(entries)) \subseteq ToSet(entries)
  <1>1. /\ Len(entries) \in Nat \ {0} /\ DOMAIN entries = 1..Len(entries)
        /\ \A i \in 1..Len(entries) : entries[i] \in Artworks
    BY EmptySeq, LenProperties, ElementOfSeq
  <1> DEFINE front == SubSeq(entries, 1, Len(entries) - 1)
  <1>2. /\ front \in Seq(Artworks) /\ Len(front) = Len(entries) - 1
        /\ \A i \in 1..(Len(entries) - 1) : front[i] = entries[i]
    BY <1>1
  <1>3. \A i \in DOMAIN front : i \in DOMAIN entries /\ front[i] = entries[i]
    BY <1>1, <1>2, LenProperties
  <1>4. QED
    BY <1>1, <1>2, <1>3 DEF Last, Front, ToSet

(* A commit of an artwork that is finished, or is from now on.             *)
LEMMA Committed ==
  ASSUME Document, NEW former \in Artworks, NEW next \in Artworks,
         former \in finished, Commit(former, next), stroke' = None,
         preview' \in Artworks \cup {None}
  PROVE  Document' /\ finished \subseteq finished'
  <1>1. art' = next /\ finished' = finished \cup {next}
    BY DEF Commit
  <1>2. /\ undo' \in Seq(Artworks) /\ ToSet(undo') \subseteq finished
        /\ redo' \in Seq(Artworks) /\ ToSet(redo') \subseteq finished
    <2>1. CASE next = former
      BY <2>1 DEF Commit, Document, DocumentTyped, DocumentFinished
    <2>2. CASE next # former
      <3>1. redo' = <<>> /\ undo' \in Trimmed(Append(undo, former))
        BY <2>2 DEF Commit
      <3>2. /\ Append(undo, former) \in Seq(Artworks)
            /\ ToSet(Append(undo, former)) = ToSet(undo) \cup {former}
        BY Appended DEF Document, DocumentTyped
      <3>3. redo' \in Seq(Artworks) /\ ToSet(redo') = {}
        BY <3>1, EmptySeq DEF ToSet
      <3>4. undo' \in Seq(Artworks) /\ ToSet(undo') \subseteq ToSet(undo) \cup {former}
        BY <3>1, <3>2, TrimmedEntries
      <3>5. QED
        BY <3>3, <3>4 DEF Document, DocumentFinished
    <2>3. QED
      BY <2>1, <2>2
  <1>3. QED
    BY <1>1, <1>2 DEF Document, DocumentTyped, DocumentFinished, Drawing

(* Painting keeps to the tiles and hashes there are.                       *)
LEMMA PaintedTyped ==
  ASSUME art \in Artworks, NEW t \in Tiles, NEW h \in Hashes
  PROVE  Painted(t, h) \in Artworks
  BY DEF Painted, Artworks

(* What the page may do to the document.                                   *)
DocumentStep ==
  \/ \E t \in Tiles, h \in Hashes : BeginStroke(t, h) \/ MoveStroke(t, h)
  \/ \E t \in Tiles, h \in Hashes : Edit(Painted(t, h)) \/ Adjust(Painted(t, h))
  \/ EndStroke \/ CancelStroke \/ Undo \/ Redo \/ (~Drawing /\ CommitPreview) \/ CancelPreview
  \/ UNCHANGED document

(* Whatever is done, a stroke in progress and an adjustment stay out of    *)
(* what counts as finished, and nothing finished is forgotten.             *)
LEMMA DocumentKept ==
  ASSUME Document, DocumentStep
  PROVE  Document' /\ finished \subseteq finished'
  <1> USE DEF Document
  <1>0. None \notin Artworks
    BY DocumentAssumption
  <1>1. ASSUME NEW t \in Tiles, NEW h \in Hashes, BeginStroke(t, h) \/ MoveStroke(t, h)
        PROVE  Document' /\ finished \subseteq finished'
    <2>1. /\ Painted(t, h) \in Artworks /\ art' = Painted(t, h)
          /\ stroke' = (IF Drawing THEN stroke ELSE art)
          /\ UNCHANGED <<preview, undo, redo, finished>>
      BY <1>1, PaintedTyped DEF BeginStroke, MoveStroke, Idle, DocumentTyped
    <2>2. stroke' \in Artworks /\ Drawing'
      BY <1>0, <2>1 DEF DocumentTyped, Drawing
    <2>3. QED
      BY <2>1, <2>2 DEF DocumentTyped, DocumentFinished
  <1>2. ASSUME NEW t \in Tiles, NEW h \in Hashes, Edit(Painted(t, h))
        PROVE  Document' /\ finished \subseteq finished'
    <2>1. /\ Painted(t, h) \in Artworks /\ Commit(art, Painted(t, h))
          /\ stroke' = None /\ preview' \in Artworks \cup {None}
          /\ art \in Artworks /\ art \in finished
      BY <1>2, PaintedTyped DEF Edit, Idle, Drawing, DocumentTyped, DocumentFinished
    <2>2. QED
      BY <2>1, Committed
  <1>3. ASSUME NEW t \in Tiles, NEW h \in Hashes, Adjust(Painted(t, h))
        PROVE  Document' /\ finished \subseteq finished'
    <2>1. Painted(t, h) \in Artworks
      BY PaintedTyped DEF DocumentTyped
    <2>2. QED
      BY <1>3, <2>1 DEF Adjust, DocumentTyped, DocumentFinished, Drawing
  <1>4. CASE EndStroke
    <2>1. /\ stroke \in Artworks /\ stroke \in finished /\ art \in Artworks
          /\ Commit(stroke, art) /\ stroke' = None /\ preview' \in Artworks \cup {None}
      BY <1>4 DEF EndStroke, Drawing, DocumentTyped, DocumentFinished
    <2>2. QED
      BY <2>1, Committed
  <1>5. CASE CancelStroke
    BY <1>5 DEF CancelStroke, Drawing, DocumentTyped, DocumentFinished
  <1>6. CASE Undo
    <2>1. /\ ~Drawing /\ undo # <<>> /\ undo \in Seq(Artworks)
          /\ art \in Artworks /\ redo \in Seq(Artworks)
          /\ art' = Last(undo) /\ undo' = Front(undo) /\ redo' = Append(redo, art)
          /\ UNCHANGED <<stroke, preview, finished>>
      BY <1>6 DEF Undo, Idle, DocumentTyped
    <2>2. /\ undo' \in Seq(Artworks) /\ ToSet(undo') \subseteq ToSet(undo)
          /\ art' \in Artworks /\ art' \in ToSet(undo)
          /\ redo' \in Seq(Artworks) /\ ToSet(redo') = ToSet(redo) \cup {art}
      BY <2>1, LastAndFront, Appended
    <2>3. QED
      BY <2>1, <2>2 DEF DocumentTyped, DocumentFinished, Drawing
  <1>7. CASE Redo
    <2>1. /\ ~Drawing /\ redo # <<>> /\ redo \in Seq(Artworks)
          /\ art \in Artworks /\ undo \in Seq(Artworks)
          /\ art' = Last(redo) /\ redo' = Front(redo) /\ undo' = Append(undo, art)
          /\ UNCHANGED <<stroke, preview, finished>>
      BY <1>7 DEF Redo, Idle, DocumentTyped
    <2>2. /\ redo' \in Seq(Artworks) /\ ToSet(redo') \subseteq ToSet(redo)
          /\ art' \in Artworks /\ art' \in ToSet(redo)
          /\ undo' \in Seq(Artworks) /\ ToSet(undo') = ToSet(undo) \cup {art}
      BY <2>1, LastAndFront, Appended
    <2>3. QED
      BY <2>1, <2>2 DEF DocumentTyped, DocumentFinished, Drawing
  <1>8. CASE CommitPreview /\ ~Drawing
    <2>1. /\ preview \in Artworks /\ art \in finished /\ art \in Artworks
          /\ Commit(art, preview) /\ stroke' = None /\ preview' \in Artworks \cup {None}
      BY <1>8 DEF CommitPreview, Adjusting, Drawing, DocumentTyped, DocumentFinished
    <2>2. QED
      BY <2>1, Committed
  <1>9. CASE CancelPreview \/ UNCHANGED document
    BY <1>9 DEF CancelPreview, document, DocumentTyped, DocumentFinished, Drawing
  <1>10. QED
    BY <1>1, <1>2, <1>3, <1>4, <1>5, <1>6, <1>7, <1>8, <1>9 DEF DocumentStep

-----------------------------------------------------------------------------
(* The page *)

(* The fields of a record that may be missing.                             *)
LEMMA Fields ==
  ASSUME Type
  PROVE  /\ checkpoint # None => /\ checkpoint.epoch \in Nat /\ checkpoint.revision \in Nat
                                 /\ checkpoint.tiles \in Artworks
         /\ accepted # None => /\ accepted.epoch \in Nat /\ accepted.tiles \in Artworks
                               /\ accepted.file \in Seq(Artworks)
         /\ staged # None => /\ staged.epoch \in Nat /\ staged.tiles \in Artworks
                             /\ staged.file \in Seq(Artworks)
         /\ request # None => /\ request.epoch \in Nat /\ request.revision \in Nat
                              /\ request.base \in Nat /\ request.asked \in Nat
                              /\ request.captured \in Artworks
                              /\ request.backing \in Seq(Artworks)
  BY DEF Type, Checkpoints, Writers, Packets

(* What is known of page and worker survives whatever happens on the page: *)
(* more is finished, more saves are asked for, another project is opened.  *)
LEMMA ElsewhereKept ==
  ASSUME IInv, finished \subseteq finished', generation' \in Nat, generation' >= generation,
         UNCHANGED <<epoch, opened>> \/ epoch' = epoch + 1,
         UNCHANGED <<checkpoint, request, broken, worker>>
  PROVE  Checked' /\ Sent' /\ Agreement' /\ Staged'
  <1>1. /\ UNCHANGED <<checkpoint, request, broken, accepted, staged, job, disk>>
        /\ Type /\ epoch \in Nat /\ generation \in Nat
    BY DEF worker, IInv, Type
  <1>2. Checked'
    BY <1>1, Fields DEF IInv, Checked
  <1>3. Sent'
    BY <1>1, Fields DEF IInv, Sent
  <1>4. Agreement'
    BY <1>1 DEF IInv, Agreement
  <1>5. \A save : save.epoch \in Nat /\ Carries(save) => Carries(save)'
    BY <1>1 DEF Carries
  <1>6. Staged'
    BY <1>1, <1>5, Fields DEF IInv, Staged, SaveOf
  <1>7. QED
    BY <1>2, <1>3, <1>4, <1>6

(* A change followed by a call of persist.                                 *)
LEMMA PersistKept ==
  ASSUME IInv, Document', finished \subseteq finished', Persist,
         UNCHANGED <<project, checkpoint, request, broken, worker, given>>,
         download' \in {download, generation'}
  PROVE  IInv'
  <1>1. /\ UNCHANGED <<backing, epoch, opened, checkpoint, request, broken, given>>
        /\ UNCHANGED <<accepted, staged, job, disk>>
        /\ generation' = generation + 1 /\ unsaved' = TRUE /\ pending' = TRUE
        /\ pc' = (IF pc = "off" THEN "waiting" ELSE pc)
        /\ generation \in Nat /\ download \in Nat
    BY DEF Persist, project, worker, IInv, Type
  <1>2. Checked' /\ Sent' /\ Agreement' /\ Staged'
    BY <1>1, ElsewhereKept
  <1>3. Type'
    BY <1>1 DEF IInv, Type, Document, DocumentTyped
  <1>4. Underway'
    BY <1>1 DEF IInv, Type, Underway
  <1>5. Finished'
    BY <1>1 DEF IInv, Finished, OnlyFinishedArt, Document, DocumentFinished, Drawing
  <1>6. Timely'
    BY <1>1, Fields DEF IInv, Sent, Timely
  <1>7. SavedMeansStored'
    BY <1>1 DEF IInv, SavedMeansStored
  <1>8. QED
    BY <1>2, <1>3, <1>4, <1>5, <1>6, <1>7 DEF IInv

(* A change not followed by one: a stroke goes on, or the artwork stays.   *)
LEMMA QuietKept ==
  ASSUME IInv, Document', finished \subseteq finished',
         UNCHANGED <<project, checkpoint, request, broken, worker, given, download>>,
         UNCHANGED <<generation, pending, pc>>,
         \/ Drawing' /\ unsaved' = TRUE
         \/ Drawing' /\ Drawing /\ unsaved' = unsaved
         \/ UNCHANGED <<art, stroke, unsaved>>
  PROVE  IInv'
  <1>1. /\ UNCHANGED <<backing, epoch, opened, checkpoint, request, broken, given, download>>
        /\ UNCHANGED <<accepted, staged, job, disk, generation, pending, pc>>
        /\ generation \in Nat
    BY DEF project, worker, IInv, Type
  <1>2. Checked' /\ Sent' /\ Agreement' /\ Staged'
    BY <1>1, ElsewhereKept
  <1>3. Type'
    BY ZenonT(60), <1>1 DEF IInv, Type, Document, DocumentTyped
  <1>4. Underway' /\ SavedMeansStored'
    BY <1>1 DEF IInv, Type, Underway, SavedMeansStored, Drawing
  <1>5. Finished'
    BY <1>1 DEF IInv, Finished, OnlyFinishedArt, Document, DocumentFinished, Drawing
  <1>6. Timely'
    BY <1>1 DEF IInv, Timely, Drawing
  <1>7. QED
    BY <1>2, <1>3, <1>4, <1>5, <1>6 DEF IInv

(* What IInv knows of the document.                                        *)
LEMMA DocumentOf == IInv => Document
  BY DEF IInv, Type, Finished, OnlyFinishedArt, Document, DocumentTyped, DocumentFinished

(* Everything the user does to the document.                               *)
LEMMA EditKept ==
  ASSUME IInv, EditPage
  PROVE  IInv'
  <1>1. UNCHANGED <<project, checkpoint, request, broken, worker, given, download>>
    BY DEF EditPage
  <1>2. None \notin Artworks /\ art \in Artworks
    BY DocumentAssumption DEF IInv, Type
  <1>3. /\ DocumentStep
        /\ \/ Persist
           \/ /\ UNCHANGED <<generation, pending, pc>>
              /\ \/ Drawing' /\ unsaved' = TRUE
                 \/ Drawing' /\ Drawing /\ unsaved' = unsaved
                 \/ UNCHANGED <<art, stroke, unsaved>>
    <2>1. CASE Begin
      <3>1. PICK t \in Tiles, h \in Hashes : BeginStroke(t, h)
        BY <2>1 DEF Begin
      <3>2. stroke' = art /\ Drawing' /\ unsaved' = TRUE /\ UNCHANGED <<generation, pending, pc>>
        BY <1>2, <2>1, <3>1 DEF Begin, BeginStroke, Drawing
      <3>3. QED
        BY <3>1, <3>2 DEF DocumentStep
    <2>2. CASE Move
      <3>1. PICK t \in Tiles, h \in Hashes : MoveStroke(t, h)
        BY <2>2 DEF Move
      <3>2. Drawing /\ Drawing' /\ unsaved' = unsaved /\ UNCHANGED <<generation, pending, pc>>
        BY <2>2, <3>1 DEF Move, MoveStroke, Drawing, saving
      <3>3. QED
        BY <3>1, <3>2 DEF DocumentStep
    <2>3. CASE End \/ Cancel \/ Resize
      BY <2>3 DEF End, Cancel, Resize, DocumentStep
    <2>4. CASE TryEdit
      <3>1. CASE /\ \E t \in Tiles, h \in Hashes : Adjust(Painted(t, h))
                 /\ UNCHANGED saving
        BY <3>1 DEF DocumentStep, Adjust, saving
      <3>2. CASE /\ \/ \E t \in Tiles, h \in Hashes : Edit(Painted(t, h))
                    \/ Undo \/ Redo \/ CommitPreview
                    \/ \E t \in Tiles, h \in Hashes : Adjust(Painted(t, h))
                    \/ UNCHANGED document
                 /\ Persist
        BY <2>4, <3>2 DEF TryEdit, DocumentStep
      <3>3. QED
        BY <2>4, <3>1, <3>2 DEF TryEdit
    <2>5. QED
      BY <2>1, <2>2, <2>3, <2>4 DEF EditPage
  <1>4. Document' /\ finished \subseteq finished'
    BY <1>3, DocumentOf, DocumentKept
  <1>5. CASE Persist
    BY <1>1, <1>4, <1>5, PersistKept
  <1>6. CASE ~Persist
    BY <1>1, <1>3, <1>4, <1>6, QuietKept
  <1>7. QED
    BY <1>5, <1>6

(* The document of a file: blank or its last artwork, without history.     *)
LEMMA OpenedDocument ==
  ASSUME NEW file \in Seq(Artworks), Open(Shown(file), ToSet(file))
  PROVE  /\ Document' /\ art' = Shown(file) /\ ~Drawing'
         /\ finished \subseteq finished' /\ ToSet(file) \subseteq finished'
  <1>1. /\ art' = Shown(file) /\ stroke' = None /\ preview' = None
        /\ undo' = <<>> /\ redo' = <<>>
        /\ finished' = finished \cup {Shown(file)} \cup ToSet(file)
    BY DEF Open
  <1>2. Shown(file) \in Artworks /\ undo' \in Seq(Artworks) /\ redo' \in Seq(Artworks)
    BY <1>1, ShownEntry, EmptySeq
  <1>3. ToSet(undo') = {} /\ ToSet(redo') = {}
    BY <1>1 DEF ToSet
  <1>4. ~Drawing'
    BY <1>1 DEF Drawing
  <1>5. Document'
    BY <1>1, <1>2, <1>3, <1>4 DEF Document, DocumentTyped, DocumentFinished
  <1>6. QED
    BY <1>1, <1>4, <1>5

(* Another project in the document's place.                                *)
LEMMA ReplaceKept ==
  ASSUME IInv, NEW file \in Files, Replace(file)
  PROVE  IInv'
  <1>1. /\ UNCHANGED <<checkpoint, download, request, broken, given>>
        /\ UNCHANGED <<accepted, staged, job, disk>>
        /\ backing' = file /\ opened' = file /\ epoch' = epoch + 1
        /\ generation' = generation + 1 /\ unsaved' = TRUE /\ pending' = TRUE
        /\ pc' = (IF pc = "off" THEN "waiting" ELSE pc)
        /\ generation \in Nat /\ epoch \in Nat /\ download \in Nat
        /\ Open(Shown(file), ToSet(file)) /\ file \in Seq(Artworks)
    BY RecoveryAssumption DEF Replace, Persist, worker, IInv, Type
  <1>2. Document' /\ finished \subseteq finished' /\ ToSet(file) \subseteq finished'
    BY <1>1, OpenedDocument
  <1>3. Checked' /\ Sent' /\ Agreement' /\ Staged'
    BY <1>1, <1>2, ElsewhereKept DEF worker
  <1>4. Type'
    BY <1>1, <1>2 DEF IInv, Type, Document, DocumentTyped
  <1>5. Underway' /\ SavedMeansStored'
    BY <1>1 DEF IInv, Type, Underway, SavedMeansStored
  <1>6. Finished'
    BY <1>1, <1>2, Unchanging, LenProperties, RecoveryAssumption DEF IInv, Finished, OnlyFinishedArt, Document, DocumentFinished, Drawing
  <1>7. Timely'
    BY <1>1, Fields DEF IInv, Sent, Timely
  <1>8. QED
    BY <1>3, <1>4, <1>5, <1>6, <1>7 DEF IInv

(* A download, by the worker or here.                                      *)
LEMMA DownloadKept ==
  ASSUME IInv, DownloadByWorker \/ DownloadHere
  PROVE  IInv'
  <1>1. CASE DownloadByWorker
    <2>1. Document' /\ finished' = finished
      BY <1>1, DocumentOf DEF DownloadByWorker, document, Document, DocumentTyped,
         DocumentFinished, Drawing
    <2>2. QED
      BY <1>1, <2>1, PersistKept DEF DownloadByWorker
  <1>2. CASE DownloadHere
    <2>1. /\ UNCHANGED <<art, stroke, preview, undo, redo, finished, epoch, opened, generation, pc>>
          /\ UNCHANGED <<pending, checkpoint, download, unsaved, request, broken>>
          /\ UNCHANGED <<accepted, staged, job, disk>>
          /\ backing' = Encoded(backing, art) /\ ~Drawing
          /\ given' = [asked |-> generation, revision |-> generation, art |-> Shown(backing')]
          /\ generation \in Nat /\ backing \in Seq(Artworks) /\ art \in Artworks /\ opened \in Seq(Artworks)
      BY <1>2 DEF DownloadHere, document, flags, worker, IInv, Type
    <2>2. /\ backing' \in Seq(Artworks) /\ ToSet(backing') \subseteq ToSet(backing) \cup {art}
          /\ Len(backing') <= MaxOperations
          /\ GoesOn(backing', opened, Len(opened))
      BY <2>1, EncodedFile DEF IInv, Finished
    <2>3. Checked' /\ Sent' /\ Agreement' /\ Staged'
      BY <2>1, ElsewhereKept DEF worker
    <2>4. Type'
      BY <2>1, <2>2 DEF IInv, Type
    <2>5. Underway' /\ Timely'
      BY <2>1 DEF IInv, Underway, Timely, Drawing
    <2>6. SavedMeansStored'
      <3>1. given'.revision = generation /\ given'.asked = generation
        BY <2>1
      <3>2. QED
        BY <2>1, <3>1 DEF IInv, SavedMeansStored, Drawing
    <2>7. Finished'
      BY <2>1, <2>2 DEF IInv, Finished, OnlyFinishedArt, Drawing
    <2>8. QED
      BY <2>3, <2>4, <2>5, <2>6, <2>7 DEF IInv
  <1>3. QED
    BY <1>1, <1>2

-----------------------------------------------------------------------------
(* The loop and the worker *)

(* A packet is one, whichever checkpoint it is taken against.              *)
LEMMA PacketTyped ==
  ASSUME Type, NEW old \in Checkpoints \cup {None}
  PROVE  /\ Packet(old) \in Packets
         /\ Packet(old).epoch = epoch /\ Packet(old).revision = generation
         /\ Packet(old).base = (IF old = None THEN 0 ELSE old.revision)
         /\ Packet(old).backing = (IF old = None THEN backing ELSE <<>>)
         /\ Packet(old).captured = art /\ Packet(old).asked = download
         /\ DOMAIN Packet(old).tiles = {t \in Tiles : art[t] # 0}
         /\ \A t \in DOMAIN Packet(old).tiles :
              Packet(old).tiles[t] = IF old # None /\ old.tiles[t] = art[t] THEN Same ELSE art[t]
  <1> DEFINE present == {t \in Tiles : art[t] # 0}
             tiles   == [t \in present |-> IF Unchanged(t, old) THEN Same ELSE art[t]]
             base    == IF old = None THEN 0 ELSE old.revision
             file    == IF old = None THEN backing ELSE <<>>
  <1>1. Packet(old) = [epoch |-> epoch, revision |-> generation, base |-> base, backing |-> file,
                       tiles |-> tiles, captured |-> art, asked |-> download]
    BY DEF Packet
  <1>2. tiles \in [present -> Hashes \cup {Same}] /\ present \in SUBSET Tiles
    BY DEF Type, Artworks
  <1>3. base \in Nat /\ file \in Seq(Artworks)
    BY EmptySeq DEF Type, Checkpoints
  <1>4. tiles \in UNION {[there -> Hashes \cup {Same}] : there \in SUBSET Tiles}
    BY <1>2
  <1>5. /\ DOMAIN tiles = present
        /\ \A t \in present : tiles[t] = IF old # None /\ old.tiles[t] = art[t] THEN Same ELSE art[t]
    BY DEF Unchanged
  <1> HIDE DEF present, tiles, base, file
  <1>6. Packet(old) \in Packets
    BY <1>1, <1>3, <1>4 DEF Packets, Type
  <1>7. /\ Packet(old).epoch = epoch /\ Packet(old).revision = generation
        /\ Packet(old).base = base /\ Packet(old).backing = file
        /\ Packet(old).captured = art /\ Packet(old).asked = download
        /\ Packet(old).tiles = tiles
    BY <1>1
  <1>8. QED
    BY <1>5, <1>6, <1>7 DEF present, base, file

(* Nothing of the document, the project or what was given changes.         *)
Elsewhere == UNCHANGED <<document, project>>

(* Such a step leaves what is finished as it is.                           *)
LEMMA FinishedKept ==
  ASSUME IInv, Elsewhere, disk' = disk
  PROVE  /\ Finished'
         /\ UNCHANGED <<art, stroke, preview, undo, redo, finished, backing, epoch, opened>>
         /\ Drawing' = Drawing
  <1>1. UNCHANGED <<art, stroke, preview, undo, redo, finished, backing, epoch, opened>>
    BY DEF Elsewhere, document, project
  <1>2. Drawing' = Drawing
    BY <1>1 DEF Drawing
  <1>3. OnlyFinishedArt'
    BY <1>1, <1>2 DEF IInv, Finished, OnlyFinishedArt
  <1>4. QED
    BY <1>1, <1>2, <1>3 DEF IInv, Finished

(* The save is captured, or is taken for one that was already accepted.    *)
LEMMA CaptureKept ==
  ASSUME IInv, Capture
  PROVE  IInv'
  <1>1. /\ Elsewhere /\ UNCHANGED <<generation, checkpoint, broken, given>>
        /\ UNCHANGED <<accepted, staged, job, disk>>
        /\ pc = "waiting" /\ ~Drawing /\ download' = 0 /\ pending' = FALSE
        /\ Type /\ unsaved' = unsaved
    BY DEF Capture, Elsewhere, worker, Fail, IInv
  <1>2. /\ Finished' /\ Drawing' = Drawing
        /\ UNCHANGED <<art, stroke, preview, undo, redo, finished, backing, epoch, opened>>
    BY <1>1, FinishedKept
  <1>3. Checked' /\ SavedMeansStored'
    BY <1>1, <1>2 DEF IInv, Checked, SavedMeansStored
  <1>4. /\ request = None /\ job = "none" /\ staged = None /\ unsaved
        /\ generation > 0 /\ generation \in Nat
    BY <1>1 DEF IInv, Type, Underway
  <1>5. Agreement' /\ Staged'
    <2>1. \A save : Carries(save)' <=> Carries(save)
      BY <1>2 DEF Carries
    <2>2. QED
      BY <1>1, <1>2, <1>4, <2>1 DEF IInv, Agreement, Staged, SaveOf
  <1>6. CASE ~Capturable(Base)
    <2>1. request' = None /\ pc' = "off"
      BY <1>4, <1>6 DEF Capture, Fail
    <2>2. Type' /\ Underway'
      <3>1. Type'
        BY <1>1, <1>2, <2>1 DEF Type
      <3>2. Underway'
        BY <1>1, <1>4, <2>1 DEF Underway
      <3>3. QED
        BY <3>1, <3>2
    <2>3. QED
      BY <1>2, <1>3, <1>5, <2>1, <2>2 DEF IInv, Sent, Timely
  <1>7. CASE Capturable(Base)
    <2>1. /\ request' = Packet(Base) /\ pc' = "asking" /\ Base \in Checkpoints \cup {None}
          /\ generation \in Nat /\ epoch \in Nat /\ download \in Nat
      BY <1>1, <1>7 DEF Capture, Type, Base
    <2>2. /\ request' \in Packets /\ request' # None
          /\ request'.epoch = epoch /\ request'.revision = generation
          /\ request'.base = (IF Base = None THEN 0 ELSE Base.revision)
          /\ request'.backing = (IF Base = None THEN backing ELSE <<>>)
          /\ request'.captured = art /\ request'.asked = download
          /\ DOMAIN request'.tiles = {t \in Tiles : art[t] # 0}
          /\ \A t \in DOMAIN request'.tiles :
               request'.tiles[t] = IF Base # None /\ Base.tiles[t] = art[t] THEN Same ELSE art[t]
      BY <1>1, <2>1, PacketTyped, RecoveryAssumption
    <2>3. Type' /\ Underway'
      <3>1. Type'
        BY <1>1, <1>2, <2>1, <2>2 DEF Type
      <3>2. Underway'
        BY <1>1, <1>4, <2>1, <2>2 DEF Underway
      <3>3. QED
        BY <3>1, <3>2
    <2>4. Timely'
      BY <1>2, <2>2 DEF Timely
    <2>5. /\ request'.captured \in finished /\ ToSet(request'.backing) \subseteq finished
          /\ Len(request'.backing) <= MaxOperations
          /\ GoesOn(backing, opened, Len(opened))
      <3>1. ToSet(<<>>) = {}
        BY DEF ToSet
      <3>2. Len(<<>>) = 0
        OBVIOUS
      <3>3. QED
        BY <1>1, <2>2, <3>1, <3>2, RecoveryAssumption DEF IInv, Finished, OnlyFinishedArt
    <2>6. Sent'
      <3>1. CASE Base = None
        <4>1. checkpoint # None => checkpoint.epoch < epoch
          BY <1>1, <2>1, <3>1, Fields DEF Base, IInv, Checked
        <4>2. request'.base = 0 /\ request'.backing = backing
          BY <2>2, <3>1
        <4>3. \A t \in DOMAIN request'.tiles : request'.tiles[t] = art[t]
          BY <2>2, <3>1
        <4>4. request'.asked <= request'.revision
          BY <2>2 DEF IInv, Underway
        <4>5. QED
          BY <1>1, <1>2, <1>4, <2>1, <2>2, <2>5, <4>1, <4>2, <4>3, <4>4 DEF Sent
      <3>2. CASE Base # None
        <4>1. Base = checkpoint /\ checkpoint # None /\ checkpoint.epoch = epoch
          BY <3>2 DEF Base
        <4>2. checkpoint.revision \in Nat /\ checkpoint.revision > 0
          BY <1>1, <4>1, Fields DEF IInv, Checked
        <4>3. request'.base = checkpoint.revision /\ request'.base # 0
          BY <2>2, <3>2, <4>1, <4>2
        <4>4. \A t \in DOMAIN request'.tiles :
                request'.tiles[t] = IF checkpoint.tiles[t] = art[t] THEN Same ELSE art[t]
          BY <2>2, <3>2, <4>1
        <4>5. request'.asked <= request'.revision
          BY <2>2 DEF IInv, Underway
        <4>6. QED
          BY <1>1, <1>2, <1>4, <2>1, <2>2, <2>5, <4>1, <4>2, <4>3, <4>4, <4>5 DEF Sent
      <3>3. QED
        BY <3>1, <3>2
    <2>7. QED
      BY <1>2, <1>3, <1>5, <2>3, <2>4, <2>6 DEF IInv
  <1>8. QED
    BY <1>6, <1>7

(* The worker makes of a packet the artwork that was captured: page and    *)
(* worker agree on what the packet was taken against.                      *)
LEMMA Differences ==
  ASSUME IInv, job = "sent"
  PROVE  ~Refused(request) /\ Rebuilt(request) = request.captured
  <1>1. /\ request # None /\ ~broken /\ Type
        /\ (accepted = None) <=> (checkpoint = None)
        /\ accepted # None => /\ accepted.epoch = checkpoint.epoch
                              /\ accepted.revision = checkpoint.revision
                              /\ accepted.tiles = checkpoint.tiles
    BY DEF IInv, Underway, Agreement
  <1>2. /\ DOMAIN request.tiles = {t \in Tiles : request.captured[t] # 0}
        /\ request.base = 0 =>
             /\ checkpoint # None => checkpoint.epoch < request.epoch
             /\ \A t \in DOMAIN request.tiles : request.tiles[t] = request.captured[t]
        /\ request.base # 0 =>
             /\ checkpoint # None
             /\ checkpoint.epoch = request.epoch /\ checkpoint.revision = request.base
             /\ \A t \in DOMAIN request.tiles :
                  request.tiles[t] = IF checkpoint.tiles[t] = request.captured[t] THEN Same
                                     ELSE request.captured[t]
    BY <1>1 DEF IInv, Sent
  <1>3. /\ request.captured \in Artworks /\ request.epoch \in Nat
        /\ \A t \in Tiles : request.captured[t] \in Hashes /\ request.captured[t] # Same
    BY <1>1, Fields, DocumentAssumption DEF Artworks, Same
  <1>4. ~StaleReplacement(request) /\ ~BaseMismatch(request)
    BY <1>1, <1>2, <1>3, Fields DEF StaleReplacement, BaseMismatch
  <1>5. CASE request.base = 0
    <2>1. ~MissingTile(request)
      BY <1>2, <1>3, <1>5 DEF MissingTile
    <2>2. \A t \in Tiles : Rebuilt(request)[t] = request.captured[t]
      BY <1>2, <1>3, <1>5 DEF Rebuilt
    <2>3. Rebuilt(request) = request.captured
      BY <1>3, <2>2 DEF Rebuilt, Artworks
    <2>4. QED
      BY <1>4, <2>1, <2>3 DEF Refused
  <1>6. CASE request.base # 0
    <2>1. accepted # None /\ accepted.tiles = checkpoint.tiles
      BY <1>1, <1>2, <1>6
    <2>2. \A t \in DOMAIN request.tiles :
            /\ t \in Tiles /\ request.captured[t] # 0
            /\ request.tiles[t] = Same => accepted.tiles[t] = request.captured[t]
            /\ request.tiles[t] # Same => request.tiles[t] = request.captured[t]
      BY <1>2, <1>3, <1>6, <2>1
    <2>3. ~MissingTile(request)
      BY <1>6, <2>2 DEF MissingTile
    <2>4. \A t \in Tiles : Rebuilt(request)[t] = request.captured[t]
      BY <1>2, <2>2 DEF Rebuilt
    <2>5. Rebuilt(request) = request.captured
      BY <1>3, <2>4 DEF Rebuilt, Artworks
    <2>6. QED
      BY <1>4, <2>3, <2>5 DEF Refused
  <1>7. QED
    BY <1>5, <1>6

(* What the worker stores goes on from the file of its source.             *)
LEMMA StoredSave ==
  ASSUME IInv, job = "sent", staged' = Stored(request),
         UNCHANGED <<request, accepted, epoch, opened, finished>>
  PROVE  /\ staged' \in Writers
         /\ SaveOf(staged)' /\ Carries(staged)'
         /\ accepted # None /\ accepted.epoch = staged'.epoch => GoesOn(staged'.file, accepted.file, 1)
  <1>1. /\ Type /\ request # None /\ epoch \in Nat /\ opened \in Seq(Artworks)
        /\ request.epoch <= epoch
        /\ request.captured \in finished /\ ToSet(request.backing) \subseteq finished
        /\ Len(request.backing) <= MaxOperations
        /\ request.base = 0 =>
             /\ checkpoint # None => checkpoint.epoch < request.epoch
             /\ request.epoch = epoch => GoesOn(request.backing, opened, Len(opened))
        /\ request.base # 0 => checkpoint # None /\ checkpoint.epoch = request.epoch
        /\ (accepted = None) <=> (checkpoint = None)
        /\ accepted # None => accepted.epoch = checkpoint.epoch /\ Carries(accepted)
    BY DEF IInv, Type, Underway, Sent, Agreement, Staged
  <1>2. Rebuilt(request) = request.captured
    BY Differences
  <1>3. /\ request.captured \in Artworks /\ request.epoch \in Nat /\ request.revision \in Nat
        /\ request.backing \in Seq(Artworks)
        /\ accepted # None => accepted.file \in Seq(Artworks) /\ accepted.epoch \in Nat
        /\ checkpoint # None => checkpoint.epoch \in Nat
    BY <1>1, Fields
  <1> DEFINE source == Source(request)
             file   == Encoded(source, request.captured)
  <1>4. staged' = [epoch |-> request.epoch, revision |-> request.revision,
                   tiles |-> request.captured, file |-> file]
    BY <1>2 DEF Stored
  <1>5. /\ source \in Seq(Artworks) /\ ToSet(source) \subseteq finished
        /\ Len(source) <= MaxOperations
        /\ request.epoch = epoch => GoesOn(source, opened, Len(opened))
        /\ accepted # None /\ accepted.epoch = request.epoch => source = accepted.file
    <2>1. CASE request.base = 0
      <3>1. source = request.backing
        BY <2>1 DEF Source
      <3>2. ~(accepted # None /\ accepted.epoch = request.epoch)
        BY <1>1, <1>3, <2>1
      <3>3. QED
        BY <1>1, <1>3, <2>1, <3>1, <3>2
    <2>2. CASE request.base # 0
      <3>1. source = accepted.file /\ accepted # None /\ accepted.epoch = request.epoch
        BY <1>1, <2>2 DEF Source
      <3>2. QED
        BY <1>1, <1>3, <3>1 DEF Carries
    <2>3. QED
      BY <2>1, <2>2
  <1>6. /\ file \in Seq(Artworks) /\ Shown(file) = request.captured
        /\ ToSet(file) \subseteq ToSet(source) \cup {request.captured}
        /\ Len(file) <= MaxOperations /\ GoesOn(file, source, 1)
        /\ request.epoch = epoch => GoesOn(file, opened, Len(opened))
    BY <1>1, <1>3, <1>5, EncodedFile
  <1> HIDE DEF source, file
  <1>7. staged' \in Writers
    BY <1>3, <1>4, <1>6 DEF Writers
  <1>8. /\ staged'.epoch = request.epoch /\ staged'.revision = request.revision
        /\ staged'.tiles = request.captured /\ staged'.file = file
    BY <1>4
  <1>9. SaveOf(staged)'
    BY <1>6, <1>8 DEF SaveOf
  <1>10. Carries(staged)'
    BY <1>1, <1>5, <1>6, <1>8 DEF Carries
  <1>11. accepted # None /\ accepted.epoch = staged'.epoch => GoesOn(staged'.file, accepted.file, 1)
    BY <1>3, <1>5, <1>6, <1>8
  <1>12. QED
    BY <1>7, <1>9, <1>10, <1>11

(* The request is sent.                                                    *)
LEMMA SendKept ==
  ASSUME IInv, Send
  PROVE  IInv'
  <1>1. /\ Elsewhere
        /\ UNCHANGED <<generation, pc, pending, checkpoint, download, unsaved, request, broken,
                       accepted, staged, disk, given>>
        /\ job = "none" /\ job' = "sent" /\ pc = "asking" /\ ~broken
    BY DEF Send, Elsewhere, flags
  <1>2. /\ Finished' /\ Drawing' = Drawing
        /\ UNCHANGED <<art, stroke, preview, undo, redo, finished, backing, epoch, opened>>
    BY <1>1, FinishedKept
  <1>3. \A save : Carries(save)' <=> Carries(save)
    BY <1>2 DEF Carries
  <1>4. Type' /\ Underway' /\ Checked' /\ Timely' /\ SavedMeansStored'
    BY <1>1, <1>2 DEF IInv, Type, Underway, Checked, Timely, SavedMeansStored
  <1>5. Sent' /\ Agreement'
    BY <1>1, <1>2 DEF IInv, Sent, Agreement
  <1>6. Staged'
    BY <1>1, <1>2, <1>3 DEF IInv, Staged, SaveOf
  <1>7. QED
    BY <1>2, <1>4, <1>5, <1>6 DEF IInv

(* The worker stages it, or refuses.                                       *)
LEMMA StageKept ==
  ASSUME IInv, Stage
  PROVE  IInv'
  <1>1. /\ Elsewhere
        /\ UNCHANGED <<generation, pc, pending, checkpoint, download, unsaved, request, broken,
                       accepted, disk, given>>
        /\ job = "sent" /\ job' \in {"staged", "error"}
        /\ job' = "staged" => staged' = Stored(request)
        /\ job' = "error" => staged' = None
    BY DEF Stage, Elsewhere, flags
  <1>2. /\ Finished' /\ Drawing' = Drawing
        /\ UNCHANGED <<art, stroke, preview, undo, redo, finished, backing, epoch, opened>>
    BY <1>1, FinishedKept
  <1>3. \A save : Carries(save)' <=> Carries(save)
    BY <1>2 DEF Carries
  <1>4. job' = "staged" =>
          /\ staged' \in Writers /\ staged' # None /\ SaveOf(staged)' /\ Carries(staged)'
          /\ accepted # None /\ accepted.epoch = staged'.epoch
               => GoesOn(staged'.file, accepted.file, 1)
    BY <1>1, <1>2, StoredSave, RecoveryAssumption
  <1>5. Checked' /\ Timely' /\ SavedMeansStored'
    BY <1>1, <1>2 DEF IInv, Checked, Timely, SavedMeansStored
  <1>6. Type' /\ Underway'
    BY <1>1, <1>2, <1>4 DEF IInv, Type, Underway
  <1>7. Sent' /\ Agreement'
    BY <1>1, <1>2 DEF IInv, Sent, Agreement
  <1>8. Staged'
    BY <1>1, <1>2, <1>3, <1>4 DEF IInv, Staged, SaveOf
  <1>9. QED
    BY <1>2, <1>5, <1>6, <1>7, <1>8 DEF IInv

(* The database has it, or aborts.                                         *)
LEMMA StoreKept ==
  ASSUME IInv, Store
  PROVE  IInv'
  <1>1. /\ Elsewhere
        /\ UNCHANGED <<generation, pc, pending, checkpoint, download, unsaved, request, broken,
                       accepted, given>>
        /\ job = "staged"
        /\ \/ disk' = staged.file /\ job' = "stored" /\ staged' = staged
           \/ staged' = None /\ job' = "error" /\ disk' = disk
        /\ Type
    BY DEF Store, Elsewhere, flags, IInv
  <1>2. /\ staged # None /\ unsaved /\ staged.file \in Seq(Artworks)
        /\ ToSet(staged.file) \subseteq finished /\ Len(staged.file) <= MaxOperations
    BY <1>1, Fields DEF IInv, Underway, Staged, Carries
  <1>3. /\ UNCHANGED <<art, stroke, preview, undo, redo, finished, backing, epoch, opened>>
        /\ Drawing' = Drawing
    BY <1>1 DEF Elsewhere, document, project, Drawing
  <1>4. Finished'
    BY <1>1, <1>2, <1>3 DEF IInv, Finished, OnlyFinishedArt
  <1>5. \A save : Carries(save)' <=> Carries(save)
    BY <1>3 DEF Carries
  <1>6. Checked' /\ Timely' /\ SavedMeansStored'
    BY <1>1, <1>2, <1>3 DEF IInv, Checked, Timely, SavedMeansStored
  <1>7. Type' /\ Underway'
    BY <1>1, <1>2, <1>3 DEF IInv, Type, Underway
  <1>8. Sent' /\ Agreement'
    BY <1>1, <1>3 DEF IInv, Sent, Agreement
  <1>9. Staged'
    BY <1>1, <1>3, <1>5 DEF IInv, Staged, SaveOf
  <1>10. QED
    BY <1>4, <1>6, <1>7, <1>8, <1>9 DEF IInv

(* The worker takes the save for its last one.                             *)
LEMMA AcceptKept ==
  ASSUME IInv, Accept
  PROVE  IInv'
  <1>1. /\ Elsewhere
        /\ UNCHANGED <<generation, pc, pending, checkpoint, download, unsaved, request, broken,
                       disk, given>>
        /\ job = "stored" /\ job' = "ok" /\ accepted' = staged /\ staged' = None
    BY DEF Accept, Elsewhere, flags
  <1>2. /\ Finished' /\ Drawing' = Drawing
        /\ UNCHANGED <<art, stroke, preview, undo, redo, finished, backing, epoch, opened>>
    BY <1>1, FinishedKept
  <1>3. \A save : Carries(save)' <=> Carries(save)
    BY <1>2 DEF Carries
  <1>4. Type' /\ Underway' /\ Checked' /\ Timely' /\ SavedMeansStored'
    BY <1>1, <1>2 DEF IInv, Type, Underway, Checked, Timely, SavedMeansStored
  <1>5. Sent' /\ Agreement'
    BY <1>1, <1>2 DEF IInv, Sent, Agreement
  <1>6. Staged'
    <2>1. staged # None /\ SaveOf(staged) /\ Carries(staged) /\ disk = staged.file
      BY <1>1 DEF IInv, Underway, Staged
    <2>2. QED
      BY <1>1, <1>2, <1>3, <2>1 DEF Staged, SaveOf
  <1>7. QED
    BY <1>2, <1>4, <1>5, <1>6 DEF IInv

(* The page hears of it: what was captured is the checkpoint from now on,  *)
(* and saved when nothing was asked for since.                             *)
LEMMA AnsweredKept ==
  ASSUME IInv, Answered
  PROVE  IInv'
  <1>1. /\ Elsewhere
        /\ UNCHANGED <<generation, pending, download, broken, accepted, staged, disk>>
        /\ job = "ok" /\ job' = "none" /\ request' = None
        /\ checkpoint' = [epoch |-> request.epoch, revision |-> request.revision,
                          tiles |-> request.captured]
        /\ pc' = (IF pending THEN "waiting" ELSE "off")
        /\ given' = (IF request.asked = 0 THEN given
                     ELSE [asked |-> request.asked, revision |-> request.revision,
                           art |-> Shown(accepted.file)])
        /\ unsaved' = unsaved \/ (unsaved' = FALSE /\ ~pending /\ Current)
        /\ Type
    BY DEF Answered, Elsewhere, Asked, IInv
  <1>2. /\ Finished' /\ Drawing' = Drawing
        /\ UNCHANGED <<art, stroke, preview, undo, redo, finished, backing, epoch, opened>>
    BY <1>1, FinishedKept
  <1>3. \A save : Carries(save)' <=> Carries(save)
    BY <1>2 DEF Carries
  <1>4. /\ request # None /\ staged = None /\ unsaved /\ generation > 0 /\ ~broken
        /\ request.revision > 0 /\ request.epoch <= epoch /\ request.asked <= request.revision
        /\ accepted # None /\ SaveOf(accepted) /\ disk = accepted.file
    BY <1>1 DEF IInv, Underway, Sent, Staged
  <1>5. /\ request.epoch \in Nat /\ request.revision \in Nat /\ request.captured \in Artworks
        /\ request.asked \in Nat
    BY <1>1, <1>4, Fields
  <1>6. /\ checkpoint' \in Checkpoints /\ checkpoint' # None
        /\ checkpoint'.epoch = request.epoch /\ checkpoint'.revision = request.revision
        /\ checkpoint'.tiles = request.captured
    BY <1>1, <1>5, RecoveryAssumption DEF Checkpoints
  <1>7. Type'
    BY <1>1, <1>2, <1>6 DEF Type
  <1>8. Underway'
    BY <1>1, <1>4 DEF IInv, Type, Underway, Current
  <1>9. Checked' /\ Sent' /\ Timely'
    BY <1>1, <1>2, <1>4, <1>6 DEF Checked, Sent, Timely
  <1>10. Agreement' /\ Staged'
    BY <1>1, <1>2, <1>3, <1>4, <1>6 DEF IInv, Agreement, Staged, SaveOf
  <1>11. SavedMeansStored'
    <2>1. ~unsaved' => ~Drawing' /\ Shown(disk') = art'
      <3>1. CASE unsaved' = FALSE /\ ~pending /\ Current
        <4>1. ~Drawing /\ request.captured = art
          BY <1>4, <3>1 DEF IInv, Timely, Current
        <4>2. QED
          BY <1>1, <1>2, <1>4, <4>1 DEF SaveOf
      <3>2. QED
        BY <1>1, <1>4, <3>1
    <2>2. given' # None => given'.revision >= given'.asked
      <3>1. CASE request.asked = 0
        BY <1>1, <3>1 DEF IInv, SavedMeansStored
      <3>2. CASE request.asked # 0
        BY <1>1, <1>4, <3>2
      <3>3. QED
        BY <3>1, <3>2
    <2>3. QED
      BY <2>1, <2>2 DEF SavedMeansStored
  <1>12. QED
    BY <1>2, <1>7, <1>8, <1>9, <1>10, <1>11 DEF IInv

(* A save given up: by the stroke in progress, before it was sent, by the  *)
(* worker, or with the worker, whose transaction may still complete.       *)
LEMMA GivenUpKept ==
  ASSUME IInv, LetStrokeGoOn \/ SendFails \/ AnsweredError \/ Break
  PROVE  IInv'
  <1>1. /\ Elsewhere /\ Type /\ pc # "off"
        /\ UNCHANGED <<generation, pending, checkpoint, download, unsaved, given>>
        /\ pc' = "off" /\ job' = "none" /\ request' = None /\ staged' = None
        /\ \/ accepted' = accepted /\ broken' = broken /\ disk' = disk /\ job # "ok"
           \/ /\ accepted' = None /\ broken' = TRUE
              /\ disk' = disk \/ (staged # None /\ disk' = staged.file)
    <2>1. CASE LetStrokeGoOn
      BY <2>1 DEF LetStrokeGoOn, Elsewhere, worker, flags, IInv, Underway
    <2>2. CASE SendFails
      BY <2>2 DEF SendFails, Fail, Elsewhere, worker, IInv, Underway
    <2>3. CASE AnsweredError
      BY <2>3 DEF AnsweredError, Fail, Elsewhere, IInv, Underway
    <2>4. CASE Break
      BY <2>4 DEF Break, Fail, Elsewhere, IInv, Underway
    <2>5. QED
      BY <2>1, <2>2, <2>3, <2>4
  <1>2. unsaved /\ (staged # None => /\ staged.file \in Seq(Artworks) /\ ToSet(staged.file) \subseteq finished
                                   /\ Len(staged.file) <= MaxOperations)
    BY <1>1, Fields DEF IInv, Underway, Staged, Carries
  <1>3. /\ UNCHANGED <<art, stroke, preview, undo, redo, finished, backing, epoch, opened>>
        /\ Drawing' = Drawing
    BY <1>1 DEF Elsewhere, document, project, Drawing
  <1>4. Finished'
    BY <1>1, <1>2, <1>3 DEF IInv, Finished, OnlyFinishedArt
  <1>5. \A save : Carries(save)' <=> Carries(save)
    BY <1>3 DEF Carries
  <1>6. Checked' /\ Sent' /\ Timely' /\ SavedMeansStored'
    BY <1>1, <1>2, <1>3 DEF IInv, Checked, Sent, Timely, SavedMeansStored
  <1>7. Type' /\ Underway'
    BY <1>1, <1>2, <1>3 DEF IInv, Type, Underway
  <1>8. Agreement' /\ Staged'
    BY <1>1, <1>3, <1>5 DEF IInv, Agreement, Staged
  <1>9. QED
    BY <1>4, <1>6, <1>7, <1>8 DEF IInv

(* The next tab finds what is stored, and shows it.                        *)
LEMMA ReloadKept ==
  ASSUME IInv, Reload
  PROVE  IInv'
  <1>1. /\ disk' = disk \/ (staged # None /\ disk' = staged.file)
        /\ Open(Shown(disk'), ToSet(disk'))
        /\ backing' = disk' /\ opened' = disk' /\ epoch' = 1 /\ generation' = 0
        /\ pc' = "off" /\ pending' = FALSE /\ checkpoint' = None /\ download' = 0
        /\ unsaved' = FALSE /\ request' = None /\ broken' = FALSE
        /\ accepted' = None /\ staged' = None /\ job' = "none" /\ given' = None
    BY DEF Reload
  <1>2. disk' \in Seq(Artworks) /\ Len(disk') <= MaxOperations
    BY <1>1, Fields DEF IInv, Type, Finished, Staged, Carries
  <1>3. /\ Document' /\ art' = Shown(disk') /\ ~Drawing' /\ ToSet(disk') \subseteq finished'
    BY <1>1, <1>2, OpenedDocument
  <1>4. Type'
    BY <1>1, <1>2, <1>3 DEF Type, Document, DocumentTyped
  <1>5. Underway' /\ Checked' /\ Sent' /\ Timely' /\ Agreement' /\ Staged'
    BY <1>1 DEF Underway, Checked, Sent, Timely, Agreement, Staged
  <1>6. Finished'
    BY <1>1, <1>2, <1>3, Unchanging, LenProperties
       DEF Finished, OnlyFinishedArt, Document, DocumentFinished
  <1>7. SavedMeansStored'
    BY <1>1, <1>3 DEF SavedMeansStored
  <1>8. QED
    BY <1>4, <1>5, <1>6, <1>7 DEF IInv

(* The invariant holds at the start.                                       *)
LEMMA Starts ==
  ASSUME Init
  PROVE  IInv
  <1>1. /\ art = Blank /\ stroke = None /\ preview = None
        /\ undo = <<>> /\ redo = <<>> /\ finished = {Blank}
        /\ backing = <<>> /\ opened = <<>> /\ disk = <<>> /\ epoch = 1 /\ generation = 0
        /\ pc = "off" /\ pending = FALSE /\ checkpoint = None /\ download = 0
        /\ unsaved = FALSE /\ request = None /\ broken = FALSE
        /\ accepted = None /\ staged = None /\ job = "none" /\ given = None
    BY DEF Init, New
  <1>2. Blank \in Artworks /\ <<>> \in Seq(Artworks) /\ Shown(<<>>) = Blank
    BY EmptySeq, DocumentAssumption DEF Blank, Artworks, Shown
  <1>3. ToSet(<<>>) = {} /\ GoesOn(<<>>, <<>>, Len(<<>>)) /\ Len(<<>>) <= MaxOperations
    <2>1. Len(<<>>) = 0 /\ 0 \in Nat /\ MaxOperations \in Nat
      BY RecoveryAssumption
    <2>2. GoesOn(<<>>, <<>>, 0)
      BY <1>2, <2>1, Unchanging
    <2>3. QED
      BY <2>1, <2>2 DEF ToSet
  <1>4. ~Drawing
    BY <1>1 DEF Drawing
  <1>5. Type
    BY <1>1, <1>2 DEF Type
  <1>6. Underway /\ Checked /\ Sent /\ Timely /\ Agreement /\ Staged
    BY <1>1 DEF Underway, Checked, Sent, Timely, Agreement, Staged
  <1>7. Finished /\ SavedMeansStored
    BY <1>1, <1>2, <1>3, <1>4 DEF Finished, OnlyFinishedArt, SavedMeansStored
  <1>8. QED
    BY <1>5, <1>6, <1>7 DEF IInv

(* A step that changes nothing keeps the invariant.                        *)
LEMMA StutterKept ==
  ASSUME IInv, UNCHANGED vars
  PROVE  IInv'
  <1>1. /\ Elsewhere
        /\ UNCHANGED <<generation, pc, pending, checkpoint, download, unsaved, request, broken,
                       accepted, staged, job, disk, given>>
    BY DEF vars, Elsewhere, flags, worker
  <1>2. /\ Finished' /\ Drawing' = Drawing
        /\ UNCHANGED <<art, stroke, preview, undo, redo, finished, backing, epoch, opened>>
    BY <1>1, FinishedKept
  <1>3. \A save : Carries(save)' <=> Carries(save)
    BY <1>2 DEF Carries
  <1>4. Type' /\ Underway' /\ Checked' /\ Timely' /\ SavedMeansStored'
    BY <1>1, <1>2 DEF IInv, Type, Underway, Checked, Timely, SavedMeansStored
  <1>5. Sent' /\ Agreement' /\ Staged'
    BY <1>1, <1>2, <1>3 DEF IInv, Sent, Agreement, Staged, SaveOf
  <1>6. QED
    BY <1>2, <1>4, <1>5 DEF IInv

(* Every step of page, worker and user keeps the invariant.                *)
LEMMA EveryStep ==
  ASSUME IInv, [Next]_vars
  PROVE  IInv'
  <1>1. CASE EditPage
    BY <1>1, EditKept
  <1>2. CASE \E file \in Files : Replace(file)
    BY <1>2, ReplaceKept
  <1>3. CASE DownloadByWorker \/ DownloadHere
    BY <1>3, DownloadKept
  <1>4. CASE LetStrokeGoOn \/ SendFails \/ AnsweredError \/ Break
    BY <1>4, GivenUpKept
  <1>5. CASE Reload
    BY <1>5, ReloadKept
  <1>6. CASE Capture \/ Send \/ Stage \/ Store \/ Accept \/ Answered
    BY <1>6, CaptureKept, SendKept, StageKept, StoreKept, AcceptKept, AnsweredKept
  <1>7. CASE UNCHANGED vars
    BY <1>7, StutterKept
  <1>8. QED
    BY <1>1, <1>2, <1>3, <1>4, <1>5, <1>6, <1>7 DEF Next, Saving

-----------------------------------------------------------------------------
(* The invariant holds in every reachable state, for any tiles, hashes and *)
(* files, whatever saves fail and whenever the tab is closed.              *)
THEOREM Invariance == Spec => []IInv
  <1>1. Init => IInv
    BY Starts
  <1>2. IInv /\ [Next]_vars => IInv'
    BY EveryStep
  <1>3. QED
    BY <1>1, <1>2, PTL DEF Spec

(* When the page lets the tab close without a warning (runtime.rs), the    *)
(* stored file shows exactly the artwork on screen, and a file delivered   *)
(* was captured no earlier than it was asked for.                          *)
THEOREM SavedIsStored == Spec => []SavedMeansStored
  <1>1. IInv => SavedMeansStored
    BY DEF IInv
  <1>2. QED
    BY <1>1, Invariance, PTL

(* The worker (recovery.rs) refuses no packet and rebuilds from its tiles  *)
(* exactly the artwork that was captured: page and worker never disagree   *)
(* about the save the difference was taken from.                           *)
THEOREM DifferencesAddUp == Spec => []RebuiltIsCaptured
  <1>1. IInv => RebuiltIsCaptured
    <2>1. IInv /\ job = "sent" => ~Refused(request)
      BY Differences
    <2>2. IInv /\ staged # None => staged.tiles = request.captured
      BY DEF IInv, Staged, SaveOf
    <2>3. QED
      BY <2>1, <2>2 DEF RebuiltIsCaptured
  <1>2. QED
    BY <1>1, Invariance, PTL

(* What a step stores goes on from the file opened and from the last save  *)
(* of the project it is of.                                                *)
StoresMore ==
  disk' # disk =>
    /\ Len(disk') <= MaxOperations
    /\ staged.epoch = epoch => GoesOn(disk', opened, Len(opened))
    /\ (accepted # None /\ accepted.epoch = staged.epoch) => GoesOn(disk', accepted.file, 1)

(* Only a staged save is ever stored, and it goes on from what was there.  *)
LEMMA EveryStepStoresMore ==
  ASSUME IInv, [Next]_vars
  PROVE  [StoresMore]_vars
  <1>1. disk' = disk \/ (staged # None /\ disk' = staged.file)
    <2>1. CASE EditPage \/ \E file \in Files : Replace(file)
      BY <2>1 DEF EditPage, Replace, worker
    <2>2. CASE DownloadByWorker \/ DownloadHere \/ LetStrokeGoOn \/ SendFails \/ AnsweredError
      BY <2>2 DEF DownloadByWorker, DownloadHere, LetStrokeGoOn, SendFails, AnsweredError, worker
    <2>3. CASE Break \/ Reload
      BY <2>3 DEF Break, Reload
    <2>4. CASE Capture \/ Send \/ Stage \/ Accept \/ Answered
      BY <2>4 DEF Capture, Send, Stage, Accept, Answered, worker
    <2>5. CASE Store
      BY <2>5 DEF Store, IInv, Underway
    <2>6. CASE UNCHANGED vars
      BY <2>6 DEF vars, worker
    <2>7. QED
      BY <2>1, <2>2, <2>3, <2>4, <2>5, <2>6 DEF Next, Saving
  <1>2. staged # None =>
          /\ Len(staged.file) <= MaxOperations
          /\ staged.epoch = epoch => GoesOn(staged.file, opened, Len(opened))
          /\ accepted # None /\ accepted.epoch = staged.epoch => GoesOn(staged.file, accepted.file, 1)
    BY DEF IInv, Staged, Carries
  <1>3. QED
    BY <1>1, <1>2 DEF StoresMore

(* A save never drops what was opened or saved before from the file, and   *)
(* neither a stroke in progress nor an unconfirmed adjustment gets into    *)
(* the artwork, its undo and redo, or what is stored.                      *)
THEOREM NothingSavedIsDropped == Spec => HistoryIsKept
  <1>1. IInv => OnlyFinishedArt
    BY DEF IInv, Finished
  <1>2. IInv /\ [Next]_vars => [StoresMore]_vars
    BY EveryStepStoresMore
  <1>3. Spec => []OnlyFinishedArt
    BY <1>1, Invariance, PTL
  <1>4. Spec => [][StoresMore]_vars
    BY <1>2, Invariance, PTL DEF Spec
  <1>5. QED
    BY <1>3, <1>4, PTL DEF HistoryIsKept, StoresMore

=============================================================================
