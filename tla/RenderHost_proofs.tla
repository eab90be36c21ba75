--------------------------- MODULE RenderHost_proofs ---------------------------
(***************************************************************************)
(* Proofs about the window and its render actor, for any paths, any amount *)
(* of work, any number of requests and all kinds of failure.               *)
(*                                                                         *)
(* Base holds whatever happens: the types, that a batch is where its stage *)
(* says, that one Save As or opening at a time holds admission, and that   *)
(* nothing is left outside the file while it is copied.  CopiesAreWhole    *)
(* follows from it.                                                        *)
(*                                                                         *)
(* Once adds what keeps work from being lost.  Its core is that work can   *)
(* only be admitted to a canvas that is open and not closing (Shut).  A    *)
(* reopening breaks this for a moment, since it opens the gate before the  *)
(* project; it is harmless as long as no close asked for meanwhile can     *)
(* meet a later reopening, so Once is claimed, and holds, until a second   *)
(* reopening is asked for (made.reopens <= 1).  Two are one too many: see  *)
(* AnExistingCloseHasDrained.                                              *)
(***************************************************************************)
EXTENDS RenderHost, TLAPS

(* What a project or an image may hold.                                     *)
Contents == {None, Foreign} \cup SUBSET Works

Batches == [wake : BOOLEAN, close : BOOLEAN, reopen : BOOLEAN, saveAs : BOOLEAN,
            retire : BOOLEAN, activations : Seq(Nat)]

Bridges == [closing : BOOLEAN, retiring : BOOLEAN, saving : BOOLEAN, path : Paths \cup {None},
            status : {"open", "saving", "ready", "failed"}, broken : BOOLEAN,
            export : BOOLEAN, shown : Paths \cup {None}]

(* The stages of a batch before its reopening is decided.                   *)
Early == {"saveAs", "activate", "switch", "retire", "reopen"}

Counts == [work : Nat, asks : Nat, reopens : Nat]

Savers == [step : {"none", "draining", "copying", "staged", "linked", "done", "refused"},
           source : Paths \cup {None}, target : Paths \cup {None}]

TypeOK ==
  /\ ink \in Bridges
  /\ posted \subseteq {"activation", "wmClose", "close", "reopen", "saveAs"}
  /\ window \in {"open", "leaving", "gone"} /\ restart \in BOOLEAN /\ confirming \in BOOLEAN
  /\ pend \in Batches /\ batch \in Batches
  /\ actor \in Early \cup {"off", "waiting", "reopening", "close", "frame", "drawing",
                           "joining", "dying", "told", "finished"}
  /\ closing \in BOOLEAN /\ canvas \in {"active", "suspended", "failed"}
  /\ location \in Paths /\ closer \in {"none", "draining", "done"} /\ saver \in Savers
  /\ lanes \subseteq Works /\ drawn \subseteq Works /\ reported \subseteq Works
  /\ disk \in [Paths -> [project : Contents, image : Contents]]
  /\ made \in Counts /\ died \in BOOLEAN
  /\ inbox \in Seq(Nat) /\ asked \in Seq(Paths)

(* Requests are positions in what was asked for.                            *)
Known(requests) == \A i \in DOMAIN requests : requests[i] \in DOMAIN asked

(* Nothing is outside the file.                                             *)
Quiet == lanes = {} /\ drawn = {}

(* The actor is only where its batch sends it.                              *)
Staged ==
  /\ actor \in {"activate", "switch"} => batch.activations # <<>>
  /\ actor = "retire" => batch.retire
  /\ actor = "reopen" => batch.reopen
  /\ actor = "close" => batch.close
  /\ Known(inbox) /\ Known(pend.activations) /\ Known(batch.activations)

IsProject(p) == disk[p].project \notin {None, Foreign}

(* A Save As that is asked for or under way holds admission, and so does an *)
(* opening; there is one of them at a time.                                 *)
SavesAreExclusive ==
  /\ ink.path # None \/ saver.step # "none" => ink.saving /\ actor # "switch"
  /\ ~(ink.path # None /\ saver.step # "none")
  /\ actor = "switch" => ink.saving

(* The open project and a project being copied exist; while it is copied    *)
(* nothing is outside its file; and a linked image is the copied project's. *)
Copied ==
  /\ IsProject(location)
  /\ saver.step # "none" => /\ saver.source \in Paths /\ saver.target \in Paths
                            /\ IsProject(saver.source)
  /\ saver.step \notin {"none", "draining"} => Quiet
  /\ saver.step = "linked" => disk[saver.target].image = disk[saver.source].project

Base == TypeOK /\ Staged /\ SavesAreExclusive /\ Copied

-----------------------------------------------------------------------------
Dead == actor \in {"dying", "told", "finished"}
Alive == ~Dead /\ actor # "joining"

(* Where a request to reopen can be: an update that may fail, a message, a  *)
(* pending control, the batch in hand.  Fresh: the one reopening allowed is *)
(* still to come.                                                           *)
R1 == restart
R2 == "reopen" \in posted
R3 == pend.reopen
R4 == batch.reopen /\ actor \in Early
Fresh == made.reopens = 0 \/ R1 \/ R2 \/ R3 \/ R4

(* Where a close that was accepted can be before the actor carries it out.  *)
C1 == "close" \in posted
C2 == pend.close
C3 == batch.close /\ actor \in Early \cup {"reopening", "close"}
CloseQueued == C1 \/ C2 \/ C3

(* No work can be admitted.                                                 *)
NoAdmission == IsClosing \/ ink.saving \/ ink.broken \/ ink.shown = None

(* A request to reopen is in one place.                                     *)
OneReopening ==
  /\ ~(R1 /\ R2) /\ ~(R1 /\ R3) /\ ~(R1 /\ R4) /\ ~(R2 /\ R3) /\ ~(R2 /\ R4) /\ ~(R3 /\ R4)
  /\ made.reopens = 0 => ~R1 /\ ~R2 /\ ~R3 /\ ~R4

(* An accepted close is in one place, and has shut the gate.                *)
OneClose ==
  /\ ~(C1 /\ C2) /\ ~(C1 /\ C3) /\ ~(C2 /\ C3)
  /\ CloseQueued => ink.closing

(* Before the reopening: a close under way has shut the gate with no Save   *)
(* As inside; no other is queued behind it; and a failure that may be       *)
(* reopened from is that of a close that was carried out.                   *)
BeforeReopening ==
  Fresh => /\ CloseQueued \/ closing => ink.closing /\ ~ink.saving
           /\ closing => ~CloseQueued
           /\ Alive /\ (ink.status \in {"failed", "ready"} \/ confirming) => closing

(* What each stage has found out: the actor's own flag goes with the        *)
(* bridge's, an opening and a reopening start from a drained canvas.        *)
Gates ==
  /\ closer # "none" => closing \/ ~Alive
  /\ closing /\ Alive => IsClosing \/ actor = "reopening"
  /\ pend.retire \/ (batch.retire /\ actor \in Early) \/ actor = "joining" => ink.retiring
  /\ actor \in {"switch", "drawing"} => ~closing
  /\ actor = "switch" => Quiet /\ closer = "none" /\ canvas = "suspended"
  /\ actor = "joining" /\ canvas = "active" => closing
  /\ actor = "reopening" => ~Fresh /\ Quiet /\ ink.shown = None /\ closer = "none" /\ saver.step = "none"

(* A canvas that is not open, or is closing, admits nothing, and unless a   *)
(* worker is about to drain it, nothing is left in it.                      *)
Shut ==
  /\ canvas # "active" /\ ~Dead => NoAdmission
  /\ canvas # "active" /\ ~Dead /\ closer # "draining" /\ saver.step # "draining" => Quiet
  /\ ink.path # None /\ canvas # "active" /\ ~Dead => IsClosing \/ ink.broken \/ ink.shown = None
  /\ closing /\ canvas = "active" /\ ~Dead => ink.shown = None /\ Quiet

(* Where there is no actor there is no work, unless it ended by itself.     *)
Over ==
  /\ actor = "off" => canvas = "suspended" /\ ~closing
  /\ actor \in {"off", "finished"} =>
       died \/ (closer = "none" /\ saver.step = "none" /\ Quiet /\ ink.shown = None)
  /\ actor \in {"dying", "told"} => died
  /\ window = "gone" => actor \in {"off", "finished"}

(* Work outside the files is the open project's.                            *)
Here ==
  /\ \A w \in lanes \cup drawn : w.project = location
  /\ ink.shown \in {None, location}

(* The n-th piece of work is somewhere.                                     *)
Kept(n) ==
  \E w \in Works : /\ w.n = n
                   /\ w \in lanes \cup drawn \cup reported \/ (IsProject(w.project) /\ w \in disk[w.project].project)

AllKept == \A n \in 1..made.work : Kept(n)

(* What holds while there was at most one reopening.                        *)
Once == OneReopening /\ OneClose /\ BeforeReopening /\ Gates /\ Shut /\ Over /\ Here /\ AllKept

(* The part of it that is about gates.                                      *)
Fits == OneClose /\ BeforeReopening /\ Gates /\ Shut /\ Over

IInv == Base /\ (made.reopens <= 1 => Once)

-----------------------------------------------------------------------------
(* What follows in a batch, stage by stage.                                 *)
LEMMA AfterTheOpening ==
  ASSUME NEW b
  PROVE  From(5, b) = IF b.close THEN "close" ELSE "frame"
<1> DEFINE W(i) == Wanted(Stages[i], b)
           At(i) == W(i) /\ \A j \in 5..(i - 1) : ~W(j)
<1>1. /\ Stages[5] = "close" /\ Stages[6] = "frame"
      /\ W(5) <=> b.close
      /\ W(6)
  BY DEF Stages, Wanted
<1>2. From(5, b) = Stages[CHOOSE i \in 5..6 : At(i)]
  BY DEF From
<1> HIDE DEF W
<1>3. CASE b.close
  <2>1. \A i \in 5..6 : At(i) <=> i = 5
    BY <1>1, <1>3
  <2> HIDE DEF At
  <2> QED
    BY <2>1, <1>1, <1>2, <1>3
<1>4. CASE ~b.close
  <2>1. \A i \in 5..6 : At(i) <=> i = 6
    BY <1>1, <1>4
  <2> HIDE DEF At
  <2> QED
    BY <2>1, <1>1, <1>2, <1>4
<1> QED
  BY <1>3, <1>4

LEMMA AfterTheSave ==
  ASSUME NEW b
  PROVE  From(2, b) = IF b.activations # <<>> THEN "activate" ELSE IF b.retire THEN "retire"
                      ELSE IF b.reopen THEN "reopen" ELSE IF b.close THEN "close" ELSE "frame"
<1> DEFINE W(i) == Wanted(Stages[i], b)
           At(i) == W(i) /\ \A j \in 2..(i - 1) : ~W(j)
<1>1. /\ Stages[2] = "activate" /\ Stages[3] = "retire" /\ Stages[4] = "reopen"
      /\ Stages[5] = "close" /\ Stages[6] = "frame"
      /\ W(2) <=> b.activations # <<>>
      /\ W(3) <=> b.retire
      /\ W(4) <=> b.reopen
      /\ W(5) <=> b.close
      /\ W(6)
  BY DEF Stages, Wanted
<1>2. From(2, b) = Stages[CHOOSE i \in 2..6 : At(i)]
  BY DEF From
<1> HIDE DEF W
<1>3. ASSUME NEW k \in 2..6, W(k), \A j \in 2..(k - 1) : ~W(j)
      PROVE  From(2, b) = Stages[k]
  <2>1. \A i \in 2..6 : At(i) <=> i = k
    BY <1>3
  <2> HIDE DEF At
  <2> QED
    BY <2>1, <1>2
<1>4. CASE W(2)
  BY <1>1, <1>3, <1>4
<1>5. CASE ~W(2) /\ W(3)
  <2>1. From(2, b) = Stages[3]
    BY <1>3, <1>5
  <2> QED
    BY <1>1, <1>5, <2>1
<1>6. CASE ~W(2) /\ ~W(3) /\ W(4)
  <2>1. From(2, b) = Stages[4]
    BY <1>3, <1>6
  <2> QED
    BY <1>1, <1>6, <2>1
<1>7. CASE ~W(2) /\ ~W(3) /\ ~W(4) /\ W(5)
  <2>1. From(2, b) = Stages[5]
    BY <1>3, <1>7
  <2> QED
    BY <1>1, <1>7, <2>1
<1>8. CASE ~W(2) /\ ~W(3) /\ ~W(4) /\ ~W(5)
  <2>1. From(2, b) = Stages[6]
    BY <1>1, <1>3, <1>8
  <2> QED
    BY <1>1, <1>8, <2>1
<1> QED
  BY <1>4, <1>5, <1>6, <1>7, <1>8

LEMMA FromTheStart ==
  ASSUME NEW b
  PROVE  From(1, b) = IF b.saveAs THEN "saveAs" ELSE From(2, b)
<1> DEFINE W(i) == Wanted(Stages[i], b)
           At(i) == i \in 1..6 /\ W(i) /\ \A j \in 1..(i - 1) : ~W(j)
           Then(i) == i \in 2..6 /\ W(i) /\ \A j \in 2..(i - 1) : ~W(j)
<1>1. /\ Stages[1] = "saveAs"
      /\ W(1) <=> b.saveAs
  BY DEF Stages, Wanted
<1>2. /\ From(1, b) = Stages[CHOOSE i \in 1..6 : W(i) /\ \A j \in 1..(i - 1) : ~W(j)]
      /\ From(2, b) = Stages[CHOOSE i \in 2..6 : W(i) /\ \A j \in 2..(i - 1) : ~W(j)]
  BY DEF From
<1> HIDE DEF W
<1>3. CASE b.saveAs
  <2>1. \A i \in 1..6 : (W(i) /\ \A j \in 1..(i - 1) : ~W(j)) <=> i = 1
    BY <1>1, <1>3
  <2>2. (CHOOSE i \in 1..6 : W(i) /\ \A j \in 1..(i - 1) : ~W(j)) = 1
    BY <2>1
  <2> QED
    BY <2>2, <1>1, <1>2, <1>3
<1>4. CASE ~b.saveAs
  <2>1. \A i : At(i) <=> Then(i)
    BY <1>1, <1>4
  <2>2. (CHOOSE i : At(i)) = CHOOSE i : Then(i)
    <3> HIDE DEF At, Then
    <3> QED
      BY <2>1
  <2>3. From(1, b) = Stages[CHOOSE i : At(i)] /\ From(2, b) = Stages[CHOOSE i : Then(i)]
    BY <1>2
  <2> QED
    BY <2>2, <2>3, <1>4
<1> QED
  BY <1>3, <1>4

-----------------------------------------------------------------------------
LEMMA Rewritten ==
  ASSUME NEW e \in [project : Contents, image : Contents], NEW held
  PROVE  /\ [e EXCEPT !.project = held] = [project |-> held, image |-> e.image]
         /\ [e EXCEPT !.image = held] = [project |-> e.project, image |-> held]
OBVIOUS

(* What draining a canvas does.                                             *)
LEMMA Draining ==
  ASSUME TypeOK, IsProject(location), NEW bridge \in Bridges, Drain(bridge)
  PROVE  /\ ink' \in Bridges
         /\ ink'.closing = bridge.closing /\ ink'.retiring = bridge.retiring
         /\ ink'.saving = bridge.saving /\ ink'.path = bridge.path
         /\ ink'.status = bridge.status /\ ink'.shown = bridge.shown
         /\ bridge.broken => ink'.broken
         /\ Quiet' /\ reported' \subseteq Works
         /\ disk' \in [Paths -> [project : Contents, image : Contents]]
         /\ \A p \in Paths : /\ disk'[p].image = disk[p].image
                             /\ p # location => disk'[p] = disk[p]
         /\ disk'[location].project \in SUBSET Works
         /\ disk[location].project \subseteq disk'[location].project
         /\ \A w \in lanes \cup drawn : w \in disk'[location].project \/ w \in reported'
         /\ reported \subseteq reported'
         /\ Quiet => disk' = disk
<1>1. /\ disk[location].project \in SUBSET Works
      /\ \A W \in SUBSET Works : W # None /\ W # Foreign
      /\ Quiet'
  BY HostAssumption DEF TypeOK, IsProject, Contents, Drain, Quiet
<1>2. CASE disk' = [disk EXCEPT ![location].project = @ \cup drawn \cup lanes]
           /\ (ink' = bridge \/ ink' = [bridge EXCEPT !.export = TRUE]) /\ UNCHANGED reported
  <2> DEFINE all == disk[location].project \cup drawn \cup lanes
  <2>1. all \in SUBSET Works /\ all \in Contents
    BY <1>1 DEF TypeOK, Contents
  <2>2. disk' = [disk EXCEPT ![location] = [project |-> all, image |-> disk[location].image]]
    <3>1. disk' = [disk EXCEPT ![location] = [disk[location] EXCEPT !.project = all]]
      BY <1>2
    <3> QED
      BY <3>1, Rewritten DEF TypeOK
  <2>3. Quiet => all = disk[location].project
    BY DEF Quiet
  <2> HIDE DEF all
  <2>4. Quiet => disk' = disk
    BY <2>2, <2>3 DEF TypeOK
  <2>5. \A w \in lanes \cup drawn : w \in disk'[location].project
    BY <2>2 DEF TypeOK, all
  <2>6. disk[location].project \subseteq disk'[location].project
    BY <2>2 DEF TypeOK, all
  <2>7. /\ disk' \in [Paths -> [project : Contents, image : Contents]]
        /\ \A p \in Paths : /\ disk'[p].image = disk[p].image
                            /\ p # location => disk'[p] = disk[p]
        /\ disk'[location].project \in SUBSET Works
    BY <2>1, <2>2 DEF TypeOK
  <2>8. /\ ink' \in Bridges
        /\ ink'.closing = bridge.closing /\ ink'.retiring = bridge.retiring
        /\ ink'.saving = bridge.saving /\ ink'.path = bridge.path
        /\ ink'.status = bridge.status /\ ink'.shown = bridge.shown
        /\ bridge.broken => ink'.broken
    BY <1>2 DEF Bridges
  <2> QED
    BY <1>1, <1>2, <2>4, <2>5, <2>6, <2>7, <2>8 DEF TypeOK
<1>3. CASE ink' = Broken(bridge) /\ reported' = reported \cup drawn \cup lanes /\ UNCHANGED disk
  BY <1>1, <1>3 DEF TypeOK, Bridges, Broken
<1> QED
  BY <1>2, <1>3 DEF Drain

(* What opening a project does.                                             *)
LEMMA Opening ==
  ASSUME TypeOK, NEW path \in Paths, NEW bridge \in Bridges, Opens(path, bridge)
  PROVE  /\ canvas' = "active" /\ location' = path /\ ink' = bridge
         /\ disk' \in [Paths -> [project : Contents, image : Contents]]
         /\ \A p \in Paths : /\ disk'[p].image = disk[p].image
                             /\ IsProject(p) => disk'[p] = disk[p]
                             /\ disk[p].project = Foreign => disk'[p] = disk[p]
                             /\ disk[p].project = None => disk'[p].project \in {None, {}}
         /\ IsProject(path)'
<1>1. {} \in Contents /\ {} # None /\ {} # Foreign /\ None # Foreign
  BY HostAssumption DEF Contents
<1>2. CASE disk[path].project = None
  <2>1. disk' = [disk EXCEPT ![path] = [project |-> {}, image |-> disk[path].image]]
    <3>1. disk' = [disk EXCEPT ![path] = [disk[path] EXCEPT !.project = {}]]
      BY <1>2 DEF Opens, Opened
    <3> QED
      BY <3>1, Rewritten DEF TypeOK
  <2> QED
    BY <1>1, <1>2, <2>1 DEF Opens, TypeOK, IsProject
<1>3. CASE disk[path].project # None
  BY <1>1, <1>3 DEF Opens, Opened, TypeOK, IsProject
<1> QED
  BY <1>2, <1>3

(* ... and what is open after a project was opened again, or was not.       *)
LEMMA Again ==
  ASSUME TypeOK, IsProject(location), NEW bridge \in Bridges, Reopens(bridge)
  PROVE  /\ location' = location /\ disk' = disk /\ ink' \in Bridges
         /\ \/ canvas' = "active" /\ ink' = bridge
            \/ canvas' = "failed" /\ ink' = Broken(bridge)
<1>1. CASE Opens(location, bridge)
  BY <1>1 DEF Opens, Opened, IsProject, TypeOK
<1>2. CASE FailsToOpen(bridge)
  BY <1>2 DEF FailsToOpen, Broken, TypeOK, Bridges
<1> QED
  BY <1>1, <1>2 DEF Reopens

-----------------------------------------------------------------------------
(* The types.                                                               *)
LEMMA Counting ==
  ASSUME NEW m \in Counts
  PROVE  /\ [m EXCEPT !.work = @ + 1] \in Counts /\ [m EXCEPT !.asks = @ + 1] \in Counts
         /\ [m EXCEPT !.asks = @ + 1, !.reopens = @ + 1] \in Counts
         /\ [m EXCEPT !.asks = @ + 1, !.reopens = @ + 1].reopens = m.reopens + 1
         /\ [m EXCEPT !.asks = @ + 1, !.reopens = @ + 1].work = m.work
<1>1. m.work + 1 \in Nat /\ m.asks + 1 \in Nat /\ m.reopens + 1 \in Nat
  BY DEF Counts
<1> DEFINE more == [m EXCEPT !.asks = @ + 1]
<1>2. more \in Counts /\ more.reopens = m.reopens /\ more.work = m.work
  BY <1>1 DEF Counts
<1>3. [m EXCEPT !.asks = @ + 1, !.reopens = @ + 1] = [more EXCEPT !.reopens = m.reopens + 1]
  BY <1>2 DEF Counts
<1> HIDE DEF more
<1>4. /\ [more EXCEPT !.reopens = m.reopens + 1] \in Counts
      /\ [more EXCEPT !.reopens = m.reopens + 1].reopens = m.reopens + 1
      /\ [more EXCEPT !.reopens = m.reopens + 1].work = m.work
  BY <1>1, <1>2 DEF Counts
<1>5. [m EXCEPT !.work = @ + 1] \in Counts /\ [m EXCEPT !.asks = @ + 1] \in Counts
  BY <1>1 DEF Counts
<1> QED
  BY <1>3, <1>4, <1>5

LEMMA Noting ==
  ASSUME NEW b \in Batches, NEW x \in BOOLEAN, NEW requests \in Seq(Nat)
  PROVE  /\ [b EXCEPT !.wake = x] \in Batches /\ [b EXCEPT !.close = x] \in Batches
         /\ [b EXCEPT !.reopen = x] \in Batches /\ [b EXCEPT !.saveAs = x] \in Batches
         /\ [b EXCEPT !.retire = x] \in Batches
         /\ [b EXCEPT !.activations = requests] \in Batches
BY DEF Batches

LEMMA NothingAsked == NoWork \in Batches
<1>1. <<>> \in Seq(Nat)
  OBVIOUS
<1> QED
  BY <1>1 DEF Batches, NoWork

LEMMA Marking ==
  ASSUME NEW bridge \in Bridges, NEW x \in BOOLEAN, NEW p \in Paths \cup {None},
         NEW s \in {"open", "saving", "ready", "failed"}
  PROVE  /\ [bridge EXCEPT !.closing = x] \in Bridges /\ [bridge EXCEPT !.retiring = x] \in Bridges
         /\ [bridge EXCEPT !.saving = x] \in Bridges /\ [bridge EXCEPT !.broken = x] \in Bridges
         /\ [bridge EXCEPT !.export = x] \in Bridges /\ [bridge EXCEPT !.status = s] \in Bridges
         /\ [bridge EXCEPT !.path = p] \in Bridges /\ [bridge EXCEPT !.shown = p] \in Bridges
BY DEF Bridges

LEMMA Bridging ==
  ASSUME NEW bridge \in Bridges
  PROVE  /\ Reset(bridge) \in Bridges /\ Broken(bridge) \in Bridges /\ BeginClose(bridge) \in Bridges
         /\ CloseResult(bridge) \in Bridges /\ Finish(bridge) \in Bridges
         /\ Retiring(bridge) \in Bridges /\ Held(bridge) \in Bridges
BY DEF Bridges, Reset, Broken, BeginClose, CloseResult, Finish, Retiring, Held

LEMMA UserTypes ==
  ASSUME TypeOK, User
  PROVE  TypeOK'
<1> USE DEF user, inputs, work, scene, workers
<1>1. CASE Admit
  <2>1. ink.shown \in Paths /\ made.work + 1 \in 1..MaxWork
    BY <1>1, HostAssumption DEF Admit, TypeOK, Bridges, Counts
  <2>2. [project |-> ink.shown, n |-> made.work + 1] \in Works
    BY <2>1 DEF Works
  <2>3. made' \in Counts /\ pend' \in Batches /\ lanes' \subseteq Works
    BY <1>1, <2>2, Counting, Noting DEF Admit, TypeOK, Wake
  <2> QED
    BY <1>1, <2>3 DEF Admit, TypeOK
<1>2. CASE AskClose
  <2>1. made' \in Counts
    BY <1>2, Counting DEF AskClose, Ask, TypeOK
  <2>2. restart' \in BOOLEAN /\ posted' = posted \cup {"wmClose"}
    BY <1>2 DEF AskClose, TypeOK
  <2> QED
    BY <1>2, <2>1, <2>2 DEF AskClose, TypeOK
<1>3. CASE AskReopen
  <2>1. made' \in Counts
    BY <1>3, Counting DEF AskReopen, TypeOK
  <2> QED
    BY <1>3, <2>1 DEF AskReopen, TypeOK
<1>4. CASE Teardown
  <2>1. made' \in Counts
    BY <1>4, Counting DEF Teardown, Ask, TypeOK
  <2>2. pend' \in Batches
    BY <1>4, Noting DEF Teardown, TypeOK, Wake
  <2>3. ink' \in Bridges
    BY <1>4, Bridging DEF Teardown, TypeOK
  <2> QED
    BY <1>4, <2>1, <2>2, <2>3 DEF Teardown, TypeOK
<1>5. ASSUME NEW path \in Openable, Request(path)
      PROVE  TypeOK'
  <2>1. made' \in Counts
    BY <1>5, Counting DEF Request, Ask, TypeOK
  <2>2. asked' \in Seq(Paths) /\ Len(asked') \in Nat
    BY <1>5, HostAssumption DEF Request, TypeOK
  <2>3. inbox' \in Seq(Nat)
    BY <1>5, <2>2 DEF Request, TypeOK
  <2> QED
    BY <1>5, <2>1, <2>2, <2>3 DEF Request, TypeOK
<1>6. ASSUME NEW path \in Paths, SaveAs(path)
      PROVE  TypeOK'
  <2>1. made' \in Counts
    BY <1>6, Counting DEF SaveAs, Ask, TypeOK
  <2>2. ink' \in Bridges
    BY <1>6 DEF SaveAs, TypeOK, Bridges
  <2> QED
    BY <1>6, <2>1, <2>2 DEF SaveAs, TypeOK
<1> QED
  BY <1>1, <1>2, <1>3, <1>4, <1>5, <1>6 DEF User

LEMMA MessageTypes ==
  ASSUME TypeOK, Messages \/ Confirm \/ Timer \/ ExitGuard
  PROVE  TypeOK'
<1> USE DEF user, inputs, work, scene, workers
<1>1. CASE ProcessActivation
  <2>1. CASE inbox = <<>>
    BY <1>1, <2>1 DEF ProcessActivation, TypeOK
  <2>2. CASE inbox # <<>>
    <3>1. inbox' = Tail(inbox)
      BY <1>1, <2>2 DEF ProcessActivation
    <3>2. inbox' \in Seq(Nat) /\ Head(inbox) \in Nat
      BY <3>1, <2>2 DEF TypeOK
    <3>3. Append(pend.activations, Head(inbox)) \in Seq(Nat)
      BY <3>2 DEF TypeOK, Batches
    <3>4. Wake(pend) \in Batches /\ Wake(pend).activations = pend.activations
      BY Noting DEF TypeOK, Wake, Batches
    <3>5. [Wake(pend) EXCEPT !.activations = Append(@, Head(inbox))] \in Batches
      BY <3>3, <3>4, Noting
    <3>6. pend' \in Batches
      BY <1>1, <2>2, <3>5 DEF ProcessActivation, TypeOK
    <3> QED
      BY <1>1, <2>2, <3>2, <3>6 DEF ProcessActivation, TypeOK
  <2> QED
    BY <2>1, <2>2
<1>2. CASE WmClose
  <2>1. ink' \in Bridges
    BY <1>2, Bridging, Marking DEF WmClose, TypeOK
  <2>2. pend' \in Batches
    <3>1. [Wake(pend) EXCEPT !.retire = TRUE] \in Batches
      BY Noting DEF Wake, TypeOK
    <3> QED
      BY <1>2, <3>1 DEF WmClose, TypeOK
  <2>3. /\ posted' \subseteq posted \cup {"close", "reopen"}
        /\ window' \in {window, "gone"} /\ restart' \in BOOLEAN
    BY <1>2 DEF WmClose, TypeOK
  <2> QED
    BY <1>2, <2>1, <2>2, <2>3 DEF WmClose, TypeOK
<1>3. CASE ChildClose \/ ChildReopen \/ ChildSaveAs
  <2>1. ink' \in Bridges
    BY <1>3, Marking DEF ChildClose, ChildReopen, ChildSaveAs, TypeOK
  <2>2. pend' \in Batches
    <3>1. Wake(pend) \in Batches
      BY Noting DEF TypeOK, Wake
    <3> QED
      BY <1>3, <3>1, Noting DEF ChildClose, ChildReopen, ChildSaveAs, TypeOK
  <2> QED
    BY <1>3, <2>1, <2>2 DEF ChildClose, ChildReopen, ChildSaveAs, TypeOK
<1>4. CASE Confirm \/ Timer \/ ExitGuard
  <2>1. ink' \in Bridges
    BY <1>4, Marking DEF Confirm, Timer, ExitGuard, TypeOK
  <2>2. restart' \in BOOLEAN /\ confirming' \in BOOLEAN /\ posted' \subseteq posted \cup {"wmClose"}
    BY <1>4 DEF Confirm, Timer, ExitGuard, TypeOK
  <2> QED
    BY <1>4, <2>1, <2>2 DEF Confirm, Timer, ExitGuard, TypeOK
<1> QED
  BY <1>1, <1>2, <1>3, <1>4 DEF Messages

LEMMA StageTypes ==
  ASSUME NEW b \in Batches, NEW k \in {1, 2, 5}
  PROVE  From(k, b) \in Early \cup {"close", "frame"}
BY FromTheStart, AfterTheSave, AfterTheOpening DEF Early

LEMMA Targets ==
  ASSUME TypeOK, Staged, batch.activations # <<>>
  PROVE  /\ Target \in Paths /\ Request1 \in Nat
         /\ Tail(batch.activations) \in Seq(Nat) /\ Known(Tail(batch.activations))
<1>1. batch.activations \in Seq(Nat) /\ Len(batch.activations) > 0
  BY DEF TypeOK, Batches
<1>2. 1 \in DOMAIN batch.activations /\ Request1 = batch.activations[1]
  BY <1>1 DEF Request1
<1>3. Request1 \in DOMAIN asked /\ Request1 \in Nat
  BY <1>1, <1>2 DEF Staged, Known
<1>4. Target \in Paths
  BY <1>3 DEF Target, TypeOK
<1>5. Tail(batch.activations) \in Seq(Nat)
  BY <1>1
<1>6. \A i \in DOMAIN Tail(batch.activations) :
        i + 1 \in DOMAIN batch.activations /\ Tail(batch.activations)[i] = batch.activations[i + 1]
  BY <1>1
<1>7. Known(Tail(batch.activations))
  BY <1>6 DEF Staged, Known
<1> QED
  BY <1>3, <1>4, <1>5, <1>7

LEMMA ActorTypes ==
  ASSUME TypeOK, Staged, Copied, Actor \/ Panic
  PROVE  TypeOK'
<1> USE DEF user, inputs, work, scene, workers
<1>1. CASE StartActor
  <2>1. CASE Reopens(ink)
    BY <1>1, <2>1, Again DEF StartActor, TypeOK, Copied
  <2>2. ASSUME ~Reopens(ink)
        PROVE  TypeOK'
    <3>1. [Broken(ink) EXCEPT !.status = "failed"] \in Bridges
      BY Bridging, Marking DEF TypeOK
    <3> QED
      BY <1>1, <2>2, <3>1 DEF StartActor, TypeOK
  <2> QED
    BY <2>1, <2>2
<1>2. CASE TakeBatch
  <2>1. batch' \in Batches /\ pend' \in Batches
    <3>1. NoWork \in Batches /\ pend.retire \in BOOLEAN
      BY NothingAsked DEF TypeOK, Batches
    <3> QED
      BY <1>2, <3>1, Noting DEF TakeBatch, TypeOK
  <2>2. actor' \in Early \cup {"close", "frame"}
    BY <1>2, <2>1, StageTypes DEF TakeBatch
  <2> QED
    BY <1>2, <2>1, <2>2 DEF TakeBatch, TypeOK
<1>3. CASE BeginSaveAs
  <2>1. actor' \in Early \cup {"close", "frame"}
    BY <1>3, StageTypes DEF BeginSaveAs, TypeOK
  <2>2. Taken \in Bridges
    BY Marking DEF Taken, TypeOK
  <2>3. ink' \in Bridges /\ lanes' \subseteq Works /\ drawn' \subseteq Works
    BY <1>3, <2>2, Bridging DEF BeginSaveAs, TypeOK
  <2>4. saver' \in Savers
    BY <1>3 DEF BeginSaveAs, TypeOK, Savers, Bridges
  <2>5. canvas' \in {canvas, "suspended"}
    BY <1>3 DEF BeginSaveAs
  <2> QED
    BY <1>3, <2>1, <2>3, <2>4, <2>5 DEF BeginSaveAs, TypeOK
<1>4. CASE Activate
  <2>1. batch.activations \in Seq(Nat) /\ batch.activations # <<>>
    BY <1>4 DEF Activate, Staged, TypeOK, Batches
  <2>2. CASE Settled /\ UNCHANGED <<scene, work, ink, disk>>
    <3>1. Tail(batch.activations) \in Seq(Nat)
      BY <2>1
    <3>2. batch' \in Batches
      BY <2>2, <3>1, Noting DEF Settled, TypeOK
    <3>3. actor' \in Early \cup {"close", "frame"}
      BY <2>2, <3>2, StageTypes DEF Settled
    <3> QED
      BY <1>4, <2>2, <3>2, <3>3 DEF Activate, TypeOK
  <2>3. CASE Drain(Held(ink)) /\ canvas' = "suspended" /\ actor' = "switch"
             /\ UNCHANGED <<batch, answered, location>>
    <3>1. Held(ink) \in Bridges
      BY Bridging DEF TypeOK
    <3>2. /\ ink' \in Bridges /\ Quiet' /\ reported' \subseteq Works
          /\ disk' \in [Paths -> [project : Contents, image : Contents]]
      BY <2>3, <3>1, Draining DEF Copied
    <3> QED
      BY <1>4, <2>3, <3>2 DEF Activate, TypeOK, Quiet, Early
  <2>4. CASE ink' = Held(ink) /\ UNCHANGED <<work, disk>> /\ canvas' = "suspended"
             /\ actor' = "switch" /\ UNCHANGED <<batch, answered, location>>
    <3>1. Held(ink) \in Bridges
      BY Bridging DEF TypeOK
    <3> QED
      BY <1>4, <2>4, <3>1 DEF Activate, TypeOK, Early
  <2> QED
    BY <1>4, <2>2, <2>3, <2>4 DEF Activate

<1>5. CASE Switch
  <2>1. /\ Target \in Paths
        /\ batch' \in Batches
        /\ actor' \in Early \cup {"close", "frame"}
    <3>1. Target \in Paths /\ Tail(batch.activations) \in Seq(Nat)
      BY <1>5, Targets DEF Switch, Staged
    <3>2. batch' \in Batches
      BY <1>5, <3>1, Noting DEF Switch, Settled, TypeOK
    <3> QED
      BY <1>5, <3>1, <3>2, StageTypes DEF Switch, Settled
  <2>2. /\ ink' \in Bridges /\ canvas' \in {"active", "failed"} /\ location' \in Paths
        /\ disk' \in [Paths -> [project : Contents, image : Contents]]
    <3>1. Finish(ink) \in Bridges /\ Finish(Reset(ink)) \in Bridges
      BY Bridging DEF TypeOK
    <3>2. CASE ink.broken
      BY <1>5, <3>1, <3>2 DEF Switch, TypeOK
    <3>3. CASE Reopens(Finish(ink)) \/ Reopens(Finish(Reset(ink)))
      BY <3>1, <3>3, Again DEF TypeOK, Copied
    <3>4. CASE Opens(Target, Finish(Reset(ink)))
      BY <2>1, <3>1, <3>4, Opening
    <3> QED
      BY <1>5, <3>2, <3>3, <3>4 DEF Switch
  <2>3. lanes' \in {lanes, {}}
    BY <1>5 DEF Switch
  <2> QED
    BY <1>5, <2>1, <2>2, <2>3 DEF Switch, TypeOK
<1>6. CASE Retire \/ Close
  <2>1. ink' \in Bridges
    BY <1>6, Bridging DEF Retire, Close, StartClosing, TypeOK
  <2>2. canvas' \in {canvas, "suspended"} /\ closer' \in {closer, "draining"}
    BY <1>6 DEF Retire, Close, StartClosing
  <2>3. actor' \in {"joining", "frame"} /\ closing' \in BOOLEAN
    BY <1>6 DEF Retire, Close, TypeOK
  <2> QED
    BY <1>6, <2>1, <2>2, <2>3 DEF Retire, Close, TypeOK
<1>7. CASE Join
  <2>1. (IF saver.step = "none" THEN ink ELSE Finish(ink)) \in Bridges
    BY Bridging DEF TypeOK
  <2>2. ink' \in Bridges
    BY <1>7, <2>1, Marking DEF Join
  <2>3. NoSave \in Savers /\ NoWork \in Batches
    <3>1. NoSave \in Savers
      BY DEF NoSave, Savers
    <3> QED
      BY <3>1, NothingAsked
  <2> QED
    BY <1>7, <2>2, <2>3 DEF Join, TypeOK
<1>8. CASE Reopen
  <2>1. [Reset(ink) EXCEPT !.closing = FALSE, !.status = "open"] \in Bridges
    <3> DEFINE r == Reset(ink)
    <3>1. r \in Bridges
      BY Bridging DEF TypeOK
    <3> HIDE DEF r
    <3>2. [r EXCEPT !.closing = FALSE] \in Bridges
      BY <3>1, Marking
    <3>3. [[r EXCEPT !.closing = FALSE] EXCEPT !.status = "open"] \in Bridges
      BY <3>2, Marking
    <3>4. [r EXCEPT !.closing = FALSE, !.status = "open"] \in Bridges
      BY <3>3
    <3> QED
      BY <3>4 DEF r
  <2>2. ink' \in Bridges /\ lanes' \in {lanes, {}}
    BY <1>8, <2>1 DEF Reopen, TypeOK
  <2>3. actor' \in {"reopening", "close", "frame"}
    BY <1>8, AfterTheOpening DEF Reopen
  <2> QED
    BY <1>8, <2>2, <2>3 DEF Reopen, TypeOK
<1>9. CASE Reopening
  <2>1. /\ ink' \in Bridges /\ canvas' \in {canvas, "active"} /\ location' \in Paths
        /\ disk' \in [Paths -> [project : Contents, image : Contents]]
    <3>1. CASE Opens(location, ink)
      BY <3>1, Opening DEF TypeOK
    <3>2. CASE ink' = CloseResult(BeginClose(Broken(ink))) /\ canvas' = canvas
               /\ UNCHANGED <<location, disk>>
      BY <3>2, Bridging DEF TypeOK
    <3> QED
      BY <1>9, <3>1, <3>2 DEF Reopening
  <2>2. actor' \in {"close", "frame"} /\ closing' \in BOOLEAN
    BY <1>9, <2>1, AfterTheOpening DEF Reopening, Bridges
  <2> QED
    BY <1>9, <2>1, <2>2 DEF Reopening, TypeOK
<1>10. CASE PollClose
  <2>1. ink' \in Bridges /\ closer' \in {closer, "none"} /\ NoWork \in Batches
    BY <1>10, Bridging, NothingAsked DEF PollClose, TypeOK
  <2> QED
    BY <1>10, <2>1 DEF PollClose, TypeOK
<1>11. CASE FinishSaveAs
  <2>1. /\ ink' \in Bridges /\ canvas' \in {"active", "failed"} /\ location' \in Paths
        /\ disk' \in [Paths -> [project : Contents, image : Contents]]
    <3>1. /\ Finish(ink) \in Bridges /\ Finish(Reset(ink)) \in Bridges
          /\ [Finish(Reset(ink)) EXCEPT !.export = ink.export] \in Bridges
      <4>1. Finish(ink) \in Bridges /\ Finish(Reset(ink)) \in Bridges /\ ink.export \in BOOLEAN
        BY Bridging DEF TypeOK, Bridges
      <4> QED
        BY <4>1, Marking
    <3>2. CASE ink.broken
      BY <1>11, <3>1, <3>2 DEF FinishSaveAs, TypeOK
    <3>3. CASE Reopens([Finish(Reset(ink)) EXCEPT !.export = ink.export])
      BY <3>1, <3>3, Again DEF TypeOK, Copied
    <3>4. CASE saver.step = "done" /\ Opens(saver.target, Finish(Reset(ink)))
      <4>1. saver.target \in Paths
        BY <3>4 DEF Copied
      <4> QED
        BY <3>1, <3>4, <4>1, Opening
    <3> QED
      BY <1>11, <3>2, <3>3, <3>4 DEF FinishSaveAs
  <2>2. lanes' \in {lanes, {}} /\ NoSave \in Savers
    BY <1>11 DEF FinishSaveAs, NoSave, Savers
  <2> QED
    BY <1>11, <2>1, <2>2 DEF FinishSaveAs, TypeOK
<1>12. CASE Draw
  <2>1. ink' \in Bridges /\ NoWork \in Batches
    <3>1. NoWork \in Batches
      BY NothingAsked
    <3>2. [ink EXCEPT !.shown = location] \in Bridges
      BY Marking DEF TypeOK
    <3> QED
      BY <1>12, <3>1, <3>2 DEF Draw, TypeOK
  <2>2. lanes' \subseteq Works /\ drawn' \subseteq Works
    BY <1>12 DEF Draw, TypeOK
  <2> QED
    BY <1>12, <2>1, <2>2 DEF Draw, TypeOK
<1>13. CASE Tell \/ EndActor
  <2>1. [Broken(ink) EXCEPT !.status = "failed"] \in Bridges
    BY Bridging, Marking DEF TypeOK
  <2> QED
    BY <1>13, <2>1 DEF Tell, EndActor, TypeOK
<1>14. CASE Panic
  <2> DEFINE bridge == IF actor = "switch" THEN Finish(ink) ELSE ink
  <2>1. bridge \in Bridges /\ NoWork \in Batches
    BY Bridging, NothingAsked DEF TypeOK
  <2> HIDE DEF bridge
  <2>2. CASE Drain(bridge)
    <3>1. /\ ink' \in Bridges /\ Quiet' /\ reported' \subseteq Works
          /\ disk' \in [Paths -> [project : Contents, image : Contents]]
      BY <2>1, <2>2, Draining DEF Copied
    <3> QED
      BY <1>14, <2>1, <3>1 DEF Panic, TypeOK, Quiet
  <2>3. CASE ink' = bridge /\ UNCHANGED <<work, disk>>
    BY <1>14, <2>1, <2>3 DEF Panic, TypeOK
  <2> QED
    BY <1>14, <2>2, <2>3 DEF Panic, bridge
<1> QED
  BY <1>1, <1>2, <1>3, <1>4, <1>5, <1>6, <1>7, <1>8, <1>9, <1>10, <1>11, <1>12, <1>13, <1>14
     DEF Actor

(* A copy publishes its image, then its project.                            *)
LEMMA Order == First = "image" /\ Second = "project"
BY DEF First, Second

LEMMA Published ==
  ASSUME TypeOK, Copied, saver.step # "none"
  PROVE  /\ Linked("image") = [disk EXCEPT ![saver.target] =
                [project |-> disk[saver.target].project, image |-> disk[saver.source].project]]
         /\ Linked("project") = [disk EXCEPT ![saver.target] =
                [project |-> disk[saver.source].project, image |-> disk[saver.target].image]]
<1>1. saver.target \in Paths /\ disk[saver.target] \in [project : Contents, image : Contents]
  BY DEF Copied, TypeOK
<1>2. /\ Linked("image") = [disk EXCEPT ![saver.target] =
                               [disk[saver.target] EXCEPT !.image = disk[saver.source].project]]
      /\ Linked("project") = [disk EXCEPT ![saver.target] =
                               [disk[saver.target] EXCEPT !.project = disk[saver.source].project]]
  BY DEF Linked
<1> QED
  BY <1>1, <1>2, Rewritten

LEMMA Intruded ==
  ASSUME TypeOK, Copied, NEW kind \in {"project", "image"}, Intrude(kind)
  PROVE  /\ saver.target \in Paths
         /\ \/ /\ kind = "image" /\ disk[saver.target].image = None
               /\ disk' = [disk EXCEPT ![saver.target] =
                             [project |-> disk[saver.target].project, image |-> Foreign]]
            \/ /\ kind = "project" /\ disk[saver.target].project = None
               /\ disk' = [disk EXCEPT ![saver.target] =
                             [project |-> Foreign, image |-> disk[saver.target].image]]
<1>1. saver.target \in Paths /\ disk[saver.target] \in [project : Contents, image : Contents]
  BY DEF Copied, TypeOK, Intrude
<1>2. CASE kind = "image"
  <2>1. disk' = [disk EXCEPT ![saver.target] = [disk[saver.target] EXCEPT !.image = Foreign]]
    BY <1>2 DEF Intrude
  <2> QED
    BY <1>1, <1>2, <2>1, Rewritten DEF Intrude
<1>3. CASE kind = "project"
  <2>1. disk' = [disk EXCEPT ![saver.target] = [disk[saver.target] EXCEPT !.project = Foreign]]
    BY <1>3 DEF Intrude
  <2> QED
    BY <1>1, <1>3, <2>1, Rewritten DEF Intrude
<1> QED
  BY <1>2, <1>3

LEMMA WorkerTypes ==
  ASSUME TypeOK, Copied,
         Workers \/ SaverPanics \/ (\E kind \in {"project", "image"} : Intrude(kind))
  PROVE  TypeOK'
<1> USE DEF user, inputs, work, scene, workers
<1>1. CASE CloserDrains \/ SaverDrains
  <2>1. Drain(ink)
    BY <1>1 DEF CloserDrains, SaverDrains
  <2>2. /\ ink' \in Bridges /\ Quiet' /\ reported' \subseteq Works
        /\ disk' \in [Paths -> [project : Contents, image : Contents]]
    BY <2>1, Draining DEF Copied, TypeOK
  <2>3. Refused \in Savers /\ Copying \in Savers
    BY DEF Refused, Copying, Savers, TypeOK
  <2> QED
    BY <1>1, <2>2, <2>3 DEF CloserDrains, SaverDrains, TypeOK, Quiet
<1>2. CASE Copy \/ SaverPanics
  <2>1. saver' \in Savers
    BY <1>2 DEF Copy, SaverPanics, Refused, Savers, TypeOK
  <2>2. ink' \in Bridges
    BY <1>2, Bridging DEF Copy, SaverPanics, TypeOK
  <2> QED
    BY <1>2, <2>1, <2>2 DEF Copy, SaverPanics, TypeOK
<1>3. ASSUME NEW kind \in {"project", "image"}, NEW from \in {"staged", "linked"},
             NEW to \in {"linked", "done"}, Publish(kind, from, to)
      PROVE  TypeOK'
  <2>1. saver' \in Savers
    BY <1>3 DEF Publish, Refused, Savers, TypeOK
  <2>2. disk' \in [Paths -> [project : Contents, image : Contents]]
    <3>1. CASE disk' = disk
      BY <3>1 DEF TypeOK
    <3>2. CASE disk' = Linked(kind)
      <4>1. saver.target \in Paths /\ saver.source \in Paths /\ saver.step # "none"
        BY <1>3 DEF Publish, Copied
      <4>2. /\ disk[saver.target] \in [project : Contents, image : Contents]
            /\ disk[saver.source] \in [project : Contents, image : Contents]
        BY <4>1 DEF TypeOK
      <4>3. CASE kind = "image"
        BY <3>2, <4>1, <4>2, <4>3, Published DEF TypeOK
      <4>4. CASE kind = "project"
        BY <3>2, <4>1, <4>2, <4>4, Published DEF TypeOK
      <4> QED
        BY <4>3, <4>4
    <3> QED
      BY <1>3, <3>1, <3>2 DEF Publish
  <2> QED
    BY <1>3, <2>1, <2>2 DEF Publish, TypeOK
<1>4. ASSUME NEW kind \in {"project", "image"}, Intrude(kind)
      PROVE  TypeOK'
  <2>1. disk' \in [Paths -> [project : Contents, image : Contents]]
    <3>1. Foreign \in Contents /\ disk[saver.target] \in [project : Contents, image : Contents]
      BY <1>4, Intruded DEF Contents, TypeOK
    <3>2. \/ disk' = [disk EXCEPT ![saver.target] = [project |-> disk[saver.target].project, image |-> Foreign]]
          \/ disk' = [disk EXCEPT ![saver.target] = [project |-> Foreign, image |-> disk[saver.target].image]]
      BY <1>4, Intruded
    <3> QED
      BY <3>1, <3>2 DEF TypeOK
  <2> QED
    BY <1>4, <2>1 DEF Intrude, TypeOK
<1> QED
  BY <1>1, <1>2, <1>3, <1>4, Order DEF Workers

LEMMA TypesAreKept ==
  ASSUME TypeOK, Staged, Copied, [Next]_vars
  PROVE  TypeOK'
<1>1. CASE UNCHANGED vars
  BY <1>1 DEF vars, inputs, work, scene, workers, user, TypeOK
<1> QED
  BY <1>1, UserTypes, MessageTypes, ActorTypes, WorkerTypes DEF Next

-----------------------------------------------------------------------------
(* Where the actor is in its batch, and what was asked.                     *)
LEMMA Stage ==
  ASSUME NEW b \in Batches, NEW k \in {1, 2, 5}
  PROVE  /\ From(k, b) = "activate" => b.activations # <<>>
         /\ From(k, b) = "retire" => b.retire
         /\ From(k, b) = "reopen" => b.reopen
         /\ From(k, b) = "close" => b.close
         /\ From(k, b) # "switch"
BY FromTheStart, AfterTheSave, AfterTheOpening

LEMMA StagedIsKept ==
  ASSUME TypeOK, Staged, Copied, [Next]_vars
  PROVE  Staged'
<1> USE DEF user, inputs, work, scene, workers
<1>0. TypeOK'
  BY TypesAreKept
<1>1. ASSUME UNCHANGED <<asked, inbox, batch, actor>>, pend'.activations = pend.activations
      PROVE  Staged'
  BY <1>1 DEF Staged, Known
<1>2. CASE UNCHANGED vars
  BY <1>1, <1>2 DEF vars
<1>3. CASE Admit \/ AskClose \/ AskReopen \/ Teardown \/ (\E path \in Paths : SaveAs(path))
  BY <1>1, <1>3 DEF Admit, AskClose, AskReopen, Teardown, SaveAs, Wake, TypeOK, Batches
<1>4. ASSUME NEW path \in Openable, Request(path)
      PROVE  Staged'
  <2>1. /\ inbox \in Seq(Nat) /\ asked \in Seq(Paths) /\ path \in Paths
        /\ asked' = Append(asked, path) /\ inbox' = Append(inbox, Len(asked) + 1)
    BY <1>4, HostAssumption DEF Request, TypeOK
  <2>2. DOMAIN asked' = DOMAIN asked \cup {Len(asked) + 1}
    BY <2>1
  <2>3. \A i \in DOMAIN inbox' : inbox'[i] \in DOMAIN asked'
    BY <2>1, <2>2 DEF Staged, Known
  <2> QED
    BY <1>4, <2>2, <2>3 DEF Request, Staged, Known
<1>5. CASE Confirm \/ Timer \/ ExitGuard \/ WmClose \/ ChildClose \/ ChildReopen \/ ChildSaveAs
  BY <1>1, <1>5 DEF Confirm, Timer, ExitGuard, WmClose, ChildClose, ChildReopen, ChildSaveAs,
     Wake, TypeOK, Batches
<1>6. CASE ProcessActivation
  <2>1. CASE UNCHANGED <<inbox, pend>>
    BY <1>1, <1>6, <2>1 DEF ProcessActivation
  <2>2. CASE inbox # <<>> /\ inbox' = Tail(inbox)
             /\ (pend' = pend \/ pend' = [Wake(pend) EXCEPT !.activations = Append(@, Head(inbox))])
    <3>1. inbox \in Seq(Nat) /\ Len(inbox) > 0 /\ pend.activations \in Seq(Nat)
      BY <2>2 DEF TypeOK, Batches
    <3>2. Head(inbox) \in DOMAIN asked /\ Head(inbox) \in Nat
      BY <3>1 DEF Staged, Known
    <3>3. Known(Tail(inbox))
      BY <3>1 DEF Staged, Known
    <3>4. Known(Append(pend.activations, Head(inbox)))
      BY <3>1, <3>2 DEF Staged, Known
    <3>5. pend'.activations \in {pend.activations, Append(pend.activations, Head(inbox))}
      BY <2>2 DEF Wake, TypeOK, Batches
    <3>6. Known(inbox)' /\ Known(pend.activations)'
      BY <1>6, <2>2, <3>3, <3>4, <3>5 DEF ProcessActivation, Staged, Known
    <3> QED
      BY <1>6, <3>6 DEF ProcessActivation, Staged, Known
  <2> QED
    BY <1>6, <2>1, <2>2 DEF ProcessActivation
<1>7. CASE StartActor \/ Retire \/ Join \/ Close \/ PollClose \/ FinishSaveAs \/ Draw \/ Tell \/ EndActor \/ Panic
  <2>1. NoWork.activations = <<>> /\ Known(<<>>)
    BY DEF NoWork, Known
  <2> QED
    BY <1>7, <2>1 DEF StartActor, Retire, Join, Close, PollClose, FinishSaveAs, Draw, Tell, EndActor, Panic,
       Staged, Known
<1>8. CASE TakeBatch
  <2>1. /\ NoWork.activations = <<>> /\ Known(<<>>)
        /\ pend'.activations = <<>> /\ batch'.activations = pend.activations
    BY <1>8 DEF NoWork, Known, TakeBatch, TypeOK, Batches
  <2> QED
    BY <1>0, <1>8, <2>1, Stage DEF TakeBatch, Staged, Known, TypeOK
<1>9. CASE BeginSaveAs \/ Reopen \/ Reopening
  BY <1>9, Stage DEF BeginSaveAs, Reopen, Reopening, Staged, Known, TypeOK
<1>10. CASE Activate \/ Switch
  <2>1. CASE Settled
    <3>1. Known(Tail(batch.activations)) /\ batch'.activations = Tail(batch.activations)
      BY <1>10, <2>1, Targets DEF Activate, Switch, Staged, Settled, TypeOK, Batches
    <3> QED
      BY <1>0, <1>10, <2>1, <3>1, Stage DEF Activate, Switch, Settled, Staged, Known, TypeOK
  <2>2. CASE ~Settled
    BY <1>10, <2>2 DEF Activate, Switch, Staged, Known
  <2> QED
    BY <2>1, <2>2
<1>11. CASE Workers \/ SaverPanics \/ (\E kind \in {"project", "image"} : Intrude(kind))
  BY <1>1, <1>11 DEF Workers, SaverPanics, Intrude, CloserDrains, SaverDrains, Copy, Publish
<1> QED
  BY <1>2, <1>3, <1>4, <1>5, <1>6, <1>7, <1>8, <1>9, <1>10, <1>11 DEF Next, User, Messages, Actor

-----------------------------------------------------------------------------
(* One hold of admission: a Save As asked for, a Save As under way, or an   *)
(* opening.                                                                 *)
LEMMA SavesAreKept ==
  ASSUME TypeOK, Copied, SavesAreExclusive, [Next]_vars
  PROVE  SavesAreExclusive'
<1> USE DEF user, inputs, work, scene, workers
<1>1. ASSUME ink'.path = ink.path, ink'.saving = ink.saving,
             saver'.step = "none" <=> saver.step = "none",
             actor' = "switch" <=> actor = "switch"
      PROVE  SavesAreExclusive'
  BY <1>1 DEF SavesAreExclusive
<1>2. CASE UNCHANGED vars
  BY <1>1, <1>2 DEF vars
<1>3. CASE Admit \/ AskClose \/ AskReopen \/ (\E path \in Openable : Request(path))
           \/ ProcessActivation \/ ChildReopen \/ ChildSaveAs \/ Timer \/ ExitGuard
  BY <1>1, <1>3 DEF Admit, AskClose, AskReopen, Request, ProcessActivation, ChildReopen, ChildSaveAs,
     Timer, ExitGuard
<1>4. CASE Teardown \/ Confirm \/ WmClose \/ ChildClose
  <2>1. ink'.path = ink.path /\ ink'.saving = ink.saving
    BY <1>4 DEF Teardown, Confirm, WmClose, ChildClose, Retiring, BeginClose, TypeOK, Bridges
  <2> QED
    BY <1>1, <1>4, <2>1 DEF Teardown, Confirm, WmClose, ChildClose
<1>5. ASSUME NEW path \in Paths, SaveAs(path)
      PROVE  SavesAreExclusive'
  BY <1>5 DEF SaveAs, SavesAreExclusive, TypeOK, Bridges
<1>6. CASE StartActor
  <2>1. ink'.path = ink.path /\ ink'.saving = ink.saving
    <3>1. CASE Reopens(ink)
      <4>1. ink' = ink \/ ink' = Broken(ink)
        BY <3>1, Again DEF TypeOK, Copied
      <4> QED
        BY <4>1 DEF Broken, TypeOK, Bridges
    <3>2. CASE ink' = [Broken(ink) EXCEPT !.status = "failed"]
      BY <3>2 DEF Broken, TypeOK, Bridges
    <3> QED
      BY <1>6, <3>1, <3>2 DEF StartActor
  <2> QED
    BY <1>1, <1>6, <2>1 DEF StartActor
<1>7. CASE TakeBatch
  <2>1. actor' # "switch"
    BY <1>7, TypesAreKept, Stage, Noting, NothingAsked DEF TakeBatch, TypeOK
  <2> QED
    BY <1>7, <2>1 DEF TakeBatch, SavesAreExclusive
<1>8. CASE BeginSaveAs
  <2>1. actor' # "switch"
    BY <1>8, Stage DEF BeginSaveAs, TypeOK
  <2>2. CASE ink.path = None
    BY <1>8, <2>1, <2>2 DEF BeginSaveAs, SavesAreExclusive
  <2>3. CASE ink.path # None
    <3>1. ink.saving /\ saver.step = "none" /\ ink'.path = None
      BY <1>8, <2>3 DEF BeginSaveAs, SavesAreExclusive, Taken, Finish, TypeOK, Bridges
    <3>2. ink'.saving \/ saver' = saver
      BY <1>8, <2>3, <3>1 DEF BeginSaveAs, Taken, TypeOK, Bridges
    <3> QED
      BY <2>1, <3>1, <3>2 DEF SavesAreExclusive
  <2> QED
    BY <2>2, <2>3
<1>9. CASE Activate
  <2>1. CASE Settled /\ UNCHANGED ink
    <3>1. actor' # "switch"
      BY <2>1, AfterTheSave DEF Settled
    <3> QED
      BY <1>9, <2>1, <3>1 DEF Activate, SavesAreExclusive
  <2>2. CASE ~ink.saving /\ (Drain(Held(ink)) \/ ink' = Held(ink)) /\ actor' = "switch"
    <3>1. ink'.saving /\ ink'.path = ink.path
      <4>1. Held(ink) \in Bridges /\ Held(ink).saving /\ Held(ink).path = ink.path
        BY DEF Held, TypeOK, Bridges
      <4> QED
        BY <2>2, <4>1, Draining DEF Copied
    <3> QED
      BY <1>9, <2>2, <3>1 DEF Activate, SavesAreExclusive
  <2> QED
    BY <1>9, <2>1, <2>2 DEF Activate
<1>10. CASE Switch
  <2>1. ink.path = None /\ saver.step = "none" /\ UNCHANGED saver
    BY <1>10 DEF Switch, SavesAreExclusive
  <2>2. actor' # "switch"
    BY <1>10, AfterTheSave DEF Switch, Settled
  <2>3. ink'.path = None
    <3> DEFINE f == Finish(ink)
               r == Finish(Reset(ink))
    <3>1. f \in Bridges /\ f.path = None /\ r \in Bridges /\ r.path = None
      BY <2>1 DEF Finish, Reset, TypeOK, Bridges
    <3>2. Broken(f).path = None /\ Broken(r).path = None
      BY <3>1 DEF Broken, Bridges
    <3>3. ink' = f \/ ink' = r \/ Reopens(f) \/ Reopens(r)
      BY <1>10 DEF Switch, Opens
    <3> HIDE DEF f, r
    <3> QED
      BY <3>1, <3>2, <3>3, Again DEF Copied
  <2> QED
    BY <2>1, <2>2, <2>3 DEF SavesAreExclusive
<1>11. CASE Retire \/ Close \/ PollClose \/ Tell \/ EndActor
  <2>1. ink'.path = ink.path /\ ink'.saving = ink.saving
    BY <1>11 DEF Retire, Close, StartClosing, PollClose, Tell, EndActor, CloseResult, Broken, TypeOK, Bridges
  <2> QED
    BY <1>1, <1>11, <2>1 DEF Retire, Close, StartClosing, PollClose, Tell, EndActor
<1>12. CASE Join
  <2>1. ink'.path = ink.path /\ (saver.step = "none" => ink'.saving = ink.saving)
    BY <1>12 DEF Join, Finish, TypeOK, Bridges
  <2> QED
    BY <1>12, <2>1 DEF Join, NoSave, SavesAreExclusive
<1>13. CASE Reopen
  <2>1. ink'.path = ink.path /\ ink'.saving = ink.saving
    BY <1>13 DEF Reopen, Reset, TypeOK, Bridges
  <2>2. actor' # "switch"
    BY <1>13, Stage DEF Reopen, TypeOK
  <2> QED
    BY <1>1, <1>13, <2>1, <2>2 DEF Reopen
<1>14. CASE Reopening
  <2>1. ink'.path = ink.path /\ ink'.saving = ink.saving
    BY <1>14 DEF Reopening, Opens, CloseResult, BeginClose, Broken, TypeOK, Bridges
  <2>2. actor' # "switch"
    BY <1>14, Stage DEF Reopening, TypeOK
  <2> QED
    BY <1>1, <1>14, <2>1, <2>2 DEF Reopening
<1>15. CASE FinishSaveAs
  <2>1. ink.path = None /\ saver' = NoSave /\ actor' = "drawing"
    BY <1>15 DEF FinishSaveAs, SavesAreExclusive
  <2>2. ink'.path = None
    <3> DEFINE f == Finish(ink)
               r == Finish(Reset(ink))
               e == [Finish(Reset(ink)) EXCEPT !.export = ink.export]
    <3>1. f.path = None /\ r \in Bridges /\ r.path = None /\ ink.export \in BOOLEAN
      BY <2>1 DEF Finish, Reset, TypeOK, Bridges
    <3>2. e \in Bridges /\ e.path = None
      BY <3>1, Marking DEF Bridges
    <3>3. Broken(e).path = None
      BY <3>2 DEF Broken, Bridges
    <3>4. ink' = f \/ ink' = r \/ Reopens(e)
      BY <1>15 DEF FinishSaveAs, Opens
    <3> HIDE DEF f, r, e
    <3> QED
      BY <3>1, <3>2, <3>3, <3>4, Again DEF Copied
  <2> QED
    BY <2>1, <2>2 DEF SavesAreExclusive, NoSave
<1>16. CASE Draw
  <2>1. ink'.path = ink.path /\ ink'.saving = ink.saving
    BY <1>16 DEF Draw, TypeOK, Bridges
  <2> QED
    BY <1>1, <1>16, <2>1 DEF Draw
<1>17. CASE Panic
  <2> DEFINE bridge == IF actor = "switch" THEN Finish(ink) ELSE ink
  <2>1. /\ bridge \in Bridges /\ bridge.path = ink.path
        /\ actor # "switch" => bridge.saving = ink.saving
    BY DEF Finish, TypeOK, Bridges
  <2>2. Drain(bridge) \/ ink' = bridge
    BY <1>17 DEF Panic
  <2> HIDE DEF bridge
  <2>3. ink'.path = bridge.path /\ ink'.saving = bridge.saving
    BY <2>1, <2>2, Draining DEF Copied
  <2> QED
    BY <1>17, <2>1, <2>3 DEF Panic, SavesAreExclusive
<1>18. CASE Workers \/ SaverPanics \/ (\E kind \in {"project", "image"} : Intrude(kind))
  <2>1. ink'.path = ink.path /\ ink'.saving = ink.saving
    <3>1. Drain(ink) \/ UNCHANGED ink \/ ink' = Broken(ink)
      BY <1>18 DEF Workers, SaverPanics, Intrude, CloserDrains, SaverDrains, Copy, Publish
    <3> QED
      BY <3>1, Draining DEF Copied, TypeOK, Broken, Bridges
  <2>2. UNCHANGED actor /\ (saver'.step = "none" <=> saver.step = "none")
    BY <1>18, Order DEF Workers, SaverPanics, Intrude, CloserDrains, SaverDrains, Copy, Publish,
       Refused, Copying, TypeOK, Savers
  <2> QED
    BY <1>1, <2>1, <2>2
<1> QED
  BY <1>2, <1>3, <1>4, <1>5, <1>6, <1>7, <1>8, <1>9, <1>10, <1>11, <1>12, <1>13, <1>14, <1>15,
     <1>16, <1>17, <1>18 DEF Next, User, Messages, Actor

-----------------------------------------------------------------------------
(* Who writes the files.                                                    *)
Writes ==
  \/ UNCHANGED disk
  \/ \E bridge \in Bridges : Drain(bridge)
  \/ \E path \in Paths, bridge \in Bridges : Opens(path, bridge)
  \/ Publish("image", "staged", "linked") \/ Publish("project", "linked", "done")
  \/ \E kind \in {"project", "image"} : Intrude(kind)

LEMMA WhoWrites ==
  ASSUME TypeOK, Staged, Copied, [Next]_vars
  PROVE  Writes
<1> USE DEF user, inputs, work, scene, workers
<1>1. CASE UNCHANGED vars
  BY <1>1 DEF vars, Writes
<1>2. ASSUME NEW bridge, Reopens(bridge)
      PROVE  UNCHANGED disk
  BY <1>2 DEF Reopens, Opens, Opened, FailsToOpen, Copied, IsProject
<1>3. CASE User \/ Messages \/ Confirm \/ Timer \/ ExitGuard
  <2>1. UNCHANGED disk
    BY <1>3 DEF User, Messages, Confirm, Timer, ExitGuard, Admit, AskClose, AskReopen, Teardown, Request,
       SaveAs, ProcessActivation, WmClose, ChildClose, ChildReopen, ChildSaveAs
  <2> QED
    BY <2>1 DEF Writes
<1>4. CASE StartActor \/ Reopening
  <2>1. UNCHANGED disk
    BY <1>4 DEF StartActor, Reopening, Reopens, FailsToOpen, Opens, Opened, Copied, IsProject
  <2> QED
    BY <2>1 DEF Writes
<1>5. CASE Activate
  <2>1. Held(ink) \in Bridges
    BY Bridging DEF TypeOK
  <2>2. UNCHANGED disk \/ Drain(Held(ink))
    BY <1>5 DEF Activate
  <2> QED
    BY <2>1, <2>2 DEF Writes
<1>6. CASE Switch
  <2>1. Finish(Reset(ink)) \in Bridges /\ Target \in Paths
    BY <1>6, Bridging, Targets DEF TypeOK, Switch, Staged
  <2>2. UNCHANGED disk \/ Opens(Target, Finish(Reset(ink)))
    BY <1>2, <1>6 DEF Switch
  <2> QED
    BY <2>1, <2>2 DEF Writes
<1>7. CASE FinishSaveAs
  <2>1. Finish(Reset(ink)) \in Bridges /\ saver.target \in Paths
    BY <1>7, Bridging DEF TypeOK, FinishSaveAs, Copied
  <2>2. UNCHANGED disk \/ Opens(saver.target, Finish(Reset(ink)))
    BY <1>2, <1>7 DEF FinishSaveAs
  <2> QED
    BY <2>1, <2>2 DEF Writes
<1>8. CASE TakeBatch \/ BeginSaveAs \/ Retire \/ Join \/ Reopen \/ Close \/ PollClose \/ Draw \/ Tell \/ EndActor
  <2>1. UNCHANGED disk
    BY <1>8 DEF TakeBatch, BeginSaveAs, Retire, Join, Reopen, Close, PollClose, Draw, Tell, EndActor
  <2> QED
    BY <2>1 DEF Writes
<1>9. CASE Panic
  <2> DEFINE bridge == IF actor = "switch" THEN Finish(ink) ELSE ink
  <2>1. bridge \in Bridges
    BY Bridging DEF TypeOK
  <2>2. UNCHANGED disk \/ Drain(bridge)
    BY <1>9 DEF Panic
  <2> HIDE DEF bridge
  <2> QED
    BY <2>1, <2>2 DEF Writes
<1>10. CASE CloserDrains \/ SaverDrains
  BY <1>10 DEF CloserDrains, SaverDrains, TypeOK, Writes
<1>11. CASE Copy \/ SaverPanics
  BY <1>11 DEF Copy, SaverPanics, Writes
<1>12. CASE Publish(First, "staged", "linked") \/ Publish(Second, "linked", "done")
            \/ \E kind \in {"project", "image"} : Intrude(kind)
  BY <1>12, Order DEF Writes
<1> QED
  BY <1>1, <1>3, <1>4, <1>5, <1>6, <1>7, <1>8, <1>9, <1>10, <1>11, <1>12
     DEF Next, Actor, Workers

(* What each of them writes.                                                *)
LEMMA Publishing ==
  ASSUME TypeOK, Copied, NEW kind \in {"project", "image"}, NEW from \in {"staged", "linked"}, NEW to,
         Publish(kind, from, to)
  PROVE  \/ UNCHANGED disk
         \/ /\ saver.target \in Paths /\ disk[saver.target][kind] = None
            /\ \A p \in Paths : p # saver.target => disk'[p] = disk[p]
            /\ kind = "image" => /\ disk'[saver.target].project = disk[saver.target].project
                                 /\ disk'[saver.target].image = disk[saver.source].project
            /\ kind = "project" => /\ disk'[saver.target].image = disk[saver.target].image
                                   /\ disk'[saver.target].project = disk[saver.source].project
<1>1. CASE UNCHANGED disk
  BY <1>1
<1>2. CASE disk' = Linked(kind) /\ disk[saver.target][kind] = None
  <2>1. saver.target \in Paths /\ saver.step # "none"
    BY DEF Publish, Copied
  <2>2. CASE kind = "image"
    BY <1>2, <2>1, <2>2, Published DEF TypeOK
  <2>3. CASE kind = "project"
    BY <1>2, <2>1, <2>3, Published DEF TypeOK
  <2> QED
    BY <2>2, <2>3
<1> QED
  BY <1>1, <1>2 DEF Publish

LEMMA Intruding ==
  ASSUME TypeOK, Copied, NEW kind \in {"project", "image"}, Intrude(kind)
  PROVE  /\ saver.target \in Paths
         /\ \A p \in Paths : p # saver.target => disk'[p] = disk[p]
         /\ kind = "image" => /\ disk[saver.target].image = None
                              /\ disk'[saver.target].project = disk[saver.target].project
                              /\ disk'[saver.target].image = Foreign
         /\ kind = "project" => /\ disk[saver.target].project = None
                                /\ disk'[saver.target].image = disk[saver.target].image
                                /\ disk'[saver.target].project = Foreign
<1>1. CASE kind = "image"
  BY <1>1, Intruded DEF TypeOK
<1>2. CASE kind = "project"
  BY <1>2, Intruded DEF TypeOK
<1> QED
  BY <1>1, <1>2

(* Projects are never taken away, nor what they hold.                       *)
Grown ==
  \A p \in Paths : IsProject(p) => IsProject(p)' /\ disk[p].project \subseteq disk'[p].project

LEMMA ProjectsGrow ==
  ASSUME TypeOK, Copied, Writes
  PROVE  Grown
<1>1. CASE UNCHANGED disk
  BY <1>1 DEF Grown, IsProject
<1>2. ASSUME NEW bridge \in Bridges, Drain(bridge)
      PROVE  Grown
  BY <1>2, Draining, HostAssumption DEF Grown, Copied, IsProject, TypeOK
<1>3. ASSUME NEW path \in Paths, NEW bridge \in Bridges, Opens(path, bridge)
      PROVE  Grown
  BY <1>3, Opening DEF Grown, IsProject
<1>4. CASE Publish("image", "staged", "linked")
  BY <1>4, Publishing DEF Grown, IsProject
<1>5. CASE Publish("project", "linked", "done")
  BY <1>5, Publishing DEF Grown, IsProject
<1>6. ASSUME NEW kind \in {"project", "image"}, Intrude(kind)
      PROVE  Grown
  BY <1>6, Intruding DEF Grown, IsProject
<1> QED
  BY <1>1, <1>2, <1>3, <1>4, <1>5, <1>6 DEF Writes

(* Between the image and the project, neither changes what was copied.      *)
LEMMA CopyStands ==
  ASSUME TypeOK, Copied, Writes, saver.step = "linked"
  PROVE  /\ disk'[saver.target].image = disk[saver.target].image
         /\ disk'[saver.source].project = disk[saver.source].project
<1>1. /\ saver.target \in Paths /\ saver.source \in Paths /\ IsProject(saver.source) /\ Quiet
      /\ disk[saver.target].image # None
  BY DEF Copied, IsProject
<1>2. ASSUME NEW bridge \in Bridges, Drain(bridge)
      PROVE  UNCHANGED disk
  BY <1>1, <1>2, Draining DEF Copied
<1>3. ASSUME NEW path \in Paths, NEW bridge \in Bridges, Opens(path, bridge)
      PROVE  /\ disk'[saver.target].image = disk[saver.target].image
             /\ disk'[saver.source].project = disk[saver.source].project
  BY <1>1, <1>3, Opening
<1>4. CASE Publish("image", "staged", "linked")
  BY <1>4 DEF Publish
<1>5. CASE Publish("project", "linked", "done")
  BY <1>1, <1>5, Publishing DEF IsProject
<1>6. ASSUME NEW kind \in {"project", "image"}, Intrude(kind)
      PROVE  /\ disk'[saver.target].image = disk[saver.target].image
             /\ disk'[saver.source].project = disk[saver.source].project
  <2>1. kind = "project"
    BY <1>1, <1>6, Intruding
  <2> QED
    BY <1>1, <1>6, <2>1, Intruding DEF IsProject
<1> QED
  BY <1>2, <1>3, <1>4, <1>5, <1>6 DEF Writes

(* While admission is held nothing is added to what there is to drain.      *)
LEMMA NothingIsAdmitted ==
  ASSUME TypeOK, Copied, [Next]_vars, ~Admit, Quiet
  PROVE  Quiet'
<1> USE DEF user, inputs, work, scene, workers
<1>1. ASSUME NEW bridge, Drain(bridge)
      PROVE  Quiet'
  BY <1>1 DEF Drain, Quiet
<1>2. CASE UNCHANGED vars
  BY <1>2 DEF vars, Quiet
<1>3. CASE User \/ Messages \/ Confirm \/ Timer \/ ExitGuard
  BY <1>3 DEF User, Messages, Confirm, Timer, ExitGuard, AskClose, AskReopen, Teardown, Request,
     SaveAs, ProcessActivation, WmClose, ChildClose, ChildReopen, ChildSaveAs, Quiet
<1>4. CASE TakeBatch \/ BeginSaveAs \/ Retire \/ Join \/ Reopen \/ Reopening \/ Close \/ PollClose
           \/ Draw \/ Tell \/ EndActor \/ StartActor
  BY <1>4 DEF TakeBatch, BeginSaveAs, Retire, Join, Reopen, Reopening, Close, PollClose, Draw, Tell,
     EndActor, StartActor, Quiet
<1>5. CASE Activate \/ Panic
  BY <1>1, <1>5 DEF Activate, Panic, Quiet
<1>6. CASE Switch \/ FinishSaveAs
  <2>1. lanes' \in {lanes, {}} /\ UNCHANGED drawn
    BY <1>6 DEF Switch, FinishSaveAs
  <2> QED
    BY <2>1 DEF Quiet
<1>7. CASE CloserDrains \/ SaverDrains
  BY <1>1, <1>7 DEF CloserDrains, SaverDrains
<1>8. CASE Copy \/ SaverPanics \/ (\E kind \in {"project", "image"} : Intrude(kind))
           \/ Publish(First, "staged", "linked") \/ Publish(Second, "linked", "done")
  BY <1>8 DEF Copy, SaverPanics, Intrude, Publish, Quiet
<1> QED
  BY <1>2, <1>3, <1>4, <1>5, <1>6, <1>7, <1>8 DEF Next, Actor, Workers

LEMMA CopiedIsKept ==
  ASSUME TypeOK, Staged, SavesAreExclusive, Copied, [Next]_vars
  PROVE  Copied'
<1> USE DEF user, inputs, work, scene, workers
<1>1. TypeOK' /\ Writes /\ Grown
  BY TypesAreKept, WhoWrites, ProjectsGrow
<1>2. IsProject(location)'
  <2>1. CASE location' = location
    BY <1>1, <2>1 DEF Grown, Copied, IsProject, TypeOK
  <2>2. CASE location' # location
    <3>1. ASSUME NEW bridge, Reopens(bridge)
          PROVE  FALSE
      BY <2>2, <3>1 DEF Reopens, Opens, FailsToOpen
    <3>2. CASE Switch
      <4>1. Opens(Target, Finish(Reset(ink)))
        BY <2>2, <3>1, <3>2 DEF Switch
      <4>2. Finish(Reset(ink)) \in Bridges /\ Target \in Paths
        BY <3>2, Bridging, Targets DEF TypeOK, Switch, Staged
      <4> QED
        BY <4>1, <4>2, Opening DEF IsProject
    <3>3. CASE FinishSaveAs
      <4>1. Opens(saver.target, Finish(Reset(ink)))
        BY <2>2, <3>1, <3>3 DEF FinishSaveAs
      <4>2. Finish(Reset(ink)) \in Bridges /\ saver.target \in Paths
        BY <3>3, Bridging DEF TypeOK, FinishSaveAs, Copied
      <4> QED
        BY <4>1, <4>2, Opening DEF IsProject
    <3>4. CASE StartActor \/ Reopening
      BY <2>2, <3>1, <3>4 DEF StartActor, Reopening, Opens
    <3>5. CASE UNCHANGED vars \/ User \/ Messages \/ Confirm \/ Timer \/ ExitGuard
      BY <2>2, <3>5 DEF vars, User, Messages, Confirm, Timer, ExitGuard, Admit, AskClose, AskReopen, Teardown,
         Request, SaveAs, ProcessActivation, WmClose, ChildClose, ChildReopen, ChildSaveAs
    <3>6. CASE TakeBatch \/ BeginSaveAs \/ Activate \/ Retire \/ Join \/ Reopen \/ Close \/ PollClose
               \/ Draw \/ Tell \/ EndActor \/ Panic
      BY <2>2, <3>6 DEF TakeBatch, BeginSaveAs, Activate, Retire, Join, Reopen, Close, PollClose, Draw,
         Tell, EndActor, Panic
    <3>7. CASE Workers \/ SaverPanics \/ (\E kind \in {"project", "image"} : Intrude(kind))
      BY <2>2, <3>7 DEF Workers, SaverPanics, Intrude, CloserDrains, SaverDrains, Copy, Publish
    <3> QED
      BY <3>2, <3>3, <3>4, <3>5, <3>6, <3>7 DEF Next, Actor
  <2> QED
    BY <2>1, <2>2
<1>3. CASE UNCHANGED saver
  <2>1. saver.step \notin {"none", "draining"} => Quiet'
    BY <1>3, NothingIsAdmitted DEF Copied, SavesAreExclusive, Admit
  <2>2. saver.step = "linked" => disk'[saver.target].image = disk'[saver.source].project
    BY <1>1, CopyStands DEF Copied
  <2> QED
    BY <1>1, <1>2, <1>3, <2>1, <2>2 DEF Copied, Grown
<1>4. CASE saver'.step = "none"
  BY <1>2, <1>4 DEF Copied
<1>5. CASE BeginSaveAs /\ saver' # saver
  <2>1. /\ saver' = [step |-> "draining", source |-> location, target |-> ink.path]
        /\ ink.path \in Paths
    BY <1>5 DEF BeginSaveAs, TypeOK, Bridges
  <2> QED
    BY <1>1, <1>2, <2>1 DEF Copied, Grown, TypeOK
<1>6. CASE SaverDrains
  <2>1. saver'.step \in {"refused", "copying"} /\ saver'.source = saver.source /\ saver'.target = saver.target
    BY <1>6 DEF SaverDrains, Refused, Copying, TypeOK, Savers
  <2>2. Quiet'
    BY <1>6 DEF SaverDrains, Drain, Quiet
  <2> QED
    BY <1>1, <1>2, <1>6, <2>1, <2>2 DEF Copied, Grown, SaverDrains
<1>7. CASE Copy \/ SaverPanics
  <2>1. /\ saver'.step \in {"refused", "staged"} /\ saver'.source = saver.source /\ saver'.target = saver.target
        /\ saver.step \in {"copying", "staged", "linked"} /\ UNCHANGED <<lanes, drawn>>
    BY <1>7 DEF Copy, SaverPanics, Refused, TypeOK, Savers
  <2> QED
    BY <1>1, <1>2, <2>1 DEF Copied, Grown, Quiet
<1>8. CASE Publish("image", "staged", "linked")
  <2>1. /\ saver'.step \in {"refused", "linked"} /\ saver'.source = saver.source /\ saver'.target = saver.target
        /\ saver.step = "staged" /\ UNCHANGED <<lanes, drawn>>
        /\ saver'.step = "linked" => disk[saver.target].image = None /\ disk' = Linked("image")
    BY <1>8 DEF Publish, Refused, TypeOK, Savers
  <2>2. saver'.step = "linked" => disk'[saver.target].image = disk'[saver.source].project
    BY <2>1, Published DEF Copied, TypeOK
  <2> QED
    BY <1>1, <1>2, <2>1, <2>2 DEF Copied, Grown, Quiet
<1>9. CASE Publish("project", "linked", "done")
  <2>1. /\ saver'.step \in {"refused", "done"} /\ saver'.source = saver.source /\ saver'.target = saver.target
        /\ saver.step = "linked" /\ UNCHANGED <<lanes, drawn>>
    BY <1>9 DEF Publish, Refused, TypeOK, Savers
  <2> QED
    BY <1>1, <1>2, <2>1 DEF Copied, Grown, Quiet
<1>10. CASE Join \/ FinishSaveAs
  BY <1>4, <1>10 DEF Join, FinishSaveAs, NoSave
<1>11. CASE Next /\ ~BeginSaveAs /\ ~Join /\ ~FinishSaveAs /\ ~SaverDrains /\ ~Copy /\ ~SaverPanics
            /\ ~Publish("image", "staged", "linked") /\ ~Publish("project", "linked", "done")
  <2>1. UNCHANGED saver
    <3>1. CASE User \/ Messages \/ Confirm \/ Timer \/ ExitGuard
      BY <3>1 DEF User, Messages, Confirm, Timer, ExitGuard, Admit, AskClose, AskReopen, Teardown,
         Request, SaveAs, ProcessActivation, WmClose, ChildClose, ChildReopen, ChildSaveAs
    <3>2. CASE StartActor \/ TakeBatch \/ Activate \/ Switch \/ Retire \/ Reopen \/ Reopening \/ Close
               \/ PollClose \/ Draw \/ Tell \/ EndActor \/ Panic
      BY <3>2 DEF StartActor, TakeBatch, Activate, Switch, Retire, Reopen, Reopening, Close, PollClose,
         Draw, Tell, EndActor, Panic
    <3>3. CASE CloserDrains \/ (\E kind \in {"project", "image"} : Intrude(kind))
      BY <3>3 DEF CloserDrains, Intrude
    <3> QED
      BY <1>11, <3>1, <3>2, <3>3, Order DEF Next, Actor, Workers
  <2> QED
    BY <1>3, <2>1
<1>12. CASE UNCHANGED vars
  BY <1>3, <1>12 DEF vars
<1> QED
  BY <1>3, <1>5, <1>6, <1>7, <1>8, <1>9, <1>10, <1>11, <1>12

LEMMA BaseIsKept ==
  ASSUME Base, [Next]_vars
  PROVE  Base'
BY TypesAreKept, StagedIsKept, SavesAreKept, CopiedIsKept DEF Base

LEMMA BaseAtTheStart ==
  ASSUME Init
  PROVE  Base
<1>1. /\ Start \in Paths /\ Existing \subseteq Paths /\ None # Foreign /\ None \notin Paths
      /\ {} # None /\ {} # Foreign
  BY HostAssumption
<1>2. ink \in Bridges
  BY DEF Init, Bridges
<1>3. NoSave \in Savers
  BY DEF NoSave, Savers
<1>4. made \in Counts
  BY DEF Init, Counts
<1>5. /\ disk \in [Paths -> [project : Contents, image : Contents]]
      /\ disk[location].project = {}
  <2>1. {} \in Contents /\ None \in Contents
    BY DEF Contents
  <2>2. \A p \in Paths : (IF p \in Existing THEN {} ELSE None) \in Contents
    BY <2>1
  <2>3. location \in Paths /\ location \in Existing
    BY <1>1, HostAssumption DEF Init
  <2>4. disk = [p \in Paths |-> [project |-> IF p \in Existing THEN {} ELSE None, image |-> None]]
    BY DEF Init
  <2>5. disk \in [Paths -> [project : Contents, image : Contents]]
    BY <2>1, <2>2, <2>4
  <2> QED
    BY <2>3, <2>4, <2>5
<1>6. inbox \in Seq(Nat) /\ asked \in Seq(Paths)
  BY DEF Init
<1>7. TypeOK
  BY <1>1, <1>2, <1>3, <1>4, <1>5, <1>6, NothingAsked DEF Init, TypeOK
<1>8. Staged
  BY DEF Init, Staged, Known, NoWork
<1>9. SavesAreExclusive /\ Copied
  BY <1>1, <1>5 DEF Init, SavesAreExclusive, Copied, NoSave, IsProject
<1> QED
  BY <1>7, <1>8, <1>9 DEF Base

(* Whatever happens, types, stages, holds and copies are as they should be. *)
THEOREM BaseHolds == Spec => []Base
<1>1. Base /\ [Next]_vars => Base'
  BY BaseIsKept
<1> QED
  BY <1>1, BaseAtTheStart, PTL DEF Spec

-----------------------------------------------------------------------------
(* For any paths, and any number of requests, failures and writers: a       *)
(* project that a Save As (save_as::copy_closed_project) publishes has its  *)
(* image beside it, and what another process wrote there stays.             *)
THEOREM PublishedCopiesAreWhole == Spec => CopiesAreWhole
<1>1. ASSUME Base, [Next]_vars
      PROVE  \A p \in Paths : disk'[p] # disk[p] =>
               /\ \A kind \in {"project", "image"} : disk[p][kind] = Foreign => disk'[p][kind] = Foreign
               /\ (disk[p].project = None /\ disk'[p].project \notin {None, Foreign, {}})
                    => disk[p].image = disk'[p].project
  <2> SUFFICES ASSUME NEW p \in Paths, disk'[p] # disk[p]
               PROVE  /\ disk[p].project = Foreign => disk'[p].project = Foreign
                      /\ disk[p].image = Foreign => disk'[p].image = Foreign
                      /\ (disk[p].project = None /\ disk'[p].project \notin {None, Foreign, {}})
                           => disk[p].image = disk'[p].project
    OBVIOUS
  <2>1. TypeOK /\ Copied /\ Writes /\ None # Foreign
    BY <1>1, WhoWrites, HostAssumption DEF Base
  <2>2. ASSUME NEW bridge \in Bridges, Drain(bridge)
        PROVE  /\ p = location /\ IsProject(p) /\ disk'[p].image = disk[p].image
    BY <2>1, <2>2, Draining DEF Copied
  <2>3. ASSUME NEW path \in Paths, NEW bridge \in Bridges, Opens(path, bridge)
        PROVE  /\ disk'[p].image = disk[p].image /\ disk[p].project # Foreign
               /\ disk[p].project = None => disk'[p].project \in {None, {}}
    BY <2>1, <2>3, Opening
  <2>4. CASE Publish("image", "staged", "linked")
    BY <2>1, <2>4, Publishing
  <2>5. CASE Publish("project", "linked", "done")
    <3>1. /\ p = saver.target /\ disk[p].project = None /\ disk'[p].image = disk[p].image
          /\ disk'[p].project = disk[saver.source].project
      BY <2>1, <2>5, Publishing
    <3>2. disk[p].image = disk[saver.source].project
      BY <2>1, <2>5, <3>1 DEF Copied, Publish
    <3> QED
      BY <2>1, <3>1, <3>2
  <2>6. ASSUME NEW kind \in {"project", "image"}, Intrude(kind)
        PROVE  /\ p = saver.target
               /\ \/ disk[p].project = None /\ disk'[p].project = Foreign /\ disk'[p].image = disk[p].image
                  \/ disk[p].image = None /\ disk'[p].image = Foreign /\ disk'[p].project = disk[p].project
    BY <2>1, <2>6, Intruding
  <2> QED
    BY <2>1, <2>2, <2>3, <2>4, <2>5, <2>6 DEF Writes, IsProject
<1>2. []Base /\ [][Next]_vars => CopiesAreWhole
  BY <1>1, PTL DEF CopiesAreWhole
<1> QED
  BY <1>2, BaseHolds, PTL DEF Spec

-----------------------------------------------------------------------------
(* Reopenings: a request for one is in one place at a time, and once it was *)
(* carried out there is none any more.                                      *)
LEMMA Requests ==
  ASSUME TypeOK, Next
  PROVE  /\ made.reopens \in Nat /\ made.work \in Nat
         /\ made'.reopens \in {made.reopens, made.reopens + 1}
         /\ made'.work # made.work => Admit /\ made'.work = made.work + 1
<1> USE DEF user, inputs, work, scene, workers
<1>0. made \in Counts /\ made.reopens \in Nat /\ made.work \in Nat
  BY DEF TypeOK, Counts
<1>1. CASE Admit
  BY <1>0, <1>1 DEF Admit, Counts
<1>2. CASE (\E path \in Openable : Request(path)) \/ (\E path \in Paths : SaveAs(path)) \/ Teardown
  <2>1. Ask
    BY <1>2 DEF Request, SaveAs, Teardown
  <2> QED
    BY <1>0, <2>1 DEF Ask, Counts
<1>3. CASE AskReopen
  <2>1. made' = [made EXCEPT !.asks = @ + 1, !.reopens = @ + 1]
    BY <1>3 DEF AskReopen
  <2> QED
    BY <1>0, <2>1, Counting
<1>4. CASE AskClose
  <2>1. CASE Ask
    BY <1>0, <2>1 DEF Ask, Counts
  <2>2. CASE made' = [made EXCEPT !.asks = @ + 1, !.reopens = @ + 1] /\ restart' = TRUE
    BY <1>0, <2>2, Counting
  <2> QED
    BY <1>4, <2>1, <2>2 DEF AskClose
<1>5. CASE UNCHANGED made
  BY <1>0, <1>5 DEF Counts
<1>6. CASE Messages \/ Confirm \/ Timer \/ ExitGuard
  BY <1>5, <1>6 DEF Messages, Confirm, Timer, ExitGuard, ProcessActivation, WmClose, ChildClose,
     ChildReopen, ChildSaveAs
<1>7. CASE Actor \/ Panic
  BY <1>5, <1>7 DEF Actor, StartActor, TakeBatch, BeginSaveAs, Activate, Switch, Retire, Join, Reopen,
     Reopening, Close, PollClose, FinishSaveAs, Draw, Tell, EndActor, Panic
<1>8. CASE Workers \/ SaverPanics \/ (\E kind \in {"project", "image"} : Intrude(kind))
  BY <1>5, <1>8 DEF Workers, SaverPanics, Intrude, CloserDrains, SaverDrains, Copy, Publish
<1> QED
  BY <1>1, <1>2, <1>3, <1>4, <1>6, <1>7, <1>8 DEF Next, User

LEMMA ReopeningsAreKept ==
  ASSUME Base, Once, Next, made'.reopens <= 1
  PROVE  OneReopening' /\ (Fresh' => Fresh)
<1> USE DEF user, inputs, work, scene, workers
<1>0. /\ TypeOK /\ OneReopening /\ pend \in Batches /\ batch \in Batches
      /\ made.reopens \in Nat
      /\ made'.reopens = made.reopens \/ (made'.reopens = 1 /\ made.reopens = 0)
  <2>1. TypeOK /\ OneReopening /\ pend \in Batches /\ batch \in Batches
    BY DEF Base, Once, TypeOK
  <2> QED
    BY <2>1, Requests
<1>1. ASSUME UNCHANGED <<restart, batch, actor>>, made'.reopens = made.reopens,
             "reopen" \in posted' <=> "reopen" \in posted, pend'.reopen = pend.reopen
      PROVE  OneReopening' /\ (Fresh' => Fresh)
  BY <1>0, <1>1 DEF OneReopening, Fresh, R1, R2, R3, R4
<1>2. ASSUME Admit \/ (\E path \in Openable : Request(path)) \/ (\E path \in Paths : SaveAs(path))
             \/ Teardown \/ ExitGuard \/ Confirm \/ ProcessActivation \/ ChildClose \/ ChildSaveAs
      PROVE  OneReopening' /\ (Fresh' => Fresh)
  <2>1. pend'.reopen = pend.reopen
    BY <1>0, <1>2 DEF Admit, Request, SaveAs, Teardown, ExitGuard, Confirm, ProcessActivation, ChildClose,
       ChildSaveAs, Wake, Batches
  <2>2. made'.reopens = made.reopens
    <3>1. made \in Counts
      BY <1>0 DEF TypeOK
    <3>2. Ask \/ UNCHANGED made \/ Admit
      BY <1>2 DEF Request, SaveAs, Teardown, ExitGuard, Confirm, ProcessActivation, ChildClose, ChildSaveAs
    <3> QED
      BY <3>1, <3>2 DEF Ask, Admit, Counts
  <2>3. "reopen" \in posted' <=> "reopen" \in posted
    BY <1>2 DEF Admit, Request, SaveAs, Teardown, ExitGuard, Confirm, ProcessActivation, ChildClose,
       ChildSaveAs
  <2> QED
    BY <1>1, <1>2, <2>1, <2>2, <2>3 DEF Admit, Request, SaveAs, Teardown, ExitGuard, Confirm, ProcessActivation, ChildClose,
       ChildSaveAs
<1>3. CASE AskClose
  <2>1. /\ UNCHANGED <<pend, batch, actor>> /\ posted' = posted \cup {"wmClose"}
        /\ \/ made'.reopens = made.reopens /\ UNCHANGED restart
           \/ made'.reopens = made.reopens + 1 /\ restart'
    <3>1. made \in Counts
      BY <1>0 DEF TypeOK
    <3>2. CASE Ask /\ UNCHANGED restart
      BY <1>3, <3>1, <3>2 DEF AskClose, Ask, Counts
    <3>3. CASE made' = [made EXCEPT !.asks = @ + 1, !.reopens = @ + 1] /\ restart' = TRUE
      BY <1>3, <3>1, <3>3, Counting DEF AskClose
    <3> QED
      BY <1>3, <3>2, <3>3 DEF AskClose
  <2> QED
    BY <1>0, <2>1 DEF OneReopening, Fresh, R1, R2, R3, R4
<1>4. CASE AskReopen
  <2>1. /\ UNCHANGED <<pend, batch, actor, restart>> /\ posted' = posted \cup {"reopen"}
        /\ made'.reopens = made.reopens + 1
    <3>1. made \in Counts /\ made' = [made EXCEPT !.asks = @ + 1, !.reopens = @ + 1]
      BY <1>0, <1>4 DEF TypeOK, AskReopen
    <3>2. made'.reopens = made.reopens + 1
      BY <3>1, Counting
    <3> QED
      BY <1>4, <3>2 DEF AskReopen
  <2> QED
    BY <1>0, <2>1 DEF OneReopening, Fresh, R1, R2, R3, R4
<1>5. CASE WmClose
  <2>1. /\ UNCHANGED <<batch, actor, made>> /\ pend'.reopen = pend.reopen
        /\ \/ (restart' => restart) /\ ("reopen" \in posted' <=> "reopen" \in posted)
           \/ restart /\ ~restart' /\ "reopen" \in posted'
    <3>1. UNCHANGED <<batch, actor, made>> /\ pend'.reopen = pend.reopen
      BY <1>0, <1>5 DEF WmClose, Wake, Batches
    <3>2. restart' = restart \/ ~restart'
      BY <1>5 DEF WmClose
    <3>3. ("reopen" \in posted' <=> "reopen" \in posted) \/ (restart /\ ~restart' /\ "reopen" \in posted')
      BY <1>5 DEF WmClose
    <3> QED
      BY <3>1, <3>2, <3>3
  <2> QED
    BY <1>0, <2>1 DEF OneReopening, Fresh, R1, R2, R3, R4
<1>6. CASE ChildReopen
  <2>1. /\ UNCHANGED <<batch, actor, made, restart>> /\ "reopen" \in posted
        /\ posted' = posted \ {"reopen"} /\ pend'.reopen \in {pend.reopen, TRUE}
    BY <1>0, <1>6 DEF ChildReopen, Handles, Wake, Batches
  <2> QED
    BY <1>0, <2>1 DEF OneReopening, Fresh, R1, R2, R3, R4
<1>7. CASE Timer
  <2>1. /\ UNCHANGED <<pend, batch, actor, made>> /\ (restart' => restart)
        /\ "reopen" \in posted' <=> "reopen" \in posted
    BY <1>7 DEF Timer
  <2> QED
    BY <1>0, <2>1 DEF OneReopening, Fresh, R1, R2, R3, R4
<1>8. CASE TakeBatch
  <2>1. /\ UNCHANGED <<restart, posted, made>> /\ ~pend'.reopen /\ batch'.reopen = pend.reopen
        /\ actor = "waiting"
    BY <1>0, <1>8 DEF TakeBatch, NoWork, Batches
  <2> QED
    BY <1>0, <2>1 DEF OneReopening, Fresh, R1, R2, R3, R4, Early
<1>9. ASSUME UNCHANGED <<restart, posted, pend, made>>, R4' => R4
      PROVE  OneReopening' /\ (Fresh' => Fresh)
  BY <1>0, <1>9 DEF OneReopening, Fresh, R1, R2, R3
<1>10. CASE StartActor \/ Retire \/ Join \/ Close \/ PollClose \/ FinishSaveAs \/ Draw \/ Tell \/ EndActor \/ Panic
  <2>1. UNCHANGED <<restart, posted, pend, made>> /\ ~R4'
    BY <1>10 DEF StartActor, Retire, Join, Close, PollClose, FinishSaveAs, Draw, Tell, EndActor, Panic,
       R4, Early
  <2> QED
    BY <1>9, <2>1
<1>11. CASE BeginSaveAs \/ Activate \/ Switch
  <2>1. UNCHANGED <<restart, posted, pend, made>> /\ batch'.reopen = batch.reopen /\ actor \in Early
    BY <1>0, <1>11 DEF BeginSaveAs, Activate, Switch, Settled, Early, Batches
  <2> QED
    BY <1>9, <2>1 DEF R4
<1>12. CASE Reopen \/ Reopening
  <2>1. UNCHANGED <<restart, posted, pend, made>> /\ actor' \in {"reopening", "close", "frame"}
    BY <1>12, AfterTheOpening DEF Reopen, Reopening
  <2>2. ~R4'
    BY <2>1 DEF R4, Early
  <2>3. OneReopening' /\ (Fresh' => Fresh)
    BY <1>9, <2>1, <2>2
  <2> QED
    BY <2>3
<1>13. CASE Workers \/ SaverPanics \/ (\E kind \in {"project", "image"} : Intrude(kind))
  <2>1. UNCHANGED <<restart, posted, pend, made, batch, actor>>
    BY <1>13 DEF Workers, SaverPanics, Intrude, CloserDrains, SaverDrains, Copy, Publish
  <2> QED
    BY <1>1, <2>1
<1> QED
  BY <1>2, <1>3, <1>4, <1>5, <1>6, <1>7, <1>8, <1>10, <1>11, <1>12, <1>13
     DEF Next, User, Messages, Actor

LEMMA ReopeningUsesUp ==
  ASSUME Base, OneReopening, Reopen
  PROVE  Fresh /\ ~Fresh'
<1>1. R4 /\ ~R1 /\ ~R2 /\ ~R3 /\ made.reopens # 0
  <2>1. R4
    BY DEF Base, Staged, R4, Early, Reopen
  <2> QED
    BY <2>1 DEF OneReopening
<1>2. ~R1' /\ ~R2' /\ ~R3' /\ made'.reopens # 0
  BY <1>1 DEF Reopen, R1, R2, R3, inputs, user
<1>3. ~R4'
  BY AfterTheOpening DEF Reopen, R4, Early
<1> QED
  BY <1>1, <1>2, <1>3 DEF Fresh

-----------------------------------------------------------------------------
(* What happens to the bridge in a step.                                    *)
LEMMA Sealed ==
  ASSUME Base, Next
  PROVE  /\ ink \in Bridges /\ ink' \in Bridges
         /\ ink.retiring => ink'.retiring
         /\ ink.closing /\ ~Reopen => ink'.closing
<1> USE DEF user, inputs, work, scene, workers
<1>0. ink \in Bridges /\ ink' \in Bridges /\ TypeOK /\ IsProject(location)
  BY BaseIsKept DEF Base, TypeOK, Copied
<1> SUFFICES (ink.retiring => ink'.retiring) /\ (ink.closing /\ ~Reopen => ink'.closing)
  BY <1>0
<1>1. ASSUME NEW bridge \in Bridges, bridge.closing = ink.closing, bridge.retiring = ink.retiring,
             ink' = bridge \/ ink' = Broken(bridge) \/ Drain(bridge) \/ Reopens(bridge)
      PROVE  (ink.retiring => ink'.retiring) /\ (ink.closing /\ ~Reopen => ink'.closing)
  <2>1. CASE Drain(bridge)
    BY <1>0, <1>1, <2>1, Draining
  <2>2. CASE ink' = bridge \/ ink' = Broken(bridge)
    BY <1>1, <2>2 DEF Broken, Bridges
  <2>3. CASE Reopens(bridge)
    BY <1>0, <1>1, <2>2, <2>3, Again
  <2> QED
    BY <1>1, <2>1, <2>2, <2>3
<1>2. CASE UNCHANGED ink
  BY <1>2
<1>3. CASE User
  <2>1. UNCHANGED ink \/ ink' = Retiring(ink) \/ (\E path \in Paths : ink' = [ink EXCEPT !.saving = TRUE, !.path = path])
    BY <1>3 DEF User, Admit, AskClose, AskReopen, Teardown, Request, SaveAs
  <2> QED
    BY <1>0, <2>1 DEF Retiring, Bridges
<1>4. CASE Messages \/ Confirm \/ Timer \/ ExitGuard
  <2>1. \/ UNCHANGED ink \/ ink' = BeginClose(ink) \/ ink' = Retiring(ink)
        \/ ink' = [ink EXCEPT !.status = "failed"] \/ ink' = [ink EXCEPT !.status = "ready"]
    BY <1>4 DEF Messages, Confirm, Timer, ExitGuard, ProcessActivation, WmClose, ChildClose,
       ChildReopen, ChildSaveAs
  <2> QED
    BY <1>0, <2>1 DEF BeginClose, Retiring, Bridges
<1>5. CASE StartActor \/ Tell
  <2>1. Reopens(ink) \/ UNCHANGED ink \/ ink' = [Broken(ink) EXCEPT !.status = "failed"]
    BY <1>5 DEF StartActor, Tell
  <2>2. CASE ink' = [Broken(ink) EXCEPT !.status = "failed"]
    BY <1>0, <2>2 DEF Broken, Bridges
  <2> QED
    BY <1>0, <1>1, <2>1, <2>2
<1>6. CASE BeginSaveAs
  <2>1. UNCHANGED ink \/ ink' = Taken \/ ink' = Finish(Taken)
    BY <1>6 DEF BeginSaveAs
  <2> QED
    BY <1>0, <2>1 DEF Finish, Taken, Bridges
<1>7. CASE Activate
  <2>1. /\ Held(ink) \in Bridges /\ Held(ink).closing = ink.closing /\ Held(ink).retiring = ink.retiring
    BY <1>0 DEF Held, Bridges
  <2>2. UNCHANGED ink \/ ink' = Held(ink) \/ Drain(Held(ink))
    BY <1>7 DEF Activate
  <2> QED
    BY <1>1, <2>1, <2>2
<1>8. CASE Switch \/ FinishSaveAs
  <2> DEFINE f == Finish(ink)
             r == Finish(Reset(ink))
             e == [Finish(Reset(ink)) EXCEPT !.export = ink.export]
  <2>1. /\ f \in Bridges /\ f.closing = ink.closing /\ f.retiring = ink.retiring
        /\ r \in Bridges /\ r.closing = ink.closing /\ r.retiring = ink.retiring /\ ink.export \in BOOLEAN
    BY <1>0 DEF Finish, Reset, Bridges
  <2>2. e \in Bridges /\ e.closing = ink.closing /\ e.retiring = ink.retiring
    BY <2>1, Marking DEF Bridges
  <2>3. ink' = f \/ ink' = r \/ Reopens(f) \/ Reopens(r) \/ Reopens(e)
    BY <1>8 DEF Switch, FinishSaveAs, Opens
  <2> HIDE DEF f, r, e
  <2> QED
    BY <1>1, <2>1, <2>2, <2>3
<1>9. CASE Retire \/ Close \/ PollClose
  <2>1. UNCHANGED ink \/ ink' = CloseResult(ink)
    BY <1>9 DEF Retire, Close, PollClose, StartClosing
  <2> QED
    BY <1>0, <2>1 DEF CloseResult, Bridges
<1>10. CASE Join
  <2> DEFINE j == IF saver.step = "none" THEN ink ELSE Finish(ink)
  <2>1. j \in Bridges /\ j.closing = ink.closing /\ j.retiring = ink.retiring
    BY <1>0 DEF Finish, Bridges
  <2>2. ink' = [j EXCEPT !.shown = None]
    BY <1>10 DEF Join
  <2> HIDE DEF j
  <2> QED
    BY <2>1, <2>2 DEF Bridges
<1>11. CASE Reopen
  <2>1. UNCHANGED ink \/ ink' = [Reset(ink) EXCEPT !.closing = FALSE, !.status = "open"]
    BY <1>11 DEF Reopen
  <2> QED
    BY <1>0, <1>11, <2>1 DEF Reset, Bridges
<1>12. CASE Reopening
  <2>1. UNCHANGED ink \/ ink' = CloseResult(BeginClose(Broken(ink)))
    BY <1>12 DEF Reopening, Opens
  <2> QED
    BY <1>0, <2>1 DEF CloseResult, BeginClose, Broken, Bridges
<1>13. CASE Draw
  <2>1. UNCHANGED ink \/ ink' = [ink EXCEPT !.shown = location]
    BY <1>13 DEF Draw
  <2> QED
    BY <1>0, <2>1 DEF Bridges
<1>14. CASE TakeBatch \/ EndActor
  BY <1>14 DEF TakeBatch, EndActor
<1>15. CASE Panic
  <2> DEFINE bridge == IF actor = "switch" THEN Finish(ink) ELSE ink
  <2>1. bridge \in Bridges /\ bridge.closing = ink.closing /\ bridge.retiring = ink.retiring
    BY <1>0 DEF Finish, Bridges
  <2>2. Drain(bridge) \/ ink' = bridge
    BY <1>15 DEF Panic
  <2> HIDE DEF bridge
  <2> QED
    BY <1>1, <2>1, <2>2
<1>16. CASE Workers \/ SaverPanics \/ (\E kind \in {"project", "image"} : Intrude(kind))
  <2>1. Drain(ink) \/ UNCHANGED ink \/ ink' = Broken(ink)
    BY <1>16 DEF Workers, SaverPanics, Intrude, CloserDrains, SaverDrains, Copy, Publish
  <2> QED
    BY <1>0, <1>1, <2>1
<1> QED
  BY <1>0, <1>3, <1>4, <1>5, <1>6, <1>7, <1>8, <1>9, <1>10, <1>11, <1>12, <1>13, <1>14, <1>15, <1>16
     DEF Next, Actor

-----------------------------------------------------------------------------
(* The window.                                                              *)
LEMMA AskingFits ==
  ASSUME Base, Once, Fresh' => Fresh,
         \/ (\E path \in Openable : Request(path)) \/ AskClose \/ AskReopen
         \/ ProcessActivation \/ ChildReopen \/ ChildSaveAs \/ Timer \/ ExitGuard
  PROVE  Fits'
<1> USE DEF user, inputs, work, scene, workers
<1>0. pend \in Batches /\ ink \in Bridges
  BY DEF Base, TypeOK
<1>1. /\ UNCHANGED <<ink, batch, actor, closing, canvas, closer, saver, died, confirming, lanes, drawn>>
      /\ "close" \in posted' <=> "close" \in posted
      /\ window' = window \/ actor \in {"off", "finished"}
  BY DEF Request, AskClose, AskReopen, ProcessActivation, ChildReopen, ChildSaveAs, Timer, ExitGuard
<1>2. pend'.close = pend.close /\ pend'.retire = pend.retire
  BY <1>0 DEF Request, AskClose, AskReopen, ProcessActivation, ChildReopen, ChildSaveAs, Timer, ExitGuard,
     Wake, Batches
<1>3. Quiet' <=> Quiet
  BY <1>1 DEF Quiet
<1> QED
  BY <1>1, <1>2, <1>3 DEF Once, Fits, OneClose, CloseQueued, C1, C2, C3, BeforeReopening, Gates, Shut, Over,
     NoAdmission, IsClosing, Alive, Dead

LEMMA AdmittingFits ==
  ASSUME Base, Once, Fresh' => Fresh, Admit
  PROVE  Fits'
<1> USE DEF user, inputs, work, scene, workers
<1>0. pend \in Batches
  BY DEF Base, TypeOK
<1>1. /\ UNCHANGED <<ink, posted, batch, actor, closing, canvas, closer, saver, died, confirming, window>>
      /\ pend'.close = pend.close /\ pend'.retire = pend.retire
      /\ ~NoAdmission
  BY <1>0 DEF Admit, Wake, Batches, NoAdmission
<1>2. canvas = "active" \/ Dead
  BY <1>1 DEF Once, Shut
<1>3. ~(closing /\ ~Dead) /\ actor # "reopening" /\ actor # "switch" /\ (actor \in {"off", "finished"} => died)
  BY <1>1, <1>2 DEF Once, Shut, Gates, Over, NoAdmission, Dead
<1> QED
  BY <1>1, <1>2, <1>3 DEF Once, Fits, OneClose, CloseQueued, C1, C2, C3, BeforeReopening, Gates, Shut, Over,
     NoAdmission, IsClosing, Alive, Dead

LEMMA HoldingFits ==
  ASSUME Base, Once, Fresh' => Fresh, NEW path \in Paths, SaveAs(path)
  PROVE  Fits'
<1> USE DEF user, inputs, work, scene, workers
<1>1. ink \in Bridges /\ ink' = [ink EXCEPT !.saving = TRUE, !.path = path]
  BY DEF Base, TypeOK, SaveAs
<1>2. /\ ink'.closing = ink.closing /\ ink'.retiring = ink.retiring /\ ink'.status = ink.status
      /\ ink'.saving /\ ink'.broken = ink.broken /\ ink'.shown = ink.shown
      /\ ~IsClosing /\ ~ink.broken /\ ~ink.saving
  BY <1>1 DEF Bridges, SaveAs
<1>3. /\ UNCHANGED <<pend, batch, actor, closing, canvas, closer, saver, died, confirming, lanes, drawn, window>>
      /\ "close" \in posted' <=> "close" \in posted
  BY DEF SaveAs
<1>4. Quiet' <=> Quiet
  BY <1>3 DEF Quiet
<1> QED
  BY <1>2, <1>3, <1>4 DEF Once, Fits, OneClose, CloseQueued, C1, C2, C3, BeforeReopening, Gates, Shut, Over,
     NoAdmission, IsClosing, Alive, Dead

LEMMA ClosingFits ==
  ASSUME Base, Once, Fresh' => Fresh, WmClose \/ ChildClose \/ Confirm \/ Teardown
  PROVE  Fits'
<1> USE DEF user, inputs, work, scene, workers
<1>0. pend \in Batches /\ ink \in Bridges
  BY DEF Base, TypeOK
<1>1. /\ UNCHANGED <<batch, actor, closing, canvas, closer, saver, died, lanes, drawn>>
      /\ Quiet' <=> Quiet
  BY DEF WmClose, ChildClose, Confirm, Teardown, Quiet
<1>2. CASE WmClose
  <2>1. UNCHANGED confirming /\ ~confirming
    BY <1>2 DEF WmClose, Handles, Attends
  <2>2. CASE ink.status # "ready" /\ ink' = BeginClose(ink) /\ ink' # ink /\ UNCHANGED <<window, pend>>
             /\ posted' = (posted \ {"wmClose"}) \cup {"close"}
    <3>1. /\ ~ink.closing /\ ~ink.saving /\ ink'.closing /\ ~ink'.saving /\ ink'.status = "saving"
          /\ ink'.retiring = ink.retiring /\ ink'.broken = ink.broken /\ ink'.shown = ink.shown
          /\ ink'.path = ink.path /\ "close" \in posted'
      BY <1>0, <2>2 DEF BeginClose, Bridges
    <3> QED
      BY <1>1, <2>1, <2>2, <3>1 DEF Once, Fits, OneClose, CloseQueued, C1, C2, C3, BeforeReopening, Gates, Shut, Over,
         NoAdmission, IsClosing, Alive, Dead
  <2>3. CASE /\ UNCHANGED pend /\ (window' = window \/ actor \in {"off", "finished"})
             /\ "close" \in posted' <=> "close" \in posted
             /\ ink' = ink \/ (ink.status = "ready" /\ ink' = [ink EXCEPT !.status = "failed"])
    <3>1. /\ ink'.closing = ink.closing /\ ink'.saving = ink.saving
          /\ ink'.retiring = ink.retiring /\ ink'.broken = ink.broken /\ ink'.shown = ink.shown
          /\ ink'.path = ink.path
          /\ ink'.status \in {"failed", "ready"} => ink.status \in {"failed", "ready"}
      BY <1>0, <2>3 DEF Bridges
    <3> QED
      BY <1>1, <2>1, <2>3, <3>1 DEF Once, Fits, OneClose, CloseQueued, C1, C2, C3, BeforeReopening, Gates, Shut, Over,
         NoAdmission, IsClosing, Alive, Dead
  <2>4. CASE /\ ink' = Retiring(ink) /\ pend' = [Wake(pend) EXCEPT !.retire = TRUE]
             /\ UNCHANGED window /\ ("close" \in posted' <=> "close" \in posted)
    <3>1. /\ ink'.closing /\ ink'.saving = ink.saving /\ ink'.status = ink.status
          /\ ink'.retiring /\ ink'.broken = ink.broken /\ ink'.shown = ink.shown
          /\ ink'.path = ink.path /\ pend'.close = pend.close
      BY <1>0, <2>4 DEF Bridges, Batches, Retiring, Wake
    <3> QED
      BY <1>1, <2>1, <2>4, <3>1 DEF Once, Fits, OneClose, CloseQueued, C1, C2, C3, BeforeReopening, Gates, Shut, Over,
         NoAdmission, IsClosing, Alive, Dead
  <2> QED
    BY <1>2, <2>2, <2>3, <2>4 DEF WmClose
<1>3. CASE ChildClose
  <2>1. /\ "close" \in posted /\ "close" \notin posted' /\ UNCHANGED <<window, confirming>>
        /\ \/ actor = "finished" /\ ink' = [ink EXCEPT !.status = "failed"] /\ UNCHANGED pend
           \/ pend' = [Wake(pend) EXCEPT !.close = TRUE] /\ UNCHANGED ink
    BY <1>3 DEF ChildClose, Handles
  <2>2. CASE actor = "finished" /\ ink' = [ink EXCEPT !.status = "failed"] /\ UNCHANGED pend
    <3>1. /\ ink'.closing = ink.closing /\ ink'.saving = ink.saving /\ ink'.shown = ink.shown
          /\ ink'.retiring = ink.retiring
      BY <1>0, <2>2 DEF Bridges
    <3> QED
      BY <1>1, <2>1, <2>2, <3>1 DEF Once, Fits, OneClose, CloseQueued, C1, C2, C3, BeforeReopening, Gates, Shut, Over,
         NoAdmission, IsClosing, Alive, Dead
  <2>3. CASE pend' = [Wake(pend) EXCEPT !.close = TRUE] /\ UNCHANGED ink
    <3>1. pend'.close /\ pend'.retire = pend.retire
      BY <1>0, <2>3 DEF Batches, Wake
    <3> QED
      BY <1>1, <2>1, <2>3, <3>1 DEF Once, Fits, OneClose, CloseQueued, C1, C2, C3, BeforeReopening, Gates, Shut, Over,
         NoAdmission, IsClosing, Alive, Dead
  <2> QED
    BY <2>1, <2>2, <2>3
<1>4. CASE Confirm
  <2>1. /\ UNCHANGED <<window, pend>> /\ ("close" \in posted' <=> "close" \in posted)
        /\ ink.status = "failed" \/ confirming
        /\ ink' = ink \/ ink' = [ink EXCEPT !.status = "ready"]
    BY <1>4 DEF Confirm
  <2>2. /\ ink'.closing = ink.closing /\ ink'.saving = ink.saving
        /\ ink'.retiring = ink.retiring /\ ink'.broken = ink.broken /\ ink'.shown = ink.shown
        /\ ink'.path = ink.path
    BY <1>0, <2>1 DEF Bridges
  <2> QED
    BY <1>1, <2>1, <2>2 DEF Once, Fits, OneClose, CloseQueued, C1, C2, C3, BeforeReopening, Gates, Shut, Over,
       NoAdmission, IsClosing, Alive, Dead
<1>5. CASE Teardown
  <2>1. /\ ink' = Retiring(ink) /\ pend' = [Wake(pend) EXCEPT !.retire = TRUE]
        /\ window' = "leaving" /\ UNCHANGED <<posted, confirming>>
    BY <1>5 DEF Teardown
  <2>2. /\ ink'.closing /\ ink'.saving = ink.saving /\ ink'.status = ink.status
        /\ ink'.retiring /\ ink'.broken = ink.broken /\ ink'.shown = ink.shown
        /\ ink'.path = ink.path /\ pend'.close = pend.close
    BY <1>0, <2>1 DEF Bridges, Batches, Retiring, Wake
  <2> QED
    BY <1>1, <2>1, <2>2 DEF Once, Fits, OneClose, CloseQueued, C1, C2, C3, BeforeReopening, Gates, Shut, Over,
       NoAdmission, IsClosing, Alive, Dead
<1> QED
  BY <1>2, <1>3, <1>4, <1>5

-----------------------------------------------------------------------------
(* The actor: what a batch starts with.                                     *)
LEMMA StartingFits ==
  ASSUME Base, Once, Fresh' => Fresh, StartActor
  PROVE  Fits'
<1> USE DEF user, inputs, work, scene, workers
<1>0. ink \in Bridges /\ TypeOK /\ IsProject(location)
  BY DEF Base, TypeOK, Copied
<1>1. /\ UNCHANGED <<posted, window, confirming, pend, batch, closing, closer, saver, lanes, drawn>>
      /\ Quiet' <=> Quiet
      /\ actor = "off" /\ window = "open" /\ ~closing /\ canvas = "suspended"
  BY DEF StartActor, Quiet, Once, Over
<1>2. CASE actor' = "waiting" /\ Reopens(ink) /\ UNCHANGED died
  <2>1. /\ ink'.closing = ink.closing /\ ink'.saving = ink.saving /\ ink'.status = ink.status
        /\ ink'.retiring = ink.retiring /\ ink'.shown = ink.shown
        /\ ink'.path = ink.path
        /\ canvas' = "active" \/ ink'.broken
    BY <1>0, <1>2, Again DEF Broken, Bridges
  <2> QED
    BY <1>1, <1>2, <2>1 DEF Once, Fits, OneClose, CloseQueued, C1, C2, C3, BeforeReopening, Gates, Shut, Over,
       NoAdmission, IsClosing, Alive, Dead, Early
<1>3. CASE actor' = "told" /\ died' /\ ink' = [Broken(ink) EXCEPT !.status = "failed"] /\ UNCHANGED canvas
  <2>1. /\ ink'.closing = ink.closing /\ ink'.saving = ink.saving
        /\ ink'.retiring = ink.retiring
    BY <1>0, <1>3 DEF Broken, Bridges
  <2> QED
    BY <1>1, <1>3, <2>1 DEF Once, Fits, OneClose, CloseQueued, C1, C2, C3, BeforeReopening, Gates, Shut, Over,
       NoAdmission, IsClosing, Alive, Dead, Early
<1> QED
  BY <1>2, <1>3 DEF StartActor

LEMMA TakingFits ==
  ASSUME Base, Once, Fresh' => Fresh, TakeBatch
  PROVE  Fits'
<1> USE DEF user, inputs, work, scene, workers
<1>0. pend \in Batches /\ ink \in Bridges
  BY DEF Base, TypeOK
<1>1. /\ UNCHANGED <<ink, posted, window, confirming, closing, canvas, closer, saver, lanes, drawn, died>>
      /\ Quiet' <=> Quiet
      /\ actor = "waiting"
  BY DEF TakeBatch, Quiet
<1>2. actor' \in {"saveAs", "activate", "retire", "reopen", "close", "frame"}
  BY FromTheStart, AfterTheSave DEF TakeBatch
<1>3. /\ pend'.retire = pend.retire /\ ~pend'.close
      /\ batch'.retire = pend.retire /\ batch'.close = pend.close
  BY <1>0 DEF TakeBatch, NoWork, Batches
<1> QED
  BY <1>1, <1>2, <1>3 DEF Once, Fits, OneClose, CloseQueued, C1, C2, C3, BeforeReopening, Gates, Shut, Over,
     NoAdmission, IsClosing, Alive, Dead, Early

LEMMA SavingFits ==
  ASSUME Base, Once, Fresh' => Fresh, BeginSaveAs
  PROVE  Fits'
<1> USE DEF user, inputs, work, scene, workers
<1>0. ink \in Bridges /\ saver \in Savers
  BY DEF Base, TypeOK
<1>1. /\ UNCHANGED <<posted, window, confirming, pend, batch, closing, closer, died>>
      /\ actor = "saveAs"
      /\ actor' \in {"activate", "retire", "reopen", "close", "frame"}
  BY AfterTheSave DEF BeginSaveAs
<1>2. CASE UNCHANGED <<ink, canvas, saver, lanes, drawn>>
  <2>1. Quiet' <=> Quiet
    BY <1>2 DEF Quiet
  <2> QED
    BY <1>1, <1>2, <2>1 DEF Once, Fits, OneClose, CloseQueued, C1, C2, C3, BeforeReopening, Gates, Shut, Over,
       NoAdmission, IsClosing, Alive, Dead, Early
<1>3. CASE /\ ink.path # None /\ canvas' = "suspended" /\ ink' = Taken
           /\ saver' = [step |-> "draining", source |-> location, target |-> ink.path]
  <2>1. /\ ink'.closing = ink.closing /\ ink'.saving = ink.saving /\ ink'.status = ink.status
        /\ ink'.retiring = ink.retiring /\ ink'.shown = ink.shown /\ ink'.broken = ink.broken
        /\ ink'.path = None /\ ink.saving /\ saver'.step = "draining"
    BY <1>0, <1>3 DEF Taken, Bridges, Base, SavesAreExclusive
  <2> QED
    BY <1>1, <1>3, <2>1 DEF Once, Fits, OneClose, CloseQueued, C1, C2, C3, BeforeReopening, Gates, Shut, Over,
       NoAdmission, IsClosing, Alive, Dead, Early
<1>4. CASE /\ ink.path # None /\ ink' = Finish(Taken) /\ UNCHANGED <<canvas, saver, lanes, drawn>>
  <2>1. /\ ink'.closing = ink.closing /\ ~ink'.saving /\ ink'.status = ink.status
        /\ ink'.retiring = ink.retiring /\ ink'.shown = ink.shown /\ ink'.broken = ink.broken
        /\ ink'.path = None
    BY <1>0, <1>4 DEF Taken, Finish, Bridges
  <2>2. Quiet' <=> Quiet
    BY <1>4 DEF Quiet
  <2> QED
    BY <1>1, <1>4, <2>1, <2>2 DEF Once, Fits, OneClose, CloseQueued, C1, C2, C3, BeforeReopening, Gates, Shut, Over,
       NoAdmission, IsClosing, Alive, Dead, Early
<1> QED
  BY <1>2, <1>3, <1>4 DEF BeginSaveAs

(* What follows a request to open a project.                                *)
LEMMA Settling ==
  ASSUME batch \in Batches, Settled
  PROVE  /\ batch'.close = batch.close /\ batch'.retire = batch.retire /\ batch'.reopen = batch.reopen
         /\ actor' \in {"activate", "retire", "reopen", "close", "frame"}
BY AfterTheSave DEF Settled, Batches

LEMMA OpeningFits ==
  ASSUME Base, Once, Fresh' => Fresh, Activate
  PROVE  Fits'
<1> USE DEF user, inputs, work, scene, workers
<1>0. ink \in Bridges /\ saver \in Savers /\ batch \in Batches /\ TypeOK /\ IsProject(location)
  BY DEF Base, TypeOK, Copied
<1>1. /\ UNCHANGED <<posted, window, confirming, pend, closing, closer, saver, died>>
      /\ actor = "activate"
  BY DEF Activate
<1>2. CASE Settled /\ UNCHANGED <<canvas, lanes, drawn, ink>>
  <2>1. Quiet' <=> Quiet
    BY <1>2 DEF Quiet
  <2> QED
    BY <1>0, <1>1, <1>2, <2>1, Settling DEF Once, Fits, OneClose, CloseQueued, C1, C2, C3, BeforeReopening, Gates, Shut, Over,
       NoAdmission, IsClosing, Alive, Dead, Early
<1>3. CASE /\ ~ink.saving /\ ~ink.broken /\ ~IsClosing
           /\ IF canvas = "active" THEN Drain(Held(ink)) ELSE ink' = Held(ink) /\ UNCHANGED <<work, disk>>
           /\ canvas' = "suspended" /\ actor' = "switch" /\ UNCHANGED batch
  <2>1. /\ Held(ink) \in Bridges
        /\ Held(ink).closing = ink.closing /\ Held(ink).saving /\ Held(ink).status = ink.status
        /\ Held(ink).retiring = ink.retiring /\ Held(ink).shown = ink.shown /\ Held(ink).path = ink.path
    BY <1>0 DEF Held, Bridges
  <2>2. /\ ink'.closing = ink.closing /\ ink'.saving /\ ink'.status = ink.status
        /\ ink'.retiring = ink.retiring /\ ink'.shown = ink.shown /\ ink'.path = ink.path
        /\ IF canvas = "active" THEN Quiet' ELSE Quiet' <=> Quiet
    BY <1>0, <1>3, <2>1, Draining DEF Quiet
  <2>3. ~closing /\ closer = "none"
    BY <1>1, <1>3 DEF Once, Gates, Alive, Dead
  <2>4. saver.step = "none" /\ ink.path = None
    BY <1>3 DEF Base, SavesAreExclusive
  <2>5. Quiet'
    BY <1>1, <2>2, <2>3, <2>4 DEF Once, Shut, Dead
  <2> QED
    BY <1>1, <1>3, <2>2, <2>3, <2>4, <2>5 DEF Once, Fits, OneClose, CloseQueued, C1, C2, C3, BeforeReopening, Gates, Shut, Over,
       NoAdmission, IsClosing, Alive, Dead, Early
<1> QED
  BY <1>2, <1>3 DEF Activate

LEMMA SwitchingFits ==
  ASSUME Base, Once, Fresh' => Fresh, Switch
  PROVE  Fits'
<1> USE DEF user, inputs, work, scene, workers
<1>0. ink \in Bridges /\ batch \in Batches /\ TypeOK /\ IsProject(location)
  BY DEF Base, TypeOK, Copied
<1>1. /\ UNCHANGED <<posted, window, confirming, pend, closing, closer, saver, died>>
      /\ actor = "switch" /\ Settled
      /\ Quiet /\ closer = "none" /\ ~closing
      /\ saver.step = "none" /\ ink.path = None
  BY DEF Switch, Once, Gates, Base, SavesAreExclusive
<1>2. Quiet'
  BY <1>1 DEF Switch, Quiet
<1> DEFINE f == Finish(ink)
           r == Finish(Reset(ink))
<1>3. /\ f \in Bridges /\ f.closing = ink.closing /\ f.retiring = ink.retiring /\ f.path = ink.path
      /\ ~f.saving /\ f.status = ink.status /\ f.broken = ink.broken
      /\ r \in Bridges /\ r.closing = ink.closing /\ r.retiring = ink.retiring /\ r.path = ink.path
      /\ ~r.saving /\ r.status = ink.status
  BY <1>0 DEF Finish, Reset, Bridges
<1>4. \/ ink.broken /\ canvas' = "failed" /\ ink' = f
      \/ canvas' = "active" /\ ink' = r
      \/ Reopens(f) \/ Reopens(r)
  BY DEF Switch, Opens
<1> HIDE DEF f, r
<1>5. ASSUME NEW b \in Bridges
      PROVE  /\ Broken(b) \in Bridges /\ Broken(b).closing = b.closing /\ Broken(b).retiring = b.retiring
             /\ Broken(b).path = b.path /\ Broken(b).saving = b.saving /\ Broken(b).status = b.status
             /\ Broken(b).broken
  BY DEF Broken, Bridges
<1>6. /\ ink'.closing = ink.closing /\ ink'.retiring = ink.retiring /\ ink'.path = ink.path
      /\ ~ink'.saving /\ ink'.status = ink.status
      /\ canvas' = "active" \/ ink'.broken
  <2>1. CASE Reopens(f)
    BY <1>0, <1>3, <1>5, <2>1, Again
  <2>2. CASE Reopens(r)
    BY <1>0, <1>3, <1>5, <2>2, Again
  <2> QED
    BY <1>3, <1>4, <2>1, <2>2
<1> QED
  BY <1>0, <1>1, <1>2, <1>6, Settling DEF Once, Fits, OneClose, CloseQueued, C1, C2, C3, BeforeReopening, Gates, Shut, Over,
     NoAdmission, IsClosing, Alive, Dead, Early

-----------------------------------------------------------------------------
(* The actor: closing, retiring and reopening.                              *)
LEMMA RetiringFits ==
  ASSUME Base, Once, Fresh' => Fresh, Retire
  PROVE  Fits'
<1> USE DEF user, inputs, work, scene, workers
<1>0. ink \in Bridges
  BY DEF Base, TypeOK
<1>1. /\ UNCHANGED <<posted, window, confirming, pend, batch, closing, saver, lanes, drawn, died>>
      /\ Quiet' <=> Quiet
      /\ actor = "retire" /\ actor' = "joining" /\ ink.retiring
  BY DEF Retire, Quiet, Once, Gates, Early, Base, Staged
<1>2. CASE closing /\ UNCHANGED <<canvas, closer, ink>>
  BY <1>1, <1>2 DEF Once, Fits, OneClose, CloseQueued, C1, C2, C3, BeforeReopening, Gates, Shut, Over,
     NoAdmission, IsClosing, Alive, Dead, Early
<1>3. CASE ~closing /\ StartClosing
  <2>1. closer = "none"
    BY <1>1, <1>3 DEF Once, Gates, Alive, Dead
  <2>2. /\ ink'.closing = ink.closing /\ ink'.retiring = ink.retiring /\ ink'.path = ink.path
        /\ ink'.saving = ink.saving /\ ink'.broken = ink.broken /\ ink'.shown = ink.shown
    BY <1>0, <1>3 DEF StartClosing, CloseResult, Bridges
  <2>3. /\ canvas' = "suspended"
        /\ closer' = IF canvas = "active" THEN "draining" ELSE "none"
    BY <1>3, <2>1 DEF StartClosing
  <2> QED
    BY <1>1, <1>3, <2>1, <2>2, <2>3 DEF Once, Fits, OneClose, CloseQueued, C1, C2, C3, BeforeReopening, Gates, Shut, Over,
       NoAdmission, IsClosing, Alive, Dead, Early
<1> QED
  BY <1>2, <1>3 DEF Retire

LEMMA JoiningFits ==
  ASSUME Base, Once, Fresh' => Fresh, Join
  PROVE  Fits'
<1> USE DEF user, inputs, work, scene, workers
<1>0. ink \in Bridges
  BY DEF Base, TypeOK
<1>1. /\ UNCHANGED <<posted, window, confirming, pend, closing, lanes, drawn, died>>
      /\ Quiet' <=> Quiet
      /\ actor = "joining" /\ actor' = "finished" /\ canvas' = "suspended" /\ closer' = "none"
      /\ closer # "draining" /\ saver.step # "draining"
  BY DEF Join, Quiet
<1>2. saver'.step = "none" /\ ~batch'.retire /\ ~batch'.close
  BY DEF Join, NoSave, NoWork
<1>3. Quiet
  BY <1>1 DEF Once, Gates, Shut, Dead
<1>4. /\ ink'.closing = ink.closing /\ ink'.retiring = ink.retiring
      /\ (ink'.saving => ink.saving) /\ ink'.shown = None
  <2> DEFINE j == IF saver.step = "none" THEN ink ELSE Finish(ink)
  <2>1. j \in Bridges /\ j.closing = ink.closing /\ j.retiring = ink.retiring /\ (j.saving => ink.saving)
    BY <1>0 DEF Finish, Bridges
  <2>2. ink' = [j EXCEPT !.shown = None]
    BY DEF Join
  <2> HIDE DEF j
  <2> QED
    BY <2>1, <2>2 DEF Bridges
<1> QED
  BY <1>1, <1>2, <1>3, <1>4 DEF Once, Fits, OneClose, CloseQueued, C1, C2, C3, BeforeReopening, Gates, Shut, Over,
     NoAdmission, IsClosing, Alive, Dead, Early

(* A canvas that is reopened was closed: there is nothing left in it.       *)
LEMMA ReopenedIsClosed ==
  ASSUME Base, Once, Reopen, ink.status = "failed", closer = "none"
  PROVE  Fresh /\ ~Fresh' /\ ~CloseQueued /\ saver.step = "none" /\ Quiet
<1>1. Fresh /\ ~Fresh' /\ actor = "reopen"
  BY ReopeningUsesUp DEF Once, Reopen
<1>2. closing /\ ~ink.saving /\ ~CloseQueued
  BY <1>1 DEF Once, BeforeReopening, Alive, Dead
<1>3. saver.step = "none"
  BY <1>2 DEF Base, SavesAreExclusive
<1>4. Quiet
  BY <1>1, <1>2, <1>3 DEF Once, Shut, Dead
<1> QED
  BY <1>1, <1>2, <1>3, <1>4

LEMMA ReopeningGateFits ==
  ASSUME Base, Once, Fresh' => Fresh, Reopen
  PROVE  Fits'
<1> USE DEF user, inputs, work, scene, workers
<1>0. ink \in Bridges
  BY DEF Base, TypeOK
<1>1. /\ UNCHANGED <<posted, window, confirming, pend, batch, closing, canvas, closer, saver, drawn, died>>
      /\ actor = "reopen"
  BY DEF Reopen
<1>2. CASE ink.status = "failed" /\ closer = "none" /\ actor' = "reopening" /\ lanes' = {}
           /\ ink' = [Reset(ink) EXCEPT !.closing = FALSE, !.status = "open"]
  <2>1. Fresh /\ ~Fresh' /\ ~CloseQueued /\ saver.step = "none" /\ Quiet
    BY <1>2, ReopenedIsClosed
  <2>2. /\ ~ink'.closing /\ ink'.retiring = ink.retiring /\ ink'.shown = None
    BY <1>0, <1>2 DEF Reset, Bridges
  <2>3. Quiet'
    BY <1>1, <1>2, <2>1 DEF Quiet
  <2> QED
    BY <1>1, <1>2, <2>1, <2>2, <2>3 DEF Once, Fits, OneClose, CloseQueued, C1, C2, C3, BeforeReopening,
       Gates, Shut, Over, NoAdmission, IsClosing, Alive, Dead, Early
<1>3. CASE actor' = From(5, batch) /\ UNCHANGED <<ink, lanes>>
  <2>1. Quiet' <=> Quiet
    BY <1>1, <1>3 DEF Quiet
  <2>2. actor' \in {"close", "frame"}
    BY <1>3, AfterTheOpening
  <2> QED
    BY <1>1, <1>3, <2>1, <2>2 DEF Once, Fits, OneClose, CloseQueued, C1, C2, C3, BeforeReopening, Gates, Shut, Over,
       NoAdmission, IsClosing, Alive, Dead, Early
<1> QED
  BY <1>2, <1>3 DEF Reopen

LEMMA ReopeningFits ==
  ASSUME Base, Once, Fresh' => Fresh, Reopening
  PROVE  Fits'
<1> USE DEF user, inputs, work, scene, workers
<1>0. ink \in Bridges
  BY DEF Base, TypeOK
<1>1. /\ UNCHANGED <<posted, window, confirming, pend, batch, closer, saver, lanes, drawn, died>>
      /\ Quiet' <=> Quiet
      /\ actor = "reopening" /\ closing' = (ink'.closing \/ ink'.retiring)
  BY DEF Reopening, Quiet
<1>2. actor' \in {"close", "frame"}
  BY AfterTheOpening DEF Reopening
<1>3. ~Fresh' /\ Quiet /\ ink.shown = None /\ closer = "none" /\ saver.step = "none"
  BY <1>1 DEF Once, Gates
<1>4. CASE canvas' = "active" /\ UNCHANGED ink
  BY <1>1, <1>2, <1>3, <1>4 DEF Once, Fits, OneClose, CloseQueued, C1, C2, C3, BeforeReopening, Gates, Shut, Over,
     NoAdmission, IsClosing, Alive, Dead, Early
<1>5. CASE UNCHANGED canvas /\ ink' = CloseResult(BeginClose(Broken(ink)))
  <2>1. /\ (ink.closing => ink'.closing) /\ ink'.retiring = ink.retiring /\ ink'.broken
        /\ ink'.shown = ink.shown /\ ink'.path = ink.path
    BY <1>0, <1>5 DEF CloseResult, BeginClose, Broken, Bridges
  <2> QED
    BY <1>1, <1>2, <1>3, <1>5, <2>1 DEF Once, Fits, OneClose, CloseQueued, C1, C2, C3, BeforeReopening, Gates, Shut, Over,
       NoAdmission, IsClosing, Alive, Dead, Early
<1> QED
  BY <1>4, <1>5 DEF Reopening, Opens

LEMMA CarryingOutFits ==
  ASSUME Base, Once, Fresh' => Fresh, Close
  PROVE  Fits'
<1> USE DEF user, inputs, work, scene, workers
<1>0. ink \in Bridges
  BY DEF Base, TypeOK
<1>1. /\ UNCHANGED <<posted, window, confirming, pend, batch, saver, lanes, drawn, died>>
      /\ Quiet' <=> Quiet
      /\ actor = "close" /\ actor' = "frame" /\ closing' /\ StartClosing
      /\ batch.close
  BY DEF Close, Quiet, Base, Staged
<1>2. ink.closing /\ C3
  BY <1>1 DEF Once, OneClose, CloseQueued, C3
<1>3. /\ ink'.closing = ink.closing /\ ink'.retiring = ink.retiring /\ ink'.path = ink.path
      /\ ink'.saving = ink.saving /\ ink'.broken = ink.broken /\ ink'.shown = ink.shown
  BY <1>0, <1>1 DEF StartClosing, CloseResult, Bridges
<1>4. CASE closer # "none" /\ UNCHANGED <<canvas, closer>>
  <2>1. closing
    BY <1>1, <1>4 DEF Once, Gates, Alive, Dead
  <2> QED
    BY <1>1, <1>2, <1>3, <1>4, <2>1 DEF Once, Fits, OneClose, CloseQueued, C1, C2, C3, BeforeReopening, Gates, Shut, Over,
       NoAdmission, IsClosing, Alive, Dead, Early
<1>5. CASE /\ closer = "none" /\ canvas' = "suspended"
           /\ closer' = IF canvas = "active" THEN "draining" ELSE "none"
  BY <1>1, <1>2, <1>3, <1>5 DEF Once, Fits, OneClose, CloseQueued, C1, C2, C3, BeforeReopening, Gates, Shut, Over,
     NoAdmission, IsClosing, Alive, Dead, Early
<1> QED
  BY <1>1, <1>4, <1>5 DEF StartClosing

LEMMA PollingFits ==
  ASSUME Base, Once, Fresh' => Fresh, PollClose
  PROVE  Fits'
<1> USE DEF user, inputs, work, scene, workers
<1>0. ink \in Bridges
  BY DEF Base, TypeOK
<1>1. /\ UNCHANGED <<posted, window, confirming, pend, closing, canvas, saver, lanes, drawn, died>>
      /\ Quiet' <=> Quiet
      /\ actor = "frame" /\ actor' = "waiting" /\ closing
      /\ closer' = closer \/ (closer = "done" /\ closer' = "none")
  BY DEF PollClose, Quiet
<1>2. /\ ink'.closing = ink.closing /\ ink'.retiring = ink.retiring /\ ink'.path = ink.path
      /\ ink'.saving = ink.saving /\ ink'.broken = ink.broken /\ ink'.shown = ink.shown
  BY <1>0 DEF PollClose, CloseResult, Bridges
<1> QED
  BY <1>1, <1>2 DEF Once, Fits, OneClose, CloseQueued, C1, C2, C3, BeforeReopening, Gates, Shut, Over,
     NoAdmission, IsClosing, Alive, Dead, Early

-----------------------------------------------------------------------------
(* The actor: frames, and its end.                                          *)
LEMMA FinishingFits ==
  ASSUME Base, Once, Fresh' => Fresh, FinishSaveAs
  PROVE  Fits'
<1> USE DEF user, inputs, work, scene, workers
<1>0. ink \in Bridges /\ TypeOK /\ IsProject(location)
  BY DEF Base, TypeOK, Copied
<1>1. /\ UNCHANGED <<posted, window, confirming, pend, batch, closing, closer, drawn, died>>
      /\ actor = "frame" /\ actor' = "drawing" /\ ~closing
      /\ saver.step # "none"
      /\ Quiet /\ closer = "none" /\ ink.path = None
  BY DEF FinishSaveAs, Once, Gates, Base, Copied, SavesAreExclusive, Alive, Dead
<1>2. Quiet' /\ saver'.step = "none"
  BY <1>1 DEF FinishSaveAs, Quiet, NoSave
<1> DEFINE f == Finish(ink)
           r == Finish(Reset(ink))
           e == [Finish(Reset(ink)) EXCEPT !.export = ink.export]
<1>3. /\ f \in Bridges /\ f.closing = ink.closing /\ f.retiring = ink.retiring /\ f.path = ink.path
      /\ ~f.saving /\ f.status = ink.status /\ f.broken = ink.broken
      /\ r \in Bridges /\ r.closing = ink.closing /\ r.retiring = ink.retiring /\ r.path = ink.path
      /\ ~r.saving /\ r.status = ink.status /\ ink.export \in BOOLEAN
  BY <1>0 DEF Finish, Reset, Bridges
<1>4. /\ e \in Bridges /\ e.closing = ink.closing /\ e.retiring = ink.retiring /\ e.path = ink.path
      /\ ~e.saving /\ e.status = ink.status
  BY <1>3, Marking DEF Bridges
<1>5. \/ ink.broken /\ canvas' = "failed" /\ ink' = f
      \/ canvas' = "active" /\ ink' = r
      \/ Reopens(e)
  BY DEF FinishSaveAs, Opens
<1> HIDE DEF f, r, e
<1>6. /\ ink'.closing = ink.closing /\ ink'.retiring = ink.retiring /\ ink'.path = ink.path
      /\ ~ink'.saving /\ ink'.status = ink.status
      /\ canvas' = "active" \/ ink'.broken
  <2>1. CASE Reopens(e)
    BY <1>0, <1>4, <2>1, Again DEF Broken, Bridges
  <2> QED
    BY <1>3, <1>5, <2>1
<1> QED
  BY <1>1, <1>2, <1>6 DEF Once, Fits, OneClose, CloseQueued, C1, C2, C3, BeforeReopening, Gates, Shut, Over,
     NoAdmission, IsClosing, Alive, Dead, Early

LEMMA DrawingFits ==
  ASSUME Base, Once, Fresh' => Fresh, Draw
  PROVE  Fits'
<1> USE DEF user, inputs, work, scene, workers
<1>0. ink \in Bridges
  BY DEF Base, TypeOK
<1>1. /\ UNCHANGED <<posted, window, confirming, pend, closing, canvas, closer, saver, died>>
      /\ actor \in {"frame", "drawing"} /\ actor' = "waiting" /\ ~closing
  BY DEF Draw, Once, Gates
<1>2. CASE canvas = "active" /\ ink' = [ink EXCEPT !.shown = location]
  <2>1. /\ ink'.closing = ink.closing /\ ink'.retiring = ink.retiring /\ ink'.path = ink.path
        /\ ink'.saving = ink.saving /\ ink'.status = ink.status
    BY <1>0, <1>2 DEF Bridges
  <2> QED
    BY <1>1, <1>2, <2>1 DEF Once, Fits, OneClose, CloseQueued, C1, C2, C3, BeforeReopening, Gates, Shut, Over,
       NoAdmission, IsClosing, Alive, Dead, Early
<1>3. CASE UNCHANGED <<drawn, lanes, ink>>
  <2>1. Quiet' <=> Quiet
    BY <1>3 DEF Quiet
  <2> QED
    BY <1>1, <1>3, <2>1 DEF Once, Fits, OneClose, CloseQueued, C1, C2, C3, BeforeReopening, Gates, Shut, Over,
       NoAdmission, IsClosing, Alive, Dead, Early
<1> QED
  BY <1>2, <1>3 DEF Draw

LEMMA DyingFits ==
  ASSUME Base, Once, Fresh' => Fresh, Panic \/ Tell \/ EndActor
  PROVE  Fits'
<1> USE DEF user, inputs, work, scene, workers
<1>0. ink \in Bridges /\ TypeOK /\ IsProject(location)
  BY DEF Base, TypeOK, Copied
<1>1. /\ UNCHANGED <<posted, window, confirming, pend, closing, closer, saver>>
      /\ actor' \in {"dying", "told", "finished"}
  BY DEF Panic, Tell, EndActor
<1>2. died' /\ (window # "gone" \/ actor' = "finished")
  BY DEF Panic, Tell, EndActor, Once, Over, Busy
<1>3. /\ ink'.closing = ink.closing /\ ink'.retiring = ink.retiring
      /\ (ink'.saving => ink.saving)
  <2>1. CASE Panic
    <3> DEFINE bridge == IF actor = "switch" THEN Finish(ink) ELSE ink
    <3>1. /\ bridge \in Bridges /\ bridge.closing = ink.closing /\ bridge.retiring = ink.retiring
          /\ bridge.saving => ink.saving
      BY <1>0 DEF Finish, Bridges
    <3>2. Drain(bridge) \/ ink' = bridge
      BY <2>1 DEF Panic
    <3> HIDE DEF bridge
    <3> QED
      BY <1>0, <3>1, <3>2, Draining
  <2>2. CASE Tell \/ EndActor
    BY <1>0, <2>2 DEF Tell, EndActor, Broken, Bridges
  <2> QED
    BY <2>1, <2>2
<1> QED
  BY <1>1, <1>2, <1>3 DEF Once, Fits, OneClose, CloseQueued, C1, C2, C3, BeforeReopening, Gates, Shut, Over,
     NoAdmission, IsClosing, Alive, Dead, Early

(* The workers.                                                             *)
LEMMA WorkersFit ==
  ASSUME Base, Once, Fresh' => Fresh,
         Workers \/ SaverPanics \/ (\E kind \in {"project", "image"} : Intrude(kind))
  PROVE  Fits'
<1> USE DEF user, inputs, work, scene, workers
<1>0. ink \in Bridges /\ saver \in Savers /\ TypeOK /\ IsProject(location)
  BY DEF Base, TypeOK, Copied
<1>1. UNCHANGED <<posted, window, confirming, pend, batch, actor, closing, canvas, died>>
  BY DEF Workers, SaverPanics, Intrude, CloserDrains, SaverDrains, Copy, Publish
<1>2. /\ ink'.closing = ink.closing /\ ink'.retiring = ink.retiring /\ ink'.path = ink.path
      /\ ink'.saving = ink.saving /\ ink'.status = ink.status /\ ink'.shown = ink.shown
      /\ ink.broken => ink'.broken
  <2>1. Drain(ink) \/ UNCHANGED ink \/ ink' = Broken(ink)
    BY DEF Workers, SaverPanics, Intrude, CloserDrains, SaverDrains, Copy, Publish
  <2> QED
    BY <1>0, <2>1, Draining DEF Broken, Bridges
<1>3. CASE CloserDrains
  <2>1. Quiet' /\ closer = "draining" /\ closer' = "done" /\ UNCHANGED saver
    BY <1>0, <1>3, Draining DEF CloserDrains
  <2> QED
    BY <1>1, <1>2, <2>1 DEF Once, Fits, OneClose, CloseQueued, C1, C2, C3, BeforeReopening, Gates, Shut, Over,
       NoAdmission, IsClosing, Alive, Dead, Early
<1>4. CASE SaverDrains
  <2>1. Quiet' /\ saver.step = "draining" /\ saver'.step # "draining" /\ UNCHANGED closer
    BY <1>0, <1>4, Draining DEF SaverDrains, Refused, Copying, Savers
  <2> QED
    BY <1>1, <1>2, <2>1 DEF Once, Fits, OneClose, CloseQueued, C1, C2, C3, BeforeReopening, Gates, Shut, Over,
       NoAdmission, IsClosing, Alive, Dead, Early
<1>5. CASE Copy \/ Publish(First, "staged", "linked") \/ Publish(Second, "linked", "done") \/ SaverPanics
           \/ (\E kind \in {"project", "image"} : Intrude(kind))
  <2>1. /\ UNCHANGED <<closer, lanes, drawn>> /\ saver.step \notin {"none", "draining"}
        /\ saver' \in {saver, Refused} \cup {[saver EXCEPT !.step = s] : s \in {"staged", "linked", "done"}}
    BY <1>0, <1>5 DEF Copy, Publish, SaverPanics, Intrude, Refused
  <2>2. saver'.step \notin {"none", "draining"}
    BY <1>0, <2>1 DEF Savers, Refused
  <2>3. Quiet /\ Quiet'
    BY <2>1 DEF Base, Copied, Quiet
  <2> QED
    BY <1>1, <1>2, <2>1, <2>2, <2>3 DEF Once, Fits, OneClose, CloseQueued, C1, C2, C3, BeforeReopening, Gates, Shut, Over,
       NoAdmission, IsClosing, Alive, Dead, Early
<1> QED
  BY <1>3, <1>4, <1>5 DEF Workers

LEMMA FitsIsKept ==
  ASSUME Base, Once, Next, Fresh' => Fresh
  PROVE  Fits'
BY AskingFits, AdmittingFits, HoldingFits, ClosingFits, StartingFits, TakingFits, SavingFits, OpeningFits,
   SwitchingFits, RetiringFits, JoiningFits, ReopeningGateFits, ReopeningFits, CarryingOutFits, PollingFits,
   FinishingFits, DrawingFits, DyingFits, WorkersFit
   DEF Next, User, Messages, Actor

-----------------------------------------------------------------------------
(* Where the work goes: it stays, or it is in the file of its project.      *)
Stays ==
  \A w \in lanes \cup drawn \cup reported :
    \/ w \in lanes' \cup drawn' \cup reported'
    \/ IsProject(w.project)' /\ w \in disk'[w.project].project

LEMMA WorkStays ==
  ASSUME Base, Once, Next, ~Admit
  PROVE  Here' /\ Stays
<1> USE DEF user, inputs, work, scene, workers
<1>0. /\ ink \in Bridges /\ TypeOK /\ IsProject(location) /\ location \in Paths
      /\ Here
  BY DEF Base, TypeOK, Copied, Once
<1>1. ASSUME UNCHANGED <<location, reported>>, lanes' \cup drawn' = lanes \cup drawn,
             ink'.shown \in {ink.shown, None, location}
      PROVE  Here' /\ Stays
  BY <1>0, <1>1 DEF Here, Stays
<1>2. ASSUME NEW bridge \in Bridges, Drain(bridge), UNCHANGED location, bridge.shown = ink.shown
      PROVE  Here' /\ Stays
  <2>1. /\ Quiet' /\ ink'.shown = ink.shown
        /\ disk'[location].project \in SUBSET Works
        /\ \A w \in lanes \cup drawn : w \in disk'[location].project \/ w \in reported'
        /\ reported \subseteq reported'
    BY <1>0, <1>2, Draining
  <2>2. IsProject(location)'
    BY <1>2, <2>1, HostAssumption DEF IsProject
  <2>3. Here'
    BY <1>0, <1>2, <2>1 DEF Here, Quiet
  <2>4. Stays
    BY <1>0, <1>2, <2>1, <2>2 DEF Here, Stays
  <2> QED
    BY <2>3, <2>4
<1>3. ASSUME Quiet, Quiet', UNCHANGED reported, ink'.shown \in {None, location'}
      PROVE  Here' /\ Stays
  BY <1>3 DEF Here, Stays, Quiet
<1>4. CASE User \/ Messages \/ Confirm \/ Timer \/ ExitGuard
  <2>1. UNCHANGED <<location, reported, lanes, drawn>>
    BY <1>4 DEF User, Messages, Confirm, Timer, ExitGuard, AskClose, AskReopen, Teardown, Request,
       SaveAs, ProcessActivation, WmClose, ChildClose, ChildReopen, ChildSaveAs
  <2>2. \/ UNCHANGED ink \/ ink' = BeginClose(ink) \/ ink' = Retiring(ink)
        \/ (\E status : ink' = [ink EXCEPT !.status = status])
        \/ (\E path \in Paths : ink' = [ink EXCEPT !.saving = TRUE, !.path = path])
    BY <1>4 DEF User, Messages, Confirm, Timer, ExitGuard, AskClose, AskReopen, Teardown, Request,
       SaveAs, ProcessActivation, WmClose, ChildClose, ChildReopen, ChildSaveAs
  <2>3. ink'.shown = ink.shown
    BY <1>0, <2>2 DEF BeginClose, Retiring, Bridges
  <2> QED
    BY <1>1, <2>1, <2>3
<1>5. CASE StartActor \/ Reopening
  <2>1. UNCHANGED <<reported, lanes, drawn>>
    BY <1>5 DEF StartActor, Reopening
  <2>2. \/ Reopens(ink)
        \/ UNCHANGED location /\ ink' = [Broken(ink) EXCEPT !.status = "failed"]
        \/ UNCHANGED location /\ ink' = CloseResult(BeginClose(Broken(ink)))
    BY <1>5 DEF StartActor, Reopening, Reopens
  <2>3. UNCHANGED location
    BY <1>0, <2>2, Again
  <2>4. ink'.shown = ink.shown
    <3>1. CASE Reopens(ink)
      BY <1>0, <3>1, Again DEF Broken, Bridges
    <3>2. CASE ink' = [Broken(ink) EXCEPT !.status = "failed"] \/ ink' = CloseResult(BeginClose(Broken(ink)))
      BY <1>0, <3>2 DEF CloseResult, BeginClose, Broken, Bridges
    <3> QED
      BY <2>2, <3>1, <3>2
  <2> QED
    BY <1>1, <2>1, <2>3, <2>4
<1>6. CASE TakeBatch \/ Retire \/ Join \/ Close \/ PollClose \/ Tell \/ EndActor
  <2>1. UNCHANGED <<reported, lanes, drawn, location>>
    BY <1>6 DEF TakeBatch, Retire, Join, Close, PollClose, Tell, EndActor
  <2>2. \/ UNCHANGED ink \/ ink' = CloseResult(ink) \/ ink' = [Broken(ink) EXCEPT !.status = "failed"]
        \/ ink' = [ink EXCEPT !.shown = None] \/ ink' = [Finish(ink) EXCEPT !.shown = None]
    BY <1>6 DEF TakeBatch, Retire, Join, Close, PollClose, Tell, EndActor, StartClosing
  <2>3. ink'.shown \in {ink.shown, None}
    BY <1>0, <2>2 DEF CloseResult, Broken, Finish, Bridges
  <2> QED
    BY <1>1, <2>1, <2>3
<1>7. CASE BeginSaveAs \/ Draw
  <2>1. UNCHANGED <<reported, location>> /\ lanes' \cup drawn' = lanes \cup drawn
    BY <1>7 DEF BeginSaveAs, Draw
  <2>2. UNCHANGED ink \/ ink' = Taken \/ ink' = Finish(Taken) \/ ink' = [ink EXCEPT !.shown = location]
    BY <1>7 DEF BeginSaveAs, Draw
  <2>3. ink'.shown \in {ink.shown, location}
    BY <1>0, <2>2 DEF Taken, Finish, Bridges
  <2> QED
    BY <1>1, <2>1, <2>3
<1>8. CASE Activate
  <2>1. Held(ink) \in Bridges /\ Held(ink).shown = ink.shown
    BY <1>0 DEF Held, Bridges
  <2>2. UNCHANGED location
    BY <1>8 DEF Activate
  <2>3. Drain(Held(ink)) \/ ((ink' = ink \/ ink' = Held(ink)) /\ UNCHANGED <<lanes, drawn, reported>>)
    BY <1>8 DEF Activate
  <2> QED
    BY <1>1, <1>2, <2>1, <2>2, <2>3
<1>9. CASE Switch
  <2>1. Quiet /\ Quiet' /\ UNCHANGED reported
    BY <1>9 DEF Switch, Quiet, Once, Gates
  <2> DEFINE f == Finish(ink)
             r == Finish(Reset(ink))
  <2>2. f \in Bridges /\ f.shown = ink.shown /\ r \in Bridges /\ r.shown = None
    BY <1>0 DEF Finish, Reset, Bridges
  <2>3. (UNCHANGED location /\ ink' = f) \/ ink' = r \/ Reopens(f) \/ Reopens(r)
    BY <1>9 DEF Switch, Opens
  <2> HIDE DEF f, r
  <2>4. ink'.shown \in {None, location'}
    <3>1. ASSUME NEW b \in Bridges, Reopens(b)
          PROVE  ink'.shown = b.shown /\ UNCHANGED location
      BY <1>0, <3>1, Again DEF Broken, Bridges
    <3> QED
      BY <1>0, <2>2, <2>3, <3>1 DEF Here
  <2> QED
    BY <1>3, <2>1, <2>4
<1>10. CASE FinishSaveAs
  <2>1. Quiet /\ Quiet' /\ UNCHANGED reported
    BY <1>10 DEF FinishSaveAs, Quiet, Base, Copied
  <2> DEFINE f == Finish(ink)
             r == Finish(Reset(ink))
             e == [Finish(Reset(ink)) EXCEPT !.export = ink.export]
  <2>2. /\ f \in Bridges /\ f.shown = ink.shown /\ r \in Bridges /\ r.shown = None
        /\ ink.export \in BOOLEAN
    BY <1>0 DEF Finish, Reset, Bridges
  <2>3. e \in Bridges /\ e.shown = None
    BY <2>2, Marking DEF Bridges
  <2>4. (UNCHANGED location /\ ink' = f) \/ ink' = r \/ Reopens(e)
    BY <1>10 DEF FinishSaveAs, Opens
  <2> HIDE DEF f, r, e
  <2>5. ink'.shown \in {None, location'}
    <3>1. CASE Reopens(e)
      BY <1>0, <2>3, <3>1, Again DEF Broken, Bridges
    <3> QED
      BY <1>0, <2>2, <2>4, <3>1 DEF Here
  <2> QED
    BY <1>3, <2>1, <2>5
<1>11. CASE Reopen
  <2>1. CASE UNCHANGED <<ink, lanes>>
    BY <1>1, <1>11, <2>1 DEF Reopen
  <2>2. CASE /\ ink.status = "failed" /\ closer = "none" /\ lanes' = {}
             /\ ink' = [Reset(ink) EXCEPT !.closing = FALSE, !.status = "open"]
    <3>1. Quiet
      BY <1>11, <2>2, ReopenedIsClosed
    <3>2. Quiet' /\ UNCHANGED reported
      BY <1>11, <2>2, <3>1 DEF Quiet, Reopen
    <3>3. ink'.shown = None
      BY <1>0, <2>2 DEF Reset, Bridges
    <3> QED
      BY <1>3, <3>1, <3>2, <3>3
  <2> QED
    BY <1>11, <2>1, <2>2 DEF Reopen
<1>12. CASE Panic
  <2> DEFINE bridge == IF actor = "switch" THEN Finish(ink) ELSE ink
  <2>1. bridge \in Bridges /\ bridge.shown = ink.shown
    BY <1>0 DEF Finish, Bridges
  <2>2. /\ UNCHANGED location
        /\ Drain(bridge) \/ (ink' = bridge /\ UNCHANGED <<lanes, drawn, reported>>)
    BY <1>12 DEF Panic
  <2> HIDE DEF bridge
  <2> QED
    BY <1>1, <1>2, <2>1, <2>2
<1>13. CASE Workers \/ SaverPanics \/ (\E kind \in {"project", "image"} : Intrude(kind))
  <2>1. /\ UNCHANGED location
        /\ Drain(ink) \/ ((ink' = ink \/ ink' = Broken(ink)) /\ UNCHANGED <<lanes, drawn, reported>>)
    BY <1>13 DEF Workers, SaverPanics, Intrude, CloserDrains, SaverDrains, Copy, Publish
  <2>2. Broken(ink).shown = ink.shown
    BY <1>0 DEF Broken, Bridges
  <2> QED
    BY <1>0, <1>1, <1>2, <2>1, <2>2
<1> QED
  BY <1>4, <1>5, <1>6, <1>7, <1>8, <1>9, <1>10, <1>11, <1>12, <1>13 DEF Next, User, Actor

(* What the user admits belongs to the project that is open.                *)
LEMMA AdmittingIsHere ==
  ASSUME Base, Once, Admit
  PROVE  /\ Here' /\ Stays
         /\ made.work + 1 = made'.work
         /\ \E w \in Works' : w.n = made'.work /\ w \in lanes'
<1> USE DEF user, inputs, work, scene, workers
<1>1. /\ made \in Counts /\ made.work \in Nat /\ made.work < MaxWork /\ MaxWork \in Nat
      /\ made' = [made EXCEPT !.work = @ + 1]
      /\ location \in Paths /\ ink.shown # None /\ ink.shown \in {None, location}
  BY HostAssumption DEF Base, TypeOK, Admit, Counts, Once, Here
<1>2. made'.work = made.work + 1
  BY <1>1 DEF Counts
<1>3. [project |-> location, n |-> made.work + 1] \in Works
  BY <1>1 DEF Works
<1>4. /\ lanes' = lanes \cup {[project |-> location, n |-> made.work + 1]}
      /\ UNCHANGED <<ink, location, drawn, reported>>
  BY <1>1 DEF Admit
<1>5. Here'
  BY <1>1, <1>4 DEF Once, Here
<1>6. Stays
  BY <1>4 DEF Stays
<1> QED
  BY <1>2, <1>3, <1>4, <1>5, <1>6 DEF Works

LEMMA AllIsKept ==
  ASSUME Base, Once, Next
  PROVE  Here' /\ AllKept'
<1>1. Here' /\ Stays
  BY WorkStays, AdmittingIsHere
<1>2. TypeOK /\ Grown
  BY WhoWrites, ProjectsGrow DEF Base
<1>3. ASSUME NEW n, Kept(n)
      PROVE  Kept(n)'
  <2>1. PICK w \in Works : /\ w.n = n
                           /\ w \in lanes \cup drawn \cup reported \/ (IsProject(w.project) /\ w \in disk[w.project].project)
    BY <1>3 DEF Kept
  <2>2. w.project \in Paths
    BY <2>1 DEF Works
  <2>3. w \in lanes' \cup drawn' \cup reported' \/ (IsProject(w.project)' /\ w \in disk'[w.project].project)
    BY <1>1, <1>2, <2>1, <2>2 DEF Stays, Grown
  <2> QED
    BY <2>1, <2>3 DEF Kept, Works
<1>4. made.work \in Nat /\ (made'.work # made.work => Admit /\ made'.work = made.work + 1)
  BY <1>2, Requests
<1>5. ASSUME NEW n \in 1..made'.work
      PROVE  Kept(n)'
  <2>1. CASE n \in 1..made.work
    BY <1>3, <2>1 DEF Once, AllKept
  <2>2. CASE n \notin 1..made.work
    <3>1. Admit /\ n = made'.work
      BY <1>4, <1>5, <2>2
    <3> QED
      BY <3>1, AdmittingIsHere DEF Kept
  <2> QED
    BY <2>1, <2>2
<1> QED
  BY <1>1, <1>5 DEF AllKept

-----------------------------------------------------------------------------
LEMMA IInvIsKept ==
  ASSUME IInv, [Next]_vars
  PROVE  IInv'
<1>1. Base /\ Base' /\ TypeOK
  BY BaseIsKept DEF IInv, Base
<1>2. CASE Next
  <2>1. SUFFICES ASSUME made'.reopens <= 1
                 PROVE  Once'
    BY <1>1 DEF IInv
  <2>2. Once
    <3>1. made.reopens \in Nat /\ made'.reopens \in {made.reopens, made.reopens + 1}
      BY <1>1, <1>2, Requests
    <3> QED
      BY <2>1, <3>1 DEF IInv
  <2>3. OneReopening' /\ (Fresh' => Fresh)
    BY <1>1, <1>2, <2>1, <2>2, ReopeningsAreKept
  <2> QED
    BY <1>1, <1>2, <2>2, <2>3, FitsIsKept, AllIsKept DEF Once, Fits
<1>3. CASE UNCHANGED vars
  <2>1. UNCHANGED <<ink, posted, inbox, window, restart, confirming, pend, batch, actor, closing, canvas, location,
                    closer, saver, lanes, drawn, reported, disk, made, asked, answered, died>>
    BY <1>3 DEF vars, user, inputs, work, scene, workers
  <2>2. /\ OneReopening' <=> OneReopening
        /\ Fresh' <=> Fresh
        /\ Quiet' <=> Quiet
    BY <2>1 DEF OneReopening, Fresh, R1, R2, R3, R4, Early, Quiet
  <2>3. (OneClose' <=> OneClose) /\ (CloseQueued' <=> CloseQueued)
    BY <2>1 DEF OneClose, CloseQueued, C1, C2, C3, Early
  <2>4. /\ BeforeReopening' <=> BeforeReopening
        /\ Gates' <=> Gates
        /\ Shut' <=> Shut
        /\ Over' <=> Over
    BY <2>1, <2>2, <2>3 DEF BeforeReopening, Gates, Shut, Over, NoAdmission, IsClosing, Alive, Dead, Early
  <2>5. (Here' <=> Here) /\ (AllKept' <=> AllKept)
    BY <2>1 DEF Here, AllKept, Kept, IsProject, Works
  <2> QED
    BY <1>1, <2>1, <2>2, <2>3, <2>4, <2>5 DEF IInv, Once
<1> QED
  BY <1>2, <1>3

LEMMA IInvAtTheStart ==
  ASSUME Init
  PROVE  IInv
<1>1. Base
  BY BaseAtTheStart
<1>2. /\ ~CloseQueued /\ OneReopening
  BY DEF Init, NoWork, CloseQueued, C1, C2, C3, OneReopening, R1, R2, R3, R4
<1>3. OneClose
  BY <1>2 DEF OneClose, CloseQueued
<1>4. Quiet
  BY DEF Init, Quiet
<1>5. BeforeReopening /\ Gates /\ Shut /\ Over
  BY <1>2, <1>4 DEF Init, BeforeReopening, Gates, Shut, Over, NoAdmission, IsClosing, Alive, Dead, Early,
     NoWork, NoSave
<1>6. Here /\ AllKept
  BY DEF Init, Here, AllKept
<1> QED
  BY <1>1, <1>2, <1>3, <1>5, <1>6 DEF IInv, Once

LEMMA IInvIsWorkIsKept ==
  ASSUME Base, Once
  PROVE  WorkIsKept
<1>1. \A w \in lanes \cup drawn : w.project = location
  BY DEF Once, Here
<1>2. ASSUME NEW n \in 1..made.work
      PROVE  \E w \in lanes \cup drawn \cup reported
                      \cup UNION {disk[p].project : p \in {q \in Paths : disk[q].project \notin {None, Foreign}}} :
               w.n = n /\ (w \in lanes \cup drawn \cup reported \/ w \in disk[w.project].project)
  <2>1. PICK w \in Works : /\ w.n = n
                           /\ w \in lanes \cup drawn \cup reported \/ (IsProject(w.project) /\ w \in disk[w.project].project)
    BY DEF Once, AllKept, Kept
  <2>2. w.project \in Paths
    BY DEF Works
  <2> QED
    BY <2>1, <2>2 DEF IsProject
<1>3. window = "gone" => died \/ (closer # "draining" /\ saver.step = "none" /\ lanes \cup drawn = {})
  BY DEF Once, Over, Quiet
<1> QED
  BY <1>1, <1>2, <1>3 DEF WorkIsKept

(* For any paths, work, requests and failures: until the user or a failed   *)
(* update has asked for a second reopening, all work that was admitted is   *)
(* in the lanes or the canvas of its project, in its project's file, or was *)
(* reported lost, and a window that is gone has left none outside the file  *)
(* (admission, activations, closes, Save As and retirement in render_host). *)
THEOREM AllWorkIsKept == Spec => [](made.reopens <= 1 => WorkIsKept)
<1>1. IInv => (made.reopens <= 1 => WorkIsKept)
  BY IInvIsWorkIsKept DEF IInv
<1>2. IInv /\ [Next]_vars => IInv'
  BY IInvIsKept
<1> QED
  BY <1>1, <1>2, IInvAtTheStart, PTL DEF Spec

=============================================================================
