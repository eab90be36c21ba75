---------------------------- MODULE LiveInk_proofs ----------------------------
(***************************************************************************)
(* For any capacity and any number of gestures and moves: a stroke never   *)
(* joins two gestures (WholeGestures), edits, picks and ink wait for each  *)
(* other (InkAndEditsAlternate), and no gesture let in is lost             *)
(* (EveryGestureCloses).                                                   *)
(*                                                                         *)
(* The samples on their way are batch, then queue, then retry.  What makes *)
(* the proof short is that they are always sorted by Rank, strictly but    *)
(* for moves: the order in the sequences can be read off the samples, and  *)
(* all but a few lemmas speak of the sets Waiting and Pushed of samples.   *)
(* On the way stand at most two losses, one (lost) between batch and queue *)
(* and one (latched) behind everything: Live is what follows the last loss *)
(* the owner has not heard of, or everything when there is none.           *)
(***************************************************************************)
EXTENDS LiveInk, SequenceTheorems, TLAPS

Samples == [phase : Phases, gesture : Nat \ {0}, temporary : BOOLEAN]
Jobs    == [kind : {"none", "edit", "pick"}, answered : BOOLEAN, pick : Nat]

IsEnd(s) == s.phase \in {"end", "cancel"}
Rank(s)  == 3 * s.gesture + (IF s.phase = "begin" THEN 0 ELSE IF s.phase = "move" THEN 1 ELSE 2)

(* s is on its way before t *)
Before(s, t) == Rank(s) < Rank(t) \/ (Rank(s) = Rank(t) /\ s.phase = "move")
Sorted(q)    == \A i, j \in DOMAIN q : i < j => Before(q[i], q[j])

(* The samples of a sequence *)
Of(q) == {q[i] : i \in DOMAIN q}

Waiting == Of(batch)
Pushed  == Of(queue) \cup Of(retry)
Stream  == Waiting \cup Pushed
Live    == IF lost THEN Pushed ELSE Stream
Ahead    == IF lost THEN Waiting ELSE Stream

(* The stroke a sample of the stream would go on with *)
Drawn == IF awaiting THEN 0 ELSE active

-----------------------------------------------------------------------------
Type ==
  /\ queue \in Seq(Samples) /\ retry \in Seq(Samples) /\ batch \in Seq(Samples)
  /\ pen \in Nat /\ barrier \in Nat /\ active \in Nat /\ picker \in Nat /\ picked \in Nat
  /\ down \in BOOLEAN /\ closing \in BOOLEAN /\ saving \in BOOLEAN
  /\ admitted \in BOOLEAN /\ picks \in BOOLEAN /\ paused \in BOOLEAN
  /\ skipped \in BOOLEAN /\ latched \in BOOLEAN
  /\ lost \in BOOLEAN /\ awaiting \in BOOLEAN /\ reading \in BOOLEAN
  /\ job \in Jobs
  /\ closed \in Seq([from : Nat, to : Nat])

(* The stream is sorted, and what the pen does next comes after it. *)
InOrder ==
  /\ Sorted(batch) /\ Sorted(queue) /\ Sorted(retry)
  /\ \A s \in Waiting, t \in Pushed : Before(s, t)
  /\ \A s \in Of(queue), t \in Of(retry) : Before(s, t)
  /\ \A s \in Stream : s.gesture <= pen /\ (s.gesture = pen /\ down => ~IsEnd(s))

(* What the owner draws began before everything still to come. *)
Position ==
  /\ active <= pen /\ (down => pen > 0)
  /\ \A s \in Stream : active <= s.gesture
  /\ reading => active = 0
  /\ pc # "samples" => batch = <<>> /\ ~lost
  /\ retry # <<>> => Saturated

(* The gesture f of a Begin, or of the stroke drawn, is closed in T before  *)
(* the samples of later gestures.                                           *)
Ended(T, f) == \E e \in T : e.gesture = f /\ IsEnd(e)
Begun(T)    == {s.gesture : s \in {b \in T : b.phase = "begin"}}
Whole(T, f) ==
  \A s \in T, g \in (Begun(T) \cup {f}) \ (cut \cup {0}) :
    s.phase # "begin" /\ g < s.gesture => Ended(T, g)
Unbroken == Whole(Ahead, Drawn) /\ (lost => Whole(Pushed, 0))

(* A gesture let in is closed by the pen, unless a Save As cuts it off.     *)
Following ==
  ~latched /\ ~closing =>
    \A g \in (Begun(Live) \cup (IF lost THEN {} ELSE {Drawn})) \ (cut \cup {0}) :
      /\ g < pen \/ ~down => Ended(Live, g)
      /\ g = pen /\ down => admitted /\ ~skipped

(* Whether the owner takes a sample of rank n for a pick's, when it takes T *)
(* from the state r.                                                        *)
ReadsAt(T, r, n) ==
  \/ r /\ \A t \in T : t.phase # "move" => Rank(t) >= n
  \/ \E b \in T :
       /\ b.phase = "begin" /\ b.temporary /\ Rank(b) < n
       /\ \A t \in T : t.phase # "move" /\ Rank(t) < n => Rank(t) <= Rank(b)

(* Every End the owner will take for a pick's holds the barrier. *)
Barring(T, r) == \A e \in T : e.phase = "end" /\ ReadsAt(T, r, Rank(e)) => barrier = e.gesture
Barriers ==
  /\ Barring(Ahead, reading)
  /\ lost => Barring(Pushed, FALSE)
  /\ ~latched /\ ReadsAt(Live, reading /\ ~lost, 3 * (pen + 1)) => picks

(* Nothing is let in behind a barrier or a pause. *)
Gates ==
  /\ barrier # 0 => /\ ~admitted /\ active <= barrier
                    /\ \A s \in Stream : s.gesture <= barrier
  /\ picked # 0 => barrier = picked /\ Stream = {}
  /\ paused => ~admitted /\ Stream = {} /\ active = 0 /\ picker = 0 /\ picked = 0
  /\ (job # NoJob) <=> paused
  /\ (job.kind = "pick") <=> (job.pick # 0)
  /\ job.pick # 0 => barrier = job.pick

Inv == Type /\ InOrder /\ Position /\ Unbroken /\ Following /\ Barriers /\ Gates
       /\ StrokesAreWholeGestures
-----------------------------------------------------------------------------
(* Sequences of samples *)

(* The indices of a sequence of samples.                                   *)
LEMMA Domains == ASSUME NEW q \in Seq(Samples) PROVE DOMAIN q = 1..Len(q) /\ Len(q) \in Nat
  OBVIOUS

(* A sequence without samples is empty.                                    *)
LEMMA EmptyOf == ASSUME NEW q \in Seq(Samples) PROVE (Of(q) = {}) = (q = <<>>)
  <1>1. CASE q = <<>>
    BY <1>1 DEF Of
  <1>2. CASE q # <<>>
    <2>1. 1 \in DOMAIN q
      BY <1>2, Domains
    <2>2. QED
      BY <1>2, <2>1 DEF Of
  <1>3. QED
    BY <1>1, <1>2

(* A sample at the end: one more, and in order when it comes after all.    *)
LEMMA Appended ==
  ASSUME NEW q \in Seq(Samples), NEW s \in Samples
  PROVE  /\ Append(q, s) \in Seq(Samples)
         /\ Of(Append(q, s)) = Of(q) \cup {s}
         /\ Sorted(q) /\ (\A t \in Of(q) : Before(t, s)) => Sorted(Append(q, s))
  <1> DEFINE a == Append(q, s)
  <1>1. /\ a \in Seq(Samples) /\ Len(a) = Len(q) + 1
        /\ \A i \in 1..Len(q) : a[i] = q[i]
        /\ a[Len(q) + 1] = s
    BY AppendProperties
  <1>2. DOMAIN a = 1..(Len(q) + 1) /\ DOMAIN q = 1..Len(q) /\ Len(q) \in Nat
    BY <1>1, Domains
  <1>3. Of(a) = Of(q) \cup {s}
    <2>1. \A x \in Of(a) : x \in Of(q) \cup {s}
      BY <1>1, <1>2 DEF Of
    <2>2. s \in Of(a)
      BY <1>1, <1>2 DEF Of
    <2>3. \A x \in Of(q) : x \in Of(a)
      BY <1>1, <1>2 DEF Of
    <2>4. QED
      BY <2>1, <2>2, <2>3
  <1>4. ASSUME Sorted(q), \A t \in Of(q) : Before(t, s)
        PROVE  Sorted(a)
    <2>1. ASSUME NEW i \in DOMAIN a, NEW j \in DOMAIN a, i < j
          PROVE  Before(a[i], a[j])
      <3>1. i \in 1..Len(q) /\ a[i] = q[i]
        BY <1>1, <1>2, <2>1
      <3>2. CASE j = Len(q) + 1
        BY <1>1, <1>2, <1>4, <3>1, <3>2 DEF Of
      <3>3. CASE j \in 1..Len(q)
        BY <1>1, <1>2, <1>4, <2>1, <3>1, <3>3 DEF Sorted
      <3>4. QED
        BY <1>2, <2>1, <3>2, <3>3
    <2>2. QED
      BY <2>1 DEF Sorted
  <1>5. QED
    BY <1>1, <1>3, <1>4

(* One sample taken out.                                                   *)
LEMMA Removed ==
  ASSUME NEW q \in Seq(Samples), NEW k \in DOMAIN q
  PROVE  /\ RemoveAt(q, k) \in Seq(Samples)
         /\ Of(RemoveAt(q, k)) \subseteq Of(q)
         /\ Of(q) \subseteq Of(RemoveAt(q, k)) \cup {q[k]}
         /\ Sorted(q) => Sorted(RemoveAt(q, k))
  <1> DEFINE l == SubSeq(q, 1, k - 1)
             r == SubSeq(q, k + 1, Len(q))
             a == RemoveAt(q, k)
  <1>1. DOMAIN q = 1..Len(q) /\ Len(q) \in Nat /\ k \in 1..Len(q)
    BY Domains
  <1>2. \A i \in 1..Len(q) : q[i] \in Samples
    OBVIOUS
  <1>3. /\ l \in Seq(Samples) /\ Len(l) = k - 1
        /\ \A i \in 1..(k - 1) : l[i] = q[i]
    <2>1. \A i \in 1..(k - 1) : q[i] \in Samples
      BY <1>1, <1>2
    <2>2. QED
      BY <1>1, <2>1, SubSeqProperties
  <1>4. /\ r \in Seq(Samples) /\ Len(r) = Len(q) - k
        /\ \A i \in 1..(Len(q) - k) : r[i] = q[k + i]
    <2>1. \A i \in (k + 1)..Len(q) : q[i] \in Samples
      BY <1>1, <1>2
    <2>2. /\ r \in Seq(Samples)
          /\ Len(r) = IF k + 1 <= Len(q) THEN Len(q) - (k + 1) + 1 ELSE 0
          /\ \A i \in 1..(Len(q) - (k + 1) + 1) : r[i] = q[(k + 1) + i - 1]
      BY <1>1, <2>1, SubSeqProperties
    <2>3. QED
      BY <1>1, <2>2
  <1>5. a = l \o r
    BY DEF RemoveAt
  <1>6. /\ a \in Seq(Samples) /\ Len(a) = Len(q) - 1
        /\ \A i \in 1..(Len(q) - 1) : a[i] = IF i < k THEN q[i] ELSE q[i + 1]
    <2> HIDE DEF a, l, r
    <2>1. /\ l \o r \in Seq(Samples) /\ Len(l \o r) = Len(l) + Len(r)
          /\ \A i \in 1..(Len(l) + Len(r)) :
               (l \o r)[i] = IF i <= Len(l) THEN l[i] ELSE r[i - Len(l)]
      BY <1>3, <1>4, ConcatProperties
    <2>2. a \in Seq(Samples) /\ Len(a) = Len(q) - 1
      BY <1>1, <1>3, <1>4, <1>5, <2>1
    <2>3. ASSUME NEW i \in 1..(Len(q) - 1)
          PROVE  a[i] = IF i < k THEN q[i] ELSE q[i + 1]
      <3>1. CASE i < k
        BY <1>1, <1>3, <1>4, <1>5, <2>1, <3>1
      <3>2. CASE ~(i < k)
        <4>0. /\ i \in 1..(Len(l) + Len(r)) /\ ~(i <= Len(l))
              /\ i - Len(l) = i - (k - 1) /\ i - (k - 1) \in 1..(Len(q) - k)
          BY <1>1, <1>3, <1>4, <3>2
        <4>1. a[i] = r[i - (k - 1)] /\ i - (k - 1) \in 1..(Len(q) - k)
          BY <1>5, <2>1, <4>0
        <4>2. r[i - (k - 1)] = q[k + (i - (k - 1))] /\ k + (i - (k - 1)) = i + 1
          BY <1>1, <1>4, <4>1
        <4>3. QED
          BY <3>2, <4>1, <4>2
      <3>3. QED
        BY <3>1, <3>2
    <2>4. QED
      BY <2>2, <2>3
  <1> HIDE DEF a, l, r
  <1>7. DOMAIN a = 1..(Len(q) - 1)
    BY <1>1, <1>6
  <1>8. Of(a) \subseteq Of(q)
    <2>1. \A i \in DOMAIN a : \E j \in DOMAIN q : a[i] = q[j]
      <3> TAKE i \in DOMAIN a
      <3>1. CASE i < k
        BY <1>1, <1>6, <1>7, <3>1
      <3>2. CASE ~(i < k)
        <4>1. i + 1 \in DOMAIN q /\ a[i] = q[i + 1]
          BY <1>1, <1>6, <1>7, <3>2
        <4>2. QED
          BY <4>1
      <3>3. QED
        BY <3>1, <3>2
    <2>2. QED
      BY <2>1 DEF Of
  <1>9. Of(q) \subseteq Of(a) \cup {q[k]}
    <2>1. ASSUME NEW j \in DOMAIN q, j # k
          PROVE  \E i \in DOMAIN a : a[i] = q[j]
      <3>1. CASE j < k
        BY <1>1, <1>6, <1>7, <2>1, <3>1
      <3>2. CASE j > k
        <4>1. j - 1 \in DOMAIN a /\ a[j - 1] = q[j]
          BY <1>1, <1>6, <1>7, <3>2
        <4>2. QED
          BY <4>1
      <3>3. QED
        BY <1>1, <2>1, <3>1, <3>2
    <2>2. QED
      BY <2>1 DEF Of
  <1>10. ASSUME Sorted(q)
         PROVE  Sorted(a)
    <2>1. ASSUME NEW i \in DOMAIN a, NEW j \in DOMAIN a, i < j
          PROVE  Before(a[i], a[j])
      <3> DEFINE m == IF i < k THEN i ELSE i + 1
                 n == IF j < k THEN j ELSE j + 1
      <3>1. /\ m \in DOMAIN q /\ n \in DOMAIN q /\ m < n
            /\ a[i] = q[m] /\ a[j] = q[n]
        BY <1>1, <1>6, <1>7, <2>1
      <3>2. QED
        BY <1>10, <3>1 DEF Sorted
    <2>2. QED
      BY <2>1 DEF Sorted
  <1>11. QED
    BY <1>6, <1>8, <1>9, <1>10 DEF a

(* One sequence after the other.                                           *)
LEMMA Joined ==
  ASSUME NEW q \in Seq(Samples), NEW r \in Seq(Samples)
  PROVE  /\ q \o r \in Seq(Samples)
         /\ Of(q \o r) = Of(q) \cup Of(r)
         /\ Sorted(q) /\ Sorted(r) /\ (\A s \in Of(q), t \in Of(r) : Before(s, t))
              => Sorted(q \o r)
  <1> DEFINE a == q \o r
  <1>1. /\ a \in Seq(Samples) /\ Len(a) = Len(q) + Len(r)
        /\ \A i \in 1..(Len(q) + Len(r)) : a[i] = IF i <= Len(q) THEN q[i] ELSE r[i - Len(q)]
    BY ConcatProperties
  <1>2. /\ DOMAIN q = 1..Len(q) /\ Len(q) \in Nat
        /\ DOMAIN r = 1..Len(r) /\ Len(r) \in Nat
        /\ DOMAIN a = 1..(Len(q) + Len(r))
    BY <1>1, Domains
  <1> HIDE DEF a
  <1>3. \A i \in DOMAIN a : \/ i \in DOMAIN q /\ a[i] = q[i]
                            \/ i > Len(q) /\ i - Len(q) \in DOMAIN r /\ a[i] = r[i - Len(q)]
    BY <1>1, <1>2
  <1>4. Of(a) = Of(q) \cup Of(r)
    <2>1. Of(a) \subseteq Of(q) \cup Of(r)
      BY <1>3 DEF Of
    <2>2. Of(q) \subseteq Of(a)
      BY SMTT(30), <1>1, <1>2 DEF Of
    <2>3. Of(r) \subseteq Of(a)
      <3>1. \A j \in DOMAIN r : j + Len(q) \in DOMAIN a /\ a[j + Len(q)] = r[j]
        BY <1>1, <1>2
      <3>2. QED
        BY <3>1 DEF Of
    <2>4. QED
      BY <2>1, <2>2, <2>3
  <1>5. ASSUME Sorted(q), Sorted(r), \A s \in Of(q), t \in Of(r) : Before(s, t)
        PROVE  Sorted(a)
    <2>1. ASSUME NEW i \in DOMAIN a, NEW j \in DOMAIN a, i < j
          PROVE  Before(a[i], a[j])
      <3>1. CASE i \in DOMAIN q /\ j \in DOMAIN q
        BY <1>1, <1>2, <1>5, <2>1, <3>1 DEF Sorted
      <3>2. CASE i \in DOMAIN q /\ j > Len(q)
        BY <1>2, <1>3, <1>5, <3>2 DEF Of
      <3>3. CASE i > Len(q)
        <4>1. /\ i - Len(q) \in DOMAIN r /\ j - Len(q) \in DOMAIN r /\ i - Len(q) < j - Len(q)
              /\ a[i] = r[i - Len(q)] /\ a[j] = r[j - Len(q)]
          BY <1>1, <1>2, <2>1, <3>3
        <4>2. QED
          BY <1>5, <4>1 DEF Sorted
      <3>4. QED
        BY <1>2, <2>1, <3>1, <3>2, <3>3
    <2>2. QED
      BY <2>1 DEF Sorted
  <1>6. QED
    BY <1>1, <1>4, <1>5 DEF a

(* The first sample and the others.                                        *)
LEMMA FirstTaken ==
  ASSUME NEW q \in Seq(Samples), q # <<>>
  PROVE  /\ Tail(q) \in Seq(Samples) /\ q[1] \in Samples
         /\ Of(q) = {q[1]} \cup Of(Tail(q))
         /\ Sorted(q) => Sorted(Tail(q)) /\ \A t \in Of(Tail(q)) : Before(q[1], t)
  <1> DEFINE a == Tail(q)
  <1>1. /\ a \in Seq(Samples) /\ Len(a) = Len(q) - 1
        /\ \A i \in 1..Len(a) : a[i] = q[i + 1]
    BY HeadTailProperties
  <1>2. /\ DOMAIN q = 1..Len(q) /\ Len(q) \in Nat /\ Len(q) > 0
        /\ DOMAIN a = 1..(Len(q) - 1)
    BY <1>1, Domains
  <1>3. q[1] \in Samples
    BY <1>2
  <1> HIDE DEF a
  <1>4. Of(q) = {q[1]} \cup Of(a)
    <2>1. \A i \in DOMAIN q : i = 1 \/ (i - 1 \in DOMAIN a /\ q[i] = a[i - 1])
      BY <1>1, <1>2
    <2>2. \A i \in DOMAIN a : i + 1 \in DOMAIN q /\ a[i] = q[i + 1]
      BY <1>1, <1>2
    <2>3. 1 \in DOMAIN q
      BY <1>2
    <2>4. QED
      BY <2>1, <2>2, <2>3 DEF Of
  <1>5. ASSUME Sorted(q)
        PROVE  Sorted(a) /\ \A t \in Of(a) : Before(q[1], t)
    <2>1. \A i \in DOMAIN a : i + 1 \in DOMAIN q /\ 1 < i + 1 /\ a[i] = q[i + 1]
      BY <1>1, <1>2
    <2>2. \A i, j \in DOMAIN a : i < j => i + 1 < j + 1
      BY <1>2
    <2>3. 1 \in DOMAIN q
      BY <1>2
    <2>4. QED
      BY <1>5, <2>1, <2>2, <2>3 DEF Sorted, Of
  <1>6. QED
    BY <1>1, <1>3, <1>4, <1>5 DEF a

-----------------------------------------------------------------------------
(* Ranks, and what the owner makes of a set of samples *)

(* The rank of a sample tells its gesture and its phase.                   *)
LEMMA Ranks ==
  ASSUME NEW s \in Samples
  PROVE  /\ Rank(s) \in Nat /\ s.gesture \in Nat \ {0} /\ s.phase \in Phases
         /\ 3 * s.gesture <= Rank(s) /\ Rank(s) < 3 * (s.gesture + 1)
         /\ (Rank(s) = 3 * s.gesture) <=> (s.phase = "begin")
         /\ (Rank(s) = 3 * s.gesture + 1) <=> (s.phase = "move")
         /\ (Rank(s) = 3 * s.gesture + 2) <=> IsEnd(s)
  BY DEF Samples, Rank, IsEnd, Phases

(* A sample on its way before another is of an earlier gesture or of the   *)
(* same, and of an earlier one when it ends its gesture or the other       *)
(* begins one.                                                             *)
LEMMA Later ==
  ASSUME NEW s \in Samples, NEW t \in Samples, Before(s, t)
  PROVE  /\ s.gesture <= t.gesture
         /\ s.phase # "move" \/ t.phase # "move" => Rank(s) < Rank(t)
         /\ IsEnd(s) \/ t.phase = "begin" => s.gesture < t.gesture
  BY DEF Samples, Rank, IsEnd, Phases, Before

(* A sample that comes after rank n, and moves left out, change nothing    *)
(* before n.                                                               *)
LEMMA ReadsFewer ==
  ASSUME NEW T, NEW U, T \subseteq Samples, NEW s \in Samples, NEW r \in BOOLEAN, NEW n \in Int,
         U \subseteq T \cup {s}, \A t \in T : t.phase # "move" => t \in U,
         s.phase = "move" \/ Rank(s) >= n, ReadsAt(U, r, n)
  PROVE  ReadsAt(T, r, n)
  <1>1. CASE r /\ \A t \in U : t.phase # "move" => Rank(t) >= n
    BY <1>1 DEF ReadsAt
  <1>2. CASE \E b \in U : /\ b.phase = "begin" /\ b.temporary /\ Rank(b) < n
                          /\ \A t \in U : t.phase # "move" /\ Rank(t) < n => Rank(t) <= Rank(b)
    <2>1. PICK b \in U : /\ b.phase = "begin" /\ b.temporary /\ Rank(b) < n
                         /\ \A t \in U : t.phase # "move" /\ Rank(t) < n => Rank(t) <= Rank(b)
      BY <1>2
    <2>2. b \in T
      BY <2>1, Ranks
    <2>3. QED
      BY <2>1, <2>2 DEF ReadsAt
  <1>3. QED
    BY <1>1, <1>2 DEF ReadsAt

(* Beyond every sample the rank does not matter.                           *)
LEMMA ReadsTop ==
  ASSUME NEW T, T \subseteq Samples, NEW r \in BOOLEAN, NEW m \in Int, NEW n \in Int,
         \A t \in T : t.phase # "move" => Rank(t) < m /\ Rank(t) < n,
         ReadsAt(T, r, m)
  PROVE  ReadsAt(T, r, n)
  <1>1. CASE r /\ \A t \in T : t.phase # "move" => Rank(t) >= m
    <2>1. \A t \in T : ~(t.phase # "move")
      BY <1>1, Ranks
    <2>2. QED
      BY <1>1, <2>1 DEF ReadsAt
  <1>2. CASE \E b \in T : /\ b.phase = "begin" /\ b.temporary /\ Rank(b) < m
                          /\ \A t \in T : t.phase # "move" /\ Rank(t) < m => Rank(t) <= Rank(b)
    <2>1. PICK b \in T : /\ b.phase = "begin" /\ b.temporary /\ Rank(b) < m
                         /\ \A t \in T : t.phase # "move" /\ Rank(t) < m => Rank(t) <= Rank(b)
      BY <1>2
    <2>2. Rank(b) < n
      BY <2>1
    <2>3. \A t \in T : t.phase # "move" => Rank(t) <= Rank(b)
      BY <2>1
    <2>4. QED
      BY <2>1, <2>2, <2>3 DEF ReadsAt
  <1>3. QED
    BY <1>1, <1>2 DEF ReadsAt

(* The owner takes f, the first of T, and goes on with U in state q.       *)
LEMMA ReadsStep ==
  ASSUME NEW T, NEW U, T \subseteq Samples, NEW f \in Samples, T = {f} \cup U,
         \A t \in U : Before(f, t),
         NEW r \in BOOLEAN, NEW q \in BOOLEAN, NEW n \in Int, Rank(f) < n,
         f.phase = "begin" => (q => f.temporary), f.phase = "move" => (q => r),
         IsEnd(f) => ~q,
         ReadsAt(U, q, n)
  PROVE  ReadsAt(T, r, n)
  <1>1. f.phase = "begin" \/ f.phase = "move" \/ IsEnd(f)
    BY Ranks DEF Phases, IsEnd
  <1>2. CASE q /\ \A t \in U : t.phase # "move" => Rank(t) >= n
    <2>1. CASE f.phase = "begin"
      <3>1. \A t \in T : t.phase # "move" /\ Rank(t) < n => Rank(t) <= Rank(f)
        <4>1. \A t \in U : t.phase # "move" => ~(Rank(t) < n)
          BY <1>2, Ranks
        <4>2. Rank(f) <= Rank(f)
          BY Ranks
        <4>3. QED
          BY <4>1, <4>2
      <3>2. QED
        BY <1>2, <2>1, <3>1 DEF ReadsAt
    <2>2. CASE f.phase = "move"
      BY <1>2, <2>2 DEF ReadsAt
    <2>3. QED
      BY <1>1, <1>2, <2>1, <2>2
  <1>3. CASE \E b \in U : /\ b.phase = "begin" /\ b.temporary /\ Rank(b) < n
                          /\ \A t \in U : t.phase # "move" /\ Rank(t) < n => Rank(t) <= Rank(b)
    <2>1. PICK b \in U : /\ b.phase = "begin" /\ b.temporary /\ Rank(b) < n
                         /\ \A t \in U : t.phase # "move" /\ Rank(t) < n => Rank(t) <= Rank(b)
      BY <1>3
    <2>2. Rank(f) <= Rank(b)
      BY <2>1, Later, Ranks
    <2>3. QED
      BY <2>1, <2>2 DEF ReadsAt
  <1>4. QED
    BY <1>2, <1>3 DEF ReadsAt

(* What is a pick's whatever the owner was reading before is also a pick's *)
(* when he was reading.                                                    *)
LEMMA ReadsLess ==
  ASSUME NEW T, NEW r, NEW n, ReadsAt(T, FALSE, n)
  PROVE  ReadsAt(T, r, n)
  BY DEF ReadsAt

-----------------------------------------------------------------------------
(* A sample of the pen *)

(* s is the pen's next sample *)
Placed(s) ==
  /\ s.gesture = pen' /\ pen' \in Nat
  /\ \A t \in Stream : Before(t, s)
  /\ \/ s.phase = "begin" /\ pen' = pen + 1 /\ ~down /\ down' = TRUE
     \/ s.phase = "move" /\ pen' = pen /\ down /\ down' = TRUE
     \/ IsEnd(s) /\ pen' = pen /\ down /\ down' = FALSE

(* Everything on its way is a sample.                                      *)
LEMMA StreamTyped ==
  ASSUME Type
  PROVE  /\ Waiting \subseteq Samples /\ Pushed \subseteq Samples /\ Stream \subseteq Samples
         /\ Live \subseteq Samples /\ Ahead \subseteq Samples
         /\ Live \subseteq Stream /\ Ahead \subseteq Stream
  <1>1. \A q \in Seq(Samples) : Of(q) \subseteq Samples
    BY Domains DEF Of
  <1>2. QED
    BY <1>1 DEF Type, Waiting, Pushed, Stream, Live, Ahead

(* Every call of the pen's handlers pushes the next sample of its gesture. *)
LEMMA PenPlaces ==
  ASSUME Inv, Pen
  PROVE  \E s \in Samples : Placed(s) /\ Push(s)
  <1>0. /\ pen \in Nat /\ down \in BOOLEAN
        /\ Stream \subseteq Samples
        /\ \A t \in Stream : t.gesture <= pen /\ (t.gesture = pen /\ down => ~IsEnd(t))
        /\ down => pen > 0
    BY StreamTyped DEF Inv, Type, InOrder, Position
  <1>1. CASE PenDown
    <2>1. PICK temporary \in BOOLEAN : Push(Sample("begin", pen + 1, temporary))
      BY <1>1 DEF PenDown
    <2> DEFINE s == Sample("begin", pen + 1, temporary)
    <2>2. s \in Samples /\ s.phase = "begin" /\ s.gesture = pen + 1
      BY <1>0 DEF Sample, Samples, Phases
    <2>3. ~down /\ down' = TRUE /\ pen' = pen + 1
      BY <1>1 DEF PenDown
    <2>4. \A t \in Stream : Before(t, s)
      BY <1>0, <2>2, Ranks DEF Before
    <2> HIDE DEF s
    <2>5. Placed(s)
      BY <1>0, <2>2, <2>3, <2>4 DEF Placed
    <2>6. QED
      BY <2>1, <2>2, <2>5 DEF s
  <1>2. CASE PenMoves
    <2> DEFINE s == Sample("move", pen, FALSE)
    <2>1. down /\ Push(s) /\ down' = TRUE /\ pen' = pen
      BY <1>0, <1>2 DEF PenMoves
    <2>2. s \in Samples /\ s.phase = "move" /\ s.gesture = pen /\ Rank(s) = 3 * pen + 1
      BY <1>0, <2>1 DEF Sample, Samples, Phases, Rank
    <2> HIDE DEF s
    <2>3. ASSUME NEW t \in Stream
          PROVE  Before(t, s)
      <3>1. /\ t \in Samples /\ t.gesture <= pen /\ (t.gesture = pen => ~IsEnd(t))
        BY <1>0, <2>1
      <3>2. Rank(t) <= Rank(s) /\ (Rank(t) = Rank(s) => t.phase = "move")
        <4>1. /\ t.gesture \in Nat /\ Rank(t) \in Nat /\ t.phase \in Phases
              /\ Rank(t) < 3 * (t.gesture + 1)
              /\ (Rank(t) = 3 * t.gesture + 1) <=> (t.phase = "move")
              /\ (Rank(t) = 3 * t.gesture + 2) <=> IsEnd(t)
              /\ 3 * t.gesture <= Rank(t)
          BY <3>1, Ranks
        <4>2. QED
          BY <1>0, <2>1, <2>2, <3>1, <4>1
      <3>3. QED
        BY <2>2, <3>1, <3>2, Ranks DEF Before
    <2>4. Placed(s)
      BY <1>0, <2>1, <2>2, <2>3 DEF Placed
    <2>5. QED
      BY <2>1, <2>2, <2>4
  <1>3. CASE PenUp
    <2>1. PICK phase \in {"end", "cancel"} : Push(Sample(phase, pen, FALSE))
      BY <1>3 DEF PenUp
    <2> DEFINE s == Sample(phase, pen, FALSE)
    <2>2. down /\ down' = FALSE /\ pen' = pen
      BY <1>3 DEF PenUp
    <2>3. s \in Samples /\ IsEnd(s) /\ s.gesture = pen /\ Rank(s) = 3 * pen + 2
      BY <1>0, <2>2 DEF Sample, Samples, Phases, Rank, IsEnd
    <2> HIDE DEF s
    <2>4. ASSUME NEW t \in Stream
          PROVE  Before(t, s)
      <3>1. /\ t \in Samples /\ t.gesture <= pen /\ (t.gesture = pen => ~IsEnd(t))
        BY <1>0, <2>2
      <3>2. Rank(t) < Rank(s)
        <4>1. /\ t.gesture \in Nat /\ Rank(t) \in Nat /\ t.phase \in Phases
              /\ Rank(t) < 3 * (t.gesture + 1)
              /\ (Rank(t) = 3 * t.gesture + 1) <=> (t.phase = "move")
              /\ (Rank(t) = 3 * t.gesture + 2) <=> IsEnd(t)
              /\ 3 * t.gesture <= Rank(t)
          BY <3>1, Ranks
        <4>2. QED
          BY <1>0, <2>2, <2>3, <3>1, <4>1
      <3>3. QED
        BY <3>2 DEF Before
    <2>5. Placed(s)
      BY <1>0, <2>2, <2>3, <2>4 DEF Placed
    <2>6. QED
      BY <2>1, <2>3, <2>5 DEF s
  <1>4. QED
    BY <1>1, <1>2, <1>3 DEF Pen

(* What a push leaves of the stream: at most the sample more, and no       *)
(* transition less.                                                        *)
Grown(s, T, U) == U \subseteq T \cup {s} /\ \A t \in T : t.phase # "move" => t \in U

(* A sample stored comes last, in whichever lane.                          *)
LEMMA Stores ==
  ASSUME Type, InOrder, Position, NEW s \in Samples, Store(s), \A t \in Stream : Before(t, s),
         UNCHANGED batch
  PROVE  /\ queue' \in Seq(Samples) /\ retry' \in Seq(Samples)
         /\ Waiting' = Waiting
         /\ Grown(s, Pushed, Pushed') /\ s \in Pushed'
         /\ Sorted(batch') /\ Sorted(queue') /\ Sorted(retry')
         /\ \A x \in Waiting', t \in Pushed' : Before(x, t)
         /\ \A x \in Of(queue'), t \in Of(retry') : Before(x, t)
         /\ retry' # <<>> => Saturated'
  <1>0. /\ queue \in Seq(Samples) /\ retry \in Seq(Samples)
        /\ Sorted(queue) /\ Sorted(retry) /\ Sorted(batch)
        /\ \A x \in Waiting, t \in Pushed : Before(x, t)
        /\ \A x \in Of(queue), t \in Of(retry) : Before(x, t)
        /\ retry # <<>> => Saturated
        /\ Pushed = Of(queue) \cup Of(retry) /\ Stream = Waiting \cup Pushed
        /\ Pushed' = Of(queue') \cup Of(retry')
    BY DEF Type, InOrder, Position, Pushed, Stream
  <1>1. Waiting' = Waiting /\ Sorted(batch')
    BY <1>0 DEF Waiting
  <1>2. CASE Fits(s) /\ retry' = retry
    <2>1. retry = <<>> /\ Of(retry) = {}
      <3>1. ~Saturated
        BY <1>0, <1>2, Domains, LaneAssumption DEF Fits, Saturated
      <3>2. QED
        BY <1>0, <3>1, EmptyOf
    <2>2. \E q \in Seq(Samples) :
            /\ queue' = Append(q, s) /\ Of(q) \subseteq Of(queue) /\ Sorted(q)
            /\ \A t \in Of(queue) : t.phase # "move" => t \in Of(q)
      <3>1. CASE queue' = Append(queue, s)
        BY <1>0, <3>1
      <3>2. CASE \E i \in Evictable : queue' = Append(RemoveAt(queue, i), s)
        <4>1. PICK i \in DOMAIN queue :
                queue[i].phase = "move" /\ queue' = Append(RemoveAt(queue, i), s)
          BY <3>2 DEF Evictable
        <4>2. /\ RemoveAt(queue, i) \in Seq(Samples)
              /\ Of(RemoveAt(queue, i)) \subseteq Of(queue)
              /\ Of(queue) \subseteq Of(RemoveAt(queue, i)) \cup {queue[i]}
              /\ Sorted(RemoveAt(queue, i))
          BY <1>0, Removed
        <4>3. QED
          BY <4>1, <4>2
      <3>3. QED
        BY <1>2, <3>1, <3>2 DEF Fits
    <2>3. PICK q \in Seq(Samples) :
            /\ queue' = Append(q, s) /\ Of(q) \subseteq Of(queue) /\ Sorted(q)
            /\ \A t \in Of(queue) : t.phase # "move" => t \in Of(q)
      BY <2>2
    <2>4. /\ queue' \in Seq(Samples) /\ Of(queue') = Of(q) \cup {s} /\ Sorted(queue')
      BY <1>0, <2>3, Appended
    <2>5. /\ retry' = <<>> /\ Of(retry') = {}
      BY <1>2, <2>1
    <2>6. Grown(s, Pushed, Pushed') /\ s \in Pushed'
      BY <1>0, <2>1, <2>3, <2>4, <2>5 DEF Grown
    <2>7. \A x \in Waiting', t \in Pushed' : Before(x, t)
      BY <1>0, <1>1, <2>6 DEF Grown
    <2>8. QED
      BY <1>0, <1>1, <1>2, <2>4, <2>5, <2>6, <2>7
  <1>3. CASE Saturated /\ retry' = Append(retry, s) /\ queue' = queue
    <2>1. /\ retry' \in Seq(Samples) /\ Of(retry') = Of(retry) \cup {s} /\ Sorted(retry')
      BY <1>0, <1>3, Appended
    <2>2. Grown(s, Pushed, Pushed') /\ s \in Pushed'
      BY <1>0, <1>3, <2>1 DEF Grown
    <2>3. \A x \in Waiting', t \in Pushed' : Before(x, t)
      BY <1>0, <1>1, <2>2 DEF Grown
    <2>4. \A x \in Of(queue'), t \in Of(retry') : Before(x, t)
      BY <1>0, <1>3, <2>1
    <2>5. Saturated'
      BY <1>3 DEF Saturated, Evictable
    <2>6. QED
      BY <1>0, <1>1, <1>3, <2>1, <2>2, <2>3, <2>4, <2>5
  <1>4. QED
    BY <1>2, <1>3 DEF Store

(* A sample pushed makes every part of the stream behind it grow, and      *)
(* leaves the part before a loss alone.                                    *)
LEMMA GrownStream ==
  ASSUME NEW s, Waiting' = Waiting, lost' = lost, Grown(s, Pushed, Pushed')
  PROVE  /\ Grown(s, Stream, Stream') /\ Grown(s, Live, Live') /\ Grown(s, Ahead, Ahead')
         /\ s \in Pushed' => s \in Live' /\ s \in Stream'
         /\ lost => Ahead' = Ahead /\ Live = Pushed /\ Live' = Pushed'
         /\ ~lost => Ahead = Live /\ Ahead' = Live'
         /\ Pushed' = Pushed => Live' = Live /\ Ahead' = Ahead /\ Stream' = Stream
  BY DEF Grown, Stream, Live, Ahead

(* Whatever the gates say, the stream stays a sorted one with at most one  *)
(* sample more, and the owner sees nothing of it.                          *)
LEMMA PushGrows ==
  ASSUME Inv, NEW s \in Samples, Placed(s), Push(s)
  PROVE  /\ queue' \in Seq(Samples) /\ retry' \in Seq(Samples)
         /\ Waiting' = Waiting /\ Grown(s, Pushed, Pushed')
         /\ Sorted(batch') /\ Sorted(queue') /\ Sorted(retry')
         /\ \A x \in Waiting', t \in Pushed' : Before(x, t)
         /\ \A x \in Of(queue'), t \in Of(retry') : Before(x, t)
         /\ retry' # <<>> => Saturated'
         /\ Admit(s) => s \in Pushed'
         /\ Refuse(s) \/ Lose(s) => Pushed' = Pushed
         /\ UNCHANGED <<closing, saving, pc, batch, lost, active, awaiting, reading, picker,
                        picked, job, closed, paused>>
  <1>1. UNCHANGED <<closing, saving, pc, batch, lost, active, awaiting, reading, picker,
                    picked, job, closed, paused>>
    BY DEF Push, gates, owner, Refuse, Lose, Admit
  <1>2. /\ Type /\ InOrder /\ Position /\ \A t \in Stream : Before(t, s)
    BY DEF Inv, Placed
  <1>3. CASE Admit(s)
    <2>1. Store(s) /\ UNCHANGED batch
      BY <1>1, <1>3 DEF Admit
    <2>2. /\ queue' \in Seq(Samples) /\ retry' \in Seq(Samples)
          /\ Waiting' = Waiting /\ Grown(s, Pushed, Pushed') /\ s \in Pushed'
          /\ Sorted(batch') /\ Sorted(queue') /\ Sorted(retry')
          /\ \A x \in Waiting', t \in Pushed' : Before(x, t)
          /\ \A x \in Of(queue'), t \in Of(retry') : Before(x, t)
          /\ retry' # <<>> => Saturated'
      BY <1>2, <2>1, Stores
    <2>3. ~Refuse(s)
      BY <1>3 DEF Admit, Refuse, Open
    <2>4. ~Lose(s)
      <3>1. CASE Fits(s)
        BY <1>2, <3>1, Domains, LaneAssumption DEF Type, Lose, Fits, Saturated
      <3>2. CASE s.phase # "move" /\ Len(retry) < Capacity
        <4>1. Len(retry) \in Nat /\ Capacity \in Nat
          BY <1>2, Domains, LaneAssumption DEF Type
        <4>2. QED
          BY <3>2, <4>1 DEF Lose
      <3>3. QED
        BY <2>1, <3>1, <3>2 DEF Store
    <2>5. QED
      BY <1>1, <2>2, <2>3, <2>4
  <1>4. CASE Refuse(s) \/ Lose(s)
    <2>1. queue' = queue /\ retry' = retry
      BY <1>4 DEF Refuse, Lose
    <2>2. /\ Waiting' = Waiting /\ Pushed' = Pushed
      BY <1>1, <2>1 DEF Waiting, Pushed
    <2>3. Saturated' = Saturated
      BY <2>1 DEF Saturated, Evictable
    <2>4. ~Admit(s) \/ s \in Pushed'
      <3>1. ASSUME Admit(s)
            PROVE  s \in Pushed'
        BY <1>1, <1>2, <3>1, Stores DEF Admit
      <3>2. QED
        BY <3>1
    <2>5. QED
      BY <1>1, <1>2, <2>1, <2>2, <2>3, <2>4 DEF Type, InOrder, Position, Grown
  <1>5. QED
    BY <1>3, <1>4 DEF Push

(* A sample pushed keeps the types.                                        *)
LEMMA PushTyped ==
  ASSUME Inv, NEW s \in Samples, Placed(s), Push(s)
  PROVE  Type'
  <1>1. Type /\ queue' \in Seq(Samples) /\ retry' \in Seq(Samples)
        /\ UNCHANGED <<closing, saving, batch, lost, active, awaiting, reading, picker,
                       picked, job, closed, paused>>
    BY PushGrows DEF Inv
  <1>2. pen' \in Nat /\ down' \in BOOLEAN
    BY DEF Placed
  <1>3. /\ s.gesture \in Nat /\ s.temporary \in BOOLEAN
    BY DEF Samples
  <1>4. /\ barrier' \in Nat /\ admitted' \in BOOLEAN /\ picks' \in BOOLEAN
        /\ skipped' \in BOOLEAN /\ latched' \in BOOLEAN
    <2>1. CASE Refuse(s)
      BY <1>1, <2>1 DEF Type, Refuse
    <2>2. CASE Lose(s)
      BY <1>1, <2>2 DEF Type, Lose
    <2>3. CASE Admit(s)
      <3>1. skipped' = FALSE /\ latched' = latched /\ barrier' \in {barrier, s.gesture}
        BY <2>3 DEF Admit
      <3>2. admitted' \in {TRUE, FALSE, admitted} /\ picks' \in {s.temporary, FALSE, picks}
        BY <2>3 DEF Admit
      <3>3. QED
        BY <1>1, <1>3, <3>1, <3>2 DEF Type
    <2>4. QED
      BY <2>1, <2>2, <2>3 DEF Push
  <1>5. QED
    BY <1>1, <1>2, <1>4 DEF Type

(* A sample pushed comes after everything on its way, and the owner stays  *)
(* where he was.                                                           *)
LEMMA PushOrdered ==
  ASSUME Inv, NEW s \in Samples, Placed(s), Push(s)
  PROVE  InOrder' /\ Position'
  <1>1. /\ Waiting' = Waiting /\ Grown(s, Pushed, Pushed')
        /\ Sorted(batch') /\ Sorted(queue') /\ Sorted(retry')
        /\ \A x \in Waiting', t \in Pushed' : Before(x, t)
        /\ \A x \in Of(queue'), t \in Of(retry') : Before(x, t)
        /\ retry' # <<>> => Saturated'
        /\ UNCHANGED <<pc, batch, lost, active, reading>>
    BY PushGrows
  <1>2. Stream' \subseteq Stream \cup {s}
    BY <1>1, GrownStream DEF Grown
  <1>3. /\ pen \in Nat /\ active \in Nat /\ active <= pen /\ (down => pen > 0)
        /\ \A t \in Stream : t \in Samples /\ active <= t.gesture /\ t.gesture <= pen
                             /\ (t.gesture = pen /\ down => ~IsEnd(t))
    BY StreamTyped DEF Inv, Type, InOrder, Position
  <1>4. /\ s.gesture = pen' /\ pen' \in Nat /\ pen <= pen' /\ pen' > 0
        /\ IsEnd(s) => ~down'
        /\ down' => (pen' = pen + 1 \/ (pen' = pen /\ down))
    BY <1>3, Ranks DEF Placed, IsEnd
  <1>5. \A t \in Stream' : t.gesture <= pen' /\ (t.gesture = pen' /\ down' => ~IsEnd(t))
    <2>1. ASSUME NEW t \in Stream
          PROVE  t.gesture <= pen' /\ (t.gesture = pen' /\ down' => ~IsEnd(t))
      <3>1. t.gesture \in Nat /\ t.gesture <= pen
        BY <1>3, Ranks
      <3>2. QED
        BY <1>3, <1>4, <3>1
    <2>2. s.gesture <= pen' /\ (s.gesture = pen' /\ down' => ~IsEnd(s))
      BY <1>4
    <2>3. QED
      BY <1>2, <2>1, <2>2
  <1>6. InOrder'
    BY <1>1, <1>5 DEF InOrder
  <1>7. Position'
    <2>1. \A t \in Stream' : active' <= t.gesture
      BY <1>1, <1>2, <1>3, <1>4
    <2>2. active' <= pen' /\ (down' => pen' > 0)
      BY <1>1, <1>3, <1>4
    <2>3. /\ reading' => active' = 0
          /\ pc' # "samples" => batch' = <<>> /\ ~lost'
      BY <1>1 DEF Inv, Position
    <2>4. QED
      BY <1>1, <2>1, <2>2, <2>3 DEF Position
  <1>8. QED
    BY <1>6, <1>7

(* A gesture that was cut stays one.                                       *)
LEMMA CutGrows ==
  ASSUME NEW s, Push(s)
  PROVE  cut \subseteq cut'
  BY DEF Push, Refuse, Lose, Admit

(* A set of samples stays whole when what is added belongs to it.          *)
LEMMA WholeGrows ==
  ASSUME NEW T, NEW U, NEW f, NEW s \in Samples, T \subseteq Samples, Grown(s, T, U),
         \A t \in T : Before(t, s), Whole(T, f), cut \subseteq cut',
         s \in U => \A g \in (Begun(T) \cup {f}) \ (cut \cup {0}) :
                      s.phase # "begin" /\ g < s.gesture => Ended(T, g)
  PROVE  \A x \in U, g \in (Begun(U) \cup {f}) \ (cut' \cup {0}) :
           x.phase # "begin" /\ g < x.gesture => Ended(U, g)
  <1> SUFFICES ASSUME NEW x \in U, NEW g \in (Begun(U) \cup {f}) \ (cut' \cup {0}),
                      x.phase # "begin", g < x.gesture
               PROVE  Ended(U, g)
    OBVIOUS
  <1>1. U \subseteq T \cup {s} /\ \A t \in T : t.phase # "move" => t \in U
    BY DEF Grown
  <1>2. Ended(T, g) => Ended(U, g)
    BY <1>1 DEF Ended, IsEnd
  <1>3. CASE g \in (Begun(T) \cup {f}) \ (cut \cup {0})
    <2>1. CASE x \in T
      BY <1>2, <1>3, <2>1 DEF Whole
    <2>2. CASE x = s
      BY <1>2, <1>3, <2>2
    <2>3. QED
      BY <1>1, <2>1, <2>2
  <1>4. CASE ~(g \in (Begun(T) \cup {f}) \ (cut \cup {0}))
    <2>1. g = s.gesture /\ s.phase = "begin"
      BY <1>1, <1>4 DEF Begun
    <2>2. x \in T
      BY <1>1, <2>1
    <2>3. x \in Samples /\ x.gesture <= s.gesture
      BY <2>2, Later
    <2>4. QED
      BY <2>1, <2>3, Ranks
  <1>5. QED
    BY <1>3, <1>4

(* Pieces of a gesture let in follow its Begin, or the stroke it ends.     *)
LEMMA PushUnbroken ==
  ASSUME Inv, NEW s \in Samples, Placed(s), Push(s)
  PROVE  Unbroken'
  <1>1. /\ Waiting' = Waiting /\ Grown(s, Pushed, Pushed')
        /\ Refuse(s) \/ Lose(s) => Pushed' = Pushed
        /\ UNCHANGED <<lost, active, awaiting, closing>>
    BY PushGrows
  <1>2. /\ Grown(s, Live, Live') /\ Grown(s, Ahead, Ahead')
        /\ lost => Ahead' = Ahead /\ Live = Pushed /\ Live' = Pushed'
        /\ ~lost => Ahead = Live /\ Ahead' = Live'
        /\ Pushed' = Pushed => Live' = Live
    BY <1>1, GrownStream
  <1>3. Drawn' = Drawn /\ cut \subseteq cut' /\ lost' = lost
    BY <1>1, CutGrows DEF Drawn
  <1>4. /\ Live \subseteq Samples /\ Ahead \subseteq Samples
        /\ \A t \in Live : Before(t, s)
        /\ \A t \in Ahead : Before(t, s)
    BY StreamTyped DEF Inv, Placed
  <1> DEFINE f == IF lost THEN 0 ELSE Drawn
  <1>5. Whole(Ahead, Drawn) /\ Whole(Live, f)
    BY <1>2 DEF Inv, Unbroken
  <1>6. s \in Live' => \A g \in (Begun(Live) \cup {f}) \ (cut \cup {0}) :
                         s.phase # "begin" /\ g < s.gesture => Ended(Live, g)
    <2>1. CASE Refuse(s) \/ Lose(s)
      <3>1. Live' = Live
        BY <1>1, <1>2, <2>1
      <3>2. QED
        BY <1>5, <3>1 DEF Whole
    <2>2. CASE Admit(s)
      <3>1. ~latched /\ ~closing
        BY <2>2 DEF Admit, Open, Shut
      <3>2. \A g \in (Begun(Live) \cup {f}) \ (cut \cup {0}) : g < pen \/ ~down => Ended(Live, g)
        BY <3>1 DEF Inv, Following
      <3>3. s.phase # "begin" => s.gesture = pen
        BY Ranks DEF Placed
      <3>4. QED
        BY <3>2, <3>3
    <2>3. QED
      BY <2>1, <2>2 DEF Push
  <1> HIDE DEF f
  <1>7. \A x \in Live', g \in (Begun(Live') \cup {f}) \ (cut' \cup {0}) :
          x.phase # "begin" /\ g < x.gesture => Ended(Live', g)
    BY <1>2, <1>3, <1>4, <1>5, <1>6, WholeGrows
  <1>8. CASE ~lost
    BY <1>2, <1>3, <1>7, <1>8 DEF f, Unbroken, Whole, Begun, Ended
  <1>9. CASE lost
    <2>1. \A x \in Ahead', g \in (Begun(Ahead') \cup {Drawn'}) \ (cut' \cup {0}) :
            x.phase # "begin" /\ g < x.gesture => Ended(Ahead', g)
      BY <1>2, <1>3, <1>5, <1>9 DEF Whole
    <2>2. QED
      BY <1>2, <1>3, <1>7, <1>9, <2>1 DEF f, Unbroken, Whole, Begun, Ended
  <1>10. QED
    BY <1>8, <1>9

(* The pen follows a gesture let in to its end: what takes the lane from   *)
(* it loses its End, shuts the lane for good or cuts the gesture.          *)
LEMMA PushFollowing ==
  ASSUME Inv, NEW s \in Samples, Placed(s), Push(s)
  PROVE  Following'
  <1>1. /\ Waiting' = Waiting /\ Grown(s, Pushed, Pushed')
        /\ Admit(s) => s \in Pushed'
        /\ Refuse(s) \/ Lose(s) => Pushed' = Pushed
        /\ UNCHANGED <<lost, active, awaiting, closing>>
    BY PushGrows
  <1>2. /\ Grown(s, Live, Live')
        /\ s \in Pushed' => s \in Live'
        /\ Pushed' = Pushed => Live' = Live
    BY <1>1, GrownStream
  <1>3. Drawn' = Drawn /\ cut \subseteq cut' /\ lost' = lost
    BY <1>1, CutGrows DEF Drawn
  <1> DEFINE old == (Begun(Live) \cup (IF lost THEN {} ELSE {Drawn})) \ (cut \cup {0})
  <1> SUFFICES ASSUME ~latched', ~closing',
                      NEW g \in (Begun(Live') \cup (IF lost THEN {} ELSE {Drawn})) \ (cut' \cup {0})
               PROVE  /\ g < pen' \/ ~down' => Ended(Live', g)
                      /\ g = pen' /\ down' => admitted' /\ ~skipped'
    BY <1>3 DEF Following, Begun, Ended
  <1>4. ~latched /\ ~closing
    <2>1. CASE Refuse(s)
      BY <1>1, <2>1 DEF Refuse
    <2>2. CASE Lose(s) \/ Admit(s)
      BY <2>2 DEF Lose, Admit, Open, Shut
    <2>3. QED
      BY <2>1, <2>2 DEF Push
  <1>5. CASE g \in old
    <2>1. /\ g < pen \/ ~down => Ended(Live, g)
          /\ g = pen /\ down => admitted /\ ~skipped
      BY <1>4, <1>5 DEF Inv, Following
    <2>2. Ended(Live, g) => Ended(Live', g)
      BY <1>2 DEF Ended, IsEnd, Grown
    <2>3. g \in Nat /\ pen \in Nat /\ g <= pen
      <3>1. /\ Live \subseteq Stream /\ Live \subseteq Samples /\ pen \in Nat
            /\ \A t \in Stream : t.gesture <= pen
            /\ active \in Nat /\ active <= pen
        BY StreamTyped DEF Inv, Type, InOrder, Position
      <3>2. CASE g \in Begun(Live)
        <4>1. PICK t \in Live : g = t.gesture
          BY <3>2 DEF Begun
        <4>2. QED
          BY <3>1, <4>1, Ranks
      <3>3. CASE g = Drawn
        BY <3>1, <3>3 DEF Drawn
      <3>4. QED
        BY <1>5, <3>2, <3>3
    <2>4. CASE s.phase = "begin"
      <3>1. pen' = pen + 1 /\ ~down /\ down'
        BY <2>4 DEF Placed, IsEnd
      <3>2. QED
        BY <2>1, <2>2, <2>3, <3>1
    <2>5. CASE s.phase = "move"
      <3>1. pen' = pen /\ down /\ down'
        BY <2>5 DEF Placed, IsEnd
      <3>2. admitted /\ ~skipped => admitted' /\ ~skipped'
        BY <2>5 DEF Push, Refuse, Lose, Admit
      <3>3. QED
        BY <2>1, <2>2, <3>1, <3>2
    <2>6. CASE IsEnd(s)
      <3>1. pen' = pen /\ down /\ ~down' /\ s.gesture = pen
        BY <2>6 DEF Placed, IsEnd
      <3>2. CASE g < pen
        BY <2>1, <2>2, <3>1, <3>2
      <3>3. CASE g = pen
        <4>1. admitted /\ ~skipped
          BY <2>1, <3>1, <3>3
        <4>2. ~Held
          BY <4>1 DEF Inv, Gates, Held
        <4>3. ~Refuse(s)
          <5>1. CASE saving
            BY <2>6, <3>1, <3>3, <5>1 DEF Refuse, IsEnd
          <5>2. CASE ~saving
            BY <1>4, <4>1, <4>2, <5>2 DEF Refuse, Shut
          <5>3. QED
            BY <5>1, <5>2
        <4>4. ~Lose(s)
          BY <2>6 DEF Lose, IsEnd
        <4>5. s \in Live'
          BY <1>1, <1>2, <4>3, <4>4 DEF Push
        <4>6. QED
          BY <2>6, <3>1, <3>3, <4>5 DEF Ended
      <3>4. QED
        BY <2>3, <3>1, <3>2, <3>3
    <2>7. QED
      BY <2>4, <2>5, <2>6 DEF Placed
  <1>6. CASE g \notin old
    <2>1. s \in Live' /\ s \notin Live /\ s.phase = "begin" /\ g = s.gesture
      <3>1. PICK t \in Live' : t \notin Live /\ t.phase = "begin" /\ g = t.gesture
        BY <1>3, <1>6 DEF Begun
      <3>2. t = s
        BY <1>2, <3>1 DEF Grown
      <3>3. QED
        BY <3>1, <3>2
    <2>2. Admit(s)
      BY <1>1, <1>2, <2>1 DEF Push
    <2>3. admitted' /\ ~skipped' /\ down' /\ g = pen'
      BY <2>1, <2>2 DEF Admit, Placed, IsEnd
    <2>4. QED
      BY <2>3 DEF Placed
  <1>7. QED
    BY <1>5, <1>6

(* An End behind T reads what the whole of T leaves.                       *)
LEMMA BarringGrows ==
  ASSUME NEW T, NEW U, NEW s \in Samples, T \subseteq Samples, Grown(s, T, U),
         \A t \in T : Before(t, s), NEW r \in BOOLEAN, Barring(T, r),
         NEW e \in U, e.phase = "end", ReadsAt(U, r, Rank(e))
  PROVE  \/ barrier = e.gesture
         \/ e = s /\ ReadsAt(T, r, 3 * (s.gesture + 1))
  <1>1. U \subseteq T \cup {s} /\ \A t \in T : t.phase # "move" => t \in U
    BY DEF Grown
  <1>2. e \in Samples /\ IsEnd(e) /\ Rank(e) \in Int /\ Rank(s) \in Nat
    BY <1>1, Ranks DEF IsEnd
  <1>3. Rank(s) >= Rank(e)
    BY <1>1, <1>2, Later
  <1>4. ReadsAt(T, r, Rank(e))
    BY <1>1, <1>2, <1>3, ReadsFewer
  <1>5. CASE e \in T
    BY <1>4, <1>5 DEF Barring
  <1>6. CASE e = s
    <2>1. \A t \in T : t.phase # "move" => Rank(t) < Rank(s) /\ Rank(t) < 3 * (s.gesture + 1)
      <3>1. ASSUME NEW t \in T, t.phase # "move"
            PROVE  Rank(t) < Rank(s) /\ Rank(t) < 3 * (s.gesture + 1)
        <4>1. Rank(t) < Rank(s) /\ Rank(t) \in Nat
          BY <3>1, Later, Ranks
        <4>2. Rank(s) < 3 * (s.gesture + 1) /\ s.gesture \in Nat
          BY Ranks
        <4>3. QED
          BY <1>2, <4>1, <4>2
      <3>2. QED
        BY <3>1
    <2>2. 3 * (s.gesture + 1) \in Int
      BY Ranks
    <2>3. QED
      BY <1>2, <1>4, <1>6, <2>1, <2>2, ReadsTop
  <1>7. QED
    BY <1>1, <1>5, <1>6

(* The End of a pick raises the barrier, and nothing else moves it here.   *)
LEMMA PushBarriers ==
  ASSUME Inv, NEW s \in Samples, Placed(s), Push(s)
  PROVE  Barriers'
  <1>1. /\ Waiting' = Waiting /\ Grown(s, Pushed, Pushed')
        /\ Admit(s) => s \in Pushed'
        /\ Refuse(s) \/ Lose(s) => Pushed' = Pushed
        /\ UNCHANGED <<lost, reading, closing>>
    BY PushGrows
  <1>2. /\ Grown(s, Live, Live') /\ Grown(s, Ahead, Ahead')
        /\ s \in Pushed' => s \in Live'
        /\ lost => Ahead' = Ahead /\ Live = Pushed /\ Live' = Pushed'
        /\ ~lost => Ahead = Live /\ Ahead' = Live'
        /\ Pushed' = Pushed => Live' = Live
    BY <1>1, GrownStream
  <1>3. /\ Live \subseteq Samples /\ Ahead \subseteq Samples /\ Live' \subseteq Samples
        /\ \A t \in Live : Before(t, s) /\ t.gesture <= pen
        /\ \A t \in Ahead : Before(t, s)
        /\ pen \in Nat /\ pen' \in Nat /\ s.gesture = pen' /\ pen <= pen'
        /\ lost \in BOOLEAN /\ reading \in BOOLEAN
    <2>1. Type /\ Type'
      BY PushTyped DEF Inv
    <2>2. /\ Live \subseteq Samples /\ Ahead \subseteq Samples /\ Live \subseteq Stream
          /\ Ahead \subseteq Stream
      BY <2>1, StreamTyped
    <2>3. Live' \subseteq Samples
      BY <1>2, <2>2 DEF Grown
    <2>4. QED
      BY <2>1, <2>2, <2>3 DEF Type, Placed, Inv, InOrder
  <1> DEFINE r == reading /\ ~lost
  <1>4. /\ Barring(Ahead, reading) /\ Barring(Live, r)
        /\ ~latched /\ ReadsAt(Live, r, 3 * (pen + 1)) => picks
        /\ r \in BOOLEAN /\ r' = r
    BY <1>1, <1>2, <1>3 DEF Inv, Barriers
  <1>5. ASSUME NEW e \in Samples, barrier = e.gesture
        PROVE  barrier' = e.gesture
    <2>1. ~Open(s)
      BY <1>5, Ranks DEF Open, Held
    <2>2. QED
      BY <1>5, <2>1 DEF Push, Refuse, Lose, Admit
  <1> HIDE DEF r
  <1>6. ASSUME NEW e \in Live', e.phase = "end", ReadsAt(Live', r, Rank(e))
        PROVE  barrier' = e.gesture
    <2>1. \/ barrier = e.gesture
          \/ e = s /\ ReadsAt(Live, r, 3 * (s.gesture + 1))
      BY <1>2, <1>3, <1>4, <1>6, BarringGrows
    <2>2. CASE barrier = e.gesture
      BY <1>3, <1>5, <2>2
    <2>3. CASE e = s /\ e \in Live /\ barrier # e.gesture
      <3>1. Before(s, s) /\ IsEnd(s)
        BY <1>3, <1>6, <2>3 DEF IsEnd
      <3>2. QED
        BY <3>1, Later, Ranks
    <2>4. CASE e = s /\ e \notin Live /\ ReadsAt(Live, r, 3 * (s.gesture + 1))
      <3>1. Admit(s)
        BY <1>1, <1>2, <2>4 DEF Push
      <3>2. pen' = pen /\ ~latched
        BY <1>6, <2>4, <3>1 DEF Placed, Admit, Open, Shut
      <3>3. picks
        BY <1>3, <1>4, <2>4, <3>2
      <3>4. QED
        BY <1>6, <2>4, <3>1, <3>3 DEF Admit
    <2>5. QED
      BY <2>1, <2>2, <2>3, <2>4
  <1>7. ASSUME ~latched', ReadsAt(Live', r, 3 * (pen' + 1))
        PROVE  picks'
    <2>0. /\ 3 * (pen + 1) \in Int /\ 3 * (pen' + 1) \in Int
          /\ \A t \in Live : Rank(t) < 3 * (pen + 1) /\ Rank(t) < 3 * (pen' + 1)
      <3>1. ASSUME NEW t \in Live
            PROVE  Rank(t) < 3 * (pen + 1) /\ Rank(t) < 3 * (pen' + 1)
        <4>1. t.gesture \in Nat /\ t.gesture <= pen /\ Rank(t) \in Nat
              /\ Rank(t) < 3 * (t.gesture + 1)
          BY <1>3, Ranks
        <4>2. QED
          BY <1>3, <4>1
      <3>2. QED
        BY <1>3, <3>1
    <2>1. CASE (Refuse(s) \/ Lose(s)) \/ (Admit(s) /\ s.phase = "move")
      <3>1. ~latched /\ picks' = picks
        <4>1. CASE Refuse(s)
          BY <1>7, <4>1 DEF Refuse
        <4>2. CASE Lose(s)
          BY <4>2 DEF Lose, Open, Shut
        <4>3. CASE Admit(s) /\ s.phase = "move"
          BY <4>3 DEF Admit, Open, Shut
        <4>4. QED
          BY <2>1, <4>1, <4>2, <4>3
      <3>2. ReadsAt(Live, r, 3 * (pen' + 1))
        <4>1. CASE Refuse(s) \/ Lose(s)
          BY <1>1, <1>2, <1>7, <4>1
        <4>2. CASE s.phase = "move"
          <5>1. Live' \subseteq Live \cup {s} /\ \A t \in Live : t.phase # "move" => t \in Live'
            BY <1>2 DEF Grown
          <5>2. QED
            BY <1>3, <1>4, <1>7, <2>0, <4>2, <5>1, ReadsFewer
        <4>3. QED
          BY <2>1, <4>1, <4>2
      <3>3. ReadsAt(Live, r, 3 * (pen + 1))
        BY <1>3, <1>4, <2>0, <3>2, ReadsTop
      <3>4. QED
        BY <1>4, <3>1, <3>3
    <2>2. CASE Admit(s) /\ s.phase # "move"
      <3>1. s \in Live' /\ Live' \subseteq Live \cup {s}
        BY <1>1, <1>2, <2>2 DEF Grown
      <3>2. Rank(s) < 3 * (pen' + 1) /\ Rank(s) \in Nat
        BY <1>3, Ranks
      <3>3. PICK b \in Live' :
              /\ b.phase = "begin" /\ b.temporary
              /\ \A t \in Live' : t.phase # "move" /\ Rank(t) < 3 * (pen' + 1) => Rank(t) <= Rank(b)
        <4>1. ~(\A t \in Live' : t.phase # "move" => Rank(t) >= 3 * (pen' + 1))
          BY <1>3, <2>2, <3>1, <3>2
        <4>2. QED
          BY <1>7, <4>1 DEF ReadsAt
      <3>4. Rank(s) <= Rank(b)
        BY <2>2, <3>1, <3>2, <3>3
      <3>5. b = s
        <4>1. CASE b \in Live
          <5>1. Rank(b) < Rank(s) /\ Rank(b) \in Nat
            BY <1>3, <2>2, <4>1, Later, Ranks
          <5>2. QED
            BY <3>2, <3>4, <5>1
        <4>2. QED
          BY <3>1, <4>1
      <3>6. QED
        BY <2>2, <3>3, <3>5 DEF Admit
    <2>3. QED
      BY <2>1, <2>2 DEF Push
  <1>8. Barring(Live, r)'
    BY <1>4, <1>6 DEF Barring
  <1>9. Barring(Ahead, reading)'
    <2>1. CASE ~lost
      <3>1. r = reading /\ reading' = reading
        BY <1>1, <1>3, <2>1 DEF r
      <3>2. QED
        BY <1>2, <1>6, <2>1, <3>1 DEF Barring
    <2>2. CASE lost
      BY <1>1, <1>2, <1>3, <1>4, <1>5, <2>2 DEF Barring
    <2>3. QED
      BY <2>1, <2>2
  <1>10. lost' => Barring(Pushed, FALSE)'
    BY <1>1, <1>2, <1>8 DEF r, Barring
  <1>11. QED
    BY <1>4, <1>7, <1>9, <1>10 DEF r, Barriers

(* Nothing is let in while the lane is held.                               *)
LEMMA PushGates ==
  ASSUME Inv, NEW s \in Samples, Placed(s), Push(s)
  PROVE  Gates'
  <1>1. /\ Waiting' = Waiting /\ Grown(s, Pushed, Pushed')
        /\ Refuse(s) \/ Lose(s) => Pushed' = Pushed
        /\ UNCHANGED <<lost, active, picker, picked, job, paused>>
    BY PushGrows
  <1>2. /\ Grown(s, Stream, Stream')
        /\ Pushed' = Pushed => Stream' = Stream
    BY <1>1, GrownStream
  <1>3. CASE Refuse(s) \/ Lose(s)
    <2>1. barrier' = barrier /\ admitted' = admitted /\ Stream' = Stream
      BY <1>1, <1>2, <1>3 DEF Refuse, Lose
    <2>2. QED
      BY <1>1, <2>1 DEF Inv, Gates, NoJob
  <1>4. CASE Admit(s)
    <2>1. ~paused /\ barrier = 0
      BY <1>4 DEF Admit, Open, Held
    <2>2. picked = 0 /\ job.pick = 0 /\ job = NoJob
      BY <2>1 DEF Inv, Gates
    <2>3. barrier' # 0 => s.phase = "end" /\ barrier' = s.gesture /\ ~admitted'
      BY <1>4, <2>1 DEF Admit
    <2>4. ASSUME s.phase = "end"
          PROVE  /\ active <= s.gesture
                 /\ \A t \in Stream' : t.gesture <= s.gesture
      <3>1. s.gesture = pen /\ pen \in Nat
        BY <2>4 DEF Placed, Inv, Type
      <3>2. active <= pen /\ \A t \in Stream : t.gesture <= pen
        BY DEF Inv, Position, InOrder
      <3>3. QED
        BY <1>2, <3>1, <3>2 DEF Grown
    <2>5. QED
      BY <1>1, <2>1, <2>2, <2>3, <2>4 DEF Gates, NoJob, Inv
  <1>5. QED
    BY <1>3, <1>4 DEF Push

(* A call of the pen's handlers keeps the invariant.                       *)
LEMMA PenStep ==
  ASSUME Inv, Pen
  PROVE  Inv'
  <1>1. PICK s \in Samples : Placed(s) /\ Push(s)
    BY PenPlaces
  <1>2. Type' /\ InOrder' /\ Position' /\ Unbroken' /\ Following' /\ Barriers' /\ Gates'
    BY <1>1, PushTyped, PushOrdered, PushUnbroken, PushFollowing, PushBarriers, PushGates
  <1>3. StrokesAreWholeGestures'
    <2>1. closed' = closed /\ cut \subseteq cut'
      BY <1>1, PushGrows, CutGrows
    <2>2. QED
      BY <2>1 DEF Inv, StrokesAreWholeGestures
  <1>4. QED
    BY <1>2, <1>3 DEF Inv

-----------------------------------------------------------------------------
(* The owner takes a sample *)

(* The first sample of the batch leaves it; the rest stays in order.       *)
Takes(f) ==
  /\ pc = "samples" /\ pc' = pc /\ f \in Samples /\ lost' = lost
  /\ batch' \in Seq(Samples) /\ Sorted(batch')
  /\ Waiting = {f} \cup Waiting' /\ Pushed' = Pushed
  /\ Ahead = {f} \cup Ahead' /\ \A t \in Ahead' : Before(f, t)
  /\ Stream = {f} \cup Stream' /\ \A t \in Stream' : Before(f, t)
  /\ lost => Live' = Live
  /\ ~lost => Live = Ahead /\ Live' = Ahead'

(* However the owner takes the next sample, it is the first of the batch   *)
(* and nothing else in the lanes moves.                                    *)
LEMMA TakingTakes ==
  ASSUME Inv, NEW phase \in Phases, NEW temporary \in BOOLEAN, Taking(phase, temporary)
  PROVE  /\ Takes(First) /\ First.phase = phase
         /\ temporary = IF phase = "begin" THEN First.temporary ELSE reading
         /\ reading' = (phase \in {"begin", "move"} /\ temporary)
         /\ UNCHANGED <<queue, retry, admitted, picks, paused, skipped, latched, gates, hand, job, cut>>
  <1>1. /\ batch \in Seq(Samples) /\ batch # <<>> /\ batch' = Tail(batch) /\ Sorted(batch)
        /\ queue' = queue /\ retry' = retry /\ lost' = lost
        /\ pc = "samples" /\ pc' = pc
        /\ \A s \in Waiting, t \in Pushed : Before(s, t)
    BY DEF Inv, Type, InOrder, Taking
  <1>2. /\ batch' \in Seq(Samples) /\ batch[1] \in Samples
        /\ Of(batch) = {batch[1]} \cup Of(batch')
        /\ Sorted(batch') /\ \A t \in Of(batch') : Before(batch[1], t)
    BY <1>1, FirstTaken
  <1>3. /\ Waiting = {First} \cup Waiting' /\ Pushed' = Pushed
        /\ \A t \in Waiting' \cup Pushed : Before(First, t)
    BY <1>1, <1>2 DEF Waiting, Pushed, First
  <1>4. Takes(First)
    BY <1>1, <1>2, <1>3 DEF Takes, Stream, Live, Ahead, First
  <1>5. QED
    BY <1>4 DEF Taking

(* Taking a sample keeps the order, and the position of a stroke that      *)
(* begins with it.                                                         *)
LEMMA TakeOrdered ==
  ASSUME Inv, NEW f, Takes(f), UNCHANGED <<queue, retry, pen, down>>,
         active' \in {active, f.gesture, 0}, reading' => active' = 0
  PROVE  InOrder' /\ Position'
  <1>1. f \in Samples /\ f.gesture \in Nat
    BY Ranks DEF Takes
  <1>2. /\ Stream' \subseteq Stream /\ Waiting' \subseteq Waiting /\ Pushed' = Pushed
        /\ f \in Stream /\ \A t \in Stream' : f.gesture <= t.gesture
    <2>1. Stream' \subseteq Samples
      BY StreamTyped DEF Inv, Takes
    <2>2. QED
      BY <1>1, <2>1, Later DEF Takes
  <1>3. InOrder'
    BY <1>2 DEF Inv, InOrder, Takes
  <1>4. active' <= pen' /\ \A t \in Stream' : active' <= t.gesture
    <2>1. /\ active <= pen /\ pen \in Nat /\ f.gesture <= pen
          /\ \A t \in Stream' : active <= t.gesture /\ t \in Samples
      BY <1>2, StreamTyped DEF Inv, Type, Position, InOrder
    <2>2. QED
      BY <1>1, <1>2, <2>1, Ranks
  <1>5. Saturated' = Saturated
    BY DEF Saturated, Evictable
  <1>6. QED
    BY <1>3, <1>4, <1>5 DEF Inv, Position, Takes

(* The strokes that follow are whole whatever the owner makes of the       *)
(* sample, as long as it draws nothing but the sample's gesture, and       *)
(* gives up what the sample ends.                                          *)
LEMMA WholeTaken ==
  ASSUME NEW T, NEW U, NEW f \in Samples, NEW d, NEW n, T \subseteq Samples,
         T = {f} \cup U, \A t \in U : Before(f, t), Whole(T, d),
         n \in {d, 0} \/ (n = f.gesture /\ f.phase = "begin"),
         n = 0 \/ f.phase = "begin" \/ f.phase = "move"
  PROVE  Whole(U, n)
  <1> SUFFICES ASSUME NEW s \in U, NEW g \in (Begun(U) \cup {n}) \ (cut \cup {0}),
                      s.phase # "begin", g < s.gesture
               PROVE  Ended(U, g)
    BY DEF Whole
  <1>1. Ended(T, g)
    <2>1. g \in (Begun(T) \cup {d}) \ (cut \cup {0})
      BY DEF Begun
    <2>2. s \in T
      OBVIOUS
    <2>3. QED
      BY <2>1, <2>2 DEF Whole
  <1>2. PICK e \in T : e.gesture = g /\ IsEnd(e)
    BY <1>1 DEF Ended
  <1>3. e # f
    <2>1. SUFFICES ASSUME e = f
                   PROVE  FALSE
      OBVIOUS
    <2>2. n = 0
      BY <1>2, <2>1 DEF IsEnd
    <2>3. PICK b \in U : b.phase = "begin" /\ b.gesture = g
      BY <2>2 DEF Begun
    <2>4. f.gesture < b.gesture /\ f.gesture \in Nat
      BY <2>3, Later, Ranks
    <2>5. QED
      BY <1>2, <2>1, <2>3, <2>4
  <1>4. QED
    BY <1>2, <1>3 DEF Ended

(* What is left whole after the first sample is taken, when its stroke is  *)
(* the one drawn before, none, or the one it begins.                       *)
LEMMA TakeUnbroken ==
  ASSUME Inv, NEW f, Takes(f), cut' = cut,
         Drawn' \in {Drawn, 0} \/ (Drawn' = f.gesture /\ f.phase = "begin"),
         Drawn' = 0 \/ f.phase = "begin" \/ f.phase = "move"
  PROVE  Unbroken'
  <1>1. Ahead \subseteq Samples /\ f \in Samples
    BY StreamTyped DEF Inv, Takes
  <1>2. Whole(Ahead', Drawn')
    <2>1. /\ Ahead = {f} \cup Ahead' /\ \A t \in Ahead' : Before(f, t)
          /\ Whole(Ahead, Drawn)
      BY DEF Takes, Inv, Unbroken
    <2>2. QED
      BY <1>1, <2>1, WholeTaken
  <1>3. QED
    BY <1>2 DEF Inv, Unbroken, Takes, Whole, Begun, Ended

(* What was let in is still followed: the owner can only begin what it     *)
(* takes.                                                                  *)
LEMMA TakeFollowing ==
  ASSUME Inv, NEW f, Takes(f), UNCHANGED <<cut, latched, closing, pen, down, admitted, skipped>>,
         Drawn' \in {Drawn, 0} \/ (Drawn' = f.gesture /\ f.phase = "begin"),
         Drawn' = 0 \/ f.phase = "begin" \/ f.phase = "move"
  PROVE  Following'
  <1>1. f \in Samples /\ Live \subseteq Samples /\ lost' = lost
    BY StreamTyped DEF Inv, Takes
  <1> DEFINE old == Begun(Live) \cup (IF lost THEN {} ELSE {Drawn})
             new == Begun(Live') \cup (IF lost THEN {} ELSE {Drawn'})
  <1>2. new \subseteq old \cup {0}
    BY DEF Takes, Begun
  <1>3. ASSUME NEW g \in new \ {0}, Ended(Live, g)
        PROVE  Ended(Live', g)
    <2>1. PICK e \in Live : e.gesture = g /\ IsEnd(e)
      BY <1>3 DEF Ended
    <2>2. CASE e \in Live'
      BY <2>1, <2>2 DEF Ended
    <2>3. CASE e \notin Live'
      <3>1. ~lost /\ e = f /\ \A t \in Live' : Before(f, t)
        BY <2>3 DEF Takes
      <3>2. Drawn' = 0
        BY <2>1, <3>1 DEF IsEnd
      <3>3. PICK b \in Live' : b.phase = "begin" /\ b.gesture = g
        BY <1>3, <3>1, <3>2 DEF Begun
      <3>4. b \in Samples
        BY <1>1, <3>1, <3>3 DEF Takes
      <3>5. f.gesture < b.gesture /\ f.gesture \in Nat
        BY <1>1, <3>1, <3>3, <3>4, Later, Ranks
      <3>6. QED
        BY <2>1, <3>1, <3>3, <3>5
    <2>4. QED
      BY <2>2, <2>3
  <1> HIDE DEF new, old
  <1>4. ~latched /\ ~closing =>
          \A g \in old \ (cut \cup {0}) :
            /\ g < pen \/ ~down => Ended(Live, g)
            /\ g = pen /\ down => admitted /\ ~skipped
    BY DEF old, Inv, Following
  <1>5. QED
    BY <1>1, <1>2, <1>3, <1>4 DEF new, Following, Begun, Ended

(* The Ends still to come hold the barrier, as long as it is not released  *)
(* but for the sample taken.                                               *)
LEMMA TakeBarriers ==
  ASSUME Inv, NEW f, Takes(f), UNCHANGED <<latched, pen, picks>>,
         reading' \in BOOLEAN,
         f.phase = "begin" => (reading' => f.temporary), f.phase = "move" => (reading' => reading),
         IsEnd(f) => ~reading',
         barrier' = barrier \/ (IsEnd(f) /\ barrier = f.gesture) \/ Stream' = {}
  PROVE  Barriers'
  <1>1. /\ f \in Samples /\ Ahead \subseteq Samples /\ Live \subseteq Samples
        /\ Ahead = {f} \cup Ahead' /\ (\A t \in Ahead' : Before(f, t))
        /\ lost' = lost /\ Pushed' = Pushed
        /\ reading \in BOOLEAN /\ lost \in BOOLEAN /\ pen \in Nat
    BY StreamTyped DEF Inv, Takes, Type
  <1>2. /\ Barring(Ahead, reading) /\ (lost => Barring(Pushed, FALSE))
        /\ ~latched /\ ReadsAt(Live, reading /\ ~lost, 3 * (pen + 1)) => picks
    BY DEF Inv, Barriers
  <1>3. ASSUME NEW e \in Stream', e.phase = "end", barrier = e.gesture
        PROVE  barrier' = e.gesture
    <2>1. e \in Samples /\ Before(f, e) /\ Stream' # {}
      BY <1>3, StreamTyped DEF Inv, Takes
    <2>2. IsEnd(f) => f.gesture < e.gesture /\ f.gesture \in Nat /\ e.gesture \in Nat
      BY <1>1, <2>1, Later, Ranks
    <2>3. QED
      BY <1>3, <2>1, <2>2
  <1>4. Barring(Ahead', reading')
        => \A e \in Ahead' : e.phase = "end" /\ ReadsAt(Ahead', reading', Rank(e))
                             => barrier' = e.gesture
    BY <1>3 DEF Barring, Ahead, Stream
  <1>5. ASSUME NEW e \in Ahead', e.phase = "end", ReadsAt(Ahead', reading', Rank(e))
        PROVE  barrier = e.gesture
    <2>1. e \in Samples /\ IsEnd(e) /\ Rank(e) \in Int /\ Before(f, e) /\ e \in Ahead
      BY <1>1, <1>5, Ranks DEF IsEnd
    <2>2. Rank(f) < Rank(e)
      BY <1>1, <2>1, <1>5, Later DEF IsEnd
    <2>3. ReadsAt(Ahead, reading, Rank(e))
      BY <1>1, <1>5, <2>1, <2>2, ReadsStep
    <2>4. QED
      BY <1>2, <1>5, <2>1, <2>3 DEF Barring
  <1>6. lost' => \A e \in Pushed' : e.phase = "end" /\ ReadsAt(Pushed', FALSE, Rank(e))
                                    => barrier' = e.gesture
    BY <1>1, <1>2, <1>3 DEF Barring, Stream
  <1>7. ASSUME ~latched', ReadsAt(Live', reading' /\ ~lost', 3 * (pen' + 1))
        PROVE  picks'
    <2>1. CASE lost
      <3>1. (reading' /\ ~lost') = (reading /\ ~lost) /\ Live' = Live
        BY <1>1, <2>1 DEF Takes
      <3>2. QED
        BY <1>2, <1>7, <3>1
    <2>2. CASE ~lost
      <3>1. Live = Ahead /\ Live' = Ahead' /\ (reading' /\ ~lost') = reading'
            /\ (reading /\ ~lost) = reading
        BY <1>1, <2>2 DEF Takes
      <3>2. Rank(f) < 3 * (pen + 1) /\ 3 * (pen + 1) \in Int
        <4>1. f.gesture <= pen /\ f.gesture \in Nat /\ Rank(f) \in Nat
              /\ Rank(f) < 3 * (f.gesture + 1)
          BY <1>1, Ranks DEF Inv, InOrder, Takes
        <4>2. QED
          BY <1>1, <4>1
      <3>3. ReadsAt(Ahead', reading', 3 * (pen + 1))
        BY <1>7, <3>1
      <3>4. ReadsAt(Ahead, reading, 3 * (pen + 1))
        BY <1>1, <3>2, <3>3, ReadsStep
      <3>5. QED
        BY <1>2, <1>7, <3>1, <3>4
    <2>3. QED
      BY <2>1, <2>2
  <1>8. \A e \in Ahead' : e.phase = "end" /\ ReadsAt(Ahead', reading', Rank(e)) => barrier' = e.gesture
    <2>1. ASSUME NEW e \in Ahead', e.phase = "end", ReadsAt(Ahead', reading', Rank(e))
          PROVE  barrier' = e.gesture
      <3>1. e \in Stream'
        BY DEF Ahead, Stream
      <3>2. QED
        BY <1>3, <1>5, <2>1, <3>1
    <2>2. QED
      BY <2>1
  <1>9. QED
    BY <1>6, <1>7, <1>8 DEF Barriers, Barring

(* While samples are on their way nothing is paused and no pick waits, so  *)
(* giving up a pick moves no barrier.                                      *)
LEMMA TakeIsFree ==
  ASSUME Inv, NEW f, Takes(f)
  PROVE  /\ ~paused /\ job = NoJob /\ job.pick = 0 /\ picked = 0
         /\ barrier # 0 => f.gesture <= barrier
         /\ CancelPicker => barrier' = barrier /\ picker' = 0 /\ picked' = 0
  <1>1. f \in Stream
    BY DEF Takes
  <1>2. ~paused /\ job = NoJob /\ picked = 0 /\ (barrier # 0 => f.gesture <= barrier)
    BY <1>1 DEF Inv, Gates
  <1>3. job.pick = 0
    BY <1>2 DEF NoJob
  <1>4. CancelPicker => barrier' = barrier /\ picker' = 0 /\ picked' = 0
    BY <1>2 DEF CancelPicker, Released
  <1>5. QED
    BY <1>2, <1>3, <1>4

(* An End taken in the reading state is the one that holds the barrier.    *)
LEMMA ReadingEnd ==
  ASSUME Inv, NEW f, Takes(f), f.phase = "end", reading
  PROVE  barrier = f.gesture
  <1>1. /\ f \in Samples /\ f \in Ahead /\ Ahead = {f} \cup Ahead' /\ Ahead \subseteq Samples
        /\ \A t \in Ahead' : Before(f, t)
        /\ Barring(Ahead, reading) /\ IsEnd(f)
    BY StreamTyped DEF Inv, Takes, Barriers, IsEnd
  <1>2. \A t \in Ahead : Rank(t) >= Rank(f)
    <2>1. \A t \in Ahead' : t \in Samples /\ Rank(f) < Rank(t)
      BY <1>1, Later DEF IsEnd
    <2>2. QED
      BY <1>1, <2>1, Ranks
  <1>3. ReadsAt(Ahead, reading, Rank(f))
    BY <1>2 DEF ReadsAt
  <1>4. QED
    BY <1>1, <1>3 DEF Barring

(* An End taken while a stroke is drawn is its own.                        *)
LEMMA EndsWhole ==
  ASSUME Inv, NEW f, Takes(f), f.phase = "end", ~awaiting, active # 0
  PROVE  f.gesture = active \/ active \in cut
  <1>1. /\ f \in Samples /\ Ahead = {f} \cup Ahead' /\ Ahead \subseteq Samples
        /\ \A t \in Ahead' : Before(f, t)
        /\ Whole(Ahead, active) /\ active <= f.gesture /\ active \in Nat /\ f.gesture \in Nat
    BY StreamTyped, Ranks DEF Inv, Takes, Unbroken, Drawn, Position, Type
  <1>2. SUFFICES ASSUME active < f.gesture, active \notin cut
                 PROVE  FALSE
    BY <1>1
  <1>3. Ended(Ahead, active)
    BY <1>1, <1>2 DEF Whole
  <1>4. PICK e \in Ahead : e.gesture = active
    BY <1>3 DEF Ended
  <1>5. e \in Ahead' /\ e \in Samples /\ Before(f, e)
    BY <1>1, <1>2, <1>4
  <1>6. QED
    BY <1>1, <1>2, <1>4, <1>5, Later

(* What the owner may make of the sample f.                                *)
Handles(f) ==
  /\ active' \in {active, f.gesture, 0} /\ awaiting' \in BOOLEAN
  /\ reading' \in BOOLEAN /\ (reading' => active' = 0)
  /\ f.phase = "begin" => (reading' => f.temporary)
  /\ f.phase = "move" => (reading' => reading)
  /\ IsEnd(f) => ~reading'
  /\ Drawn' \in {Drawn, 0} \/ (Drawn' = f.gesture /\ f.phase = "begin")
  /\ Drawn' = 0 \/ f.phase = "begin" \/ f.phase = "move"
  /\ barrier' = barrier \/ (IsEnd(f) /\ barrier = f.gesture /\ barrier' = 0)
  /\ picker' \in {picker, f.gesture, 0}
  /\ picked' = 0 \/ (picked' = f.gesture /\ IsEnd(f) /\ barrier = f.gesture /\ barrier' = barrier)
  /\ \/ closed' = closed
     \/ /\ closed' = Append(closed, [from |-> active, to |-> f.gesture])
        /\ f.gesture = active \/ active \in cut

(* A sample taken and handled in one of the ways Handles lists keeps the   *)
(* invariant.                                                              *)
LEMMA HandledKept ==
  ASSUME Inv, NEW f, Takes(f), Handles(f),
         UNCHANGED <<queue, retry, admitted, picks, paused, skipped, latched, gates, hand, job, cut>>
  PROVE  Inv'
  <1>1. f \in Samples /\ f.gesture \in Nat /\ lost' = lost /\ batch' \in Seq(Samples)
    BY Ranks DEF Takes
  <1>2. UNCHANGED <<closing, saving, down, pen>>
    BY DEF gates, hand
  <1>3. closed' \in Seq([from : Nat, to : Nat])
    <2>1. /\ closed \in Seq([from : Nat, to : Nat])
          /\ [from |-> active, to |-> f.gesture] \in [from : Nat, to : Nat]
      BY <1>1 DEF Inv, Type
    <2>2. Append(closed, [from |-> active, to |-> f.gesture]) \in Seq([from : Nat, to : Nat])
      BY <2>1, AppendProperties
    <2>3. QED
      BY <2>1, <2>2 DEF Handles
  <1>4. Type'
    BY <1>1, <1>2, <1>3 DEF Handles, Inv, Type
  <1>5. InOrder' /\ Position'
    BY <1>2, TakeOrdered DEF Handles
  <1>6. Unbroken' /\ Following'
    BY <1>2, TakeUnbroken, TakeFollowing DEF Handles
  <1>7. Barriers'
    BY <1>2, TakeBarriers DEF Handles
  <1>8. Gates'
    <2>1. /\ ~paused /\ job = NoJob /\ job.pick = 0
          /\ barrier # 0 => f.gesture <= barrier
      BY TakeIsFree
    <2>2. Stream' \subseteq Stream /\ (\A t \in Stream' : Before(f, t) /\ t \in Samples)
      BY StreamTyped DEF Takes, Inv
    <2>3. ASSUME barrier' # 0
          PROVE  /\ ~admitted' /\ active' <= barrier'
                 /\ \A t \in Stream' : t.gesture <= barrier'
      <3>1. barrier' = barrier /\ barrier \in Nat
        BY <2>3 DEF Handles, Inv, Type
      <3>2. ~admitted /\ active <= barrier /\ \A t \in Stream : t.gesture <= barrier
        BY <2>3, <3>1 DEF Inv, Gates
      <3>3. QED
        BY <2>1, <2>2, <2>3, <3>1, <3>2 DEF Handles
    <2>4. ASSUME picked' # 0
          PROVE  barrier' = picked' /\ Stream' = {}
      <3>1. picked' = f.gesture /\ IsEnd(f) /\ barrier = f.gesture /\ barrier' = barrier
        BY <2>4 DEF Handles
      <3>2. \A t \in Stream' : t.gesture <= f.gesture /\ f.gesture < t.gesture /\ t.gesture \in Nat
        <4>1. \A t \in Stream : t.gesture <= barrier
          BY <2>4, <3>1 DEF Inv, Gates
        <4>2. QED
          BY <1>1, <2>2, <3>1, <4>1, Later, Ranks
      <3>3. QED
        BY <1>1, <3>1, <3>2
    <2>5. QED
      BY <2>1, <2>3, <2>4 DEF Inv, Gates
  <1>9. StrokesAreWholeGestures'
    <2>1. CASE closed' = closed
      BY <2>1 DEF Inv, StrokesAreWholeGestures
    <2>2. CASE /\ closed' = Append(closed, [from |-> active, to |-> f.gesture])
               /\ f.gesture = active \/ active \in cut
      <3>1. /\ closed \in Seq([from : Nat, to : Nat])
            /\ [from |-> active, to |-> f.gesture] \in [from : Nat, to : Nat]
        BY <1>1 DEF Inv, Type
      <3>2. /\ DOMAIN closed = 1..Len(closed) /\ Len(closed) \in Nat
            /\ DOMAIN closed' = 1..(Len(closed) + 1)
            /\ \A i \in 1..Len(closed) : closed'[i] = closed[i]
            /\ closed'[Len(closed) + 1] = [from |-> active, to |-> f.gesture]
        BY <2>2, <3>1, AppendProperties
      <3>3. ASSUME NEW i \in DOMAIN closed'
            PROVE  closed'[i].from = closed'[i].to \/ closed'[i].from \in cut'
        <4>1. CASE i \in DOMAIN closed
          BY <3>2, <4>1 DEF Inv, StrokesAreWholeGestures
        <4>2. CASE i = Len(closed) + 1
          BY <2>2, <3>2, <4>2
        <4>3. QED
          BY <3>2, <4>1, <4>2
      <3>4. QED
        BY <3>3 DEF StrokesAreWholeGestures
    <2>3. QED
      BY <2>1, <2>2 DEF Handles
  <1>10. QED
    BY <1>4, <1>5, <1>6, <1>7, <1>8, <1>9 DEF Inv

(* Every way of taking a sample.                                           *)
LEMMA TakeSampleStep ==
  ASSUME Inv, TakeSample
  PROVE  Inv'
  <1>0. awaiting \in BOOLEAN /\ reading \in BOOLEAN /\ (reading => active = 0)
    BY DEF Inv, Type, Position
  <1>1. ASSUME NEW phase \in Phases, NEW temporary \in BOOLEAN, Taking(phase, temporary),
               Handles(First)
        PROVE  Inv'
    <2>1. /\ Takes(First)
          /\ UNCHANGED <<queue, retry, admitted, picks, paused, skipped, latched, gates, hand, job, cut>>
      BY <1>1, TakingTakes
    <2>2. QED
      BY <1>1, <2>1, HandledKept
  <1>2. ASSUME NEW phase \in Phases, NEW temporary \in BOOLEAN, Taking(phase, temporary)
        PROVE  /\ Takes(First) /\ First.phase = phase
               /\ temporary = IF phase = "begin" THEN First.temporary ELSE reading
               /\ reading' = (phase \in {"begin", "move"} /\ temporary)
               /\ picked = 0
               /\ CancelPicker => barrier' = barrier /\ picker' = 0 /\ picked' = 0
               /\ Released(0) = barrier
               /\ First.phase = "end" /\ reading => barrier = First.gesture
    <2>1. /\ Takes(First) /\ First.phase = phase
          /\ temporary = IF phase = "begin" THEN First.temporary ELSE reading
          /\ reading' = (phase \in {"begin", "move"} /\ temporary)
      BY <1>2, TakingTakes
    <2>2. QED
      BY <2>1, TakeIsFree, ReadingEnd DEF Released
  <1>3. CASE Discard
    <2>1. PICK phase \in Phases \ {"begin"}, temporary \in BOOLEAN :
            /\ Taking(phase, temporary)
            /\ barrier' = IF phase = "end" /\ temporary THEN Released(First.gesture) ELSE barrier
      BY <1>3 DEF Discard
    <2>2. Handles(First)
      BY <1>0, <1>2, <1>3, <2>1 DEF Discard, Handles, Drawn, IsEnd, Phases, Released
    <2>3. QED
      BY <1>1, <2>1, <2>2
  <1>4. CASE BeginPick
    <2>1. Taking("begin", TRUE) /\ "begin" \in Phases
      BY <1>4 DEF BeginPick, Phases
    <2>2. Handles(First)
      BY <1>0, <1>2, <1>4, <2>1 DEF BeginPick, Handles, Drawn, IsEnd
    <2>3. QED
      BY <1>1, <2>1, <2>2
  <1>5. CASE MovePick
    <2>1. Taking("move", TRUE) /\ "move" \in Phases
      BY <1>5 DEF MovePick, Phases
    <2>2. Handles(First)
      BY <1>0, <1>2, <1>5, <2>1 DEF MovePick, Handles, Drawn, IsEnd
    <2>3. QED
      BY <1>1, <2>1, <2>2
  <1>6. CASE EndPick
    <2>1. Taking("end", TRUE) /\ "end" \in Phases
      BY <1>6 DEF EndPick, Phases
    <2>2. Handles(First)
      BY <1>0, <1>2, <1>6, <2>1 DEF EndPick, Handles, Drawn, IsEnd, Released
    <2>3. QED
      BY <1>1, <2>1, <2>2
  <1>7. CASE CancelPick
    <2>1. Taking("cancel", TRUE) /\ "cancel" \in Phases
      BY <1>7 DEF CancelPick, Phases
    <2>2. Handles(First)
      BY <1>0, <1>2, <1>7, <2>1 DEF CancelPick, Handles, Drawn, IsEnd
    <2>3. QED
      BY <1>1, <2>1, <2>2
  <1>8. CASE BeginStroke
    <2>1. Taking("begin", FALSE) /\ "begin" \in Phases
      BY <1>8 DEF BeginStroke, Phases
    <2>2. Handles(First)
      BY <1>0, <1>2, <1>8, <2>1 DEF BeginStroke, Handles, Drawn, IsEnd
    <2>3. QED
      BY <1>1, <2>1, <2>2
  <1>9. CASE RefuseStroke
    <2>1. Taking("begin", FALSE) /\ "begin" \in Phases
      BY <1>9 DEF RefuseStroke, Phases
    <2>2. Handles(First)
      BY <1>0, <1>2, <1>9, <2>1 DEF RefuseStroke, Handles, Drawn, IsEnd
    <2>3. QED
      BY <1>1, <2>1, <2>2
  <1>10. CASE MoveStroke
    <2>1. Taking("move", FALSE) /\ "move" \in Phases
      BY <1>10 DEF MoveStroke, Phases
    <2>2. Handles(First)
      BY <1>0, <1>2, <1>10, <2>1 DEF MoveStroke, Handles, Drawn, IsEnd
    <2>3. QED
      BY <1>1, <2>1, <2>2
  <1>11. CASE SpoilStroke
    <2>1. PICK phase \in {"move", "end"} : Taking(phase, FALSE) /\ phase \in Phases
      BY <1>11 DEF SpoilStroke, Phases
    <2>2. Handles(First)
      BY <1>0, <1>2, <1>11, <2>1 DEF SpoilStroke, Handles, Drawn, IsEnd
    <2>3. QED
      BY <1>1, <2>1, <2>2
  <1>12. CASE EndStroke
    <2>1. Taking("end", FALSE) /\ "end" \in Phases
      BY <1>12 DEF EndStroke, Phases
    <2>2. Takes(First) /\ First.phase = "end"
      BY <1>2, <2>1
    <2>3. active # 0 => First.gesture = active \/ active \in cut
      BY <1>12, <2>2, EndsWhole DEF EndStroke
    <2>4. Handles(First)
      BY <1>0, <1>2, <1>12, <2>1, <2>3 DEF EndStroke, Closes, Handles, Drawn, IsEnd
    <2>5. QED
      BY <1>1, <2>1, <2>4
  <1>13. CASE CancelStroke
    <2>1. Taking("cancel", FALSE) /\ "cancel" \in Phases
      BY <1>13 DEF CancelStroke, Phases
    <2>2. Handles(First)
      BY <1>0, <1>2, <1>13, <2>1 DEF CancelStroke, Handles, Drawn, IsEnd
    <2>3. QED
      BY <1>1, <2>1, <2>2
  <1>14. QED
    BY <1>3, <1>4, <1>5, <1>6, <1>7, <1>8, <1>9, <1>10, <1>11, <1>12, <1>13 DEF TakeSample

-----------------------------------------------------------------------------
(* The other steps *)

(* No job is a job of no kind, and without one nothing is paused.          *)
LEMMA NoJobs ==
  /\ NoJob \in Jobs /\ NoJob.kind = "none" /\ NoJob.pick = 0 /\ ~NoJob.answered
  /\ Inv => /\ paused => picked = 0 /\ Stream = {}
            /\ ~paused => job = NoJob /\ job.pick = 0 /\ job.kind = "none"
  BY DEF NoJob, Jobs, Inv, Gates

(* A step that leaves the stream alone keeps its invariants, whether it    *)
(* gives up the stroke or not, and may release a barrier behind an empty   *)
(* stream.                                                                 *)
LEMMA StreamKept ==
  ASSUME Inv,
         UNCHANGED <<queue, retry, batch, lost, latched, down, pen, cut, admitted, skipped, picks,
                     reading>>,
         closing' \in {closing, TRUE}, active' \in {active, 0}, Drawn' \in {Drawn, 0},
         pc' # "samples" => batch = <<>> /\ ~lost,
         barrier' = barrier \/ Stream = {}
  PROVE  /\ InOrder' /\ Position' /\ Unbroken' /\ Following' /\ Barriers'
         /\ Stream' = Stream
  <1>1. /\ Waiting' = Waiting /\ Pushed' = Pushed /\ Stream' = Stream
        /\ Live' = Live /\ Ahead' = Ahead
    BY DEF Waiting, Pushed, Stream, Live, Ahead
  <1>2. InOrder'
    BY <1>1 DEF Inv, InOrder
  <1>3. Position'
    <2>1. /\ pen \in Nat /\ active \in Nat /\ \A s \in Stream : s.gesture \in Nat
      BY StreamTyped, Ranks DEF Inv, Type
    <2>2. Saturated' = Saturated
      BY DEF Saturated, Evictable
    <2>3. QED
      BY <1>1, <2>1, <2>2 DEF Inv, Position
  <1>4. Whole(Ahead', Drawn') /\ (lost' => Whole(Pushed', 0))
    BY <1>1 DEF Inv, Unbroken, Whole
  <1>5. Unbroken'
    BY <1>4 DEF Unbroken, Whole, Begun, Ended
  <1>6. Following'
    <2>1. (Begun(Live') \cup (IF lost' THEN {} ELSE {Drawn'})) \ (cut' \cup {0})
            \subseteq (Begun(Live) \cup (IF lost THEN {} ELSE {Drawn})) \ (cut \cup {0})
      BY <1>1
    <2>2. QED
      BY <1>1, <2>1 DEF Inv, Following, Ended, Begun
  <1>7. Barriers'
    <2>1. CASE barrier' = barrier
      BY <1>1, <2>1 DEF Inv, Barriers, Barring
    <2>2. CASE Stream = {}
      <3>1. Ahead' = {} /\ Pushed' = {} /\ Live' = Live
        BY <1>1, <2>2 DEF Ahead, Stream
      <3>2. QED
        BY <3>1 DEF Inv, Barriers, Barring
    <2>3. QED
      BY <2>1, <2>2
  <1>8. QED
    BY <1>1, <1>2, <1>3, <1>5, <1>6, <1>7

(* The strokes closed are not touched.                                     *)
LEMMA ClosedKept ==
  ASSUME Inv, closed' = closed, cut' = cut
  PROVE  StrokesAreWholeGestures'
  BY DEF Inv, StrokesAreWholeGestures

(* Closing and Save As keep the invariant: they only set their flags.      *)
LEMMA InterfaceStep ==
  ASSUME Inv, Interface
  PROVE  Inv'
  <1>1. /\ UNCHANGED <<queue, retry, batch, lost, latched, down, pen, cut, admitted, skipped, picks,
                       reading, active, awaiting, barrier, pc, picker, picked, job, paused, closed>>
        /\ closing' \in {closing, TRUE} /\ saving' \in {saving, TRUE, FALSE}
    BY DEF Interface, QueueSaveAs, BeginClose, DeclineSaveAs, lane, gates, hand, owner, record
  <1>2. Drawn' = Drawn /\ (pc' # "samples" => batch = <<>> /\ ~lost)
    BY <1>1 DEF Drawn, Inv, Position
  <1>3. /\ InOrder' /\ Position' /\ Unbroken' /\ Following' /\ Barriers' /\ Stream' = Stream
    BY <1>1, <1>2, StreamKept
  <1>4. Type'
    <2>1. closing' \in BOOLEAN /\ saving' \in BOOLEAN
      BY <1>1 DEF Inv, Type
    <2>2. UNCHANGED <<queue, retry, batch, lost, latched, down, pen, admitted, skipped, picks,
                      reading, active, awaiting, barrier, picker, picked, job, paused, closed>>
      BY <1>1
    <2>3. QED
      BY <2>1, <2>2 DEF Inv, Type
  <1>5. Gates' /\ StrokesAreWholeGestures'
    BY <1>1, <1>3, ClosedKept DEF Inv, Gates, NoJob
  <1>6. QED
    BY <1>3, <1>4, <1>5 DEF Inv

(* The frame that finds the canvas retiring keeps the invariant.           *)
LEMMA RetireStep ==
  ASSUME Inv, Retire
  PROVE  Inv'
  <1>1. /\ UNCHANGED <<queue, retry, batch, lost, latched, down, pen, cut, admitted, skipped, picks,
                       reading, active, awaiting, barrier, picker, picked, job, paused, closed,
                       closing, saving>>
        /\ pc = "poll"
    BY DEF Retire, lane, gates, hand, record
  <1>2. Drawn' = Drawn /\ batch = <<>> /\ ~lost
    BY <1>1 DEF Drawn, Inv, Position
  <1>3. /\ InOrder' /\ Position' /\ Unbroken' /\ Following' /\ Barriers' /\ Stream' = Stream
    BY <1>1, <1>2, StreamKept
  <1>4. Type' /\ Gates' /\ StrokesAreWholeGestures'
    BY <1>1, <1>3, ClosedKept DEF Inv, Type, Gates, NoJob
  <1>5. QED
    BY <1>3, <1>4 DEF Inv

(* The answer of an edit, which ends its pause, keeps the invariant.       *)
LEMMA PollStep ==
  ASSUME Inv, Poll
  PROVE  Inv'
  <1>1. /\ UNCHANGED <<queue, retry, batch, lost, latched, down, pen, cut, admitted, skipped, picks,
                       reading, active, awaiting, barrier, picker, picked, closed, closing, saving>>
        /\ pc = "poll"
        /\ \/ job.kind = "edit" /\ job' = NoJob /\ paused' = FALSE
           \/ job' = job /\ paused' = paused
    BY DEF Poll, gates, hand, record
  <1>2. Drawn' = Drawn /\ batch = <<>> /\ ~lost
    BY <1>1 DEF Drawn, Inv, Position
  <1>3. /\ InOrder' /\ Position' /\ Unbroken' /\ Following' /\ Barriers' /\ Stream' = Stream
    BY <1>1, <1>2, StreamKept
  <1>4. Type'
    <2>1. job' \in Jobs /\ paused' \in BOOLEAN
      BY <1>1, NoJobs DEF Inv, Type
    <2>2. QED
      BY <1>1, <2>1 DEF Inv, Type
  <1>5. Gates'
    <2>1. CASE job.kind = "edit" /\ job' = NoJob /\ paused' = FALSE
      <3>1. job.pick = 0
        BY <2>1 DEF Inv, Gates
      <3>2. QED
        BY <1>1, <1>3, <2>1, <3>1, NoJobs DEF Inv, Gates
    <2>2. CASE job' = job /\ paused' = paused
      BY <1>1, <1>3, <2>2 DEF Inv, Gates
    <2>3. QED
      BY <1>1, <2>1, <2>2
  <1>6. QED
    BY <1>1, <1>3, <1>4, <1>5, ClosedKept DEF Inv

(* Reading the pick that has ended keeps the invariant: its token dropped, *)
(* the barrier is released; its job started, the pause begins with nothing *)
(* on its way and no stroke drawn.                                         *)
LEMMA AdoptPickStep ==
  ASSUME Inv, AdoptPick
  PROVE  Inv'
  <1>1. /\ UNCHANGED <<queue, retry, batch, lost, latched, down, pen, cut, admitted, skipped, picks,
                       reading, active, awaiting, picker, closed, closing, saving>>
        /\ pc = "adopt"
    BY DEF AdoptPick, gates, hand, record
  <1>2. Drawn' = Drawn /\ batch = <<>> /\ ~lost /\ Waiting = {}
    BY <1>1 DEF Drawn, Inv, Position, Waiting, Of
  <1>3. \/ /\ picked # 0 /\ Idle /\ CanPause
           /\ job' = Job("pick", picked) /\ paused' = TRUE /\ picked' = 0 /\ barrier' = barrier
        \/ /\ picked # 0 /\ barrier' = Released(picked) /\ picked' = 0
           /\ job' = job /\ paused' = paused
        \/ UNCHANGED <<job, paused, picked, barrier>>
    BY DEF AdoptPick
  <1>4. picked # 0 => barrier = picked /\ Stream = {}
    BY DEF Inv, Gates
  <1>5. /\ InOrder' /\ Position' /\ Unbroken' /\ Following' /\ Barriers' /\ Stream' = Stream
    BY <1>1, <1>2, <1>3, <1>4, StreamKept
  <1>6. picked \in Nat /\ barrier \in Nat
    BY DEF Inv, Type
  <1>7. Type' /\ Gates'
    <2>1. CASE /\ picked # 0 /\ Idle /\ CanPause
               /\ job' = Job("pick", picked) /\ paused' = TRUE /\ picked' = 0 /\ barrier' = barrier
      <3>1. ~admitted /\ active = 0 /\ picker = 0
        BY <2>1 DEF CanPause, Idle
      <3>2. /\ job' \in Jobs /\ job' # NoJob /\ job'.kind = "pick" /\ job'.pick = picked
        BY <1>6, <2>1 DEF Job, Jobs, NoJob
      <3>3. Type'
        BY <1>1, <2>1, <3>2 DEF Inv, Type
      <3>4. Gates'
        BY <1>1, <1>4, <1>5, <2>1, <3>1, <3>2 DEF Inv, Gates
      <3>5. QED
        BY <3>3, <3>4
    <2>2. CASE /\ picked # 0 /\ barrier' = Released(picked) /\ picked' = 0
               /\ job' = job /\ paused' = paused
      <3>1. barrier' = 0 /\ ~paused
        BY <1>4, <2>2 DEF Released, Inv, Gates
      <3>2. job = NoJob /\ job.pick = 0 /\ job.kind # "pick"
        BY <3>1, NoJobs
      <3>3. Type'
        BY <1>1, <2>2, <3>1 DEF Inv, Type
      <3>4. Gates'
        BY <1>1, <1>5, <2>2, <3>1, <3>2 DEF Inv, Gates
      <3>5. QED
        BY <3>3, <3>4
    <2>3. CASE UNCHANGED <<job, paused, picked, barrier>>
      BY <1>1, <1>5, <2>3 DEF Inv, Type, Gates, NoJob
    <2>4. QED
      BY <1>3, <2>1, <2>2, <2>3
  <1>8. StrokesAreWholeGestures'
    BY <1>1, ClosedKept
  <1>9. QED
    BY <1>5, <1>7, <1>8 DEF Inv

(* An edit, a Cancel or no command keeps the invariant: the edit's pause   *)
(* begins only when nothing is on its way.                                 *)
LEMMA CommandsStep ==
  ASSUME Inv, Commands
  PROVE  Inv'
  <1>1. /\ UNCHANGED <<queue, retry, batch, lost, latched, down, pen, cut, admitted, skipped, picks,
                       reading, closed, closing, saving>>
        /\ pc = "commands"
    BY DEF Commands, gates, hand
  <1>2. batch = <<>> /\ ~lost
    BY <1>1 DEF Inv, Position
  <1>3. /\ picked \in Nat /\ barrier \in Nat /\ active \in Nat /\ awaiting \in BOOLEAN
        /\ picked # 0 => barrier = picked /\ Stream = {}
    BY DEF Inv, Type, Gates
  <1>4. CASE RequestEdit
    <2>1. /\ job' = Job("edit", 0) /\ paused' = TRUE /\ picked = 0
          /\ UNCHANGED <<barrier, active, awaiting, picker, picked>>
          /\ ~admitted /\ active = 0 /\ picker = 0 /\ job = NoJob
          /\ queue = <<>> /\ retry = <<>>
      BY <1>4 DEF RequestEdit, Idle, CanPause
    <2>2. Stream = {}
      BY <1>2, <2>1 DEF Stream, Waiting, Pushed, Of
    <2>3. Drawn' = Drawn
      BY <2>1 DEF Drawn
    <2>4. /\ InOrder' /\ Position' /\ Unbroken' /\ Following' /\ Barriers' /\ Stream' = Stream
      BY <1>1, <1>2, <2>1, <2>3, StreamKept
    <2>5. job' \in Jobs /\ job' # NoJob /\ job'.kind = "edit" /\ job'.pick = 0
      BY <2>1 DEF Job, Jobs, NoJob
    <2>6. Type'
      BY <1>1, <2>1, <2>5 DEF Inv, Type
    <2>7. Gates'
      BY <1>1, <2>1, <2>2, <2>4, <2>5 DEF Inv, Gates
    <2>8. QED
      BY <1>1, <2>4, <2>6, <2>7, ClosedKept DEF Inv
  <1>5. CASE CancelGesture
    <2>1. /\ active' = 0 /\ awaiting' = TRUE /\ picker' = 0 /\ picked' = 0
          /\ barrier' = Released(picked) /\ job' = job /\ paused' = paused
      BY <1>5 DEF CancelGesture, CancelPicker
    <2>2. /\ Drawn' = 0
          /\ picked = 0 => barrier' = barrier
          /\ picked # 0 => barrier' = 0
      BY <1>3, <2>1 DEF Drawn, Released
    <2>3. /\ InOrder' /\ Position' /\ Unbroken' /\ Following' /\ Barriers' /\ Stream' = Stream
      BY <1>1, <1>2, <1>3, <2>1, <2>2, StreamKept
    <2>4. Type'
      BY <1>1, <1>3, <2>1, <2>2 DEF Inv, Type
    <2>5. Gates'
      <3>1. paused => picked = 0
        BY DEF Inv, Gates
      <3>2. job.pick # 0 => paused
        BY NoJobs
      <3>3. 0 <= barrier
        BY <1>3
      <3>4. QED
        BY <1>1, <1>3, <2>1, <2>2, <2>3, <3>1, <3>2, <3>3 DEF Inv, Gates, NoJob
    <2>6. QED
      BY <1>1, <2>3, <2>4, <2>5, ClosedKept DEF Inv
  <1>6. CASE UNCHANGED <<job, paused, barrier, active, awaiting, picker, picked, spoiled>>
    <2>1. Drawn' = Drawn
      BY <1>6 DEF Drawn
    <2>2. /\ InOrder' /\ Position' /\ Unbroken' /\ Following' /\ Barriers' /\ Stream' = Stream
      BY <1>1, <1>2, <1>6, <2>1, StreamKept
    <2>3. Type' /\ Gates'
      BY <1>1, <1>6, <2>2 DEF Inv, Type, Gates, NoJob
    <2>4. QED
      BY <1>1, <2>2, <2>3, ClosedKept DEF Inv
  <1>7. QED
    BY <1>4, <1>5, <1>6 DEF Commands

(* The end of a pick, which lifts its own barrier and pause, keeps the     *)
(* invariant.                                                              *)
LEMMA FinishPickStep ==
  ASSUME Inv, FinishPick
  PROVE  Inv'
  <1>1. /\ UNCHANGED <<queue, retry, batch, lost, latched, down, pen, cut, admitted, skipped, picks,
                       reading, active, awaiting, picker, picked, closed, closing, saving>>
        /\ pc = "picks"
        /\ \/ job.kind = "pick" /\ job' = NoJob /\ paused' = FALSE /\ barrier' = Released(job.pick)
           \/ UNCHANGED <<job, paused, barrier>>
    BY DEF FinishPick, gates, hand, record
  <1>2. Drawn' = Drawn /\ batch = <<>> /\ ~lost
    BY <1>1 DEF Drawn, Inv, Position
  <1>3. CASE job.kind = "pick" /\ job' = NoJob /\ paused' = FALSE /\ barrier' = Released(job.pick)
    <2>1. /\ job.pick # 0 /\ barrier = job.pick /\ barrier' = 0
      BY <1>3 DEF Inv, Gates, Released
    <2>2. paused /\ Stream = {} /\ picked = 0
      BY <2>1, NoJobs
    <2>3. /\ InOrder' /\ Position' /\ Unbroken' /\ Following' /\ Barriers' /\ Stream' = Stream
      BY <1>1, <1>2, <2>2, StreamKept
    <2>4. Type'
      BY <1>1, <1>3, <2>1, NoJobs DEF Inv, Type
    <2>5. Gates'
      BY <1>1, <1>3, <2>1, <2>2, NoJobs DEF Gates
    <2>6. QED
      BY <1>1, <2>3, <2>4, <2>5, ClosedKept DEF Inv
  <1>4. CASE UNCHANGED <<job, paused, barrier>>
    <2>1. /\ InOrder' /\ Position' /\ Unbroken' /\ Following' /\ Barriers' /\ Stream' = Stream
      BY <1>1, <1>2, <1>4, StreamKept
    <2>2. Type' /\ Gates'
      BY <1>1, <1>4, <2>1 DEF Inv, Type, Gates, NoJob
    <2>3. QED
      BY <1>1, <2>1, <2>2, ClosedKept DEF Inv
  <1>5. QED
    BY <1>1, <1>3, <1>4

(* The writer's thread touches the job and the count of its strokes.       *)
LEMMA WriterStep ==
  ASSUME Inv, Answer \/ Settle
  PROVE  Inv'
  <1>1. /\ UNCHANGED <<queue, retry, batch, lost, latched, down, pen, cut, admitted, skipped, picks,
                       reading, active, awaiting, barrier, pc, picker, picked, paused, closed,
                       closing, saving>>
        /\ job' = job \/ (job # NoJob /\ job' = [job EXCEPT !.answered = TRUE])
    BY DEF Answer, Settle, lane, gates, hand, record
  <1>2. Drawn' = Drawn /\ (pc' # "samples" => batch = <<>> /\ ~lost)
    BY <1>1 DEF Drawn, Inv, Position
  <1>3. /\ InOrder' /\ Position' /\ Unbroken' /\ Following' /\ Barriers' /\ Stream' = Stream
    BY <1>1, <1>2, StreamKept
  <1>4. /\ job' \in Jobs /\ job'.kind = job.kind /\ job'.pick = job.pick
        /\ (job' # NoJob) <=> (job # NoJob)
    <2>1. job \in Jobs
      BY DEF Inv, Type
    <2>2. CASE job # NoJob /\ job' = [job EXCEPT !.answered = TRUE]
      <3>1. /\ job' \in Jobs /\ job'.kind = job.kind /\ job'.pick = job.pick
            /\ job'.answered
        BY <2>1, <2>2 DEF Jobs
      <3>2. QED
        BY <2>2, <3>1, NoJobs
    <2>3. QED
      BY <1>1, <2>1, <2>2
  <1>5. Type' /\ Gates'
    BY <1>1, <1>3, <1>4 DEF Inv, Type, Gates
  <1>6. QED
    BY <1>1, <1>3, <1>5, ClosedKept DEF Inv

(* Both lanes become the batch, in order, and a latch becomes its loss.    *)
LEMMA DrainStep ==
  ASSUME Inv, Drain
  PROVE  Inv'
  <1>1. /\ batch' = queue \o retry /\ queue' = <<>> /\ retry' = <<>> /\ lost' = latched
        /\ latched' = FALSE /\ admitted' = (admitted /\ ~latched) /\ picks' = (picks /\ ~latched)
        /\ pc = "drain" /\ pc' = "samples"
        /\ UNCHANGED <<barrier, paused, skipped, closing, saving, down, pen, active, awaiting,
                       reading, picker, picked, job, cut, closed>>
    BY DEF Drain, Taken, gates, hand, record
  <1>2. Waiting = {} /\ ~lost
    BY <1>1 DEF Inv, Position, Waiting, Of
  <1>3. /\ batch' \in Seq(Samples) /\ Waiting' = Pushed /\ Sorted(batch')
        /\ queue' \in Seq(Samples) /\ retry' \in Seq(Samples) /\ Pushed' = {}
        /\ Sorted(queue') /\ Sorted(retry')
    <2>1. /\ queue \in Seq(Samples) /\ retry \in Seq(Samples) /\ Sorted(queue) /\ Sorted(retry)
          /\ \A s \in Of(queue), t \in Of(retry) : Before(s, t)
      BY DEF Inv, Type, InOrder
    <2>2. batch' \in Seq(Samples) /\ Of(batch') = Of(queue) \cup Of(retry) /\ Sorted(batch')
      BY <1>1, <2>1, Joined
    <2>3. /\ queue' \in Seq(Samples) /\ Of(queue') = {} /\ Sorted(queue')
          /\ retry' \in Seq(Samples) /\ Of(retry') = {} /\ Sorted(retry')
      BY <1>1 DEF Of, Sorted
    <2>4. QED
      BY <2>2, <2>3 DEF Waiting, Pushed
  <1>4. /\ Stream = Pushed /\ Live = Pushed /\ Ahead = Pushed
        /\ Stream' = Pushed /\ Ahead' = Pushed /\ Drawn' = Drawn
        /\ Live' = IF latched THEN {} ELSE Pushed
    BY <1>1, <1>2, <1>3 DEF Stream, Live, Ahead, Drawn
  <1>5. Type'
    BY <1>1, <1>3 DEF Inv, Type
  <1>6. InOrder'
    <2>1. Of(queue') = {} /\ Of(retry') = {}
      BY <1>3 DEF Pushed
    <2>2. QED
      BY <1>1, <1>3, <1>4, <2>1 DEF Inv, InOrder
  <1>7. Position'
    BY <1>1, <1>4 DEF Inv, Position
  <1>8. Unbroken'
    <2>1. Whole(Pushed, Drawn)
      BY <1>4 DEF Inv, Unbroken
    <2>2. QED
      BY <1>1, <1>3, <1>4, <2>1 DEF Unbroken, Whole, Begun, Ended
  <1>9. Following'
    <2>1. CASE latched
      <3>1. Begun(Live') = {} /\ lost'
        BY <1>1, <1>4, <2>1 DEF Begun
      <3>2. QED
        BY <3>1 DEF Following, Begun
    <2>2. CASE ~latched
      <3>1. Live' = Live /\ ~lost' /\ admitted' = admitted
        BY <1>1, <1>4, <2>2 DEF Inv, Type
      <3>2. QED
        BY <1>1, <1>2, <1>4, <2>2, <3>1 DEF Inv, Following, Begun, Ended
    <2>3. QED
      BY <2>1, <2>2 DEF Inv, Type
  <1>10. Barriers'
    <2>1. Barring(Ahead, reading)'
      BY <1>1, <1>4 DEF Inv, Barriers, Barring
    <2>2. Barring(Pushed, FALSE)'
      BY <1>3 DEF Barring
    <2>3. CASE latched
      <3>1. Live' = {} /\ lost'
        BY <1>1, <1>4, <2>3
      <3>2. ~ReadsAt(Live', reading' /\ ~lost', 3 * (pen' + 1))
        BY <3>1 DEF ReadsAt
      <3>3. QED
        BY <2>1, <2>2, <3>2 DEF Barriers
    <2>4. CASE ~latched
      <3>1. Live' = Live /\ (reading' /\ ~lost') = (reading /\ ~lost) /\ picks' = picks
        BY <1>1, <1>2, <1>4, <2>4 DEF Inv, Type
      <3>2. ReadsAt(Live, reading /\ ~lost, 3 * (pen + 1)) => picks
        BY <2>4 DEF Inv, Barriers
      <3>3. ReadsAt(Live', reading' /\ ~lost', 3 * (pen' + 1)) => picks'
        BY <1>1, <3>1, <3>2
      <3>4. QED
        BY <2>1, <2>2, <3>3 DEF Barriers
    <2>5. QED
      BY <2>3, <2>4 DEF Inv, Type
  <1>11. Gates'
    BY <1>1, <1>4 DEF Inv, Gates, NoJob
  <1>12. QED
    BY <1>1, <1>5, <1>6, <1>7, <1>8, <1>9, <1>10, <1>11, ClosedKept DEF Inv

(* What follows a loss is taken from a clean start.                        *)
LEMMA AcknowledgeStep ==
  ASSUME Inv, Acknowledge
  PROVE  Inv'
  <1>1. /\ batch = <<>> /\ lost' = FALSE /\ pc' \in {"seal", "adopt"}
        /\ UNCHANGED <<queue, retry, admitted, picks, paused, skipped, latched, closing, saving,
                       down, pen, batch, job, cut, closed>>
        /\ IF lost THEN CancelPicker /\ reading' = FALSE /\ active' = 0 /\ awaiting' = TRUE
           ELSE UNCHANGED <<picker, picked, barrier, reading, active, awaiting>>
    BY DEF Acknowledge, gates, hand, record
  <1>2. Waiting = {} /\ Waiting' = {} /\ Pushed' = Pushed
    BY <1>1 DEF Waiting, Pushed, Of
  <1>3. /\ Stream = Pushed /\ Live = Pushed
        /\ Stream' = Pushed /\ Live' = Pushed /\ Ahead' = Pushed
        /\ ~lost => Ahead = Pushed
    BY <1>1, <1>2 DEF Stream, Live, Ahead
  <1>4. CASE ~lost
    <2>1. Drawn' = Drawn /\ UNCHANGED <<picker, picked, barrier, reading, active, awaiting>>
      BY <1>1, <1>4 DEF Drawn
    <2>2. lost' = lost
      BY <1>1, <1>4 DEF Inv, Type
    <2>3. InOrder' /\ Position' /\ Unbroken' /\ Following' /\ Barriers' /\ Stream' = Stream
      BY <1>1, <1>4, <2>1, <2>2, StreamKept
    <2>4. Type' /\ Gates'
      BY <1>1, <2>1, <2>2, <2>3 DEF Inv, Type, Gates, NoJob
    <2>5. QED
      BY <1>1, <2>3, <2>4, ClosedKept DEF Inv
  <1>5. CASE lost
    <2>1. /\ picker' = 0 /\ picked' = 0 /\ barrier' = Released(picked)
          /\ reading' = FALSE /\ active' = 0 /\ awaiting' = TRUE /\ Drawn' = 0
      BY <1>1, <1>5 DEF CancelPicker, Drawn
    <2>2. /\ barrier \in Nat /\ picked \in Nat
          /\ picked # 0 => barrier = picked /\ Pushed = {}
      BY <1>3 DEF Inv, Type, Gates
    <2>3. barrier' = IF picked # 0 THEN 0 ELSE barrier
      BY <2>1, <2>2 DEF Released
    <2>4. Type'
      <3>1. barrier' \in Nat /\ lost' \in BOOLEAN
        BY <1>1, <2>2, <2>3
      <3>2. QED
        BY <1>1, <2>1, <3>1 DEF Inv, Type
    <2>5. InOrder'
      BY <1>1, <1>2, <1>3 DEF Inv, InOrder
    <2>6. Position'
      <3>1. pen \in Nat /\ \A s \in Pushed : s.gesture \in Nat
        BY StreamTyped, Ranks DEF Inv, Type
      <3>2. Saturated' = Saturated
        BY <1>1 DEF Saturated, Evictable
      <3>3. QED
        BY <1>1, <1>3, <2>1, <3>1, <3>2 DEF Inv, Position
    <2>7. Unbroken'
      BY <1>1, <1>2, <1>3, <1>5, <2>1 DEF Inv, Unbroken, Whole, Begun, Ended
    <2>8. Following'
      BY <1>1, <1>3, <1>5, <2>1 DEF Inv, Following, Begun, Ended
    <2>9. Barriers'
      <3>1. Barring(Pushed, FALSE) /\ (~latched /\ ReadsAt(Pushed, FALSE, 3 * (pen + 1)) => picks)
        <4>1. (reading /\ ~lost) = FALSE
          BY <1>5
        <4>2. QED
          BY <1>3, <1>5, <4>1 DEF Inv, Barriers
      <3>2. Barring(Ahead, reading)'
        BY <1>3, <2>1, <2>2, <2>3, <3>1 DEF Barring
      <3>3. (reading' /\ ~lost') = FALSE
        BY <2>1
      <3>4. QED
        BY <1>1, <1>3, <3>1, <3>2, <3>3 DEF Barriers
    <2>10. Gates'
      <3>1. /\ paused => picked = 0
            /\ job.pick # 0 => paused
        BY NoJobs
      <3>2. QED
        BY <1>1, <1>3, <2>1, <2>2, <2>3, <3>1 DEF Inv, Gates, NoJob
    <2>11. QED
      BY <1>1, <2>4, <2>5, <2>6, <2>7, <2>8, <2>9, <2>10, ClosedKept DEF Inv
  <1>6. QED
    BY <1>4, <1>5

(* An empty stream with nothing under way.                                 *)
Clean ==
  /\ Stream = {} /\ active = 0 /\ ~reading /\ ~lost
  /\ batch = <<>> /\ queue = <<>> /\ retry = <<>>
  /\ pen \in Nat /\ (down => pen > 0)

(* With nothing on its way and nothing drawn, order and wholeness say      *)
(* nothing.                                                                *)
LEMMA EmptyStream == Clean => InOrder /\ Position /\ Unbroken /\ Following /\ Barriers
  <1> SUFFICES ASSUME Clean
               PROVE  InOrder /\ Position /\ Unbroken /\ Following /\ Barriers
    OBVIOUS
  <1> USE DEF Clean
  <1>1. /\ Waiting = {} /\ Pushed = {} /\ Live = {} /\ Ahead = {} /\ Drawn = 0
        /\ Of(queue) = {} /\ Of(retry) = {}
    BY DEF Stream, Waiting, Pushed, Live, Ahead, Drawn, Of
  <1>2. InOrder
    BY <1>1 DEF InOrder, Sorted
  <1>3. Position /\ Unbroken /\ Following
    BY <1>1 DEF Position, Unbroken, Whole, Following, Begun
  <1>4. Barriers
    BY <1>1 DEF Barriers, Barring, ReadsAt
  <1>5. QED
    BY <1>2, <1>3, <1>4

(* Sealing closes what is drawn as its own; a lane that reopens is empty.  *)
LEMMA SealStep ==
  ASSUME Inv, Seal
  PROVE  Inv'
  <1>1. /\ active' = 0 /\ picker' = 0 /\ picked' = 0 /\ reading' = FALSE
        /\ \/ closed' = closed
           \/ closed' = Append(closed, [from |-> active, to |-> active])
        /\ UNCHANGED <<closing, down, pen, batch, lost, cut>>
        /\ pc = "seal" /\ Drawn' = 0
    BY DEF Seal, SealStroke, Closes, hand, Drawn
  <1>2. batch = <<>> /\ ~lost /\ Waiting = {} /\ Waiting' = {}
    BY <1>1 DEF Inv, Position, Waiting, Of
  <1>3. closed' \in Seq([from : Nat, to : Nat]) /\ StrokesAreWholeGestures'
    <2>1. CASE closed' = closed
      BY <1>1, <2>1, ClosedKept DEF Inv, Type
    <2>2. CASE closed' = Append(closed, [from |-> active, to |-> active])
      <3>1. /\ closed \in Seq([from : Nat, to : Nat])
            /\ [from |-> active, to |-> active] \in [from : Nat, to : Nat]
        BY DEF Inv, Type
      <3>2. /\ closed' \in Seq([from : Nat, to : Nat])
            /\ DOMAIN closed = 1..Len(closed) /\ Len(closed) \in Nat
            /\ DOMAIN closed' = 1..(Len(closed) + 1)
            /\ \A i \in 1..Len(closed) : closed'[i] = closed[i]
            /\ closed'[Len(closed) + 1] = [from |-> active, to |-> active]
        BY <2>2, <3>1, AppendProperties
      <3>3. ASSUME NEW i \in DOMAIN closed'
            PROVE  closed'[i].from = closed'[i].to \/ closed'[i].from \in cut'
        <4>1. CASE i \in DOMAIN closed
          BY <1>1, <3>2, <4>1 DEF Inv, StrokesAreWholeGestures
        <4>2. CASE i = Len(closed) + 1
          BY <3>2, <4>2
        <4>3. QED
          BY <3>2, <4>1, <4>2
      <3>4. QED
        BY <3>2, <3>3 DEF StrokesAreWholeGestures
    <2>3. QED
      BY <1>1, <2>1, <2>2
  <1>4. CASE closing \/ Resumed
    <2>1. /\ pc' # "samples" /\ barrier' = Released(picked)
          /\ UNCHANGED <<queue, retry, admitted, picks, skipped, latched>>
          /\ saving' \in {saving, FALSE} /\ awaiting' \in {awaiting, FALSE}
          /\ \/ paused' = paused /\ job' = job
             \/ paused' = FALSE /\ job' = NoJob
      BY <1>4 DEF Seal, Resumed
    <2>2. /\ Pushed' = Pushed /\ Stream' = Stream /\ Live' = Live /\ Ahead' = Ahead
      BY <1>1, <1>2, <2>1 DEF Pushed, Stream, Live, Ahead
    <2>3. /\ barrier \in Nat /\ picked \in Nat /\ pen \in Nat
          /\ picked # 0 => barrier = picked /\ Stream = {}
          /\ barrier' = IF picked # 0 THEN 0 ELSE barrier
      BY <2>1 DEF Inv, Type, Gates, Released
    <2>4. Type'
      <3>1. barrier' \in Nat
        BY <2>3
      <3>2. /\ UNCHANGED <<queue, retry, admitted, picks, skipped, latched, closing, down, pen,
                           batch, lost>>
            /\ active' = 0 /\ picker' = 0 /\ picked' = 0 /\ reading' = FALSE
        BY <1>1, <2>1
      <3>3. /\ saving' \in BOOLEAN /\ awaiting' \in BOOLEAN
            /\ paused' \in BOOLEAN /\ job' \in Jobs
        BY <2>1, NoJobs DEF Inv, Type
      <3>4. QED
        BY <1>3, <3>1, <3>2, <3>3 DEF Inv, Type
    <2>5. InOrder'
      BY <1>1, <1>2, <2>1, <2>2 DEF Inv, InOrder
    <2>6. Position'
      <3>1. \A s \in Stream : s.gesture \in Nat
        BY StreamTyped, Ranks DEF Inv
      <3>2. Saturated' = Saturated
        BY <2>1 DEF Saturated, Evictable
      <3>3. QED
        BY <1>1, <1>2, <2>1, <2>2, <2>3, <3>1, <3>2 DEF Inv, Position
    <2>7. Unbroken'
      BY <1>1, <1>2, <2>2 DEF Inv, Unbroken, Whole, Begun, Ended
    <2>8. Following'
      BY <1>1, <1>2, <2>1, <2>2 DEF Inv, Following, Begun, Ended
    <2>9. Barriers'
      <3>1. Barring(Ahead, reading) /\ ~lost
        BY <1>2 DEF Inv, Barriers
      <3>2. \A e \in Ahead : e.phase = "end" /\ ReadsAt(Ahead, FALSE, Rank(e)) => barrier = e.gesture
        BY <3>1, ReadsLess DEF Barring
      <3>3. Ahead \subseteq Stream
        BY DEF Ahead, Stream
      <3>4. Barring(Ahead, reading)'
        BY <1>1, <2>2, <2>3, <3>2, <3>3 DEF Barring
      <3>5. ~latched /\ ReadsAt(Live, FALSE, 3 * (pen + 1)) => picks
        BY ReadsLess DEF Inv, Barriers
      <3>6. (reading' /\ ~lost') = FALSE /\ ~lost'
        BY <1>1, <1>2
      <3>7. QED
        BY <1>1, <2>1, <2>2, <3>4, <3>5, <3>6 DEF Barriers
    <2>10. Gates'
      <3>1. /\ paused => picked = 0
            /\ job.pick # 0 => paused
        BY NoJobs
      <3>2. QED
        BY <1>1, <2>1, <2>2, <2>3, <3>1, NoJobs DEF Inv, Gates, NoJob
    <2>11. QED
      BY <1>3, <2>4, <2>5, <2>6, <2>7, <2>8, <2>9, <2>10 DEF Inv
  <1>5. CASE ~closing /\ Reset
    <2>1. /\ pc' = "poll"
          /\ queue' = <<>> /\ retry' = <<>> /\ admitted' = FALSE /\ picks' = FALSE /\ barrier' = 0
          /\ paused' = FALSE /\ skipped' = FALSE /\ latched' = FALSE
          /\ saving' = FALSE /\ awaiting' = FALSE /\ job' = NoJob
      BY <1>5 DEF Seal, Reset
    <2>2. Stream' = {}
      BY <1>2, <2>1 DEF Stream, Pushed, Of
    <2>3. /\ pen' \in Nat /\ (down' => pen' > 0) /\ batch' = <<>> /\ ~lost' /\ ~reading'
      BY <1>1, <1>2 DEF Inv, Type, Position
    <2>4. InOrder' /\ Position' /\ Unbroken' /\ Following' /\ Barriers'
      <3>1. Clean'
        BY <1>1, <2>1, <2>2, <2>3 DEF Clean
      <3>2. QED
        BY <3>1, EmptyStream, PTL
    <2>5. Type'
      <3>1. /\ UNCHANGED <<closing, down, pen, batch, lost>>
            /\ active' = 0 /\ picker' = 0 /\ picked' = 0 /\ reading' = FALSE
            /\ queue' \in Seq(Samples) /\ retry' \in Seq(Samples)
        BY <1>1, <2>1
      <3>2. QED
        BY <1>3, <2>1, <3>1, NoJobs DEF Inv, Type
    <2>6. Gates'
      BY <1>1, <2>1, <2>2, NoJobs DEF Gates
    <2>7. QED
      BY <1>3, <2>4, <2>5, <2>6 DEF Inv
  <1>6. QED
    BY <1>4, <1>5 DEF Seal

-----------------------------------------------------------------------------
(* The invariant holds at the start.                                       *)
LEMMA StartsClean ==
  ASSUME Init
  PROVE  Inv
  <1>1. Clean
    BY DEF Init, Clean, Stream, Waiting, Pushed, Of
  <1>2. InOrder /\ Position /\ Unbroken /\ Following /\ Barriers
    BY <1>1, EmptyStream
  <1>3. Type
    <2>1. \A S : <<>> \in Seq(S)
      OBVIOUS
    <2>2. job \in Jobs
      BY NoJobs DEF Init
    <2>3. QED
      BY <2>1, <2>2 DEF Init, Type
  <1>4. Gates
    BY <1>1, NoJobs DEF Init, Gates, Clean
  <1>5. StrokesAreWholeGestures
    BY DEF Init, StrokesAreWholeGestures
  <1>6. QED
    BY <1>2, <1>3, <1>4, <1>5 DEF Inv

(* A step that changes nothing of the lane keeps the invariant.            *)
LEMMA Stutters ==
  ASSUME Inv, UNCHANGED vars
  PROVE  Inv'
  <1>1. UNCHANGED <<queue, retry, batch, lost, latched, down, pen, cut, admitted, skipped, picks,
                    reading, active, awaiting, barrier, pc, picker, picked, job, paused, closed,
                    closing, saving>>
    BY DEF vars, lane, gates, hand, owner, record
  <1>2. Drawn' = Drawn /\ (pc' # "samples" => batch = <<>> /\ ~lost)
    BY <1>1 DEF Drawn, Inv, Position
  <1>3. /\ InOrder' /\ Position' /\ Unbroken' /\ Following' /\ Barriers' /\ Stream' = Stream
    BY <1>1, <1>2, StreamKept
  <1>4. Type'
    BY <1>1 DEF Inv, Type
  <1>5. Gates' /\ StrokesAreWholeGestures'
    BY <1>1, <1>3, ClosedKept DEF Inv, Gates, NoJob
  <1>6. QED
    BY <1>3, <1>4, <1>5 DEF Inv

(* Every step of the pen, the interface, the frame and the writer keeps    *)
(* the invariant.                                                          *)
LEMMA EveryStep ==
  ASSUME Inv, [Next]_vars
  PROVE  Inv'
  <1>1. CASE Pen
    BY <1>1, PenStep
  <1>2. CASE Interface
    BY <1>2, InterfaceStep
  <1>3. CASE Frame
    BY <1>3, PollStep, RetireStep, DrainStep, TakeSampleStep, AcknowledgeStep, AdoptPickStep,
       CommandsStep, FinishPickStep, SealStep DEF Frame
  <1>4. CASE Answer \/ Settle
    BY <1>4, WriterStep
  <1>5. CASE Closed \/ UNCHANGED vars
    BY <1>5, Stutters DEF Closed
  <1>6. QED
    BY <1>1, <1>2, <1>3, <1>4, <1>5 DEF Next

(* The invariant holds in every reachable state, for any capacity and any  *)
(* number of gestures and moves; the code it is about is the input lanes   *)
(* and the render thread's loop of live_ink.rs.                            *)
THEOREM Invariance == Spec => []Inv
  <1>1. Init => Inv
    BY StartsClean
  <1>2. Inv /\ [Next]_vars => Inv'
    BY EveryStep
  <1>3. QED
    BY <1>1, <1>2, PTL DEF Spec

(* A stroke never joins two gestures, whatever the lanes' capacity: what   *)
(* is evicted, refused, lost or held back is never an End whose next       *)
(* gesture goes on with the stroke, but for one a Save As has cut.         *)
THEOREM WholeGestures == Spec => []StrokesAreWholeGestures
  <1>1. Inv => StrokesAreWholeGestures
    BY DEF Inv
  <1>2. QED
    BY <1>1, Invariance, PTL

(* While the lane is paused for an edit nothing is on its way and nothing  *)
(* is being drawn, and while a pick waits for its answer no gesture begun  *)
(* after it is in the lane, in the owner's hands or drawn.                 *)
THEOREM InkAndEditsAlternate == Spec => []PausedBetweenStrokes
  <1>1. ASSUME Inv
        PROVE  PausedBetweenStrokes
    <2>1. ASSUME paused
          PROVE  queue = <<>> /\ retry = <<>> /\ batch = <<>> /\ active = 0
      <3>1. Stream = {} /\ active = 0
        BY <1>1, <2>1 DEF Inv, Gates
      <3>2. Of(queue) = {} /\ Of(retry) = {} /\ Of(batch) = {}
        BY <3>1 DEF Stream, Waiting, Pushed
      <3>3. QED
        BY <1>1, <3>1, <3>2, EmptyOf DEF Inv, Type
    <2>2. ASSUME NEW pick \in Outstanding, NEW gesture \in Underway
          PROVE  gesture <= pick
      <3>1. barrier = pick /\ barrier # 0
        BY <1>1, <2>2 DEF Outstanding, Inv, Gates
      <3>2. active <= barrier /\ \A s \in Stream : s.gesture <= barrier
        BY <1>1, <3>1 DEF Inv, Gates
      <3>3. gesture = active \/ \E s \in Stream : s.gesture = gesture
        BY <2>2 DEF Underway, ToSet, Stream, Waiting, Pushed, Of
      <3>4. QED
        BY <3>1, <3>2, <3>3
    <2>3. QED
      BY <2>1, <2>2 DEF PausedBetweenStrokes
  <1>2. QED
    BY <1>1, Invariance, PTL

-----------------------------------------------------------------------------
(* Every gesture is accounted for *)

(* Of samples T: the gestures that begin to draw, and those that end.      *)
Draws(T) == {s.gesture : s \in {b \in T : b.phase = "begin" /\ ~b.temporary}}
Lifts(T) == {s.gesture : s \in {e \in T : e.phase = "end"}}

(* The gestures whose stroke has closed, and those that will not be heard  *)
(* of again.                                                               *)
Done     == {closed[i].from : i \in DOMAIN closed}
Finished == Done \cup spoiled

(* Strokes close in the order of their gestures, none twice and none that  *)
(* was spoiled, and each before the gestures still to begin.               *)
Once ==
  /\ \A i, j \in DOMAIN closed : i < j => closed[i].from < closed[j].from
  /\ \A g \in Finished \cup ({active} \ {0}) : g <= pen /\ \A b \in Begun(Stream) : g < b
  /\ \A g \in Done : g \notin spoiled /\ (active # 0 => g < active)
  /\ active \notin spoiled
  /\ awaiting => active = 0
  /\ spoiled \subseteq Nat \ {0} /\ accepted \in Seq(Nat)

(* The gesture g begins in T, or is the one drawn, f, and ends in T.       *)
Coming(T, f, g) == (g = f \/ g \in Draws(T)) /\ g \in Lifts(T)

(* A gesture let in has finished, or is on its way from Begin to End on    *)
(* one side of a loss.                                                     *)
Owed ==
  \A g \in Of(accepted) :
    /\ g # 0
    /\ g \in Finished \/ Coming(Ahead, active, g) \/ (lost /\ Coming(Pushed, 0, g))

(* So is the one in the pen's hand, but for its End.                       *)
InHand ==
  begun /\ down =>
    \/ pen \in Finished
    \/ ~latched /\ (pen \in Draws(Live) \/ (~lost /\ pen = active))

(* A canvas that retires lets nothing in, and drains what there was.       *)
Retiring ==
  /\ retiring => /\ closing \/ saving
                 /\ pc \in {"drain", "samples", "seal", "closed"}
                 /\ pc # "drain" => queue = <<>> /\ retry = <<>>
  /\ pc \in {"seal", "closed"} => retiring

Accounted == Once /\ Owed /\ InHand /\ Retiring

(* What a step may make of the stroke drawn when h, if not 0, begins: keep *)
(* it or give it up; spoil it; close it; draw h; refuse h.                 *)
Turn(h) ==
  \/ closed' = closed /\ spoiled' = spoiled /\ active' \in {active, 0}
  \/ active # 0 /\ active' = 0 /\ closed' = closed /\ spoiled' = spoiled \cup {active}
  \/ /\ active # 0 /\ active' = 0 /\ spoiled' = spoiled
     /\ \E n \in Nat : closed' = Append(closed, [from |-> active, to |-> n])
  \/ h # 0 /\ active' = h /\ closed' = closed /\ spoiled' = spoiled
  \/ h # 0 /\ active' = 0 /\ closed' = closed /\ spoiled' = spoiled \cup {h}

(* One more stroke closed.                                                 *)
LEMMA OneMore ==
  ASSUME Inv, NEW n \in Nat, closed' = Append(closed, [from |-> active, to |-> n])
  PROVE  /\ DOMAIN closed = 1..Len(closed) /\ Len(closed) \in Nat
         /\ DOMAIN closed' = 1..(Len(closed) + 1)
         /\ \A i \in DOMAIN closed : closed'[i] = closed[i] /\ closed[i].from \in Nat
         /\ closed'[Len(closed) + 1].from = active
         /\ Done' = Done \cup {active}
  <1>1. /\ closed \in Seq([from : Nat, to : Nat])
        /\ [from |-> active, to |-> n] \in [from : Nat, to : Nat]
    BY DEF Inv, Type
  <1>2. /\ DOMAIN closed = 1..Len(closed) /\ Len(closed) \in Nat
        /\ DOMAIN closed' = 1..(Len(closed) + 1)
        /\ \A i \in 1..Len(closed) : closed'[i] = closed[i]
        /\ closed'[Len(closed) + 1] = [from |-> active, to |-> n]
    BY <1>1, AppendProperties
  <1>3. \A i \in DOMAIN closed : closed[i] \in [from : Nat, to : Nat]
    BY <1>1, <1>2, ElementOfSeq
  <1>4. closed'[Len(closed) + 1].from = active
    BY <1>2
  <1>5. Done' = Done \cup {active}
    <2>1. ASSUME NEW g \in Done'
          PROVE  g \in Done \cup {active}
      <3>1. PICK i \in DOMAIN closed' : g = closed'[i].from
        BY DEF Done
      <3>2. i \in DOMAIN closed \/ i = Len(closed) + 1
        BY <1>2, <3>1
      <3>3. QED
        BY <1>2, <1>4, <3>1, <3>2 DEF Done
    <2>2. ASSUME NEW g \in Done
          PROVE  g \in Done'
      <3>1. PICK i \in DOMAIN closed : g = closed[i].from
        BY DEF Done
      <3>2. i \in DOMAIN closed' /\ g = closed'[i].from
        BY <1>2, <3>1
      <3>3. QED
        BY <3>2 DEF Done
    <2>3. active \in Done'
      <3>1. Len(closed) + 1 \in DOMAIN closed'
        BY <1>2
      <3>2. QED
        BY <1>4, <3>1 DEF Done
    <2>4. QED
      BY <2>1, <2>2, <2>3
  <1>6. QED
    BY <1>2, <1>3, <1>4, <1>5

(* What a turn does to what has finished.                                  *)
LEMMA TurnFinishes ==
  ASSUME Inv, NEW h, Turn(h)
  PROVE  /\ Finished \subseteq Finished'
         /\ \/ Done' = Done /\ spoiled' = spoiled
            \/ active # 0 /\ active' = 0 /\ Done' = Done \cup {active} /\ spoiled' = spoiled
            \/ active # 0 /\ active' = 0 /\ Done' = Done /\ spoiled' = spoiled \cup {active}
            \/ h # 0 /\ active' = 0 /\ Done' = Done /\ spoiled' = spoiled \cup {h}
  <1>1. closed' = closed => Done' = Done
    BY DEF Done
  <1>2. ASSUME NEW n \in Nat, closed' = Append(closed, [from |-> active, to |-> n])
        PROVE  Done' = Done \cup {active}
    BY <1>2, OneMore
  <1>3. QED
    BY <1>1, <1>2 DEF Turn, Finished

(* A turn keeps the strokes in order, each once.                           *)
LEMMA TurnsOnce ==
  ASSUME Inv, Once, NEW h \in Nat, Turn(h),
         pen' \in Nat, pen <= pen', accepted' \in Seq(Nat), awaiting' => active' = 0,
         \A b \in Begun(Stream') : b \in Begun(Stream) \/ (b \in Nat /\ pen < b),
         h # 0 => h \in Begun(Stream) /\ h <= pen /\ \A b \in Begun(Stream') : h < b
  PROVE  Once'
  <1>1. /\ pen \in Nat /\ active \in Nat /\ active <= pen
        /\ closed \in Seq([from : Nat, to : Nat])
    BY DEF Inv, Type, Position
  <1>2. \A b \in Begun(Stream) : b \in Nat
    BY StreamTyped, Ranks DEF Begun, Inv
  <1>3. /\ \A g \in Done : g \in Nat
        /\ spoiled \subseteq Nat \ {0}
    <2>1. \A i \in DOMAIN closed : closed[i] \in [from : Nat, to : Nat]
      <3>1. DOMAIN closed = 1..Len(closed)
        BY <1>1
      <3>2. QED
        BY <1>1, <3>1, ElementOfSeq
    <2>2. QED
      BY <2>1 DEF Done, Once
  <1>4. \A i, j \in DOMAIN closed' : i < j => closed'[i].from < closed'[j].from
    <2>1. CASE closed' = closed
      BY <2>1 DEF Once
    <2>2. CASE active # 0 /\ \E n \in Nat : closed' = Append(closed, [from |-> active, to |-> n])
      <3>1. PICK n \in Nat : closed' = Append(closed, [from |-> active, to |-> n])
        BY <2>2
      <3>2. /\ DOMAIN closed = 1..Len(closed) /\ Len(closed) \in Nat
            /\ DOMAIN closed' = 1..(Len(closed) + 1)
            /\ \A i \in DOMAIN closed : closed'[i] = closed[i]
            /\ closed'[Len(closed) + 1].from = active
        BY <3>1, OneMore
      <3>3. ASSUME NEW i \in DOMAIN closed', NEW j \in DOMAIN closed', i < j
            PROVE  closed'[i].from < closed'[j].from
        <4>1. i \in DOMAIN closed /\ closed[i].from \in Done /\ closed'[i] = closed[i]
          BY <3>2, <3>3 DEF Done
        <4>2. CASE j \in DOMAIN closed
          BY <3>2, <3>3, <4>1, <4>2 DEF Once
        <4>3. CASE j = Len(closed) + 1
          BY <2>2, <3>2, <4>1, <4>3 DEF Once
        <4>4. QED
          BY <3>2, <4>2, <4>3
      <3>4. QED
        BY <3>3
    <2>3. QED
      BY <2>1, <2>2 DEF Turn
  <1> DEFINE past == Finished \cup ({active} \ {0})
  <1>5. /\ past' \subseteq past \cup ({h} \ {0})
        /\ \A g \in past : g \in Nat /\ g <= pen /\ \A b \in Begun(Stream) : g < b
    <2>1. \A g \in past : g \in Nat /\ g <= pen /\ \A b \in Begun(Stream) : g < b
      BY <1>1, <1>3 DEF Once, Finished
    <2>2. Finished' \subseteq past \cup ({h} \ {0})
      BY TurnFinishes DEF Finished
    <2>3. active' \in {active, 0, h}
      BY DEF Turn
    <2>4. QED
      BY <2>1, <2>2, <2>3
  <1>6. ASSUME NEW g \in past'
        PROVE  g <= pen' /\ \A b \in Begun(Stream') : g < b
    <2>1. CASE g \in past
      BY <1>1, <1>2, <1>5, <2>1
    <2>2. CASE g = h /\ h # 0
      BY <1>1, <2>2
    <2>3. QED
      BY <1>5, <2>1, <2>2
  <1>7. ASSUME h # 0
        PROVE  \A g \in past : g < h
    BY <1>5, <1>7
  <1>8. /\ \A g \in Done' : g \notin spoiled' /\ (active' # 0 => g < active')
        /\ active' \notin spoiled'
        /\ spoiled' \subseteq Nat \ {0}
    <2>1. CASE /\ closed' = closed /\ spoiled' = spoiled /\ active' \in {active, 0}
      BY <1>3, <2>1 DEF Once, Done
    <2>2. CASE active # 0 /\ active' = 0 /\ Done' = Done /\ spoiled' = spoiled \cup {active}
      <3>1. active \notin Done
        BY <1>1, <2>2 DEF Once
      <3>2. QED
        BY <1>1, <1>3, <2>2, <3>1 DEF Once
    <2>3. CASE active # 0 /\ active' = 0 /\ Done' = Done \cup {active} /\ spoiled' = spoiled
      BY <1>1, <1>3, <2>3 DEF Once
    <2>4. CASE h # 0 /\ Done' = Done /\ active' \in {h, 0}
               /\ \/ active' = h /\ spoiled' = spoiled
                  \/ active' = 0 /\ spoiled' = spoiled \cup {h}
      <3>1. h \notin Finished /\ \A g \in Done : g < h
        BY <1>7, <2>4 DEF Finished
      <3>2. QED
        BY <1>3, <2>4, <3>1 DEF Finished, Once
    <2>5. closed' = closed => Done' = Done
      BY DEF Done
    <2>6. QED
      BY <2>1, <2>2, <2>3, <2>4, <2>5, OneMore DEF Turn
  <1>9. QED
    BY <1>4, <1>6, <1>8 DEF Once

-----------------------------------------------------------------------------
(* What the owner makes of the stroke drawn when he takes f: a Begin to    *)
(* draw is drawn or refused, a move keeps the stroke or spoils it, an End  *)
(* closes or spoils it.                                                    *)
Turned(f) ==
  /\ Turn(IF f.phase = "begin" THEN f.gesture ELSE 0)
  /\ f.phase = "begin" /\ ~f.temporary => active' = f.gesture \/ f.gesture \in spoiled'
  /\ f.phase = "move" => active' = active \/ active \in spoiled'
  /\ f.phase = "end" => active = 0 \/ active \in Finished'
  /\ awaiting' => active' = 0

(* The strokes stay in order.                                              *)
LEMMA TakeOnce ==
  ASSUME Inv, Once, NEW f, Takes(f), Turned(f), pen' = pen, accepted' = accepted
  PROVE  Once'
  <1> DEFINE h == IF f.phase = "begin" THEN f.gesture ELSE 0
  <1>1. /\ f \in Samples /\ f.gesture \in Nat \ {0} /\ f \in Stream /\ Stream' \subseteq Stream
        /\ \A t \in Stream' : t \in Samples /\ Before(f, t)
        /\ pen \in Nat
    BY StreamTyped, Ranks DEF Inv, Takes, Type
  <1>2. \A b \in Begun(Stream') : b \in Begun(Stream)
    BY <1>1 DEF Begun
  <1>3. f.phase = "begin" => /\ f.gesture \in Begun(Stream) /\ f.gesture <= pen
                             /\ \A b \in Begun(Stream') : f.gesture < b
    <2>1. f.phase = "begin" => f.gesture \in Begun(Stream)
      BY <1>1 DEF Begun
    <2>2. f.gesture <= pen
      BY <1>1 DEF Inv, InOrder
    <2>3. ASSUME NEW b \in Begun(Stream')
          PROVE  f.gesture < b
      <3>1. PICK t \in Stream' : t.phase = "begin" /\ t.gesture = b
        BY <2>3 DEF Begun
      <3>2. QED
        BY <1>1, <3>1, Later
    <2>4. QED
      BY <2>1, <2>2, <2>3
  <1>4. h \in Nat /\ Turn(h) /\ (awaiting' => active' = 0)
    BY <1>1 DEF Turned
  <1>5. h # 0 => h \in Begun(Stream) /\ h <= pen /\ \A b \in Begun(Stream') : h < b
    BY <1>3
  <1>6. pen' \in Nat /\ pen <= pen' /\ accepted' \in Seq(Nat)
    BY <1>1 DEF Once
  <1> HIDE DEF h
  <1>7. QED
    BY <1>2, <1>4, <1>5, <1>6, TurnsOnce

(* What is on its way in T, when the owner takes f, the first of T: still  *)
(* to come, or finished.                                                   *)
LEMMA TakeComing ==
  ASSUME Inv, Once, NEW f, Takes(f), Turned(f), NEW g \in Nat \ {0}, Coming(Ahead, active, g)
  PROVE  g \in Finished' \/ Coming(Ahead', active', g)
  <1>1. /\ f \in Samples /\ f \in Stream /\ Ahead = {f} \cup Ahead'
        /\ \A t \in Ahead' : t \in Samples /\ t \in Stream /\ Before(f, t)
        /\ f.gesture \in Nat /\ active \in Nat /\ active <= f.gesture
        /\ f.phase \in Phases
    BY StreamTyped, Ranks DEF Inv, Takes, Type, Position
  <1>2. PICK e \in Ahead : e.phase = "end" /\ e.gesture = g
    BY DEF Coming, Lifts
  <1>3. CASE e = f
    <2>1. g \notin Draws(Ahead)
      <3>1. SUFFICES ASSUME g \in Draws(Ahead)
                     PROVE  FALSE
        OBVIOUS
      <3>2. PICK b \in Ahead : b.phase = "begin" /\ b.gesture = g
        BY <3>1 DEF Draws
      <3>3. b \in Ahead' /\ IsEnd(f)
        BY <1>1, <1>2, <1>3, <3>2 DEF IsEnd
      <3>4. f.gesture < b.gesture
        BY <1>1, <3>3, Later
      <3>5. QED
        BY <1>1, <1>2, <1>3, <3>2, <3>4
    <2>2. g = active
      BY <2>1 DEF Coming
    <2>3. QED
      BY <1>2, <1>3, <2>2 DEF Turned
  <1>4. CASE e # f
    <2>1. e \in Ahead' /\ e \in Samples /\ Before(f, e) /\ g \in Lifts(Ahead')
      BY <1>1, <1>2, <1>4 DEF Lifts
    <2>2. f.gesture <= g /\ (IsEnd(f) => f.gesture < g)
      BY <1>1, <1>2, <2>1, Later
    <2>3. CASE g \in Draws(Ahead)
      <3>1. PICK b \in Ahead : b.phase = "begin" /\ ~b.temporary /\ b.gesture = g
        BY <2>3 DEF Draws
      <3>2. CASE b \in Ahead'
        BY <2>1, <3>1, <3>2 DEF Coming, Draws
      <3>3. CASE b = f
        <4>1. active' = g \/ g \in spoiled'
          BY <3>1, <3>3 DEF Turned
        <4>2. QED
          BY <2>1, <4>1 DEF Coming, Finished
      <3>4. QED
        BY <1>1, <3>1, <3>2, <3>3
    <2>4. CASE g = active
      <3>1. f.phase # "begin"
        <4>1. f.phase = "begin" => f.gesture \in Begun(Stream)
          BY <1>1 DEF Begun
        <4>2. \A b \in Begun(Stream) : active < b
          BY <2>4 DEF Once
        <4>3. QED
          BY <1>1, <2>2, <2>4, <4>1, <4>2
      <3>2. f.phase # "cancel"
        <4>1. f.phase = "cancel" => f.gesture < active
          BY <2>2, <2>4 DEF IsEnd
        <4>2. QED
          BY <1>1, <4>1
      <3>3. CASE f.phase = "move"
        BY <2>1, <2>4, <3>3 DEF Turned, Coming, Finished
      <3>4. CASE f.phase = "end"
        BY <2>4, <3>4 DEF Turned
      <3>5. QED
        BY <1>1, <3>1, <3>2, <3>3, <3>4 DEF Phases
    <2>5. QED
      BY <2>3, <2>4 DEF Coming
  <1>5. QED
    BY <1>3, <1>4

(* Nothing that is owed is lost by taking f.                               *)
LEMMA TakeOwed ==
  ASSUME Inv, Once, Owed, NEW f, Takes(f), Turned(f), accepted' = accepted
  PROVE  Owed'
  <1>1. Finished \subseteq Finished' /\ lost' = lost /\ Pushed' = Pushed
    BY TurnFinishes DEF Turned, Takes
  <1>2. ASSUME NEW g \in Of(accepted)
        PROVE  /\ g # 0
               /\ g \in Finished' \/ Coming(Ahead', active', g) \/ (lost' /\ Coming(Pushed', 0, g))
    <2>1. g \in Nat \ {0}
      BY ElementOfSeq DEF Owed, Once, Of
    <2>2. CASE g \in Finished \/ (lost /\ Coming(Pushed, 0, g))
      BY <1>1, <2>1, <2>2
    <2>3. CASE Coming(Ahead, active, g)
      BY <2>1, <2>3, TakeComing
    <2>4. QED
      BY <2>1, <2>2, <2>3 DEF Owed
  <1>3. Of(accepted') = Of(accepted)
    OBVIOUS
  <1>4. QED
    BY <1>2, <1>3 DEF Owed, Coming, Finished, Draws, Lifts

(* Nor is the gesture in the pen's hand.                                   *)
LEMMA TakeInHand ==
  ASSUME Inv, Once, InHand, NEW f, Takes(f), Turned(f), UNCHANGED <<begun, down, pen, latched>>
  PROVE  InHand'
  <1>1. /\ f \in Samples /\ f \in Stream /\ Ahead = {f} \cup Ahead'
        /\ f.gesture \in Nat /\ active \in Nat /\ active <= f.gesture /\ f.gesture <= pen
        /\ f.phase \in Phases /\ pen \in Nat
        /\ f.gesture = pen /\ down => ~IsEnd(f)
        /\ lost' = lost /\ (lost => Live' = Live) /\ (~lost => Live = Ahead /\ Live' = Ahead')
        /\ Finished \subseteq Finished'
    BY StreamTyped, TurnFinishes, Ranks DEF Inv, Takes, Type, Position, InOrder, Turned
  <1> SUFFICES ASSUME begun, down, pen \notin Finished'
               PROVE  ~latched /\ (pen \in Draws(Live') \/ (~lost /\ pen = active'))
    BY <1>1 DEF InHand, Draws, Finished, Done
  <1>2. ~latched /\ (pen \in Draws(Live) \/ (~lost /\ pen = active))
    BY <1>1 DEF InHand
  <1>3. CASE lost
    BY <1>1, <1>2, <1>3
  <1>4. CASE ~lost /\ pen \in Draws(Live)
    <2>1. PICK b \in Ahead : b.phase = "begin" /\ ~b.temporary /\ b.gesture = pen
      BY <1>1, <1>4 DEF Draws
    <2>2. CASE b = f
      BY <1>2, <1>4, <2>1, <2>2 DEF Turned, Finished
    <2>3. CASE b \in Ahead'
      BY <1>1, <1>2, <1>4, <2>1, <2>3 DEF Draws
    <2>4. QED
      BY <1>1, <2>2, <2>3
  <1>5. CASE ~lost /\ pen = active
    <2>0. pen # 0
      BY <1>1 DEF Inv, Position
    <2>1. f.phase # "begin"
      <3>1. f.phase = "begin" => f.gesture \in Begun(Stream)
        BY <1>1 DEF Begun
      <3>2. \A b \in Begun(Stream) : active < b
        BY <1>5, <2>0 DEF Once
      <3>3. QED
        BY <1>1, <1>5, <3>1, <3>2
    <2>2. f.phase = "move"
      <3>1. f.gesture = pen
        BY <1>1, <1>5
      <3>2. QED
        BY <1>1, <2>1, <3>1 DEF IsEnd, Phases
    <2>3. QED
      BY <1>2, <1>5, <2>2 DEF Turned, Finished
  <1>6. QED
    BY <1>2, <1>3, <1>4, <1>5

(* Every way of taking a sample is such a turn.                            *)
LEMMA TakeAccounted ==
  ASSUME Inv, Accounted, TakeSample
  PROVE  Accounted'
  <1>1. \E phase \in Phases, temporary \in BOOLEAN : Taking(phase, temporary)
    BY DEF TakeSample, Discard, BeginPick, MovePick, EndPick, CancelPick, BeginStroke, RefuseStroke,
           MoveStroke, SpoilStroke, EndStroke, CancelStroke, Phases
  <1>2. /\ Takes(First) /\ UNCHANGED <<queue, retry, latched, closing, saving, down, pen, pc, retiring,
                                       accepted, begun>>
    BY <1>1, TakingTakes DEF Taking, gates, hand
  <1>3. /\ First.gesture \in Nat \ {0} /\ (reading => active = 0) /\ (awaiting => active = 0)
        /\ awaiting \in BOOLEAN
    BY <1>2, Ranks DEF Takes, Inv, Position, Accounted, Once, Type
  <1>4. Turned(First)
    <2>1. CASE Discard
      <3>1. First.phase # "begin" /\ UNCHANGED <<active, awaiting, spoiled, closed>> /\ active = 0
        BY <1>3, <2>1 DEF Discard, Taking
      <3>2. QED
        BY <1>3, <3>1 DEF Turned, Turn
    <2>2. CASE BeginPick
      <3>1. /\ First.phase = "begin" /\ First.temporary
            /\ ~awaiting' /\ active' = 0 /\ UNCHANGED <<spoiled, closed>>
        BY <2>2 DEF BeginPick, Taking
      <3>2. QED
        BY <1>3, <3>1 DEF Turned, Turn
    <2>3. CASE MovePick \/ MoveStroke
      <3>1. First.phase = "move" /\ UNCHANGED <<active, awaiting, spoiled, closed>>
        BY <2>3 DEF MovePick, MoveStroke, Taking
      <3>2. QED
        BY <1>3, <3>1 DEF Turned, Turn
    <2>4. CASE EndPick
      <3>1. First.phase = "end" /\ UNCHANGED <<active, awaiting, spoiled, closed>> /\ active = 0
        BY <1>3, <2>4 DEF EndPick, Taking
      <3>2. QED
        BY <1>3, <3>1 DEF Turned, Turn
    <2>5. CASE CancelPick \/ CancelStroke
      <3>1. /\ First.phase = "cancel" /\ UNCHANGED <<awaiting, spoiled, closed>>
            /\ active' \in {active, 0}
        BY <2>5 DEF CancelPick, CancelStroke, Taking
      <3>2. QED
        BY <1>3, <3>1 DEF Turned, Turn
    <2>6. CASE BeginStroke
      <3>1. /\ First.phase = "begin" /\ active' = First.gesture /\ ~awaiting'
            /\ UNCHANGED <<spoiled, closed>>
        BY <2>6 DEF BeginStroke, Taking
      <3>2. QED
        BY <1>3, <3>1 DEF Turned, Turn
    <2>7. CASE RefuseStroke
      <3>1. /\ First.phase = "begin" /\ active' = 0 /\ spoiled' = spoiled \cup {First.gesture}
            /\ closed' = closed
        BY <2>7 DEF RefuseStroke, Taking
      <3>2. QED
        BY <1>3, <3>1 DEF Turned, Turn
    <2>8. CASE SpoilStroke
      <3>1. /\ First.phase \in {"move", "end"} /\ active # 0 /\ active' = 0
            /\ spoiled' = spoiled \cup {active} /\ closed' = closed
        BY <2>8 DEF SpoilStroke, Taking
      <3>2. QED
        BY <1>3, <3>1 DEF Turned, Turn, Finished
    <2>9. CASE EndStroke
      <3>1. First.phase = "end" /\ active' = 0 /\ UNCHANGED <<awaiting, spoiled>>
            /\ IF active # 0 THEN closed' = Append(closed, [from |-> active, to |-> First.gesture])
                             ELSE closed' = closed
        BY <2>9 DEF EndStroke, Taking, Closes
      <3>2. active # 0 => active \in Finished'
        BY <1>3, <3>1, OneMore DEF Finished
      <3>3. Turn(0)
        BY <1>3, <3>1 DEF Turn
      <3>4. QED
        BY <1>3, <3>1, <3>2, <3>3 DEF Turned
    <2>10. QED
      BY <2>1, <2>2, <2>3, <2>4, <2>5, <2>6, <2>7, <2>8, <2>9 DEF TakeSample, Accounted
  <1>5. Retiring'
    BY <1>2 DEF Accounted, Retiring
  <1>6. QED
    BY <1>2, <1>4, <1>5, TakeOnce, TakeOwed, TakeInHand DEF Accounted

-----------------------------------------------------------------------------
(* What was coming in T is coming in what T grows to.                      *)
LEMMA ComingGrows ==
  ASSUME NEW s, NEW T, NEW U, Grown(s, T, U), NEW f, NEW g, Coming(T, f, g)
  PROVE  Coming(U, f, g)
  <1>1. \A t \in T : t.phase \in {"begin", "end"} => t \in U
    BY DEF Grown
  <1>2. g \in Lifts(U)
    BY <1>1 DEF Coming, Lifts
  <1>3. g \in Draws(T) => g \in Draws(U)
    BY <1>1 DEF Draws
  <1>4. QED
    BY <1>2, <1>3 DEF Coming

(* A call of the pen's handlers: an End let in is that of the gesture in   *)
(* hand, and a gesture in hand is in the lane until its End is.            *)
LEMMA PenAccounted ==
  ASSUME Inv, Accounted, Pen
  PROVE  Accounted'
  <1>1. PICK s \in Samples : Placed(s) /\ Push(s)
    BY PenPlaces
  <1>2. /\ Waiting' = Waiting /\ Grown(s, Pushed, Pushed')
        /\ Admit(s) => s \in Pushed'
        /\ UNCHANGED <<closing, saving, pc, batch, lost, active, awaiting, closed>>
    BY <1>1, PushGrows
  <1>3. /\ Grown(s, Stream, Stream') /\ Grown(s, Live, Live') /\ Grown(s, Ahead, Ahead')
        /\ s \in Pushed' => s \in Live'
        /\ lost => Ahead' = Ahead /\ Live = Pushed /\ Live' = Pushed'
        /\ ~lost => Ahead = Live /\ Ahead' = Live'
    BY <1>2, GrownStream
  <1>4. spoiled' = spoiled /\ retiring' = retiring /\ Done' = Done /\ Finished' = Finished
    BY <1>1, <1>2 DEF Push, owner, Done, Finished
  <1>5. /\ pen \in Nat /\ pen' \in Nat /\ s.gesture = pen' /\ pen' # 0
        /\ s.phase = "begin" => pen' = pen + 1 /\ down'
        /\ s.phase # "begin" => pen' = pen /\ down
        /\ IsEnd(s) => ~down'
    BY <1>1, Ranks DEF Inv, Type, Placed, IsEnd
  <1>6. /\ accepted \in Seq(Nat)
        /\ \/ accepted' = accepted
           \/ Admit(s) /\ s.phase = "end" /\ begun /\ accepted' = Append(accepted, s.gesture)
    BY <1>1 DEF Push, Refuse, Lose, Admit, Accounted, Once
  <1>7. Once'
    <2>1. accepted' \in Seq(Nat)
      BY <1>5, <1>6, AppendProperties
    <2>2. \A b \in Begun(Stream') : b \in Begun(Stream) \/ (b \in Nat /\ pen < b)
      BY <1>3, <1>5 DEF Begun, Grown
    <2>3. Turn(0) /\ (awaiting' => active' = 0) /\ pen <= pen'
      BY <1>2, <1>4, <1>5 DEF Turn, Accounted, Once
    <2>4. QED
      BY <1>5, <2>1, <2>2, <2>3, TurnsOnce DEF Accounted
  <1>8. Owed'
    <2>1. ASSUME NEW g \in Of(accepted)
          PROVE  /\ g # 0
                 /\ \/ g \in Finished'
                    \/ Coming(Ahead', active', g)
                    \/ lost' /\ Coming(Pushed', 0, g)
      BY <1>2, <1>3, <1>4, <2>1, ComingGrows DEF Accounted, Owed
    <2>2. ASSUME Admit(s), s.phase = "end", begun
          PROVE  /\ pen # 0
                 /\ \/ pen \in Finished'
                    \/ Coming(Ahead', active', pen)
                    \/ lost' /\ Coming(Pushed', 0, pen)
      <3>1. pen' = pen /\ down /\ s.gesture = pen /\ s \in Live'
        BY <1>2, <1>3, <1>5, <2>2
      <3>2. \/ pen \in Finished
            \/ pen \in Draws(Live)
            \/ ~lost /\ pen = active
        BY <2>2, <3>1 DEF Accounted, InHand
      <3>3. pen \in Lifts(Live')
        BY <2>2, <3>1 DEF Lifts
      <3>4. pen \in Draws(Live) => pen \in Draws(Live')
        BY <1>3 DEF Draws, Grown
      <3>5. CASE lost
        BY <1>2, <1>3, <1>4, <1>5, <3>1, <3>2, <3>3, <3>4, <3>5 DEF Coming
      <3>6. CASE ~lost
        BY <1>2, <1>3, <1>4, <1>5, <3>1, <3>2, <3>3, <3>4, <3>6 DEF Coming
      <3>7. QED
        BY <3>5, <3>6
    <2>3. ASSUME NEW g \in Of(accepted')
          PROVE  g \in Of(accepted) \/ (Admit(s) /\ s.phase = "end" /\ begun /\ g = pen)
      <3>1. CASE accepted' = accepted
        BY <2>3, <3>1
      <3>2. CASE Admit(s) /\ s.phase = "end" /\ begun /\ accepted' = Append(accepted, s.gesture)
        <4>1. /\ accepted \in Seq(Nat) /\ s.gesture \in Nat /\ s.gesture = pen
          BY <1>5, <1>6, <3>2
        <4>2. /\ DOMAIN accepted = 1..Len(accepted) /\ Len(accepted) \in Nat
              /\ DOMAIN accepted' = 1..(Len(accepted) + 1)
              /\ \A i \in 1..Len(accepted) : accepted'[i] = accepted[i]
              /\ accepted'[Len(accepted) + 1] = pen
          BY <3>2, <4>1, AppendProperties
        <4>3. PICK i \in DOMAIN accepted' : g = accepted'[i]
          BY <2>3 DEF Of
        <4>4. i \in DOMAIN accepted \/ i = Len(accepted) + 1
          BY <4>2, <4>3
        <4>5. QED
          BY <3>2, <4>2, <4>3, <4>4 DEF Of
      <3>3. QED
        BY <1>6, <3>1, <3>2
    <2>4. QED
      BY <2>1, <2>2, <2>3 DEF Owed, Coming, Draws, Lifts, Finished
  <1>9. InHand'
    <2> SUFFICES ASSUME begun', down', pen' \notin Finished
                 PROVE  ~latched' /\ (pen' \in Draws(Live') \/ (~lost /\ pen' = active))
      BY <1>2, <1>4 DEF InHand, Draws
    <2>1. CASE s.phase = "begin"
      <3>1. Admit(s) /\ ~s.temporary /\ latched' = latched /\ ~latched
        BY <1>1, <2>1 DEF Push, Refuse, Lose, Admit, Open, Shut
      <3>2. s \in Live'
        BY <1>2, <1>3, <3>1
      <3>3. QED
        BY <1>5, <2>1, <3>1, <3>2 DEF Draws
    <2>2. CASE s.phase # "begin"
      <3>1. pen' = pen /\ down /\ s.phase = "move"
        BY <1>5, <2>2, Ranks DEF IsEnd, Phases
      <3>2. begun /\ (~latched => ~latched')
        <4>1. CASE Refuse(s)
          BY <3>1, <4>1 DEF Refuse
        <4>2. CASE Lose(s)
          BY <3>1, <4>2 DEF Lose
        <4>3. CASE Admit(s)
          BY <3>1, <4>3 DEF Admit
        <4>4. QED
          BY <1>1, <4>1, <4>2, <4>3 DEF Push
      <3>3. ~latched /\ (pen \in Draws(Live) \/ (~lost /\ pen = active))
        BY <3>1, <3>2 DEF Accounted, InHand
      <3>4. pen \in Draws(Live) => pen \in Draws(Live')
        BY <1>3 DEF Draws, Grown
      <3>5. QED
        BY <3>1, <3>2, <3>3, <3>4
    <2>3. QED
      BY <2>1, <2>2
  <1>10. Retiring'
    <2>1. ASSUME retiring
          PROVE  queue' = queue /\ retry' = retry
      BY <1>1, <2>1 DEF Push, Refuse, Lose, Admit, Open, Shut, Accounted, Retiring
    <2>2. QED
      BY <1>2, <1>4, <2>1 DEF Accounted, Retiring
  <1>11. QED
    BY <1>7, <1>8, <1>9, <1>10 DEF Accounted

(* A step that moves no sample, and gives a stroke up only when it closes  *)
(* or spoils it.                                                           *)
LEMMA AccountsKept ==
  ASSUME Inv, Accounted, Waiting' = Waiting, Pushed' = Pushed,
         UNCHANGED <<lost, down, pen, accepted, begun>>, latched' \in {latched, FALSE},
         Turn(0), active' = active \/ active = 0 \/ active \in Finished',
         awaiting' => active' = 0, Retiring'
  PROVE  Accounted'
  <1>1. Stream' = Stream /\ Live' = Live /\ Ahead' = Ahead /\ Finished \subseteq Finished'
    BY TurnFinishes DEF Stream, Live, Ahead
  <1>2. Once'
    <2>1. pen' \in Nat /\ pen <= pen' /\ accepted' \in Seq(Nat)
      BY DEF Inv, Type, Accounted, Once
    <2>2. \A b \in Begun(Stream') : b \in Begun(Stream)
      BY <1>1
    <2>3. QED
      BY <2>1, <2>2, TurnsOnce DEF Accounted
  <1>3. Owed'
    <2>1. ASSUME NEW g \in Of(accepted)
          PROVE  /\ g # 0
                 /\ \/ g \in Finished'
                    \/ Coming(Ahead', active', g)
                    \/ lost' /\ Coming(Pushed', 0, g)
      BY <1>1 DEF Accounted, Owed, Coming
    <2>2. QED
      BY <2>1 DEF Owed, Coming, Draws, Lifts, Finished
  <1>4. InHand'
    <2>1. down => pen # 0
      BY DEF Inv, Type, Position
    <2>2. begun /\ down => \/ pen \in Finished'
                           \/ ~latched' /\ (pen \in Draws(Live') \/ (~lost' /\ pen = active'))
      BY <1>1, <2>1 DEF Accounted, InHand
    <2>3. QED
      BY <2>2 DEF InHand, Draws
  <1>5. QED
    BY <1>2, <1>3, <1>4 DEF Accounted

(* The steps that leave the samples and the stroke drawn alone.            *)
LEMMA OthersAccounted ==
  ASSUME Inv, Accounted,
         Interface \/ Retire \/ Poll \/ AdoptPick \/ FinishPick \/ Answer \/ Settle \/ UNCHANGED vars
  PROVE  Accounted'
  <1>1. /\ UNCHANGED <<queue, retry, batch, lost, latched, down, pen, accepted, begun, closed, spoiled,
                       active, awaiting>>
    BY DEF Interface, QueueSaveAs, BeginClose, DeclineSaveAs, Retire, Poll, AdoptPick, FinishPick,
           Answer, Settle, vars, lane, gates, hand, owner, record
  <1>2. Retiring'
    <2>1. CASE Interface \/ Retire
      BY <1>1, <2>1 DEF Interface, QueueSaveAs, BeginClose, DeclineSaveAs, Retire, owner, gates,
                        Accounted, Retiring
    <2>2. CASE Poll \/ AdoptPick \/ FinishPick
      <3>1. /\ pc \in {"poll", "adopt", "picks"} /\ pc' \in {"poll", "drain", "commands"}
            /\ retiring' = retiring
        BY <2>2 DEF Poll, AdoptPick, FinishPick
      <3>2. QED
        BY <3>1 DEF Accounted, Retiring
    <2>3. CASE Answer \/ Settle \/ UNCHANGED vars
      <3>1. UNCHANGED <<pc, retiring, closing, saving>>
        BY <2>3 DEF Answer, Settle, vars, gates, owner
      <3>2. QED
        BY <1>1, <3>1 DEF Accounted, Retiring
    <2>4. QED
      BY <2>1, <2>2, <2>3
  <1>3. Waiting' = Waiting /\ Pushed' = Pushed /\ Turn(0) /\ (awaiting' => active' = 0)
    BY <1>1 DEF Waiting, Pushed, Turn, Accounted, Once
  <1>4. QED
    BY <1>1, <1>2, <1>3, AccountsKept

(* Cancel spoils the stroke drawn.                                         *)
LEMMA CommandsAccounted ==
  ASSUME Inv, Accounted, Commands
  PROVE  Accounted'
  <1>1. /\ UNCHANGED <<queue, retry, batch, lost, latched, down, pen, accepted, begun, closed,
                       closing, saving, retiring>>
        /\ pc = "commands" /\ pc' = "picks"
    BY DEF Commands, gates, hand
  <1>2. Waiting' = Waiting /\ Pushed' = Pushed /\ Retiring'
    BY <1>1 DEF Waiting, Pushed, Accounted, Retiring
  <1>3. \/ UNCHANGED <<active, awaiting, spoiled>>
        \/ active' = 0 /\ spoiled' = spoiled \cup ({active} \ {0})
    BY DEF Commands, RequestEdit, CancelGesture
  <1>4. Turn(0) /\ (awaiting' => active' = 0)
    <2>1. awaiting' => active' = 0
      BY <1>3 DEF Accounted, Once
    <2>2. CASE active' = 0 /\ active = 0 /\ spoiled' = spoiled \cup ({active} \ {0})
      <3>1. spoiled' = spoiled
        BY <2>2
      <3>2. QED
        BY <1>1, <2>1, <2>2, <3>1 DEF Turn
    <2>3. CASE active' = 0 /\ active # 0 /\ spoiled' = spoiled \cup ({active} \ {0})
      <3>1. spoiled' = spoiled \cup {active}
        BY <2>3
      <3>2. QED
        BY <1>1, <2>1, <2>3, <3>1 DEF Turn
    <2>4. QED
      BY <1>1, <1>3, <2>1, <2>2, <2>3 DEF Turn
  <1>5. active' = active \/ active = 0 \/ active \in Finished'
    BY <1>3 DEF Finished
  <1>6. QED
    BY <1>1, <1>2, <1>4, <1>5, AccountsKept

(* Sealing closes the stroke drawn; there is nothing else on its way.      *)
LEMMA SealAccounted ==
  ASSUME Inv, Accounted, Seal
  PROVE  Accounted'
  <1>1. /\ UNCHANGED <<closing, down, pen, batch, lost, accepted, begun, spoiled>>
        /\ active' = 0 /\ pc = "seal" /\ SealStroke
        /\ awaiting' \in {awaiting, FALSE} /\ latched' \in {latched, FALSE}
    BY DEF Seal, Reset, Resumed, SealStroke, hand
  <1>2. queue = <<>> /\ retry = <<>> /\ batch = <<>> /\ retiring /\ (closing \/ saving)
    BY <1>1 DEF Inv, Position, Accounted, Retiring
  <1>3. queue' = <<>> /\ retry' = <<>>
    BY <1>2 DEF Seal, Reset, Resumed
  <1>4. Waiting' = Waiting /\ Pushed' = Pushed
    BY <1>1, <1>2, <1>3 DEF Waiting, Pushed
  <1>5. Retiring'
    <2>1. CASE closing
      <3>1. pc' = "closed" /\ retiring' = retiring
        BY <2>1 DEF Seal
      <3>2. QED
        BY <1>1, <1>2, <1>3, <2>1, <3>1 DEF Retiring
    <2>2. CASE ~closing
      <3>1. pc' = "poll" /\ retiring' = FALSE
        BY <2>2 DEF Seal
      <3>2. QED
        BY <3>1 DEF Retiring
    <2>3. QED
      BY <2>1, <2>2
  <1>6. awaiting => active = 0
    BY DEF Accounted, Once
  <1>7. IF active # 0 THEN closed' = Append(closed, [from |-> active, to |-> active])
                      ELSE closed' = closed
    BY <1>1, <1>6 DEF SealStroke, Closes
  <1>8. active \in Nat
    BY DEF Inv, Type
  <1>9. Turn(0)
    BY <1>1, <1>7, <1>8 DEF Turn
  <1>10. active = 0 \/ active \in Finished'
    BY <1>7, <1>8, OneMore DEF Finished
  <1>11. QED
    BY <1>1, <1>4, <1>5, <1>9, <1>10, AccountsKept

(* What was coming in the lane is coming to the owner.                     *)
LEMMA DrainAccounted ==
  ASSUME Inv, Accounted, Drain
  PROVE  Accounted'
  <1>1. /\ batch' = queue \o retry /\ queue' = <<>> /\ retry' = <<>> /\ lost' = latched
        /\ latched' = FALSE /\ pc = "drain" /\ pc' = "samples"
        /\ UNCHANGED <<closing, saving, down, pen, active, awaiting, closed, accepted, begun, spoiled,
                       retiring>>
    BY DEF Drain, Taken, gates, hand, record
  <1>2. /\ Waiting = {} /\ ~lost /\ Waiting' = Pushed /\ Pushed' = {}
    <2>1. queue \in Seq(Samples) /\ retry \in Seq(Samples)
      BY DEF Inv, Type
    <2>2. Of(batch') = Of(queue) \cup Of(retry)
      BY <1>1, <2>1, Joined
    <2>3. Of(queue') = {} /\ Of(retry') = {} /\ batch = <<>> /\ ~lost
      BY <1>1 DEF Inv, Position, Of
    <2>4. QED
      BY <2>2, <2>3 DEF Waiting, Pushed, Of
  <1>3. /\ Stream' = Stream /\ Ahead' = Ahead /\ Ahead = Pushed /\ Finished' = Finished
        /\ ~latched => Live' = Live /\ ~lost'
    BY <1>1, <1>2 DEF Stream, Ahead, Live, Finished, Done
  <1>4. Once'
    <2>1. /\ pen' \in Nat /\ pen <= pen' /\ accepted' \in Seq(Nat) /\ Turn(0)
          /\ awaiting' => active' = 0
      BY <1>1 DEF Inv, Type, Accounted, Once, Turn
    <2>2. \A b \in Begun(Stream') : b \in Begun(Stream)
      BY <1>3
    <2>3. QED
      BY <2>1, <2>2, TurnsOnce DEF Accounted
  <1>5. Owed'
    <2>1. ASSUME NEW g \in Of(accepted)
          PROVE  g # 0 /\ (g \in Finished' \/ Coming(Ahead', active', g))
      BY <1>1, <1>2, <1>3 DEF Accounted, Owed
    <2>2. QED
      BY <1>1, <2>1 DEF Owed, Coming, Draws, Lifts, Finished
  <1>6. InHand'
    <2>1. begun /\ down => \/ pen \in Finished'
                           \/ ~latched' /\ (pen \in Draws(Live') \/ (~lost' /\ pen = active'))
      BY <1>1, <1>2, <1>3 DEF Accounted, InHand
    <2>2. QED
      BY <1>1, <2>1 DEF InHand, Draws
  <1>7. Retiring'
    BY <1>1 DEF Accounted, Retiring
  <1>8. QED
    BY <1>4, <1>5, <1>6, <1>7 DEF Accounted

(* A loss gives up the stroke before it, whose End was lost with it: what  *)
(* is owed is on its way behind the loss.                                  *)
LEMMA AcknowledgeAccounted ==
  ASSUME Inv, Accounted, Acknowledge
  PROVE  Accounted'
  <1>1. /\ batch = <<>> /\ lost' = FALSE /\ pc = "samples"
        /\ pc' = IF retiring THEN "seal" ELSE "adopt"
        /\ UNCHANGED <<queue, retry, latched, closing, saving, down, pen, batch, closed, accepted,
                       begun, spoiled, retiring>>
        /\ IF lost THEN active' = 0 /\ awaiting' = TRUE ELSE UNCHANGED <<active, awaiting>>
    BY DEF Acknowledge, gates, hand, record
  <1>2. Waiting = {} /\ Waiting' = {} /\ Pushed' = Pushed
    BY <1>1 DEF Waiting, Pushed, Of
  <1>3. /\ Stream' = Stream /\ Live' = Live /\ Ahead' = Pushed /\ Finished' = Finished
        /\ Live = Pushed /\ (lost => Ahead = {}) /\ (~lost => Ahead = Pushed)
    BY <1>1, <1>2 DEF Stream, Live, Ahead, Finished, Done
  <1>4. Once'
    <2>1. /\ pen' \in Nat /\ pen <= pen' /\ accepted' \in Seq(Nat) /\ Turn(0)
          /\ awaiting' => active' = 0
      BY <1>1 DEF Inv, Type, Accounted, Once, Turn
    <2>2. \A b \in Begun(Stream') : b \in Begun(Stream)
      BY <1>3
    <2>3. QED
      BY <2>1, <2>2, TurnsOnce DEF Accounted
  <1>5. Owed'
    <2>1. ASSUME NEW g \in Of(accepted)
          PROVE  g # 0 /\ (g \in Finished' \/ Coming(Ahead', active', g))
      <3>1. /\ g # 0
            /\ g \in Finished \/ Coming(Ahead, active, g) \/ (lost /\ Coming(Pushed, 0, g))
        BY DEF Accounted, Owed
      <3>2. CASE lost
        BY <1>3, <3>1, <3>2 DEF Coming, Lifts
      <3>3. CASE ~lost
        BY <1>1, <1>3, <3>1, <3>3
      <3>4. QED
        BY <3>2, <3>3
    <2>2. QED
      BY <1>1, <2>1 DEF Owed, Coming, Draws, Lifts, Finished
  <1>6. InHand'
    <2>1. begun /\ down => \/ pen \in Finished'
                           \/ ~latched' /\ (pen \in Draws(Live') \/ (~lost' /\ pen = active'))
      BY <1>1, <1>3 DEF Accounted, InHand
    <2>2. QED
      BY <1>1, <2>1 DEF InHand, Draws
  <1>7. Retiring'
    BY <1>1 DEF Accounted, Retiring
  <1>8. QED
    BY <1>4, <1>5, <1>6, <1>7 DEF Accounted

(* At the start nothing is owed.                                           *)
LEMMA StartsAccounted ==
  ASSUME Init
  PROVE  Accounted
  <1>1. Stream = {} /\ Done = {} /\ spoiled = {} /\ accepted = <<>> /\ Of(accepted) = {}
    BY DEF Init, Stream, Waiting, Pushed, Of, Done
  <1>2. Once
    BY <1>1 DEF Init, Once, Finished
  <1>3. Owed /\ InHand /\ Retiring
    BY <1>1 DEF Init, Owed, InHand, Retiring
  <1>4. QED
    BY <1>2, <1>3 DEF Accounted

(* In every reachable state each gesture let in is accounted for.          *)
THEOREM Accounting == Spec => []Accounted
  <1>1. Init => Accounted
    BY StartsAccounted
  <1>2. Inv /\ Accounted /\ [Next]_vars => Accounted'
    <2> SUFFICES ASSUME Inv, Accounted, [Next]_vars
                 PROVE  Accounted'
      OBVIOUS
    <2>1. CASE Pen
      BY <2>1, PenAccounted
    <2>2. CASE Frame
      BY <2>2, OthersAccounted, DrainAccounted, TakeAccounted, AcknowledgeAccounted,
         CommandsAccounted, SealAccounted DEF Frame
    <2>3. CASE Interface \/ Answer \/ Settle \/ Closed \/ UNCHANGED vars
      BY <2>3, OthersAccounted DEF Closed
    <2>4. QED
      BY <2>1, <2>2, <2>3 DEF Next
  <1>3. QED
    BY <1>1, <1>2, Invariance, PTL DEF Spec

(* No drawing gesture whose Begin and End were let in is lost: once the    *)
(* owner has caught up, exactly those he did not cancel himself have       *)
(* closed, each once and in the order they were drawn, whatever the        *)
(* capacity of the lanes and however saturated they were.                  *)
THEOREM EveryGestureCloses == Spec => []AcceptedGesturesClose
  <1>1. ASSUME Inv, Accounted
        PROVE  AcceptedGesturesClose
    <2>1. ASSUME CaughtUp
          PROVE  Lifts(Ahead) = {} /\ ~lost
      <3>1. /\ queue = <<>> /\ retry = <<>> /\ batch = <<>> /\ ~lost
        BY <1>1, <2>1 DEF CaughtUp, Accounted, Retiring, Inv, Position
      <3>2. QED
        BY <3>1 DEF Lifts, Ahead, Stream, Waiting, Pushed, Of
    <2>2. ASSUME CaughtUp, NEW gesture \in ToSet(accepted)
          PROVE  Drew(gesture) <=> gesture \notin spoiled
      <3>1. gesture \in Of(accepted)
        BY <2>2 DEF ToSet, Of
      <3>2. gesture \in Done \/ gesture \in spoiled
        BY <1>1, <2>1, <2>2, <3>1 DEF Accounted, Owed, Coming, Finished
      <3>3. gesture \in Done => gesture \notin spoiled
        BY <1>1 DEF Accounted, Once
      <3>4. Drew(gesture) <=> gesture \in Done
        BY DEF Drew, Done
      <3>5. QED
        BY <3>2, <3>3, <3>4
    <2>3. QED
      BY <1>1, <2>2 DEF AcceptedGesturesClose, Accounted, Once
  <1>2. QED
    BY <1>1, Accounting, Invariance, PTL

=============================================================================
