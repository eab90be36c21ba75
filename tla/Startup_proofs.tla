----------------------------- MODULE Startup_proofs -----------------------------
(***************************************************************************)
(* Proofs about Startup, for every set of processes, every number of       *)
(* attempts, every size of the inbox and every bound.                      *)
(***************************************************************************)
EXTENDS Startup, TLAPS, FiniteSetTheorems

-----------------------------------------------------------------------------
(* Sequences without repetitions *)

(* What is in a sequence after something is appended to it.                *)
LEMMA ToSetAppend ==
  ASSUME NEW S, NEW s \in Seq(S), NEW x \in S
  PROVE  ToSet(Append(s, x)) = ToSet(s) \cup {x}
  <1>1. /\ DOMAIN Append(s, x) = DOMAIN s \cup {Len(s) + 1}
        /\ Append(s, x)[Len(s) + 1] = x
        /\ \A i \in DOMAIN s : Append(s, x)[i] = s[i]
    OBVIOUS
  <1>2. QED
    BY <1>1 DEF ToSet

(* What is in two sequences one after the other.                           *)
LEMMA ToSetConcat ==
  ASSUME NEW S, NEW s \in Seq(S), NEW t \in Seq(S)
  PROVE  ToSet(s \o t) = ToSet(s) \cup ToSet(t)
  <1>1. ToSet(s \o t) \subseteq ToSet(s) \cup ToSet(t)
    BY DEF ToSet
  <1>2. ToSet(s) \subseteq ToSet(s \o t)
    BY DEF ToSet
  <1>3. ASSUME NEW j \in DOMAIN t
        PROVE  t[j] \in ToSet(s \o t)
    <2>1. /\ Len(s) + j \in DOMAIN (s \o t)
          /\ (s \o t)[Len(s) + j] = t[j]
      OBVIOUS
    <2>2. QED
      BY <2>1 DEF ToSet
  <1>4. QED
    BY <1>1, <1>2, <1>3 DEF ToSet

(* A new element keeps a sequence free of repetitions.                     *)
LEMMA InjectiveAppend ==
  ASSUME NEW S, NEW s \in Seq(S), NEW x \in S, IsInjective(s), x \notin ToSet(s)
  PROVE  IsInjective(Append(s, x))
  BY DEF ToSet, IsInjective

(* So do two sequences with nothing in common.                             *)
LEMMA InjectiveConcat ==
  ASSUME NEW S, NEW s \in Seq(S), NEW t \in Seq(S), IsInjective(s), IsInjective(t),
         ToSet(s) \cap ToSet(t) = {}
  PROVE  IsInjective(s \o t)
  <1>1. SUFFICES ASSUME NEW a \in DOMAIN (s \o t), NEW b \in DOMAIN (s \o t),
                        (s \o t)[a] = (s \o t)[b]
                 PROVE  a = b
    BY DEF IsInjective
  <1>2. /\ a \in 1..(Len(s) + Len(t)) /\ b \in 1..(Len(s) + Len(t))
        /\ Len(s) \in Nat /\ Len(t) \in Nat
    OBVIOUS
  <1>3. \A i \in 1..(Len(s) + Len(t)) :
          \/ i \in DOMAIN s /\ i <= Len(s) /\ (s \o t)[i] = s[i]
          \/ i - Len(s) \in DOMAIN t /\ i > Len(s) /\ (s \o t)[i] = t[i - Len(s)]
    OBVIOUS
  <1>4. CASE a \in DOMAIN s /\ b \in DOMAIN s /\ s[a] = s[b]
    BY <1>4 DEF IsInjective
  <1>5. CASE /\ a - Len(s) \in DOMAIN t /\ b - Len(s) \in DOMAIN t
             /\ t[a - Len(s)] = t[b - Len(s)]
    <2>1. a - Len(s) = b - Len(s)
      BY <1>5 DEF IsInjective
    <2>2. QED
      BY <2>1, <1>2
  <1>6. ASSUME NEW i \in DOMAIN s, NEW j \in DOMAIN t
        PROVE  s[i] # t[j]
    BY DEF ToSet
  <1>7. QED
    BY <1>1, <1>2, <1>3, <1>4, <1>5, <1>6

-----------------------------------------------------------------------------
(* The single instance *)

Steps == {"new", "primary", "spawn failed", "secondary", "route", "connected", "sent",
          "routed", "failed", "leaving", "left", "dead", "alone"}
Ears == {"none", "idle", "connect", "waiting", "read", "close", "ended"}

InstanceType ==
  /\ step \in [Processes -> Steps]
  /\ tries \in [Processes -> Nat]
  /\ mutex \subseteq Processes
  /\ pipe \in [Processes -> Pipe \cup {None}]
  /\ ear \in [Processes -> Ears]
  /\ stop \in [Processes -> BOOLEAN]
  /\ inbox \in [Processes -> Seq(Processes)]
  /\ posted \in [Processes -> BOOLEAN]
  /\ attached \in [Processes -> BOOLEAN]
  /\ taken \in Seq(Processes)

(* Whoever got the mutex first keeps it open, and is alone.                *)
Holding(p) == step[p] \in {"primary", "leaving", "spawn failed"}
Holders ==
  /\ \A p \in Processes : Holding(p) => p \in mutex
  /\ \A p, q \in Processes : Holding(p) /\ Holding(q) => p = q

(* Only the primary serves a pipe, and its thread knows whether it has one. *)
Listening ==
  \A p \in Processes :
    /\ ear[p] \notin {"none", "ended"} => step[p] \in {"primary", "leaving"}
    /\ ear[p] \in {"connect", "waiting", "read", "close"} => pipe[p] \in Pipe
    /\ ear[p] \in {"none", "idle", "ended"} => pipe[p] = None
    /\ ear[p] = "read" => pipe[p].client # None
    /\ attached[p] => step[p] = "primary"

(* What the client of a pipe has done.                                     *)
Clients ==
  \A o \in Processes : pipe[o] # None =>
    /\ pipe[o].client = None => ~pipe[o].frame /\ ~pipe[o].closed
    /\ \A c \in Processes : pipe[o].client = c =>
         /\ step[c] \in {"connected", "sent", "routed", "dead"}
         /\ pipe[o].frame => step[c] \in {"sent", "routed", "dead"}
         /\ pipe[o].closed => step[c] \in {"routed", "dead"}

(* Every file is handed over once: no two of the inboxes and of what was   *)
(* taken have a client in common, and a client whose frame may still be    *)
(* read is in none of them.                                                *)
Handed == ToSet(taken) \cup UNION {ToSet(inbox[p]) : p \in Processes}
Deliveries ==
  /\ IsInjective(taken)
  /\ \A p \in Processes : IsInjective(inbox[p]) /\ ToSet(inbox[p]) \cap ToSet(taken) = {}
  /\ \A p, q \in Processes : p # q => ToSet(inbox[p]) \cap ToSet(inbox[q]) = {}
  /\ \A q \in Handed : step[q] \in {"sent", "routed", "dead"}
  /\ \A o \in Processes :
       ear[o] \in {"connect", "waiting", "read"} => pipe[o].client \notin Handed

InstanceInv == InstanceType /\ Holders /\ Listening /\ Clients /\ Deliveries

(* The invariant of the single instance holds when the system starts.      *)
LEMMA InstanceInitial == InstanceInit => InstanceInv
  BY SingleInstanceAssumption
  DEF InstanceInit, InstanceInv, InstanceType, Holders, Holding, Listening, Clients, Deliveries,
      Handed, ToSet, IsInjective, Steps, Ears

Delivered == {"sent", "routed", "dead"}

(* A step that neither fills nor empties an inbox keeps the deliveries     *)
(* apart, unless it lets a pipe be read again.                             *)
LEMMA DeliveriesKept ==
  ASSUME InstanceInv, UNCHANGED <<inbox, taken>>, InstanceType',
         \A q \in Processes : step[q] \in Delivered => step'[q] \in Delivered,
         \A o \in Processes : ear'[o] \in {"connect", "waiting", "read"} =>
           \/ ear[o] \in {"connect", "waiting", "read"} /\ pipe'[o].client = pipe[o].client
           \/ pipe'[o].client \in Processes /\ step[pipe'[o].client] \notin Delivered
           \/ pipe'[o].client = None
  PROVE  Deliveries'
  <1>1. Handed' = Handed
    BY DEF Handed
  <1>2. Handed \subseteq Processes
    BY DEF Handed, ToSet, InstanceInv, InstanceType
  <1>3. QED
    BY <1>1, <1>2, SingleInstanceAssumption DEF InstanceInv, Deliveries, Delivered

(* A step that only opens or closes pipes keeps what is known of their     *)
(* clients, when no client goes back.                                      *)
LEMMA ClientsKept ==
  ASSUME InstanceInv,
         \A o \in Processes : pipe'[o] # None =>
           \/ pipe'[o] = pipe[o]
           \/ pipe'[o].client = None /\ ~pipe'[o].frame /\ ~pipe'[o].closed,
         \A c \in Processes :
           /\ step[c] = "connected" => step'[c] \in {"connected", "sent", "dead"}
           /\ step[c] = "sent" => step'[c] \in {"sent", "routed", "dead"}
           /\ step[c] \in {"routed", "dead"} => step'[c] = step[c]
  PROVE  Clients'
  <1>1. ASSUME NEW o \in Processes, pipe'[o] # None,
               pipe'[o].client = None
        PROVE  ~pipe'[o].frame /\ ~pipe'[o].closed
    BY <1>1 DEF InstanceInv, Clients
  <1>2. ASSUME NEW o \in Processes, pipe'[o] # None, NEW c \in Processes, pipe'[o].client = c
        PROVE  /\ step'[c] \in {"connected", "sent", "routed", "dead"}
               /\ pipe'[o].frame => step'[c] \in {"sent", "routed", "dead"}
               /\ pipe'[o].closed => step'[c] \in {"routed", "dead"}
    <2>1. pipe'[o] = pipe[o]
      BY <1>2, SingleInstanceAssumption
    <2>2. /\ step[c] \in {"connected", "sent", "routed", "dead"}
          /\ pipe[o].frame => step[c] \in {"sent", "routed", "dead"}
          /\ pipe[o].closed => step[c] \in {"routed", "dead"}
      BY <1>2, <2>1 DEF InstanceInv, Clients
    <2>3. QED
      BY <2>1, <2>2
  <1>3. QED
    BY <1>1, <1>2 DEF Clients

(* Whoever creates the mutex becomes the only holder: nobody held it.      *)
LEMMA CreateMutexKeeps == ASSUME InstanceInv, NEW p \in Processes, CreateMutex(p) PROVE InstanceInv'
  <1>1. InstanceType'
    BY SingleInstanceAssumption DEF InstanceInv, InstanceType, Steps, Ears, Pipe, CreateMutex, Starts, Goes, thread, window
  <1>2. /\ step[p] = "new" /\ mutex' = mutex \cup {p}
        /\ \A q \in Processes \ {p} : step'[q] = step[q] /\ ear'[q] = ear[q]
        /\ UNCHANGED <<pipe, inbox, taken, attached>>
        /\ \/ mutex = {} /\ step'[p] = "primary" /\ ear'[p] = "idle"
           \/ mutex = {} /\ step'[p] = "spawn failed" /\ ear'[p] = ear[p]
           \/ step'[p] = "secondary" /\ ear'[p] = ear[p]
    BY SingleInstanceAssumption DEF InstanceInv, InstanceType, CreateMutex, Starts, Goes, thread, window
  <1>3. Holders'
    <2>1. CASE mutex = {}
      <3>1. \A q \in Processes : ~Holding(q)
        BY <2>1 DEF InstanceInv, Holders
      <3>2. \A q \in Processes : Holding(q)' => q = p
        BY <1>2, <3>1 DEF Holding
      <3>3. QED
        BY <1>2, <3>2 DEF Holders
    <2>2. CASE step'[p] = "secondary"
      <3>1. \A q \in Processes : Holding(q)' => Holding(q)
        BY <1>2, <2>2 DEF Holding
      <3>2. QED
        BY <1>2, <3>1 DEF InstanceInv, Holders
    <2>3. QED
      BY <1>2, <2>1, <2>2
  <1>4. Listening'
    BY ZenonT(60), <1>1, <1>2, SingleInstanceAssumption DEF InstanceInv, InstanceType, Holders, Holding, Listening, Clients, Ears
  <1>5. Clients'
    BY <1>1, <1>2, ClientsKept, SingleInstanceAssumption DEF InstanceInv, InstanceType, Listening
  <1>6. Deliveries'
    BY <1>1, <1>2, DeliveriesKept DEF Delivered, InstanceInv, InstanceType, Holders, Holding, Listening, Clients, Pipe
  <1>7. QED
    BY <1>1, <1>3, <1>4, <1>5, <1>6 DEF InstanceInv

(* Letting a temporary handle go makes nobody else a holder.               *)
LEMMA ReleaseMutexKeeps == ASSUME InstanceInv, NEW p \in Processes, ReleaseMutex(p) PROVE InstanceInv'
  <1>1. InstanceType'
    BY SingleInstanceAssumption DEF InstanceInv, InstanceType, Steps, Ears, Pipe, ReleaseMutex, Goes, thread, window
  <1>2. /\ step[p] \in {"secondary", "spawn failed"} /\ step'[p] \in {"route", "failed"}
        /\ \A q \in Processes \ {p} : step'[q] = step[q] /\ (q \in mutex => q \in mutex')
        /\ UNCHANGED <<ear, pipe, inbox, taken, attached>>
    BY SingleInstanceAssumption DEF InstanceInv, InstanceType, ReleaseMutex, Goes, thread, window
  <1>3. Holders'
    BY <1>2 DEF InstanceInv, Holders, Holding, Listening
  <1>4. Listening'
    BY <1>1, <1>2, SingleInstanceAssumption DEF InstanceInv, InstanceType, Holders, Holding, Listening, Clients, Ears
  <1>5. Clients'
    BY <1>1, <1>2, ClientsKept, SingleInstanceAssumption DEF InstanceInv, InstanceType, Listening
  <1>6. Deliveries'
    BY <1>1, <1>2, DeliveriesKept DEF Delivered, InstanceInv, InstanceType, Holders, Holding, Listening, Clients, Pipe
  <1>7. QED
    BY <1>1, <1>3, <1>4, <1>5, <1>6 DEF InstanceInv

(* A pipe after one of its fields is set.                                  *)
LEMMA PipeSet ==
  ASSUME NEW r \in Pipe, NEW c \in Processes
  PROVE  /\ [r EXCEPT !.client = c] \in Pipe
         /\ [r EXCEPT !.client = c].client = c
         /\ [r EXCEPT !.client = c].frame = r.frame
         /\ [r EXCEPT !.client = c].closed = r.closed
         /\ [r EXCEPT !.frame = TRUE] \in Pipe
         /\ [r EXCEPT !.frame = TRUE].client = r.client
         /\ [r EXCEPT !.frame = TRUE].closed = r.closed
         /\ [r EXCEPT !.closed = TRUE] \in Pipe
         /\ [r EXCEPT !.closed = TRUE].client = r.client
         /\ [r EXCEPT !.closed = TRUE].frame = r.frame
  BY DEF Pipe

(* Nothing but step and one pipe changes.                                  *)
LEMMA PipeChanges ==
  ASSUME InstanceInv, InstanceType', NEW o \in Processes, pipe[o] \in Pipe, pipe'[o] \in Pipe,
         \A q \in Processes \ {o} : pipe'[q] = pipe[q],
         UNCHANGED <<ear, attached>>,
         \A q \in Processes : Holding(q) => step'[q] = step[q],
         pipe[o].client # None => pipe'[o].client = pipe[o].client,
         pipe[o] # None
  PROVE  Listening'
  BY SingleInstanceAssumption DEF InstanceInv, InstanceType, Listening, Holding, Ears

(* A process connects before anything of it was handed over.               *)
LEMMA ConnectKeeps == ASSUME InstanceInv, NEW p \in Processes, Connect(p) PROVE InstanceInv'
  <1>1. /\ step[p] = "route" /\ step'[p] \in {"connected", "route", "failed"}
        /\ \A q \in Processes \ {p} : step'[q] = step[q]
        /\ step' \in [Processes -> Steps] /\ tries' \in [Processes -> Nat]
        /\ UNCHANGED <<mutex, ear, stop, inbox, posted, taken, attached>>
    <2>1. (Goes(p, "connected") /\ tries' = tries) \/ Retry(p)
      BY DEF Connect
    <2>2. \E there \in {"connected", "route", "failed"} : Goes(p, there)
      BY <2>1 DEF Retry
    <2>3. tries' = tries \/ tries' = [tries EXCEPT ![p] = tries[p] + 1]
      BY <2>1 DEF Retry
    <2>4. tries' \in [Processes -> Nat]
      <3>1. tries \in [Processes -> Nat]
        BY DEF InstanceInv, InstanceType
      <3>2. tries[p] + 1 \in Nat
        BY <3>1
      <3>3. QED
        BY <2>3, <3>1, <3>2
    <2>5. QED
      BY <2>2, <2>4 DEF Connect, Goes, window, Steps, InstanceInv, InstanceType
  <1>2. Holders'
    BY <1>1 DEF InstanceInv, Holders, Holding
  <1>3. CASE UNCHANGED pipe
    <2>1. InstanceType'
      BY <1>1, <1>3 DEF InstanceInv, InstanceType
    <2>2. Listening'
      BY <1>1, <1>3 DEF InstanceInv, Listening
    <2>3. Clients'
      BY <1>1, <1>3, ClientsKept
    <2>4. Deliveries'
      BY <1>1, <1>3, <2>1, DeliveriesKept DEF Delivered
    <2>5. QED
      BY <1>2, <2>1, <2>2, <2>3, <2>4 DEF InstanceInv
  <1>4. CASE \E o \in Connectable : /\ pipe' = [pipe EXCEPT ![o].client = p]
                                   /\ Goes(p, "connected")
    <2>1. PICK o \in Processes : /\ pipe[o] # None /\ pipe[o].client = None
                                /\ pipe' = [pipe EXCEPT ![o].client = p]
      BY <1>4 DEF Connectable
    <2>2. step'[p] = "connected"
      BY <1>4 DEF Goes, InstanceInv, InstanceType
    <2>3. /\ pipe[o] \in Pipe /\ pipe'[o] = [pipe[o] EXCEPT !.client = p]
          /\ \A q \in Processes \ {o} : pipe'[q] = pipe[q]
          /\ pipe' = [pipe EXCEPT ![o] = pipe'[o]]
      BY <2>1 DEF InstanceInv, InstanceType
    <2>4. /\ pipe'[o] \in Pipe /\ pipe'[o].client = p
          /\ pipe'[o].frame = pipe[o].frame /\ pipe'[o].closed = pipe[o].closed
      BY <2>3 DEF Pipe
    <2>5. InstanceType'
      BY <1>1, <2>3, <2>4 DEF InstanceInv, InstanceType
    <2>6. Listening'
      BY <1>1, <2>1, <2>3, <2>4, <2>5, PipeChanges DEF Holding
    <2>7. Clients'
      BY <1>1, <2>1, <2>2, <2>3, <2>4, SingleInstanceAssumption DEF InstanceInv, Clients
    <2>8. Deliveries'
      BY <1>1, <2>3, <2>4, <2>5, DeliveriesKept DEF Delivered
    <2>9. QED
      BY <1>2, <2>5, <2>6, <2>7, <2>8 DEF InstanceInv
  <1>5. QED
    BY <1>3, <1>4 DEF Connect

(* A client that finds its pipe disconnected is in no pipe any more and    *)
(* may try again.                                                          *)
LEMMA SendKeeps == ASSUME InstanceInv, NEW p \in Processes, Send(p) PROVE InstanceInv'
  <1>1. /\ step[p] = "connected" /\ step'[p] \in {"sent", "route", "failed"}
        /\ \A q \in Processes \ {p} : step'[q] = step[q]
        /\ step' \in [Processes -> Steps] /\ tries' \in [Processes -> Nat]
        /\ UNCHANGED <<mutex, ear, stop, inbox, posted, taken, attached>>
    <2>1. (Goes(p, "sent") /\ tries' = tries) \/ Retry(p)
      BY DEF Send
    <2>2. \E there \in {"sent", "route", "failed"} : Goes(p, there)
      BY <2>1 DEF Retry
    <2>3. tries' = tries \/ tries' = [tries EXCEPT ![p] = tries[p] + 1]
      BY <2>1 DEF Retry
    <2>4. tries' \in [Processes -> Nat]
      <3>1. tries \in [Processes -> Nat]
        BY DEF InstanceInv, InstanceType
      <3>2. tries[p] + 1 \in Nat
        BY <3>1
      <3>3. QED
        BY <2>3, <3>1, <3>2
    <2>5. QED
      BY <2>2, <2>4 DEF Send, Goes, window, Steps, InstanceInv, InstanceType
  <1>2. Holders'
    BY <1>1 DEF InstanceInv, Holders, Holding
  <1>3. CASE UNCHANGED pipe /\ ServerOf(p) = {}
    <2>1. InstanceType'
      BY <1>1, <1>3 DEF InstanceInv, InstanceType
    <2>2. Listening'
      BY <1>1, <1>3 DEF InstanceInv, Listening
    <2>3. \A o \in Processes : pipe[o] # None => pipe[o].client # p
      BY <1>1, <1>3 DEF ServerOf, InstanceInv, Clients
    <2>4. Clients'
      BY <1>1, <1>3, <2>3 DEF InstanceInv, Clients
    <2>5. Deliveries'
      BY <1>1, <1>3, <2>1, DeliveriesKept DEF Delivered
    <2>6. QED
      BY <1>2, <2>1, <2>2, <2>4, <2>5 DEF InstanceInv
  <1>4. CASE \E o \in ServerOf(p) : /\ pipe' = [pipe EXCEPT ![o].frame = TRUE]
                                   /\ Goes(p, "sent")
    <2>1. PICK o \in Processes : /\ pipe[o] # None /\ pipe[o].client = p
                                /\ pipe' = [pipe EXCEPT ![o].frame = TRUE]
      BY <1>4 DEF ServerOf
    <2>2. step'[p] = "sent"
      BY <1>4 DEF Goes, InstanceInv, InstanceType
    <2>3. /\ pipe[o] \in Pipe /\ pipe'[o] = [pipe[o] EXCEPT !.frame = TRUE]
          /\ \A q \in Processes \ {o} : pipe'[q] = pipe[q]
          /\ pipe' = [pipe EXCEPT ![o] = pipe'[o]]
      BY <2>1 DEF InstanceInv, InstanceType
    <2>4. /\ pipe'[o] \in Pipe /\ pipe'[o].client = p /\ pipe'[o].closed = pipe[o].closed
      BY ZenonT(60), <2>1, <2>3, PipeSet
    <2>5. InstanceType'
      BY <1>1, <2>3, <2>4 DEF InstanceInv, InstanceType
    <2>6. Listening'
      BY <1>1, <2>1, <2>3, <2>4, <2>5, PipeChanges DEF Holding
    <2>7. Clients'
      BY <1>1, <2>1, <2>2, <2>3, <2>4, SingleInstanceAssumption DEF InstanceInv, Clients
    <2>8. Deliveries'
      BY <1>1, <2>1, <2>2, <2>3, <2>4, <2>5, DeliveriesKept DEF Delivered
    <2>9. QED
      BY <1>2, <2>5, <2>6, <2>7, <2>8 DEF InstanceInv
  <1>5. QED
    BY <1>3, <1>4 DEF Send

(* What a client that hangs up does to a pipe.                             *)
LEMMA HungPipe ==
  ASSUME InstanceInv, NEW p \in Processes, NEW o \in Processes
  PROVE  \/ Hung(p)[o] = pipe[o] /\ (pipe[o] # None => pipe[o].client # p \/ pipe[o].closed)
         \/ /\ pipe[o] \in Pipe /\ pipe[o] # None /\ Hung(p)[o] \in Pipe
            /\ pipe[o].client = p /\ Hung(p)[o].client = p
            /\ Hung(p)[o].frame = pipe[o].frame
  <1>1. CASE o \in ServerOf(p)
    <2>1. pipe[o] \in Pipe /\ pipe[o] # None /\ pipe[o].client = p
      BY <1>1 DEF ServerOf, InstanceInv, InstanceType
    <2>2. Hung(p)[o] = [pipe[o] EXCEPT !.closed = TRUE]
      BY <1>1 DEF Hung
    <2>3. QED
      BY <2>1, <2>2, PipeSet
  <1>2. CASE o \notin ServerOf(p)
    BY <1>2 DEF Hung, ServerOf
  <1>3. QED
    BY <1>1, <1>2

(* A client closes its end only after its frame is written.                *)
LEMMA RoutedKeeps == ASSUME InstanceInv, NEW p \in Processes, Routed(p) PROVE InstanceInv'
  <1>1. /\ step[p] = "sent" /\ step'[p] = "routed"
        /\ \A q \in Processes \ {p} : step'[q] = step[q]
        /\ step' \in [Processes -> Steps]
        /\ UNCHANGED <<tries, mutex, ear, stop, inbox, posted, taken, attached>>
    BY DEF InstanceInv, InstanceType, Steps, Routed, Goes, window
  <1>2. \A o \in Processes :
          \/ pipe'[o] = pipe[o] /\ (pipe[o] # None => pipe[o].client # p \/ pipe[o].closed)
          \/ /\ pipe[o] \in Pipe /\ pipe[o] # None /\ pipe'[o] \in Pipe
             /\ pipe[o].client = p /\ pipe'[o].client = p
    BY HungPipe DEF Routed
  <1>3. InstanceType'
    <2>1. pipe' \in [Processes -> Pipe \cup {None}]
      <3>1. pipe' = [o \in Processes |-> pipe'[o]]
        BY DEF Routed, Hung
      <3>2. QED
        BY <3>1, <1>2 DEF InstanceInv, InstanceType
    <2>2. QED
      BY <1>1, <2>1 DEF InstanceInv, InstanceType
  <1>4. Holders'
    BY <1>1 DEF InstanceInv, Holders, Holding
  <1>5. Listening'
    BY <1>1, <1>2, SingleInstanceAssumption DEF InstanceInv, Listening
  <1>6. Clients'
    BY <1>1, <1>2, SingleInstanceAssumption DEF InstanceInv, Clients
  <1>7. Deliveries'
    BY <1>1, <1>2, <1>3, DeliveriesKept DEF Delivered
  <1>8. QED
    BY <1>3, <1>4, <1>5, <1>6, <1>7 DEF InstanceInv

(* A new pipe has no client yet.                                           *)
LEMMA CreatePipeKeeps == ASSUME InstanceInv, NEW p \in Processes, CreatePipe(p) PROVE InstanceInv'
  <1>1. Fresh \in Pipe /\ Fresh.client = None /\ ~Fresh.frame /\ ~Fresh.closed
    BY DEF Fresh, Pipe
  <1>2. /\ ear[p] = "idle"
        /\ ear' \in [Processes -> Ears] /\ pipe' \in [Processes -> Pipe \cup {None}]
        /\ \A q \in Processes \ {p} : ear'[q] = ear[q] /\ pipe'[q] = pipe[q]
        /\ \/ ear'[p] = "connect" /\ pipe'[p] = Fresh
           \/ ear'[p] = "ended" /\ pipe'[p] = pipe[p]
        /\ UNCHANGED <<step, tries, mutex, stop, inbox, posted, attached, taken>>
    <2> HIDE DEF Fresh
    <2>1. CASE Hears(p, "connect") /\ pipe' = [pipe EXCEPT ![p] = Fresh]
      BY <1>1, <2>1 DEF CreatePipe, Hears, window, InstanceInv, InstanceType, Ears
    <2>2. CASE Hears(p, "ended") /\ pipe' = pipe
      BY <2>2 DEF CreatePipe, Hears, window, InstanceInv, InstanceType, Ears
    <2>3. QED
      BY <2>1, <2>2 DEF CreatePipe
  <1> HIDE DEF Fresh
  <1>3. InstanceType'
    BY <1>2 DEF InstanceInv, InstanceType
  <1>4. Holders'
    BY <1>2 DEF InstanceInv, Holders, Holding
  <1>5. Listening'
    BY <1>1, <1>2 DEF InstanceInv, Listening
  <1>6. Clients'
    <2>1. \A o \in Processes :
            \/ pipe'[o] = pipe[o]
            \/ pipe'[o].client = None /\ ~pipe'[o].frame /\ ~pipe'[o].closed
      BY <1>1, <1>2
    <2>2. QED
      BY <1>2, <2>1, ClientsKept
  <1>7. Deliveries'
    BY <1>1, <1>2, <1>3, DeliveriesKept DEF Delivered
  <1>8. QED
    BY <1>3, <1>4, <1>5, <1>6, <1>7 DEF InstanceInv

(* The listener reads only from a pipe that has a client.                  *)
LEMMA ConnectPipeKeeps == ASSUME InstanceInv, NEW p \in Processes, ConnectPipe(p) PROVE InstanceInv'
  <1>1. InstanceType'
    BY SingleInstanceAssumption DEF InstanceInv, InstanceType, Steps, Ears, Pipe, ConnectPipe, Hears, Goes, thread, window
  <1>2. /\ ear[p] = "connect" /\ ear'[p] \in {"close", "waiting", "read"}
        /\ ear'[p] = "read" => pipe[p].client # None
        /\ \A q \in Processes \ {p} : ear'[q] = ear[q]
        /\ UNCHANGED <<step, mutex, pipe, inbox, taken, attached>>
    BY SingleInstanceAssumption DEF InstanceInv, InstanceType, ConnectPipe, Hears, Goes, thread, window
  <1>3. Holders'
    BY <1>2 DEF InstanceInv, Holders, Holding, Listening
  <1>4. Listening'
    BY <1>1, <1>2, SingleInstanceAssumption DEF InstanceInv, InstanceType, Holders, Holding, Listening, Clients, Ears
  <1>5. Clients'
    BY <1>1, <1>2, ClientsKept, SingleInstanceAssumption DEF InstanceInv, InstanceType, Listening
  <1>6. Deliveries'
    BY <1>1, <1>2, DeliveriesKept DEF Delivered, InstanceInv, InstanceType, Holders, Holding, Listening, Clients, Pipe
  <1>7. QED
    BY <1>1, <1>3, <1>4, <1>5, <1>6 DEF InstanceInv

(* So it does after waiting for one.                                       *)
LEMMA ConnectedKeeps == ASSUME InstanceInv, NEW p \in Processes, Connected(p) PROVE InstanceInv'
  <1>1. InstanceType'
    BY SingleInstanceAssumption DEF InstanceInv, InstanceType, Steps, Ears, Pipe, Connected, Hears, Goes, thread, window
  <1>2. /\ ear[p] = "waiting" /\ ear'[p] \in {"close", "read"}
        /\ ear'[p] = "read" => pipe[p].client # None
        /\ \A q \in Processes \ {p} : ear'[q] = ear[q]
        /\ UNCHANGED <<step, mutex, pipe, inbox, taken, attached>>
    BY SingleInstanceAssumption DEF InstanceInv, InstanceType, Connected, Hears, Goes, thread, window
  <1>3. Holders'
    BY <1>2 DEF InstanceInv, Holders, Holding, Listening
  <1>4. Listening'
    BY <1>1, <1>2, SingleInstanceAssumption DEF InstanceInv, InstanceType, Holders, Holding, Listening, Clients, Ears
  <1>5. Clients'
    BY <1>1, <1>2, ClientsKept, SingleInstanceAssumption DEF InstanceInv, InstanceType, Listening
  <1>6. Deliveries'
    BY <1>1, <1>2, DeliveriesKept DEF Delivered, InstanceInv, InstanceType, Holders, Holding, Listening, Clients, Pipe
  <1>7. QED
    BY <1>1, <1>3, <1>4, <1>5, <1>6 DEF InstanceInv

(* The frame that is read is of a client that was never handed over, and   *)
(* is not read again.                                                      *)
LEMMA ReadFrameKeeps == ASSUME InstanceInv, NEW p \in Processes, ReadFrame(p) PROVE InstanceInv'
  <1> DEFINE c == pipe[p].client
  <1>1. /\ ear[p] = "read" /\ ear'[p] = "close"
        /\ \A q \in Processes \ {p} : ear'[q] = ear[q]
        /\ ear' \in [Processes -> Ears] /\ posted' \in [Processes -> BOOLEAN]
        /\ UNCHANGED <<step, tries, mutex, pipe, stop, attached, taken>>
    BY DEF ReadFrame, Accept, Hears, InstanceInv, InstanceType, Ears
  <1>2. pipe[p] \in Pipe /\ pipe[p] # None
    BY <1>1, SingleInstanceAssumption DEF InstanceInv, Listening
  <1>3. c \in Processes
    BY <1>1, <1>2 DEF InstanceInv, Listening, Pipe
  <1>4. \/ UNCHANGED inbox
        \/ /\ pipe[p].frame
           /\ inbox' = [inbox EXCEPT ![p] = Append(inbox[p], c)]
    BY DEF ReadFrame, Accept, InstanceInv, InstanceType
  <1>5. InstanceType'
    <2>1. Append(inbox[p], c) \in Seq(Processes)
      BY <1>3 DEF InstanceInv, InstanceType
    <2>2. inbox' \in [Processes -> Seq(Processes)]
      BY <1>4, <2>1 DEF InstanceInv, InstanceType
    <2>3. QED
      BY <1>1, <2>2 DEF InstanceInv, InstanceType
  <1>6. Holders'
    BY <1>1 DEF InstanceInv, Holders, Holding
  <1>7. Listening'
    BY <1>1 DEF InstanceInv, Listening
  <1>8. Clients'
    BY <1>1, ClientsKept
  <1>9. Deliveries'
    <2>1. CASE UNCHANGED inbox
      BY <1>1, <1>5, <2>1, DeliveriesKept DEF Delivered
    <2>2. CASE pipe[p].frame /\ inbox' = [inbox EXCEPT ![p] = Append(inbox[p], c)]
      <3>1. c \notin Handed /\ step[c] \in {"sent", "routed", "dead"}
        BY <1>1, <1>2, <1>3, <2>2 DEF InstanceInv, Deliveries, Clients
      <3>2. /\ ToSet(inbox'[p]) = ToSet(inbox[p]) \cup {c}
            /\ \A q \in Processes \ {p} : inbox'[q] = inbox[q]
        BY <2>2, <1>3, ToSetAppend DEF InstanceInv, InstanceType
      <3>3. \A q \in Processes : c \notin ToSet(inbox[q])
        BY <3>1 DEF Handed
      <3>4. IsInjective(inbox'[p])
        BY <2>2, <1>3, <3>3, InjectiveAppend DEF InstanceInv, InstanceType, Deliveries
      <3>5. c \notin ToSet(taken)
        BY <3>1 DEF Handed
      <3>6. Handed' = Handed \cup {c}
        BY <1>1, <3>2 DEF Handed
      <3>7. \A o \in Processes :
              ear'[o] \in {"connect", "waiting", "read"} => pipe'[o].client \notin Handed'
        <4>1. SUFFICES ASSUME NEW o \in Processes, ear'[o] \in {"connect", "waiting", "read"}
                       PROVE  FALSE
          BY DEF Handed
        <4>2. ear[o] \notin {"none", "ended"} /\ ear[p] \notin {"none", "ended"} /\ o # p
          BY <1>1, <4>1
        <4>3. QED
          BY <4>2 DEF InstanceInv, Listening, Holders, Holding
      <3>8. QED
        BY <1>1, <3>1, <3>2, <3>3, <3>4, <3>5, <3>6, <3>7 DEF InstanceInv, Deliveries
    <2>3. QED
      BY <1>4, <2>1, <2>2
  <1>10. QED
    BY <1>5, <1>6, <1>7, <1>8, <1>9 DEF InstanceInv

(* What is left of a client goes with the pipe.                            *)
LEMMA ClosePipeKeeps == ASSUME InstanceInv, NEW p \in Processes, ClosePipe(p) PROVE InstanceInv'
  <1>1. InstanceType'
    BY SingleInstanceAssumption DEF InstanceInv, InstanceType, Steps, Ears, Pipe, ClosePipe, Hears, Goes, thread, window
  <1>2. /\ ear[p] = "close" /\ ear'[p] = "idle" /\ pipe'[p] = None
        /\ \A q \in Processes \ {p} : ear'[q] = ear[q] /\ pipe'[q] = pipe[q]
        /\ UNCHANGED <<step, mutex, inbox, taken, attached>>
    BY SingleInstanceAssumption DEF InstanceInv, InstanceType, ClosePipe, Hears, Goes, thread, window
  <1>3. Holders'
    BY <1>2 DEF InstanceInv, Holders, Holding, Listening
  <1>4. Listening'
    BY ZenonT(60), <1>1, <1>2, SingleInstanceAssumption DEF InstanceInv, InstanceType, Holders, Holding, Listening, Clients, Ears
  <1>5. Clients'
    BY <1>1, <1>2, ClientsKept, SingleInstanceAssumption DEF InstanceInv, InstanceType, Listening
  <1>6. Deliveries'
    BY <1>1, <1>2, DeliveriesKept DEF Delivered, InstanceInv, InstanceType, Holders, Holding, Listening, Clients, Pipe
  <1>7. QED
    BY <1>1, <1>3, <1>4, <1>5, <1>6 DEF InstanceInv

(* Only a primary has a window.                                            *)
LEMMA AttachWindowsKeeps == ASSUME InstanceInv, NEW p \in Processes, AttachWindows(p) PROVE InstanceInv'
  <1>1. InstanceType'
    BY SingleInstanceAssumption DEF InstanceInv, InstanceType, Steps, Ears, Pipe, AttachWindows, Goes, thread, window
  <1>2. /\ step[p] = "primary"
        /\ \A q \in Processes \ {p} : attached'[q] = attached[q]
        /\ UNCHANGED <<step, mutex, ear, pipe, inbox, taken>>
    BY SingleInstanceAssumption DEF InstanceInv, InstanceType, AttachWindows, Goes, thread, window
  <1>3. Holders'
    BY <1>2 DEF InstanceInv, Holders, Holding, Listening
  <1>4. Listening'
    BY <1>1, <1>2, SingleInstanceAssumption DEF InstanceInv, InstanceType, Holders, Holding, Listening, Clients, Ears
  <1>5. Clients'
    BY <1>1, <1>2, ClientsKept, SingleInstanceAssumption DEF InstanceInv, InstanceType, Listening
  <1>6. Deliveries'
    BY <1>1, <1>2, DeliveriesKept DEF Delivered, InstanceInv, InstanceType, Holders, Holding, Listening, Clients, Pipe
  <1>7. QED
    BY <1>1, <1>3, <1>4, <1>5, <1>6 DEF InstanceInv

(* What the window takes leaves the inbox.                                 *)
LEMMA TakeActivationsKeeps ==
  ASSUME InstanceInv, NEW p \in Processes, TakeActivations(p) PROVE InstanceInv'
  <1>1. /\ inbox' = [inbox EXCEPT ![p] = <<>>] /\ taken' = taken \o inbox[p]
        /\ posted' \in [Processes -> BOOLEAN]
        /\ UNCHANGED <<step, tries, mutex, ear, pipe, stop, attached>>
    BY DEF TakeActivations, thread, InstanceInv, InstanceType
  <1>2. InstanceType'
    BY <1>1 DEF InstanceInv, InstanceType
  <1>3. Holders'
    BY <1>1 DEF InstanceInv, Holders, Holding
  <1>4. Listening'
    BY <1>1 DEF InstanceInv, Listening
  <1>5. Clients'
    BY <1>1, ClientsKept
  <1>6. Deliveries'
    <2>1. /\ ToSet(taken') = ToSet(taken) \cup ToSet(inbox[p])
          /\ IsInjective(taken')
      BY <1>1, ToSetConcat, InjectiveConcat DEF InstanceInv, InstanceType, Deliveries
    <2>2. /\ inbox'[p] = <<>> /\ \A q \in Processes \ {p} : inbox'[q] = inbox[q]
      BY <1>1 DEF InstanceInv, InstanceType
    <2>3. ToSet(inbox'[p]) = {} /\ IsInjective(inbox'[p])
      BY <2>2 DEF ToSet, IsInjective
    <2>4. Handed' = Handed
      BY <2>1, <2>2, <2>3 DEF Handed
    <2>5. QED
      BY <1>1, <2>1, <2>2, <2>3, <2>4 DEF InstanceInv, Deliveries
  <1>7. QED
    BY <1>2, <1>3, <1>4, <1>5, <1>6 DEF InstanceInv

(* A primary that leaves keeps the mutex.                                  *)
LEMMA ShutdownKeeps == ASSUME InstanceInv, NEW p \in Processes, Shutdown(p) PROVE InstanceInv'
  <1>1. InstanceType'
    BY SingleInstanceAssumption DEF InstanceInv, InstanceType, Steps, Ears, Pipe, Shutdown, Goes, thread, window
  <1>2. /\ step[p] = "primary" /\ step'[p] = "leaving" /\ ~attached'[p]
        /\ \A q \in Processes \ {p} : step'[q] = step[q] /\ attached'[q] = attached[q]
        /\ UNCHANGED <<mutex, ear, pipe, inbox, taken>>
    BY SingleInstanceAssumption DEF InstanceInv, InstanceType, Shutdown, Goes, thread, window
  <1>3. Holders'
    BY <1>2 DEF InstanceInv, Holders, Holding, Listening
  <1>4. Listening'
    BY ZenonT(60), <1>1, <1>2, SingleInstanceAssumption DEF InstanceInv, InstanceType, Holders, Holding, Listening, Clients, Ears
  <1>5. Clients'
    BY <1>1, <1>2, ClientsKept, SingleInstanceAssumption DEF InstanceInv, InstanceType, Listening
  <1>6. Deliveries'
    BY <1>1, <1>2, DeliveriesKept DEF Delivered, InstanceInv, InstanceType, Holders, Holding, Listening, Clients, Pipe
  <1>7. QED
    BY <1>1, <1>3, <1>4, <1>5, <1>6 DEF InstanceInv

(* It lets it go only after its thread has ended, and the pipe with it.    *)
LEMMA JoinListenerKeeps == ASSUME InstanceInv, NEW p \in Processes, JoinListener(p) PROVE InstanceInv'
  <1>1. InstanceType'
    BY SingleInstanceAssumption DEF InstanceInv, InstanceType, Steps, Ears, Pipe, JoinListener, Goes, thread, window
  <1>2. /\ step[p] = "leaving" /\ step'[p] = "left" /\ ear[p] = "ended"
        /\ \A q \in Processes \ {p} : step'[q] = step[q] /\ (q \in mutex => q \in mutex')
        /\ UNCHANGED <<ear, pipe, inbox, taken, attached>>
    BY SingleInstanceAssumption DEF InstanceInv, InstanceType, JoinListener, Goes, thread, window
  <1>3. Holders'
    BY <1>2 DEF InstanceInv, Holders, Holding, Listening
  <1>4. Listening'
    BY <1>1, <1>2, SingleInstanceAssumption DEF InstanceInv, InstanceType, Holders, Holding, Listening, Clients, Ears
  <1>5. Clients'
    BY <1>1, <1>2, ClientsKept, SingleInstanceAssumption DEF InstanceInv, InstanceType, Listening
  <1>6. Deliveries'
    BY <1>1, <1>2, DeliveriesKept DEF Delivered, InstanceInv, InstanceType, Holders, Holding, Listening, Clients, Pipe
  <1>7. QED
    BY <1>1, <1>3, <1>4, <1>5, <1>6 DEF InstanceInv

(* The handles of a process that dies are closed together.                 *)
LEMMA KillKeeps == ASSUME InstanceInv, NEW p \in Processes, Kill(p) PROVE InstanceInv'
  <1>1. /\ step[p] \notin {"routed", "dead"} /\ step'[p] = "dead" /\ ear'[p] = "none"
        /\ ~attached'[p] /\ inbox'[p] = <<>> /\ mutex' = mutex \ {p}
        /\ \A q \in Processes \ {p} :
             /\ step'[q] = step[q] /\ ear'[q] = ear[q]
             /\ attached'[q] = attached[q] /\ inbox'[q] = inbox[q]
        /\ UNCHANGED <<tries, stop, taken>>
    BY DEF Kill, Goes, Hears, InstanceInv, InstanceType
  <1>2. /\ pipe'[p] = None
        /\ \A o \in Processes \ {p} : pipe'[o] = Hung(p)[o]
    BY DEF Kill, Hung
  <1>3. \A o \in Processes \ {p} :
          \/ pipe'[o] = pipe[o] /\ (pipe[o] # None => pipe[o].client # p \/ pipe[o].closed)
          \/ /\ pipe[o] \in Pipe /\ pipe[o] # None /\ pipe'[o] \in Pipe
             /\ pipe[o].client = p /\ pipe'[o].client = p
    BY <1>2, HungPipe
  <1>4. InstanceType'
    <2>1. pipe' = [o \in Processes |-> pipe'[o]]
      BY DEF Kill, Hung
    <2>2. \A o \in Processes : pipe'[o] \in Pipe \cup {None}
      BY <1>2, <1>3 DEF InstanceInv, InstanceType
    <2>3. pipe' \in [Processes -> Pipe \cup {None}]
      BY <2>1, <2>2
    <2>4. /\ step' \in [Processes -> Steps] /\ ear' \in [Processes -> Ears]
          /\ attached' \in [Processes -> BOOLEAN] /\ posted' \in [Processes -> BOOLEAN]
      BY DEF Kill, Goes, Hears, InstanceInv, InstanceType, Steps, Ears
    <2>5. inbox' \in [Processes -> Seq(Processes)]
      BY DEF Kill, InstanceInv, InstanceType
    <2>6. /\ tries' \in [Processes -> Nat] /\ stop' \in [Processes -> BOOLEAN]
          /\ taken' \in Seq(Processes) /\ mutex' \subseteq Processes
      BY <1>1 DEF InstanceInv, InstanceType
    <2>7. QED
      BY <2>3, <2>4, <2>5, <2>6 DEF InstanceType
  <1>5. Holders'
    BY <1>1 DEF InstanceInv, Holders, Holding
  <1>6. Listening'
    BY <1>1, <1>2, <1>3, SingleInstanceAssumption DEF InstanceInv, Listening
  <1>7. Clients'
    BY <1>1, <1>2, <1>3, SingleInstanceAssumption DEF InstanceInv, Clients
  <1>8. Deliveries'
    <2>1. ToSet(inbox'[p]) = {} /\ IsInjective(inbox'[p])
      BY <1>1 DEF ToSet, IsInjective
    <2>2. Handed' \subseteq Handed
      <3>1. \A q \in Processes : ToSet(inbox'[q]) \subseteq ToSet(inbox[q])
        BY <1>1, <2>1
      <3>2. QED
        BY <1>1, <3>1 DEF Handed
    <2>3. \A o \in Processes :
            ear'[o] \in {"connect", "waiting", "read"} =>
              ear[o] = ear'[o] /\ pipe'[o].client = pipe[o].client
      BY <1>1, <1>3
    <2>4. \A q \in Processes : step[q] \in {"sent", "routed", "dead"} =>
                               step'[q] \in {"sent", "routed", "dead"}
      BY <1>1
    <2>5. /\ \A q \in Processes : IsInjective(inbox'[q]) /\ ToSet(inbox'[q]) \subseteq ToSet(inbox[q])
          /\ taken' = taken
      BY <1>1, <2>1 DEF InstanceInv, Deliveries
    <2>6. /\ IsInjective(taken')
          /\ \A q \in Processes : IsInjective(inbox'[q]) /\ ToSet(inbox'[q]) \cap ToSet(taken') = {}
          /\ \A q, r \in Processes : q # r => ToSet(inbox'[q]) \cap ToSet(inbox'[r]) = {}
      BY <2>5 DEF InstanceInv, Deliveries
    <2>7. \A q \in Handed' : step'[q] \in {"sent", "routed", "dead"}
      <3>1. Handed \subseteq Processes
        BY DEF Handed, ToSet, InstanceInv, InstanceType
      <3>2. QED
        BY <2>2, <2>4, <3>1 DEF InstanceInv, Deliveries
    <2>8. \A o \in Processes :
            ear'[o] \in {"connect", "waiting", "read"} => pipe'[o].client \notin Handed'
      BY <2>2, <2>3 DEF InstanceInv, Deliveries
    <2>9. QED
      BY <2>6, <2>7, <2>8 DEF Deliveries
  <1>9. QED
    BY <1>4, <1>5, <1>6, <1>7, <1>8 DEF InstanceInv

(* A process that does without the single instance.                        *)
LEMMA SoloKeeps ==
  ASSUME InstanceInv, NEW p \in Processes, step[p] \in {"new", "alone"},
         NEW there \in {"alone", "left", "dead"}, Goes(p, there),
         UNCHANGED <<tries, mutex, thread, stop, window>>
  PROVE  InstanceInv'
  <1>1. /\ step' \in [Processes -> Steps]
        /\ step'[p] = there /\ \A q \in Processes \ {p} : step'[q] = step[q]
        /\ UNCHANGED <<tries, mutex, pipe, ear, stop, inbox, posted, attached, taken>>
    BY DEF Goes, thread, window, InstanceInv, InstanceType, Steps
  <1>2. InstanceType'
    BY <1>1 DEF InstanceInv, InstanceType
  <1>3. Holders'
    BY <1>1 DEF InstanceInv, Holders, Holding
  <1>4. Listening'
    BY <1>1 DEF InstanceInv, Listening
  <1>5. Clients'
    BY <1>1, ClientsKept
  <1>6. Deliveries'
    BY <1>1, <1>2, DeliveriesKept DEF Delivered
  <1>7. QED
    BY <1>2, <1>3, <1>4, <1>5, <1>6 DEF InstanceInv

(* Every step of the system keeps the invariant of the single instance.    *)
LEMMA InstanceStep == InstanceInv /\ [Next]_vars => InstanceInv'
  <1>1. ASSUME InstanceInv, UNCHANGED instance
        PROVE  InstanceInv'
    <2>1. UNCHANGED <<step, tries, mutex, pipe, ear, stop, inbox, posted, attached, taken>>
      BY <1>1 DEF instance
    <2>2. InstanceType' /\ Holders' /\ Listening'
      BY <1>1, <2>1 DEF InstanceInv, InstanceType, Holders, Holding, Listening
    <2>3. Clients'
      BY <1>1, <2>1, ClientsKept
    <2>4. Deliveries'
      BY <1>1, <2>1, <2>2, DeliveriesKept
    <2>5. QED
      BY <2>2, <2>3, <2>4 DEF InstanceInv
  <1>2. ASSUME InstanceInv, NEW p \in Processes, Runs(p)
        PROVE  InstanceInv'
    BY <1>1, <1>2, CreateMutexKeeps, ReleaseMutexKeeps, ConnectKeeps, SendKeeps, RoutedKeeps,
       CreatePipeKeeps, ConnectPipeKeeps, ConnectedKeeps, ReadFrameKeeps, ClosePipeKeeps,
       AttachWindowsKeeps, TakeActivationsKeeps, JoinListenerKeeps
    DEF Runs, Instance, Acquire, Route, Window, Listen
  <1>3. ASSUME InstanceInv, NEW p \in Processes, User(p)
        PROVE  InstanceInv'
    <2>1. CASE Launch(p)
      BY <1>3, <2>1, SoloKeeps DEF Launch, Starts
    <2>2. CASE Quits(p)
      BY <1>3, <2>2, SoloKeeps, ShutdownKeeps DEF Quits
    <2>3. CASE UNCHANGED instance
      BY <1>1, <1>3, <2>3
    <2>4. QED
      BY <1>3, <2>1, <2>2, <2>3 DEF User, Instance
  <1>4. ASSUME InstanceInv, NEW p \in Processes, Killed(p)
        PROVE  InstanceInv'
    BY <1>4, SoloKeeps, KillKeeps DEF Killed
  <1>5. QED
    BY <1>1, <1>2, <1>3, <1>4 DEF Next, vars

(* A file routed is handed to the window at most once, and never the file  *)
(* of a process that reports that it could not route it.                   *)
THEOREM RoutesOnce == Spec => []RoutedOnce
  <1>1. Init => InstanceInv
    BY InstanceInitial DEF Init
  <1>2. InstanceInv => RoutedOnce
    <2>1. SUFFICES ASSUME InstanceInv
                   PROVE  RoutedOnce
      OBVIOUS
    <2>2. /\ IsInjective(taken)
          /\ \A p \in Processes : IsInjective(inbox[p]) /\ ToSet(inbox[p]) \cap ToSet(taken) = {}
          /\ \A q \in ToSet(taken) \cup UNION {ToSet(inbox[p]) : p \in Processes} :
               step[q] \in {"sent", "routed", "dead"}
      BY <2>1 DEF InstanceInv, Deliveries, Handed
    <2>3. QED
      BY <2>2 DEF RoutedOnce
  <1>3. QED
    BY <1>1, <1>2, InstanceStep, PTL DEF Spec

-----------------------------------------------------------------------------
(* The project *)

Places == {"closed", "mode", "create", "check", "checked", "upgrade", "write", "opened",
           "created", "open", "refused", "source", "locked", "copied", "rebuilt", "kept",
           "published", "done", "dead"}
Layouts == {"container", "raw", "stored", "unmarked", "blank", "foreign"}
Files == [layout : Layouts, work : SUBSET Nat, clean : BOOLEAN, features : BOOLEAN]

ProjectType ==
  /\ files \in Seq(Files) /\ path \in 0..Len(files) /\ backups \subseteq 1..Len(files)
  /\ at \in [Processes -> Places]
  /\ handle \in [Processes -> Nat]
  /\ copy \in [Processes -> Files \cup {NoCopy}]
  /\ made \in Nat

(* With the single instance, the one that works on the project is the      *)
(* primary, and what it has open is the file the path names.               *)
Idle == {"closed", "done", "refused", "dead"}
Works(p) ==
  /\ step[p] # "alone"
  /\ at[p] \notin Idle => step[p] = "primary"
  /\ at[p] \in Idle \cup {"mode", "create", "check", "upgrade", "write"} => handle[p] = 0
  /\ at[p] \in {"check", "upgrade", "write"} => path # 0
  /\ at[p] \in {"checked", "opened", "created", "open", "source", "locked", "copied",
                "rebuilt", "kept"} => handle[p] = path /\ path # 0

(* What the file then is, and what has been copied of it.                  *)
Old == {"container", "unmarked", "raw"}
Knows(p) ==
  /\ at[p] = "create" => path = 0
  /\ at[p] = "created" => files[path].layout = "blank" /\ made = 0
  /\ at[p] = "open" => files[path].layout = "stored"
  /\ at[p] \in {"upgrade", "source", "locked", "copied", "rebuilt", "kept"} =>
       files[path].layout \in Old
  /\ at[p] = "copied" => copy[p] = files[path]
  /\ at[p] \in {"rebuilt", "kept"} =>
       /\ copy[p] \in Files /\ files[path].layout # "unmarked"
       /\ copy[p].work = files[path].work /\ copy[p].features = files[path].features
       /\ copy[p].layout = "stored"

(* All the work is in the file the path names, and a backup is left alone.  *)
WorkIsThere ==
  /\ path = 0 => made = 0
  /\ path # 0 => files[path].work = 1..made /\ (made > 0 => files[path].features)
  /\ path \in backups => files[path].layout \in Old

Guard ==
  /\ ProjectType
  /\ \A p \in Processes : Works(p) /\ Knows(p)
  /\ WorkIsThere

Inv == InstanceInv /\ (windows => Guard)

(* A file with its flag set is the same project.                           *)
LEMMA CleanSet ==
  ASSUME NEW file \in Files, NEW b \in BOOLEAN
  PROVE  LET set == [file EXCEPT !.clean = b] IN
           /\ set \in Files /\ set.work = file.work
           /\ set.layout = file.layout /\ set.features = file.features
  BY DEF Files

(* A file that is rebuilt has the work it had.                             *)
LEMMA StoredSet ==
  ASSUME NEW file \in Files
  PROVE  LET set == [file EXCEPT !.layout = "stored", !.clean = TRUE] IN
           /\ set \in Files /\ set.work = file.work
           /\ set.layout = "stored" /\ set.features = file.features
  BY DEF Files, Layouts

(* The guard holds when the system starts, whatever the path names.        *)
LEMMA GuardInitial == windows /\ Init => Guard
  <1>1. SUFFICES ASSUME windows, InstanceInit, ProjectInit(Guarded)
                 PROVE  Guard
    BY DEF Init
  <1>2. /\ at = [p \in Processes |-> "closed"] /\ handle = [p \in Processes |-> 0]
        /\ copy = [p \in Processes |-> NoCopy] /\ backups = {}
    BY <1>1, StartupAssumption DEF ProjectInit
  <1>3. \A p \in Processes : Works(p) /\ Knows(p)
    BY <1>1, <1>2 DEF Works, Knows, Idle, InstanceInit
  <1>4. \/ files = <<>> /\ path = 0 /\ made = 0
        \/ \E file \in Files : /\ files = <<file>> /\ path = 1 /\ made \in Nat
                              /\ file.work = 1..made /\ file.features = (made > 0)
    <2>1. CASE files = <<>> /\ path = 0 /\ made = 0
      BY <2>1
    <2>2. ASSUME NEW layout \in {"container", "raw", "stored"}, NEW clean \in BOOLEAN,
                 files = <<[File(layout, {1}) EXCEPT !.clean = clean]>>, path = 1, made = 1
          PROVE  \E file \in Files : /\ files = <<file>> /\ path = 1 /\ made \in Nat
                                  /\ file.work = 1..made /\ file.features = (made > 0)
      <3> DEFINE file == [File(layout, {1}) EXCEPT !.clean = clean]
      <3>1. file.work = {1} /\ file.features = ({1} # {}) /\ file \in Files
        <4> DEFINE f == [layout |-> layout, work |-> {1}, clean |-> TRUE,
                           features |-> ({1} # {})]
        <4>2. File(layout, {1}) = f
          BY DEF File
        <4>3. f \in Files
          BY DEF Files, Layouts
        <4>4. [f EXCEPT !.clean = clean] \in Files
          BY <4>3, CleanSet
        <4>5. QED
          BY <4>2, <4>4
      <3>2. 1..made = {1} /\ made > 0 /\ {1} # {}
        BY <2>2
      <3> HIDE DEF file
      <3>3. file.work = 1..made /\ file.features = (made > 0)
        BY <3>1, <3>2
      <3>4. QED
        BY <2>2, <3>1, <3>3 DEF file
    <2>3. ASSUME NEW layout \in {"unmarked", "foreign"},
                 files = <<File(layout, {})>>, path = 1, made = 0
          PROVE  \E file \in Files : /\ files = <<file>> /\ path = 1 /\ made \in Nat
                                  /\ file.work = 1..made /\ file.features = (made > 0)
      <3>1. /\ File(layout, {}) \in Files
            /\ File(layout, {}).work = 1..made /\ File(layout, {}).features = (made > 0)
        BY <2>3 DEF File, Files, Layouts
      <3>2. QED
        BY <2>3, <3>1
    <2>4. QED
      BY <1>1, <2>1, <2>2, <2>3 DEF ProjectInit
  <1>5. ProjectType
    <2>1. files \in Seq(Files) /\ path \in 0..Len(files) /\ made \in Nat
      <3>1. CASE files = <<>> /\ path = 0 /\ made = 0
        BY <3>1
      <3>2. ASSUME NEW file \in Files, files = <<file>>, path = 1, made \in Nat
            PROVE  files \in Seq(Files) /\ path \in 0..Len(files) /\ made \in Nat
        BY <3>2
      <3>3. QED
        BY <1>4, <3>1, <3>2
    <2>2. QED
      BY <1>2, <2>1 DEF ProjectType, Places
  <1>6. WorkIsThere
    <2>1. CASE path = 0 /\ made = 0
      BY <1>2, <2>1 DEF WorkIsThere
    <2>2. ASSUME NEW file \in Files, files = <<file>>, path = 1,
                 file.work = 1..made, file.features = (made > 0)
          PROVE  WorkIsThere
      <3>1. files[path] = file
        BY <2>2
      <3>2. path # 0 /\ path \notin backups
        BY <1>2, <2>2
      <3>3. made > 0 => files[path].features
        BY <2>2, <3>1
      <3>4. QED
        BY <2>2, <3>1, <3>2, <3>3 DEF WorkIsThere
    <2>3. QED
      BY <1>4, <2>1, <2>2
  <1>7. QED
    BY <1>3, <1>5, <1>6 DEF Guard

(* While the primary works on the project, nobody else does.               *)
LEMMA OthersAreIdle ==
  ASSUME InstanceInv, Guard, NEW p \in Processes, step[p] = "primary",
         NEW q \in Processes, q # p
  PROVE  at[q] \in Idle
  BY DEF Guard, Works, InstanceInv, Holders, Holding

(* A step of the one that works on the project.                            *)
LEMMA StepOfOne ==
  ASSUME InstanceInv, Guard, NEW p \in Processes, step[p] = "primary", UNCHANGED step,
         ProjectType', Works(p)', Knows(p)', WorkIsThere',
         \A q \in Processes \ {p} : at'[q] = at[q] /\ handle'[q] = handle[q]
  PROVE  Guard'
  <1>1. ASSUME NEW q \in Processes, q # p
        PROVE  Works(q)' /\ Knows(q)'
    <2>1. at[q] \in Idle
      BY <1>1, OthersAreIdle
    <2>2. Works(q)'
      BY <1>1, <2>1 DEF Guard, Works, Idle
    <2>3. Knows(q)'
      BY <1>1, <2>1 DEF Knows, Idle
    <2>4. QED
      BY <2>2, <2>3
  <1>2. QED
    BY <1>1 DEF Guard

(* A file with some of its fields set.                                     *)
LEMMA FileSet ==
  ASSUME ProjectType, NEW i \in 1..Len(files), NEW file \in Files,
         files' = [files EXCEPT ![i] = file]
  PROVE  /\ files' \in Seq(Files) /\ Len(files') = Len(files) /\ files'[i] = file
         /\ \A j \in 1..Len(files) : j # i => files'[j] = files[j]
  BY DEF ProjectType

(* A new file leaves the others as they are.                               *)
LEMMA FileAdded ==
  ASSUME ProjectType, NEW file \in Files, files' = Append(files, file)
  PROVE  /\ files' \in Seq(Files) /\ Len(files') = Len(files) + 1
         /\ files'[Len(files')] = file
         /\ \A j \in 1..Len(files) : files'[j] = files[j]
  BY DEF ProjectType

(* Opening the file the path names, or closing it, changes a flag of it.   *)
LEMMA CleanChanges ==
  ASSUME Guard, NEW b \in BOOLEAN, path # 0, files' = [files EXCEPT ![path].clean = b]
  PROVE  /\ files' \in Seq(Files) /\ Len(files') = Len(files)
         /\ files'[path].layout = files[path].layout
         /\ UNCHANGED <<path, backups, made>> => WorkIsThere'
  <1> DEFINE file == [files[path] EXCEPT !.clean = b]
  <1>1. ProjectType /\ WorkIsThere /\ path \in 1..Len(files) /\ files[path] \in Files
    BY DEF Guard, ProjectType
  <1>2. /\ file \in Files /\ file.work = files[path].work
        /\ file.layout = files[path].layout /\ file.features = files[path].features
    BY <1>1, CleanSet
  <1>3. files' = [files EXCEPT ![path] = file]
    OBVIOUS
  <1> HIDE DEF file
  <1>4. files' \in Seq(Files) /\ Len(files') = Len(files) /\ files'[path] = file
    BY <1>1, <1>2, <1>3, FileSet
  <1>5. QED
    BY <1>1, <1>2, <1>4 DEF WorkIsThere

(* What keeps the types of the project.                                    *)
LEMMA TypesKept ==
  ASSUME ProjectType, files' \in Seq(Files), Len(files) <= Len(files'),
         path' = path \/ path' = Len(files'), backups' \subseteq backups \cup 1..Len(files'),
         at' \in [Processes -> Places], handle' \in [Processes -> Nat],
         copy' \in [Processes -> Files \cup {NoCopy}], made' \in Nat
  PROVE  ProjectType'
  <1>1. path' \in 0..Len(files') /\ backups' \subseteq 1..Len(files')
    BY DEF ProjectType
  <1>2. QED
    BY <1>1 DEF ProjectType

(* So does a process that moves on.                                        *)
LEMMA TypeStep ==
  ASSUME ProjectType, NEW p \in Processes, NEW there \in Places, Moves(p, there),
         files' \in Seq(Files), Len(files) <= Len(files'),
         path' = path \/ path' = Len(files'), backups' \subseteq backups \cup 1..Len(files'),
         handle' \in [Processes -> Nat], copy' \in [Processes -> Files \cup {NoCopy}],
         made' \in Nat
  PROVE  ProjectType'
  <1>1. at' \in [Processes -> Places]
    BY DEF ProjectType, Moves
  <1>2. QED
    BY <1>1, TypesKept

(* open_mode finds whether there is a file.                                *)
LEMMA OpenModeGuards ==
  ASSUME InstanceInv, Guard, NEW p \in Processes, OpenMode(p), UNCHANGED step
  PROVE  Guard'
  <1>1. ProjectType /\ Works(p) /\ Knows(p) /\ WorkIsThere
    BY DEF Guard
  <1>2. step[p] = "primary"
    BY <1>1 DEF Works, Idle, OpenMode
  <1>3. \A q \in Processes \ {p} : at'[q] = at[q] /\ handle'[q] = handle[q]
    BY <1>1 DEF OpenMode, Moves, ProjectType
  <1>4. ProjectType'
    BY <1>1 DEF OpenMode, Moves, ProjectType, Places, Files, Layouts, Works
  <1>5. Works(p)'
    BY <1>1 DEF OpenMode, Moves, ProjectType, Works, Knows, Idle, Files
  <1>6. Knows(p)'
    BY <1>1 DEF OpenMode, Moves, ProjectType, Works, Knows, Idle, Old, WorkIsThere, Files, Layouts
  <1>7. WorkIsThere'
    BY <1>1 DEF OpenMode, Moves, ProjectType, Works, Knows, WorkIsThere, Old, Files
  <1>8. QED
    BY <1>2, <1>3, <1>4, <1>5, <1>6, <1>7, StepOfOne

(* The read-only look has the file open only when it may be opened.        *)
LEMMA CheckGuards ==
  ASSUME InstanceInv, Guard, NEW p \in Processes, Check(p), UNCHANGED step
  PROVE  Guard'
  <1>1. ProjectType /\ Works(p) /\ Knows(p) /\ WorkIsThere
    BY DEF Guard
  <1>2. step[p] = "primary"
    BY <1>1 DEF Works, Idle, Check
  <1>3. \A q \in Processes \ {p} : at'[q] = at[q] /\ handle'[q] = handle[q]
    BY <1>1 DEF Check, Moves, Invalid, ProjectType
  <1>4. ProjectType'
    <2>1. \E there \in Places : Moves(p, there)
      BY DEF Check, Places
    <2>3. /\ path \in Nat /\ Len(files) \in Nat /\ made \in Nat
      BY <1>1 DEF ProjectType
    <2>4. QED
      BY <1>1, <2>1, <2>3, TypeStep DEF Check, ProjectType
  <1>5. Works(p)'
    BY <1>1 DEF Check, Moves, Invalid, ProjectType, Works, Knows, Idle, Files
  <1>6. Knows(p)'
    BY <1>1 DEF Check, Moves, Invalid, ProjectType, Works, Knows, Idle, Old, WorkIsThere, Files, Layouts
  <1>7. WorkIsThere'
    BY <1>1 DEF Check, Moves, Invalid, ProjectType, Works, Knows, WorkIsThere, Old, Files
  <1>8. QED
    BY <1>2, <1>3, <1>4, <1>5, <1>6, <1>7, StepOfOne

(* It closes the file before anything else is opened.                      *)
LEMMA CheckedGuards ==
  ASSUME InstanceInv, Guard, NEW p \in Processes, Checked(p), UNCHANGED step
  PROVE  Guard'
  <1>1. ProjectType /\ Works(p) /\ Knows(p) /\ WorkIsThere
    BY DEF Guard
  <1>2. step[p] = "primary"
    BY <1>1 DEF Works, Idle, Checked
  <1>3. \A q \in Processes \ {p} : at'[q] = at[q] /\ handle'[q] = handle[q]
    BY <1>1 DEF Checked, Moves, ProjectType
  <1>4. ProjectType'
    BY <1>1 DEF Checked, Moves, ProjectType, Places, Files, Layouts, Works
  <1>5. Works(p)'
    BY <1>1 DEF Checked, Moves, ProjectType, Works, Knows, Idle, Files
  <1>6. Knows(p)'
    BY <1>1 DEF Checked, Moves, ProjectType, Works, Knows, Idle, Old, WorkIsThere, Files, Layouts
  <1>7. WorkIsThere'
    BY <1>1 DEF Checked, Moves, ProjectType, Works, Knows, WorkIsThere, Old, Files
  <1>8. QED
    BY <1>2, <1>3, <1>4, <1>5, <1>6, <1>7, StepOfOne

(* The file opened for writing is the one the path names.                  *)
LEMMA OpenWritableGuards ==
  ASSUME InstanceInv, Guard, NEW p \in Processes, OpenWritable(p), UNCHANGED step
  PROVE  Guard'
  <1>1. /\ ProjectType /\ Works(p) /\ Knows(p) /\ WorkIsThere
        /\ step[p] = "primary"
    BY DEF Guard, Works, Idle, OpenWritable
  <1>2. /\ path \in Nat /\ made \in Nat /\ Len(files) \in Nat /\ (path # 0 => path \in 1..Len(files))
        /\ at \in [Processes -> Places] /\ handle \in [Processes -> Nat]
        /\ copy \in [Processes -> Files \cup {NoCopy}]
        /\ \A i \in 1..Len(files) : files[i] \in Files
    BY <1>1 DEF ProjectType
  <1>3. path # 0 /\ at[p] = "write"
    BY <1>1 DEF OpenWritable, Works
  <1>4. CASE Moves(p, "refused") /\ UNCHANGED <<handle, files, path, backups, copy, made>>
    <2>1. ProjectType'
      BY <1>1, <1>2, <1>4, TypeStep DEF Places, ProjectType
    <2>2. at'[p] = "refused" /\ \A q \in Processes \ {p} : at'[q] = at[q]
      BY <1>2, <1>4 DEF Moves
    <2>3. Works(p)' /\ Knows(p)' /\ WorkIsThere'
      BY <1>1, <1>3, <1>4, <2>2 DEF Works, Knows, Idle, WorkIsThere
    <2>4. QED
      BY <1>1, <1>4, <2>1, <2>2, <2>3, StepOfOne
  <1>5. CASE /\ files[path].layout \in {"raw", "stored", "blank"}
             /\ Moves(p, "opened") /\ handle' = [handle EXCEPT ![p] = path]
             /\ files' = [files EXCEPT ![path].clean = FALSE]
             /\ UNCHANGED <<path, backups, copy, made>>
    <2>1. files' \in Seq(Files) /\ Len(files') = Len(files) /\ WorkIsThere'
      BY <1>3, <1>5, CleanChanges
    <2>2. ProjectType'
      <3>1. handle' \in [Processes -> Nat] /\ copy' \in [Processes -> Files \cup {NoCopy}]
        BY <1>2, <1>5
      <3>2. at' \in [Processes -> Places]
        BY <1>2, <1>5 DEF Moves, Places
      <3>3. Len(files) <= Len(files')
        BY <1>2, <2>1
      <3>4. UNCHANGED <<path, backups, made>>
        BY <1>5
      <3>5. QED
        BY <1>1, <1>2, <2>1, <3>1, <3>2, <3>3, <3>4, TypesKept
    <2>3. /\ at'[p] = "opened" /\ handle'[p] = path
          /\ \A q \in Processes \ {p} : at'[q] = at[q] /\ handle'[q] = handle[q]
      BY <1>2, <1>5 DEF Moves
    <2>4. Works(p)' /\ Knows(p)'
      BY <1>1, <1>3, <1>5, <2>3 DEF Works, Knows, Idle
    <2>5. QED
      BY <1>1, <1>5, <2>1, <2>2, <2>3, <2>4, StepOfOne
  <1>6. QED
    BY <1>4, <1>5 DEF OpenWritable

(* Only the present layout is accepted; an older one goes to the upgrade.  *)
LEMMA OpenedGuards ==
  ASSUME InstanceInv, Guard, NEW p \in Processes, Opened(p), UNCHANGED step
  PROVE  Guard'
  <1>1. /\ ProjectType /\ Works(p) /\ Knows(p) /\ WorkIsThere
        /\ step[p] = "primary"
    BY DEF Guard, Works, Idle, Opened
  <1>2. /\ path \in Nat /\ made \in Nat /\ Len(files) \in Nat /\ (path # 0 => path \in 1..Len(files))
        /\ at \in [Processes -> Places] /\ handle \in [Processes -> Nat]
        /\ copy \in [Processes -> Files \cup {NoCopy}]
        /\ \A i \in 1..Len(files) : files[i] \in Files
    BY <1>1 DEF ProjectType
  <1>3. path # 0 /\ at[p] = "opened" /\ handle[p] = path
    BY <1>1 DEF Opened, Works
  <1>4. CASE /\ files[path].layout = "stored" /\ Moves(p, "open")
             /\ UNCHANGED <<handle, files, path, backups, copy, made>>
    <2>1. ProjectType'
      BY <1>1, <1>2, <1>4, TypeStep DEF Places, ProjectType
    <2>2. at'[p] = "open" /\ \A q \in Processes \ {p} : at'[q] = at[q]
      BY <1>2, <1>4 DEF Moves
    <2>3. Works(p)' /\ Knows(p)' /\ WorkIsThere'
      BY <1>1, <1>3, <1>4, <2>2 DEF Works, Knows, Idle, WorkIsThere
    <2>4. QED
      BY <1>1, <1>4, <2>1, <2>2, <2>3, StepOfOne
  <1>5. CASE /\ Moves(p, IF files[path].layout = "raw" THEN "upgrade" ELSE "refused")
             /\ handle' = [handle EXCEPT ![p] = 0]
             /\ files' = [files EXCEPT ![path].clean = TRUE]
             /\ UNCHANGED <<path, backups, copy, made>>
    <2>1. /\ files' \in Seq(Files) /\ Len(files') = Len(files) /\ WorkIsThere'
          /\ files'[path].layout = files[path].layout
      BY <1>3, <1>5, CleanChanges
    <2>2. ProjectType'
      <3>1. handle' \in [Processes -> Nat] /\ copy' \in [Processes -> Files \cup {NoCopy}]
        BY <1>2, <1>5
      <3>2. at' \in [Processes -> Places]
        BY <1>2, <1>5 DEF Moves, Places
      <3>3. Len(files) <= Len(files')
        BY <1>2, <2>1
      <3>4. UNCHANGED <<path, backups, made>>
        BY <1>5
      <3>5. QED
        BY <1>1, <1>2, <2>1, <3>1, <3>2, <3>3, <3>4, TypesKept
    <2>3. /\ (at'[p] = "upgrade" /\ files[path].layout = "raw") \/ at'[p] = "refused"
          /\ handle'[p] = 0
          /\ \A q \in Processes \ {p} : at'[q] = at[q] /\ handle'[q] = handle[q]
      BY <1>2, <1>5 DEF Moves
    <2>4. Works(p)' /\ Knows(p)'
      BY <1>1, <1>3, <1>5, <2>1, <2>3 DEF Works, Knows, Idle, Old
    <2>5. QED
      BY <1>1, <1>5, <2>1, <2>2, <2>3, <2>4, StepOfOne
  <1>6. QED
    BY <1>3, <1>4, <1>5 DEF Opened

(* A file is created only where there is none, before any work.            *)
LEMMA CreateGuards ==
  ASSUME InstanceInv, Guard, NEW p \in Processes, Create(p), UNCHANGED step
  PROVE  Guard'
  <1>1. /\ ProjectType /\ Works(p) /\ Knows(p) /\ WorkIsThere
        /\ step[p] = "primary"
    BY DEF Guard, Works, Idle, Create
  <1>2. /\ path \in Nat /\ made \in Nat /\ Len(files) \in Nat /\ (path # 0 => path \in 1..Len(files))
        /\ at \in [Processes -> Places] /\ handle \in [Processes -> Nat]
        /\ copy \in [Processes -> Files \cup {NoCopy}]
        /\ \A i \in 1..Len(files) : files[i] \in Files
    BY <1>1 DEF ProjectType
  <1>3. path = 0 /\ at[p] = "create" /\ made = 0
    BY <1>1 DEF Create, Knows, WorkIsThere
  <1> DEFINE new == [File("blank", {}) EXCEPT !.clean = FALSE]
  <1>4. new \in Files /\ new.work = {} /\ new.layout = "blank"
    BY DEF File, Files, Layouts
  <1>5. /\ files' = Append(files, new) /\ path' = Len(files')
        /\ handle' = [handle EXCEPT ![p] = Len(files')] /\ Moves(p, "created")
        /\ UNCHANGED <<backups, copy, made>>
    BY <1>3 DEF Create
  <1> HIDE DEF new
  <1>6. /\ files' \in Seq(Files) /\ Len(files') = Len(files) + 1 /\ files'[path'] = new
    BY <1>1, <1>4, <1>5, FileAdded
  <1>7. /\ at'[p] = "created" /\ handle'[p] = path'
        /\ \A q \in Processes \ {p} : at'[q] = at[q] /\ handle'[q] = handle[q]
    BY <1>2, <1>5 DEF Moves
  <1>8. ProjectType'
    <2>1. path' \in Nat
      BY <1>2, <1>5, <1>6
    <2>2. QED
      BY <1>1, <1>2, <1>5, <1>6, <2>1, TypeStep DEF Places, ProjectType
  <1>9. Works(p)' /\ Knows(p)'
    BY <1>1, <1>2, <1>3, <1>4, <1>5, <1>6, <1>7 DEF Works, Knows, Idle
  <1>10. WorkIsThere'
    <2>1. path' \notin backups'
      BY <1>1, <1>2, <1>5, <1>6 DEF ProjectType
    <2>2. QED
      BY <1>2, <1>3, <1>4, <1>5, <1>6, <2>1 DEF WorkIsThere
  <1>11. QED
    BY <1>1, <1>7, <1>8, <1>9, <1>10, StepOfOne

(* The marker is written before any work.                                  *)
LEMMA WriteMarkerGuards ==
  ASSUME InstanceInv, Guard, NEW p \in Processes, WriteMarker(p), UNCHANGED step
  PROVE  Guard'
  <1>1. /\ ProjectType /\ Works(p) /\ Knows(p) /\ WorkIsThere
        /\ step[p] = "primary"
    BY DEF Guard, Works, Idle, WriteMarker
  <1>2. /\ path \in Nat /\ made \in Nat /\ Len(files) \in Nat /\ (path # 0 => path \in 1..Len(files))
        /\ at \in [Processes -> Places] /\ handle \in [Processes -> Nat]
        /\ copy \in [Processes -> Files \cup {NoCopy}]
        /\ \A i \in 1..Len(files) : files[i] \in Files
    BY <1>1 DEF ProjectType
  <1>3. /\ path # 0 /\ at[p] = "created" /\ handle[p] = path /\ made = 0
        /\ files[path].layout = "blank"
    BY <1>1 DEF WriteMarker, Works, Knows
  <1> DEFINE file == [files[path] EXCEPT !.layout = "stored", !.features = FALSE]
  <1>4. file \in Files /\ file.work = files[path].work /\ file.layout = "stored"
    BY <1>2, <1>3 DEF Files, Layouts
  <1>5. files' = [files EXCEPT ![path] = file]
    BY <1>2, <1>3 DEF WriteMarker
  <1> HIDE DEF file
  <1>6. /\ files' \in Seq(Files) /\ Len(files') = Len(files) /\ files'[path] = file
    BY <1>1, <1>2, <1>3, <1>4, <1>5, FileSet
  <1>7. /\ Moves(p, "open") /\ UNCHANGED <<path, backups, handle, copy, made>>
    BY DEF WriteMarker
  <1>8. /\ at'[p] = "open" /\ \A q \in Processes \ {p} : at'[q] = at[q]
    BY <1>2, <1>7 DEF Moves
  <1>9. ProjectType'
    <2>1. "open" \in Places
      BY DEF Places
    <2>2. QED
      BY <1>1, <1>2, <1>6, <1>7, <2>1, TypeStep
  <1>10. Works(p)' /\ Knows(p)'
    BY <1>1, <1>3, <1>4, <1>6, <1>7, <1>8 DEF Works, Knows, Idle
  <1>11. WorkIsThere'
    <2>1. path \notin backups
      BY <1>1, <1>3 DEF WorkIsThere, Old
    <2>2. QED
      BY <1>1, <1>2, <1>3, <1>4, <1>6, <1>7, <2>1 DEF WorkIsThere
  <1>12. QED
    BY <1>1, <1>7, <1>8, <1>9, <1>10, <1>11, StepOfOne

(* The source of an upgrade is the file the path names.                    *)
LEMMA OpenSourceGuards ==
  ASSUME InstanceInv, Guard, NEW p \in Processes, OpenSource(p), UNCHANGED step
  PROVE  Guard'
  <1>1. ProjectType /\ Works(p) /\ Knows(p) /\ WorkIsThere
    BY DEF Guard
  <1>2. step[p] = "primary"
    BY <1>1 DEF Works, Idle, OpenSource
  <1>3. \A q \in Processes \ {p} : at'[q] = at[q] /\ handle'[q] = handle[q]
    BY <1>1 DEF OpenSource, Moves, ProjectType
  <1>4. ProjectType'
    BY <1>1 DEF OpenSource, Moves, ProjectType, Places, Files, Layouts, Works
  <1>5. Works(p)'
    BY <1>1 DEF OpenSource, Moves, ProjectType, Works, Knows, Idle, Files
  <1>6. Knows(p)'
    BY <1>1 DEF OpenSource, Moves, ProjectType, Works, Knows, Idle, Old, WorkIsThere, Files, Layouts
  <1>7. WorkIsThere'
    BY <1>1 DEF OpenSource, Moves, ProjectType, Works, Knows, WorkIsThere, Old, Files
  <1>8. QED
    BY <1>2, <1>3, <1>4, <1>5, <1>6, <1>7, StepOfOne

(* Locking it changes nothing in it.                                       *)
LEMMA LockSourceGuards ==
  ASSUME InstanceInv, Guard, NEW p \in Processes, LockSource(p), UNCHANGED step
  PROVE  Guard'
  <1>1. ProjectType /\ Works(p) /\ Knows(p) /\ WorkIsThere
    BY DEF Guard
  <1>2. step[p] = "primary"
    BY <1>1 DEF Works, Idle, LockSource
  <1>3. \A q \in Processes \ {p} : at'[q] = at[q] /\ handle'[q] = handle[q]
    BY <1>1 DEF LockSource, Moves, Leaves, ProjectType
  <1>4. ProjectType'
    <2>1. \E there \in Places : Moves(p, there)
      BY DEF LockSource, Places, Leaves
    <2>3. handle' \in [Processes -> Nat]
      BY <1>1 DEF LockSource, ProjectType, Leaves
    <2>4. copy' \in [Processes -> Files \cup {NoCopy}]
      BY <1>1 DEF LockSource, ProjectType, Leaves
    <2>5. UNCHANGED <<files, path, made>> /\ backups' \subseteq backups \cup 1..Len(files)
      BY <1>1 DEF LockSource
    <2>6. files' \in Seq(Files) /\ Len(files) <= Len(files') /\ made' \in Nat
      BY <1>1, <2>5 DEF ProjectType
    <2>7. PICK there \in Places : Moves(p, there)
      BY <2>1
    <2>8. QED
      BY <1>1, <2>3, <2>4, <2>5, <2>6, <2>7, TypeStep
  <1>5. Works(p)'
    BY <1>1 DEF LockSource, Moves, Leaves, ProjectType, Works, Knows, Idle, Files
  <1>6. Knows(p)'
    BY <1>1 DEF LockSource, Moves, Leaves, ProjectType, Works, Knows, Idle, Old, WorkIsThere, Files, Layouts
  <1>7. WorkIsThere'
    BY <1>1 DEF LockSource, Moves, Leaves, ProjectType, Works, Knows, WorkIsThere, Old, Files
  <1>8. QED
    BY <1>2, <1>3, <1>4, <1>5, <1>6, <1>7, StepOfOne

(* The copy is what the path names.                                        *)
LEMMA CopyGuards ==
  ASSUME InstanceInv, Guard, NEW p \in Processes, Copy(p), UNCHANGED step
  PROVE  Guard'
  <1>1. ProjectType /\ Works(p) /\ Knows(p) /\ WorkIsThere
    BY DEF Guard
  <1>2. step[p] = "primary"
    BY <1>1 DEF Works, Idle, Copy
  <1>3. \A q \in Processes \ {p} : at'[q] = at[q] /\ handle'[q] = handle[q]
    BY <1>1 DEF Copy, Moves, Leaves, Fails, ProjectType
  <1>4. ProjectType'
    <2>1. \E there \in Places : Moves(p, there)
      BY DEF Copy, Places, Leaves, Fails
    <2>2. files[handle[p]] \in Files
      BY <1>1 DEF Copy, ProjectType, Works
    <2>3. UNCHANGED <<files, path, backups, made>>
      BY DEF Copy
    <2>4. files' \in Seq(Files) /\ Len(files) <= Len(files') /\ made' \in Nat
      BY <1>1, <2>3 DEF ProjectType
    <2>5. handle' \in [Processes -> Nat]
      BY <1>1 DEF Copy, ProjectType, Leaves, Fails
    <2>6. copy' \in [Processes -> Files \cup {NoCopy}]
      BY <1>1, <2>2 DEF Copy, ProjectType, Leaves, Fails
    <2>7. PICK there \in Places : Moves(p, there)
      BY <2>1
    <2>8. backups' \subseteq backups \cup 1..Len(files')
      BY <2>3
    <2>9. QED
      BY <1>1, <2>3, <2>4, <2>5, <2>6, <2>7, <2>8, TypeStep
  <1>5. Works(p)'
    BY <1>1 DEF Copy, Moves, Leaves, Fails, ProjectType, Works, Knows, Idle, Files
  <1>6. Knows(p)'
    BY <1>1 DEF Copy, Moves, Leaves, Fails, ProjectType, Works, Knows, Idle, Old, WorkIsThere, Files, Layouts
  <1>7. WorkIsThere'
    BY <1>1 DEF Copy, Moves, Leaves, Fails, ProjectType, Works, Knows, WorkIsThere, Old, Files
  <1>8. QED
    BY <1>2, <1>3, <1>4, <1>5, <1>6, <1>7, StepOfOne

(* The rebuilt copy has its work.                                          *)
LEMMA RebuildGuards ==
  ASSUME InstanceInv, Guard, NEW p \in Processes, Rebuild(p), UNCHANGED step
  PROVE  Guard'
  <1>1. ProjectType /\ Works(p) /\ Knows(p) /\ WorkIsThere
    BY DEF Guard
  <1>2. step[p] = "primary"
    BY <1>1 DEF Works, Idle, Rebuild
  <1>3. \A q \in Processes \ {p} : at'[q] = at[q] /\ handle'[q] = handle[q]
    BY <1>1 DEF Rebuild, Moves, Leaves, Fails, ProjectType
  <1>4. ProjectType'
    <2>1. \E there \in Places : Moves(p, there)
      BY DEF Rebuild, Places, Leaves, Fails
    <2>2. copy[p] \in Files /\ [copy[p] EXCEPT !.layout = "stored", !.clean = TRUE] \in Files
      <3>1. copy[p] \in Files
        BY <1>1 DEF Rebuild, Knows, Works, ProjectType
      <3>2. QED
        BY <3>1, StoredSet
    <2>3. handle' \in [Processes -> Nat]
      BY <1>1 DEF Rebuild, ProjectType, Leaves, Fails
    <2>4. copy' \in [Processes -> Files \cup {NoCopy}]
      BY <1>1, <2>2 DEF Rebuild, ProjectType, Leaves, Fails
    <2>5. UNCHANGED <<files, path, made>> /\ backups' \subseteq backups \cup 1..Len(files)
      BY <1>1, <2>2 DEF Rebuild
    <2>6. files' \in Seq(Files) /\ Len(files) <= Len(files') /\ made' \in Nat
      BY <1>1, <2>5 DEF ProjectType
    <2>7. PICK there \in Places : Moves(p, there)
      BY <2>1
    <2>8. QED
      BY <1>1, <2>3, <2>4, <2>5, <2>6, <2>7, TypeStep
  <1>5. Works(p)'
    BY <1>1 DEF Rebuild, Moves, Leaves, Fails, ProjectType, Works, Knows, Idle, Files
  <1>6. Knows(p)'
    <2>1. CASE Leaves(p, "refused") /\ UNCHANGED files
      BY <1>1, <2>1 DEF Leaves, Moves, ProjectType, Knows
    <2>2. CASE /\ copy[p].layout \in {"container", "raw", "stored"}
               /\ copy' = [copy EXCEPT ![p].layout = "stored", ![p].clean = TRUE]
               /\ Moves(p, "rebuilt")
      <3>1. copy[p] = files[path] /\ copy[p] \in Files /\ files[path].layout \in Old
        BY <1>1 DEF Rebuild, Knows, Works, ProjectType
      <3>2. copy'[p] = [copy[p] EXCEPT !.layout = "stored", !.clean = TRUE]
        BY <1>1, <2>2 DEF ProjectType
      <3>3. /\ copy'[p] \in Files /\ copy'[p].work = files[path].work
            /\ copy'[p].features = files[path].features /\ copy'[p].layout = "stored"
        BY <3>1, <3>2, StoredSet
      <3>4. at'[p] = "rebuilt" /\ UNCHANGED <<files, path, made>>
        BY <1>1, <2>2 DEF Moves, ProjectType, Rebuild
      <3>5. QED
        BY <2>2, <3>1, <3>3, <3>4 DEF Knows
    <2>3. QED
      BY <2>1, <2>2 DEF Rebuild, Fails
  <1>7. WorkIsThere'
    BY <1>1 DEF Rebuild, Moves, Leaves, Fails, ProjectType, Works, Knows, WorkIsThere, Old, Files
  <1>8. QED
    BY <1>2, <1>3, <1>4, <1>5, <1>6, <1>7, StepOfOne

(* The file kept as a backup is of an old layout.                          *)
LEMMA KeepBackupGuards ==
  ASSUME InstanceInv, Guard, NEW p \in Processes, KeepBackup(p), UNCHANGED step
  PROVE  Guard'
  <1>1. ProjectType /\ Works(p) /\ Knows(p) /\ WorkIsThere
    BY DEF Guard
  <1>2. step[p] = "primary"
    BY <1>1 DEF Works, Idle, KeepBackup
  <1>3. \A q \in Processes \ {p} : at'[q] = at[q] /\ handle'[q] = handle[q]
    BY <1>1 DEF KeepBackup, Moves, Leaves, Fails, ProjectType
  <1>4. ProjectType'
    <2>1. \E there \in Places : Moves(p, there)
      BY DEF KeepBackup, Places, Leaves, Fails
    <2>2. path \in 1..Len(files)
      BY <1>1 DEF KeepBackup, ProjectType, Works
    <2>3. handle' \in [Processes -> Nat]
      BY <1>1 DEF KeepBackup, ProjectType, Leaves, Fails
    <2>4. copy' \in [Processes -> Files \cup {NoCopy}]
      BY <1>1, <2>2 DEF KeepBackup, ProjectType, Leaves, Fails
    <2>5. UNCHANGED <<files, path, made>> /\ backups' \subseteq backups \cup 1..Len(files)
      BY <1>1, <2>2 DEF KeepBackup
    <2>6. files' \in Seq(Files) /\ Len(files) <= Len(files') /\ made' \in Nat
      BY <1>1, <2>5 DEF ProjectType
    <2>7. PICK there \in Places : Moves(p, there)
      BY <2>1
    <2>8. QED
      BY <1>1, <2>3, <2>4, <2>5, <2>6, <2>7, TypeStep
  <1>5. Works(p)'
    BY <1>1 DEF KeepBackup, Moves, Leaves, Fails, ProjectType, Works, Knows, Idle, Files
  <1>6. Knows(p)'
    BY <1>1 DEF KeepBackup, Moves, Leaves, Fails, ProjectType, Works, Knows, Idle, Old, WorkIsThere, Files, Layouts
  <1>7. WorkIsThere'
    BY <1>1 DEF KeepBackup, Moves, Leaves, Fails, ProjectType, Works, Knows, WorkIsThere, Old, Files
  <1>8. QED
    BY <1>2, <1>3, <1>4, <1>5, <1>6, <1>7, StepOfOne

(* The file that replaces it has all its work.                             *)
LEMMA PublishGuards ==
  ASSUME InstanceInv, Guard, NEW p \in Processes, Publish(p), UNCHANGED step
  PROVE  Guard'
  <1>1. /\ ProjectType /\ Works(p) /\ Knows(p) /\ WorkIsThere
        /\ step[p] = "primary"
    BY DEF Guard, Works, Idle, Publish
  <1>2. /\ path \in Nat /\ made \in Nat /\ Len(files) \in Nat /\ (path # 0 => path \in 1..Len(files))
        /\ at \in [Processes -> Places] /\ handle \in [Processes -> Nat]
        /\ copy \in [Processes -> Files \cup {NoCopy}]
        /\ \A i \in 1..Len(files) : files[i] \in Files
    BY <1>1 DEF ProjectType
  <1>3. /\ path # 0 /\ at[p] = "kept" /\ handle[p] = path
        /\ copy[p] \in Files /\ copy[p].work = files[path].work
        /\ copy[p].features = files[path].features
    BY <1>1 DEF Publish, Works, Knows
  <1>4. CASE /\ files' = Append(files, copy[p]) /\ path' = Len(files')
             /\ Moves(p, "published") /\ UNCHANGED <<copy, handle, backups, made>>
    <2>1. files' \in Seq(Files) /\ Len(files') = Len(files) + 1 /\ files'[path'] = copy[p]
      BY <1>1, <1>3, <1>4, FileAdded
    <2>2. ProjectType'
      BY <1>1, <1>2, <1>4, <2>1, TypeStep DEF Places, ProjectType
    <2>3. at'[p] = "published" /\ \A q \in Processes \ {p} : at'[q] = at[q]
      BY <1>2, <1>4 DEF Moves
    <2>4. Works(p)' /\ Knows(p)'
      BY <1>1, <1>4, <2>3 DEF Works, Knows, Idle
    <2>5. WorkIsThere'
      <3>1. path' \notin backups' /\ path' # 0
        BY <1>1, <1>2, <1>4, <2>1 DEF ProjectType
      <3>2. QED
        BY <1>1, <1>3, <1>4, <2>1, <3>1 DEF WorkIsThere
    <2>6. QED
      BY <1>1, <1>4, <2>2, <2>3, <2>4, <2>5, StepOfOne
  <1>5. CASE Leaves(p, "refused") /\ UNCHANGED <<files, path, backups, made>>
    <2>1. ProjectType'
      BY <1>1, <1>2, <1>5, TypeStep DEF Places, ProjectType, Leaves
    <2>2. /\ at'[p] = "refused" /\ handle'[p] = 0
          /\ \A q \in Processes \ {p} : at'[q] = at[q] /\ handle'[q] = handle[q]
      BY <1>2, <1>5 DEF Leaves, Moves
    <2>3. Works(p)' /\ Knows(p)' /\ WorkIsThere'
      BY <1>1, <1>5, <2>2 DEF Works, Knows, Idle, WorkIsThere
    <2>4. QED
      BY <1>1, <2>1, <2>2, <2>3, StepOfOne
  <1>6. QED
    BY <1>4, <1>5 DEF Publish, Fails

(* After an upgrade the project is opened anew.                            *)
LEMMA UpgradedGuards ==
  ASSUME InstanceInv, Guard, NEW p \in Processes, Upgraded(p), UNCHANGED step
  PROVE  Guard'
  <1>1. ProjectType /\ Works(p) /\ Knows(p) /\ WorkIsThere
    BY DEF Guard
  <1>2. step[p] = "primary"
    BY <1>1 DEF Works, Idle, Upgraded
  <1>3. \A q \in Processes \ {p} : at'[q] = at[q] /\ handle'[q] = handle[q]
    BY <1>1 DEF Upgraded, Moves, Leaves, ProjectType
  <1>4. ProjectType'
    BY <1>1 DEF Upgraded, Moves, Leaves, ProjectType, Places, Files, Layouts, Works
  <1>5. Works(p)'
    BY <1>1 DEF Upgraded, Moves, Leaves, ProjectType, Works, Knows, Idle, Files
  <1>6. Knows(p)'
    BY <1>1 DEF Upgraded, Moves, Leaves, ProjectType, Works, Knows, Idle, Old, WorkIsThere, Files, Layouts
  <1>7. WorkIsThere'
    BY <1>1 DEF Upgraded, Moves, Leaves, ProjectType, Works, Knows, WorkIsThere, Old, Files
  <1>8. QED
    BY <1>2, <1>3, <1>4, <1>5, <1>6, <1>7, StepOfOne

(* Work goes into the file the path names.                                 *)
LEMMA CommitGuards ==
  ASSUME InstanceInv, Guard, NEW p \in Processes, Commit(p), UNCHANGED step
  PROVE  Guard'
  <1>1. /\ ProjectType /\ Works(p) /\ Knows(p) /\ WorkIsThere
        /\ step[p] = "primary"
    BY DEF Guard, Works, Idle, Commit
  <1>2. /\ path \in Nat /\ made \in Nat /\ Len(files) \in Nat /\ (path # 0 => path \in 1..Len(files))
        /\ at \in [Processes -> Places] /\ handle \in [Processes -> Nat]
        /\ copy \in [Processes -> Files \cup {NoCopy}]
        /\ \A i \in 1..Len(files) : files[i] \in Files
    BY <1>1 DEF ProjectType
  <1>3. /\ path # 0 /\ at[p] = "open" /\ handle[p] = path /\ files[path].layout = "stored"
    BY <1>1 DEF Commit, Works, Knows
  <1> DEFINE file == [files[path] EXCEPT !.work = files[path].work \cup {made + 1},
                                         !.features = TRUE]
  <1>4. /\ file \in Files /\ file.layout = "stored" /\ file.features
        /\ file.work = files[path].work \cup {made + 1}
    <2>1. files[path] \in Files /\ files[path].work \cup {made + 1} \in SUBSET Nat
      BY <1>2, <1>3 DEF Files
    <2>2. QED
      BY <1>3, <2>1 DEF Files
  <1>5. files' = [files EXCEPT ![path] = file]
    BY <1>2, <1>3 DEF Commit
  <1> HIDE DEF file
  <1>6. /\ files' \in Seq(Files) /\ Len(files') = Len(files) /\ files'[path] = file
    BY <1>1, <1>2, <1>3, <1>4, <1>5, FileSet
  <1>7. made' = made + 1 /\ UNCHANGED <<path, backups, at, handle, copy>>
    BY DEF Commit
  <1>8. ProjectType'
    BY <1>1, <1>2, <1>6, <1>7 DEF ProjectType
  <1>9. Works(p)' /\ Knows(p)'
    BY <1>1, <1>3, <1>4, <1>6, <1>7 DEF Works, Knows, Idle
  <1>10. WorkIsThere'
    <2>1. path \notin backups
      BY <1>1, <1>3 DEF WorkIsThere, Old
    <2>2. 1..(made + 1) = (1..made) \cup {made + 1}
      BY <1>2
    <2>3. QED
      BY <1>1, <1>2, <1>3, <1>4, <1>6, <1>7, <2>1, <2>2 DEF WorkIsThere
  <1>11. QED
    BY <1>1, <1>7, <1>8, <1>9, <1>10, StepOfOne

(* Closing leaves the work where it is.                                    *)
LEMMA CloseGuards ==
  ASSUME InstanceInv, Guard, NEW p \in Processes, Close(p), UNCHANGED step
  PROVE  Guard'
  <1>1. /\ ProjectType /\ Works(p) /\ Knows(p) /\ WorkIsThere
        /\ step[p] = "primary"
    BY DEF Guard, Works, Idle, Close
  <1>2. /\ path \in Nat /\ made \in Nat /\ Len(files) \in Nat /\ (path # 0 => path \in 1..Len(files))
        /\ at \in [Processes -> Places] /\ handle \in [Processes -> Nat]
        /\ copy \in [Processes -> Files \cup {NoCopy}]
        /\ \A i \in 1..Len(files) : files[i] \in Files
    BY <1>1 DEF ProjectType
  <1>3. /\ path # 0 /\ handle[p] = path /\ Moves(p, "done")
        /\ files' = [files EXCEPT ![path].clean = TRUE]
        /\ handle' = [handle EXCEPT ![p] = 0]
        /\ UNCHANGED <<path, backups, copy, made>>
    BY <1>1 DEF Close, Works
  <1>4. files' \in Seq(Files) /\ Len(files') = Len(files) /\ WorkIsThere'
    BY <1>3, CleanChanges
  <1>5. ProjectType'
    <2>1. handle' \in [Processes -> Nat] /\ copy' \in [Processes -> Files \cup {NoCopy}]
      BY <1>2, <1>3
    <2>2. at' \in [Processes -> Places]
      BY <1>2, <1>3 DEF Moves, Places
    <2>3. Len(files) <= Len(files') /\ UNCHANGED <<path, backups, made>>
      BY <1>2, <1>3, <1>4
    <2>4. QED
      BY <1>1, <1>2, <1>4, <2>1, <2>2, <2>3, TypesKept
  <1>6. /\ at'[p] = "done" /\ handle'[p] = 0
        /\ \A q \in Processes \ {p} : at'[q] = at[q] /\ handle'[q] = handle[q]
    BY <1>2, <1>3 DEF Moves
  <1>7. Works(p)' /\ Knows(p)'
    BY <1>1, <1>3, <1>6 DEF Works, Knows, Idle
  <1>8. QED
    BY <1>1, <1>4, <1>5, <1>6, <1>7, StepOfOne

(* Only the primary begins, once it has its window.                        *)
LEMMA BeginGuards ==
  ASSUME InstanceInv, Guard, NEW p \in Processes, Begin(p), UNCHANGED step
  PROVE  Guard'
  <1>1. ProjectType /\ Works(p) /\ Knows(p) /\ WorkIsThere
    BY DEF Guard
  <1>2. step[p] = "primary"
    BY <1>1 DEF Works, Begin, InstanceInv, Listening
  <1>3. \A q \in Processes \ {p} : at'[q] = at[q] /\ handle'[q] = handle[q]
    BY <1>1 DEF Begin, Moves, ProjectType
  <1>4. ProjectType'
    BY <1>1 DEF Begin, Moves, ProjectType, Places, Files, Layouts, Works
  <1>5. Works(p)'
    BY <1>1, <1>2 DEF Begin, Moves, ProjectType, Works, Idle
  <1>6. Knows(p)'
    BY <1>1 DEF Begin, Moves, ProjectType, Works, Knows, Idle, Old, WorkIsThere, Files, Layouts
  <1>7. WorkIsThere'
    BY <1>1 DEF Begin, Moves, ProjectType, Works, Knows, WorkIsThere, Old, Files
  <1>8. QED
    BY <1>2, <1>3, <1>4, <1>5, <1>6, <1>7, StepOfOne

(* A step that leaves the project alone, and no process that works on it   *)
(* anything but the primary.                                               *)
LEMMA InstanceGuards ==
  ASSUME InstanceInv, Guard, UNCHANGED project,
         \A p \in Processes : /\ step'[p] # "alone"
                              /\ at[p] \notin Idle => step'[p] = step[p]
  PROVE  Guard'
  <1>1. UNCHANGED <<files, path, backups, at, handle, copy, made>>
    BY DEF project
  <1>2. ProjectType' /\ WorkIsThere'
    BY <1>1 DEF Guard, ProjectType, WorkIsThere
  <1>3. \A p \in Processes : Works(p)' /\ Knows(p)'
    BY <1>1 DEF Guard, Works, Knows
  <1>4. QED
    BY <1>2, <1>3 DEF Guard

(* Whoever dies leaves what it had open.                                   *)
LEMMA KilledGuards ==
  ASSUME InstanceInv, Guard, NEW p \in Processes, windows, Killed(p)
  PROVE  Guard'
  <1>1. /\ Works(p) /\ step' = [step EXCEPT ![p] = "dead"]
    BY DEF Guard, Works, Killed, Kill, Goes
  <1>2. \A q \in Processes : step'[q] = IF q = p THEN "dead" ELSE step[q]
    BY <1>1 DEF InstanceInv, InstanceType
  <1>3. CASE Finished(p)
    <2>1. UNCHANGED project
      BY <1>3 DEF Killed
    <2>2. at[p] \in Idle
      BY <1>3 DEF Finished, Idle
    <2>3. \A q \in Processes : step'[q] # "alone" /\ (at[q] \notin Idle => step'[q] = step[q])
      BY <1>2, <2>2 DEF Guard, Works
    <2>4. QED
      BY <2>1, <2>3, InstanceGuards
  <1>4. CASE ~Finished(p)
    <2>1. /\ at' = [at EXCEPT ![p] = "dead"] /\ handle' = [handle EXCEPT ![p] = 0]
          /\ UNCHANGED <<files, path, backups, copy, made>>
      BY <1>4 DEF Killed, Die, Moves
    <2>2. ProjectType' /\ WorkIsThere'
      <3>1. at' \in [Processes -> Places] /\ handle' \in [Processes -> Nat]
        BY <2>1 DEF Guard, ProjectType, Places
      <3>2. QED
        BY <2>1, <3>1 DEF Guard, ProjectType, WorkIsThere
    <2>3. /\ at'[p] = "dead" /\ handle'[p] = 0
          /\ \A q \in Processes \ {p} : at'[q] = at[q] /\ handle'[q] = handle[q]
      BY <2>1 DEF Guard, ProjectType
    <2>4. Works(p)' /\ Knows(p)'
      BY <1>2, <2>3 DEF Works, Knows, Idle
    <2>5. ASSUME NEW q \in Processes, q # p
          PROVE  Works(q)' /\ Knows(q)'
      BY <1>2, <2>1, <2>3, <2>5 DEF Guard, Works, Knows
    <2>6. QED
      BY <2>2, <2>4, <2>5 DEF Guard
  <1>5. QED
    BY <1>3, <1>4

(* With the single instance, every step of the system keeps the guard.     *)
LEMMA GuardStep == InstanceInv /\ Guard /\ windows /\ [Next]_vars => Guard'
  <1>1. ASSUME InstanceInv, Guard, UNCHANGED vars
        PROVE  Guard'
    <2>1. UNCHANGED step /\ UNCHANGED project
      BY <1>1 DEF vars, instance
    <2>2. QED
      BY <1>1, <2>1, InstanceGuards DEF Guard, Works
  <1>2. ASSUME InstanceInv, Guard, windows, NEW p \in Processes,
               Instance(Acquire(p) \/ Route(p) \/ Window(p) \/ Listen(p) \/ Launch(p) \/ Quits(p))
        PROVE  Guard'
    <2>1. UNCHANGED project /\ Works(p)
      BY <1>2 DEF Instance, Guard
    <2>2. \/ UNCHANGED step
          \/ /\ step[p] # "primary"
             /\ \E there \in Steps \ {"alone"} : Goes(p, there)
          \/ Goes(p, "leaving") /\ Finished(p)
      BY <1>2, <2>1
      DEF Instance, Acquire, Route, Window, Listen, Launch, Quits, CreateMutex, ReleaseMutex,
          Connect, Send, Routed, Retry, CreatePipe, ConnectPipe, Connected, ReadFrame, ClosePipe,
          AttachWindows, TakeActivations, JoinListener, Shutdown, Starts, Steps, Works
    <2>3. \A q \in Processes : /\ step'[q] # "alone"
                               /\ at[q] \notin Idle => step'[q] = step[q]
      BY <1>2, <2>1, <2>2 DEF Goes, Guard, Works, Finished, Idle, InstanceInv, InstanceType
    <2>4. QED
      BY <1>2, <2>1, <2>3, InstanceGuards
  <1>3. ASSUME InstanceInv, Guard, NEW p \in Processes, UNCHANGED instance,
               Begin(p) \/ Opening(p) \/ Commit(p) \/ Close(p)
        PROVE  Guard'
    <2>1. UNCHANGED step
      BY <1>3 DEF instance
    <2>2. QED
      BY <1>3, <2>1, OpenModeGuards, CheckGuards, CheckedGuards, OpenWritableGuards, OpenedGuards,
         CreateGuards, WriteMarkerGuards, OpenSourceGuards, LockSourceGuards, CopyGuards,
         RebuildGuards, KeepBackupGuards, PublishGuards, UpgradedGuards, CommitGuards,
         CloseGuards, BeginGuards
      DEF Opening
  <1>4. ASSUME InstanceInv, Guard, windows, NEW p \in Processes, Killed(p)
        PROVE  Guard'
    BY <1>4, KilledGuards
  <1>5. ASSUME InstanceInv, Guard, windows, NEW p \in Processes, Runs(p) \/ User(p)
        PROVE  Guard'
    BY <1>2, <1>3, <1>5 DEF Runs, User, Instance
  <1>6. QED
    BY <1>1, <1>4, <1>5 DEF Next

(* Whether the system has the single instance never changes.               *)
LEMMA WindowsStays == [Next]_vars => windows' = windows
  BY DEF Next, vars, Runs, User, Instance

(* The invariant holds in every behaviour.                                 *)
LEMMA InvHolds == Spec => []Inv
  <1>1. Init => Inv
    BY InstanceInitial, GuardInitial DEF Init, Inv
  <1>2. Inv /\ [Next]_vars => Inv'
    BY InstanceStep, GuardStep, WindowsStays DEF Inv
  <1>3. QED
    BY <1>1, <1>2, PTL DEF Spec

(* There is one primary: only the holder of the mutex serves the pipe or   *)
(* has the project open, and what it has open is the file the path names,  *)
(* whoever else starts, leaves or dies.                                    *)
THEOREM PrimaryIsAlone == Spec => []OnePrimary
  <1>1. Inv => OnePrimary
    <2>1. SUFFICES ASSUME Inv, windows
                   PROVE  OnePrimary
      BY DEF OnePrimary
    <2>2. InstanceInv /\ Guard
      BY <2>1 DEF Inv
    <2>3. Cardinality({p \in Processes : step[p] \in {"primary", "leaving"}}) <= 1
      <3> DEFINE primaries == {p \in Processes : step[p] \in {"primary", "leaving"}}
      <3>1. \A p, q \in primaries : p = q
        BY <2>2 DEF InstanceInv, Holders, Holding
      <3>2. CASE primaries = {}
        BY <3>2, FS_EmptySet
      <3>3. CASE primaries # {}
        <4>1. PICK p \in primaries : TRUE
          BY <3>3
        <4>2. primaries = {p}
          BY <3>1, <4>1
        <4>3. QED
          BY <4>2, FS_Singleton
      <3>4. QED
        BY <3>2, <3>3
    <2>4. ASSUME NEW p \in Processes,
                 ear[p] \notin {"none", "ended"} \/ pipe[p] # None \/ handle[p] # 0
          PROVE  p \in mutex
      <3>1. pipe[p] # None => ear[p] \notin {"none", "ended"}
        BY <2>2 DEF InstanceInv, Listening
      <3>2. handle[p] # 0 => step[p] = "primary"
        BY <2>2 DEF Guard, Works
      <3>3. Holding(p)
        BY <2>2, <2>4, <3>1, <3>2 DEF InstanceInv, Listening, Holding
      <3>4. QED
        BY <2>2, <3>3 DEF InstanceInv, Holders
    <2>5. \A p \in Processes : at[p] = "open" => handle[p] = path
      BY <2>2 DEF Guard, Works
    <2>6. QED
      BY <2>3, <2>4, <2>5 DEF OnePrimary
  <1>2. QED
    BY <1>1, InvHolds, PTL

(* What a step may do to a file that has a name.                           *)
Kept ==
  /\ path' # path /\ path # 0 => files[path].layout \in {"container", "raw", "stored"}
  /\ \A f \in backups : files'[f].work = files[f].work

(* What a step of an opening or of an open project does to named files.    *)
LEMMA OpenKeeps ==
  ASSUME Guard, NEW p \in Processes, Begin(p) \/ Opening(p) \/ Commit(p) \/ Close(p)
  PROVE  Kept
  <1>1. /\ ProjectType /\ Works(p) /\ Knows(p) /\ WorkIsThere
        /\ path \in Nat /\ \A f \in backups : f \in 1..Len(files)
        /\ \A i \in 1..Len(files) : files[i] \in Files
    BY DEF Guard, ProjectType
  <1>2. CASE UNCHANGED <<files, path>>
    BY <1>2 DEF Kept
  <1>3. ASSUME NEW h \in Nat, NEW b \in BOOLEAN, files' = [files EXCEPT ![h].clean = b]
        PROVE  \A f \in backups : files'[f].work = files[f].work
    BY <1>1, <1>3 DEF Files
  <1>4. CASE OpenWritable(p)
    BY <1>1, <1>3, <1>4 DEF OpenWritable, Kept
  <1>5. CASE Opened(p)
    <2>1. handle[p] \in Nat /\ path' = path
      BY <1>1, <1>5 DEF Opened, ProjectType
    <2>2. CASE UNCHANGED files
      BY <2>1, <2>2 DEF Kept
    <2>3. CASE files' = [files EXCEPT ![handle[p]].clean = TRUE]
      BY <1>3, <2>1, <2>3 DEF Kept
    <2>4. QED
      BY <1>5, <2>2, <2>3 DEF Opened
  <1>6. CASE Close(p)
    <2>1. handle[p] \in Nat /\ path' = path /\ files' = [files EXCEPT ![handle[p]].clean = TRUE]
      BY <1>1, <1>6 DEF Close, ProjectType
    <2>2. QED
      BY <1>3, <2>1 DEF Kept
  <1>7. CASE Create(p)
    <2>1. path = 0 /\ files' = Append(files, [File("blank", {}) EXCEPT !.clean = FALSE])
      BY <1>1, <1>7 DEF Create, Knows
    <2>2. \A f \in 1..Len(files) : files'[f] = files[f]
      BY <1>1, <2>1 DEF ProjectType
    <2>3. QED
      BY <1>1, <2>1, <2>2 DEF Kept
  <1>8. CASE WriteMarker(p)
    <2>1. handle[p] = path /\ path \notin backups /\ path' = path
      BY <1>1, <1>8 DEF WriteMarker, Works, Knows, WorkIsThere, Old
    <2>2. \A f \in 1..Len(files) : f # path => files'[f] = files[f]
      BY <1>1, <1>8, <2>1 DEF WriteMarker, ProjectType
    <2>3. QED
      BY <1>1, <2>1, <2>2 DEF Kept
  <1>9. CASE Commit(p)
    <2>1. handle[p] = path /\ path \notin backups /\ path' = path
      BY <1>1, <1>9 DEF Commit, Works, Knows, WorkIsThere, Old
    <2>2. \A f \in 1..Len(files) : f # path => files'[f] = files[f]
      BY <1>1, <1>9, <2>1 DEF Commit, ProjectType
    <2>3. QED
      BY <1>1, <2>1, <2>2 DEF Kept
  <1>10. CASE Publish(p)
    <2>1. files[path].layout \in {"container", "raw", "stored"}
      BY <1>1, <1>10 DEF Publish, Knows, Old
    <2>2. CASE files' = Append(files, copy[p])
      <3>1. \A f \in 1..Len(files) : files'[f] = files[f]
        BY <1>1, <2>2 DEF ProjectType
      <3>2. QED
        BY <1>1, <2>1, <3>1 DEF Kept
    <2>3. QED
      BY <1>2, <1>10, <2>2 DEF Publish
  <1>11. QED
    BY <1>2, <1>4, <1>5, <1>6, <1>7, <1>8, <1>9, <1>10
    DEF Opening, Begin, OpenMode, Check, Checked, OpenSource, LockSource, Copy, Rebuild,
        KeepBackup, Upgraded

(* So for every step of the system.                                        *)
LEMMA StepKeeps == Guard /\ Next => Kept
  <1>1. ASSUME UNCHANGED project
        PROVE  Kept
    BY <1>1 DEF project, Kept
  <1>2. ASSUME NEW p \in Processes, Guard, Runs(p) \/ User(p)
        PROVE  Kept
    BY <1>1, <1>2, OpenKeeps DEF Runs, User, Instance
  <1>3. ASSUME NEW p \in Processes, Killed(p)
        PROVE  Kept
    BY <1>3 DEF Killed, Die, project, Kept
  <1>4. QED
    BY <1>2, <1>3 DEF Next

(* With the single instance, every piece of work ever committed is in the  *)
(* file the path names, whatever fails or dies, a file that replaces       *)
(* another replaces a project with its work, and a backup stays the file   *)
(* it was.                                                                 *)
THEOREM WorkStaysNamed == Spec /\ windows => WorkKeepsItsName
  <1> DEFINE Some == windows \/ Cardinality(Solo) <= 2 =>
                       \A n \in 1..made : \E f \in Named \ {0} : n \in files[f].work
             There == windows /\ path # 0 =>
                        files[path].work = 1..made /\ (made > 0 => files[path].features)
             Keeps == /\ path' # path /\ path # 0 =>
                           files[path].layout \in {"container", "raw", "stored"}
                      /\ windows => \A f \in backups : files'[f].work = files[f].work
  <1>1. Inv => There
    BY DEF Inv, Guard, WorkIsThere
  <1>2. Inv /\ windows => Some
    <2>1. SUFFICES ASSUME Inv, windows, NEW n \in 1..made
                   PROVE  \E f \in Named \ {0} : n \in files[f].work
      OBVIOUS
    <2>2. WorkIsThere /\ made \in Nat
      BY <2>1 DEF Inv, Guard, ProjectType
    <2>3. path # 0 /\ n \in files[path].work
      BY <2>1, <2>2 DEF WorkIsThere
    <2>4. QED
      BY <2>3 DEF Named
  <1>3. Inv /\ windows /\ [Next]_vars => [Keeps]_vars
    BY StepKeeps DEF Inv, Kept
  <1>4. Spec /\ windows => []windows
    <2>1. windows /\ [Next]_vars => windows'
      BY WindowsStays
    <2>2. QED
      BY <2>1, PTL DEF Spec
  <1> HIDE DEF Some, There, Keeps
  <1>5. Spec /\ windows => []Some /\ []There /\ [][Keeps]_vars
    BY <1>1, <1>2, <1>3, <1>4, InvHolds, PTL DEF Spec
  <1>6. QED
    BY <1>5 DEF WorkKeepsItsName, Some, There, Keeps
=============================================================================
