------------------------ MODULE DocumentGrants_proofs ------------------------
(***************************************************************************)
(* Theorems about a redacted document, for any number of authors,          *)
(* recipients, slots and redact runs, and any archive.                     *)
(***************************************************************************)
EXTENDS DocumentGrants, FiniteSetTheorems, SequenceTheorems, WellFoundedInduction, TLAPS

-----------------------------------------------------------------------------
(* The parts of the inductive invariant.                                   *)

(* The key store of each recipient, and what its clients have in hand.     *)
KeyRecord == [owner : Recipients, gen : 0..MaxLosses]
Loads(n)  == {NoLoad, Missing, Joined} \cup {Ready(k) : k \in 1..n}
Mine(r)   == {k \in 1..Len(keys) : keys[k].owner = r}

KeyTypes ==
  /\ keys \in Seq(KeyRecord)
  /\ stored \in [Recipients -> 0..Len(keys)]
  /\ losses \in [Recipients -> 0..MaxLosses]
  /\ load \in [Clients -> [Promises -> Loads(Len(keys))]]

\* the events that name one of k keys and n runs
EventOf(k, n) ==
  [kind : {"published"}, by : Authors]
  \cup [kind : {"requested"}, by : Recipients, key : 1..k]
  \cup [kind : {"granted"}, by : Authors, to : Recipients, slot : Slots, key : 1..k, run : 1..n]

LogTypes ==
  /\ author \in Authors \cup {None}
  /\ log \in Seq(EventOf(Len(keys), Len(made)))

\* Session and archive of an author are its last runs, newest first: what is
\* not among them is older than a full archive.
Kept(a) ==
  /\ session[a] = 0 => RunsBy(a) = {} /\ archive[a] = <<>>
  /\ session[a] # 0 => session[a] \in RunsBy(a)
  /\ \A m \in RunsBy(a) : m <= session[a]
  /\ \A i \in 1..Len(archive[a]) : archive[a][i] \in RunsBy(a) /\ archive[a][i] < session[a]
  /\ \A i, j \in 1..Len(archive[a]) : i < j => archive[a][j] < archive[a][i]
  /\ Len(archive[a]) <= RunCap
  /\ \A m \in RunsBy(a) :
       \/ m \in HeldRuns(a)
       \/ Len(archive[a]) = RunCap /\ \A i \in 1..Len(archive[a]) : m < archive[a][i]

RunTypes ==
  /\ made \in Seq(Authors)
  /\ session \in [Authors -> 0..Len(made)]
  /\ archive \in [Authors -> Seq(Nat)]
  /\ \A a \in Authors : Kept(a)

\* a job wraps to one of k keys the slot keys of one of n runs
JobOf(k, n) ==
  {j \in [to : Recipients, key : 1..k, run : 1..n, slots : SUBSET Slots, left : SUBSET Slots] :
     j.left \subseteq j.slots /\ j.left # {}}

JobTypes ==
  /\ job \in [Authors -> {NoJob} \cup JobOf(Len(keys), Len(made))]
  /\ answered \in [Recipients -> [key : Nat, run : Nat, slots : SUBSET Slots]]

TypeInv == KeyTypes /\ LogTypes /\ RunTypes /\ JobTypes

\* No key of the wallet r is as young as its last loss.
Bare(r) == \A k \in Mine(r) : keys[k].gen < losses[r]

\* A key is as young as the last loss of its owner only if it is stored.
StoreInv ==
  /\ \A r \in Recipients : stored[r] # 0 => keys[stored[r]].owner = r
  /\ \A r \in Recipients : \A k \in Mine(r) :
       keys[k].gen <= losses[r] /\ (keys[k].gen = losses[r] => stored[r] = k)

\* What a client has in hand is its wallet's, and it makes at most one key.
HandsInv ==
  /\ \A c \in Clients, p \in Promises :
       /\ load[c][p] = Missing => Bare(WalletOf[c])
       /\ load[c][p].st = "ready" => keys[load[c][p].key].owner = WalletOf[c]
  /\ \A c \in WebTabs : load[c]["ask"] \in {NoLoad, Joined}
  /\ \A c \in CliShells : \E p \in Promises : load[c][p] = NoLoad

RequestInv == \A i \in At("requested") : keys[log[i].key].owner = log[i].by

\* The newest grant of slot s to r wraps the key of run n to k.
Delivered(r, s, k, n) ==
  \E i \in GrantsTo(r) :
    /\ log[i].slot = s
    /\ \A j \in GrantsTo(r) : j >= i /\ log[j].slot = s => log[j].key = k /\ log[j].run = n

GrantInv ==
  /\ \A a \in Authors : job[a].left # job[a].slots => author = a
  /\ \A a \in Authors : job[a] # NoJob =>
       \A s \in job[a].slots \ job[a].left : Delivered(job[a].to, s, job[a].key, job[a].run)
  /\ \A r \in Recipients :
       /\ answered[r] # NoAnswer => answered[r].key # 0
       /\ \A s \in answered[r].slots : Delivered(r, s, answered[r].key, answered[r].run)

-----------------------------------------------------------------------------
(* Types.                                                                  *)

LEMMA LoadFacts ==
  /\ NoLoad # Missing /\ NoLoad # Joined /\ Missing # Joined
  /\ NoLoad.st # "ready" /\ Missing.st # "ready" /\ Joined.st # "ready"
  /\ \A k : Ready(k).st = "ready" /\ Ready(k).key = k
  /\ \A k : Ready(k) # NoLoad /\ Ready(k) # Missing /\ Ready(k) # Joined
  BY DEF NoLoad, Missing, Joined, Ready

LEMMA Grows ==
  ASSUME NEW k \in Nat, NEW n \in Nat, NEW k2 \in Nat, NEW n2 \in Nat, k <= k2, n <= n2
  PROVE  /\ Loads(k) \subseteq Loads(k2)
         /\ EventOf(k, n) \subseteq EventOf(k2, n2)
         /\ JobOf(k, n) \subseteq JobOf(k2, n2)
<1>1. 1..k \subseteq 1..k2 /\ 1..n \subseteq 1..n2
  OBVIOUS
<1>2. Loads(k) \subseteq Loads(k2)
  BY <1>1 DEF Loads
<1>3. EventOf(k, n) \subseteq EventOf(k2, n2)
  BY <1>1 DEF EventOf
<1>4. ASSUME NEW j \in JobOf(k, n) PROVE j \in JobOf(k2, n2)
  BY <1>1 DEF JobOf
<1> QED
  BY <1>2, <1>3, <1>4

LEMMA Lengths ==
  ASSUME TypeInv
  PROVE  /\ Len(keys) \in Nat /\ Len(made) \in Nat /\ Len(log) \in Nat
         /\ keys \in [1..Len(keys) -> KeyRecord]
         /\ made \in [1..Len(made) -> Authors]
         /\ log \in [1..Len(log) -> EventOf(Len(keys), Len(made))]
  BY LenProperties DEF TypeInv, KeyTypes, RunTypes, LogTypes

LEMMA TypeInit == Init => TypeInv
<1> SUFFICES ASSUME Init PROVE TypeInv
  OBVIOUS
<1>1. KeyTypes
  <2>1. keys \in Seq(KeyRecord) /\ 0 \in 0..Len(keys)
    BY DEF Init
  <2>2. losses \in [Recipients -> 0..MaxLosses]
    BY DocAssumption DEF Init
  <2>3. load \in [Clients -> [Promises -> Loads(Len(keys))]]
    BY DEF Init, Loads
  <2> QED
    BY <2>1, <2>2, <2>3 DEF Init, KeyTypes
<1>2. LogTypes
  BY DEF Init, LogTypes
<1>3. RunTypes
  <2>1. made \in Seq(Authors) /\ Len(made) = 0 /\ \A a \in Authors : <<>> \in Seq(Nat)
    BY DEF Init
  <2>2. \A a \in Authors : RunsBy(a) = {}
    BY <2>1 DEF RunsBy
  <2>3. \A a \in Authors : Kept(a)
    BY <2>2, DocAssumption DEF Kept, Init
  <2>4. session \in [Authors -> 0..Len(made)] /\ archive \in [Authors -> Seq(Nat)]
    BY <2>1 DEF Init
  <2> QED
    BY <2>1, <2>3, <2>4 DEF RunTypes
<1>4. JobTypes
  BY DEF Init, JobTypes, NoAnswer
<1> QED
  BY <1>1, <1>2, <1>3, <1>4 DEF TypeInv

\* What a step leaves alone stays typed when keys and runs are added.
LEMMA TypeKept ==
  ASSUME TypeInv, Len(keys') \in Nat, Len(made') \in Nat,
         Len(keys) <= Len(keys'), Len(made) <= Len(made')
  PROVE  /\ UNCHANGED chainVars => LogTypes'
         /\ UNCHANGED runVars => RunTypes'
         /\ UNCHANGED <<job, answered>> => JobTypes'
         /\ UNCHANGED <<keyVars, load>> => KeyTypes'
<1>1. /\ Loads(Len(keys)) \subseteq Loads(Len(keys'))
      /\ EventOf(Len(keys), Len(made)) \subseteq EventOf(Len(keys'), Len(made'))
      /\ JobOf(Len(keys), Len(made)) \subseteq JobOf(Len(keys'), Len(made'))
  BY Grows, Lengths
<1>2. ASSUME UNCHANGED chainVars PROVE LogTypes'
  <2>1. log' \in Seq(EventOf(Len(keys'), Len(made')))
    BY <1>1, <1>2, SeqMonotonic DEF TypeInv, LogTypes, chainVars
  <2> QED
    BY <1>2, <2>1 DEF TypeInv, LogTypes, chainVars
<1>3. ASSUME UNCHANGED runVars PROVE RunTypes'
  BY <1>3 DEF TypeInv, RunTypes, runVars, Kept, RunsBy, HeldRuns
<1>4. ASSUME UNCHANGED <<job, answered>> PROVE JobTypes'
  <2>1. job' \in [Authors -> {NoJob} \cup JobOf(Len(keys'), Len(made'))]
    BY <1>1, <1>4 DEF TypeInv, JobTypes
  <2> QED
    BY <1>4, <2>1 DEF TypeInv, JobTypes
<1>5. ASSUME UNCHANGED <<keyVars, load>> PROVE KeyTypes'
  BY <1>5 DEF TypeInv, KeyTypes, keyVars
<1> QED
  BY <1>2, <1>3, <1>4, <1>5

LEMMA Promised ==
  ASSUME TypeInv, NEW c \in Clients, NEW p \in Promises
  PROVE  /\ load[c][p] \in Loads(Len(keys)) /\ Awaited(c, p) \in Loads(Len(keys))
         /\ load[c][p].st = "ready" => load[c][p].key \in 1..Len(keys)
         /\ Awaited(c, p).st = "ready" => Awaited(c, p).key \in 1..Len(keys)
<1>1. "page" \in Promises
  BY DEF Promises
<1>2. load[c][p] \in Loads(Len(keys)) /\ Awaited(c, p) \in Loads(Len(keys))
  BY <1>1 DEF TypeInv, KeyTypes, Awaited
<1>3. \A l \in Loads(Len(keys)) : l.st = "ready" => l.key \in 1..Len(keys)
  BY LoadFacts DEF Loads
<1> QED
  BY <1>2, <1>3

LEMMA Wallet ==
  ASSUME NEW c \in Clients
  PROVE  WalletOf[c] \in Recipients
  BY DEF Recipients

LEMMA TypeLoads ==
  ASSUME TypeInv, NEW c \in Clients, NEW p \in Promises,
         \/ Load(c, p) \/ ReplaceKey(c, p)
         \/ RequestFails(c) \/ Close(c) \/ (\E r \in Recipients : LoseKey(r))
  PROVE  TypeInv'
<1>1. /\ keys' = keys /\ UNCHANGED <<chainVars, runVars, job, answered>>
  BY DEF Load, ReplaceKey, RequestFails, Close, LoseKey, keyVars
<1>2. LogTypes' /\ RunTypes' /\ JobTypes'
  BY <1>1, TypeKept, Lengths DEF runVars
<1>3. "ask" \in Promises /\ {NoLoad, Missing, Joined} \subseteq Loads(Len(keys))
  BY DEF Promises, Loads
<1>4. KeyTypes'
  <2>1. CASE Load(c, p)
    <3>1. ReadStore(WalletOf[c]) \in Loads(Len(keys))
      <4>1. stored[WalletOf[c]] \in 0..Len(keys)
        BY Wallet DEF TypeInv, KeyTypes
      <4> QED
        BY <4>1, Lengths DEF ReadStore, Loads
    <3>2. load' \in [Clients -> [Promises -> Loads(Len(keys))]]
      BY <2>1, <3>1, <1>3 DEF Load, TypeInv, KeyTypes
    <3> QED
      BY <2>1, <3>2 DEF Load, keyVars, TypeInv, KeyTypes
  <2>2. CASE ReplaceKey(c, p)
    <3>1. losses' \in [Recipients -> 0..MaxLosses]
      BY <2>2, Wallet, DocAssumption DEF ReplaceKey, TypeInv, KeyTypes
    <3>2. load' \in [Clients -> [Promises -> Loads(Len(keys))]]
      BY <2>2, <1>3 DEF ReplaceKey, TypeInv, KeyTypes
    <3> QED
      BY <2>2, <3>1, <3>2 DEF ReplaceKey, TypeInv, KeyTypes
  <2>3. CASE RequestFails(c)
    <3>1. load' \in [Clients -> [Promises -> Loads(Len(keys))]]
      BY <2>3, <1>3 DEF RequestFails, TypeInv, KeyTypes
    <3> QED
      BY <2>3, <3>1 DEF RequestFails, keyVars, TypeInv, KeyTypes
  <2>4. CASE Close(c)
    <3>1. load' \in [Clients -> [Promises -> Loads(Len(keys))]]
      BY <2>4, <1>3 DEF Close, TypeInv, KeyTypes
    <3> QED
      BY <2>4, <3>1 DEF Close, keyVars, TypeInv, KeyTypes
  <2>5. CASE \E r \in Recipients : LoseKey(r)
    <3>1. PICK r \in Recipients : LoseKey(r)
      BY <2>5
    <3>2. losses' \in [Recipients -> 0..MaxLosses] /\ stored' \in [Recipients -> 0..Len(keys)]
      BY <3>1, DocAssumption, Lengths DEF LoseKey, TypeInv, KeyTypes
    <3> QED
      BY <3>1, <3>2 DEF LoseKey, TypeInv, KeyTypes
  <2> QED
    BY <2>1, <2>2, <2>3, <2>4, <2>5
<1> QED
  BY <1>2, <1>4 DEF TypeInv

\* A new key is the last of `keys'.
LEMMA KeyMade ==
  ASSUME TypeInv, NEW c \in Clients, NEW p \in Promises, CreateKey(c, p)
  PROVE  /\ keys' \in Seq(KeyRecord)
         /\ Len(keys') = Len(keys) + 1
         /\ \A k \in 1..Len(keys) : keys'[k] = keys[k]
         /\ keys'[Len(keys) + 1] = [owner |-> WalletOf[c], gen |-> losses[WalletOf[c]]]
<1> DEFINE new == [owner |-> WalletOf[c], gen |-> losses[WalletOf[c]]]
<1>1. new \in KeyRecord
  BY Wallet DEF TypeInv, KeyTypes, KeyRecord
<1>2. keys' = Append(keys, new) /\ keys \in Seq(KeyRecord)
  BY DEF CreateKey, TypeInv, KeyTypes
<1> HIDE DEF new
<1>3. /\ keys' \in Seq(KeyRecord) /\ Len(keys') = Len(keys) + 1
      /\ \A k \in 1..Len(keys) : keys'[k] = keys[k]
      /\ keys'[Len(keys) + 1] = new
  BY <1>1, <1>2, AppendProperties
<1> QED
  BY <1>3 DEF new

LEMMA TypeCreate ==
  ASSUME TypeInv, NEW c \in Clients, NEW p \in Promises, CreateKey(c, p)
  PROVE  TypeInv'
<1>1. /\ keys' \in Seq(KeyRecord) /\ Len(keys') = Len(keys) + 1 /\ Len(keys) \in Nat
      /\ Len(made) \in Nat /\ UNCHANGED <<chainVars, runVars, job, answered, losses>>
  BY KeyMade, Lengths DEF CreateKey
<1>2. LogTypes' /\ RunTypes' /\ JobTypes'
  BY <1>1, TypeKept DEF runVars
<1>3. stored' \in [Recipients -> 0..Len(keys')]
  <2>1. stored' = [stored EXCEPT ![WalletOf[c]] = Len(keys) + 1]
    BY DEF CreateKey
  <2>2. 0..Len(keys) \subseteq 0..Len(keys') /\ Len(keys) + 1 \in 0..Len(keys')
    BY <1>1
  <2>3. stored \in [Recipients -> 0..Len(keys')]
    BY <2>2 DEF TypeInv, KeyTypes
  <2> QED
    BY <2>1, <2>2, <2>3
<1>4. load' \in [Clients -> [Promises -> Loads(Len(keys'))]]
  <2>1. Loads(Len(keys)) \subseteq Loads(Len(keys')) /\ Ready(Len(keys) + 1) \in Loads(Len(keys'))
    BY <1>1, Grows DEF Loads
  <2>2. load' = [load EXCEPT ![c][p] = Ready(Len(keys) + 1)]
    BY DEF CreateKey
  <2> QED
    BY <2>1, <2>2 DEF TypeInv, KeyTypes
<1>5. KeyTypes'
  BY <1>1, <1>3, <1>4 DEF KeyTypes, TypeInv
<1> QED
  BY <1>2, <1>5 DEF TypeInv

-----------------------------------------------------------------------------
(* Newest events, and the slots of a batch in some order.                  *)

Less == {x \in Nat \X Nat : x[1] < x[2]}

LEMMA LessRelation == OpToRel(<, Nat) = Less
BY Zenon DEF OpToRel, Less

LEMMA Greatest ==
  ASSUME NEW n \in Nat, NEW I \in SUBSET (1..n), I # {}
  PROVE  Newest(I) \in I /\ \A j \in I : j <= Newest(I)
<1> DEFINE S == {n - i : i \in I}
<1>1. S \in SUBSET Nat /\ S # {}
  <2>1. \A i \in I : i \in 1..n
    OBVIOUS
  <2>2. \A i \in 1..n : n - i \in Nat
    OBVIOUS
  <2> QED
    BY <2>1, <2>2
<1>2. IsWellFoundedOn(OpToRel(<, Nat), Nat)
  BY NatLessThanWellFounded
<1>3. IsWellFoundedOn(Less, Nat)
  BY <1>2, LessRelation
<1>4. PICK b \in S : \A c \in S : ~ (<<c, b>> \in Less)
  BY <1>1, <1>3, WFMin
<1>5. PICK i \in I : b = n - i
  BY <1>4
<1>6. ASSUME NEW j \in I PROVE j <= i
  <2>1. n - j \in Nat /\ n - i \in Nat /\ <<n - j, b>> \in Nat \X Nat
    BY <1>5
  <2>2. ~ (<<n - j, b>>[1] < <<n - j, b>>[2])
    BY <1>4, <2>1 DEF Less
  <2> QED
    BY <1>5, <2>1, <2>2
<1> QED
  BY <1>6 DEF Newest

LEMMA Enumerated ==
  ASSUME NEW D \in SUBSET Slots
  PROVE  /\ Cardinality(D) \in Nat
         /\ SetToSeq(D) \in [1..Cardinality(D) -> D]
         /\ \A s \in D : \E i \in 1..Cardinality(D) : SetToSeq(D)[i] = s
<1>1. IsFiniteSet(D)
  BY DocAssumption, FS_Subset
<1>2. Cardinality(D) \in Nat /\ ExistsBijection(1..Cardinality(D), D)
  BY <1>1, FS_CardinalityType
<1>3. PICK g \in [1..Cardinality(D) -> D] : IsInjective(g)
  BY <1>2 DEF ExistsBijection, Bijection, Injection
<1>4. SetToSeq(D) \in [1..Cardinality(D) -> D] /\ IsInjective(SetToSeq(D))
  BY <1>3 DEF SetToSeq
<1>5. SetToSeq(D) \in Injection(1..Cardinality(D), D)
  BY <1>4 DEF Injection
<1>6. IsFiniteSet(1..Cardinality(D)) /\ Cardinality(1..Cardinality(D)) = Cardinality(D)
  BY <1>2, FS_Interval
<1>7. SetToSeq(D) \in Surjection(1..Cardinality(D), D)
  BY <1>1, <1>5, <1>6, FS_Injection
<1> QED
  BY <1>2, <1>4, <1>7 DEF Surjection

-----------------------------------------------------------------------------
(* Events and runs stay typed.                                             *)

\* The key that a recipient asked for last is a key.
LEMMA AskedKey ==
  ASSUME TypeInv, NEW r \in Recipients, RequestsOf(r) # {}
  PROVE  RequestedKey(r) \in 1..Len(keys)
<1>1. RequestsOf(r) \in SUBSET (1..Len(log)) /\ Len(log) \in Nat
  BY Lengths DEF RequestsOf, At
<1>2. Newest(RequestsOf(r)) \in RequestsOf(r)
  BY <1>1, Greatest
<1>3. PICK i \in 1..Len(log) : i = Newest(RequestsOf(r)) /\ log[i].kind = "requested"
  BY <1>2 DEF RequestsOf, At
<1>4. log[i] \in EventOf(Len(keys), Len(made))
  BY <1>3, Lengths
<1>5. log[i].key \in 1..Len(keys)
  BY <1>3, <1>4 DEF EventOf
<1> QED
  BY <1>3, <1>5 DEF RequestedKey

\* A step that appends one event.
LEMMA Logged ==
  ASSUME TypeInv, NEW e \in EventOf(Len(keys), Len(made)), log' = Append(log, e)
  PROVE  /\ log' \in Seq(EventOf(Len(keys), Len(made)))
         /\ Len(log') = Len(log) + 1
         /\ \A i \in 1..Len(log) : log'[i] = log[i]
         /\ log'[Len(log) + 1] = e
<1>1. log \in Seq(EventOf(Len(keys), Len(made)))
  BY DEF TypeInv, LogTypes
<1> QED
  BY <1>1, AppendProperties

LEMMA Asking ==
  ASSUME TypeInv, NEW c \in Clients, Request(c)
  PROVE  /\ Awaited(c, "ask").key \in 1..Len(keys)
         /\ Requested(WalletOf[c], Awaited(c, "ask").key) \in EventOf(Len(keys), Len(made))
<1>1. "ask" \in Promises
  BY DEF Promises
<1>2. Awaited(c, "ask").key \in 1..Len(keys)
  BY <1>1, Promised DEF Request
<1> QED
  BY <1>2, Wallet DEF Requested, EventOf

LEMMA TypeEvents ==
  ASSUME TypeInv,
         \/ \E c \in Clients : Request(c)
         \/ \E a \in Authors : Publish(a)
  PROVE  TypeInv'
<1>1. CASE \E c \in Clients : Request(c)
  <2>1. PICK c \in Clients : Request(c)
    BY <1>1
  <2>2. UNCHANGED <<author, keyVars, runVars, job, answered>>
    BY <2>1 DEF Request
  <2>3. RunTypes' /\ JobTypes'
    BY <2>2, TypeKept, Lengths DEF runVars, keyVars
  <2>4. LogTypes'
    <3>1. log' \in Seq(EventOf(Len(keys), Len(made)))
      BY <2>1, Logged, Asking DEF Request
    <3> QED
      BY <2>2, <3>1 DEF LogTypes, TypeInv, keyVars, runVars
  <2>5. KeyTypes'
    <3>1. load' \in [Clients -> [Promises -> Loads(Len(keys))]]
      BY <2>1 DEF Request, TypeInv, KeyTypes, Loads
    <3> QED
      BY <2>2, <3>1 DEF KeyTypes, TypeInv, keyVars
  <2> QED
    BY <2>3, <2>4, <2>5 DEF TypeInv
<1>2. CASE \E a \in Authors : Publish(a)
  <2>1. PICK a \in Authors : Publish(a)
    BY <1>2
  <2>2. UNCHANGED <<keyVars, load, runVars, job, answered>>
    BY <2>1 DEF Publish
  <2>3. KeyTypes' /\ RunTypes' /\ JobTypes'
    BY <2>2, TypeKept, Lengths DEF runVars, keyVars
  <2>4. Published(a) \in EventOf(Len(keys), Len(made))
    BY DEF Published, EventOf
  <2>5. log' \in Seq(EventOf(Len(keys), Len(made)))
    BY <2>1, <2>4, Logged DEF Publish
  <2>6. LogTypes'
    BY <2>1, <2>2, <2>5 DEF LogTypes, Publish, keyVars, runVars
  <2> QED
    BY <2>3, <2>6 DEF TypeInv
<1> QED
  BY <1>1, <1>2

\* What a run does to the archive of its author.
LEMMA ArchivedIs ==
  ASSUME NEW a \in Authors, archive[a] \in Seq(Nat), session[a] \in Nat, session[a] # 0,
         Len(archive[a]) <= RunCap
  PROVE  /\ Archived(a) \in Seq(Nat)
         /\ Len(Archived(a)) = IF Len(archive[a]) < RunCap THEN Len(archive[a]) + 1 ELSE RunCap
         /\ Archived(a)[1] = session[a]
         /\ \A i \in 2..Len(Archived(a)) : Archived(a)[i] = archive[a][i - 1]
<1> DEFINE all == <<session[a]>> \o archive[a]
           cap == IF Len(all) < RunCap THEN Len(all) ELSE RunCap
<1>1. <<session[a]>> \in Seq(Nat) /\ Len(<<session[a]>>) = 1 /\ <<session[a]>>[1] = session[a]
  OBVIOUS
<1>2. /\ all \in Seq(Nat) /\ Len(all) = 1 + Len(archive[a])
      /\ \A i \in 1..1 + Len(archive[a]) :
           all[i] = IF i <= 1 THEN <<session[a]>>[i] ELSE archive[a][i - 1]
  BY <1>1, ConcatProperties
<1>3. Archived(a) = SubSeq(all, 1, cap)
  BY DEF Archived
<1>4. Len(archive[a]) \in Nat /\ RunCap \in Nat \ {0}
  BY DocAssumption
<1> HIDE DEF all
<1>5. cap \in Nat /\ 1 <= cap /\ cap <= Len(all)
  BY <1>2, <1>4
<1>6. \A i \in 1..cap : all[i] \in Nat
  BY <1>2, <1>5, ElementOfSeq
<1>7. cap = IF Len(archive[a]) < RunCap THEN Len(archive[a]) + 1 ELSE RunCap
  BY <1>2, <1>4
<1> HIDE DEF cap
<1>8. /\ SubSeq(all, 1, cap) \in Seq(Nat) /\ Len(SubSeq(all, 1, cap)) = cap
      /\ \A i \in 1..cap : SubSeq(all, 1, cap)[i] = all[i]
  BY <1>5, <1>6, SubSeqProperties
<1>9. /\ Archived(a) \in Seq(Nat) /\ Len(Archived(a)) = cap
      /\ \A i \in 1..cap : Archived(a)[i] = all[i]
  BY <1>3, <1>8
<1>10. all[1] = session[a]
  BY <1>1, <1>2, <1>4
<1>11. ASSUME NEW i \in 2..cap PROVE Archived(a)[i] = archive[a][i - 1]
  <2>1. i \in 1..cap /\ i \in 1..1 + Len(archive[a]) /\ ~ (i <= 1)
    BY <1>2, <1>4, <1>5
  <2> QED
    BY <1>2, <1>9, <2>1
<1> QED
  BY <1>5, <1>7, <1>9, <1>10, <1>11

\* The runs and the sessions after one more run.
LEMMA Ran ==
  ASSUME TypeInv, NEW a \in Authors, Redact(a)
  PROVE  LET n == Len(made) + 1 IN
         /\ made' \in Seq(Authors) /\ Len(made') = n
         /\ RunsBy(a)' = RunsBy(a) \cup {n}
         /\ \A b \in Authors \ {a} : RunsBy(b)' = RunsBy(b)
         /\ session' = [session EXCEPT ![a] = n]
         /\ archive' = [archive EXCEPT ![a] = Archived(a)]
<1> DEFINE n == Len(made) + 1
<1>1. /\ made' = Append(made, a) /\ made \in Seq(Authors) /\ Len(made) \in Nat
      /\ session' = [session EXCEPT ![a] = n]
      /\ archive' = [archive EXCEPT ![a] = Archived(a)]
  BY Lengths DEF Redact, TypeInv, RunTypes
<1>2. /\ made' \in Seq(Authors) /\ Len(made') = n /\ made'[n] = a
      /\ \A m \in 1..Len(made) : made'[m] = made[m]
  BY <1>1, AppendProperties
<1>3. 1..n = (1..Len(made)) \cup {n} /\ n \notin 1..Len(made)
  BY <1>1
<1> HIDE DEF n
<1>4. RunsBy(a)' = RunsBy(a) \cup {n}
  BY <1>2, <1>3 DEF RunsBy
<1>5. \A b \in Authors \ {a} : RunsBy(b)' = RunsBy(b)
  BY <1>2, <1>3 DEF RunsBy
<1> QED
  BY <1>1, <1>2, <1>4, <1>5 DEF n

LEMMA KeptRedact ==
  ASSUME TypeInv, NEW a \in Authors, Redact(a)
  PROVE  Kept(a)'
<1>1. PICK n \in Nat : n = Len(made) + 1 /\ n # 0
  BY Lengths
<1>2. /\ RunsBy(a)' = RunsBy(a) \cup {n} /\ session'[a] = n /\ archive'[a] = Archived(a)
  BY <1>1, Ran DEF TypeInv, RunTypes
<1>3. /\ RunsBy(a) \in SUBSET Nat /\ (\A m \in RunsBy(a) : m < n)
      /\ archive[a] \in Seq(Nat) /\ Len(archive[a]) \in Nat
      /\ session[a] \in Nat /\ session[a] < n
      /\ Kept(a) /\ RunCap \in Nat \ {0}
  BY <1>1, Lengths, DocAssumption DEF TypeInv, RunTypes, RunsBy
<1>4. CASE session[a] = 0
  <2>1. RunsBy(a)' = {n} /\ archive'[a] = <<>>
    BY <1>2, <1>3, <1>4 DEF Kept, Archived
  <2> QED
    BY <1>1, <1>2, <1>3, <2>1 DEF Kept, HeldRuns
<1>5. CASE session[a] # 0
  <2>1. PICK new \in Seq(Nat) : new = Archived(a)
    BY <1>3, <1>5, ArchivedIs DEF Kept
  <2>2. /\ Len(new) = IF Len(archive[a]) < RunCap THEN Len(archive[a]) + 1 ELSE RunCap
        /\ new[1] = session[a]
        /\ \A i \in 2..Len(new) : new[i] = archive[a][i - 1]
    BY <1>3, <1>5, <2>1, ArchivedIs DEF Kept
  <2>3. Len(new) \in Nat /\ 1 <= Len(new) /\ Len(new) <= RunCap /\ Len(new) <= Len(archive[a]) + 1
    BY <1>3, <2>2
  <2>4. ASSUME NEW i \in 1..Len(new)
        PROVE  new[i] \in RunsBy(a) /\ new[i] < n
    <3>1. CASE i = 1
      BY <1>3, <1>5, <2>2, <3>1 DEF Kept
    <3>2. CASE i # 1
      <4>1. i \in 2..Len(new) /\ i - 1 \in 1..Len(archive[a])
        BY <1>3, <2>3, <3>2
      <4> QED
        BY <1>3, <2>2, <4>1 DEF Kept
    <3> QED
      BY <3>1, <3>2
  <2>5. ASSUME NEW i \in 1..Len(new), NEW j \in 1..Len(new), i < j
        PROVE  new[j] < new[i]
    <3>1. j \in 2..Len(new) /\ j - 1 \in 1..Len(archive[a]) /\ new[j] = archive[a][j - 1]
      BY <1>3, <2>2, <2>3, <2>5
    <3>2. CASE i = 1
      BY <1>3, <2>2, <3>1, <3>2 DEF Kept
    <3>3. CASE i # 1
      <4>1. i \in 2..Len(new) /\ i - 1 \in 1..Len(archive[a]) /\ i - 1 < j - 1
        BY <1>3, <2>3, <2>5, <3>3
      <4>2. new[i] = archive[a][i - 1]
        BY <2>2, <4>1
      <4> QED
        BY <1>3, <3>1, <4>1, <4>2 DEF Kept
    <3> QED
      BY <3>2, <3>3
  <2>6. ASSUME NEW m \in RunsBy(a)
        PROVE  \/ \E i \in 1..Len(new) : new[i] = m
               \/ Len(new) = RunCap /\ \A i \in 1..Len(new) : m < new[i]
    <3>1. CASE m = session[a]
      <4>1. 1 \in 1..Len(new) /\ new[1] = m
        BY <2>2, <2>3, <3>1
      <4> QED
        BY <4>1
    <3>2. CASE \E i \in 1..Len(archive[a]) : archive[a][i] = m
      <4>1. PICK i \in 1..Len(archive[a]) : archive[a][i] = m
        BY <3>2
      <4>2. CASE i + 1 <= Len(new)
        <5>1. i + 1 \in 2..Len(new) /\ i + 1 \in 1..Len(new) /\ (i + 1) - 1 = i
          BY <1>3, <2>3, <4>2
        <5>2. new[i + 1] = m
          BY <2>2, <4>1, <5>1
        <5> QED
          BY <5>1, <5>2
      <4>3. CASE ~ (i + 1 <= Len(new))
        <5>1. i = RunCap /\ Len(new) = RunCap /\ Len(archive[a]) = RunCap
          BY <1>3, <2>2, <2>3, <4>3 DEF Kept
        <5>2. ASSUME NEW j \in 1..Len(new) PROVE m < new[j]
          <6>1. CASE j = 1
            BY <1>3, <2>2, <4>1, <6>1 DEF Kept
          <6>2. CASE j # 1
            <7>1. /\ j \in 2..Len(new) /\ j - 1 \in 1..Len(archive[a]) /\ j - 1 < i
              BY <1>3, <2>3, <5>1, <6>2
            <7> QED
              BY <1>3, <2>2, <4>1, <7>1 DEF Kept
          <6> QED
            BY <6>1, <6>2
        <5> QED
          BY <5>1, <5>2
      <4> QED
        BY <4>2, <4>3
    <3>3. CASE m # session[a] /\ ~ \E i \in 1..Len(archive[a]) : archive[a][i] = m
      <4>1. DOMAIN archive[a] = 1..Len(archive[a])
        BY <1>3, LenProperties
      <4>2. m \notin HeldRuns(a)
        BY <3>3, <4>1 DEF HeldRuns, Range
      <4>3. Len(archive[a]) = RunCap /\ \A i \in 1..Len(archive[a]) : m < archive[a][i]
        BY <1>3, <4>2 DEF Kept
      <4>4. m < session[a]
        BY <1>3, <3>3 DEF Kept
      <4>5. ASSUME NEW j \in 1..Len(new) PROVE m < new[j]
        <5>1. CASE j = 1
          BY <2>2, <4>4, <5>1
        <5>2. CASE j # 1
          <6>1. j \in 2..Len(new) /\ j - 1 \in 1..Len(archive[a])
            BY <1>3, <2>3, <5>2
          <6> QED
            BY <2>2, <4>3, <6>1
        <5> QED
          BY <5>1, <5>2
      <4> QED
        BY <1>3, <2>2, <4>3, <4>5
    <3> QED
      BY <3>1, <3>2, <3>3
  <2>7. DOMAIN new = 1..Len(new) /\ archive'[a] = new
    BY <1>2, <2>1, LenProperties
  <2>8. HeldRuns(a)' = {n} \cup {new[i] : i \in 1..Len(new)}
    BY <1>1, <1>2, <2>7 DEF HeldRuns, Range
  <2>9. ASSUME NEW m \in RunsBy(a)'
        PROVE  \/ m \in HeldRuns(a)'
               \/ Len(new) = RunCap /\ \A i \in 1..Len(new) : m < new[i]
    BY <1>2, <2>6, <2>8
  <2>10. session'[a] # 0 /\ session'[a] \in RunsBy(a)' /\ \A m \in RunsBy(a)' : m <= session'[a]
    BY <1>1, <1>2, <1>3
  <2>11. \A i \in 1..Len(new) : new[i] \in RunsBy(a)' /\ new[i] < session'[a]
    BY <1>2, <2>4
  <2> QED
    BY <2>3, <2>5, <2>7, <2>9, <2>10, <2>11 DEF Kept
<1> QED
  BY <1>4, <1>5

LEMMA TypeRedact ==
  ASSUME TypeInv, NEW a \in Authors, Redact(a)
  PROVE  TypeInv'
<1>1. /\ made' \in Seq(Authors) /\ Len(made') = Len(made) + 1 /\ Len(made) \in Nat
      /\ Len(keys) \in Nat /\ UNCHANGED <<chainVars, keyVars, load, job, answered>>
  BY Ran, Lengths DEF Redact
<1>2. KeyTypes' /\ LogTypes' /\ JobTypes'
  BY <1>1, TypeKept DEF keyVars
<1>3. session' \in [Authors -> 0..Len(made')]
  <2>1. 0..Len(made) \subseteq 0..Len(made') /\ Len(made) + 1 \in 0..Len(made')
    BY <1>1
  <2>2. session \in [Authors -> 0..Len(made')]
    BY <2>1 DEF TypeInv, RunTypes
  <2> QED
    BY <2>1, <2>2, Ran
<1>4. archive' \in [Authors -> Seq(Nat)]
  <2>1. Archived(a) \in Seq(Nat)
    <3>1. archive[a] \in Seq(Nat) /\ session[a] \in Nat /\ Len(archive[a]) <= RunCap
      BY Lengths DEF TypeInv, RunTypes, Kept
    <3>2. CASE session[a] = 0
      BY <3>1, <3>2 DEF Archived
    <3>3. CASE session[a] # 0
      BY <3>1, <3>3, ArchivedIs
    <3> QED
      BY <3>2, <3>3
  <2> QED
    BY <2>1, Ran DEF TypeInv, RunTypes
<1>5. ASSUME NEW b \in Authors PROVE Kept(b)'
  <2>1. CASE b = a
    BY <2>1, KeptRedact
  <2>2. CASE b # a
    <3>1. RunsBy(b)' = RunsBy(b) /\ session'[b] = session[b] /\ archive'[b] = archive[b] /\ Kept(b)
      BY <2>2, Ran DEF TypeInv, RunTypes
    <3> QED
      BY <3>1 DEF Kept, HeldRuns
  <2> QED
    BY <2>1, <2>2
<1> QED
  BY <1>1, <1>2, <1>3, <1>4, <1>5 DEF TypeInv, RunTypes

-----------------------------------------------------------------------------
(* Jobs and deliveries stay typed.                                         *)

LEMMA HeldAreRuns ==
  ASSUME TypeInv, NEW a \in Authors
  PROVE  /\ HeldRuns(a) \subseteq RunsBy(a)
         /\ HeldRuns(a) \subseteq 1..Len(made)
<1>1. Kept(a) /\ DOMAIN archive[a] = 1..Len(archive[a])
  BY LenProperties DEF TypeInv, RunTypes
<1> QED
  BY <1>1 DEF HeldRuns, Kept, Range, RunsBy

LEMMA Jobs ==
  ASSUME TypeInv, NEW a \in Authors
  PROVE  /\ NoJob.left = NoJob.slots
         /\ job[a] # NoJob => job[a] \in JobOf(Len(keys), Len(made))
         /\ job[a].left # {} => job[a] # NoJob
         /\ job[a].left \subseteq job[a].slots
  BY DEF TypeInv, JobTypes, NoJob, JobOf

LEMMA Wrapped ==
  ASSUME NEW k \in Nat, NEW n \in Nat, NEW r \in Recipients, NEW key \in 1..k, NEW run \in 1..n,
         NEW S \in SUBSET Slots, S # {}
  PROVE  Wrap(r, key, run, S) \in JobOf(k, n)
  BY DEF Wrap, JobOf

LEMMA TypeJobs ==
  ASSUME TypeInv, NEW a \in Authors,
         \/ \E r \in Recipients : GrantToRequest(a, r) \/ GrantToPastedKey(a, r)
         \/ Resign(a) \/ GiveUp(a)
  PROVE  TypeInv'
<1>1. /\ UNCHANGED <<chainVars, keyVars, load, runVars, answered>>
      /\ Len(keys) \in Nat /\ Len(made) \in Nat
  BY Lengths DEF GrantToRequest, GrantToPastedKey, Resign, GiveUp
<1>2. KeyTypes' /\ RunTypes' /\ LogTypes'
  BY <1>1, TypeKept DEF keyVars, runVars
<1>3. job' \in [Authors -> {NoJob} \cup JobOf(Len(keys), Len(made))]
  <2>1. job \in [Authors -> {NoJob} \cup JobOf(Len(keys), Len(made))]
    BY DEF TypeInv, JobTypes
  <2>2. ASSUME NEW r \in Recipients, GrantToRequest(a, r) PROVE <1>3
    <3>1. PICK n \in HeldRuns(a), S \in (SUBSET Slots) \ {{}} :
             job' = [job EXCEPT ![a] = Wrap(r, RequestedKey(r), n, S)]
      BY <2>2 DEF GrantToRequest
    <3>2. Wrap(r, RequestedKey(r), n, S) \in JobOf(Len(keys), Len(made))
      BY <1>1, <2>2, HeldAreRuns, AskedKey, Wrapped DEF GrantToRequest
    <3> QED
      BY <2>1, <3>1, <3>2
  <2>3. ASSUME NEW r \in Recipients, GrantToPastedKey(a, r) PROVE <1>3
    <3>1. PICK k \in 1..Len(keys), n \in HeldRuns(a), S \in (SUBSET Slots) \ {{}} :
             job' = [job EXCEPT ![a] = Wrap(r, k, n, S)]
      BY <2>3 DEF GrantToPastedKey
    <3>2. Wrap(r, k, n, S) \in JobOf(Len(keys), Len(made))
      BY <1>1, HeldAreRuns, Wrapped
    <3> QED
      BY <2>1, <3>1, <3>2
  <2>4. CASE Resign(a)
    <3>1. job[a] \in JobOf(Len(keys), Len(made))
      BY <2>4, Jobs DEF Resign
    <3>2. PICK j \in JobOf(Len(keys), Len(made)) : j = [job[a] EXCEPT !.left = job[a].slots]
      BY <3>1 DEF JobOf
    <3>3. job' = [job EXCEPT ![a] = j]
      BY <2>4, <3>2 DEF Resign
    <3> QED
      BY <2>1, <3>3
  <2>5. CASE GiveUp(a)
    BY <2>1, <2>5 DEF GiveUp
  <2> QED
    BY <2>2, <2>3, <2>4, <2>5
<1>4. JobTypes'
  BY <1>1, <1>3 DEF TypeInv, JobTypes, keyVars, runVars
<1> QED
  BY <1>2, <1>4 DEF TypeInv

\* The events of one transaction: the slots of D in some order.
LEMMA Delivery ==
  ASSUME TypeInv, NEW a \in Authors, NEW D \in SUBSET Slots, Deliver(a, D),
         NEW j \in JobOf(Len(keys), Len(made)), j = job[a]
  PROVE  /\ Cardinality(D) \in Nat
         /\ log' \in Seq(EventOf(Len(keys), Len(made)))
         /\ Len(log') = Len(log) + Cardinality(D)
         /\ \A i \in 1..Len(log) : log'[i] = log[i]
         /\ \A i \in Len(log) + 1..Len(log') :
              \E s \in D : log'[i] = Granted(a, j.to, s, j.key, j.run)
         /\ \A s \in D : \E i \in Len(log) + 1..Len(log') :
              log'[i] = Granted(a, j.to, s, j.key, j.run)
<1> DEFINE E(i) == Granted(a, j.to, SetToSeq(D)[i], j.key, j.run)
           All  == EventOf(Len(keys), Len(made))
<1>1. PICK n \in Nat : n = Cardinality(D)
  BY Enumerated
<1>2. /\ SetToSeq(D) \in [1..n -> D]
      /\ \A s \in D : \E i \in 1..n : SetToSeq(D)[i] = s
  BY <1>1, Enumerated
<1>3. \A s \in D : Granted(a, j.to, s, j.key, j.run) \in All
  BY DEF Granted, EventOf, JobOf
<1>4. \A i \in 1..n : E(i) \in All
  BY <1>2, <1>3
<1>5. log' = log \o [i \in 1..n |-> E(i)]
  BY <1>1 DEF Deliver
<1> DEFINE new == [i \in 1..n |-> E(i)]
<1>6. log \in Seq(All) /\ Len(log) \in Nat
  BY Lengths DEF TypeInv, LogTypes
<1> HIDE DEF E, All
<1>7. new \in Seq(All) /\ Len(new) = n /\ \A i \in 1..n : new[i] = E(i)
  BY <1>4
<1> HIDE DEF new
<1>8. /\ log' \in Seq(All) /\ Len(log') = Len(log) + n
      /\ \A i \in 1..Len(log) + n : log'[i] = IF i <= Len(log) THEN log[i] ELSE new[i - Len(log)]
  BY <1>5, <1>6, <1>7, ConcatProperties DEF new
<1>9. \A i \in 1..Len(log) : log'[i] = log[i]
  BY <1>6, <1>8
<1>10. \A i \in 1..n : i + Len(log) \in Len(log) + 1..Len(log') /\ log'[i + Len(log)] = E(i)
  <2> TAKE i \in 1..n
  <2>1. /\ i + Len(log) \in Len(log) + 1..Len(log') /\ i + Len(log) \in 1..Len(log) + n
        /\ ~ (i + Len(log) <= Len(log)) /\ (i + Len(log)) - Len(log) = i
    BY <1>6, <1>8
  <2> QED
    BY <1>7, <1>8, <2>1
<1>11. ASSUME NEW i \in Len(log) + 1..Len(log')
       PROVE  \E s \in D : log'[i] = Granted(a, j.to, s, j.key, j.run)
  <2>1. PICK m \in 1..n : i = m + Len(log)
    <3>1. i - Len(log) \in 1..n /\ i = (i - Len(log)) + Len(log)
      BY <1>6, <1>8
    <3> QED
      BY <3>1
  <2>2. log'[i] = E(m) /\ SetToSeq(D)[m] \in D
    BY <1>2, <1>10, <2>1
  <2> QED
    BY <2>2 DEF E
<1>12. ASSUME NEW s \in D
       PROVE  \E i \in Len(log) + 1..Len(log') : log'[i] = Granted(a, j.to, s, j.key, j.run)
  <2>1. PICK m \in 1..n : SetToSeq(D)[m] = s
    BY <1>2
  <2>2. m + Len(log) \in Len(log) + 1..Len(log') /\ log'[m + Len(log)] = E(m)
    BY <1>10
  <2> QED
    BY <2>1, <2>2 DEF E
<1> QED
  BY <1>1, <1>8, <1>9, <1>11, <1>12 DEF All

\* What DeliverBatch and DeliverSlot deliver is left of a job.
LEMMA Delivers ==
  ASSUME TypeInv, NEW a \in Authors, DeliverBatch(a) \/ DeliverSlot(a)
  PROVE  \E D \in SUBSET Slots :
            /\ Deliver(a, D) /\ D # {} /\ D \subseteq job[a].left
            /\ job[a] \in JobOf(Len(keys), Len(made))
<1>1. job[a].left # {} => job[a] \in JobOf(Len(keys), Len(made))
  BY Jobs
<1>2. CASE DeliverBatch(a)
  <2>1. /\ Deliver(a, job[a].slots) /\ job[a].left = job[a].slots
        /\ job[a] \in JobOf(Len(keys), Len(made))
    BY <1>2, Jobs DEF DeliverBatch
  <2> QED
    BY <2>1 DEF JobOf
<1>3. CASE DeliverSlot(a)
  <2>1. PICK s \in job[a].left : Deliver(a, {s})
    BY <1>3 DEF DeliverSlot
  <2>2. job[a] \in JobOf(Len(keys), Len(made))
    BY <1>1
  <2>3. {s} \in SUBSET Slots /\ {s} # {} /\ {s} \subseteq job[a].left
    BY <2>2 DEF JobOf
  <2> QED
    BY <2>1, <2>2, <2>3
<1> QED
  BY <1>2, <1>3

LEMMA TypeDeliver ==
  ASSUME TypeInv, NEW a \in Authors, DeliverBatch(a) \/ DeliverSlot(a)
  PROVE  TypeInv'
<1>1. PICK D \in SUBSET Slots :
         /\ Deliver(a, D) /\ D # {} /\ D \subseteq job[a].left
         /\ job[a] \in JobOf(Len(keys), Len(made))
  BY Delivers
<1>2. PICK j \in JobOf(Len(keys), Len(made)) : j = job[a]
  BY <1>1
<1>3. /\ UNCHANGED <<author, keyVars, load, runVars>> /\ Len(keys) \in Nat /\ Len(made) \in Nat
      /\ log' \in Seq(EventOf(Len(keys), Len(made)))
  BY <1>1, <1>2, Delivery, Lengths DEF Deliver
<1>4. KeyTypes' /\ RunTypes'
  BY <1>3, TypeKept DEF keyVars, runVars
<1>5. LogTypes'
  BY <1>3 DEF TypeInv, LogTypes, keyVars, runVars
<1>6. job' \in [Authors -> {NoJob} \cup JobOf(Len(keys), Len(made))]
  <2>1. job' = [job EXCEPT ![a] = IF D = j.left THEN NoJob ELSE [j EXCEPT !.left = @ \ D]]
    BY <1>1, <1>2 DEF Deliver
  <2>2. CASE D = j.left
    BY <2>1, <2>2 DEF TypeInv, JobTypes
  <2>3. CASE D # j.left
    <3>1. PICK i \in JobOf(Len(keys), Len(made)) : i = [j EXCEPT !.left = @ \ D]
      BY <1>1, <1>2, <2>3 DEF JobOf
    <3> QED
      BY <2>1, <2>3, <3>1 DEF TypeInv, JobTypes
  <2> QED
    BY <2>2, <2>3
<1>7. answered' \in [Recipients -> [key : Nat, run : Nat, slots : SUBSET Slots]]
  <2>1. j.to \in Recipients /\ j.key \in Nat /\ j.run \in Nat /\ j.slots \in SUBSET Slots
    BY <1>3 DEF JobOf
  <2>2. answered' = [answered EXCEPT ![j.to] =
                        IF D = j.left THEN [key |-> j.key, run |-> j.run, slots |-> j.slots]
                        ELSE NoAnswer]
    BY <1>1, <1>2 DEF Deliver
  <2> QED
    BY <2>1, <2>2 DEF TypeInv, JobTypes, NoAnswer
<1>8. JobTypes'
  BY <1>3, <1>6, <1>7 DEF JobTypes, keyVars, runVars
<1> QED
  BY <1>4, <1>5, <1>8 DEF TypeInv

LEMMA TypeNext == TypeInv /\ [Next]_vars => TypeInv'
<1>1. TypeInv /\ UNCHANGED vars => TypeInv'
  BY TypeKept, Lengths DEF vars, keyVars, chainVars, runVars, TypeInv
<1>2. ASSUME TypeInv, NEW c \in Clients, RequestFails(c) \/ Close(c) PROVE TypeInv'
  <2>1. "ask" \in Promises
    BY DEF Promises
  <2> QED
    BY <1>2, <2>1, TypeLoads
<1>3. ASSUME TypeInv, NEW r \in Recipients, LoseKey(r) PROVE TypeInv'
  <2>1. PICK c \in Clients : r = WalletOf[c]
    BY DEF Recipients
  <2>2. "ask" \in Promises
    BY DEF Promises
  <2> QED
    BY <1>3, <2>2, TypeLoads
<1>4. TypeInv /\ Next => TypeInv'
  BY <1>2, <1>3, TypeLoads, TypeCreate, TypeEvents, TypeRedact, TypeJobs, TypeDeliver DEF Next
<1> QED
  BY <1>1, <1>4

\* Every key, run and event refers to something that exists, and no delivery
\* has slots left that were not asked for, whatever number of tabs and
\* commands share a wallet.
THEOREM DocumentTypeCorrect == Spec => []TypeOK
<1>1. ASSUME TypeInv PROVE TypeOK
  <2>1. Events = EventOf(Len(keys), Len(made))
    BY DEF Events, EventOf
  <2>2. \A i \in 1..Len(log) : log[i] \in Events
    BY <1>1, <2>1, Lengths
  <2>3. \A k \in 1..Len(keys) : keys[k] \in [owner : Recipients, gen : 0..MaxLosses]
    BY <1>1, Lengths DEF KeyRecord
  <2>4. \A c \in Clients, p \in Promises :
          load[c][p] \in {NoLoad, Missing, Joined} \cup {Ready(k) : k \in 1..Len(keys)}
    BY <1>1 DEF TypeInv, KeyTypes, Loads
  <2>5. \A n \in 1..Len(made) : made[n] \in Authors
    BY <1>1, Lengths
  <2>6. \A a \in Authors : HeldRuns(a) \subseteq RunsBy(a) /\ Len(archive[a]) <= RunCap
    BY <1>1, HeldAreRuns DEF TypeInv, RunTypes, Kept
  <2>7. \A a \in Authors : job[a].left \subseteq job[a].slots
    BY <1>1, Jobs
  <2> QED
    BY <1>1, <2>2, <2>3, <2>4, <2>5, <2>6, <2>7 DEF TypeInv, KeyTypes, LogTypes, TypeOK
<1> QED
  BY <1>1, TypeInit, TypeNext, PTL DEF Spec

\* Redacting the same text again costs the keys of no run but the oldest: the
\* session and an archive of RunCap runs are kept (document-session.ts).
THEOREM RunKeysKeptHolds == Spec => []RunKeysKept
<1>1. ASSUME TypeInv, NEW a \in Authors, NEW n \in RunsBy(a), n \notin HeldRuns(a)
      PROVE  ~ (Cardinality({m \in RunsBy(a) : m > n}) <= RunCap)
  <2> DEFINE B == {m \in RunsBy(a) : m > n}
             g == [i \in 0..RunCap |-> IF i = 0 THEN session[a] ELSE archive[a][i]]
  <2>1. Kept(a) /\ RunCap \in Nat \ {0} /\ n \in Nat /\ RunsBy(a) \in SUBSET Nat
    BY <1>1, DocAssumption DEF TypeInv, RunTypes, RunsBy
  <2>2. Len(archive[a]) = RunCap /\ \A i \in 1..RunCap : n < archive[a][i]
    BY <1>1, <2>1 DEF Kept
  <2>3. \A i \in 1..RunCap : archive[a][i] \in B /\ archive[a][i] < session[a]
    BY <2>1, <2>2 DEF Kept
  <2>4. session[a] \in B
    <3>1. 1 \in 1..RunCap
      BY <2>1
    <3>2. archive[a][1] \in RunsBy(a)
      BY <2>3, <3>1
    <3>3. session[a] \in RunsBy(a)
      BY <2>1, <3>2 DEF Kept
    <3> QED
      BY <2>1, <2>2, <2>3, <3>1, <3>2, <3>3
  <2>5. \A i, j \in 1..RunCap : i < j => archive[a][j] < archive[a][i]
    BY <2>1, <2>2 DEF Kept
  <2>6. g \in [0..RunCap -> B]
    <3>1. \A i \in 0..RunCap : i # 0 => i \in 1..RunCap
      BY <2>1
    <3> QED
      BY <2>3, <2>4, <3>1
  <2>7. ASSUME NEW i \in 0..RunCap, NEW j \in 0..RunCap, g[i] = g[j] PROVE i = j
    <3>1. (i # 0 => i \in 1..RunCap) /\ (j # 0 => j \in 1..RunCap)
      BY <2>1
    <3>2. \A m \in B : m \in Nat
      BY <2>1
    <3> HIDE DEF B
    <3>3. CASE i = 0 \/ j = 0
      BY <2>3, <2>4, <2>7, <3>1, <3>2, <3>3
    <3>4. CASE i # 0 /\ j # 0
      <4>1. i \in 1..RunCap /\ j \in 1..RunCap /\ archive[a][i] = archive[a][j]
        BY <2>7, <3>1, <3>4
      <4>2. archive[a][i] \in Nat /\ ~ (i < j) /\ ~ (j < i)
        BY <2>3, <2>5, <3>2, <4>1
      <4> QED
        BY <4>1, <4>2
    <3> QED
      BY <3>3, <3>4
  <2> HIDE DEF g
  <2>8. g \in Injection(0..RunCap, B)
    <3>1. DOMAIN g = 0..RunCap
      BY <2>6
    <3> QED
      BY <2>6, <2>7, <3>1 DEF Injection, IsInjective
  <2>9. IsFiniteSet(B)
    <3>1. Len(made) \in Nat /\ IsFiniteSet(1..Len(made)) /\ B \in SUBSET (1..Len(made))
      BY <1>1, Lengths, FS_Interval DEF RunsBy
    <3> QED
      BY <3>1, FS_Subset
  <2>10. Cardinality(0..RunCap) = RunCap + 1
    BY <2>1, FS_Interval
  <2> HIDE DEF B
  <2>11. Cardinality(0..RunCap) <= Cardinality(B) /\ Cardinality(B) \in Nat
    BY <2>8, <2>9, FS_Injection, FS_CardinalityType
  <2>12. ~ (Cardinality(B) <= RunCap)
    BY <2>1, <2>10, <2>11
  <2> QED
    BY <2>12 DEF B
<1>2. TypeInv => RunKeysKept
  BY <1>1 DEF RunKeysKept
<1> QED
  BY <1>2, TypeInit, TypeNext, PTL DEF Spec

-----------------------------------------------------------------------------
(* Keys.  Two clients that share a wallet may overwrite each other's key   *)
(* (the configuration DocsTwoTabs shows it), so each wallet has one here.  *)

OneClient == \A c, d \in Clients : WalletOf[c] = WalletOf[d] => c = d

KeyInv == StoreInv /\ HandsInv /\ RequestInv

LEMMA KeyNumbers ==
  ASSUME TypeInv
  PROVE  /\ \A r \in Recipients : stored[r] \in 0..Len(keys) /\ losses[r] \in Nat
         /\ \A k \in 1..Len(keys) : keys[k].gen \in Nat /\ keys[k].owner \in Recipients
         /\ Len(keys) \in Nat
<1>1. 0..MaxLosses \subseteq Nat
  BY DocAssumption
<1>2. \A r \in Recipients : stored[r] \in 0..Len(keys) /\ losses[r] \in Nat
  BY <1>1 DEF TypeInv, KeyTypes
<1>3. \A k \in 1..Len(keys) : keys[k] \in KeyRecord
  BY Lengths
<1>4. \A k \in 1..Len(keys) : keys[k].gen \in Nat /\ keys[k].owner \in Recipients
  BY <1>1, <1>3 DEF KeyRecord
<1> QED
  BY <1>2, <1>4, Lengths

LEMMA KeyInit == Init => KeyInv
<1> SUFFICES ASSUME Init PROVE KeyInv
  OBVIOUS
<1>1. Len(keys) = 0 /\ Len(log) = 0
  BY DEF Init
<1>2. StoreInv
  BY <1>1 DEF Init, StoreInv, Mine
<1>3. \A c \in Clients, p \in Promises : load[c][p] = NoLoad
  BY DEF Init
<1>4. "ask" \in Promises /\ WebTabs \subseteq Clients /\ CliShells \subseteq Clients
  BY DEF Promises, Clients
<1>5. HandsInv
  BY <1>3, <1>4, LoadFacts DEF HandsInv
<1>6. RequestInv
  BY <1>1 DEF RequestInv, At
<1> QED
  BY <1>2, <1>5, <1>6 DEF KeyInv

\* A client sees a wallet without a key only if every key of it was lost.
LEMMA KeyLoaded ==
  ASSUME TypeInv, KeyInv, NEW c \in Clients, NEW p \in Promises, Load(c, p)
  PROVE  KeyInv'
<1>1. /\ MayLoad(c, p) /\ UNCHANGED <<keys, stored, losses, log>>
      /\ load' = [load EXCEPT ![c][p] =
                    IF SharesLoad(c, p) THEN Joined ELSE ReadStore(WalletOf[c])]
  BY DEF Load, keyVars, chainVars
<1>2. StoreInv' /\ RequestInv'
  BY <1>1 DEF KeyInv, StoreInv, RequestInv, Mine, At
<1>3. /\ load'[c][p] = IF SharesLoad(c, p) THEN Joined ELSE ReadStore(WalletOf[c])
      /\ \A d \in Clients, q \in Promises : d # c \/ q # p => load'[d][q] = load[d][q]
  BY <1>1 DEF TypeInv, KeyTypes
<1>4. ASSUME load'[c][p] = Missing PROVE Bare(WalletOf[c])
  <2>1. stored[WalletOf[c]] = 0
    BY <1>3, <1>4, LoadFacts DEF ReadStore
  <2> QED
    BY <2>1, Wallet, KeyNumbers DEF KeyInv, StoreInv, Bare, Mine
<1>5. ASSUME load'[c][p].st = "ready" PROVE keys[load'[c][p].key].owner = WalletOf[c]
  <2>1. stored[WalletOf[c]] # 0 /\ load'[c][p].key = stored[WalletOf[c]]
    BY <1>3, <1>5, LoadFacts DEF ReadStore
  <2> QED
    BY <2>1, Wallet DEF KeyInv, StoreInv
<1>6. \A d \in WebTabs : load'[d]["ask"] \in {NoLoad, Joined}
  <2>1. c \in WebTabs /\ p = "ask" => load'[c][p] = Joined
    BY <1>1, <1>3 DEF MayLoad, SharesLoad
  <2> QED
    BY <1>3, <2>1 DEF KeyInv, HandsInv, Clients, Promises
<1>7. ASSUME NEW d \in CliShells PROVE \E q \in Promises : load'[d][q] = NoLoad
  <2>1. CASE d = c
    <3>1. PICK q \in Promises : q # p
      BY DEF Promises
    <3> QED
      BY <1>1, <1>3, <2>1, <3>1 DEF MayLoad, Idle
  <2>2. CASE d # c
    BY <1>3, <2>2 DEF KeyInv, HandsInv, Clients
  <2> QED
    BY <2>1, <2>2
<1>8. ASSUME NEW d \in Clients, NEW q \in Promises
      PROVE  /\ load'[d][q] = Missing => Bare(WalletOf[d])'
             /\ load'[d][q].st = "ready" => keys'[load'[d][q].key].owner = WalletOf[d]
  <2>1. Bare(WalletOf[d])' <=> Bare(WalletOf[d])
    BY <1>1 DEF Bare, Mine
  <2> QED
    BY <1>1, <1>3, <1>4, <1>5, <2>1 DEF KeyInv, HandsInv
<1>9. HandsInv'
  BY <1>6, <1>7, <1>8 DEF HandsInv
<1> QED
  BY <1>2, <1>9 DEF KeyInv

\* The loss of r makes all its keys older than its last loss.
LEMMA KeyLost ==
  ASSUME TypeInv, KeyInv, NEW r \in Recipients,
         keys' = keys, log' = log, losses' = [losses EXCEPT ![r] = @ + 1],
         \A q \in Recipients : stored'[q] = stored[q] \/ (q = r /\ stored'[q] = 0)
  PROVE  /\ StoreInv' /\ RequestInv'
         /\ Bare(r)'
         /\ \A q \in Recipients : Bare(q) => Bare(q)'
<1>1. losses'[r] = losses[r] + 1 /\ \A q \in Recipients : q # r => losses'[q] = losses[q]
  BY DEF TypeInv, KeyTypes
<1>2. RequestInv'
  BY DEF KeyInv, RequestInv, At
<1>3. \A q \in Recipients : Mine(q)' = Mine(q)
  BY DEF Mine
<1>4. \A q \in Recipients : stored'[q] # 0 => keys'[stored'[q]].owner = q
  BY DEF KeyInv, StoreInv
<1>5. \A k \in Mine(r) : keys[k].gen < losses'[r] /\ keys[k].gen \in Nat
  BY <1>1, KeyNumbers DEF KeyInv, StoreInv, Mine
<1>6. Bare(r)'
  BY <1>3, <1>5 DEF Bare
<1>7. ASSUME NEW q \in Recipients, NEW k \in Mine(q)'
      PROVE  keys'[k].gen <= losses'[q] /\ (keys'[k].gen = losses'[q] => stored'[q] = k)
  <2>1. CASE q = r
    BY <1>1, <1>3, <1>5, <2>1, KeyNumbers
  <2>2. CASE q # r
    BY <1>1, <1>3, <2>2 DEF KeyInv, StoreInv
  <2> QED
    BY <2>1, <2>2
<1>8. ASSUME NEW q \in Recipients, Bare(q) PROVE Bare(q)'
  <2>1. CASE q = r
    BY <1>6, <2>1
  <2>2. CASE q # r
    BY <1>1, <1>3, <1>8, <2>2 DEF Bare
  <2> QED
    BY <2>1, <2>2
<1> QED
  BY <1>2, <1>4, <1>6, <1>7, <1>8 DEF StoreInv

LEMMA KeyReplaced ==
  ASSUME TypeInv, KeyInv, NEW c \in Clients, NEW p \in Promises, ReplaceKey(c, p)
  PROVE  KeyInv'
<1>1. /\ c \in CliShells /\ MayLoad(c, p) /\ UNCHANGED <<keys, stored, log>>
      /\ losses' = [losses EXCEPT ![WalletOf[c]] = @ + 1]
      /\ load' = [load EXCEPT ![c][p] = Missing]
  BY DEF ReplaceKey, chainVars
<1>2. WalletOf[c] \in Recipients
  BY Wallet
<1>3. /\ StoreInv' /\ RequestInv' /\ Bare(WalletOf[c])'
      /\ \A q \in Recipients : Bare(q) => Bare(q)'
  BY <1>1, <1>2, KeyLost
<1>4. /\ load'[c][p] = Missing
      /\ \A d \in Clients, q \in Promises : d # c \/ q # p => load'[d][q] = load[d][q]
  BY <1>1 DEF TypeInv, KeyTypes
<1>5. \A d \in WebTabs : load'[d]["ask"] \in {NoLoad, Joined}
  BY <1>1, <1>4, DocAssumption DEF KeyInv, HandsInv, Clients, Promises
<1>6. ASSUME NEW d \in CliShells PROVE \E q \in Promises : load'[d][q] = NoLoad
  <2>1. CASE d = c
    <3>1. PICK q \in Promises : q # p
      BY DEF Promises
    <3> QED
      BY <1>1, <1>4, <2>1, <3>1 DEF MayLoad, Idle
  <2>2. CASE d # c
    BY <1>4, <2>2 DEF KeyInv, HandsInv, Clients
  <2> QED
    BY <2>1, <2>2
<1>7. ASSUME NEW d \in Clients, NEW q \in Promises
      PROVE  /\ load'[d][q] = Missing => Bare(WalletOf[d])'
             /\ load'[d][q].st = "ready" => keys'[load'[d][q].key].owner = WalletOf[d]
  <2>1. CASE d = c /\ q = p
    BY <1>3, <1>4, <2>1, LoadFacts
  <2>2. CASE d # c \/ q # p
    BY <1>1, <1>3, <1>4, <2>2, Wallet DEF KeyInv, HandsInv
  <2> QED
    BY <2>1, <2>2
<1>8. HandsInv'
  BY <1>5, <1>6, <1>7 DEF HandsInv
<1> QED
  BY <1>3, <1>8 DEF KeyInv

LEMMA KeyStoreLost ==
  ASSUME TypeInv, KeyInv, NEW r \in Recipients, LoseKey(r)
  PROVE  KeyInv'
<1>1. /\ UNCHANGED <<keys, log, load>> /\ losses' = [losses EXCEPT ![r] = @ + 1]
      /\ stored' = [stored EXCEPT ![r] = 0]
  BY DEF LoseKey, chainVars
<1>2. \A q \in Recipients : stored'[q] = stored[q] \/ (q = r /\ stored'[q] = 0)
  BY <1>1 DEF TypeInv, KeyTypes
<1>3. StoreInv' /\ RequestInv' /\ \A q \in Recipients : Bare(q) => Bare(q)'
  BY <1>1, <1>2, KeyLost
<1>4. HandsInv'
  BY <1>1, <1>3, Wallet DEF KeyInv, HandsInv
<1> QED
  BY <1>3, <1>4 DEF KeyInv

\* Two keys are never made for one loss: the client that makes one holds the
\* only load of its wallet.
LEMMA KeyCreated ==
  ASSUME OneClient, TypeInv, KeyInv, NEW c \in Clients, NEW p \in Promises, CreateKey(c, p)
  PROVE  KeyInv'
<1>1. PICK r \in Recipients : r = WalletOf[c]
  BY Wallet
<1>2. PICK n \in Nat : n = Len(keys) + 1 /\ n # 0 /\ n \notin 1..Len(keys)
  BY Lengths
<1>3. /\ load[c][p] = Missing /\ UNCHANGED <<log, losses>>
      /\ stored' = [stored EXCEPT ![r] = n]
      /\ load' = [load EXCEPT ![c][p] = Ready(n)]
  BY <1>1, <1>2 DEF CreateKey, chainVars
<1>4. /\ Len(keys') = n /\ 1..Len(keys') = (1..Len(keys)) \cup {n}
      /\ \A k \in 1..Len(keys) : keys'[k] = keys[k]
      /\ keys'[n].owner = r /\ keys'[n].gen = losses[r]
  <2>1. /\ Len(keys') = Len(keys) + 1 /\ \A k \in 1..Len(keys) : keys'[k] = keys[k]
        /\ keys'[Len(keys) + 1] = [owner |-> WalletOf[c], gen |-> losses[WalletOf[c]]]
    BY KeyMade
  <2>2. keys'[n].owner = r /\ keys'[n].gen = losses[r]
    BY <1>1, <1>2, <2>1
  <2>3. 1..n = (1..Len(keys)) \cup {n}
    BY <1>2, Lengths
  <2> QED
    BY <1>2, <2>1, <2>2, <2>3
<1>5. Mine(r)' = Mine(r) \cup {n} /\ \A q \in Recipients \ {r} : Mine(q)' = Mine(q)
  BY <1>4 DEF Mine
<1>6. \A k \in Mine(r) : keys[k].gen < losses[r] /\ keys'[k] = keys[k]
  BY <1>1, <1>3, <1>4 DEF KeyInv, HandsInv, Bare, Mine
<1>7. stored'[r] = n /\ \A q \in Recipients \ {r} : stored'[q] = stored[q]
  BY <1>3 DEF TypeInv, KeyTypes
<1>8. StoreInv'
  <2>1. ASSUME NEW q \in Recipients, stored'[q] # 0 PROVE keys'[stored'[q]].owner = q
    <3>1. CASE q = r
      BY <1>4, <1>7, <3>1
    <3>2. CASE q # r
      <4>1. stored'[q] = stored[q] /\ stored[q] \in 1..Len(keys)
        BY <1>7, <2>1, <3>2, KeyNumbers
      <4> QED
        BY <1>4, <2>1, <4>1 DEF KeyInv, StoreInv
    <3> QED
      BY <3>1, <3>2
  <2>2. ASSUME NEW q \in Recipients, NEW k \in Mine(q)'
        PROVE  keys'[k].gen <= losses'[q] /\ (keys'[k].gen = losses'[q] => stored'[q] = k)
    <3>1. CASE q = r /\ k = n
      BY <1>3, <1>4, <1>7, <3>1, KeyNumbers
    <3>2. CASE q = r /\ k # n
      <4>1. k \in Mine(r)
        BY <1>5, <2>2, <3>2
      <4>2. k \in 1..Len(keys)
        BY <4>1 DEF Mine
      <4> QED
        BY <1>3, <1>6, <3>2, <4>1, <4>2, KeyNumbers
    <3>3. CASE q # r
      <4>1. k \in Mine(q) /\ k \in 1..Len(keys)
        BY <1>5, <2>2, <3>3 DEF Mine
      <4> QED
        BY <1>3, <1>4, <1>7, <3>3, <4>1 DEF KeyInv, StoreInv
    <3> QED
      BY <3>1, <3>2, <3>3
  <2> QED
    BY <2>1, <2>2 DEF StoreInv
<1>9. RequestInv'
  <2>1. ASSUME NEW i \in At("requested") PROVE log[i].key \in 1..Len(keys)
    <3>1. log[i] \in EventOf(Len(keys), Len(made)) /\ log[i].kind = "requested"
      BY Lengths DEF At
    <3> QED
      BY <3>1 DEF EventOf
  <2> QED
    BY <1>3, <1>4, <2>1 DEF KeyInv, RequestInv, At
<1>10. /\ load'[c][p] = Ready(n)
       /\ \A d \in Clients, q \in Promises : d # c \/ q # p => load'[d][q] = load[d][q]
  BY <1>3 DEF TypeInv, KeyTypes
<1>11. \A q \in Promises \ {p} : load[c][q] # Missing
  <2>1. CASE c \in WebTabs
    BY <1>3, <2>1, LoadFacts DEF KeyInv, HandsInv, Promises
  <2>2. CASE c \in CliShells
    BY <1>3, <2>2, LoadFacts DEF KeyInv, HandsInv, Promises
  <2> QED
    BY <2>1, <2>2 DEF Clients
<1>12. ASSUME NEW d \in Clients, NEW q \in Promises
       PROVE  /\ load'[d][q] = Missing => Bare(WalletOf[d])'
              /\ load'[d][q].st = "ready" => keys'[load'[d][q].key].owner = WalletOf[d]
  <2>1. CASE d = c /\ q = p
    BY <1>1, <1>4, <1>10, <2>1, LoadFacts
  <2>2. CASE d = c /\ q # p
    <3>1. load'[d][q] = load[d][q] /\ load[d][q] # Missing
      BY <1>10, <1>11, <2>2
    <3>2. load[d][q].st = "ready" =>
            load[d][q].key \in 1..Len(keys) /\ keys[load[d][q].key].owner = WalletOf[d]
      BY Promised DEF KeyInv, HandsInv
    <3> QED
      BY <1>4, <3>1, <3>2
  <2>3. CASE d # c
    <3>1. WalletOf[d] \in Recipients \ {r}
      BY <1>1, <2>3, Wallet DEF OneClient
    <3>2. Bare(WalletOf[d]) => Bare(WalletOf[d])'
      BY <1>3, <1>4, <1>5, <3>1 DEF Bare, Mine
    <3>3. load[d][q].st = "ready" =>
            load[d][q].key \in 1..Len(keys) /\ keys[load[d][q].key].owner = WalletOf[d]
      BY Promised DEF KeyInv, HandsInv
    <3>4. load'[d][q] = load[d][q] /\ (load[d][q] = Missing => Bare(WalletOf[d]))
      BY <1>10, <2>3 DEF KeyInv, HandsInv
    <3> QED
      BY <1>4, <3>2, <3>3, <3>4
  <2> QED
    BY <2>1, <2>2, <2>3
<1>13. \A d \in WebTabs : load'[d]["ask"] \in {NoLoad, Joined}
  <2>1. c \in WebTabs => p # "ask"
    BY <1>3, LoadFacts DEF KeyInv, HandsInv
  <2> QED
    BY <1>10, <2>1 DEF KeyInv, HandsInv, Clients, Promises
<1>14. ASSUME NEW d \in CliShells PROVE \E q \in Promises : load'[d][q] = NoLoad
  <2>1. PICK q \in Promises : load[d][q] = NoLoad
    BY DEF KeyInv, HandsInv
  <2>2. d # c \/ q # p
    BY <1>3, <2>1, LoadFacts
  <2> QED
    BY <1>10, <2>1, <2>2 DEF Clients
<1>15. HandsInv'
  BY <1>12, <1>13, <1>14 DEF HandsInv
<1> QED
  BY <1>8, <1>9, <1>15 DEF KeyInv

\* A client that lets go of what it has in hand.
LEMMA KeyDropped ==
  ASSUME TypeInv, KeyInv, UNCHANGED <<keys, stored, losses>>,
         \A c \in Clients, p \in Promises :
            load'[c][p] = load[c][p] \/ load'[c][p] = NoLoad
  PROVE  StoreInv' /\ HandsInv'
<1>1. StoreInv'
  BY DEF KeyInv, StoreInv, Mine
<1>2. ASSUME NEW c \in Clients, NEW p \in Promises
      PROVE  /\ load'[c][p] = Missing => Bare(WalletOf[c])'
             /\ load'[c][p].st = "ready" => keys'[load'[c][p].key].owner = WalletOf[c]
  <2>1. Bare(WalletOf[c])' <=> Bare(WalletOf[c])
    BY DEF Bare, Mine
  <2>2. CASE load'[c][p] = load[c][p]
    BY <2>1, <2>2 DEF KeyInv, HandsInv
  <2>3. CASE load'[c][p] = NoLoad
    BY <2>3, LoadFacts
  <2> QED
    BY <2>2, <2>3
<1>3. \A c \in WebTabs : load'[c]["ask"] \in {NoLoad, Joined}
  BY DEF KeyInv, HandsInv, Clients, Promises
<1>4. \A c \in CliShells : \E p \in Promises : load'[c][p] = NoLoad
  BY DEF KeyInv, HandsInv, Clients
<1> QED
  BY <1>1, <1>2, <1>3, <1>4 DEF HandsInv

\* A request binds the key its client has in hand, which is its wallet's.
LEMMA KeyRequested ==
  ASSUME TypeInv, KeyInv, NEW c \in Clients, Request(c)
  PROVE  KeyInv'
<1> DEFINE e == Requested(WalletOf[c], Awaited(c, "ask").key)
<1>1. /\ UNCHANGED <<keys, stored, losses>> /\ Awaited(c, "ask").st = "ready"
      /\ log' = Append(log, e) /\ load' = [load EXCEPT ![c]["ask"] = NoLoad]
      /\ "ask" \in Promises /\ "page" \in Promises
  BY DEF Request, keyVars, Promises
<1>2. \A d \in Clients, q \in Promises : load'[d][q] = load[d][q] \/ load'[d][q] = NoLoad
  BY <1>1 DEF TypeInv, KeyTypes
<1>3. StoreInv' /\ HandsInv'
  BY <1>1, <1>2, KeyDropped
<1>4. keys[Awaited(c, "ask").key].owner = WalletOf[c]
  BY <1>1, LoadFacts DEF Awaited, KeyInv, HandsInv
<1>5. /\ Len(log') = Len(log) + 1 /\ log'[Len(log) + 1] = e
      /\ \A i \in 1..Len(log) : log'[i] = log[i]
  BY <1>1, Asking, Logged
<1>6. RequestInv'
  <2>1. ASSUME NEW i \in At("requested")' PROVE keys[log'[i].key].owner = log'[i].by
    <3>1. i \in 1..Len(log) \/ i = Len(log) + 1
      BY <1>5, Lengths DEF At
    <3>2. CASE i \in 1..Len(log)
      BY <1>5, <2>1, <3>2 DEF KeyInv, RequestInv, At
    <3>3. CASE i = Len(log) + 1
      BY <1>4, <1>5, <3>3 DEF Requested
    <3> QED
      BY <3>1, <3>2, <3>3
  <2> QED
    BY <1>1, <2>1 DEF RequestInv
<1> QED
  BY <1>3, <1>6 DEF KeyInv

\* Steps that touch no key append no request.
LEMMA KeyApart ==
  ASSUME TypeInv, KeyInv, UNCHANGED <<keyVars, load>>,
         log' = log \/ (\E a \in Authors : Publish(a))
                    \/ (\E a \in Authors : DeliverBatch(a) \/ DeliverSlot(a))
  PROVE  KeyInv'
<1>1. StoreInv' /\ HandsInv'
  BY KeyDropped DEF keyVars
<1>2. \A i \in At("requested")' : i \in At("requested") /\ log'[i] = log[i]
  <2>1. CASE log' = log
    BY <2>1 DEF At
  <2>2. CASE \E a \in Authors : Publish(a)
    <3>1. PICK a \in Authors : Publish(a)
      BY <2>2
    <3>2. Published(a) \in EventOf(Len(keys), Len(made)) /\ Published(a).kind # "requested"
      BY DEF Published, EventOf
    <3>3. /\ Len(log') = Len(log) + 1 /\ log'[Len(log) + 1] = Published(a)
          /\ \A i \in 1..Len(log) : log'[i] = log[i]
      BY <3>1, <3>2, Logged DEF Publish
    <3> QED
      BY <3>2, <3>3, Lengths DEF At
  <2>3. CASE \E a \in Authors : DeliverBatch(a) \/ DeliverSlot(a)
    <3>1. PICK a \in Authors : DeliverBatch(a) \/ DeliverSlot(a)
      BY <2>3
    <3>2. PICK D \in SUBSET Slots : Deliver(a, D) /\ job[a] \in JobOf(Len(keys), Len(made))
      BY <3>1, Delivers
    <3>3. PICK j \in JobOf(Len(keys), Len(made)) : j = job[a]
      BY <3>2
    <3>4. /\ Len(log') \in Nat
          /\ \A i \in 1..Len(log) : log'[i] = log[i]
          /\ \A i \in Len(log) + 1..Len(log') :
               \E s \in D : log'[i] = Granted(a, j.to, s, j.key, j.run)
      <4>1. Len(log') = Len(log) + Cardinality(D) /\ Cardinality(D) \in Nat /\ Len(log) \in Nat
        BY <3>2, <3>3, Delivery, Lengths
      <4>2. Len(log') \in Nat
        BY <4>1
      <4> QED
        BY <3>2, <3>3, <4>2, Delivery
    <3>5. ASSUME NEW i \in Len(log) + 1..Len(log') PROVE log'[i].kind # "requested"
      <4>1. PICK s \in D : log'[i] = Granted(a, j.to, s, j.key, j.run)
        BY <3>4
      <4> QED
        BY <4>1 DEF Granted
    <3> QED
      BY <3>4, <3>5, Lengths DEF At
  <2> QED
    BY <2>1, <2>2, <2>3
<1>3. RequestInv'
  BY <1>2 DEF KeyInv, RequestInv, keyVars
<1> QED
  BY <1>1, <1>3 DEF KeyInv

LEMMA KeyNext == OneClient /\ TypeInv /\ KeyInv /\ [Next]_vars => KeyInv'
<1> SUFFICES ASSUME OneClient, TypeInv, KeyInv, [Next]_vars PROVE KeyInv'
  OBVIOUS
<1>1. CASE UNCHANGED vars
  BY <1>1, KeyApart DEF vars, keyVars
<1>2. ASSUME NEW c \in Clients, RequestFails(c) \/ Close(c) PROVE KeyInv'
  <2>1. UNCHANGED <<keys, stored, losses, log>>
    BY <1>2 DEF RequestFails, Close, keyVars, chainVars
  <2>2. \A d \in Clients, q \in Promises : load'[d][q] = load[d][q] \/ load'[d][q] = NoLoad
    BY <1>2 DEF RequestFails, Close, TypeInv, KeyTypes
  <2>3. StoreInv' /\ HandsInv'
    BY <2>1, <2>2, KeyDropped
  <2> QED
    BY <2>1, <2>3 DEF KeyInv, RequestInv, At
<1>3. ASSUME NEW a \in Authors, Redact(a) \/ Publish(a) PROVE KeyInv'
  BY <1>3, KeyApart DEF Redact, Publish, chainVars, keyVars
<1>4. ASSUME NEW a \in Authors, NEW r \in Recipients, GrantToRequest(a, r) \/ GrantToPastedKey(a, r)
      PROVE  KeyInv'
  BY <1>4, KeyApart DEF GrantToRequest, GrantToPastedKey, chainVars, keyVars
<1>5. ASSUME NEW a \in Authors, Resign(a) \/ GiveUp(a) PROVE KeyInv'
  BY <1>5, KeyApart DEF Resign, GiveUp, chainVars, keyVars
<1>6. ASSUME NEW a \in Authors, DeliverBatch(a) \/ DeliverSlot(a) PROVE KeyInv'
  <2>1. UNCHANGED <<keyVars, load>>
    BY <1>6 DEF DeliverBatch, DeliverSlot, Deliver
  <2> QED
    BY <1>6, <2>1, KeyApart
<1> QED
  BY <1>1, <1>2, <1>3, <1>4, <1>5, <1>6,
     KeyLoaded, KeyReplaced, KeyCreated, KeyRequested, KeyStoreLost DEF Next

\* With one client to a wallet, the key of a request stays the stored one
\* until the storage is lost or the key is replaced on purpose, whatever is
\* loaded, created, asked for and closed in between (rehydrate/page.tsx).
THEOREM RequestKeyKeptHolds ==
  ASSUME OneClient
  PROVE  Spec => []RequestKeyKept
<1>1. ASSUME TypeInv, KeyInv PROVE RequestKeyKept
  <2> SUFFICES ASSUME NEW i \in At("requested"), keys[log[i].key].gen = losses[log[i].by]
               PROVE  stored[log[i].by] = log[i].key
    BY DEF RequestKeyKept
  <2>1. log[i] \in EventOf(Len(keys), Len(made)) /\ log[i].kind = "requested"
    BY <1>1, Lengths DEF At
  <2>2. log[i].key \in 1..Len(keys) /\ log[i].by \in Recipients
    BY <2>1 DEF EventOf
  <2>3. log[i].key \in Mine(log[i].by)
    BY <1>1, <2>2 DEF KeyInv, RequestInv, Mine
  <2> QED
    BY <1>1, <2>2, <2>3 DEF KeyInv, StoreInv
<1>2. TypeInv /\ KeyInv /\ [Next]_vars => KeyInv'
  BY KeyNext
<1> QED
  BY <1>1, <1>2, KeyInit, TypeInit, TypeNext, PTL DEF Spec

-----------------------------------------------------------------------------
(* Deliveries.                                                             *)

LEMMA GrantEvents ==
  ASSUME TypeInv, NEW r
  PROVE  GrantsTo(r) = {i \in 1..Len(log) : log[i].kind = "granted" /\ log[i].to = r}
  BY DEF GrantsTo, At

\* Events that grant s to r nothing but the key k of run n leave it delivered.
LEMMA DeliveredKept ==
  ASSUME TypeInv, TypeInv', NEW r, NEW s, NEW k, NEW n,
         Len(log) <= Len(log'),
         \A i \in 1..Len(log) : log'[i] = log[i],
         \A i \in Len(log) + 1..Len(log') :
            log'[i].kind = "granted" /\ log'[i].to = r /\ log'[i].slot = s
              => log'[i].key = k /\ log'[i].run = n,
         Delivered(r, s, k, n)
  PROVE  Delivered(r, s, k, n)'
<1>1. Len(log) \in Nat /\ Len(log') \in Nat
  BY Lengths
<1>2. PICK i \in GrantsTo(r) :
         /\ log[i].slot = s
         /\ \A j \in GrantsTo(r) : j >= i /\ log[j].slot = s => log[j].key = k /\ log[j].run = n
  BY DEF Delivered
<1>3. i \in GrantsTo(r)' /\ log'[i].slot = s
  BY <1>1, <1>2 DEF GrantsTo, At
<1>4. ASSUME NEW j \in GrantsTo(r)', j >= i, log'[j].slot = s
      PROVE  log'[j].key = k /\ log'[j].run = n
  <2>1. j \in 1..Len(log') /\ log'[j].kind = "granted" /\ log'[j].to = r
    BY <1>4 DEF GrantsTo, At
  <2>2. CASE j \in 1..Len(log)
    <3>1. j \in GrantsTo(r) /\ log[j].slot = s
      BY <1>4, <2>1, <2>2 DEF GrantsTo, At
    <3> QED
      BY <1>2, <1>4, <2>2, <3>1
  <2>3. CASE j \notin 1..Len(log)
    <3>1. j \in Len(log) + 1..Len(log')
      BY <1>1, <2>1, <2>3
    <3> QED
      BY <1>4, <2>1, <3>1
  <2> QED
    BY <2>2, <2>3
<1> QED
  BY <1>3, <1>4 DEF Delivered

\* A slot among the new events is delivered.
LEMMA DeliveredNow ==
  ASSUME TypeInv, TypeInv', NEW r, NEW s, NEW k, NEW n,
         NEW i \in Len(log) + 1..Len(log'),
         log'[i].kind = "granted", log'[i].to = r, log'[i].slot = s,
         \A j \in Len(log) + 1..Len(log') : log'[j].key = k /\ log'[j].run = n
  PROVE  Delivered(r, s, k, n)'
<1>1. Len(log) \in Nat /\ Len(log') \in Nat
  BY Lengths
<1>2. i \in GrantsTo(r)'
  BY <1>1 DEF GrantsTo, At
<1>3. ASSUME NEW j \in GrantsTo(r)', j >= i PROVE j \in Len(log) + 1..Len(log')
  BY <1>1, <1>3 DEF GrantsTo, At
<1> QED
  BY <1>2, <1>3 DEF Delivered

\* Steps that grant nothing.
LEMMA GrantsKept ==
  ASSUME TypeInv, TypeInv', GrantInv, UNCHANGED answered,
         \/ log' = log
         \/ \E e : log' = Append(log, e) /\ e \in EventOf(Len(keys), Len(made)) /\ e.kind # "granted",
         \A a \in Authors : author = a => author' = a,
         \A a \in Authors : job'[a] = job[a] \/ job'[a].left = job'[a].slots
  PROVE  GrantInv'
<1>1. /\ Len(log) <= Len(log') /\ \A i \in 1..Len(log) : log'[i] = log[i]
      /\ \A i \in Len(log) + 1..Len(log') : log'[i].kind # "granted"
  <2>1. CASE log' = log
    BY <2>1, Lengths
  <2>2. CASE \E e : log' = Append(log, e) /\ e \in EventOf(Len(keys), Len(made)) /\ e.kind # "granted"
    <3>1. PICK e \in EventOf(Len(keys), Len(made)) : log' = Append(log, e) /\ e.kind # "granted"
      BY <2>2
    <3>2. /\ Len(log') = Len(log) + 1 /\ log'[Len(log) + 1] = e
          /\ \A i \in 1..Len(log) : log'[i] = log[i]
      BY <3>1, Logged
    <3>3. \A i \in Len(log) + 1..Len(log') : i = Len(log) + 1
      BY <3>2, Lengths
    <3>4. Len(log) <= Len(log')
      BY <3>2, Lengths
    <3> QED
      BY <3>1, <3>2, <3>3, <3>4
  <2> QED
    BY <2>1, <2>2
<1>2. \A r, s, k, n : Delivered(r, s, k, n) => Delivered(r, s, k, n)'
  BY <1>1, DeliveredKept
<1>3. ASSUME NEW a \in Authors, job'[a].left # job'[a].slots PROVE author' = a
  BY <1>3 DEF GrantInv
<1>4. ASSUME NEW a \in Authors, job'[a] # NoJob, NEW s \in job'[a].slots \ job'[a].left
      PROVE  Delivered(job[a].to, s, job[a].key, job[a].run)'
  <2>1. job'[a] = job[a]
    BY <1>4
  <2> QED
    BY <1>2, <1>4, <2>1 DEF GrantInv
<1>5. ASSUME NEW r \in Recipients
      PROVE  /\ answered'[r] # NoAnswer => answered'[r].key # 0
             /\ \A s \in answered'[r].slots : Delivered(r, s, answered[r].key, answered[r].run)'
  BY <1>2 DEF GrantInv
<1> QED
  BY <1>3, <1>4, <1>5 DEF GrantInv

\* A transaction is mined for the author of record only, and makes its slots
\* delivered; no other delivery is under way.
LEMMA GrantsDelivered ==
  ASSUME TypeInv, TypeInv', GrantInv, NEW a \in Authors, DeliverBatch(a) \/ DeliverSlot(a)
  PROVE  GrantInv'
<1>1. PICK D \in SUBSET Slots :
         /\ Deliver(a, D) /\ D # {} /\ D \subseteq job[a].left
         /\ job[a] \in JobOf(Len(keys), Len(made))
  BY Delivers
<1>2. PICK j \in JobOf(Len(keys), Len(made)) : j = job[a]
  BY <1>1
<1>3. /\ j.to \in Recipients /\ j.key \in 1..Len(keys) /\ j.left \subseteq j.slots
      /\ j # NoJob /\ D \subseteq j.left
  BY <1>1, <1>2, Lengths DEF JobOf, NoJob
<1>4. /\ Len(log) <= Len(log') /\ \A i \in 1..Len(log) : log'[i] = log[i]
      /\ \A i \in Len(log) + 1..Len(log') :
           \E s \in D : log'[i] = Granted(a, j.to, s, j.key, j.run)
      /\ \A s \in D : \E i \in Len(log) + 1..Len(log') :
           log'[i] = Granted(a, j.to, s, j.key, j.run)
  <2>1. Len(log') = Len(log) + Cardinality(D) /\ Cardinality(D) \in Nat
    BY <1>1, <1>2, Delivery
  <2>2. Len(log) <= Len(log')
    BY <2>1, Lengths
  <2> QED
    BY <1>1, <1>2, <2>2, Delivery
<1>5. ASSUME NEW i \in Len(log) + 1..Len(log')
      PROVE  log'[i].kind = "granted" /\ log'[i].to = j.to /\ log'[i].key = j.key /\ log'[i].run = j.run
  <2>1. PICK s \in D : log'[i] = Granted(a, j.to, s, j.key, j.run)
    BY <1>4
  <2> QED
    BY <2>1 DEF Granted
<1>6. ASSUME NEW s \in D PROVE Delivered(j.to, s, j.key, j.run)'
  <2>1. PICK i \in Len(log) + 1..Len(log') : log'[i] = Granted(a, j.to, s, j.key, j.run)
    BY <1>4
  <2>2. log'[i].kind = "granted" /\ log'[i].to = j.to /\ log'[i].slot = s
    BY <2>1 DEF Granted
  <2> QED
    BY <1>5, <2>2, DeliveredNow
<1>7. ASSUME NEW s \in j.slots \ j.left PROVE Delivered(j.to, s, j.key, j.run)'
  <2>1. Delivered(j.to, s, j.key, j.run)
    BY <1>2, <1>3 DEF GrantInv
  <2> QED
    BY <1>4, <1>5, <2>1, DeliveredKept
<1>8. author' = author /\ author = a
  BY <1>1 DEF Deliver, MayGrant
<1>9. /\ job' = [job EXCEPT ![a] = IF D = j.left THEN NoJob ELSE [j EXCEPT !.left = @ \ D]]
      /\ answered' = [answered EXCEPT ![j.to] =
                        IF D = j.left THEN [key |-> j.key, run |-> j.run, slots |-> j.slots]
                        ELSE NoAnswer]
  BY <1>1, <1>2 DEF Deliver
<1>10. \A b \in Authors \ {a} : job'[b] = job[b] /\ job[b].left = job[b].slots
  BY <1>8, <1>9 DEF GrantInv, TypeInv, JobTypes
<1>11. job'[a] = IF D = j.left THEN NoJob ELSE [j EXCEPT !.left = @ \ D]
  BY <1>9 DEF TypeInv, JobTypes
<1>12. ASSUME NEW b \in Authors, job'[b].left # job'[b].slots PROVE author' = b
  BY <1>8, <1>10, <1>12
<1>13. ASSUME NEW b \in Authors, job'[b] # NoJob, NEW s \in job'[b].slots \ job'[b].left
       PROVE  Delivered(job[b].to, s, job[b].key, job[b].run)'
  <2>1. b = a
    BY <1>10, <1>13
  <2>2. job'[a] = [j EXCEPT !.left = @ \ D]
    BY <1>11, <1>13, <2>1
  <2>3. /\ job'[a].to = j.to /\ job'[a].key = j.key /\ job'[a].run = j.run
        /\ job'[a].slots = j.slots /\ job'[a].left = j.left \ D
    BY <2>2 DEF JobOf
  <2>4. s \in D \/ s \in j.slots \ j.left
    BY <1>13, <2>1, <2>3
  <2> QED
    BY <1>6, <1>7, <2>1, <2>3, <2>4
<1>14. ASSUME NEW r \in Recipients
       PROVE  /\ answered'[r] # NoAnswer => answered'[r].key # 0
              /\ \A s \in answered'[r].slots : Delivered(r, s, answered[r].key, answered[r].run)'
  <2>1. CASE r # j.to
    <3>1. answered'[r] = answered[r]
      BY <1>9, <2>1 DEF TypeInv, JobTypes
    <3>2. \A s, k, n : Delivered(r, s, k, n) => Delivered(r, s, k, n)'
      BY <1>4, <1>5, <2>1, DeliveredKept
    <3> QED
      BY <3>1, <3>2 DEF GrantInv
  <2>2. CASE r = j.to /\ D = j.left
    <3>1. answered'[r] = [key |-> j.key, run |-> j.run, slots |-> j.slots]
      BY <1>9, <2>2 DEF TypeInv, JobTypes
    <3>2. answered'[r].key = j.key /\ answered'[r].run = j.run /\ answered'[r].slots = j.slots
      BY <3>1
    <3>3. \A s \in j.slots : s \in D \/ s \in j.slots \ j.left
      BY <2>2
    <3>4. j.key # 0
      BY <1>3, Lengths
    <3> QED
      BY <1>6, <1>7, <2>2, <3>2, <3>3, <3>4
  <2>3. CASE r = j.to /\ D # j.left
    <3>1. answered'[r] = NoAnswer
      BY <1>9, <2>3 DEF TypeInv, JobTypes
    <3> QED
      BY <3>1 DEF NoAnswer
  <2> QED
    BY <2>1, <2>2, <2>3
<1> QED
  BY <1>12, <1>13, <1>14 DEF GrantInv

LEMMA GrantNext == TypeInv /\ TypeInv' /\ GrantInv /\ [Next]_vars => GrantInv'
<1> SUFFICES ASSUME TypeInv, TypeInv', GrantInv, [Next]_vars PROVE GrantInv'
  OBVIOUS
<1>1. CASE UNCHANGED vars
  BY <1>1, GrantsKept DEF vars
<1>2. ASSUME UNCHANGED <<chainVars, job, answered>> PROVE GrantInv'
  BY <1>2, GrantsKept DEF chainVars
<1>3. ASSUME NEW c \in Clients, Request(c) PROVE GrantInv'
  <2>1. PICK e \in EventOf(Len(keys), Len(made)) :
           log' = Append(log, e) /\ e.kind # "granted"
    BY <1>3, Asking DEF Request, Requested
  <2>2. UNCHANGED <<author, job, answered>>
    BY <1>3 DEF Request
  <2> QED
    BY <2>1, <2>2, GrantsKept
<1>4. ASSUME NEW a \in Authors, Publish(a) PROVE GrantInv'
  <2>1. Published(a) \in EventOf(Len(keys), Len(made)) /\ Published(a).kind # "granted"
    BY DEF Published, EventOf
  <2>2. log' = Append(log, Published(a)) /\ UNCHANGED <<job, answered>>
    BY <1>4 DEF Publish
  <2>3. \A b \in Authors : author = b => author' = b
    BY <1>4, DocAssumption DEF Publish, MayPublish
  <2> QED
    BY <2>1, <2>2, <2>3, GrantsKept
<1>5. ASSUME NEW a \in Authors, NEW r \in Recipients, GrantToRequest(a, r) \/ GrantToPastedKey(a, r)
      PROVE  GrantInv'
  <2>1. \A b \in Authors : job'[b] = job[b] \/ job'[b].left = job'[b].slots
    BY <1>5 DEF GrantToRequest, GrantToPastedKey, Wrap, TypeInv, JobTypes
  <2>2. UNCHANGED <<chainVars, answered>>
    BY <1>5 DEF GrantToRequest, GrantToPastedKey
  <2> QED
    BY <2>1, <2>2, GrantsKept DEF chainVars
<1>6. ASSUME NEW a \in Authors, Resign(a) \/ GiveUp(a) PROVE GrantInv'
  <2>1. UNCHANGED <<chainVars, answered>>
    BY <1>6 DEF Resign, GiveUp
  <2>2. job[a] \in JobOf(Len(keys), Len(made))
    BY <1>6, Jobs DEF Resign, GiveUp
  <2>3. \A b \in Authors : job'[b] = job[b] \/ job'[b].left = job'[b].slots
    <3>1. CASE Resign(a)
      <4>1. PICK j \in JobOf(Len(keys), Len(made)) : j = job[a]
        BY <2>2
      <4>2. PICK i : i = [j EXCEPT !.left = j.slots]
        OBVIOUS
      <4>3. i.left = i.slots
        BY <4>2 DEF JobOf
      <4>4. job' = [job EXCEPT ![a] = i]
        BY <3>1, <4>1, <4>2 DEF Resign
      <4> QED
        BY <4>3, <4>4 DEF TypeInv, JobTypes
    <3>2. CASE GiveUp(a)
      BY <3>2 DEF GiveUp, NoJob, TypeInv, JobTypes
    <3> QED
      BY <1>6, <3>1, <3>2
  <2> QED
    BY <2>1, <2>3, GrantsKept DEF chainVars
<1>7. ASSUME NEW c \in Clients, NEW p \in Promises, Load(c, p) \/ ReplaceKey(c, p) \/ CreateKey(c, p)
      PROVE  GrantInv'
  BY <1>2, <1>7 DEF Load, ReplaceKey, CreateKey
<1>8. ASSUME NEW c \in Clients, RequestFails(c) \/ Close(c) PROVE GrantInv'
  BY <1>2, <1>8 DEF RequestFails, Close
<1>9. ASSUME NEW r \in Recipients, LoseKey(r) PROVE GrantInv'
  BY <1>2, <1>9 DEF LoseKey
<1>10. ASSUME NEW a \in Authors, Redact(a) PROVE GrantInv'
  BY <1>2, <1>10 DEF Redact
<1> QED
  BY <1>1, <1>3, <1>4, <1>5, <1>6, <1>7, <1>8, <1>9, <1>10, GrantsDelivered DEF Next

\* The slots of the last job delivered to a recipient open on the web page in
\* that run's bundle if the job was wrapped to the key the recipient has now,
\* whatever was lost, replaced, granted twice, cut off or granted by a former
\* run before (resolveActiveGrants).
THEOREM WebRecoversHolds == Spec => []WebRecovers
<1>1. Init => GrantInv
  <2> SUFFICES ASSUME Init PROVE GrantInv
    OBVIOUS
  <2>1. /\ \A a \in Authors : job[a] = NoJob
        /\ \A r \in Recipients : answered[r] = NoAnswer
    BY DEF Init
  <2>2. NoJob.left = NoJob.slots /\ NoAnswer.slots = {}
    BY DEF NoJob, NoAnswer
  <2> QED
    BY <2>1, <2>2 DEF GrantInv
<1>2. ASSUME TypeInv, GrantInv PROVE WebRecovers
  <2> SUFFICES ASSUME NEW r \in Recipients, answered[r] # NoAnswer, answered[r].key = stored[r],
                      NEW s \in answered[r].slots
               PROVE  WebReads(r, answered[r].run, s)
    BY DEF WebRecovers
  <2> DEFINE I == {i \in GrantsTo(r) : log[i].slot = s}
  <2>1. stored[r] # 0 /\ Delivered(r, s, answered[r].key, answered[r].run)
    BY <1>2 DEF GrantInv
  <2>2. PICK i \in I :
           \A j \in GrantsTo(r) : j >= i /\ log[j].slot = s
             => log[j].key = answered[r].key /\ log[j].run = answered[r].run
    BY <2>1 DEF Delivered
  <2>3. I \in SUBSET (1..Len(log)) /\ I # {} /\ Len(log) \in Nat
    BY <1>2, <2>2, Lengths DEF GrantsTo, At
  <2>4. Newest(I) \in I /\ i <= Newest(I)
    BY <2>2, <2>3, Greatest
  <2>5. Newest(I) \in GrantsTo(r) /\ Newest(I) >= i /\ log[Newest(I)].slot = s
    BY <2>3, <2>4
  <2>6. log[Newest(I)].key = answered[r].key /\ log[Newest(I)].run = answered[r].run
    BY <2>2, <2>5
  <2> QED
    BY <2>1, <2>3, <2>6 DEF WebReads, Prevails
<1> QED
  BY <1>1, <1>2, GrantNext, TypeInit, TypeNext, PTL DEF Spec
=============================================================================
