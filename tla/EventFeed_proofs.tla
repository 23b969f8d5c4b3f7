--------------------------- MODULE EventFeed_proofs ---------------------------
(***************************************************************************)
(* Theorems about the event feed, for any contracts, organisations, lag of *)
(* the backends, size of the store, and number of scans and pollers.       *)
(***************************************************************************)
EXTENDS EventFeed, FiniteSetTheorems, TLAPS

-----------------------------------------------------------------------------
(* The parts of the inductive invariant.                                   *)

ScanRecord == [begun : BOOLEAN, running : BOOLEAN, snap : SUBSET Sources,
               floor : 0..MaxHead]
CallRecord == [at : {"none", "own", "join", "pause", "back"}, of : 0..MaxScans,
               count : Nat, then : {"none", "again", "live"}]
PollerRecord == [on : BOOLEAN, at : {"rest", "logs", "retry"}, cursor : 0..MaxHead + 1,
                 snap : SUBSET Sources, latest : 0..MaxHead, first : 0..MaxHead + 1,
                 since : SUBSET Sources, handed : SUBSET Event]

\* calls whose caller still owes a refresh
Owing == {c \in Seqs : call[c].then = "again"}

PageTypes ==
  /\ head \in 0..MaxHead /\ sources \subseteq Sources
  /\ events \subseteq Event /\ status \in Statuses
  /\ persisted \subseteq Event /\ Cardinality(persisted) <= MaxPersisted
  /\ purging \subseteq SUBSET OrgAll
  /\ failures \in Nat /\ reloads \in Nat

LiveTypes ==
  /\ isLive \in BOOLEAN /\ pollers \in 0..MaxPollers /\ stopRef \in 0..pollers
  /\ poller \in [1..MaxPollers -> PollerRecord]
  /\ \A p \in 1..MaxPollers : p > pollers => poller[p] = NoPoller

ScanTypes ==
  /\ scanSeq \in 0..MaxScans /\ inFlight \in 0..scanSeq
  /\ scan \in [Seqs -> ScanRecord] /\ call \in [Seqs -> CallRecord]
  /\ \A c \in Seqs : call[c].of \in 0..scanSeq
  /\ scanSeq + Cardinality(Owing) <= MaxScans

TypeInv == PageTypes /\ LiveTypes /\ ScanTypes

(* The scan under way is the newest that began, and whoever waits waits    *)
(* for it: its owner, and the calls that joined.                           *)
FlightInv ==
  /\ \A c \in Seqs : scan[c].running <=> inFlight = c
  /\ \A c \in Seqs : scan[c].begun => c <= scanSeq
  /\ inFlight # None =>
       /\ scan[inFlight].begun
       /\ \A d \in Seqs : d > inFlight => ~scan[d].begun
       /\ call[inFlight].at = "own"
       /\ call[inFlight].count = Cardinality(scan[inFlight].snap)
  /\ \A c \in Seqs :
       /\ call[c].at \in {"own", "join"} => inFlight # None /\ call[c].of = inFlight
       /\ call[c].at = "own" => c = inFlight
       /\ call[c].at = "join" => call[c].count = Cardinality(scan[inFlight].snap)
       /\ c > scanSeq => call[c].at = "none"
       /\ call[c].then = "again" => call[c].at # "none"

(* The newest call, if the scan is its own, scans what is registered; a    *)
(* page is "ready" only when the newest call has its result.               *)
NewestInv ==
  /\ scanSeq # 0 /\ call[scanSeq].at = "own" => scan[scanSeq].snap = sources
  /\ status = "ready" => scanSeq # 0 /\ call[scanSeq].at \in {"none", "back"}

(* A scan under way that still includes a dropped contract is waited for   *)
(* by a call that refreshes once more.                                     *)
SharedInv ==
  inFlight # None =>
    \/ scan[inFlight].snap \subseteq sources
    \/ \E k \in Seqs : call[k].at = "join" /\ call[k].then = "again"

Seen(floor) == IF floor > Lag THEN floor - Lag ELSE 0
Shown(c) ==
  /\ scan[c].begun /\ \A d \in Seqs : d > c => ~scan[d].begun
  /\ \A s \in sources : EventsOf(s, 1, Seen(scan[c].floor)) \subseteq events
ShownInv == status = "ready" /\ Owing = {} => \E c \in Seqs : Shown(c)

(* What poller p has scanned, and what it is scanning.                     *)
Handed(p) ==
  /\ poller[p].at # "retry" /\ poller[p].since \subseteq sources
  /\ poller[p].at = "logs" => poller[p].since \subseteq poller[p].snap
  /\ poller[p].first # None =>
       \A s \in poller[p].since, b \in Blocks :
         poller[p].first <= b /\ b < poller[p].cursor => <<s, b>> \in poller[p].handed
CursorInv == failures = 0 => \A p \in 1..MaxPollers : Handed(p)

StoreInv ==
  reloads = 0 /\ pollers = 0 => \A e \in persisted : e[1] \in sources \cup UNION purging

\* Of the organisations, each has a contract to register.
EveryOrgPublishes == \A o \in Orgs : OrgSources[o] # {}

-----------------------------------------------------------------------------
(* Lemmas about the operators of the model.                                *)

\* The constants, one by one.
LEMMA Constants ==
  /\ Lag \in Nat /\ MaxPersisted \in Nat /\ MaxHead \in Nat /\ MaxScans \in Nat
  /\ MaxPollers \in Nat /\ MaxReloads \in Nat /\ MaxFailures \in Nat
  /\ IsFiniteSet(Sources) /\ DocSources \subseteq Sources /\ OrgAll \subseteq Sources
  /\ \A o \in Orgs : OrgSources[o] \subseteq OrgAll
  /\ DocSources \cap OrgAll = {}
BY FeedAssumption DEF FeedAssumption, Sources, OrgAll

\* What is registered, and what is kept of it, is finite.
LEMMA Finite ==
  /\ IsFiniteSet(Event)
  /\ \A S \in SUBSET Event : IsFiniteSet(S)
  /\ \A S \in SUBSET Sources : IsFiniteSet(S) /\ Cardinality(S) \in Nat
  /\ \A S \in SUBSET Seqs : IsFiniteSet(S) /\ Cardinality(S) \in Nat
<1>1. IsFiniteSet(Blocks) /\ IsFiniteSet(Seqs)
  BY Constants, FS_Interval DEF Blocks, Seqs
<1>2. IsFiniteSet(Event)
  BY <1>1, Constants, FS_Product DEF Event
<1> QED  BY <1>1, <1>2, Constants, FS_Subset, FS_CardinalityType

\* The bound on what an RPC backend reports, and on the events of a range.
LEMMA Heads_Bounded ==
  ASSUME head \in 0..MaxHead, NEW from \in 0..MaxHead
  PROVE  \A h \in Heads(from) : h \in 0..MaxHead /\ h <= head /\ h >= Seen(from)
BY Constants DEF Heads, Seen

LEMMA EventsOf_In ==
  /\ \A s \in Sources, lo, hi \in Int : EventsOf(s, lo, hi) \subseteq Event
  /\ \A s, lo, hi, e : e \in EventsOf(s, lo, hi) => e[1] = s
  /\ \A s, e : \A lo, hi \in Int : e \in EventsOf(s, lo, hi)
       <=> \E b \in Blocks : e = <<s, b>> /\ lo <= b /\ b <= hi
BY DEF EventsOf, Event

\* The store takes of a batch what its cap leaves room for.
LEMMA Persisting ==
  ASSUME PageTypes, NEW batch \in SUBSET Event, NEW kept \in PersistEvents(batch)
  PROVE  /\ kept \subseteq persisted \cup batch /\ kept \subseteq Event
         /\ Cardinality(kept) <= MaxPersisted
<1> DEFINE all == persisted \cup batch
           excess == IF Cardinality(all) > MaxPersisted
                     THEN Cardinality(all) - MaxPersisted ELSE 0
<1>1. all \subseteq Event /\ IsFiniteSet(all) /\ Cardinality(all) \in Nat
  BY Finite, FS_CardinalityType DEF PageTypes
<1>2. PICK gone \in SUBSET all : Cardinality(gone) = excess /\ kept = all \ gone
  BY DEF PersistEvents
<1>3. all \cap gone = gone
  OBVIOUS
<1>4. Cardinality(all \ gone) = Cardinality(all) - Cardinality(all \cap gone)
  BY <1>1, FS_Difference
<1>5. Cardinality(kept) = Cardinality(all) - excess
  BY <1>2, <1>3, <1>4
<1>6. Cardinality(kept) <= MaxPersisted
  <2> HIDE DEF all
  <2> QED  BY <1>1, <1>5, Constants
<1> QED  BY <1>1, <1>2, <1>6
-----------------------------------------------------------------------------
(* Call n, the newest, starts a scan or joins one.                         *)

\* The calls after one whose caller refreshes has been taken out, or none.
Left(calls) ==
  /\ calls \in [Seqs -> CallRecord]
  /\ \A c \in Seqs : \/ calls[c] = call[c]
                     \/ call[c].at = "back" /\ calls[c] = NoCall

\* The calls that owe a refresh when call n goes on to "then".
OwingWith(calls, n, then) ==
  {c \in Seqs : calls[c].then = "again"} \cup (IF then = "again" THEN {n} ELSE {})

LEMMA AttemptTypes ==
  ASSUME TypeInv, NEW n \in Seqs, scanSeq' = n, scanSeq <= n,
         NEW then \in {"none", "again", "live"}, NEW snap \in SUBSET Sources, NEW calls,
         Left(calls), Attempt(n, then, snap, calls),
         n + Cardinality(OwingWith(calls, n, then)) <= MaxScans
  PROVE  ScanTypes'
<1> USE DEF ScanTypes
<1>1. scanSeq \in Nat /\ n \in 0..MaxScans /\ MaxScans \in Nat
  BY Constants DEF TypeInv, Seqs
<1>2. /\ inFlight' \in 0..n /\ scan' \in [Seqs -> ScanRecord]
      /\ call' = [calls EXCEPT ![n] = call'[n]] /\ call'[n] \in CallRecord
      /\ call'[n].then = then /\ call'[n].of \in 0..n
  <2>1. CASE OwnScan(n, then, snap, calls)
    <3>1. [begun |-> TRUE, running |-> TRUE, snap |-> snap, floor |-> head] \in ScanRecord
      BY DEF ScanRecord, TypeInv, PageTypes
    <3>2. PICK r : r = [at |-> "own", of |-> n, count |-> Cardinality(snap), then |-> then]
      OBVIOUS
    <3>3. r \in CallRecord /\ r.then = then /\ r.of = n
      BY <1>1, <3>2, Finite DEF CallRecord, Seqs
    <3>4. call' = [calls EXCEPT ![n] = r]
      BY <2>1, <3>2 DEF OwnScan
    <3> QED  BY <1>1, <2>1, <3>1, <3>3, <3>4 DEF OwnScan, TypeInv, Left
  <2>2. CASE JoinScan(n, then, calls)
    <3>1. inFlight \in Seqs /\ call[inFlight].count \in Nat
      BY <2>2, <1>1, Constants DEF JoinScan, TypeInv, Seqs, CallRecord, None
    <3>2. PICK r : r = [at |-> "join", of |-> inFlight, count |-> call[inFlight].count,
                        then |-> then]
      OBVIOUS
    <3>3. r \in CallRecord /\ r.then = then /\ r.of = inFlight
      BY <1>1, <3>1, <3>2 DEF CallRecord, Seqs
    <3>4. call' = [calls EXCEPT ![n] = r]
      BY <2>2, <3>2 DEF JoinScan
    <3> QED  BY <1>1, <2>2, <3>1, <3>3, <3>4 DEF JoinScan, TypeInv, Left, Seqs
  <2> QED  BY <2>1, <2>2 DEF Attempt
<1>3. call' \in [Seqs -> CallRecord] /\ \A c \in Seqs : call'[c].of \in 0..n
  <2>1. \A c \in Seqs : calls[c].of \in 0..scanSeq
    BY <1>1 DEF Left, NoCall, None, TypeInv
  <2> QED  BY <2>1, <1>1, <1>2 DEF Left
<1>4. n + Cardinality(Owing') <= MaxScans
  <2>1. Owing' \subseteq OwingWith(calls, n, then)
    BY <1>2 DEF Owing, OwingWith, Left
  <2>2. OwingWith(calls, n, then) \subseteq Seqs
    BY DEF OwingWith
  <2>3. Cardinality(Owing') <= Cardinality(OwingWith(calls, n, then))
    BY <2>1, <2>2, Finite, FS_Subset
  <2>4. Cardinality(Owing') \in Nat /\ Cardinality(OwingWith(calls, n, then)) \in Nat
    BY <2>2, Finite DEF Owing
  <2> QED  BY <1>1, <2>3, <2>4
<1> QED  BY <1>1, <1>2, <1>3, <1>4

\* Its scan is the one under way, now or already.
LEMMA AttemptFlight ==
  ASSUME TypeInv, FlightInv, NEW n \in Seqs, scanSeq' = n, scanSeq <= n,
         NEW then \in {"none", "again", "live"}, NEW snap \in SUBSET Sources, NEW calls,
         Left(calls), Attempt(n, then, snap, calls), call[n].at \in {"none", "pause"}
  PROVE  FlightInv'
<1>1. /\ scanSeq \in Nat /\ n \in Nat \ {0} /\ n <= MaxScans /\ MaxScans \in Nat
      /\ scan \in [Seqs -> ScanRecord] /\ call \in [Seqs -> CallRecord]
      /\ calls \in [Seqs -> CallRecord] /\ inFlight \in 0..scanSeq
  BY Constants DEF TypeInv, ScanTypes, Seqs, Left
<1>2. \A c \in Seqs : \/ calls[c] = call[c]
                     \/ /\ call[c].at = "back"
                        /\ calls[c].at = "none" /\ calls[c].then = "none"
  BY DEF Left, NoCall
<1>3. CASE OwnScan(n, then, snap, calls)
  <2>1. /\ inFlight = None /\ inFlight' = n /\ scan'[n].running /\ scan'[n].begun
        /\ scan'[n].snap = snap /\ call'[n].at = "own" /\ call'[n].of = n
        /\ call'[n].count = Cardinality(snap)
        /\ \A c \in Seqs \ {n} : scan'[c] = scan[c] /\ call'[c] = calls[c]
    BY <1>1, <1>3 DEF OwnScan
  <2> QED  BY <1>1, <1>2, <2>1 DEF FlightInv, Seqs, None
<1>4. CASE JoinScan(n, then, calls)
  <2>1. /\ inFlight # None /\ inFlight' = inFlight /\ scan' = scan
        /\ call'[n].at = "join" /\ call'[n].of = inFlight
        /\ call'[n].count = call[inFlight].count
        /\ \A c \in Seqs \ {n} : call'[c] = calls[c]
    BY <1>1, <1>4 DEF JoinScan
  <2>2. inFlight \in Seqs /\ inFlight # n
    BY <1>1, <2>1 DEF Seqs, None, FlightInv
  <2>3. /\ call'[inFlight].at = "own" /\ call'[inFlight].count = Cardinality(scan[inFlight].snap)
        /\ call'[n].count = Cardinality(scan[inFlight].snap)
    BY <1>2, <2>1, <2>2 DEF FlightInv
  <2>4. \A c \in Seqs :
          /\ call'[c].at \in {"own", "join"} => call'[c].of = inFlight
          /\ call'[c].at = "own" => c = inFlight
          /\ call'[c].at = "join" => call'[c].count = Cardinality(scan[inFlight].snap)
          /\ c > n => call'[c].at = "none"
          /\ call'[c].then = "again" => call'[c].at # "none"
    <3> TAKE c \in Seqs
    <3>1. CASE c = n
      BY <1>1, <2>1, <2>3, <3>1
    <3>2. CASE c # n
      BY <1>1, <1>2, <2>1, <3>2 DEF FlightInv, Seqs
    <3> QED  BY <3>1, <3>2
  <2> QED  BY <1>1, <2>1, <2>3, <2>4 DEF FlightInv, Seqs
<1> QED  BY <1>3, <1>4 DEF Attempt

\* A scan of its own is of what is registered now; one that it joins may still
\* include what its caller has dropped, but then the caller refreshes again.
LEMMA AttemptNewest ==
  ASSUME TypeInv, FlightInv, NEW n \in Seqs, scanSeq' = n, scanSeq <= n,
         NEW then \in {"none", "again", "live"}, NEW snap \in SUBSET Sources, NEW calls,
         Left(calls), Attempt(n, then, snap, calls), call[n].at \in {"none", "pause"},
         sources' = snap, status' # "ready"
  PROVE  /\ NewestInv'
         /\ SharedInv /\ (sources \subseteq snap \/ then = "again") => SharedInv'
<1>1. /\ scanSeq \in Nat /\ n \in Nat \ {0} /\ n <= MaxScans /\ MaxScans \in Nat
      /\ scan \in [Seqs -> ScanRecord] /\ call \in [Seqs -> CallRecord]
      /\ calls \in [Seqs -> CallRecord] /\ inFlight \in 0..scanSeq
  BY Constants DEF TypeInv, ScanTypes, Seqs, Left
<1>3. CASE OwnScan(n, then, snap, calls)
  <2>1. inFlight' = n /\ scan'[n].snap = snap
    BY <1>1, <1>3 DEF OwnScan
  <2> QED  BY <2>1 DEF NewestInv, SharedInv
<1>4. CASE JoinScan(n, then, calls)
  <2>1. /\ inFlight # None /\ inFlight' = inFlight /\ scan' = scan
        /\ call'[n].at = "join" /\ call'[n].then = then
        /\ \A c \in Seqs \ {n} : call'[c] = calls[c]
    BY <1>1, <1>4 DEF JoinScan
  <2>2. \A k \in Seqs : call[k].at = "join" => k # n /\ call'[k] = call[k]
    BY <2>1 DEF Left
  <2> QED  BY <2>1, <2>2 DEF NewestInv, SharedInv
<1> QED  BY <1>3, <1>4 DEF Attempt

\* The bound's room for the refreshes still owed.
LEMMA RoomWith ==
  ASSUME TypeInv, NEW n \in Seqs, NEW then
  PROVE  LET m == Cardinality(OwingWith(call, n, then)) IN
         /\ m \in Nat /\ m <= Cardinality(Owing) + 1
         /\ then # "again" \/ n \in Owing => m = Cardinality(Owing)
<1>1. IsFiniteSet(Owing) /\ Cardinality(Owing) \in Nat
  BY Finite DEF Owing
<1>2. OwingWith(call, n, then) = Owing \/ OwingWith(call, n, then) = Owing \cup {n}
  BY DEF OwingWith, Owing
<1>3. then # "again" \/ n \in Owing => OwingWith(call, n, then) = Owing
  BY DEF OwingWith, Owing
<1>4. Cardinality(Owing \cup {n}) =
        IF n \in Owing THEN Cardinality(Owing) ELSE Cardinality(Owing) + 1
  BY <1>1, FS_AddElement
<1> QED  BY <1>1, <1>2, <1>3, <1>4
-----------------------------------------------------------------------------
(* The scan under way ends.                                                *)

\* The calls that wait for scan c return; those of "pauses" wait once more.
Answered(c, pauses) ==
  call' = [d \in Seqs |-> IF d \notin Waiting(c) THEN call[d]
                          ELSE IF d \in pauses THEN [call[d] EXCEPT !.at = "pause"]
                          ELSE Returned(d)]

LEMMA ReturnedCall ==
  ASSUME TypeInv, NEW d \in Seqs
  PROVE  /\ Returned(d) \in CallRecord /\ Returned(d).then = call[d].then
         /\ Returned(d).of = None /\ Returned(d).at \in {"none", "back"}
         /\ call[d].at # "none" /\ call[d].then = "again" => Returned(d).at = "back"
         /\ LET r == [call[d] EXCEPT !.at = "pause"] IN
            r \in CallRecord /\ r.then = call[d].then /\ r.at = "pause" /\ r.of = call[d].of
<1>1. PICK r \in CallRecord : r = call[d]
  BY DEF TypeInv, ScanTypes
<1>2. MaxScans \in Nat
  BY Constants
<1>3. PICK a : a = IF r.at # "none" /\ r.then # "none" THEN "back" ELSE "none"
  OBVIOUS
<1>4. a \in {"none", "back"} /\ (r.at # "none" /\ r.then = "again" => a = "back")
  BY <1>3
<1>5. Returned(d) = [r EXCEPT !.at = a, !.of = None]
  BY <1>1, <1>3 DEF Returned
<1>6. PICK b : b = [r EXCEPT !.at = a, !.of = None]
  OBVIOUS
<1>7. b \in CallRecord /\ b.then = r.then /\ b.of = None /\ b.at = a
  <2>1. b = [at |-> a, of |-> None, count |-> r.count, then |-> r.then]
    BY <1>6 DEF CallRecord
  <2>2. r.count \in Nat /\ r.then \in {"none", "again", "live"} /\ None \in 0..MaxScans
    BY <1>2 DEF CallRecord, None
  <2> QED  BY <1>4, <2>1, <2>2 DEF CallRecord
<1>8. PICK q : q = [r EXCEPT !.at = "pause"]
  OBVIOUS
<1>9. q \in CallRecord /\ q.then = r.then /\ q.at = "pause" /\ q.of = r.of
  BY <1>8 DEF CallRecord
<1> QED  BY <1>1, <1>4, <1>5, <1>6, <1>7, <1>8, <1>9

\* What the invariants say of the calls when the scan has ended.
LEMMA Ending ==
  ASSUME TypeInv, FlightInv, NEW c \in Seqs, scan[c].running, NEW pauses,
         scan' = [scan EXCEPT ![c].running = FALSE], inFlight' = Cleared(c),
         Answered(c, pauses), scanSeq' = scanSeq
  PROVE  /\ ScanTypes' /\ FlightInv' /\ SharedInv' /\ Owing' = Owing
         /\ inFlight = c /\ inFlight' = None
         /\ \A d \in Seqs : scan'[d].begun = scan[d].begun /\ scan'[d].snap = scan[d].snap
                            /\ scan'[d].floor = scan[d].floor
         /\ \A d \in Seqs : /\ d \in Waiting(c) <=> call[d].at \in {"own", "join"}
                            /\ d \notin Waiting(c) => call'[d] = call[d]
                            /\ d \in Waiting(c) => call'[d].at \in {"none", "back", "pause"}
                            /\ d \in Waiting(c) \ pauses => call'[d].at \in {"none", "back"}
<1>1. /\ inFlight = c /\ inFlight' = None /\ None \in 0..scanSeq /\ scanSeq \in 0..MaxScans
      /\ scan \in [Seqs -> ScanRecord] /\ call \in [Seqs -> CallRecord]
  BY Constants DEF FlightInv, Cleared, TypeInv, ScanTypes, None, Seqs
<1>2. PICK r \in ScanRecord : r = [scan[c] EXCEPT !.running = FALSE]
  BY <1>1 DEF ScanRecord
<1>3. /\ r.begun = scan[c].begun /\ r.snap = scan[c].snap /\ r.floor = scan[c].floor
      /\ ~r.running
  BY <1>1, <1>2 DEF ScanRecord
<1>4. scan' = [scan EXCEPT ![c] = r]
  BY <1>2
<1>5. /\ scan' \in [Seqs -> ScanRecord]
      /\ \A d \in Seqs : /\ scan'[d].begun = scan[d].begun /\ scan'[d].snap = scan[d].snap
                         /\ scan'[d].floor = scan[d].floor
                         /\ ~scan'[d].running
  BY <1>1, <1>3, <1>4 DEF FlightInv
<1>6. \A d \in Seqs :
        /\ call'[d] \in CallRecord /\ call'[d].then = call[d].then
        /\ call'[d].of \in {None, call[d].of}
        /\ d \notin Waiting(c) => call'[d] = call[d]
        /\ d \in Waiting(c) => call'[d].at \in {"none", "back", "pause"}
        /\ d \in Waiting(c) \ pauses => call'[d].at \in {"none", "back"}
        /\ d \in Waiting(c) /\ call[d].then = "again" => call'[d].at # "none"
  <2> TAKE d \in Seqs
  <2>1. CASE d \notin Waiting(c)
    BY <1>1, <2>1 DEF Answered
  <2>2. CASE d \in Waiting(c)
    <3>1. call[d].at # "none"
      BY <2>2 DEF Waiting
    <3>2. PICK back : back = Returned(d)
      OBVIOUS
    <3>3. PICK pause : pause = [call[d] EXCEPT !.at = "pause"]
      OBVIOUS
    <3>4. call'[d] = IF d \in pauses THEN pause ELSE back
      BY <2>2, <3>2, <3>3 DEF Answered
    <3>5. /\ back \in CallRecord /\ back.then = call[d].then /\ back.of = None
          /\ back.at \in {"none", "back"} /\ (call[d].then = "again" => back.at = "back")
          /\ pause \in CallRecord /\ pause.then = call[d].then /\ pause.at = "pause"
          /\ pause.of = call[d].of
      BY <3>1, <3>2, <3>3, ReturnedCall
    <3> QED  BY <2>2, <3>4, <3>5
  <2> QED  BY <2>1, <2>2
<1>7. call' \in [Seqs -> CallRecord] /\ Owing' = Owing
  <2>1. \A d \in Seqs : call'[d] \in CallRecord /\ call'[d].then = call[d].then
    BY <1>6
  <2>2. call' \in [Seqs -> CallRecord]
    BY <2>1 DEF Answered
  <2>3. Owing' = Owing
    BY <2>1 DEF Owing
  <2> QED  BY <2>2, <2>3
<1>8. \A d \in Seqs : d \in Waiting(c) <=> call[d].at \in {"own", "join"}
  BY <1>1 DEF Waiting, FlightInv
<1>9. ScanTypes'
  BY <1>1, <1>5, <1>6, <1>7 DEF ScanTypes, TypeInv
<1>10. FlightInv'
  BY <1>1, <1>5, <1>6, <1>8 DEF FlightInv, Seqs, None
<1> QED  BY <1>1, <1>5, <1>6, <1>7, <1>8, <1>9, <1>10 DEF SharedInv
-----------------------------------------------------------------------------
(* The actions that call runScan.                                          *)

LEMMA Asking ==
  ASSUME TypeInv, FlightInv,
         NEW then \in {"none", "again", "live"}, NEW snap \in SUBSET Sources, NEW calls,
         Left(calls), RunScan(then, snap, calls), sources' = snap,
         scanSeq + 1 + Cardinality(OwingWith(calls, scanSeq + 1, then)) <= MaxScans,
         Cardinality(OwingWith(calls, scanSeq + 1, then)) \in Nat
  PROVE  /\ ScanTypes' /\ FlightInv' /\ NewestInv' /\ ShownInv'
         /\ SharedInv /\ (sources \subseteq snap \/ then = "again") => SharedInv'
<1>1. PICK n : n = scanSeq + 1
  OBVIOUS
<1>2. n \in Seqs /\ scanSeq' = n /\ scanSeq <= n /\ Attempt(n, then, snap, calls)
  BY <1>1, Constants DEF RunScan, TypeInv, ScanTypes, Seqs
<1>3. call[n].at = "none"
  <2>1. n > scanSeq
    BY <1>1 DEF TypeInv, ScanTypes
  <2> QED  BY <1>2, <2>1 DEF FlightInv
<1>4. status' # "ready"
  BY DEF RunScan
<1>5. n + Cardinality(OwingWith(calls, n, then)) <= MaxScans
  BY <1>1
<1>6. ScanTypes'
  BY <1>2, <1>5, AttemptTypes
<1>7. FlightInv'
  BY <1>2, <1>3, AttemptFlight
<1>8. NewestInv' /\ (SharedInv /\ (sources \subseteq snap \/ then = "again") => SharedInv')
  BY <1>2, <1>3, <1>4, AttemptNewest
<1> QED  BY <1>4, <1>6, <1>7, <1>8 DEF ShownInv

\* runScan as Refresh, AddSource, ReplaceOrgSources and StartLive call it.
LEMMA AskingInTurn ==
  ASSUME TypeInv, FlightInv, NEW then \in {"none", "again", "live"},
         RunScan(then, sources', call), sources' \in SUBSET Sources,
         Room(IF then = "again" THEN 2 ELSE 1)
  PROVE  /\ ScanTypes' /\ FlightInv' /\ NewestInv' /\ ShownInv'
         /\ SharedInv /\ (sources \subseteq sources' \/ then = "again") => SharedInv'
<1>1. PICK snap \in SUBSET Sources : snap = sources'
  OBVIOUS
<1>2. Left(call)
  BY DEF Left, TypeInv, ScanTypes
<1>3. /\ scanSeq \in Nat /\ Cardinality(Owing) \in Nat /\ scanSeq + 1 \in Seqs
      /\ scanSeq + (IF then = "again" THEN 2 ELSE 1) + Cardinality(Owing) <= MaxScans
  <2>1. Cardinality(Owing) \in Nat
    BY Finite DEF Owing
  <2> QED  BY <2>1, Constants DEF Room, Owing, TypeInv, ScanTypes, Seqs
<1>4. PICK n \in Seqs : n = scanSeq + 1
  BY <1>3
<1>5. PICK m : m = Cardinality(OwingWith(call, n, then))
  OBVIOUS
<1>6. m \in Nat /\ m <= Cardinality(Owing) + 1 /\ (then # "again" => m = Cardinality(Owing))
  BY <1>5, RoomWith
<1>7. scanSeq + 1 + m <= MaxScans
  BY <1>3, <1>6, Constants
<1>8. PICK calls : calls = call
  OBVIOUS
<1>9. RunScan(then, snap, calls) /\ Left(calls)
  BY <1>1, <1>2, <1>8
<1> QED  BY <1>1, <1>4, <1>5, <1>6, <1>7, <1>8, <1>9, Asking

LEMMA RefreshScans ==
  ASSUME TypeInv, FlightInv, Refresh
  PROVE  ScanTypes' /\ FlightInv' /\ NewestInv' /\ ShownInv' /\ (SharedInv => SharedInv')
<1>1. sources' = sources /\ sources' \in SUBSET Sources /\ Room(1)
  BY DEF Refresh, TypeInv, PageTypes
<1>2. RunScan("none", sources', call)
  BY <1>1 DEF Refresh
<1> QED  BY <1>1, <1>2, AskingInTurn

LEMMA StartScans ==
  ASSUME TypeInv, FlightInv, StartLive
  PROVE  ScanTypes' /\ FlightInv' /\ NewestInv' /\ ShownInv' /\ (SharedInv => SharedInv')
<1>1. sources' = sources /\ sources' \in SUBSET Sources /\ Room(1)
  BY DEF StartLive, TypeInv, PageTypes
<1>2. RunScan("live", sources', call)
  BY <1>1 DEF StartLive
<1> QED  BY <1>1, <1>2, AskingInTurn

LEMMA AddScans ==
  ASSUME TypeInv, FlightInv, NEW s \in DocSources, AddSource(s)
  PROVE  ScanTypes' /\ FlightInv' /\ NewestInv' /\ ShownInv' /\ (SharedInv => SharedInv')
<1>1. sources \subseteq sources' /\ sources' \in SUBSET Sources /\ Room(1)
  BY Constants DEF AddSource, TypeInv, PageTypes
<1>2. RunScan("none", sources', call)
  BY DEF AddSource
<1> QED  BY <1>1, <1>2, AskingInTurn

\* When contracts were dropped and others registered, the call that may join a
\* scan of the old ones refreshes once more.
LEMMA ReplaceScans ==
  ASSUME TypeInv, FlightInv, NEW o \in Orgs, ReplaceOrgSources(o)
  PROVE  /\ ScanTypes' /\ FlightInv' /\ NewestInv' /\ ShownInv'
         /\ OrgSources[o] # {} /\ SharedInv => SharedInv'
<1> DEFINE removed == sources \cap OrgAll
<1>1. sources' \in SUBSET Sources /\ Room(2) /\ Room(1)
  <2>1. sources' \in SUBSET Sources /\ Room(2)
    BY Constants DEF ReplaceOrgSources, TypeInv, PageTypes
  <2>2. Cardinality({c \in Seqs : call[c].then = "again"}) \in Nat
    BY Finite
  <2> QED  BY <2>1, <2>2, Constants DEF Room, TypeInv, ScanTypes
<1>2. CASE OrgSources[o] # {} /\ removed # {}
  <2>1. RunScan("again", sources', call)
    BY <1>2 DEF ReplaceOrgSources
  <2> QED  BY <1>1, <2>1, AskingInTurn
<1>3. CASE OrgSources[o] # {} /\ removed = {}
  <2>1. RunScan("none", sources', call) /\ sources \subseteq sources'
    BY <1>3 DEF ReplaceOrgSources
  <2> QED  BY <1>1, <2>1, AskingInTurn
<1>4. CASE OrgSources[o] = {}
  <2>1. RunScan("none", sources', call)
    BY <1>4 DEF ReplaceOrgSources
  <2> QED  BY <1>1, <1>4, <2>1, AskingInTurn
<1> QED  BY <1>2, <1>3, <1>4

LEMMA AgainScans ==
  ASSUME TypeInv, FlightInv, NEW c \in Seqs, RefreshAgain(c)
  PROVE  ScanTypes' /\ FlightInv' /\ NewestInv' /\ ShownInv' /\ (SharedInv => SharedInv')
<1>1. PICK calls : calls = [call EXCEPT ![c] = NoCall]
  OBVIOUS
<1>2. Left(calls)
  <2>1. NoCall \in CallRecord
    BY Constants DEF NoCall, CallRecord, None
  <2> QED  BY <1>1, <2>1 DEF Left, RefreshAgain, TypeInv, ScanTypes
<1>3. PICK snap \in SUBSET Sources : snap = sources
  BY DEF TypeInv, PageTypes
<1>4. RunScan("none", snap, calls) /\ sources' = snap
  BY <1>1, <1>3 DEF RefreshAgain
<1>5. PICK n : n = scanSeq + 1
  OBVIOUS
<1>6. OwingWith(calls, n, "none") = Owing \ {c} /\ c \in Owing
  BY <1>1 DEF OwingWith, Owing, RefreshAgain, NoCall, TypeInv, ScanTypes
<1>7. /\ IsFiniteSet(Owing) /\ Cardinality(Owing) \in Nat
      /\ Cardinality(Owing \ {c}) \in Nat
  BY Finite DEF Owing
<1>8. Cardinality(Owing \ {c}) = Cardinality(Owing) - 1
  BY <1>6, <1>7, FS_RemoveElement
<1>9. scanSeq + 1 + Cardinality(Owing \ {c}) <= MaxScans
  BY <1>7, <1>8, Constants DEF TypeInv, ScanTypes
<1> QED  BY <1>2, <1>3, <1>4, <1>5, <1>6, <1>7, <1>9, Asking
-----------------------------------------------------------------------------
(* The actions that end a scan or a wait.                                  *)

\* The result that is shown is the newest call's, and its scan included every
\* contract that is registered: it was its own, or one of as many contracts,
\* all of which still are.
LEMMA ShownWhole ==
  ASSUME TypeInv, FlightInv, NewestInv, NEW c \in Seqs, scan[c].running,
         NEW d \in Waiting(c), Shows(d)
  PROVE  /\ d = scanSeq /\ ~Pauses(d)
         /\ scan[c].snap \subseteq sources => sources = scan[c].snap
         /\ call[scanSeq].at = "own" => sources = scan[c].snap
<1>1. d = scanSeq /\ d \in Seqs /\ call[d].at \in {"own", "join"} /\ ~Pauses(d)
  BY DEF Shows, Newest, Pauses, Waiting
<1>2. c = inFlight /\ inFlight # None
  BY DEF FlightInv, Seqs, None
<1>3. call[scanSeq].at = "own" => sources = scan[c].snap
  BY <1>1, <1>2 DEF FlightInv, NewestInv, Seqs
<1>4. ASSUME call[d].at = "join", scan[c].snap \subseteq sources
      PROVE  sources = scan[c].snap
  <2>1. call[d].count = Cardinality(scan[c].snap) /\ call[d].count = Cardinality(sources)
    BY <1>1, <1>2, <1>4 DEF FlightInv, Shows, SameSources
  <2>2. IsFiniteSet(sources)
    BY Finite DEF TypeInv, PageTypes
  <2> QED  BY <1>4, <2>1, <2>2, FS_Subset
<1> QED  BY <1>1, <1>3, <1>4

LEMMA SettleScans ==
  ASSUME TypeInv, FlightInv, NewestInv, NEW c \in Seqs, ScanSettles(c)
  PROVE  /\ ScanTypes' /\ FlightInv' /\ NewestInv' /\ SharedInv'
         /\ SharedInv /\ ShownInv => ShownInv'
<1>1. PICK pauses : pauses = {d \in Seqs : Pauses(d)}
  OBVIOUS
<1>2. /\ scan[c].running /\ scan' = [scan EXCEPT ![c].running = FALSE]
      /\ inFlight' = Cleared(c) /\ Answered(c, pauses) /\ scanSeq' = scanSeq
      /\ sources' = sources /\ head' = head
  BY <1>1 DEF ScanSettles, Answered, scans, Waiting
<1>3. /\ ScanTypes' /\ FlightInv' /\ SharedInv' /\ Owing' = Owing
      /\ inFlight = c /\ inFlight' = None
      /\ \A d \in Seqs : scan'[d].begun = scan[d].begun /\ scan'[d].snap = scan[d].snap
                         /\ scan'[d].floor = scan[d].floor
      /\ \A d \in Seqs : /\ d \in Waiting(c) <=> call[d].at \in {"own", "join"}
                         /\ d \notin Waiting(c) => call'[d] = call[d]
                         /\ d \in Waiting(c) => call'[d].at \in {"none", "back", "pause"}
                         /\ d \in Waiting(c) \ pauses => call'[d].at \in {"none", "back"}
  BY <1>2, Ending
<1>4. scanSeq # 0 => scanSeq \in Seqs
  BY Constants DEF TypeInv, ScanTypes, Seqs
<1>5. PICK got \in [scan[c].snap -> Heads(scan[c].floor)] :
        LET batch == UNION {EventsOf(s, 1, got[s]) : s \in scan[c].snap}
        IN IF \E d \in Waiting(c) : Shows(d)
           THEN events' = batch /\ status' = "ready"
           ELSE events' = events /\ status' = status
  BY DEF ScanSettles, provider
<1>6. CASE \E d \in Waiting(c) : Shows(d)
  <2>1. /\ scanSeq \in Waiting(c) \ pauses
        /\ scan[c].snap \subseteq sources => sources = scan[c].snap
        /\ call[scanSeq].at = "own" => sources = scan[c].snap
    BY <1>1, <1>2, <1>6, ShownWhole
  <2>2. scanSeq \in Seqs /\ call'[scanSeq].at \in {"none", "back"}
    BY <1>3, <2>1 DEF Waiting
  <2>3. NewestInv'
    BY <1>2, <2>2 DEF NewestInv, Seqs
  <2>4. ASSUME SharedInv, Owing = {} PROVE Shown(c)'
    <3>1. sources = scan[c].snap
      <4>1. ~\E k \in Seqs : call[k].at = "join" /\ call[k].then = "again"
        BY <2>4 DEF Owing
      <4> QED  BY <1>3, <2>1, <2>4, <4>1 DEF SharedInv, Seqs, None
    <3>2. scan'[c].begun /\ \A d \in Seqs : d > c => ~scan'[d].begun
      BY <1>3 DEF FlightInv, Seqs, None
    <3>3. scan[c].floor \in 0..MaxHead
      BY DEF TypeInv, ScanTypes, ScanRecord
    <3>4. ASSUME NEW s \in sources
          PROVE  EventsOf(s, 1, Seen(scan[c].floor)) \subseteq events'
      <4>1. got[s] \in 0..MaxHead /\ got[s] >= Seen(scan[c].floor)
        BY <3>1, <3>3, <3>4, Heads_Bounded DEF TypeInv, PageTypes
      <4>2. Seen(scan[c].floor) \in Nat
        BY <3>3, Constants DEF Seen
      <4>3. EventsOf(s, 1, Seen(scan[c].floor)) \subseteq EventsOf(s, 1, got[s])
        BY <4>1, <4>2, Constants DEF EventsOf, Blocks
      <4>4. EventsOf(s, 1, got[s]) \subseteq events'
        BY <1>5, <1>6, <3>1, <3>4
      <4> QED  BY <4>3, <4>4
    <3> QED  BY <1>2, <1>3, <3>2, <3>4 DEF Shown
  <2> QED  BY <1>3, <2>3, <2>4 DEF ShownInv
<1>7. CASE ~\E d \in Waiting(c) : Shows(d)
  <2>1. events' = events /\ status' = status
    BY <1>5, <1>7
  <2>2. NewestInv'
    BY <1>2, <1>3, <1>4, <2>1 DEF NewestInv
  <2>3. ShownInv => ShownInv'
    BY <1>2, <1>3, <2>1 DEF ShownInv, Shown
  <2> QED  BY <1>3, <2>2, <2>3
<1> QED  BY <1>6, <1>7

LEMMA FailScans ==
  ASSUME TypeInv, FlightInv, NewestInv, NEW c \in Seqs, ScanFails(c)
  PROVE  /\ ScanTypes' /\ FlightInv' /\ NewestInv' /\ SharedInv'
         /\ ShownInv => ShownInv'
<1>2. /\ scan[c].running /\ scan' = [scan EXCEPT ![c].running = FALSE]
      /\ inFlight' = Cleared(c) /\ Answered(c, {}) /\ scanSeq' = scanSeq
      /\ sources' = sources /\ events' = events
      /\ status' = "error" \/ status' = status
  BY DEF ScanFails, Answered, Waiting
<1>3. /\ ScanTypes' /\ FlightInv' /\ SharedInv' /\ Owing' = Owing
      /\ inFlight = c /\ inFlight' = None
      /\ \A d \in Seqs : scan'[d].begun = scan[d].begun /\ scan'[d].snap = scan[d].snap
                         /\ scan'[d].floor = scan[d].floor
      /\ \A d \in Seqs : /\ d \in Waiting(c) <=> call[d].at \in {"own", "join"}
                         /\ d \notin Waiting(c) => call'[d] = call[d]
                         /\ d \in Waiting(c) => call'[d].at \in {"none", "back", "pause"}
                         /\ d \in Waiting(c) \ {} => call'[d].at \in {"none", "back"}
  BY <1>2, Ending
<1>4. scanSeq # 0 => scanSeq \in Seqs
  BY Constants DEF TypeInv, ScanTypes, Seqs
<1>5. NewestInv'
  BY <1>2, <1>3, <1>4 DEF NewestInv
<1>6. ShownInv => ShownInv'
  BY <1>2, <1>3 DEF ShownInv, Shown
<1> QED  BY <1>3, <1>5, <1>6

LEMMA PauseScans ==
  ASSUME TypeInv, FlightInv, NewestInv, NEW c \in Seqs, PauseEnds(c)
  PROVE  /\ ScanTypes' /\ FlightInv' /\ NewestInv' /\ (SharedInv => SharedInv')
         /\ ShownInv => ShownInv'
<1>1. /\ call[c].at = "pause" /\ scanSeq' = scanSeq /\ sources' = sources
      /\ status' = status /\ events' = events
      /\ scan \in [Seqs -> ScanRecord] /\ call \in [Seqs -> CallRecord]
      /\ scanSeq \in 0..MaxScans
  BY DEF PauseEnds, provider, TypeInv, ScanTypes
<1>2. CASE Newest(c)
  <2>1. PICK then \in {"none", "again", "live"} : then = call[c].then
    BY <1>1 DEF CallRecord
  <2>2. PICK snap \in SUBSET Sources : snap = sources
    BY DEF TypeInv, PageTypes
  <2>3. PICK calls : calls = call
    OBVIOUS
  <2>4. /\ Left(calls) /\ Attempt(c, then, snap, calls) /\ c = scanSeq
        /\ call[c].at \in {"none", "pause"} /\ scanSeq' = c /\ scanSeq <= c
    BY <1>1, <1>2, <2>1, <2>2, <2>3 DEF Left, PauseEnds, Newest
  <2>5. status' # "ready"
    BY <1>1, <2>4 DEF NewestInv
  <2>6. c + Cardinality(OwingWith(calls, c, then)) <= MaxScans
    <3>1. then = "again" => c \in Owing
      BY <2>1 DEF Owing
    <3>2. PICK m : m = Cardinality(OwingWith(call, c, then))
      OBVIOUS
    <3>3. m = Cardinality(Owing)
      BY <3>1, <3>2, RoomWith
    <3> QED  BY <2>3, <2>4, <3>2, <3>3 DEF TypeInv, ScanTypes
  <2>7. ScanTypes' /\ FlightInv'
    BY <2>4, <2>6, AttemptTypes, AttemptFlight
  <2>8. NewestInv' /\ (SharedInv => SharedInv')
    BY <1>1, <2>2, <2>4, <2>5, AttemptNewest
  <2> QED  BY <2>5, <2>7, <2>8 DEF ShownInv
<1>3. CASE ~Newest(c)
  <2>1. PICK back : back = Returned(c)
    OBVIOUS
  <2>2. /\ back \in CallRecord /\ back.then = call[c].then /\ back.of = None
        /\ back.at \in {"none", "back"}
        /\ call[c].at # "none" /\ call[c].then = "again" => back.at = "back"
    BY <2>1, ReturnedCall
  <2>3. /\ call' = [call EXCEPT ![c] = back] /\ inFlight' = inFlight /\ scan' = scan
        /\ c # scanSeq
    BY <1>3, <2>1 DEF PauseEnds, Newest
  <2>4. Owing' = Owing
    BY <1>1, <2>2, <2>3 DEF Owing
  <2>5. ScanTypes'
    BY <1>1, <2>2, <2>3, <2>4 DEF ScanTypes, TypeInv, None
  <2>6. FlightInv'
    BY <1>1, <2>2, <2>3 DEF FlightInv
  <2>7. NewestInv'
    BY <1>1, <2>2, <2>3, Constants DEF NewestInv, Seqs
  <2>8. SharedInv => SharedInv'
    BY <1>1, <2>2, <2>3 DEF SharedInv
  <2>9. ShownInv => ShownInv'
    BY <1>1, <2>3, <2>4 DEF ShownInv, Shown
  <2> QED  BY <2>5, <2>6, <2>7, <2>8, <2>9
<1> QED  BY <1>2, <1>3
-----------------------------------------------------------------------------
(* The scans under the other actions.                                      *)

LEMMA RestScans ==
  ASSUME TypeInv, FlightInv, NewestInv, UNCHANGED <<sources, status, scans>>,
         events \subseteq events'
  PROVE  /\ ScanTypes' /\ FlightInv' /\ NewestInv' /\ (SharedInv => SharedInv')
         /\ ShownInv => ShownInv'
<1> USE DEF scans
<1>1. ScanTypes' /\ FlightInv' /\ Owing' = Owing
  BY DEF TypeInv, ScanTypes, FlightInv, Owing
<1>2. NewestInv' /\ (SharedInv => SharedInv')
  BY DEF NewestInv, SharedInv
<1>3. ShownInv => ShownInv'
  BY <1>1 DEF ShownInv, Shown
<1> QED  BY <1>1, <1>2, <1>3

LEMMA WatchScans ==
  ASSUME TypeInv, FlightInv, NewestInv, NEW c \in Seqs, WatchLive(c)
  PROVE  /\ ScanTypes' /\ FlightInv' /\ NewestInv' /\ (SharedInv => SharedInv')
         /\ ShownInv => ShownInv'
<1>1. /\ call[c].at = "back" /\ call[c].then = "live" /\ call' = [call EXCEPT ![c] = NoCall]
      /\ scanSeq' = scanSeq /\ inFlight' = inFlight /\ scan' = scan
      /\ sources' = sources /\ status' = status /\ events' = events
      /\ call \in [Seqs -> CallRecord]
  BY DEF WatchLive, provider, TypeInv, ScanTypes
<1>2. NoCall \in CallRecord /\ NoCall.at = "none" /\ NoCall.then = "none" /\ NoCall.of = None
  BY Constants DEF NoCall, CallRecord, None
<1>3. Owing' = Owing
  BY <1>1, <1>2 DEF Owing
<1>4. ScanTypes'
  BY <1>1, <1>2, <1>3 DEF ScanTypes, TypeInv, None
<1>5. FlightInv'
  BY <1>1, <1>2 DEF FlightInv
<1>6. NewestInv'
  <2>1. scanSeq # 0 => scanSeq \in Seqs
    BY Constants DEF TypeInv, ScanTypes, Seqs
  <2> QED  BY <1>1, <1>2, <2>1 DEF NewestInv
<1>7. SharedInv => SharedInv'
  BY <1>1 DEF SharedInv
<1>8. ShownInv => ShownInv'
  BY <1>1, <1>3 DEF ShownInv, Shown
<1> QED  BY <1>4, <1>5, <1>6, <1>7, <1>8

LEMMA FreshScans ==
  /\ NoScans \in [Seqs -> ScanRecord] /\ NoCalls \in [Seqs -> CallRecord]
  /\ NoPollers \in [1..MaxPollers -> PollerRecord]
  /\ \A c \in Seqs : NoCalls[c] = NoCall /\ NoScans[c] = NoScan
  /\ \A p \in 1..MaxPollers : NoPollers[p] = NoPoller
  /\ NoCall.at = "none" /\ NoCall.then = "none" /\ NoCall.of = None
  /\ ~NoScan.running /\ ~NoScan.begun
<1>1. NoScan \in ScanRecord
  BY Constants DEF NoScan, ScanRecord
<1>2. NoCall \in CallRecord
  BY Constants DEF NoCall, CallRecord, None
<1>3. NoPoller \in PollerRecord
  BY Constants DEF NoPoller, PollerRecord, None
<1> QED  BY <1>1, <1>2, <1>3 DEF NoScans, NoCalls, NoPollers, NoCall, NoScan

\* A page that has just been opened.
LEMMA OpenedScans ==
  ASSUME scanSeq' = 0, inFlight' = None, scan' = NoScans, call' = NoCalls, status' = "idle"
  PROVE  ScanTypes' /\ FlightInv' /\ NewestInv' /\ SharedInv' /\ ShownInv'
<1>1. Owing' = {} /\ Cardinality(Owing') = 0
  BY FreshScans, FS_EmptySet DEF Owing
<1>2. ScanTypes'
  BY <1>1, FreshScans, Constants DEF ScanTypes, None
<1>3. FlightInv'
  BY FreshScans DEF FlightInv, Seqs, None
<1> QED  BY <1>2, <1>3 DEF NewestInv, SharedInv, ShownInv

-----------------------------------------------------------------------------
(* The page, the store and the pollers.                                    *)

\* A step that starts no poller and moves none.
LEMMA LiveKept ==
  ASSUME TypeInv, UNCHANGED <<stopRef, poller, pollers>>, isLive' \in BOOLEAN,
         sources \subseteq sources', failures' = failures \/ failures' = failures + 1
  PROVE  LiveTypes' /\ (CursorInv => CursorInv')
<1>1. LiveTypes'
  BY DEF TypeInv, LiveTypes
<1>2. CursorInv => CursorInv'
  <2>1. failures' = 0 => failures = 0
    BY DEF TypeInv, PageTypes
  <2> QED  BY <2>1 DEF CursorInv, Handed
<1> QED  BY <1>1, <1>2

\* What the callers of runScan leave of the page.
LEMMA AskPage ==
  ASSUME TypeInv, \/ Refresh \/ StartLive \/ \E s \in DocSources : AddSource(s)
                  \/ \E c \in Seqs : RefreshAgain(c)
  PROVE  PageTypes' /\ LiveTypes' /\ (StoreInv => StoreInv') /\ (CursorInv => CursorInv')
<1>1. /\ UNCHANGED <<head, events, stopRef, poller, pollers, persisted, purging, reloads,
                     failures>>
      /\ sources \subseteq sources' /\ sources' \subseteq Sources /\ isLive' \in BOOLEAN
      /\ status' = "loading"
  BY Constants DEF Refresh, StartLive, AddSource, RefreshAgain, RunScan, live, store, TypeInv,
     PageTypes, LiveTypes
<1>2. PageTypes'
  BY <1>1 DEF TypeInv, PageTypes, Statuses
<1>3. LiveTypes' /\ (CursorInv => CursorInv')
  BY <1>1, LiveKept
<1> QED  BY <1>1, <1>2, <1>3 DEF StoreInv

\* What the end of a scan, a block and the store's answer do to the page.
LEMMA ScanPage ==
  ASSUME TypeInv, FlightInv, NewestInv,
         \/ \E c \in Seqs : ScanSettles(c) \/ ScanFails(c) \/ PauseEnds(c)
         \/ Mine \/ Hydrate
  PROVE  PageTypes' /\ LiveTypes' /\ (StoreInv => StoreInv') /\ (CursorInv => CursorInv')
<1>1. /\ UNCHANGED <<sources, isLive, stopRef, poller, pollers, purging, reloads>>
      /\ failures' = failures \/ failures' = failures + 1
  BY DEF ScanSettles, ScanFails, PauseEnds, Mine, Hydrate, live, store, scans, provider
<1>2. LiveTypes' /\ (CursorInv => CursorInv')
  BY <1>1, LiveKept DEF TypeInv, LiveTypes
<1>3. ASSUME NEW c \in Seqs, ScanSettles(c)
      PROVE  PageTypes' /\ (StoreInv => StoreInv')
  <2>1. PICK got, batch :
          /\ got \in [scan[c].snap -> Heads(scan[c].floor)]
          /\ batch = UNION {EventsOf(s, 1, got[s]) : s \in scan[c].snap}
          /\ IF \E d \in Waiting(c) : Shows(d)
             THEN /\ events' = batch
                  /\ status' = "ready"
                  /\ IF call[scanSeq].at = "own"
                     THEN persisted' \in PersistEvents(batch)
                     ELSE UNCHANGED persisted
             ELSE UNCHANGED <<provider, persisted>>
    BY <1>3 DEF ScanSettles
  <2>2. head' = head /\ failures' = failures /\ scan[c].running
    BY <1>3 DEF ScanSettles
  <2>3. batch \subseteq Event /\ \A e \in batch : e[1] \in scan[c].snap
    <3>1. scan[c].snap \subseteq Sources /\ scan[c].floor \in 0..MaxHead
      BY DEF TypeInv, ScanTypes, ScanRecord
    <3>2. \A s \in scan[c].snap : got[s] \in Int
      BY <2>1, <3>1, Heads_Bounded DEF TypeInv, PageTypes
    <3> QED  BY <2>1, <3>1, <3>2, EventsOf_In
  <2>4. CASE persisted' = persisted /\ events' \subseteq Event /\ status' \in Statuses
    BY <1>1, <2>2, <2>4 DEF TypeInv, PageTypes, StoreInv, LiveTypes
  <2>5. CASE /\ persisted' \in PersistEvents(batch) /\ events' = batch /\ status' = "ready"
             /\ call[scanSeq].at = "own" /\ \E d \in Waiting(c) : Shows(d)
    <3>1. /\ persisted' \subseteq persisted \cup batch /\ persisted' \subseteq Event
          /\ Cardinality(persisted') <= MaxPersisted
      BY <2>3, <2>5, Persisting DEF TypeInv
    <3>2. sources = scan[c].snap
      BY <2>2, <2>5, ShownWhole
    <3>3. PageTypes'
      BY <1>1, <2>2, <2>3, <2>5, <3>1 DEF TypeInv, PageTypes, Statuses
    <3>4. StoreInv => StoreInv'
      BY <1>1, <2>3, <3>1, <3>2 DEF StoreInv
    <3> QED  BY <3>3, <3>4
  <2> QED  BY <2>1, <2>3, <2>4, <2>5 DEF provider, TypeInv, PageTypes, Statuses
<1>4. ASSUME NEW c \in Seqs, ScanFails(c) \/ PauseEnds(c)
      PROVE  PageTypes' /\ (StoreInv => StoreInv')
  <2>1. /\ UNCHANGED <<head, events, persisted>> /\ status' \in {"error", status}
        /\ failures' \in Nat
    BY <1>4 DEF ScanFails, PauseEnds, provider, store, TypeInv, PageTypes
  <2> QED  BY <1>1, <2>1 DEF TypeInv, PageTypes, Statuses, StoreInv
<1>5. ASSUME Mine PROVE PageTypes' /\ (StoreInv => StoreInv')
  <2>1. UNCHANGED <<events, status, persisted, failures>> /\ head' \in 0..MaxHead
    BY <1>5, Constants DEF Mine, provider, store, TypeInv, PageTypes
  <2> QED  BY <1>1, <2>1 DEF TypeInv, PageTypes, StoreInv
<1>6. ASSUME Hydrate PROVE PageTypes' /\ (StoreInv => StoreInv')
  <2>1. UNCHANGED <<head, status, persisted, failures>> /\ events' \subseteq Event
    BY <1>6 DEF Hydrate, TypeInv, PageTypes
  <2> QED  BY <1>1, <2>1 DEF TypeInv, PageTypes, StoreInv
<1> QED  BY <1>2, <1>3, <1>4, <1>5, <1>6
\* A change of organisation takes the old contracts out of the page, the store
\* and what every poller has to deliver.
LEMMA ReplacePage ==
  ASSUME TypeInv, NEW o \in Orgs, ReplaceOrgSources(o)
  PROVE  PageTypes' /\ LiveTypes' /\ (StoreInv => StoreInv') /\ (CursorInv => CursorInv')
<1>1. PICK removed : removed = sources \cap OrgAll
  OBVIOUS
<1>2. /\ UNCHANGED <<head, isLive, stopRef, pollers, persisted, reloads, failures>>
      /\ sources' = (sources \ OrgAll) \cup OrgSources[o]
      /\ events' = {e \in events : e[1] \notin removed}
      /\ purging' = purging \cup ({removed} \ {{}})
      /\ poller' = [p \in DOMAIN poller |->
                      [poller[p] EXCEPT !.since = poller[p].since \ removed]]
      /\ status' = "loading"
  BY <1>1 DEF ReplaceOrgSources, RunScan
<1>3. sources' \subseteq Sources /\ sources \ removed \subseteq sources'
  BY <1>1, <1>2, Constants DEF TypeInv, PageTypes
<1>4. PageTypes'
  BY <1>1, <1>2, <1>3 DEF TypeInv, PageTypes, Statuses
<1>5. /\ poller' \in [1..MaxPollers -> PollerRecord]
      /\ \A p \in 1..MaxPollers :
           /\ poller'[p].since = poller[p].since \ removed
           /\ poller'[p].at = poller[p].at /\ poller'[p].snap = poller[p].snap
           /\ poller'[p].first = poller[p].first /\ poller'[p].cursor = poller[p].cursor
           /\ poller'[p].handed = poller[p].handed
           /\ poller[p] = NoPoller => poller'[p] = NoPoller
  <2>1. poller \in [1..MaxPollers -> PollerRecord]
    BY DEF TypeInv, LiveTypes
  <2>2. \A p \in 1..MaxPollers : \E r \in PollerRecord :
          /\ poller'[p] = r /\ r.since = poller[p].since \ removed
          /\ r.at = poller[p].at /\ r.snap = poller[p].snap
          /\ r.first = poller[p].first /\ r.cursor = poller[p].cursor
          /\ r.handed = poller[p].handed
          /\ poller[p] = NoPoller => r = NoPoller
    <3> TAKE p \in 1..MaxPollers
    <3>1. PICK q \in PollerRecord : q = poller[p]
      BY <2>1
    <3>2. PICK r : r = [q EXCEPT !.since = q.since \ removed]
      OBVIOUS
    <3>3. /\ r \in PollerRecord /\ r.since = q.since \ removed
          /\ r.at = q.at /\ r.snap = q.snap /\ r.first = q.first /\ r.cursor = q.cursor
          /\ r.handed = q.handed
      BY <3>2 DEF PollerRecord
    <3>4. q = NoPoller => r = NoPoller
      <4> SUFFICES ASSUME q = NoPoller PROVE r = NoPoller
        OBVIOUS
      <4>1. r = [on |-> q.on, at |-> q.at, cursor |-> q.cursor, snap |-> q.snap,
                 latest |-> q.latest, first |-> q.first, since |-> q.since \ removed,
                 handed |-> q.handed]
        BY <3>2 DEF PollerRecord
      <4>2. q.since \ removed = q.since
        BY DEF NoPoller
      <4> QED  BY <4>1, <4>2 DEF NoPoller
    <3>5. poller'[p] = r
      BY <1>2, <2>1, <3>1, <3>2
    <3> QED  BY <3>1, <3>3, <3>4, <3>5
  <2>3. poller' \in [1..MaxPollers -> PollerRecord]
    <3>1. \A p \in 1..MaxPollers : poller'[p] \in PollerRecord
      BY <2>2
    <3> QED  BY <1>2, <2>1, <3>1
  <2> QED  BY <2>2, <2>3
<1>6. LiveTypes'
  BY <1>2, <1>5 DEF TypeInv, LiveTypes
<1>7. CursorInv => CursorInv'
  BY <1>2, <1>3, <1>5 DEF CursorInv, Handed
<1>8. StoreInv => StoreInv'
  <2>1. \A s \in removed : s \in UNION purging'
    BY <1>2
  <2> QED  BY <1>1, <1>2, <1>3, <2>1 DEF StoreInv
<1> QED  BY <1>4, <1>6, <1>7, <1>8

\* The deletion takes out what is excused until it has taken place.
LEMMA DeletePage ==
  ASSUME TypeInv, NEW gone \in purging, DeletePersisted(gone)
  PROVE  PageTypes' /\ LiveTypes' /\ (StoreInv => StoreInv') /\ (CursorInv => CursorInv')
<1>1. /\ UNCHANGED <<head, sources, events, status, isLive, stopRef, poller, pollers, reloads,
                     failures>>
      /\ persisted' = {e \in persisted : e[1] \notin gone}
      /\ purging' = purging \ {gone}
  BY DEF DeletePersisted, OtherEvents, provider, live
<1>2. LiveTypes' /\ (CursorInv => CursorInv')
  BY <1>1, LiveKept DEF TypeInv, LiveTypes
<1>3. PageTypes'
  <2>1. Cardinality(persisted') <= Cardinality(persisted)
    BY <1>1, Finite, FS_Subset DEF TypeInv, PageTypes
  <2>2. Cardinality(persisted') \in Nat /\ Cardinality(persisted) \in Nat
    BY <1>1, Finite, FS_CardinalityType DEF TypeInv, PageTypes
  <2> QED  BY <1>1, <2>1, <2>2, Constants DEF TypeInv, PageTypes
<1>4. StoreInv => StoreInv'
  <2>1. ASSUME NEW s \in UNION purging, s \notin gone PROVE s \in UNION purging'
    BY <1>1, <2>1
  <2> QED  BY <1>1, <2>1 DEF StoreInv
<1> QED  BY <1>2, <1>3, <1>4

\* A poller starts, behind nothing that it has to deliver.
LEMMA WatchPage ==
  ASSUME TypeInv, NEW c \in Seqs, WatchLive(c)
  PROVE  PageTypes' /\ LiveTypes' /\ (StoreInv => StoreInv') /\ (CursorInv => CursorInv')
<1>1. /\ UNCHANGED <<head, sources, events, status, isLive, persisted, purging, reloads>>
      /\ pollers' = pollers + 1 /\ stopRef' = pollers + 1 /\ pollers < MaxPollers
  BY DEF WatchLive, provider, store
<1>2. PICK from \in 0..MaxHead + 1 :
        /\ poller' = [poller EXCEPT ![pollers + 1] =
                       [NoPoller EXCEPT !.on = TRUE, !.cursor = from, !.first = from,
                                        !.since = sources]]
        /\ failures' = failures \/ failures' = failures + 1
  <2>1. CASE \E h \in Heads(head) : Watch(h + 1) /\ UNCHANGED failures
    <3>1. PICK h \in Heads(head) : Watch(h + 1) /\ UNCHANGED failures
      BY <2>1
    <3>2. h \in 0..MaxHead
      BY Heads_Bounded DEF TypeInv, PageTypes
    <3>3. h + 1 \in 0..MaxHead + 1
      BY <3>2, Constants
    <3> QED  BY <3>1, <3>3 DEF Watch
  <2>2. CASE failures' = failures + 1 /\ Watch(None)
    <3>1. None \in 0..MaxHead + 1
      BY Constants DEF None
    <3> QED  BY <2>2, <3>1 DEF Watch
  <2> QED  BY <2>1, <2>2 DEF WatchLive
<1>3. PICK r : r = [NoPoller EXCEPT !.on = TRUE, !.cursor = from, !.first = from,
                                    !.since = sources]
  OBVIOUS
<1>4. /\ r \in PollerRecord /\ r.at = "rest" /\ r.since = sources
      /\ r.first = from /\ r.cursor = from
  <2>1. r = [on |-> TRUE, at |-> "rest", cursor |-> from, snap |-> {}, latest |-> 0,
             first |-> from, since |-> sources, handed |-> {}]
    BY <1>3 DEF NoPoller
  <2> QED  BY <2>1, Constants DEF PollerRecord, TypeInv, PageTypes
<1>5. poller' = [poller EXCEPT ![pollers + 1] = r] /\ pollers + 1 \in 1..MaxPollers
      /\ pollers \in Nat /\ poller \in [1..MaxPollers -> PollerRecord]
  BY <1>1, <1>2, <1>3, Constants DEF TypeInv, LiveTypes
<1>6. PageTypes'
  BY <1>1, <1>2 DEF TypeInv, PageTypes
<1>7. LiveTypes'
  BY <1>1, <1>4, <1>5, Constants DEF TypeInv, LiveTypes
<1>8. CursorInv => CursorInv'
  <2> SUFFICES ASSUME CursorInv, failures' = 0, NEW p \in 1..MaxPollers PROVE Handed(p)'
    BY DEF CursorInv
  <2>1. failures = 0
    BY <1>2 DEF TypeInv, PageTypes
  <2>2. CASE p = pollers + 1
    BY <1>1, <1>4, <1>5, <2>2 DEF Handed, Blocks
  <2>3. CASE p # pollers + 1
    BY <1>1, <1>5, <2>1, <2>3 DEF CursorInv, Handed
  <2> QED  BY <2>2, <2>3
<1>9. StoreInv'
  BY <1>1, <1>5 DEF StoreInv
<1> QED  BY <1>6, <1>7, <1>8, <1>9

LEMMA StopPage ==
  ASSUME TypeInv, StopLive
  PROVE  PageTypes' /\ LiveTypes' /\ (StoreInv => StoreInv') /\ (CursorInv => CursorInv')
<1>1. /\ UNCHANGED <<head, sources, events, status, pollers, persisted, purging, reloads, failures>>
      /\ isLive' = FALSE /\ stopRef' = None
      /\ poller' = IF stopRef = None THEN poller ELSE [poller EXCEPT ![stopRef].on = FALSE]
      /\ poller \in [1..MaxPollers -> PollerRecord] /\ stopRef \in 0..pollers
      /\ pollers \in 0..MaxPollers
  BY DEF StopLive, provider, store, TypeInv, LiveTypes
<1>2. PageTypes' /\ (StoreInv => StoreInv')
  BY <1>1 DEF TypeInv, PageTypes, StoreInv
<1>3. CASE stopRef = None
  BY <1>1, <1>2, <1>3 DEF TypeInv, LiveTypes, CursorInv, Handed, None
<1>4. CASE stopRef # None
  <2>1. PICK q \in PollerRecord : q = poller[stopRef]
    BY <1>1, <1>4, Constants DEF None
  <2>2. PICK r : r = [q EXCEPT !.on = FALSE]
    OBVIOUS
  <2>3. /\ r \in PollerRecord /\ r.since = q.since /\ r.at = q.at /\ r.snap = q.snap
        /\ r.first = q.first /\ r.cursor = q.cursor /\ r.handed = q.handed
    BY <2>2 DEF PollerRecord
  <2>4. poller' = [poller EXCEPT ![stopRef] = r] /\ stopRef \in 1..MaxPollers
    BY <1>1, <1>4, <2>1, <2>2, Constants DEF None
  <2>5. LiveTypes'
    <3>1. poller' \in [1..MaxPollers -> PollerRecord]
      BY <1>1, <2>3, <2>4
    <3>2. \A p \in 1..MaxPollers : p > pollers => poller'[p] = poller[p]
      BY <1>1, <2>4
    <3>3. None \in 0..pollers
      BY <1>1, Constants DEF None
    <3> QED  BY <1>1, <3>1, <3>2, <3>3 DEF TypeInv, LiveTypes
  <2>6. CursorInv => CursorInv'
    BY <1>1, <2>1, <2>3, <2>4 DEF CursorInv, Handed
  <2> QED  BY <1>2, <2>5, <2>6
<1> QED  BY <1>3, <1>4
-----------------------------------------------------------------------------
(* A poller's tick.                                                        *)

\* A tick that delivers nothing changes one poller, on the page that it was.
LEMMA TickPage ==
  ASSUME TypeInv, NEW p \in 1..MaxPollers, poller[p] # NoPoller, NEW r \in PollerRecord,
         poller' = [poller EXCEPT ![p] = r],
         UNCHANGED <<head, sources, events, status, isLive, stopRef, pollers, persisted,
                     purging, reloads>>,
         failures' = failures \/ failures' = failures + 1,
         CursorInv /\ failures' = 0 => Handed(p)'
  PROVE  PageTypes' /\ LiveTypes' /\ (StoreInv => StoreInv') /\ (CursorInv => CursorInv')
<1>1. PageTypes' /\ (StoreInv => StoreInv') /\ (failures' = 0 => failures = 0)
  BY DEF TypeInv, PageTypes, StoreInv
<1>2. LiveTypes'
  BY DEF TypeInv, LiveTypes
<1>3. CursorInv => CursorInv'
  <2> SUFFICES ASSUME CursorInv, failures' = 0, NEW q \in 1..MaxPollers PROVE Handed(q)'
    BY DEF CursorInv
  <2>1. CASE q # p
    BY <1>1, <2>1 DEF CursorInv, Handed, TypeInv, LiveTypes
  <2> QED  BY <2>1
<1> QED  BY <1>1, <1>2, <1>3

LEMMA HeadPage ==
  ASSUME TypeInv, NEW p \in 1..MaxPollers, TickHead(p)
  PROVE  PageTypes' /\ LiveTypes' /\ (StoreInv => StoreInv') /\ (CursorInv => CursorInv')
<1>1. PICK q \in PollerRecord : q = poller[p]
  BY DEF TypeInv, LiveTypes
<1>2. PICK h \in Heads(head) :
        /\ q.cursor = None \/ h >= q.cursor
        /\ poller' = [poller EXCEPT ![p] =
             [q EXCEPT !.at = "logs", !.latest = h, !.snap = sources,
                       !.cursor = IF q.cursor = None THEN h ELSE q.cursor,
                       !.first = IF q.cursor = None THEN h ELSE q.first]]
  <2>1. PICK h \in Heads(head) :
          /\ poller[p].cursor = None \/ h >= poller[p].cursor
          /\ poller' = [poller EXCEPT ![p].at = "logs", ![p].latest = h, ![p].snap = sources,
               ![p].cursor = IF poller[p].cursor = None THEN h ELSE @,
               ![p].first = IF poller[p].cursor = None THEN h ELSE @]
    BY DEF TickHead
  <2>2. PICK first, cursor : /\ cursor = (IF q.cursor = None THEN h ELSE q.cursor)
                             /\ first = (IF q.cursor = None THEN h ELSE q.first)
    OBVIOUS
  <2>3. poller' = [poller EXCEPT ![p].at = "logs", ![p].latest = h, ![p].snap = sources,
                     ![p].cursor = cursor, ![p].first = first]
    BY <1>1, <2>1, <2>2
  <2>4. poller' = [poller EXCEPT ![p] = [q EXCEPT !.at = "logs", !.latest = h,
                     !.snap = sources, !.cursor = cursor, !.first = first]]
    BY <1>1, <2>3
  <2> QED  BY <1>1, <2>1, <2>2, <2>4
<1>3. h \in 0..MaxHead /\ sources \subseteq Sources
  BY Heads_Bounded DEF TypeInv, PageTypes
<1>4. PICK r : r = [q EXCEPT !.at = "logs", !.latest = h, !.snap = sources,
                       !.cursor = IF q.cursor = None THEN h ELSE q.cursor,
                       !.first = IF q.cursor = None THEN h ELSE q.first]
  OBVIOUS
<1>5. /\ r.on = q.on /\ r.at = "logs" /\ r.latest = h /\ r.snap = sources
      /\ r.since = q.since /\ r.handed = q.handed
      /\ r.cursor = (IF q.cursor = None THEN h ELSE q.cursor)
      /\ r.first = (IF q.cursor = None THEN h ELSE q.first)
      /\ r = [on |-> r.on, at |-> r.at, cursor |-> r.cursor, snap |-> r.snap,
              latest |-> r.latest, first |-> r.first, since |-> r.since, handed |-> r.handed]
  BY <1>4 DEF PollerRecord
<1>6. r \in PollerRecord
  <2>1. r.cursor \in 0..MaxHead + 1 /\ r.first \in 0..MaxHead + 1
    BY <1>3, <1>5, Constants DEF PollerRecord
  <2> QED  BY <1>3, <1>5, <2>1 DEF PollerRecord
<1>7. poller' = [poller EXCEPT ![p] = r] /\ poller \in [1..MaxPollers -> PollerRecord]
  BY <1>2, <1>4 DEF TypeInv, LiveTypes
<1>8. poller[p] # NoPoller
  BY DEF TickHead, NoPoller
<1>9. UNCHANGED <<head, sources, events, status, isLive, stopRef, pollers, persisted,
                  purging, reloads, failures>>
  BY DEF TickHead, provider, store
<1>10. CursorInv /\ failures' = 0 => Handed(p)'
  <2> SUFFICES ASSUME CursorInv, failures' = 0 PROVE Handed(p)'
    OBVIOUS
  <2>1. Handed(p)
    BY <1>9 DEF CursorInv
  <2>2. \A b \in Blocks : r.first <= b /\ b < r.cursor
          => r.first = q.first /\ r.cursor = q.cursor
    BY <1>3, <1>5, Constants DEF Blocks
  <2>3. r.first # None => \A s \in r.since, b \in Blocks :
          r.first <= b /\ b < r.cursor => <<s, b>> \in r.handed
    BY <1>1, <1>5, <2>1, <2>2 DEF Handed
  <2> QED  BY <1>1, <1>5, <1>7, <1>9, <2>1, <2>3 DEF Handed
<1> QED  BY <1>6, <1>7, <1>8, <1>9, <1>10, TickPage

LEMMA RetryPage ==
  ASSUME TypeInv, NEW p \in 1..MaxPollers, TickRetries(p) \/ TickFails(p)
  PROVE  PageTypes' /\ LiveTypes' /\ (StoreInv => StoreInv') /\ (CursorInv => CursorInv')
<1>1. PICK q \in PollerRecord : q = poller[p]
  BY DEF TypeInv, LiveTypes
<1>2. PICK a, b : /\ a = [q EXCEPT !.at = "retry", !.snap = sources]
                  /\ b = [q EXCEPT !.at = "rest"]
  OBVIOUS
<1>3. a \in PollerRecord /\ b \in PollerRecord
  <2>1. a = [on |-> q.on, at |-> "retry", cursor |-> q.cursor, snap |-> sources,
             latest |-> q.latest, first |-> q.first, since |-> q.since, handed |-> q.handed]
    BY <1>2 DEF PollerRecord
  <2>2. b = [on |-> q.on, at |-> "rest", cursor |-> q.cursor, snap |-> q.snap,
             latest |-> q.latest, first |-> q.first, since |-> q.since, handed |-> q.handed]
    BY <1>2 DEF PollerRecord
  <2> QED  BY <2>1, <2>2 DEF PollerRecord, TypeInv, PageTypes
<1>4. /\ poller' = [poller EXCEPT ![p] = a] \/ poller' = [poller EXCEPT ![p] = b]
      /\ UNCHANGED <<head, sources, events, status, isLive, stopRef, pollers, persisted,
                     purging, reloads>>
      /\ failures' = failures + 1
  BY <1>1, <1>2 DEF TickRetries, TickFails, provider, store
<1>5. poller[p] # NoPoller
  BY DEF TickRetries, TickFails, NoPoller
<1>6. failures' # 0
  BY <1>4 DEF TypeInv, PageTypes
<1> QED  BY <1>3, <1>4, <1>5, <1>6, TickPage

\* The batch extends what the poller has handed over, up to the block asked
\* for; without a refused request that is the block the cursor passes.
LEMMA DeliverPage ==
  ASSUME TypeInv, NEW p \in 1..MaxPollers, NEW hi \in Int, Deliver(p, hi),
         poller[p].at # "rest",
         poller[p].at = "retry" \/ hi = poller[p].latest
  PROVE  PageTypes' /\ LiveTypes' /\ (StoreInv => StoreInv') /\ (CursorInv => CursorInv')
<1>1. PICK q \in PollerRecord : q = poller[p]
  BY DEF TypeInv, LiveTypes
<1>2. PICK batch : batch = EventsIn(q.snap, q.cursor, hi)
  OBVIOUS
<1>3. PICK r : r = [q EXCEPT !.at = "rest", !.cursor = NextBlock(q.latest),
                             !.handed = q.handed \cup batch]
  OBVIOUS
<1>4. /\ events' = events \cup batch /\ persisted' \in PersistEvents(batch)
      /\ poller' = [poller EXCEPT ![p] = r]
      /\ UNCHANGED <<head, sources, status, isLive, stopRef, pollers, purging, reloads,
                     failures>>
  BY <1>1, <1>2, <1>3 DEF Deliver
<1>5. batch \subseteq Event
  BY <1>2, EventsOf_In DEF EventsIn, PollerRecord
<1>6. /\ r.since = q.since /\ r.snap = q.snap /\ r.first = q.first /\ r.at = "rest"
      /\ r.cursor = q.latest + 1 /\ r.handed = q.handed \cup batch
      /\ r = [on |-> q.on, at |-> "rest", cursor |-> q.latest + 1, snap |-> q.snap,
              latest |-> q.latest, first |-> q.first, since |-> q.since,
              handed |-> q.handed \cup batch]
  BY <1>3 DEF PollerRecord, NextBlock
<1>7. r \in PollerRecord
  BY <1>5, <1>6, Constants DEF PollerRecord
<1>8. PageTypes'
  BY <1>4, <1>5, Persisting DEF TypeInv, PageTypes
<1>9. poller \in [1..MaxPollers -> PollerRecord] /\ p <= pollers /\ pollers \in Nat
  BY Constants DEF TypeInv, LiveTypes, NoPoller
<1>10. LiveTypes'
  BY <1>4, <1>7, <1>9 DEF TypeInv, LiveTypes
<1>11. StoreInv'
  BY <1>4, <1>9, Constants DEF StoreInv
<1>12. CursorInv => CursorInv'
  <2> SUFFICES ASSUME CursorInv, failures' = 0, NEW o \in 1..MaxPollers PROVE Handed(o)'
    BY DEF CursorInv
  <2>1. failures = 0
    BY <1>4
  <2>2. CASE o # p
    BY <1>4, <1>9, <2>1, <2>2 DEF CursorInv, Handed
  <2>3. CASE o = p
    <3>1. Handed(p)
      BY <2>1 DEF CursorInv
    <3>2. q.at = "logs" /\ hi = q.latest /\ q.since \subseteq q.snap /\ q.since \subseteq sources
      BY <1>1, <3>1 DEF Handed, PollerRecord
    <3>3. ASSUME q.first # None, NEW s \in q.since, NEW b \in Blocks,
                 q.first <= b, b < q.latest + 1
          PROVE  <<s, b>> \in q.handed \cup batch
      <4>1. CASE b < q.cursor
        BY <1>1, <3>1, <3>3, <4>1 DEF Handed
      <4>2. CASE q.cursor <= b
        <5>1. b <= hi /\ hi \in Int /\ q.cursor \in Int
          BY <3>2, <3>3 DEF PollerRecord, Blocks
        <5>2. <<s, b>> \in EventsOf(s, q.cursor, hi)
          BY <4>2, <5>1, EventsOf_In
        <5> QED  BY <1>2, <3>2, <5>2 DEF EventsIn
      <4> QED  BY <4>1, <4>2 DEF PollerRecord, Blocks
    <3> QED  BY <1>4, <1>6, <1>9, <2>3, <3>2, <3>3 DEF Handed
  <2> QED  BY <2>2, <2>3
<1> QED  BY <1>8, <1>10, <1>11, <1>12

LEMMA DeliveredPage ==
  ASSUME TypeInv, NEW p \in 1..MaxPollers, TickDelivers(p) \/ RetryDelivers(p)
  PROVE  PageTypes' /\ LiveTypes' /\ (StoreInv => StoreInv') /\ (CursorInv => CursorInv')
<1>1. poller[p].latest \in Int
  BY DEF TypeInv, LiveTypes, PollerRecord
<1>2. CASE TickDelivers(p)
  BY <1>1, <1>2, DeliverPage DEF TickDelivers
<1>3. CASE RetryDelivers(p)
  <2>1. PICK hi \in Int : hi = poller[p].latest - 1
    BY <1>1
  <2> QED  BY <1>3, <2>1, DeliverPage DEF RetryDelivers
<1> QED  BY <1>2, <1>3

\* The page is opened, the first time or again: there is no poller.
LEMMA OpenedPage ==
  ASSUME sources' = {}, pollers' = 0, poller' = NoPollers, stopRef' = None, isLive' = FALSE
  PROVE  LiveTypes' /\ CursorInv'
<1>1. LiveTypes'
  <2>1. poller' \in [1..MaxPollers -> PollerRecord]
    BY FreshScans
  <2>2. \A p \in 1..MaxPollers : poller'[p] = NoPoller
    BY FreshScans
  <2>3. pollers' \in 0..MaxPollers /\ stopRef' \in 0..pollers'
    BY Constants DEF None
  <2>4. isLive' \in BOOLEAN
    OBVIOUS
  <2> QED  BY <2>1, <2>2, <2>3, <2>4 DEF LiveTypes
<1>2. CursorInv'
  BY FreshScans DEF CursorInv, Handed, NoPoller
<1> QED  BY <1>1, <1>2
-----------------------------------------------------------------------------
(* The inductive invariants, and the theorems.                             *)

SafeInv == TypeInv /\ FlightInv /\ NewestInv /\ StoreInv /\ CursorInv

LEMMA Initially ==
  ASSUME Init
  PROVE  SafeInv /\ SharedInv /\ ShownInv
<1>1. Owing = {} /\ Cardinality(Owing) = 0
  BY FreshScans, FS_EmptySet DEF Owing, Init
<1>2. ScanTypes
  BY <1>1, FreshScans, Constants DEF ScanTypes, Init, None
<1>3. FlightInv
  BY FreshScans DEF FlightInv, Init, Seqs, None
<1>4. LiveTypes
  <2>1. poller \in [1..MaxPollers -> PollerRecord]
    BY FreshScans DEF Init
  <2>2. \A p \in 1..MaxPollers : poller[p] = NoPoller
    BY FreshScans DEF Init
  <2>3. pollers \in 0..MaxPollers /\ stopRef \in 0..pollers
    BY Constants DEF None, Init
  <2>4. isLive \in BOOLEAN
    BY DEF Init
  <2> QED  BY <2>1, <2>2, <2>3, <2>4 DEF LiveTypes
<1>5. CursorInv
  BY FreshScans DEF CursorInv, Handed, NoPoller, Init
<1>6. PageTypes
  BY FS_EmptySet, Constants DEF PageTypes, Init, Statuses
<1>7. StoreInv /\ NewestInv /\ SharedInv /\ ShownInv
  BY DEF StoreInv, NewestInv, SharedInv, ShownInv, Init
<1> QED  BY <1>2, <1>3, <1>4, <1>5, <1>6, <1>7 DEF SafeInv, TypeInv

LEMMA ReloadStep ==
  ASSUME SafeInv, Reload
  PROVE  SafeInv' /\ SharedInv' /\ ShownInv'
<1>1. ScanTypes' /\ FlightInv' /\ NewestInv' /\ SharedInv' /\ ShownInv'
  BY OpenedScans DEF Reload
<1>2. LiveTypes' /\ CursorInv'
  BY OpenedPage DEF Reload
<1>3. PageTypes' /\ StoreInv'
  BY DEF Reload, SafeInv, TypeInv, PageTypes, StoreInv, Statuses
<1> QED  BY <1>1, <1>2, <1>3 DEF SafeInv, TypeInv

\* Every step keeps what holds of any organisations; and, when each of them has
\* a contract, what says that nothing registered is missing from the page.
LEMMA Stepwise ==
  ASSUME SafeInv, [Next]_vars
  PROVE  /\ SafeInv'
         /\ EveryOrgPublishes /\ SharedInv /\ ShownInv => SharedInv' /\ ShownInv'
<1> USE DEF SafeInv, TypeInv
<1>1. CASE Refresh
  BY <1>1, RefreshScans, AskPage
<1>2. ASSUME NEW s \in DocSources, AddSource(s)
      PROVE  SafeInv' /\ (SharedInv => SharedInv') /\ ShownInv'
  BY <1>2, AddScans, AskPage
<1>3. ASSUME NEW o \in Orgs, ReplaceOrgSources(o)
      PROVE  SafeInv' /\ (EveryOrgPublishes /\ SharedInv => SharedInv') /\ ShownInv'
  BY <1>3, ReplaceScans, ReplacePage DEF EveryOrgPublishes
<1>4. ASSUME NEW c \in Seqs, ScanSettles(c)
      PROVE  SafeInv' /\ SharedInv' /\ (SharedInv /\ ShownInv => ShownInv')
  BY <1>4, SettleScans, ScanPage
<1>5. ASSUME NEW c \in Seqs, ScanFails(c)
      PROVE  SafeInv' /\ SharedInv' /\ (ShownInv => ShownInv')
  BY <1>5, FailScans, ScanPage
<1>6. ASSUME NEW c \in Seqs, PauseEnds(c)
      PROVE  SafeInv' /\ (SharedInv => SharedInv') /\ (ShownInv => ShownInv')
  BY <1>6, PauseScans, ScanPage
<1>7. ASSUME NEW c \in Seqs, RefreshAgain(c)
      PROVE  SafeInv' /\ (SharedInv => SharedInv') /\ ShownInv'
  BY <1>7, AgainScans, AskPage
<1>8. ASSUME NEW c \in Seqs, WatchLive(c)
      PROVE  SafeInv' /\ (SharedInv => SharedInv') /\ (ShownInv => ShownInv')
  BY <1>8, WatchScans, WatchPage
<1>9. CASE StartLive
  BY <1>9, StartScans, AskPage
<1>10. CASE StopLive
  <2>1. UNCHANGED <<sources, status, scans>> /\ events \subseteq events'
    BY <1>10 DEF StopLive, provider
  <2> QED  BY <1>10, <2>1, RestScans, StopPage
<1>11. ASSUME NEW p \in 1..MaxPollers, TickHead(p)
       PROVE  SafeInv' /\ (SharedInv => SharedInv') /\ (ShownInv => ShownInv')
  <2>1. UNCHANGED <<sources, status, scans>> /\ events \subseteq events'
    BY <1>11 DEF TickHead, provider
  <2> QED  BY <1>11, <2>1, RestScans, HeadPage
<1>12. ASSUME NEW p \in 1..MaxPollers, TickRetries(p) \/ TickFails(p)
       PROVE  SafeInv' /\ (SharedInv => SharedInv') /\ (ShownInv => ShownInv')
  <2>1. UNCHANGED <<sources, status, scans>> /\ events \subseteq events'
    BY <1>12 DEF TickRetries, TickFails, provider
  <2> QED  BY <1>12, <2>1, RestScans, RetryPage
<1>13. ASSUME NEW p \in 1..MaxPollers, TickDelivers(p) \/ RetryDelivers(p)
       PROVE  SafeInv' /\ (SharedInv => SharedInv') /\ (ShownInv => ShownInv')
  <2>1. UNCHANGED <<sources, status, scans>> /\ events \subseteq events'
    BY <1>13 DEF TickDelivers, RetryDelivers, Deliver
  <2> QED  BY <1>13, <2>1, RestScans, DeliveredPage
<1>14. CASE Mine \/ Hydrate
  <2>1. UNCHANGED <<sources, status, scans>> /\ events \subseteq events'
    BY <1>14 DEF Mine, Hydrate, provider
  <2> QED  BY <1>14, <2>1, RestScans, ScanPage
<1>15. CASE Reload
  BY <1>15, ReloadStep
<1>16. ASSUME NEW gone \in purging, DeletePersisted(gone)
       PROVE  SafeInv' /\ (SharedInv => SharedInv') /\ (ShownInv => ShownInv')
  <2>1. UNCHANGED <<sources, status, scans>> /\ events \subseteq events'
    BY <1>16 DEF DeletePersisted, provider
  <2> QED  BY <1>16, <2>1, RestScans, DeletePage
<1>17. CASE UNCHANGED vars
  <2>1. UNCHANGED <<head, sources, events, status, scans, isLive, stopRef, poller, pollers,
                    persisted, purging, reloads, failures>>
    BY <1>17 DEF vars, provider, live, store
  <2>2. ScanTypes' /\ FlightInv' /\ NewestInv' /\ (SharedInv => SharedInv')
        /\ (ShownInv => ShownInv')
    BY <2>1, RestScans
  <2>3. LiveTypes' /\ CursorInv'
    BY <2>1, LiveKept DEF LiveTypes
  <2>4. PageTypes' /\ StoreInv'
    BY <2>1 DEF PageTypes, StoreInv
  <2> QED  BY <2>2, <2>3, <2>4
<1> QED
  <2> HIDE DEF SafeInv, TypeInv
  <2> QED  BY <1>1, <1>2, <1>3, <1>4, <1>5, <1>6, <1>7, <1>8, <1>9, <1>10, <1>11, <1>12,
              <1>13, <1>14, <1>15, <1>16, <1>17 DEF Next

THEOREM Safe == Spec => []SafeInv
<1>1. Init => SafeInv
  BY Initially
<1>2. SafeInv /\ [Next]_vars => SafeInv'
  BY Stepwise
<1> QED  BY <1>1, <1>2, PTL DEF Spec

\* The model is type correct.
THEOREM FeedTypeCorrect == Spec => []TypeOK
<1>1. SafeInv => TypeOK
  <2>1. ASSUME SafeInv PROVE \A p \in 1..MaxPollers : poller[p].cursor \in 0..MaxHead + 1
    BY <2>1 DEF SafeInv, TypeInv, LiveTypes, PollerRecord
  <2>2. ASSUME SafeInv
        PROVE  \A c \in Seqs : /\ call[c].at \in {"none", "own", "join", "pause", "back"}
                               /\ call[c].of \in 0..scanSeq
    BY <2>2 DEF SafeInv, TypeInv, ScanTypes, CallRecord
  <2> QED  BY <2>1, <2>2 DEF SafeInv, TypeInv, PageTypes, LiveTypes, ScanTypes, TypeOK
<1> QED  BY <1>1, Safe, PTL

\* The store keeps nothing of a contract that this page has dropped, as long as
\* nothing was polled, however scans of the old organisation overlap with the
\* change (replaceOrgSources, persistEvents).
THEOREM StoreFollowsSourcesHolds == Spec => []StoreFollowsSources
<1>1. SafeInv => StoreFollowsSources
  BY DEF SafeInv, StoreInv, StoreFollowsSources
<1> QED  BY <1>1, Safe, PTL

\* As long as no request was refused, every block that a cursor has passed was
\* handed to the page for every contract registered since its poller started,
\* whatever the lag of the backends (watchLive, tick).
THEOREM UnrefusedCursorCoversHolds == Spec => []UnrefusedCursorCovers
<1>1. SafeInv => UnrefusedCursorCovers
  <2> SUFFICES ASSUME SafeInv, failures = 0, NEW p \in 1..MaxPollers,
                      poller[p].first # None, poller[p].first < poller[p].cursor,
                      NEW e \in EventsIn(poller[p].since, poller[p].first, poller[p].cursor - 1)
               PROVE  e \in poller[p].handed
    BY DEF UnrefusedCursorCovers, CursorCovers
  <2>1. Handed(p)
    BY DEF SafeInv, CursorInv
  <2>2. poller[p].first \in Int /\ poller[p].cursor \in Int
    BY DEF SafeInv, TypeInv, LiveTypes, PollerRecord
  <2>3. PICK s \in poller[p].since : e \in EventsOf(s, poller[p].first, poller[p].cursor - 1)
    BY DEF EventsIn
  <2>4. PICK b \in Blocks : e = <<s, b>> /\ poller[p].first <= b /\ b <= poller[p].cursor - 1
    BY <2>2, <2>3, EventsOf_In
  <2>5. b < poller[p].cursor
    BY <2>2, <2>4 DEF Blocks
  <2> QED  BY <2>1, <2>4, <2>5 DEF Handed
<1> QED  BY <1>1, Safe, PTL

\* When every organisation has a contract, a page that is ready shows what the
\* last scan could see of every registered contract: a result that misses one
\* never has the last word (runScan, replaceOrgSources).  An organisation
\* without contracts is registered without the second refresh this rests on.
THEOREM ReadyShowsSourcesHolds ==
  ASSUME EveryOrgPublishes
  PROVE  Spec => []ReadyShowsSources
<1> DEFINE Whole == SafeInv /\ SharedInv /\ ShownInv
<1>1. Init => Whole
  BY Initially
<1>2. Whole /\ [Next]_vars => Whole'
  BY Stepwise
<1>3. Whole => ReadyShowsSources
  <2> SUFFICES ASSUME Whole, Idle, status = "ready"
               PROVE  \E c \in Seqs :
                        /\ scan[c].begun /\ ~\E d \in c + 1 .. MaxScans : scan[d].begun
                        /\ \A s \in sources : EventsOf(s, 1, Seen(scan[c].floor)) \subseteq events
    BY DEF ReadyShowsSources, Seen
  <2>1. Owing = {}
    BY DEF Owing, Idle, SafeInv, FlightInv
  <2>2. PICK c \in Seqs : Shown(c)
    BY <2>1 DEF ShownInv
  <2>3. ~\E d \in c + 1 .. MaxScans : scan[d].begun
    BY <2>2 DEF Shown, Seqs
  <2> QED  BY <2>2, <2>3 DEF Shown
<1> QED  BY <1>1, <1>2, <1>3, PTL DEF Spec
=============================================================================
