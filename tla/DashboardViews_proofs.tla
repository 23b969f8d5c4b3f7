------------------------ MODULE DashboardViews_proofs ------------------------
(***************************************************************************)
(* Theorems about what the swarm and treasury pages show and what their    *)
(* buttons do, for any swarms, treasuries and accounts, and any number of  *)
(* requests, epochs and events.                                            *)
(***************************************************************************)
EXTENDS DashboardViews, SequenceTheorems, WellFoundedInduction, TLAPS

(* Induction up to a bound, over a set.                                    *)
LEMMA UpTo ==
    ASSUME NEW N \in Nat, NEW S, 0 \in S,
           \A n \in 0..N : n \in S /\ n < N => n + 1 \in S
    PROVE  \A n \in 0..N : n \in S
<1> DEFINE T == {n \in 0..N : n \notin S}
           R == OpToRel(<, Nat)
<1>1. SUFFICES ASSUME T # {} PROVE FALSE
  OBVIOUS
<1>2. PICK n \in T : \A m \in T : <<m, n>> \notin R
  <2>1. IsWellFoundedOn(R, Nat)
    BY NatLessThanWellFounded
  <2>2. T \subseteq Nat
    OBVIOUS
  <2> HIDE DEF R, T
  <2> QED BY <1>1, <2>1, <2>2, WFMin
<1>3. n \in Nat /\ n \in 0..N /\ n # 0 /\ n \notin S
  OBVIOUS
<1>4. n - 1 \in 0..N /\ n - 1 < N /\ n - 1 < n /\ (n - 1) + 1 = n
  BY <1>3
<1>5. n - 1 \notin T
  <2>1. \A m \in T : m \in Nat /\ (m < n => <<m, n>> \in R)
    BY <1>3 DEF OpToRel
  <2> HIDE DEF T, R
  <2> QED BY <1>2, <1>4, <2>1
<1> QED
  BY <1>3, <1>4, <1>5

(* The view after each place of the log; the last is what the page shows.  *)
Folds(v, places, N) ==
    /\ DOMAIN v = 0..N
    /\ v[0] = EmptyView
    /\ \A n \in 1..N : v[n] = IF n \in places THEN Apply(v[n-1], log[n]) ELSE v[n-1]

LEMMA Fold ==
    ASSUME NEW places, Len(log) \in Nat
    PROVE  \E v : Folds(v, places, Len(log)) /\ ReduceSwarmState(places) = v[Len(log)]
<1> DEFINE F(v, N) ==
             v = [n \in 0..N |-> IF n = 0 THEN EmptyView
                                 ELSE IF n \in places THEN Apply(v[n-1], log[n]) ELSE v[n-1]]
<1> DEFINE S == {N \in 0..Len(log) : \E v : F(v, N)}
<1>1. 0 \in S
  <2>1. F([n \in 0..0 |-> EmptyView], 0)
    OBVIOUS
  <2> HIDE DEF F
  <2> QED BY <2>1
<1>2. ASSUME NEW N \in 0..Len(log), N \in S, N < Len(log)
      PROVE  N + 1 \in S
  <2>1. PICK v : F(v, N)
    BY <1>2
  <2> DEFINE w == [n \in 0..(N+1) |->
                     IF n <= N THEN v[n]
                     ELSE IF n \in places THEN Apply(v[n-1], log[n]) ELSE v[n-1]]
  <2>2. F(w, N + 1)
    <3> SUFFICES ASSUME NEW n \in 0..(N+1)
                 PROVE  w[n] = IF n = 0 THEN EmptyView
                               ELSE IF n \in places THEN Apply(w[n-1], log[n]) ELSE w[n-1]
      OBVIOUS
    <3>1. CASE n = 0
      BY <2>1, <3>1
    <3>2. CASE n # 0
      <4>1. n - 1 \in 0..N /\ w[n-1] = v[n-1]
        BY <3>2
      <4>2. n <= N => n \in 0..N
        OBVIOUS
      <4> QED BY <2>1, <3>2, <4>1, <4>2
    <3> QED BY <3>1, <3>2
  <2> HIDE DEF F, w
  <2> QED BY <2>2, <1>2
<1>3. \E v : F(v, Len(log))
  <2> HIDE DEF S
  <2>1. \A n \in 0..Len(log) : n \in S
    BY <1>1, <1>2, UpTo
  <2> QED BY <2>1 DEF S
<1> DEFINE view == CHOOSE v : F(v, Len(log))
<1>4. F(view, Len(log))
  <2> HIDE DEF F
  <2> QED BY <1>3
<1>5. ReduceSwarmState(places) = view[Len(log)]
  BY DEF ReduceSwarmState
<1>6. Folds(view, places, Len(log))
  <2> HIDE DEF view
  <2> QED BY <1>4 DEF Folds
<1> QED
  BY <1>5, <1>6
-----------------------------------------------------------------------------
(* The inductive invariant: what the log says of the storage. *)

Logged == Records(SwarmEvents, Swarm) \cup Records(TreasuryEvents, Treasury)

(* The places of the events of s with these names.                         *)
Emitted(l, s, names) == {i \in DOMAIN l : l[i].source = s /\ l[i].name \in names}

(* Join requests: their events come in the order of their numbers, and one *)
(* that has been closed has one closing event, after that of the request.  *)
JoinsLogged(q, l, s) ==
    /\ \A i \in Emitted(l, s, {"JoinRequested"}) :
         /\ l[i].id \in DOMAIN q /\ l[i].who = q[l[i].id].requester /\ l[i].key = l[i].id
    /\ \A id \in DOMAIN q : \E i \in Emitted(l, s, {"JoinRequested"}) : l[i].id = id
    /\ \A i, j \in Emitted(l, s, {"JoinRequested"}) : i < j => l[i].id < l[j].id

ClosingsLogged(q, l, s) ==
    /\ \A k \in Emitted(l, s, Closing) :
         /\ l[k].id \in DOMAIN q /\ l[k].who = q[l[k].id].requester
         /\ q[l[k].id].status # "pending"
         /\ \E i \in Emitted(l, s, {"JoinRequested"}) : i < k /\ l[i].id = l[k].id
    /\ \A j, k \in Emitted(l, s, Closing) : l[j].id = l[k].id => j = k
    /\ \A id \in DOMAIN q :
         q[id].status # "pending" => \E k \in Emitted(l, s, Closing) : l[k].id = id

(* Members: an account is active as its last admission says, unless it was *)
(* removed since.                                                          *)
RosterEvents == {"JoinApproved", "MemberRemoved"}

Standing(l, s, a, i) ==
    /\ i \in Emitted(l, s, {"JoinApproved"}) /\ l[i].who = a
    /\ \A j \in Emitted(l, s, RosterEvents) : l[j].who = a => j <= i

MembersLogged(m, l, s) ==
    \A a \in Account :
      /\ m[a].active => \E i \in DOMAIN l : Standing(l, s, a, i)
      /\ \A i \in DOMAIN l :
           Standing(l, s, a, i) => /\ m[a].active /\ m[a].joinedEpoch = l[i].epoch
                                   /\ m[a].key = l[i].id

(* The epoch and the binding are those of the last event.                  *)
EpochLogged(e, l, s) ==
    /\ e # 0 => Emitted(l, s, {"EpochRotated"}) # {}
    /\ \A i \in Emitted(l, s, {"EpochRotated"}) :
         (\A j \in Emitted(l, s, {"EpochRotated"}) : j <= i) => l[i].epoch = e

BindingLogged(t, l, s) ==
    /\ Emitted(l, s, {"TreasurySet"}) # {}
    /\ \A i \in Emitted(l, s, {"TreasurySet"}) :
         (\A j \in Emitted(l, s, {"TreasurySet"}) : j <= i) => l[i].who = t

(* Fund requests: a decision has an event of the swarm, after that of the  *)
(* request; the treasury's agrees with it.                                 *)
Deciding == {"FundRequestApproved", "FundRequestRejected", "FundRequestCancelled"}

Verdict(name) ==
    CASE name \in {"FundRequestApproved", "FundsReleased"} -> "approved"
      [] name \in {"FundRequestRejected", "FundRequestRejectedByTreasury"} -> "rejected"
      [] name = "FundRequestCancelled" -> "cancelled"

FundsLogged(f, l, s) ==
    /\ \A i \in Emitted(l, s, {"FundRequested"}) :
         /\ l[i].id \in DOMAIN f
         /\ l[i].who = f[l[i].id].requester /\ l[i].amount = f[l[i].id].amount
         /\ f[l[i].id].status # "pending" =>
              \E j \in Emitted(l, s, Deciding) : i < j /\ l[j].id = l[i].id
    /\ \A j \in Emitted(l, s, Deciding) :
         l[j].id \in DOMAIN f /\ f[l[j].id].status = Verdict(l[j].name)

SwarmLogged(sw, l, s) ==
    /\ JoinsLogged(sw.joins, l, s) /\ ClosingsLogged(sw.joins, l, s)
    /\ MembersLogged(sw.members, l, s)
    /\ EpochLogged(sw.epoch, l, s) /\ BindingLogged(sw.treasury, l, s)
    /\ FundsLogged(sw.funds, l, s)

ReleasesLogged ==
    \A i \in DOMAIN log :
      LET f == swarm[log[i].of].funds IN
      log[i].name \in TreasuryEvents =>
        log[i].id \in DOMAIN f /\ f[log[i].id].status = Verdict(log[i].name)

(* A call given to the wallet has the terms of a request of a published    *)
(* swarm.                                                                  *)
ClickTrue ==
    click # NoClick =>
      \E s \in ToSet(Published) :
        /\ click.request \in DOMAIN swarm[s].funds
        /\ click.requester = swarm[s].funds[click.request].requester
        /\ click.amount = swarm[s].funds[click.request].amount

LogInv ==
    /\ ViewsTypeOK
    /\ \A s \in Swarm : SwarmLogged(swarm[s], log, s)
    /\ ReleasesLogged
    /\ ClickTrue

-----------------------------------------------------------------------------
(* The log grows. *)

LogType == Seq(Logged)

(* An event of a swarm, and perhaps one of a treasury after it.            *)
Grown(l, m, e) ==
    /\ l \in LogType /\ m \in LogType
    /\ Len(l) \in Nat /\ Len(m) \in Nat /\ Len(l) < Len(m)
    /\ DOMAIN l = 1..Len(l) /\ DOMAIN m = 1..Len(m)
    /\ \A i \in 1..Len(l) : m[i] = l[i]
    /\ m[Len(l) + 1] = e
    /\ \A i \in 1..Len(m) : i > Len(l) + 1 => m[i].source \in Treasury

(* A record has the name of its kind of contract.                          *)
LEMMA SourcesApart ==
    ASSUME NEW e \in Logged
    PROVE  /\ e.source \in Swarm => e \in Records(SwarmEvents, Swarm)
           /\ e.source \notin Swarm => e \in Records(TreasuryEvents, Treasury)
           /\ e.name \in SwarmEvents => e \in Records(SwarmEvents, Swarm)
           /\ e.name \in TreasuryEvents => e \in Records(TreasuryEvents, Treasury)
<1>1. Treasury \cap Swarm = {}
  BY ViewsAssumption
<1>2. SwarmEvents \cap TreasuryEvents = {}
  BY DEF SwarmEvents, TreasuryEvents
<1> QED
  BY <1>1, <1>2 DEF Logged, Records

LEMMA EmittedGrown ==
    ASSUME NEW l, NEW m, NEW e, NEW s \in Swarm, NEW names, Grown(l, m, e)
    PROVE  /\ Emitted(m, s, names) =
                Emitted(l, s, names) \cup
                  (IF e.source = s /\ e.name \in names THEN {Len(l) + 1} ELSE {})
           /\ \A i \in Emitted(l, s, names) : i \in 1..Len(l) /\ m[i] = l[i] /\ i < Len(l) + 1
           /\ m[Len(l) + 1] = e
<1>1. Treasury \cap Swarm = {}
  BY ViewsAssumption
<1>2. \A i \in DOMAIN m : i \in Emitted(m, s, names) =>
         i \in Emitted(l, s, names) \/ (i = Len(l) + 1 /\ e.source = s /\ e.name \in names)
  BY <1>1 DEF Grown, Emitted
<1>3. \A i \in Emitted(l, s, names) : i \in 1..Len(l) /\ m[i] = l[i] /\ i < Len(l) + 1
  BY DEF Grown, Emitted
<1>4. Emitted(l, s, names) \subseteq Emitted(m, s, names)
  BY <1>3 DEF Grown, Emitted
<1>5. e.source = s /\ e.name \in names => Len(l) + 1 \in Emitted(m, s, names)
  BY DEF Grown, Emitted
<1>6. Emitted(m, s, names) \subseteq DOMAIN m /\ m[Len(l) + 1] = e
  BY DEF Emitted, Grown
<1> QED
  BY <1>2, <1>3, <1>4, <1>5, <1>6

(* What is emitted for others, or under other names, changes nothing.      *)
LEMMA EmittedSame ==
    ASSUME NEW l, NEW m, NEW e, NEW s \in Swarm, NEW names, Grown(l, m, e),
           e.source # s \/ e.name \notin names
    PROVE  /\ Emitted(m, s, names) = Emitted(l, s, names)
           /\ \A i \in Emitted(l, s, names) : m[i] = l[i]
<1>1. /\ Emitted(m, s, names) = Emitted(l, s, names) \cup
            (IF e.source = s /\ e.name \in names THEN {Len(l) + 1} ELSE {})
      /\ \A i \in Emitted(l, s, names) : m[i] = l[i]
  BY EmittedGrown
<1> QED
  BY <1>1

LEMMA JoinsSame ==
    ASSUME NEW l, NEW m, NEW e, NEW s \in Swarm, Grown(l, m, e), NEW q,
           e.source # s \/ e.name # "JoinRequested", JoinsLogged(q, l, s)
    PROVE  JoinsLogged(q, m, s)
<1>1. /\ Emitted(m, s, {"JoinRequested"}) = Emitted(l, s, {"JoinRequested"})
      /\ \A i \in Emitted(l, s, {"JoinRequested"}) : m[i] = l[i]
  BY EmittedSame
<1> HIDE DEF Emitted
<1> QED
  BY <1>1 DEF JoinsLogged

LEMMA ClosingsSame ==
    ASSUME NEW l, NEW m, NEW e, NEW s \in Swarm, Grown(l, m, e), NEW q,
           e.source # s \/ e.name \notin Closing \cup {"JoinRequested"},
           ClosingsLogged(q, l, s)
    PROVE  ClosingsLogged(q, m, s)
<1>1. /\ Emitted(m, s, {"JoinRequested"}) = Emitted(l, s, {"JoinRequested"})
      /\ \A i \in Emitted(l, s, {"JoinRequested"}) : m[i] = l[i]
  BY EmittedSame
<1>2. /\ Emitted(m, s, Closing) = Emitted(l, s, Closing)
      /\ \A i \in Emitted(l, s, Closing) : m[i] = l[i]
  BY EmittedSame
<1> QED
  BY <1>1, <1>2 DEF ClosingsLogged

StandingKept(l, m, s, a) ==
    /\ \A i \in DOMAIN l : Standing(m, s, a, i) <=> Standing(l, s, a, i)
    /\ \A i \in DOMAIN m : Standing(m, s, a, i) => i \in DOMAIN l
    /\ \A i \in DOMAIN l : m[i] = l[i] /\ i \in DOMAIN m

LEMMA StandingSame ==
    ASSUME NEW l, NEW m, NEW e, NEW s \in Swarm, Grown(l, m, e), NEW a,
           e.source # s \/ e.name \notin RosterEvents \/ e.who # a
    PROVE  StandingKept(l, m, s, a)
<1>1. /\ Emitted(m, s, {"JoinApproved"}) = Emitted(l, s, {"JoinApproved"}) \cup
            (IF e.source = s /\ e.name \in {"JoinApproved"} THEN {Len(l) + 1} ELSE {})
      /\ \A i \in Emitted(l, s, {"JoinApproved"}) : i \in 1..Len(l) /\ m[i] = l[i]
      /\ m[Len(l) + 1] = e
  BY EmittedGrown
<1>2. /\ Emitted(m, s, RosterEvents) = Emitted(l, s, RosterEvents) \cup
            (IF e.source = s /\ e.name \in RosterEvents THEN {Len(l) + 1} ELSE {})
      /\ \A i \in Emitted(l, s, RosterEvents) : i \in 1..Len(l) /\ m[i] = l[i]
  BY EmittedGrown
<1>3. DOMAIN l = 1..Len(l) /\ DOMAIN m = 1..Len(m) /\ Len(l) < Len(m)
      /\ Len(l) \in Nat /\ Len(m) \in Nat /\ \A i \in 1..Len(l) : m[i] = l[i]
  BY DEF Grown
<1>4. "JoinApproved" \in RosterEvents
  BY DEF RosterEvents
<1> HIDE DEF Emitted
<1>5. \A i \in DOMAIN m : Standing(m, s, a, i) => i \in Emitted(l, s, {"JoinApproved"})
  BY <1>1, <1>4 DEF Standing
<1>6. \A i \in DOMAIN l : Standing(m, s, a, i) => Standing(l, s, a, i)
  BY <1>1, <1>2, <1>5, <1>3 DEF Standing
<1>7. \A i \in DOMAIN l : Standing(l, s, a, i) => Standing(m, s, a, i)
  BY <1>1, <1>2 DEF Standing
<1> QED
  BY <1>1, <1>3, <1>5, <1>6, <1>7 DEF StandingKept

LEMMA MembersSame ==
    ASSUME NEW l, NEW m, NEW e, NEW s \in Swarm, Grown(l, m, e), NEW f,
           e.source # s \/ e.name \notin RosterEvents, MembersLogged(f, l, s)
    PROVE  MembersLogged(f, m, s)
<1> SUFFICES ASSUME NEW a \in Account
             PROVE  /\ f[a].active => \E i \in DOMAIN m : Standing(m, s, a, i)
                    /\ \A i \in DOMAIN m :
                         Standing(m, s, a, i) => /\ f[a].active /\ f[a].joinedEpoch = m[i].epoch
                                                 /\ f[a].key = m[i].id
  BY DEF MembersLogged
<1>1. StandingKept(l, m, s, a)
  BY StandingSame
<1> HIDE DEF Standing
<1> QED
  BY <1>1 DEF MembersLogged, StandingKept

LEMMA EpochSame ==
    ASSUME NEW l, NEW m, NEW e, NEW s \in Swarm, Grown(l, m, e), NEW n,
           e.source # s \/ e.name # "EpochRotated", EpochLogged(n, l, s)
    PROVE  EpochLogged(n, m, s)
<1>1. /\ Emitted(m, s, {"EpochRotated"}) = Emitted(l, s, {"EpochRotated"})
      /\ \A i \in Emitted(l, s, {"EpochRotated"}) : m[i] = l[i]
  BY EmittedSame
<1> HIDE DEF Emitted
<1> QED
  BY <1>1 DEF EpochLogged

LEMMA BindingSame ==
    ASSUME NEW l, NEW m, NEW e, NEW s \in Swarm, Grown(l, m, e), NEW n,
           e.source # s \/ e.name # "TreasurySet", BindingLogged(n, l, s)
    PROVE  BindingLogged(n, m, s)
<1>1. /\ Emitted(m, s, {"TreasurySet"}) = Emitted(l, s, {"TreasurySet"})
      /\ \A i \in Emitted(l, s, {"TreasurySet"}) : m[i] = l[i]
  BY EmittedSame
<1> HIDE DEF Emitted
<1> QED
  BY <1>1 DEF BindingLogged

LEMMA FundsSame ==
    ASSUME NEW l, NEW m, NEW e, NEW s \in Swarm, Grown(l, m, e), NEW f,
           e.source # s \/ e.name \notin Deciding \cup {"FundRequested"}, FundsLogged(f, l, s)
    PROVE  FundsLogged(f, m, s)
<1>1. /\ Emitted(m, s, {"FundRequested"}) = Emitted(l, s, {"FundRequested"})
      /\ \A i \in Emitted(l, s, {"FundRequested"}) : m[i] = l[i]
  BY EmittedSame
<1>2. /\ Emitted(m, s, Deciding) = Emitted(l, s, Deciding)
      /\ \A i \in Emitted(l, s, Deciding) : m[i] = l[i]
  BY EmittedSame
<1> QED
  BY <1>1, <1>2 DEF FundsLogged

(* The other swarms' part of the invariant is left as it was.              *)
LEMMA OthersSame ==
    ASSUME NEW l, NEW m, NEW e, NEW s \in Swarm, Grown(l, m, e), NEW sw,
           e.source # s, SwarmLogged(sw, l, s)
    PROVE  SwarmLogged(sw, m, s)
BY JoinsSame, ClosingsSame, MembersSame, EpochSame, BindingSame, FundsSame DEF SwarmLogged

-----------------------------------------------------------------------------
(* A transaction's events are appended. *)

LogOrdered(l) == \A i, j \in DOMAIN l : i < j => l[i].block <= l[j].block

(* But for the block, which is the miner's.                                *)
SameEvent(f, e) == f = [e EXCEPT !.block = f.block]

LEMMA LogFacts ==
    ASSUME ViewsTypeOK
    PROVE  /\ log \in LogType /\ Len(log) \in Nat /\ DOMAIN log = 1..Len(log)
           /\ \A i \in DOMAIN log : log[i] \in Logged /\ log[i].block \in Nat
           /\ LogOrdered(log) /\ swarm \in [Swarm -> Storage]
           /\ Height \in Nat /\ \A i \in DOMAIN log : log[i].block <= Height
<1>1. log \in LogType /\ LogOrdered(log) /\ swarm \in [Swarm -> Storage]
  BY DEF ViewsTypeOK, LogType, Logged, LogOrdered
<1>2. Len(log) \in Nat /\ DOMAIN log = 1..Len(log) /\ \A i \in DOMAIN log : log[i] \in Logged
  BY <1>1 DEF LogType
<1>3. \A e \in Logged : e.block \in Nat
  BY DEF Logged, Records
<1>4. Height \in Nat /\ \A i \in DOMAIN log : log[i].block <= Height
  <2>1. CASE log = <<>>
    BY <2>1 DEF Height
  <2>2. CASE log # <<>>
    <3>1. Len(log) \in DOMAIN log
      BY <1>1, <1>2, <2>2 DEF LogType
    <3>2. Height = log[Len(log)].block
      BY <2>2 DEF Height, Last
    <3> QED BY <1>1, <1>2, <1>3, <3>1, <3>2 DEF LogOrdered
  <2> QED BY <2>1, <2>2
<1> QED
  BY <1>1, <1>2, <1>3, <1>4

Mined(es, b) == [i \in DOMAIN es |-> [es[i] EXCEPT !.block = b]]

Extended(l, m, es) ==
    /\ m \in LogType /\ LogOrdered(m) /\ Len(m) = Len(l) + Len(es)
    /\ DOMAIN m = 1..Len(m)
    /\ \A i \in 1..Len(l) : m[i] = l[i]
    /\ \A k \in 1..Len(es) : SameEvent(m[Len(l) + k], es[k])

LEMMA Appended ==
    ASSUME NEW l \in LogType, LogOrdered(l), NEW es \in Seq(Logged), NEW b \in Nat,
           \A i \in DOMAIN l : l[i].block <= b
    PROVE  Extended(l, l \o Mined(es, b), es)
<1> DEFINE new == Mined(es, b)
           m == l \o new
<1>1. Len(l) \in Nat /\ DOMAIN l = 1..Len(l) /\ Len(es) \in Nat /\ DOMAIN es = 1..Len(es)
      /\ \A i \in DOMAIN l : l[i].block \in Nat
  <2>1. \A e \in Logged : e.block \in Nat
    BY DEF Logged, Records
  <2> QED BY <2>1 DEF LogType
<1>3. \A i \in DOMAIN es : [es[i] EXCEPT !.block = b] \in Logged
                           /\ [es[i] EXCEPT !.block = b].block = b
  <2>1. \A e \in Records(SwarmEvents, Swarm) :
          [e EXCEPT !.block = b] \in Records(SwarmEvents, Swarm) /\ [e EXCEPT !.block = b].block = b
    BY DEF Records
  <2>2. \A e \in Records(TreasuryEvents, Treasury) :
          /\ [e EXCEPT !.block = b] \in Records(TreasuryEvents, Treasury)
          /\ [e EXCEPT !.block = b].block = b
    BY DEF Records
  <2>3. \A i \in DOMAIN es : es[i] \in Logged
    OBVIOUS
  <2> QED BY <2>1, <2>2, <2>3 DEF Logged
<1>4. /\ new \in Seq(Logged) /\ Len(new) = Len(es)
      /\ \A k \in 1..Len(es) : SameEvent(new[k], es[k]) /\ new[k].block = b
  <2>1. \A i \in DOMAIN es : new[i] = [es[i] EXCEPT !.block = b] /\ new[i] \in Logged
                               /\ new[i].block = b
    BY <1>3 DEF Mined
  <2>2. new \in Seq(Logged) /\ Len(new) = Len(es)
    <3>1. DOMAIN new = 1..Len(es) /\ new \in [1..Len(es) -> Logged]
      BY <1>1, <2>1 DEF Mined
    <3> HIDE DEF new
    <3> QED BY <1>1, <3>1
  <2> HIDE DEF new
  <2>3. \A k \in 1..Len(es) : SameEvent(new[k], es[k])
    BY <1>1, <2>1 DEF SameEvent
  <2> QED BY <1>1, <2>1, <2>2, <2>3
<1>5. /\ m \in LogType /\ Len(m) = Len(l) + Len(es)
      /\ DOMAIN m = 1..Len(m)
      /\ \A i \in 1..Len(l) : m[i] = l[i]
      /\ \A k \in 1..Len(es) : m[Len(l) + k] = new[k]
  <2> HIDE DEF new
  <2>1. l \in Seq(Logged) /\ new \in Seq(Logged)
    BY <1>4 DEF LogType
  <2>2. /\ m \in Seq(Logged) /\ Len(m) = Len(l) + Len(new)
        /\ \A i \in 1..Len(l) : m[i] = l[i]
        /\ \A k \in 1..Len(new) : m[Len(l) + k] = new[k]
    BY <2>1
  <2> HIDE DEF m
  <2> QED BY <1>1, <1>4, <2>2 DEF LogType
<1> HIDE DEF m, new
<1>6. \A i \in DOMAIN m : i \notin 1..Len(l) => m[i].block = b
  <2> SUFFICES ASSUME NEW i \in DOMAIN m, i \notin 1..Len(l)
               PROVE  m[i].block = b
    OBVIOUS
  <2>1. i - Len(l) \in 1..Len(es) /\ Len(l) + (i - Len(l)) = i
    BY <1>1, <1>5
  <2> QED BY <2>1, <1>4, <1>5
<1>7. LogOrdered(m)
  <2>1. \A i \in 1..Len(l) : m[i].block <= b /\ m[i].block \in Nat
    BY <1>1, <1>5
  <2>3. \A i, j \in 1..Len(l) : i < j => m[i].block <= m[j].block
    BY <1>1, <1>5 DEF LogOrdered
  <2> SUFFICES ASSUME NEW i \in DOMAIN m, NEW j \in DOMAIN m, i < j
               PROVE  m[i].block <= m[j].block
    BY DEF LogOrdered
  <2>4. CASE j \in 1..Len(l)
    <3>1. i \in 1..Len(l)
      BY <1>1, <1>5, <2>4
    <3> QED BY <2>3, <2>4, <3>1
  <2>5. CASE j \notin 1..Len(l)
    BY <1>6, <2>1, <2>5
  <2> QED BY <2>4, <2>5
<1>8. Extended(l, m, es)
  BY <1>4, <1>5, <1>7 DEF Extended
<1> QED
  BY <1>8 DEF m, new

LEMMA Emits ==
    ASSUME ViewsTypeOK, NEW es \in Seq(Logged), NEW b \in {Height, Height + 1},
           log' = log \o Mined(es, b)
    PROVE  Extended(log, log', es)
<1>1. /\ log \in LogType /\ LogOrdered(log) /\ b \in Nat
      /\ \A i \in DOMAIN log : log[i].block <= b
  <2>1. \A i \in DOMAIN log : log[i].block \in Nat /\ log[i].block <= Height
    BY LogFacts
  <2>2. Height \in Nat /\ (b = Height \/ b = Height + 1)
    BY LogFacts
  <2> QED BY <2>1, <2>2, LogFacts
<1>2. Extended(log, log \o Mined(es, b), es)
  BY <1>1, Appended
<1> QED
  BY <1>2

LEMMA EmitOne ==
    ASSUME ViewsTypeOK, NEW e \in Records(SwarmEvents, Swarm), Emit(<<e>>)
    PROVE  \E f : /\ Grown(log, log', f) /\ SameEvent(f, e)
                  /\ Len(log') = Len(log) + 1 /\ LogOrdered(log')
<1> DEFINE es == <<e>>
<1>1. es \in Seq(Logged) /\ Len(es) = 1 /\ es[1] = e
  BY DEF Logged
<1>2. PICK b \in {Height, Height + 1} : log' = log \o Mined(es, b)
  BY DEF Emit, Mined
<1> HIDE DEF es
<1>3. Extended(log, log', es)
  BY <1>1, <1>2, Emits
<1>4. /\ log' \in LogType /\ LogOrdered(log') /\ Len(log') = Len(log) + 1
      /\ DOMAIN log' = 1..Len(log')
      /\ \A i \in 1..Len(log) : log'[i] = log[i]
      /\ SameEvent(log'[Len(log) + 1], e)
  BY <1>1, <1>3 DEF Extended
<1>5. Grown(log, log', log'[Len(log) + 1])
  BY <1>4, LogFacts DEF Grown
<1> QED
  BY <1>4, <1>5

LEMMA EmitTwo ==
    ASSUME ViewsTypeOK, NEW e \in Records(SwarmEvents, Swarm),
           NEW g \in Records(TreasuryEvents, Treasury), Emit(<<e, g>>)
    PROVE  \E f : /\ Grown(log, log', f) /\ SameEvent(f, e) /\ LogOrdered(log')
                  /\ Len(log') = Len(log) + 2 /\ SameEvent(log'[Len(log) + 2], g)
<1> DEFINE es == <<e, g>>
<1>1. es \in Seq(Logged) /\ Len(es) = 2 /\ es[1] = e /\ es[2] = g
  BY DEF Logged
<1>2. PICK b \in {Height, Height + 1} : log' = log \o Mined(es, b)
  BY DEF Emit, Mined
<1> HIDE DEF es
<1>3. Extended(log, log', es)
  BY <1>1, <1>2, Emits
<1>4. 1 \in 1..Len(es) /\ 2 \in 1..Len(es)
  BY <1>1
<1>5. /\ log' \in LogType /\ LogOrdered(log') /\ Len(log') = Len(log) + 2
      /\ DOMAIN log' = 1..Len(log')
      /\ \A i \in 1..Len(log) : log'[i] = log[i]
      /\ SameEvent(log'[Len(log) + 1], e) /\ SameEvent(log'[Len(log) + 2], g)
  BY <1>1, <1>3, <1>4 DEF Extended
<1>6. log'[Len(log) + 2].source \in Treasury
  <2>1. log'[Len(log) + 2].source = g.source
    BY <1>5 DEF SameEvent, Records
  <2> QED BY <2>1 DEF Records
<1>7. Grown(log, log', log'[Len(log) + 1])
  BY <1>5, <1>6, LogFacts DEF Grown
<1> QED
  BY <1>5, <1>7

-----------------------------------------------------------------------------
(* What each kind of event does to its part of the invariant. *)

Joins == Seq([requester : Account, status : Status])

LEMMA JoinAsked ==
    ASSUME NEW l, NEW m, NEW e, NEW s \in Swarm, Grown(l, m, e), NEW q \in Joins,
           NEW a \in Account,
           e.source = s, e.name = "JoinRequested", e.id = Len(q) + 1, e.key = e.id, e.who = a,
           JoinsLogged(q, l, s), ClosingsLogged(q, l, s)
    PROVE  LET r == Append(q, [requester |-> a, status |-> "pending"]) IN
           r \in Joins /\ JoinsLogged(r, m, s) /\ ClosingsLogged(r, m, s)
<1> DEFINE r == Append(q, [requester |-> a, status |-> "pending"])
           A == Emitted(l, s, {"JoinRequested"})
           B == Emitted(m, s, {"JoinRequested"})
<1>1. Len(q) \in Nat /\ DOMAIN q = 1..Len(q) /\ DOMAIN r = 1..(Len(q) + 1) /\ r \in Joins
      /\ (\A id \in DOMAIN q : r[id] = q[id])
      /\ r[Len(q) + 1].requester = a /\ r[Len(q) + 1].status = "pending"
  BY DEF Joins, Status
<1>2. /\ B = A \cup {Len(l) + 1} /\ m[Len(l) + 1] = e /\ Len(l) \in Nat
      /\ \A i \in A : i \in 1..Len(l) /\ m[i] = l[i] /\ i < Len(l) + 1
  <2>1. Len(l) \in Nat
    BY DEF Grown
  <2> QED BY <2>1, EmittedGrown
<1>3. /\ Emitted(m, s, Closing) = Emitted(l, s, Closing)
      /\ \A k \in Emitted(l, s, Closing) : m[k] = l[k]
  BY EmittedSame DEF Closing
<1>4. /\ \A i \in A : l[i].id \in DOMAIN q /\ l[i].who = q[l[i].id].requester /\ l[i].key = l[i].id
      /\ \A id \in DOMAIN q : \E i \in A : l[i].id = id
      /\ \A i, j \in A : i < j => l[i].id < l[j].id
  BY DEF JoinsLogged
<1> HIDE DEF r, A, B
<1>5. JoinsLogged(r, m, s)
  <2>1. \A i \in B : m[i].id \in DOMAIN r /\ m[i].who = r[m[i].id].requester /\ m[i].key = m[i].id
    BY <1>1, <1>2, <1>4
  <2>2. \A id \in DOMAIN r : \E i \in B : m[i].id = id
    <3>1. \A id \in DOMAIN r : id \in DOMAIN q \/ id = e.id
      BY ONLY <1>1, e.id = Len(q) + 1
    <3>2. Len(l) + 1 \in B /\ m[Len(l) + 1].id = e.id /\ \A i \in A : i \in B /\ m[i] = l[i]
      BY ONLY <1>2
    <3> QED BY ONLY <1>4, <3>1, <3>2
  <2>3. \A i, j \in B : i < j => m[i].id < m[j].id
    BY <1>1, <1>2, <1>4
  <2> QED BY <2>1, <2>2, <2>3 DEF JoinsLogged, B
<1>6. ClosingsLogged(r, m, s)
  <2>1. \A id \in DOMAIN q : id \in DOMAIN r /\ r[id] = q[id]
    BY <1>1
  <2>2. \A id \in DOMAIN r : r[id].status # "pending" => id \in DOMAIN q
    BY <1>1
  <2>3. \A i \in A : i \in B /\ m[i] = l[i]
    BY <1>2
  <2> QED BY <1>3, <2>1, <2>2, <2>3 DEF ClosingsLogged, A, B
<1> QED
  BY <1>1, <1>5, <1>6 DEF r

LEMMA JoinClosed ==
    ASSUME NEW l, NEW m, NEW e, NEW s \in Swarm, Grown(l, m, e), NEW q \in Joins,
           NEW id \in DOMAIN q, NEW verdict \in Status \ {"pending"}, q[id].status = "pending",
           e.source = s, e.name \in Closing, e.id = id, e.who = q[id].requester,
           JoinsLogged(q, l, s), ClosingsLogged(q, l, s)
    PROVE  LET r == [q EXCEPT ![id].status = verdict] IN
           r \in Joins /\ JoinsLogged(r, m, s) /\ ClosingsLogged(r, m, s)
<1> DEFINE r == [q EXCEPT ![id].status = verdict]
           A == Emitted(l, s, {"JoinRequested"})
           C == Emitted(l, s, Closing)
           D == Emitted(m, s, Closing)
<1>1. Len(q) \in Nat /\ DOMAIN r = DOMAIN q /\ r \in Joins
      /\ (\A k \in DOMAIN q : r[k].requester = q[k].requester
                              /\ (k # id => r[k].status = q[k].status))
      /\ r[id].status = verdict /\ verdict # "pending"
  <2>1. q \in [1..Len(q) -> [requester : Account, status : Status]] /\ Len(q) \in Nat
    BY LenProperties DEF Joins
  <2>2. r \in [1..Len(q) -> [requester : Account, status : Status]]
    BY <2>1
  <2>3. r \in Joins
    <3> HIDE DEF r
    <3> QED BY <2>1, <2>2 DEF Joins
  <2> QED BY <2>1, <2>3
<1>2. Emitted(m, s, {"JoinRequested"}) = A /\ \A i \in A : m[i] = l[i] /\ i < Len(l) + 1
  <2>1. "JoinRequested" \notin Closing
    BY DEF Closing
  <2> QED BY <2>1, EmittedSame, EmittedGrown
<1>3. /\ D = C \cup {Len(l) + 1} /\ m[Len(l) + 1] = e
      /\ \A k \in C : m[k] = l[k]
  BY EmittedGrown
<1>4. /\ \A i \in A : l[i].id \in DOMAIN q /\ l[i].who = q[l[i].id].requester /\ l[i].key = l[i].id
      /\ \A k \in DOMAIN q : \E i \in A : l[i].id = k
      /\ \A i, j \in A : i < j => l[i].id < l[j].id
  BY DEF JoinsLogged
<1>5. /\ \A k \in C : /\ l[k].id \in DOMAIN q /\ l[k].who = q[l[k].id].requester
                      /\ q[l[k].id].status # "pending"
                      /\ \E i \in A : i < k /\ l[i].id = l[k].id
      /\ \A j, k \in C : l[j].id = l[k].id => j = k
      /\ \A k \in DOMAIN q : q[k].status # "pending" => \E j \in C : l[j].id = k
  BY DEF ClosingsLogged
<1> HIDE DEF r, A, C, D
<1>6. JoinsLogged(r, m, s)
  <2>1. \A i \in A : m[i].id \in DOMAIN r /\ m[i].who = r[m[i].id].requester /\ m[i].key = m[i].id
    BY <1>1, <1>2, <1>4
  <2>2. \A k \in DOMAIN r : \E i \in A : m[i].id = k
    BY <1>1, <1>2, <1>4
  <2>3. \A i, j \in A : i < j => m[i].id < m[j].id
    BY <1>2, <1>4
  <2> QED BY <1>2, <2>1, <2>2, <2>3 DEF JoinsLogged
<1>7. ClosingsLogged(r, m, s)
  <2>1. \A k \in D : /\ m[k].id \in DOMAIN r /\ m[k].who = r[m[k].id].requester
                     /\ r[m[k].id].status # "pending"
                     /\ \E i \in A : i < k /\ m[i].id = m[k].id
    <3> SUFFICES ASSUME NEW k \in D
                 PROVE  /\ m[k].id \in DOMAIN r /\ m[k].who = r[m[k].id].requester
                        /\ r[m[k].id].status # "pending"
                        /\ \E i \in A : i < k /\ m[i].id = m[k].id
      OBVIOUS
    <3>1. CASE k \in C
      <4>1. m[k] = l[k] /\ l[k].id # id
        BY <1>3, <1>5, <3>1
      <4> QED BY <1>1, <1>2, <1>5, <3>1, <4>1
    <3>2. CASE k = Len(l) + 1
      BY <1>1, <1>2, <1>3, <1>4, <3>2
    <3> QED BY <1>3, <3>1, <3>2
  <2>2. \A j, k \in D : m[j].id = m[k].id => j = k
    BY <1>3, <1>5
  <2>3. \A k \in DOMAIN r : r[k].status # "pending" => \E j \in D : m[j].id = k
    BY <1>1, <1>3, <1>5
  <2> QED BY <1>2, <2>1, <2>2, <2>3 DEF ClosingsLogged, D
<1> QED
  BY <1>1, <1>6, <1>7 DEF r

LEMMA RosterChanged ==
    ASSUME NEW l, NEW m, NEW e, NEW s \in Swarm, Grown(l, m, e), NEW f, NEW g,
           NEW a \in Account, \A b \in Account \ {a} : g[b] = f[b],
           e.source = s, e.name \in RosterEvents, e.who = a,
           e.name = "JoinApproved" => g[a].active /\ g[a].joinedEpoch = e.epoch /\ g[a].key = e.id,
           e.name = "MemberRemoved" => ~g[a].active,
           MembersLogged(f, l, s)
    PROVE  MembersLogged(g, m, s)
<1> SUFFICES ASSUME NEW b \in Account
             PROVE  /\ g[b].active => \E i \in DOMAIN m : Standing(m, s, b, i)
                    /\ \A i \in DOMAIN m :
                         Standing(m, s, b, i) => /\ g[b].active /\ g[b].joinedEpoch = m[i].epoch
                                                 /\ g[b].key = m[i].id
  BY DEF MembersLogged
<1>1. CASE b # a
  <2>1. /\ \A i \in DOMAIN l : Standing(m, s, b, i) <=> Standing(l, s, b, i)
        /\ \A i \in DOMAIN m : Standing(m, s, b, i) => i \in DOMAIN l
        /\ \A i \in DOMAIN l : m[i] = l[i] /\ i \in DOMAIN m
    <3>1. e.who # b
      BY <1>1
    <3>2. StandingKept(l, m, s, b)
      BY <3>1, StandingSame
    <3> QED BY ONLY <3>2 DEF StandingKept
  <2> HIDE DEF Standing
  <2> QED BY <1>1, <2>1 DEF MembersLogged
<1>2. CASE b = a
  <2> DEFINE p == Len(l) + 1
  <2>1. /\ Emitted(m, s, RosterEvents) = Emitted(l, s, RosterEvents) \cup {p}
        /\ \A i \in Emitted(l, s, RosterEvents) : i \in 1..Len(l)
        /\ m[p] = e
    BY EmittedGrown
  <2>2. p \in DOMAIN m /\ p \in Nat /\ DOMAIN m \subseteq Nat /\ Len(l) \in Nat
    BY DEF Grown
  <2>3. \A i \in DOMAIN m : Standing(m, s, a, i) => i = p
    <3>1. "JoinApproved" \in RosterEvents
      BY DEF RosterEvents
    <3>2. \A i \in DOMAIN m : Standing(m, s, a, i) => i \in Emitted(m, s, RosterEvents) /\ p <= i
      BY <2>1, <3>1 DEF Standing, Emitted
    <3> QED BY <2>1, <2>2, <3>2
  <2>4. Standing(m, s, a, p) <=> e.name = "JoinApproved"
    <3>1. p \in Emitted(m, s, {"JoinApproved"}) <=> e.name = "JoinApproved"
      BY <2>1, <2>2 DEF Emitted
    <3>2. \A j \in Emitted(m, s, RosterEvents) : j <= p
      BY <2>1, <2>2
    <3> QED BY <2>1, <3>1, <3>2 DEF Standing
  <2>5. e.name = "JoinApproved" \/ e.name = "MemberRemoved"
    BY DEF RosterEvents
  <2> HIDE DEF Standing, p
  <2> QED BY <1>2, <2>1, <2>2, <2>3, <2>4, <2>5
<1> QED
  BY <1>1, <1>2

LEMMA EpochChanged ==
    ASSUME NEW l, NEW m, NEW e, NEW s \in Swarm, Grown(l, m, e),
           e.source = s, e.name = "EpochRotated"
    PROVE  EpochLogged(e.epoch, m, s)
<1>1. /\ Emitted(m, s, {"EpochRotated"}) = Emitted(l, s, {"EpochRotated"}) \cup {Len(l) + 1}
      /\ \A i \in Emitted(l, s, {"EpochRotated"}) : i \in 1..Len(l) /\ i < Len(l) + 1
      /\ m[Len(l) + 1] = e /\ Len(l) \in Nat
  <2>1. Len(l) \in Nat
    BY DEF Grown
  <2> QED BY <2>1, EmittedGrown
<1> DEFINE A == Emitted(m, s, {"EpochRotated"})
<1>2. A # {} /\ \A i \in A : (\A j \in A : j <= i) => i = Len(l) + 1
  BY <1>1
<1>3. \A i \in A : (\A j \in A : j <= i) => m[i].epoch = e.epoch
  BY <1>1, <1>2
<1> QED
  BY <1>2, <1>3 DEF EpochLogged

LEMMA BindingChanged ==
    ASSUME NEW l, NEW m, NEW e, NEW s \in Swarm, Grown(l, m, e),
           e.source = s, e.name = "TreasurySet"
    PROVE  BindingLogged(e.who, m, s)
<1>1. /\ Emitted(m, s, {"TreasurySet"}) = Emitted(l, s, {"TreasurySet"}) \cup {Len(l) + 1}
      /\ \A i \in Emitted(l, s, {"TreasurySet"}) : i \in 1..Len(l) /\ i < Len(l) + 1
      /\ m[Len(l) + 1] = e /\ Len(l) \in Nat
  <2>1. Len(l) \in Nat
    BY DEF Grown
  <2> QED BY <2>1, EmittedGrown
<1> DEFINE A == Emitted(m, s, {"TreasurySet"})
<1>2. A # {} /\ \A i \in A : (\A j \in A : j <= i) => i = Len(l) + 1
  BY <1>1
<1>3. \A i \in A : (\A j \in A : j <= i) => m[i].who = e.who
  BY <1>1, <1>2
<1> QED
  BY <1>2, <1>3 DEF BindingLogged

FundRequests == Seq([requester : Account, amount : Amount, status : Status])

LEMMA FundAsked ==
    ASSUME NEW l, NEW m, NEW e, NEW s \in Swarm, Grown(l, m, e), NEW f \in FundRequests,
           NEW a \in Account, NEW v \in Amount,
           e.source = s, e.name = "FundRequested", e.id = Len(f) + 1, e.who = a, e.amount = v,
           FundsLogged(f, l, s)
    PROVE  LET g == Append(f, [requester |-> a, amount |-> v, status |-> "pending"]) IN
           g \in FundRequests /\ FundsLogged(g, m, s) /\ \A r \in DOMAIN f : r \in DOMAIN g
             /\ g[r] = f[r]
<1> DEFINE g == Append(f, [requester |-> a, amount |-> v, status |-> "pending"])
           A == Emitted(l, s, {"FundRequested"})
           B == Emitted(m, s, {"FundRequested"})
           D == Emitted(l, s, Deciding)
<1>1. Len(f) \in Nat /\ DOMAIN f = 1..Len(f) /\ DOMAIN g = 1..(Len(f) + 1) /\ g \in FundRequests
      /\ (\A r \in DOMAIN f : r \in DOMAIN g /\ g[r] = f[r])
      /\ g[Len(f) + 1].requester = a /\ g[Len(f) + 1].status = "pending" /\ g[Len(f) + 1].amount = v
  BY DEF FundRequests, Status
<1>2. B = A \cup {Len(l) + 1} /\ m[Len(l) + 1] = e /\ \A i \in A : m[i] = l[i]
  BY EmittedGrown
<1>3. Emitted(m, s, Deciding) = D /\ \A k \in D : m[k] = l[k]
  BY EmittedSame DEF Deciding
<1>4. /\ \A i \in A : /\ l[i].id \in DOMAIN f
                      /\ l[i].who = f[l[i].id].requester /\ l[i].amount = f[l[i].id].amount
                      /\ f[l[i].id].status # "pending" => \E j \in D : i < j /\ l[j].id = l[i].id
      /\ \A j \in D : l[j].id \in DOMAIN f /\ f[l[j].id].status = Verdict(l[j].name)
  BY DEF FundsLogged
<1> HIDE DEF g, A, B, D
<1>5. \A i \in B : /\ m[i].id \in DOMAIN g
                   /\ m[i].who = g[m[i].id].requester /\ m[i].amount = g[m[i].id].amount
                   /\ g[m[i].id].status # "pending" => \E j \in D : i < j /\ m[j].id = m[i].id
  <2> SUFFICES ASSUME NEW i \in B
               PROVE  /\ m[i].id \in DOMAIN g
                      /\ m[i].who = g[m[i].id].requester /\ m[i].amount = g[m[i].id].amount
                      /\ g[m[i].id].status # "pending" => \E j \in D : i < j /\ m[j].id = m[i].id
    OBVIOUS
  <2>1. CASE i \in A
    BY <1>1, <1>2, <1>3, <1>4, <2>1
  <2>2. CASE i = Len(l) + 1
    BY <1>1, <1>2, <2>2
  <2> QED BY <1>2, <2>1, <2>2
<1>6. \A j \in D : m[j].id \in DOMAIN g /\ g[m[j].id].status = Verdict(m[j].name)
  BY <1>1, <1>3, <1>4
<1>7. FundsLogged(g, m, s)
  BY <1>3, <1>5, <1>6 DEF FundsLogged, B
<1> QED
  BY <1>1, <1>7 DEF g

LEMMA FundDecided ==
    ASSUME NEW l, NEW m, NEW e, NEW s \in Swarm, Grown(l, m, e), NEW f \in FundRequests,
           NEW r \in DOMAIN f, NEW verdict \in Status \ {"pending"}, f[r].status = "pending",
           e.source = s, e.name \in Deciding, e.id = r, verdict = Verdict(e.name),
           FundsLogged(f, l, s)
    PROVE  LET g == [f EXCEPT ![r].status = verdict] IN
           /\ g \in FundRequests /\ FundsLogged(g, m, s)
           /\ DOMAIN g = DOMAIN f /\ g[r].status = verdict
           /\ \A k \in DOMAIN f : g[k].requester = f[k].requester /\ g[k].amount = f[k].amount
                                  /\ (k # r => g[k].status = f[k].status)
<1> DEFINE g == [f EXCEPT ![r].status = verdict]
           A == Emitted(l, s, {"FundRequested"})
           D == Emitted(l, s, Deciding)
           H == Emitted(m, s, Deciding)
<1>1. /\ DOMAIN g = DOMAIN f /\ g \in FundRequests
      /\ (\A k \in DOMAIN f : g[k].requester = f[k].requester /\ g[k].amount = f[k].amount
                              /\ (k # r => g[k].status = f[k].status))
      /\ g[r].status = verdict /\ verdict # "pending"
  <2>1. f \in [1..Len(f) -> [requester : Account, amount : Amount, status : Status]]
          /\ Len(f) \in Nat
    BY LenProperties DEF FundRequests
  <2>2. g \in [1..Len(f) -> [requester : Account, amount : Amount, status : Status]]
    BY <2>1
  <2>3. g \in FundRequests
    <3> HIDE DEF g
    <3> QED BY <2>1, <2>2 DEF FundRequests
  <2> QED BY <2>1, <2>3
<1>2. Emitted(m, s, {"FundRequested"}) = A /\ \A i \in A : m[i] = l[i] /\ i \in 1..Len(l)
  <2>1. "FundRequested" \notin Deciding
    BY DEF Deciding
  <2> QED BY <2>1, EmittedSame, EmittedGrown
<1>3. H = D \cup {Len(l) + 1} /\ m[Len(l) + 1] = e /\ Len(l) \in Nat /\ \A k \in D : m[k] = l[k]
  <2>1. Len(l) \in Nat
    BY DEF Grown
  <2> QED BY <2>1, EmittedGrown
<1>4. /\ \A i \in A : /\ l[i].id \in DOMAIN f
                      /\ l[i].who = f[l[i].id].requester /\ l[i].amount = f[l[i].id].amount
                      /\ f[l[i].id].status # "pending" => \E j \in D : i < j /\ l[j].id = l[i].id
      /\ \A j \in D : l[j].id \in DOMAIN f /\ f[l[j].id].status = Verdict(l[j].name)
  BY DEF FundsLogged
<1>5. \A j \in D : Verdict(l[j].name) # "pending"
  BY DEF Verdict, Deciding, Emitted
<1> HIDE DEF g, A, D, H
<1>6. \A i \in A : /\ m[i].id \in DOMAIN g
                   /\ m[i].who = g[m[i].id].requester /\ m[i].amount = g[m[i].id].amount
                   /\ g[m[i].id].status # "pending" => \E j \in H : i < j /\ m[j].id = m[i].id
  <2> SUFFICES ASSUME NEW i \in A
               PROVE  /\ m[i].id \in DOMAIN g
                      /\ m[i].who = g[m[i].id].requester /\ m[i].amount = g[m[i].id].amount
                      /\ g[m[i].id].status # "pending" => \E j \in H : i < j /\ m[j].id = m[i].id
    OBVIOUS
  <2>1. CASE l[i].id = r
    <3>1. i < Len(l) + 1 /\ Len(l) + 1 \in H /\ m[Len(l) + 1].id = r
      BY <1>2, <1>3
    <3> QED BY <1>1, <1>2, <1>4, <2>1, <3>1
  <2>2. CASE l[i].id # r
    BY <1>1, <1>2, <1>3, <1>4, <2>2
  <2> QED BY <2>1, <2>2
<1>7. \A j \in H : m[j].id \in DOMAIN g /\ g[m[j].id].status = Verdict(m[j].name)
  <2> SUFFICES ASSUME NEW j \in H
               PROVE  m[j].id \in DOMAIN g /\ g[m[j].id].status = Verdict(m[j].name)
    OBVIOUS
  <2>1. CASE j \in D
    <3>1. m[j] = l[j] /\ l[j].id # r
      BY <1>3, <1>4, <1>5, <2>1
    <3> QED BY <1>1, <1>4, <2>1, <3>1
  <2>2. CASE j = Len(l) + 1
    BY <1>1, <1>3, <2>2
  <2> QED BY <1>3, <2>1, <2>2
<1>8. FundsLogged(g, m, s)
  BY <1>2, <1>6, <1>7 DEF FundsLogged, H
<1> QED
  BY <1>1, <1>8 DEF g

-----------------------------------------------------------------------------
(* Where a flattened sequence has the elements of its parts: the k-th part *)
(* after o[k] others.                                                      *)
Parts(l, ss, o) ==
    /\ o \in [1..Len(ss) -> Nat]
    /\ \A k \in 1..Len(ss) : o[k] + Len(ss[k]) <= Len(l)
    /\ \A k \in 1..Len(ss) : \A q \in 1..Len(ss[k]) : l[o[k] + q] = ss[k][q]
    /\ \A p \in 1..Len(l) : \E k \in 1..Len(ss) : \E q \in 1..Len(ss[k]) : p = o[k] + q
    /\ \A j, k \in 1..Len(ss) : j < k => o[j] + Len(ss[j]) <= o[k]

LEMMA OnePart ==
    ASSUME NEW T, NEW s \in Seq(T), NEW ss \in Seq(Seq(T)), Len(ss) = 1, ss[1] = s
    PROVE  \E o : Parts(s, ss, o)
<1> DEFINE o == [k \in 1..1 |-> 0]
<1>1. Len(s) \in Nat
  OBVIOUS
<1>2. \A p \in 1..Len(s) : 0 + p \in 1..Len(s) /\ s[0 + p] = s[p] /\ p = 0 + p
  BY <1>1
<1> SUFFICES Parts(s, ss, o)
  OBVIOUS
<1>3. o \in [1..Len(ss) -> Nat] /\ \A k \in 1..Len(ss) : k = 1 /\ o[k] = 0 /\ ss[k] = s
  OBVIOUS
<1>4. 1 \in 1..Len(ss)
  OBVIOUS
<1> HIDE DEF o
<1> QED
  BY <1>1, <1>2, <1>3, <1>4 DEF Parts

LEMMA MoreParts ==
    ASSUME NEW T, NEW l \in Seq(T), NEW s \in Seq(T),
           NEW rr \in Seq(Seq(T)), NEW ss \in Seq(Seq(T)),
           Len(ss) = Len(rr) + 1, \A k \in 1..Len(rr) : ss[k] = rr[k], ss[Len(rr) + 1] = s,
           \E o : Parts(l, rr, o)
    PROVE  \E o : Parts(l \o s, ss, o)
<1> DEFINE n == Len(rr)
           m == l \o s
<1>1. PICK o : Parts(l, rr, o)
  OBVIOUS
<1> DEFINE w == [k \in 1..(n + 1) |-> IF k <= n THEN o[k] ELSE Len(l)]
<1>2. /\ n \in Nat /\ Len(l) \in Nat /\ Len(s) \in Nat /\ Len(m) = Len(l) + Len(s)
      /\ \A k \in 1..n : Len(rr[k]) \in Nat
      /\ \A i \in 1..Len(l) : m[i] = l[i]
      /\ \A q \in 1..Len(s) : m[Len(l) + q] = s[q]
  OBVIOUS
<1> HIDE DEF m
<1>3. /\ o \in [1..n -> Nat]
      /\ \A k \in 1..n : o[k] + Len(rr[k]) <= Len(l)
      /\ \A k \in 1..n : \A q \in 1..Len(rr[k]) : l[o[k] + q] = rr[k][q]
      /\ \A p \in 1..Len(l) : \E k \in 1..n : \E q \in 1..Len(rr[k]) : p = o[k] + q
      /\ \A j, k \in 1..n : j < k => o[j] + Len(rr[j]) <= o[k]
  BY <1>1 DEF Parts
<1>4. /\ Len(ss) = n + 1 /\ (\A k \in 1..n : ss[k] = rr[k]) /\ ss[n + 1] = s
      /\ w \in [1..(n + 1) -> Nat] /\ (\A k \in 1..n : w[k] = o[k]) /\ w[n + 1] = Len(l)
  BY <1>2, <1>3
<1> HIDE DEF n, w
<1>6. /\ \A k \in 1..(n + 1) : k \in 1..n \/ k = n + 1
      /\ \A k \in 1..n : k \in 1..(n + 1)
  BY <1>2
<1>5. \A k \in 1..(n + 1) : w[k] + Len(ss[k]) <= Len(m)
  <2> SUFFICES ASSUME NEW k \in 1..(n + 1)
               PROVE  w[k] + Len(ss[k]) <= Len(m)
    OBVIOUS
  <2>1. CASE k \in 1..n
    <3>1. w[k] = o[k] /\ ss[k] = rr[k] /\ o[k] \in Nat /\ Len(rr[k]) \in Nat
      BY <1>2, <1>3, <1>4, <2>1
    <3>2. o[k] + Len(rr[k]) <= Len(l)
      BY <1>3, <2>1
    <3> QED BY <1>2, <3>1, <3>2
  <2>2. CASE k = n + 1
    BY <1>2, <1>4, <2>2
  <2> QED BY <1>6, <2>1, <2>2
<1>7. \A k \in 1..(n + 1) : \A q \in 1..Len(ss[k]) : m[w[k] + q] = ss[k][q]
  <2> SUFFICES ASSUME NEW k \in 1..(n + 1), NEW q \in 1..Len(ss[k])
               PROVE  m[w[k] + q] = ss[k][q]
    OBVIOUS
  <2>1. CASE k \in 1..n
    <3>1. w[k] = o[k] /\ ss[k] = rr[k] /\ o[k] \in Nat /\ Len(rr[k]) \in Nat
      BY <1>2, <1>3, <1>4, <2>1
    <3>2. q \in 1..Len(rr[k]) /\ o[k] + Len(rr[k]) <= Len(l)
      BY <1>3, <2>1, <3>1
    <3>3. o[k] + q \in 1..Len(l)
      <4>1. \A x, y, z, u \in Nat : z \in 1..y /\ x + y <= u => x + z \in 1..u
        OBVIOUS
      <4>2. Len(l) \in Nat /\ q \in Nat
        BY <1>2, <3>1, <3>2
      <4> QED BY <3>1, <3>2, <4>1, <4>2
    <3>4. l[o[k] + q] = rr[k][q]
      BY <1>3, <2>1, <3>2
    <3> QED BY <1>2, <3>1, <3>3, <3>4
  <2>2. CASE k = n + 1
    BY <1>2, <1>4, <2>2
  <2> QED BY <1>6, <2>1, <2>2
<1>8. \A p \in 1..Len(m) : \E k \in 1..(n + 1) : \E q \in 1..Len(ss[k]) : p = w[k] + q
  <2> SUFFICES ASSUME NEW p \in 1..Len(m)
               PROVE  \E k \in 1..(n + 1) : \E q \in 1..Len(ss[k]) : p = w[k] + q
    OBVIOUS
  <2>1. CASE p \in 1..Len(l)
    <3>1. PICK k \in 1..n : \E q \in 1..Len(rr[k]) : p = o[k] + q
      BY <1>3, <2>1
    <3>2. k \in 1..(n + 1) /\ ss[k] = rr[k] /\ w[k] = o[k]
      BY <1>4, <1>6
    <3> QED BY <3>1, <3>2
  <2>2. CASE p \notin 1..Len(l)
    <3>1. p - Len(l) \in 1..Len(s) /\ p = Len(l) + (p - Len(l)) /\ n + 1 \in 1..(n + 1)
      BY <1>2, <2>2
    <3> QED BY <1>4, <3>1
  <2> QED BY <2>1, <2>2
<1>9. \A j, k \in 1..(n + 1) : j < k => w[j] + Len(ss[j]) <= w[k]
  <2> SUFFICES ASSUME NEW j \in 1..(n + 1), NEW k \in 1..(n + 1), j < k
               PROVE  w[j] + Len(ss[j]) <= w[k]
    OBVIOUS
  <2>0. j \in 1..n
    BY <1>2
  <2>1. w[j] = o[j] /\ ss[j] = rr[j]
    BY <1>4, <2>0
  <2>2. CASE k \in 1..n
    BY <1>3, <1>4, <2>0, <2>1, <2>2
  <2>3. CASE k = n + 1
    BY <1>3, <1>4, <2>0, <2>1, <2>3
  <2> QED BY <1>6, <2>2, <2>3
<1>10. Parts(m, ss, w)
  BY <1>4, <1>5, <1>7, <1>8, <1>9 DEF Parts
<1> QED
  BY <1>10 DEF m

LEMMA FlattenParts ==
    ASSUME NEW T, NEW ss \in Seq(Seq(T)), Len(ss) # 0
    PROVE  FlattenSeq(ss) \in Seq(T) /\ \E o : Parts(FlattenSeq(ss), ss, o)
<1> DEFINE n == Len(ss)
           F(v, i) == v = [j \in 1..i |-> IF j = 1 THEN ss[j] ELSE v[j-1] \o ss[j]]
           S == {i \in 0..n : \E v : F(v, i)}
<1>1. n \in Nat /\ n # 0 /\ \A j \in 1..n : ss[j] \in Seq(T)
  OBVIOUS
<1>2. 0 \in S
  <2>1. F([j \in 1..0 |-> 0], 0)
    OBVIOUS
  <2> HIDE DEF F
  <2> QED BY <1>1, <2>1
<1>3. ASSUME NEW i \in 0..n, i \in S, i < n
      PROVE  i + 1 \in S
  <2>1. PICK v : F(v, i)
    BY <1>3
  <2> DEFINE w == [j \in 1..(i+1) |-> IF j <= i THEN v[j]
                                      ELSE IF j = 1 THEN ss[j] ELSE v[j-1] \o ss[j]]
  <2>2. F(w, i + 1)
    <3> SUFFICES ASSUME NEW j \in 1..(i+1)
                 PROVE  w[j] = IF j = 1 THEN ss[j] ELSE w[j-1] \o ss[j]
      OBVIOUS
    <3>1. \A k \in 1..i : v[k] = IF k = 1 THEN ss[k] ELSE v[k-1] \o ss[k]
      BY <2>1
    <3>2. CASE j <= i
      <4>1. j \in 1..i /\ w[j] = v[j] /\ (j # 1 => w[j-1] = v[j-1])
        BY <3>2
      <4> HIDE DEF w, F
      <4> QED BY <3>1, <4>1
    <3>3. CASE j > i
      <4>1. w[j] = IF j = 1 THEN ss[j] ELSE v[j-1] \o ss[j]
        BY <3>3
      <4>2. j # 1 => w[j-1] = v[j-1]
        BY <3>3
      <4> HIDE DEF w, F
      <4> QED BY <4>1, <4>2
    <3> QED BY <3>2, <3>3
  <2> HIDE DEF F, w
  <2> QED BY <2>2, <1>1, <1>3
<1>4. \E v : F(v, n)
  <2> HIDE DEF S
  <2>1. \A i \in 0..n : i \in S
    BY <1>1, <1>2, <1>3, UpTo
  <2>2. n \in S
    BY <1>1, <2>1
  <2> HIDE DEF F
  <2> QED BY <2>2 DEF S
<1> DEFINE flat == CHOOSE v : F(v, n)
<1>5. F(flat, n)
  <2> HIDE DEF F
  <2> QED BY <1>4
<1>6. FlattenSeq(ss) = flat[n]
  BY <1>1 DEF FlattenSeq
<1> HIDE DEF flat
<1>7. flat[1] = ss[1] /\ \A j \in 2..n : flat[j] = flat[j-1] \o ss[j]
  <2>1. \A j \in 1..n : flat[j] = IF j = 1 THEN ss[j] ELSE flat[j-1] \o ss[j]
    BY <1>5
  <2> HIDE DEF F
  <2>2. \A j \in 2..n : j \in 1..n /\ j # 1
    BY <1>1
  <2>3. 1 \in 1..n
    BY <1>1
  <2> HIDE DEF n
  <2> QED BY <2>1, <2>2, <2>3
<1> DEFINE init(i) == SubSeq(ss, 1, i)
           G == {i \in 0..n : i # 0 => flat[i] \in Seq(T) /\ \E o : Parts(flat[i], init(i), o)}
<1>8. \A i \in 0..n : /\ init(i) \in Seq(Seq(T)) /\ Len(init(i)) = i
                      /\ \A k \in 1..i : init(i)[k] = ss[k]
  BY <1>1
<1> HIDE DEF init, F, S
<1>9. 0 \in G
  BY <1>1
<1>10. ASSUME NEW i \in 0..n, i \in G, i < n
       PROVE  i + 1 \in G
  <2>1. i + 1 \in 1..n /\ i + 1 \in 0..n
    BY <1>1, <1>10
  <2>2. CASE i = 0
    <3>1. flat[1] \in Seq(T) /\ flat[1] = ss[1]
      BY <1>1, <1>7
    <3>2. init(1) \in Seq(Seq(T)) /\ Len(init(1)) = 1 /\ init(1)[1] = ss[1]
      <4>1. 1 \in 0..n /\ 1 \in 1..1
        BY <2>1, <2>2
      <4> QED BY <1>8, <4>1
    <3>3. \E o : Parts(flat[1], init(1), o)
      BY <3>1, <3>2, OnePart
    <3> QED BY <2>1, <2>2, <3>1, <3>3
  <2>3. CASE i # 0
    <3> DEFINE l == flat[i]
               s == ss[i+1]
    <3>1. flat[i+1] = l \o s /\ s \in Seq(T)
      <4>1. i + 1 \in 2..n /\ (i + 1) - 1 = i
        BY <2>1, <2>3
      <4> QED BY <1>1, <1>7, <2>1, <4>1
    <3>2. l \in Seq(T) /\ \E o : Parts(l, init(i), o)
      BY <1>10, <2>3
    <3>3. /\ init(i) \in Seq(Seq(T)) /\ init(i+1) \in Seq(Seq(T))
          /\ Len(init(i+1)) = Len(init(i)) + 1 /\ Len(init(i)) = i
          /\ (\A k \in 1..Len(init(i)) : init(i+1)[k] = init(i)[k])
          /\ init(i+1)[Len(init(i)) + 1] = s
      <4>1. /\ init(i) \in Seq(Seq(T)) /\ Len(init(i)) = i
            /\ \A k \in 1..i : init(i)[k] = ss[k]
        BY <1>8
      <4>2. /\ init(i+1) \in Seq(Seq(T)) /\ Len(init(i+1)) = i + 1
            /\ \A k \in 1..(i+1) : init(i+1)[k] = ss[k]
        BY <1>8, <2>1
      <4>3. \A k \in 1..i : k \in 1..(i+1)
        OBVIOUS
      <4>4. i + 1 \in 1..(i+1)
        OBVIOUS
      <4>5. init(i+1)[i + 1] = s
        BY <4>2, <4>4
      <4> DEFINE a == init(i)
                 b == init(i+1)
      <4>6. /\ a \in Seq(Seq(T)) /\ Len(a) = i /\ \A k \in 1..i : a[k] = ss[k]
            /\ b \in Seq(Seq(T)) /\ Len(b) = i + 1 /\ \A k \in 1..(i+1) : b[k] = ss[k]
            /\ b[i + 1] = s
        BY <4>1, <4>2, <4>5
      <4> HIDE DEF a, b, s
      <4>7. \A k \in 1..i : b[k] = a[k]
        BY <4>3, <4>6
      <4>8. Len(b) = Len(a) + 1 /\ (\A k \in 1..Len(a) : b[k] = a[k]) /\ b[Len(a) + 1] = s
        BY <4>6, <4>7
      <4> QED BY <4>6, <4>8 DEF a, b
    <3> HIDE DEF l, s
    <3>4. \E o : Parts(l \o s, init(i+1), o)
      BY <3>1, <3>2, <3>3, MoreParts
    <3>5. l \o s \in Seq(T)
      BY <3>1, <3>2
    <3> QED BY <2>1, <3>1, <3>4, <3>5
  <2> QED BY <2>2, <2>3
<1>11. n \in G
  <2> HIDE DEF G, n
  <2>1. \A i \in 0..n : i \in G
    BY <1>1, <1>9, <1>10, UpTo
  <2> QED BY <1>1, <2>1
<1>12. init(n) = ss
  BY <1>1 DEF init
<1> HIDE DEF n
<1> QED
  BY <1>1, <1>6, <1>11, <1>12

-----------------------------------------------------------------------------
(* The log at the start. *)

(* Where the first events of s are: the binding at t, the request of the   *)
(* i-th founder at a[i] and its approval next.                             *)
FoundedAt(l, s, t, a) ==
    /\ a \in [DOMAIN Founders -> Nat] /\ t \in DOMAIN l
    /\ l[t] = [EventBy("TreasurySet", s) EXCEPT !.who = Active]
    /\ \A i \in DOMAIN Founders :
         /\ a[i] \in DOMAIN l /\ l[a[i]] = JoinRequested(s, i, Founders[i])
         /\ a[i] + 1 \in DOMAIN l /\ l[a[i] + 1] = JoinApproved(s, i, Founders[i], 0)
    /\ \A i, j \in DOMAIN Founders : i < j => a[i] + 1 < a[j]
    /\ \A p \in DOMAIN l :
         l[p].source = s => p = t \/ \E i \in DOMAIN Founders : p = a[i] \/ p = a[i] + 1

FirstEvents(s) ==
    {[EventBy("TreasurySet", s) EXCEPT !.who = Active]}
      \cup {JoinRequested(s, i, Founders[i]) : i \in DOMAIN Founders}
      \cup {JoinApproved(s, i, Founders[i], 0) : i \in DOMAIN Founders}

LEMMA FirstLogged ==
    ASSUME NEW s \in Swarm
    PROVE  /\ FirstEvents(s) \subseteq Records(SwarmEvents, Swarm)
           /\ \A e \in FirstEvents(s) : /\ e.source = s /\ e.block = 0
                                        /\ e.name \in {"TreasurySet", "JoinRequested", "JoinApproved"}
<1>1. Active \in Treasury /\ \A i \in DOMAIN Founders : i \in Nat /\ Founders[i] \in Account
  BY ViewsAssumption, LenProperties
<1>2. [EventBy("TreasurySet", s) EXCEPT !.who = Active] \in Records(SwarmEvents, Swarm)
  BY <1>1 DEF EventBy, Records, SwarmEvents
<1>3. \A i \in DOMAIN Founders : JoinRequested(s, i, Founders[i]) \in Records(SwarmEvents, Swarm)
  BY <1>1 DEF JoinRequested, EventBy, Records, SwarmEvents
<1>4. \A i \in DOMAIN Founders : JoinApproved(s, i, Founders[i], 0) \in Records(SwarmEvents, Swarm)
  BY <1>1 DEF JoinApproved, EventBy, Records, SwarmEvents
<1>5. FirstEvents(s) \subseteq Records(SwarmEvents, Swarm)
  BY <1>2, <1>3, <1>4 DEF FirstEvents
<1>6. \A e \in FirstEvents(s) : /\ e.source = s /\ e.block = 0
                                /\ e.name \in {"TreasurySet", "JoinRequested", "JoinApproved"}
  BY DEF FirstEvents, EventBy, JoinRequested, JoinApproved
<1> QED
  BY <1>5, <1>6

LEMMA FoundingParts ==
    ASSUME NEW s \in Swarm
    PROVE  /\ Founding(s) \in Seq(FirstEvents(s)) /\ Len(Founding(s)) # 0
           /\ \E a : FoundedAt(Founding(s), s, 1, a)
<1> DEFINE E == FirstEvents(s)
           pair(i) == <<JoinRequested(s, i, Founders[i]), JoinApproved(s, i, Founders[i], 0)>>
           ss == [i \in DOMAIN Founders |-> pair(i)]
           bound == [EventBy("TreasurySet", s) EXCEPT !.who = Active]
           l == FlattenSeq(ss)
           n == Len(Founders)
<1>1. n \in Nat /\ DOMAIN Founders = 1..n
  BY ViewsAssumption
<1>2. ss \in Seq(Seq(E)) /\ Len(ss) = n
      /\ \A i \in 1..n : /\ Len(ss[i]) = 2 /\ ss[i][1] = JoinRequested(s, i, Founders[i])
                         /\ ss[i][2] = JoinApproved(s, i, Founders[i], 0)
  <2>1. \A i \in 1..n : pair(i) \in Seq(E)
    BY <1>1 DEF FirstEvents
  <2> HIDE DEF pair
  <2>2. ss \in Seq(Seq(E)) /\ Len(ss) = n /\ \A i \in 1..n : ss[i] = pair(i)
    BY <1>1, <2>1
  <2>3. \A i \in 1..n : /\ Len(pair(i)) = 2 /\ pair(i)[1] = JoinRequested(s, i, Founders[i])
                       /\ pair(i)[2] = JoinApproved(s, i, Founders[i], 0)
    BY DEF pair
  <2> HIDE DEF ss, n
  <2> QED BY <2>2, <2>3
<1>3. bound \in E
  BY DEF FirstEvents
<1>4. Founding(s) = <<bound>> \o l
  BY DEF Founding
<1> HIDE DEF bound, ss
<1>5. l \in Seq(E) /\ (n # 0 => \E o : Parts(l, ss, o)) /\ (n = 0 => l = <<>>)
  <2>1. CASE n = 0
    <3>1. FlattenSeq(ss) = ss /\ ss = <<>>
      BY <1>2, <2>1 DEF FlattenSeq
    <3> QED BY <2>1, <3>1
  <2>2. CASE n # 0
    BY <1>2, <2>2, FlattenParts
  <2> QED BY <2>1, <2>2
<1> HIDE DEF l, E
<1> DEFINE f == <<bound>> \o l
<1>6. /\ f \in Seq(E) /\ Len(f) = Len(l) + 1 /\ Len(l) \in Nat /\ DOMAIN f = 1..(Len(l) + 1)
      /\ f[1] = bound /\ \A p \in 1..Len(l) : f[p+1] = l[p]
  BY <1>3, <1>5
<1> HIDE DEF f
<1>7. \E a : FoundedAt(f, s, 1, a)
  <2>1. CASE n = 0
    <3>1. \A p \in DOMAIN f : p = 1
      BY <1>5, <1>6, <2>1
    <3>2. DOMAIN Founders = {} /\ 1 \in DOMAIN f
      BY <1>1, <1>6, <2>1
    <3>3. FoundedAt(f, s, 1, [i \in DOMAIN Founders |-> 0])
      BY <1>6, <3>1, <3>2 DEF FoundedAt, bound
    <3> QED BY <3>3
  <2>2. CASE n # 0
    <3>1. PICK o : Parts(l, ss, o)
      BY <1>5, <2>2
    <3>2. /\ o \in [1..n -> Nat]
          /\ \A k \in 1..n : o[k] + 2 <= Len(l)
          /\ \A k \in 1..n : \A q \in 1..2 : l[o[k] + q] = ss[k][q]
          /\ \A p \in 1..Len(l) : \E k \in 1..n : \E q \in 1..2 : p = o[k] + q
          /\ \A j, k \in 1..n : j < k => o[j] + 2 <= o[k]
      <4>1. /\ o \in [1..n -> Nat]
            /\ \A k \in 1..n : o[k] + Len(ss[k]) <= Len(l)
            /\ \A k \in 1..n : \A q \in 1..Len(ss[k]) : l[o[k] + q] = ss[k][q]
            /\ \A p \in 1..Len(l) : \E k \in 1..n : \E q \in 1..Len(ss[k]) : p = o[k] + q
            /\ \A j, k \in 1..n : j < k => o[j] + Len(ss[j]) <= o[k]
        BY <1>2, <3>1 DEF Parts
      <4>2. \A k \in 1..n : Len(ss[k]) = 2
        BY <1>2
      <4> HIDE DEF n
      <4>3. ASSUME NEW k \in 1..n
            PROVE  o[k] + 2 <= Len(l) /\ \A q \in 1..2 : l[o[k] + q] = ss[k][q]
        <5>1. o[k] + Len(ss[k]) <= Len(l) /\ Len(ss[k]) = 2
          BY ONLY <4>1, <4>2, k \in 1..n
        <5>2. \A q \in 1..Len(ss[k]) : l[o[k] + q] = ss[k][q]
          BY ONLY <4>1, k \in 1..n
        <5> QED BY ONLY <5>1, <5>2
      <4>5. ASSUME NEW p \in 1..Len(l)
            PROVE  \E k \in 1..n : \E q \in 1..2 : p = o[k] + q
        <5>1. PICK k \in 1..n : \E q \in 1..Len(ss[k]) : p = o[k] + q
          BY ONLY <4>1, p \in 1..Len(l)
        <5>2. Len(ss[k]) = 2
          BY <4>2
        <5> QED BY <5>1, <5>2
      <4>6. ASSUME NEW j \in 1..n, NEW k \in 1..n, j < k
            PROVE  o[j] + 2 <= o[k]
        <5>1. o[j] + Len(ss[j]) <= o[k]
          BY <4>1, <4>6
        <5>2. Len(ss[j]) = 2
          BY <4>2
        <5> QED BY ONLY <5>1, <5>2
      <4> QED BY <4>1, <4>3, <4>5, <4>6
    <3> HIDE DEF n
    <3>8. o \in [1..n -> Nat]
      BY <3>2
    <3> DEFINE a == [i \in 1..n |-> o[i] + 2]
    <3>3. a \in [1..n -> Nat] /\ \A i \in 1..n : a[i] = o[i] + 2 /\ o[i] \in Nat
      BY <3>8
    <3> HIDE DEF a
    <3>4. \A i \in 1..n : /\ a[i] \in DOMAIN f /\ f[a[i]] = JoinRequested(s, i, Founders[i])
                          /\ a[i] + 1 \in DOMAIN f
                          /\ f[a[i] + 1] = JoinApproved(s, i, Founders[i], 0)
      <4> SUFFICES ASSUME NEW i \in 1..n
                   PROVE  /\ a[i] \in DOMAIN f /\ f[a[i]] = JoinRequested(s, i, Founders[i])
                          /\ a[i] + 1 \in DOMAIN f
                          /\ f[a[i] + 1] = JoinApproved(s, i, Founders[i], 0)
        OBVIOUS
      <4>1. o[i] + 1 \in 1..Len(l) /\ o[i] + 2 \in 1..Len(l)
        <5>1. o[i] \in Nat /\ Len(l) \in Nat /\ o[i] + 2 <= Len(l)
          BY <1>6, <3>2, <3>8
        <5> QED BY <5>1
      <4>2. l[o[i] + 1] = ss[i][1] /\ l[o[i] + 2] = ss[i][2]
        BY <3>2
      <4>3. f[(o[i] + 1) + 1] = ss[i][1] /\ f[(o[i] + 2) + 1] = ss[i][2]
        BY <1>6, <4>1, <4>2
      <4>4. (o[i] + 1) + 1 = a[i] /\ (o[i] + 2) + 1 = a[i] + 1
        BY <3>3
      <4>5. o[i] + 1 + 1 \in DOMAIN f /\ o[i] + 2 + 1 \in DOMAIN f
        <5>1. o[i] \in Nat /\ Len(l) \in Nat /\ o[i] + 2 <= Len(l)
          BY <1>6, <3>2, <3>8
        <5> QED BY <1>6, <5>1
      <4>6. ss[i][1] = JoinRequested(s, i, Founders[i])
              /\ ss[i][2] = JoinApproved(s, i, Founders[i], 0)
        BY <1>2
      <4> QED BY <4>3, <4>4, <4>5, <4>6
    <3>5. \A i, j \in 1..n : i < j => a[i] + 1 < a[j]
      BY <3>2, <3>3
    <3>6. \A p \in DOMAIN f : p = 1 \/ \E i \in 1..n : p = a[i] \/ p = a[i] + 1
      <4> SUFFICES ASSUME NEW p \in DOMAIN f, p # 1
                   PROVE  \E i \in 1..n : p = a[i] \/ p = a[i] + 1
        OBVIOUS
      <4>1. p - 1 \in 1..Len(l) /\ p = (p - 1) + 1
        BY <1>6
      <4>2. PICK k \in 1..n : \E q \in 1..2 : p - 1 = o[k] + q
        BY <3>2, <4>1
      <4> QED BY <1>6, <3>3, <4>1, <4>2
    <3>7. FoundedAt(f, s, 1, a)
      <4>1. 1 \in DOMAIN f
        BY <1>6
      <4> QED BY <1>1, <1>6, <3>3, <3>4, <3>5, <3>6, <4>1 DEF FoundedAt, bound
    <3> QED BY <3>7
  <2> QED BY <2>1, <2>2
<1>8. Founding(s) = f
  BY <1>4 DEF f
<1> QED
  BY <1>6, <1>7, <1>8 DEF E

LEMMA FoundedFlat ==
    ASSUME NEW l, NEW ss, NEW o, NEW s \in Swarm,
           Len(ss) = NumSwarms, Len(l) \in Nat, DOMAIN l = 1..Len(l),
           Parts(l, ss, o), \A k \in 1..NumSwarms : ss[k] = Founding(k)
    PROVE  \E t, a : FoundedAt(l, s, t, a)
<1>1. NumSwarms \in Nat /\ Swarm = 1..NumSwarms
  BY ViewsAssumption DEF Swarm
<1>2. PICK a : FoundedAt(Founding(s), s, 1, a)
  BY FoundingParts
<1> DEFINE F == Founding(s)
           w == [i \in DOMAIN Founders |-> o[s] + a[i]]
<1>3. /\ F \in Seq(FirstEvents(s)) /\ Len(F) \in Nat /\ DOMAIN F = 1..Len(F) /\ Len(F) # 0
      /\ \A e \in FirstEvents(s) : e.source = s
  BY FoundingParts, FirstLogged
<1>4. \A k \in 1..NumSwarms : \A q \in DOMAIN Founding(k) : Founding(k)[q].source = k
  <2> SUFFICES ASSUME NEW k \in 1..NumSwarms, NEW q \in DOMAIN Founding(k)
               PROVE  Founding(k)[q].source = k
    OBVIOUS
  <2>1. k \in Swarm
    BY <1>1
  <2>2. Founding(k) \in Seq(FirstEvents(k)) /\ \A e \in FirstEvents(k) : e.source = k
    BY <2>1, FoundingParts, FirstLogged
  <2> QED BY <2>2
<1>5. \A k \in 1..NumSwarms : Len(Founding(k)) \in Nat /\ DOMAIN Founding(k) = 1..Len(Founding(k))
  <2> SUFFICES ASSUME NEW k \in 1..NumSwarms
               PROVE  Len(Founding(k)) \in Nat /\ DOMAIN Founding(k) = 1..Len(Founding(k))
    OBVIOUS
  <2>1. k \in Swarm
    BY <1>1
  <2>2. Founding(k) \in Seq(FirstEvents(k))
    BY <2>1, FoundingParts
  <2> QED BY <2>2
<1>6. /\ o[s] \in Nat /\ o[s] + Len(F) <= Len(l)
      /\ \A q \in 1..Len(F) : l[o[s] + q] = F[q]
      /\ \A p \in 1..Len(l) : \E k \in 1..NumSwarms : \E q \in 1..Len(Founding(k)) :
            p = o[k] + q /\ l[p] = Founding(k)[q]
  <2>1. /\ o \in [1..NumSwarms -> Nat]
        /\ \A k \in 1..NumSwarms : o[k] + Len(ss[k]) <= Len(l)
        /\ \A k \in 1..NumSwarms : \A q \in 1..Len(ss[k]) : l[o[k] + q] = ss[k][q]
        /\ \A p \in 1..Len(l) : \E k \in 1..NumSwarms : \E q \in 1..Len(ss[k]) : p = o[k] + q
    BY DEF Parts
  <2>2. s \in 1..NumSwarms /\ ss[s] = F
    BY <1>1
  <2>3. \A p \in 1..Len(l) : \E k \in 1..NumSwarms : \E q \in 1..Len(Founding(k)) :
            p = o[k] + q /\ l[p] = Founding(k)[q]
    <3> SUFFICES ASSUME NEW p \in 1..Len(l)
                 PROVE  \E k \in 1..NumSwarms : \E q \in 1..Len(Founding(k)) :
                           p = o[k] + q /\ l[p] = Founding(k)[q]
      OBVIOUS
    <3>1. PICK k \in 1..NumSwarms : \E q \in 1..Len(ss[k]) : p = o[k] + q
      BY <2>1
    <3>2. PICK q \in 1..Len(ss[k]) : p = o[k] + q
      BY <3>1
    <3>3. ss[k] = Founding(k) /\ l[o[k] + q] = ss[k][q]
      BY <2>1
    <3> QED BY <3>2, <3>3
  <2> HIDE DEF F
  <2> QED BY <2>1, <2>2, <2>3
<1> HIDE DEF F
<1>7. \A p \in 1..Len(l) : l[p].source = s => \E q \in 1..Len(F) : p = o[s] + q
  <2> SUFFICES ASSUME NEW p \in 1..Len(l), l[p].source = s
               PROVE  \E q \in 1..Len(F) : p = o[s] + q
    OBVIOUS
  <2>1. PICK k \in 1..NumSwarms : \E q \in 1..Len(Founding(k)) : p = o[k] + q
               /\ l[p] = Founding(k)[q]
    BY <1>6
  <2>2. PICK q \in 1..Len(Founding(k)) : p = o[k] + q /\ l[p] = Founding(k)[q]
    BY <2>1
  <2>3. k = s
    BY <1>4, <1>5, <2>2
  <2> QED BY <2>2, <2>3 DEF F
<1>8. /\ a \in [DOMAIN Founders -> Nat] /\ 1 \in DOMAIN F
      /\ F[1] = [EventBy("TreasurySet", s) EXCEPT !.who = Active]
      /\ \A i \in DOMAIN Founders :
           /\ a[i] \in DOMAIN F /\ F[a[i]] = JoinRequested(s, i, Founders[i])
           /\ a[i] + 1 \in DOMAIN F /\ F[a[i] + 1] = JoinApproved(s, i, Founders[i], 0)
      /\ \A i, j \in DOMAIN Founders : i < j => a[i] + 1 < a[j]
      /\ \A p \in DOMAIN F :
           F[p].source = s => p = 1 \/ \E i \in DOMAIN Founders : p = a[i] \/ p = a[i] + 1
  BY <1>2 DEF FoundedAt, F
<1>9. w \in [DOMAIN Founders -> Nat]
      /\ \A i \in DOMAIN Founders : w[i] = o[s] + a[i] /\ w[i] + 1 = o[s] + (a[i] + 1)
  <2>1. a \in [DOMAIN Founders -> Nat] /\ o[s] \in Nat
    BY <1>6, <1>8
  <2> QED BY <2>1
<1> HIDE DEF w
<1>10. \A q \in 1..Len(F) : o[s] + q \in DOMAIN l /\ l[o[s] + q] = F[q]
  <2>1. \A x, y, z, u \in Nat : z \in 1..y /\ x + y <= u => x + z \in 1..u
    OBVIOUS
  <2> SUFFICES ASSUME NEW q \in 1..Len(F)
               PROVE  o[s] + q \in DOMAIN l /\ l[o[s] + q] = F[q]
    OBVIOUS
  <2>2. q \in Nat
    BY <1>3
  <2> QED BY <1>3, <1>6, <2>1, <2>2
<1>11. \A i \in DOMAIN Founders :
         /\ w[i] \in DOMAIN l /\ l[w[i]] = JoinRequested(s, i, Founders[i])
         /\ w[i] + 1 \in DOMAIN l /\ l[w[i] + 1] = JoinApproved(s, i, Founders[i], 0)
  BY <1>3, <1>8, <1>9, <1>10
<1>12. \A i, j \in DOMAIN Founders : i < j => w[i] + 1 < w[j]
  <2> SUFFICES ASSUME NEW i \in DOMAIN Founders, NEW j \in DOMAIN Founders, i < j
               PROVE  w[i] + 1 < w[j]
    OBVIOUS
  <2>1. a[i] + 1 < a[j] /\ a[i] \in Nat /\ a[j] \in Nat /\ w[i] = o[s] + a[i] /\ w[j] = o[s] + a[j]
    BY <1>8, <1>9
  <2> QED BY <1>6, <2>1
<1>13. \A p \in DOMAIN l : l[p].source = s =>
          p = o[s] + 1 \/ \E i \in DOMAIN Founders : p = w[i] \/ p = w[i] + 1
  <2> SUFFICES ASSUME NEW p \in DOMAIN l, l[p].source = s
               PROVE  p = o[s] + 1 \/ \E i \in DOMAIN Founders : p = w[i] \/ p = w[i] + 1
    OBVIOUS
  <2>1. PICK q \in 1..Len(F) : p = o[s] + q
    BY <1>7
  <2>2. F[q].source = s
    BY <1>10, <2>1
  <2>3. q = 1 \/ \E i \in DOMAIN Founders : q = a[i] \/ q = a[i] + 1
    BY <1>3, <1>8, <2>2
  <2> QED BY <1>9, <2>1, <2>3
<1>14. FoundedAt(l, s, o[s] + 1, w)
  <2>1. o[s] + 1 \in DOMAIN l /\ l[o[s] + 1] = F[1]
    BY <1>3, <1>8, <1>10
  <2> QED BY <1>8, <1>9, <1>11, <1>12, <1>13, <2>1 DEF FoundedAt
<1> QED
  BY <1>14

AllFirstEvents == UNION {FirstEvents(s) : s \in Swarm}

LEMMA InitialLog ==
    ASSUME log = FlattenSeq([s \in Swarm |-> Founding(s)])
    PROVE  /\ log \in Seq(AllFirstEvents) /\ log \in LogType
           /\ Len(log) \in Nat /\ DOMAIN log = 1..Len(log)
           /\ \A i \in DOMAIN log : /\ log[i].block = 0 /\ log[i].source \in Swarm
                                    /\ log[i].name \in {"TreasurySet", "JoinRequested", "JoinApproved"}
           /\ \A s \in Swarm : \E t, a : FoundedAt(log, s, t, a)
<1>1. NumSwarms \in Nat /\ NumSwarms # 0 /\ Swarm = 1..NumSwarms
  <2>1. \E s \in Swarm : TRUE
    BY ViewsAssumption
  <2> QED BY <2>1, ViewsAssumption DEF Swarm
<1> DEFINE ss == [s \in Swarm |-> Founding(s)]
           E == AllFirstEvents
<1>2. \A s \in Swarm : Founding(s) \in Seq(E)
  <2> SUFFICES ASSUME NEW s \in Swarm
               PROVE  Founding(s) \in Seq(E)
    OBVIOUS
  <2>1. Founding(s) \in Seq(FirstEvents(s))
    BY FoundingParts
  <2>2. FirstEvents(s) \subseteq E
    BY DEF AllFirstEvents
  <2> QED BY <2>1, <2>2
<1> HIDE DEF E
<1>3. ss \in Seq(Seq(E)) /\ Len(ss) = NumSwarms /\ \A k \in 1..NumSwarms : ss[k] = Founding(k)
  BY <1>1, <1>2
<1>4. log = FlattenSeq(ss)
  OBVIOUS
<1> HIDE DEF ss
<1>5. log \in Seq(E) /\ \E o : Parts(log, ss, o)
  BY <1>1, <1>3, <1>4, FlattenParts
<1>6. Len(log) \in Nat /\ DOMAIN log = 1..Len(log)
  BY <1>5
<1>7. \A e \in E : /\ e \in Records(SwarmEvents, Swarm) /\ e.block = 0 /\ e.source \in Swarm
                   /\ e.name \in {"TreasurySet", "JoinRequested", "JoinApproved"}
  <2> SUFFICES ASSUME NEW s \in Swarm, NEW e \in FirstEvents(s)
               PROVE  /\ e \in Records(SwarmEvents, Swarm) /\ e.block = 0 /\ e.source \in Swarm
                      /\ e.name \in {"TreasurySet", "JoinRequested", "JoinApproved"}
    BY DEF E, AllFirstEvents
  <2> QED BY FirstLogged
<1>8. log \in LogType
  <2>1. E \subseteq Logged
    BY <1>7 DEF Logged
  <2> QED BY <1>5, <2>1 DEF LogType
<1>9. \A i \in DOMAIN log : log[i] \in E
  BY <1>5
<1>10. \A s \in Swarm : \E t, a : FoundedAt(log, s, t, a)
  BY <1>3, <1>5, <1>6, FoundedFlat
<1> QED
  BY <1>5, <1>6, <1>7, <1>8, <1>9, <1>10 DEF E

LEMMA DeployedType ==
    /\ Deployed \in Storage
    /\ Deployed.joins = [i \in DOMAIN Founders |-> [requester |-> Founders[i], status |-> "approved"]]
    /\ Deployed.funds = <<>> /\ Deployed.treasury = Active /\ Deployed.epoch = 0
    /\ \A a \in Account :
         /\ Deployed.members[a].active => \E i \in DOMAIN Founders : Founders[i] = a
         /\ \A i \in DOMAIN Founders : Founders[i] = a =>
              Deployed.members[a].active /\ Deployed.members[a].joinedEpoch = 0
              /\ Deployed.members[a].key = i
<1>1. /\ Founders \in Seq(Account) /\ Len(Founders) \in Nat /\ DOMAIN Founders = 1..Len(Founders)
      /\ Active \in Treasury /\ \A i, j \in DOMAIN Founders : Founders[i] = Founders[j] => i = j
  BY ViewsAssumption DEF IsInjective
<1> DEFINE mem == [a \in Account |-> IF \E i \in DOMAIN Founders : Founders[i] = a
                                     THEN Member(TRUE, CHOOSE i \in DOMAIN Founders :
                                                         Founders[i] = a, 0)
                                     ELSE Member(FALSE, 0, 0)]
           js == [i \in DOMAIN Founders |-> [requester |-> Founders[i], status |-> "approved"]]
<1>2. mem \in [Account -> [active : BOOLEAN, key : Nat, joinedEpoch : Nat]]
      /\ \A a \in Account :
         /\ mem[a].active => \E i \in DOMAIN Founders : Founders[i] = a
         /\ \A i \in DOMAIN Founders : Founders[i] = a =>
              mem[a].active /\ mem[a].joinedEpoch = 0 /\ mem[a].key = i
  <2>1. ASSUME NEW a \in Account
        PROVE  /\ mem[a] \in [active : BOOLEAN, key : Nat, joinedEpoch : Nat]
               /\ mem[a].active => \E i \in DOMAIN Founders : Founders[i] = a
               /\ \A i \in DOMAIN Founders : Founders[i] = a =>
                     mem[a].active /\ mem[a].joinedEpoch = 0 /\ mem[a].key = i
    <3>1. CASE \E i \in DOMAIN Founders : Founders[i] = a
      <4> DEFINE c == CHOOSE i \in DOMAIN Founders : Founders[i] = a
      <4>1. c \in DOMAIN Founders /\ Founders[c] = a /\ c \in Nat
        BY <1>1, <3>1
      <4>2. mem[a] = [active |-> TRUE, key |-> c, joinedEpoch |-> 0]
        BY <3>1 DEF Member
      <4> HIDE DEF c, mem
      <4> QED BY <1>1, <3>1, <4>1, <4>2
    <3>2. CASE ~\E i \in DOMAIN Founders : Founders[i] = a
      BY <3>2 DEF Member
    <3> QED BY <3>1, <3>2
  <2>2. DOMAIN mem = Account
    OBVIOUS
  <2>3. mem = [a \in Account |-> mem[a]]
    OBVIOUS
  <2> HIDE DEF mem
  <2> QED BY <2>1, <2>2, <2>3
<1>3. js \in Seq([requester : Account, status : Status])
  <2>1. js \in [1..Len(Founders) -> [requester : Account, status : Status]]
    BY <1>1 DEF Status
  <2> HIDE DEF js
  <2>2. Len(Founders) \in Nat
    BY <1>1
  <2> DEFINE R == [requester : Account, status : Status]
             n == Len(Founders)
  <2>3. js \in [1..n -> R] /\ n \in Nat
    BY <2>1, <2>2
  <2> HIDE DEF R, n
  <2>4. js \in Seq(R)
    BY ONLY <2>3, SeqDef
  <2> QED BY <2>4 DEF R
<1>4. Deployed = [members |-> mem, joins |-> js, funds |-> <<>>, treasury |-> Active,
                  epoch |-> 0, version |-> Len(Founders)]
  BY DEF Deployed
<1> HIDE DEF mem, js
<1>5. Deployed \in Storage
  <2>1. <<>> \in Seq([requester : Account, amount : Amount, status : Status])
    OBVIOUS
  <2> QED BY <1>1, <1>2, <1>3, <1>4, <2>1 DEF Storage
<1>6. Deployed.members = mem /\ Deployed.joins = js /\ Deployed.funds = <<>>
      /\ Deployed.treasury = Active /\ Deployed.epoch = 0
  BY <1>4
<1> QED
  BY <1>2, <1>5, <1>6 DEF js

LEMMA Founded ==
    ASSUME NEW l \in LogType, NEW s \in Swarm, NEW t, NEW a, FoundedAt(l, s, t, a)
    PROVE  SwarmLogged(Deployed, l, s)
<1> DEFINE q == Deployed.joins
<1>1. /\ Founders \in Seq(Account) /\ Len(Founders) \in Nat /\ DOMAIN Founders = 1..Len(Founders)
      /\ \A i, j \in DOMAIN Founders : Founders[i] = Founders[j] => i = j
  BY ViewsAssumption DEF IsInjective
<1>2. /\ DOMAIN q = DOMAIN Founders
      /\ \A i \in DOMAIN Founders : q[i].requester = Founders[i] /\ q[i].status = "approved"
  BY DeployedType
<1> HIDE DEF q
<1>3. /\ a \in [DOMAIN Founders -> Nat] /\ t \in DOMAIN l
      /\ \A i \in DOMAIN Founders : a[i] \in DOMAIN l /\ a[i] + 1 \in DOMAIN l
      /\ \A i, j \in DOMAIN Founders : i < j => a[i] + 1 < a[j]
      /\ \A p \in DOMAIN l :
           l[p].source = s => p = t \/ \E i \in DOMAIN Founders : p = a[i] \/ p = a[i] + 1
      /\ DOMAIN l \subseteq Nat
  BY DEF FoundedAt, LogType
<1>4. /\ l[t].source = s /\ l[t].name = "TreasurySet" /\ l[t].who = Active
      /\ \A i \in DOMAIN Founders :
           /\ l[a[i]].source = s /\ l[a[i]].name = "JoinRequested" /\ l[a[i]].id = i
           /\ l[a[i]].who = Founders[i] /\ l[a[i]].key = i
      /\ \A i \in DOMAIN Founders :
           /\ l[a[i] + 1].source = s /\ l[a[i] + 1].name = "JoinApproved" /\ l[a[i] + 1].id = i
           /\ l[a[i] + 1].who = Founders[i] /\ l[a[i] + 1].epoch = 0
  <2>1. l[t].source = s /\ l[t].name = "TreasurySet" /\ l[t].who = Active
    BY DEF FoundedAt, EventBy
  <2>2. ASSUME NEW i \in DOMAIN Founders
        PROVE  /\ l[a[i]].source = s /\ l[a[i]].name = "JoinRequested" /\ l[a[i]].id = i
               /\ l[a[i]].who = Founders[i] /\ l[a[i]].key = i
    <3>1. l[a[i]] = JoinRequested(s, i, Founders[i])
      BY DEF FoundedAt
    <3> QED BY <3>1 DEF EventBy, JoinRequested
  <2>3. ASSUME NEW i \in DOMAIN Founders
        PROVE  /\ l[a[i] + 1].source = s /\ l[a[i] + 1].name = "JoinApproved"
               /\ l[a[i] + 1].id = i /\ l[a[i] + 1].who = Founders[i] /\ l[a[i] + 1].epoch = 0
    <3>1. l[a[i] + 1] = JoinApproved(s, i, Founders[i], 0)
      BY DEF FoundedAt
    <3> QED BY <3>1 DEF EventBy, JoinApproved
  <2> QED BY <2>1, <2>2, <2>3
<1>5. \A p \in DOMAIN l : \A names :
         p \in Emitted(l, s, names) =>
            \/ p = t /\ "TreasurySet" \in names
            \/ \E i \in DOMAIN Founders : p = a[i] /\ "JoinRequested" \in names
            \/ \E i \in DOMAIN Founders : p = a[i] + 1 /\ "JoinApproved" \in names
  BY <1>3, <1>4 DEF Emitted
<1>6. \A p, names : p \in Emitted(l, s, names) => p \in DOMAIN l
  BY DEF Emitted
<1>7. /\ \A p \in Emitted(l, s, {"JoinRequested"}) : \E i \in DOMAIN Founders : p = a[i]
      /\ \A i \in DOMAIN Founders : a[i] \in Emitted(l, s, {"JoinRequested"})
  <2>1. \A i \in DOMAIN Founders : a[i] \in Emitted(l, s, {"JoinRequested"})
    BY <1>3, <1>4 DEF Emitted
  <2> QED BY <1>5, <1>6, <2>1
<1>8. /\ \A p \in Emitted(l, s, Closing) : \E i \in DOMAIN Founders : p = a[i] + 1
      /\ \A i \in DOMAIN Founders : a[i] + 1 \in Emitted(l, s, Closing)
  <2>1. \A i \in DOMAIN Founders : a[i] + 1 \in Emitted(l, s, Closing)
    BY <1>3, <1>4 DEF Emitted, Closing
  <2>2. "TreasurySet" \notin Closing /\ "JoinRequested" \notin Closing
    BY DEF Closing
  <2> QED BY <1>5, <1>6, <2>1, <2>2
<1>9. /\ \A p \in Emitted(l, s, {"JoinApproved"}) : \E i \in DOMAIN Founders : p = a[i] + 1
      /\ \A i \in DOMAIN Founders : a[i] + 1 \in Emitted(l, s, {"JoinApproved"})
  <2>1. \A i \in DOMAIN Founders : a[i] + 1 \in Emitted(l, s, {"JoinApproved"})
    BY <1>3, <1>4 DEF Emitted
  <2> QED BY <1>5, <1>6, <2>1
<1>10. \A p \in Emitted(l, s, RosterEvents) : \E i \in DOMAIN Founders : p = a[i] + 1
  <2>1. "TreasurySet" \notin RosterEvents /\ "JoinRequested" \notin RosterEvents
    BY DEF RosterEvents
  <2> QED BY <1>5, <1>6, <2>1
<1>11. Emitted(l, s, {"EpochRotated"}) = {} /\ Emitted(l, s, {"FundRequested"}) = {}
       /\ Emitted(l, s, Deciding) = {} /\ Emitted(l, s, {"TreasurySet"}) = {t}
  <2>1. "TreasurySet" \notin Deciding /\ "JoinRequested" \notin Deciding
        /\ "JoinApproved" \notin Deciding
    BY DEF Deciding
  <2>2. Emitted(l, s, Deciding) = {}
    BY <1>5, <1>6, <2>1
  <2>3. Emitted(l, s, {"EpochRotated"}) = {} /\ Emitted(l, s, {"FundRequested"}) = {}
    BY <1>5, <1>6
  <2>4. t \in Emitted(l, s, {"TreasurySet"})
    BY <1>3, <1>4 DEF Emitted
  <2>5. Emitted(l, s, {"TreasurySet"}) \subseteq {t}
    BY <1>5, <1>6
  <2> QED BY <2>2, <2>3, <2>4, <2>5
<1>12. \A i, j \in DOMAIN Founders : a[i] < a[j] => i < j
  <2> SUFFICES ASSUME NEW i \in DOMAIN Founders, NEW j \in DOMAIN Founders, a[i] < a[j], ~(i < j)
               PROVE  FALSE
    OBVIOUS
  <2>1. i \in Nat /\ j \in Nat /\ a[i] \in Nat /\ a[j] \in Nat
    BY <1>1, <1>3
  <2>2. i # j
    BY <2>1
  <2>3. a[j] + 1 < a[i]
    BY <1>3, <2>1, <2>2
  <2> QED BY <2>1, <2>3
<1> HIDE DEF Emitted
<1>13. JoinsLogged(q, l, s)
  <2>1. \A i \in Emitted(l, s, {"JoinRequested"}) :
         l[i].id \in DOMAIN q /\ l[i].who = q[l[i].id].requester /\ l[i].key = l[i].id
    BY <1>2, <1>4, <1>7
  <2>2. \A id \in DOMAIN q : \E i \in Emitted(l, s, {"JoinRequested"}) : l[i].id = id
    BY <1>2, <1>4, <1>7
  <2>3. \A i, j \in Emitted(l, s, {"JoinRequested"}) : i < j => l[i].id < l[j].id
    BY <1>4, <1>7, <1>12
  <2> QED BY <2>1, <2>2, <2>3 DEF JoinsLogged
<1>14. ClosingsLogged(q, l, s)
  <2>1. \A k \in Emitted(l, s, Closing) :
         /\ l[k].id \in DOMAIN q /\ l[k].who = q[l[k].id].requester
         /\ q[l[k].id].status # "pending"
         /\ \E i \in Emitted(l, s, {"JoinRequested"}) : i < k /\ l[i].id = l[k].id
    <3> SUFFICES ASSUME NEW i \in DOMAIN Founders, NEW k, k = a[i] + 1
                 PROVE  /\ l[k].id \in DOMAIN q /\ l[k].who = q[l[k].id].requester
                        /\ q[l[k].id].status # "pending"
                        /\ \E j \in Emitted(l, s, {"JoinRequested"}) : j < k /\ l[j].id = l[k].id
      BY <1>8
    <3>1. a[i] \in Emitted(l, s, {"JoinRequested"}) /\ a[i] < k /\ l[a[i]].id = l[k].id
      BY <1>3, <1>4, <1>7
    <3>2. l[k].id = i /\ l[k].who = Founders[i]
      BY <1>4
    <3> QED BY <1>2, <3>1, <3>2
  <2>2. \A j, k \in Emitted(l, s, Closing) : l[j].id = l[k].id => j = k
    BY <1>4, <1>8
  <2>3. \A id \in DOMAIN q :
          q[id].status # "pending" => \E k \in Emitted(l, s, Closing) : l[k].id = id
    BY <1>2, <1>4, <1>8
  <2> QED BY <2>1, <2>2, <2>3 DEF ClosingsLogged
<1>15. MembersLogged(Deployed.members, l, s)
  <2> SUFFICES ASSUME NEW b \in Account
               PROVE  /\ Deployed.members[b].active => \E i \in DOMAIN l : Standing(l, s, b, i)
                      /\ \A i \in DOMAIN l :
                           Standing(l, s, b, i) => /\ Deployed.members[b].active
                                                   /\ Deployed.members[b].joinedEpoch = l[i].epoch
                                                   /\ Deployed.members[b].key = l[i].id
    BY DEF MembersLogged
  <2>1. /\ Deployed.members[b].active => \E i \in DOMAIN Founders : Founders[i] = b
        /\ \A i \in DOMAIN Founders : Founders[i] = b =>
             Deployed.members[b].active /\ Deployed.members[b].joinedEpoch = 0
             /\ Deployed.members[b].key = i
    BY DeployedType
  <2>2. \A i \in DOMAIN Founders : Founders[i] = b => Standing(l, s, b, a[i] + 1)
    <3> SUFFICES ASSUME NEW i \in DOMAIN Founders, Founders[i] = b,
                        NEW j \in Emitted(l, s, RosterEvents), l[j].who = b
                 PROVE  j <= a[i] + 1
      BY <1>4, <1>9 DEF Standing
    <3>1. PICK k \in DOMAIN Founders : j = a[k] + 1
      BY <1>10
    <3>2. k = i
      BY <1>1, <1>4, <3>1
    <3>3. a[i] \in Nat
      BY <1>3
    <3> QED BY <3>1, <3>2, <3>3
  <2>3. \A p \in DOMAIN l : Standing(l, s, b, p) =>
           \E i \in DOMAIN Founders : Founders[i] = b /\ p = a[i] + 1
    BY <1>4, <1>9 DEF Standing
  <2> HIDE DEF Standing
  <2> QED BY <1>3, <1>4, <2>1, <2>2, <2>3
<1>16. EpochLogged(Deployed.epoch, l, s)
  BY <1>11, DeployedType DEF EpochLogged
<1>17. BindingLogged(Deployed.treasury, l, s)
  BY <1>4, <1>11, DeployedType DEF BindingLogged
<1>18. FundsLogged(Deployed.funds, l, s)
  BY <1>11 DEF FundsLogged
<1> QED
  BY <1>13, <1>14, <1>15, <1>16, <1>17, <1>18 DEF SwarmLogged, q

LEMMA LogInit == ViewsInit => LogInv
<1> SUFFICES ASSUME ViewsInit
             PROVE  LogInv
  OBVIOUS
<1>1. /\ log \in LogType /\ Len(log) \in Nat /\ DOMAIN log = 1..Len(log)
      /\ \A i \in DOMAIN log : /\ log[i].block = 0 /\ log[i].source \in Swarm
                               /\ log[i].name \in {"TreasurySet", "JoinRequested", "JoinApproved"}
      /\ \A s \in Swarm : \E t, a : FoundedAt(log, s, t, a)
  BY InitialLog DEF ViewsInit
<1>2. ViewsTypeOK
  <2>1. swarm \in [Swarm -> Storage]
    BY DeployedType DEF ViewsInit
  <2>2. \A i, j \in DOMAIN log : i < j => log[i].block <= log[j].block
    BY <1>1
  <2> QED BY <1>1, <2>1, <2>2 DEF ViewsTypeOK, ViewsInit, LogType, Logged
<1>3. \A s \in Swarm : SwarmLogged(swarm[s], log, s)
  <2> SUFFICES ASSUME NEW s \in Swarm
               PROVE  SwarmLogged(swarm[s], log, s)
    OBVIOUS
  <2>1. swarm[s] = Deployed
    BY DEF ViewsInit
  <2>2. SwarmLogged(Deployed, log, s)
    BY <1>1, Founded
  <2> QED BY <2>1, <2>2
<1>4. ReleasesLogged
  BY <1>1 DEF ReleasesLogged, TreasuryEvents
<1>5. ClickTrue
  BY DEF ClickTrue, ViewsInit
<1> QED
  BY <1>2, <1>3, <1>4, <1>5 DEF LogInv

-----------------------------------------------------------------------------
(* The steps. *)

(* Requests stay, with their terms, and decided ones as they were decided. *)
FundsKept(f, g) ==
    \A r \in DOMAIN f :
      /\ r \in DOMAIN g /\ g[r].requester = f[r].requester /\ g[r].amount = f[r].amount
      /\ f[r].status # "pending" => g[r].status = f[r].status

LEMMA OneLogged ==
    ASSUME LogInv, NEW s \in Swarm, NEW sw \in Storage, NEW e,
           Grown(log, log', e), LogOrdered(log'), e.source = s, SwarmLogged(sw, log', s),
           swarm' = [swarm EXCEPT ![s] = sw], FundsKept(swarm[s].funds, sw.funds),
           \A i \in 1..Len(log') : i > Len(log) /\ log'[i].name \in TreasuryEvents =>
              /\ log'[i].of = s /\ log'[i].id \in DOMAIN sw.funds
              /\ sw.funds[log'[i].id].status = Verdict(log'[i].name),
           click' = click \/ click' = NoClick
    PROVE  LogInv'
<1>1. ViewsTypeOK /\ swarm \in [Swarm -> Storage] /\ ReleasesLogged /\ ClickTrue
      /\ \A q \in Swarm : SwarmLogged(swarm[q], log, q)
  BY LogFacts DEF LogInv
<1>2. /\ swarm' \in [Swarm -> Storage] /\ swarm'[s] = sw
      /\ \A q \in Swarm : q # s => swarm'[q] = swarm[q]
  BY <1>1
<1>3. ViewsTypeOK'
  <2>1. log' \in Seq(Logged)
    BY DEF Grown, LogType
  <2>2. \A i, j \in DOMAIN log' : i < j => log'[i].block <= log'[j].block
    BY DEF LogOrdered
  <2>3. (click \in {NoClick} \cup [op : {"approve", "reject", "cancel"}, request : Nat,
                                   requester : Account, amount : Amount])'
    BY <1>1 DEF ViewsTypeOK
  <2> QED BY <1>2, <2>1, <2>2, <2>3 DEF ViewsTypeOK, Logged
<1>4. \A q \in Swarm : SwarmLogged(swarm'[q], log', q)
  <2> SUFFICES ASSUME NEW q \in Swarm, q # s
               PROVE  SwarmLogged(swarm'[q], log', q)
    BY <1>2
  <2>1. SwarmLogged(swarm[q], log, q)
    BY <1>1
  <2>2. SwarmLogged(swarm[q], log', q)
    BY <2>1, OthersSame
  <2> QED BY <1>2, <2>2
<1>5. \A q \in Swarm : FundsKept(swarm[q].funds, swarm'[q].funds)
  BY <1>2 DEF FundsKept
<1>6. \A q \in Swarm : \A r \in DOMAIN swarm[q].funds :
         /\ r \in DOMAIN swarm'[q].funds
         /\ swarm'[q].funds[r].requester = swarm[q].funds[r].requester
         /\ swarm'[q].funds[r].amount = swarm[q].funds[r].amount
         /\ swarm[q].funds[r].status # "pending" =>
              swarm'[q].funds[r].status = swarm[q].funds[r].status
  BY <1>5 DEF FundsKept
<1>7. ReleasesLogged'
  <2> SUFFICES ASSUME NEW i \in DOMAIN log', log'[i].name \in TreasuryEvents
               PROVE  /\ log'[i].id \in DOMAIN swarm'[log'[i].of].funds
                      /\ swarm'[log'[i].of].funds[log'[i].id].status = Verdict(log'[i].name)
    BY DEF ReleasesLogged
  <2>1. /\ Len(log) \in Nat /\ Len(log') \in Nat /\ DOMAIN log = 1..Len(log)
        /\ DOMAIN log' = 1..Len(log') /\ \A k \in 1..Len(log) : log'[k] = log[k]
    BY DEF Grown
  <2>2. CASE i > Len(log)
    BY <1>2, <2>1, <2>2
  <2>3. CASE i <= Len(log)
    <3>1. i \in DOMAIN log /\ log'[i] = log[i]
      BY <2>1, <2>3
    <3>2. log[i] \in Logged
      BY <1>1, <3>1, LogFacts
    <3>3. log[i].of \in Swarm /\ Verdict(log[i].name) # "pending"
      BY <3>1, <3>2 DEF Logged, Records, Verdict, TreasuryEvents
    <3>4. /\ log[i].id \in DOMAIN swarm[log[i].of].funds
          /\ swarm[log[i].of].funds[log[i].id].status = Verdict(log[i].name)
      BY <1>1, <3>1 DEF ReleasesLogged
    <3> QED BY <1>6, <3>1, <3>3, <3>4
  <2> QED BY <2>1, <2>2, <2>3
<1>8. ClickTrue'
  <2>1. ToSet(Published) \subseteq Swarm
    BY ViewsAssumption DEF ToSet
  <2>2. CASE click' = NoClick
    BY <2>2 DEF ClickTrue
  <2>3. CASE click' = click
    BY <1>1, <1>6, <2>1, <2>3 DEF ClickTrue
  <2> QED BY <2>2, <2>3
<1> QED
  BY <1>3, <1>4, <1>7, <1>8 DEF LogInv

(* A transaction that emits one event of the swarm.                        *)
LEMMA OneEvent ==
    ASSUME LogInv, NEW s \in Swarm, NEW sw \in Storage, NEW f \in Records(SwarmEvents, Swarm),
           NEW e, Grown(log, log', e), SameEvent(e, f), f.source = s,
           Len(log') = Len(log) + 1, LogOrdered(log'),
           SwarmLogged(sw, log', s), FundsKept(swarm[s].funds, sw.funds),
           swarm' = [swarm EXCEPT ![s] = sw],
           click' = click \/ click' = NoClick
    PROVE  LogInv'
<1>1. e.source = s /\ e.name \in SwarmEvents
  BY DEF SameEvent, Records
<1>2. SwarmEvents \cap TreasuryEvents = {}
  BY DEF SwarmEvents, TreasuryEvents
<1>3. \A i \in 1..Len(log') : i > Len(log) => log'[i] = e
  BY DEF Grown
<1>4. \A i \in 1..Len(log') : i > Len(log) /\ log'[i].name \in TreasuryEvents =>
              /\ log'[i].of = s /\ log'[i].id \in DOMAIN sw.funds
              /\ sw.funds[log'[i].id].status = Verdict(log'[i].name)
  BY <1>1, <1>2, <1>3
<1> QED
  BY <1>1, <1>4, OneLogged

LEMMA Same ==
    ASSUME NEW e, NEW f \in Records(SwarmEvents, Swarm), SameEvent(e, f)
    PROVE  /\ e.name = f.name /\ e.source = f.source /\ e.id = f.id /\ e.who = f.who
           /\ e.key = f.key /\ e.epoch = f.epoch /\ e.amount = f.amount /\ e.of = f.of
BY DEF SameEvent, Records

LEMMA Stored ==
    ASSUME ViewsTypeOK, NEW s \in Swarm
    PROVE  /\ swarm[s] \in Storage /\ swarm[s].joins \in Joins /\ swarm[s].funds \in FundRequests
           /\ swarm[s].members \in [Account -> [active : BOOLEAN, key : Nat, joinedEpoch : Nat]]
           /\ swarm[s].epoch \in Nat /\ swarm[s].version \in Nat
           /\ Len(swarm[s].joins) \in Nat /\ DOMAIN swarm[s].joins \subseteq Nat
           /\ Len(swarm[s].funds) \in Nat /\ DOMAIN swarm[s].funds \subseteq Nat
           /\ \A i \in DOMAIN swarm[s].joins : swarm[s].joins[i].requester \in Account
           /\ FundsKept(swarm[s].funds, swarm[s].funds)
<1>1. swarm[s] \in Storage
  BY LogFacts
<1>2. swarm[s].joins \in Joins /\ swarm[s].funds \in FundRequests
  BY <1>1 DEF Storage, Joins, FundRequests
<1>3. /\ Len(swarm[s].joins) \in Nat /\ DOMAIN swarm[s].joins \subseteq Nat
      /\ \A i \in DOMAIN swarm[s].joins : swarm[s].joins[i].requester \in Account
  <2>1. DOMAIN swarm[s].joins = 1..Len(swarm[s].joins) /\ Len(swarm[s].joins) \in Nat
    BY <1>2, LenProperties DEF Joins
  <2>2. \A i \in 1..Len(swarm[s].joins) :
           swarm[s].joins[i] \in [requester : Account, status : Status]
    BY <1>2, LenProperties DEF Joins
  <2> QED BY <2>1, <2>2
<1>4. Len(swarm[s].funds) \in Nat /\ DOMAIN swarm[s].funds \subseteq Nat
  BY <1>2 DEF FundRequests
<1> QED
  BY <1>1, <1>2, <1>3, <1>4 DEF Storage, FundsKept

MembersAndJoins(x, y, mem, q, v) ==
    y = [x EXCEPT !.members = mem, !.joins = q, !.version = v]

LEMMA MembersStored ==
    ASSUME NEW x \in Storage, NEW q \in Joins, NEW v \in Nat, NEW y,
           NEW mem \in [Account -> [active : BOOLEAN, key : Nat, joinedEpoch : Nat]],
           MembersAndJoins(x, y, mem, q, v)
    PROVE  /\ y \in Storage /\ y.members = mem /\ y.joins = q /\ y.epoch = x.epoch
           /\ y.treasury = x.treasury /\ y.funds = x.funds
BY DEF Storage, Joins, MembersAndJoins

LEMMA JoinRequestLogged ==
    ASSUME LogInv, NEW s \in Swarm, NEW a \in Account, RequestJoin(s, a)
    PROVE  LogInv'
<1> DEFINE q == swarm[s].joins
           r == Append(q, [requester |-> a, status |-> "pending"])
           sw == [swarm[s] EXCEPT !.joins = r]
           f == JoinRequested(s, Len(q) + 1, a)
<1>1. ViewsTypeOK /\ SwarmLogged(swarm[s], log, s)
  BY DEF LogInv
<1>2. swarm[s] \in Storage /\ q \in Joins /\ Len(q) \in Nat
        /\ FundsKept(swarm[s].funds, swarm[s].funds)
  BY <1>1, Stored
<1>3. /\ f \in Records(SwarmEvents, Swarm) /\ f.source = s /\ f.name = "JoinRequested"
      /\ f.id = Len(q) + 1 /\ f.key = f.id /\ f.who = a
  <2>1. \A n \in Nat : JoinRequested(s, n, a) \in Records(SwarmEvents, Swarm)
    BY DEF JoinRequested, EventBy, Records, SwarmEvents
  <2>2. Len(q) + 1 \in Nat
    BY <1>2
  <2> QED BY <2>1, <2>2 DEF JoinRequested, EventBy
<1>4. Emit(<<f>>) /\ swarm' = [swarm EXCEPT ![s] = sw] /\ click' = click
  BY DEF RequestJoin
<1> HIDE DEF f
<1>5. PICK e : Grown(log, log', e) /\ SameEvent(e, f) /\ Len(log') = Len(log) + 1
             /\ LogOrdered(log')
  BY <1>1, <1>3, <1>4, EmitOne
<1>6. /\ e.name = f.name /\ e.source = f.source /\ e.id = f.id /\ e.who = f.who /\ e.key = f.key
  BY <1>3, <1>5, Same
<1>7. /\ JoinsLogged(q, log, s) /\ ClosingsLogged(q, log, s)
      /\ MembersLogged(swarm[s].members, log, s)
      /\ EpochLogged(swarm[s].epoch, log, s) /\ BindingLogged(swarm[s].treasury, log, s)
      /\ FundsLogged(swarm[s].funds, log, s)
  BY <1>1 DEF SwarmLogged
<1>8. r \in Joins /\ JoinsLogged(r, log', s) /\ ClosingsLogged(r, log', s)
  BY <1>2, <1>3, <1>5, <1>6, <1>7, JoinAsked
<1> HIDE DEF r
<1>9. /\ sw \in Storage /\ sw.joins = r /\ sw.members = swarm[s].members
      /\ sw.epoch = swarm[s].epoch
      /\ sw.treasury = swarm[s].treasury /\ sw.funds = swarm[s].funds
  BY <1>2, <1>8 DEF Storage, Joins
<1> HIDE DEF sw
<1>10. /\ MembersLogged(swarm[s].members, log', s) /\ EpochLogged(swarm[s].epoch, log', s)
       /\ BindingLogged(swarm[s].treasury, log', s) /\ FundsLogged(swarm[s].funds, log', s)
  <2>1. e.name \notin RosterEvents /\ e.name \notin Deciding \cup {"FundRequested"}
        /\ e.name # "EpochRotated" /\ e.name # "TreasurySet"
    BY <1>3, <1>6 DEF RosterEvents, Deciding
  <2> QED BY <1>5, <1>7, <2>1, MembersSame, EpochSame, BindingSame, FundsSame
<1>11. SwarmLogged(sw, log', s)
  BY <1>8, <1>9, <1>10 DEF SwarmLogged
<1> QED
  BY <1>2, <1>3, <1>4, <1>5, <1>9, <1>11, OneEvent

LEMMA JoinApprovalLogged ==
    ASSUME LogInv, NEW s \in Swarm, NEW id \in DOMAIN swarm[s].joins, ApproveJoin(s, id)
    PROVE  LogInv'
<1> DEFINE q == swarm[s].joins
           a == q[id].requester
           r == [q EXCEPT ![id].status = "approved"]
           old == swarm[s].members
           mem == [old EXCEPT ![a] = Member(TRUE, id, swarm[s].epoch)]
           v == swarm[s].version + 1
           sw == [swarm[s] EXCEPT !.members = mem, !.joins = r, !.version = v]
           f == JoinApproved(s, id, a, swarm[s].epoch)
<1>1. ViewsTypeOK /\ SwarmLogged(swarm[s], log, s)
  BY DEF LogInv
<1>2. /\ swarm[s] \in Storage /\ q \in Joins /\ id \in Nat /\ a \in Account
      /\ FundsKept(swarm[s].funds, swarm[s].funds) /\ swarm[s].epoch \in Nat
      /\ old \in [Account -> [active : BOOLEAN, key : Nat, joinedEpoch : Nat]]
      /\ swarm[s].version \in Nat
  BY <1>1, Stored
<1>3. /\ f \in Records(SwarmEvents, Swarm) /\ f.source = s /\ f.name = "JoinApproved"
      /\ f.id = id /\ f.who = a /\ f.epoch = swarm[s].epoch
  BY <1>2 DEF JoinApproved, EventBy, Records, SwarmEvents
<1>4. /\ Emit(<<f>>) /\ swarm' = [swarm EXCEPT ![s] = sw] /\ click' = click
      /\ q[id].status = "pending"
  BY DEF ApproveJoin, JoinPending
<1> HIDE DEF f
<1>5. PICK e : Grown(log, log', e) /\ SameEvent(e, f) /\ Len(log') = Len(log) + 1
             /\ LogOrdered(log')
  BY <1>1, <1>3, <1>4, EmitOne
<1>6. e.name = f.name /\ e.source = f.source /\ e.id = f.id /\ e.who = f.who /\ e.epoch = f.epoch
  BY <1>3, <1>5, Same
<1>7. /\ JoinsLogged(q, log, s) /\ ClosingsLogged(q, log, s) /\ MembersLogged(old, log, s)
      /\ EpochLogged(swarm[s].epoch, log, s) /\ BindingLogged(swarm[s].treasury, log, s)
      /\ FundsLogged(swarm[s].funds, log, s)
  BY <1>1 DEF SwarmLogged
<1>8. r \in Joins /\ JoinsLogged(r, log', s) /\ ClosingsLogged(r, log', s)
  <2>1. "approved" \in Status \ {"pending"} /\ e.name \in Closing
    BY <1>3, <1>6 DEF Status, Closing
  <2> QED BY <1>2, <1>3, <1>4, <1>5, <1>6, <1>7, <2>1, JoinClosed
<1>9. /\ mem \in [Account -> [active : BOOLEAN, key : Nat, joinedEpoch : Nat]]
      /\ mem[a].active /\ mem[a].joinedEpoch = e.epoch /\ mem[a].key = e.id
      /\ \A b \in Account \ {a} : mem[b] = old[b]
  BY <1>2, <1>3, <1>6 DEF Member
<1> HIDE DEF r, mem
<1>10. /\ sw \in Storage /\ sw.joins = r /\ sw.members = mem /\ sw.epoch = swarm[s].epoch
       /\ sw.treasury = swarm[s].treasury /\ sw.funds = swarm[s].funds
  <2>1. v \in Nat
    BY <1>2
  <2> DEFINE x == swarm[s]
  <2>2. x \in Storage /\ MembersAndJoins(x, sw, mem, r, v)
    BY <1>2 DEF MembersAndJoins
  <2> HIDE DEF v, q, old, sw, x
  <2>3. /\ sw \in Storage /\ sw.joins = r /\ sw.members = mem /\ sw.epoch = x.epoch
        /\ sw.treasury = x.treasury /\ sw.funds = x.funds
    BY <1>8, <1>9, <2>1, <2>2, MembersStored
  <2> QED BY <2>3 DEF x
<1> HIDE DEF sw
<1>11. MembersLogged(mem, log', s)
  <2>1. e.name \in RosterEvents /\ e.name # "MemberRemoved"
    BY <1>3, <1>6 DEF RosterEvents
  <2>2. a \in Account /\ e.source = s /\ e.who = a /\ Grown(log, log', e)
          /\ MembersLogged(old, log, s)
    BY <1>2, <1>3, <1>5, <1>6, <1>7
  <2> HIDE DEF a, old
  <2> QED BY <1>9, <2>1, <2>2, RosterChanged
<1>12. /\ EpochLogged(swarm[s].epoch, log', s)
       /\ BindingLogged(swarm[s].treasury, log', s) /\ FundsLogged(swarm[s].funds, log', s)
  <2>1. e.name \notin Deciding \cup {"FundRequested"} /\ e.name # "EpochRotated"
        /\ e.name # "TreasurySet"
    BY <1>3, <1>6 DEF Deciding
  <2> QED BY <1>5, <1>7, <2>1, EpochSame, BindingSame, FundsSame
<1>13. SwarmLogged(sw, log', s)
  BY <1>8, <1>10, <1>11, <1>12 DEF SwarmLogged
<1> QED
  BY <1>2, <1>3, <1>4, <1>5, <1>10, <1>13, OneEvent

LEMMA JoinClosingLogged ==
    ASSUME LogInv, NEW s \in Swarm, NEW id \in DOMAIN swarm[s].joins,
           NEW name \in {"JoinRejected", "JoinCancelled"}, NEW verdict \in {"rejected", "cancelled"},
           CloseJoin(s, id, name, verdict)
    PROVE  LogInv'
<1> DEFINE q == swarm[s].joins
           a == q[id].requester
           r == [q EXCEPT ![id].status = verdict]
           sw == [swarm[s] EXCEPT !.joins = r]
           f == [EventBy(name, s) EXCEPT !.id = id, !.who = a]
<1>1. ViewsTypeOK /\ SwarmLogged(swarm[s], log, s)
  BY DEF LogInv
<1>2. /\ swarm[s] \in Storage /\ q \in Joins /\ id \in Nat /\ a \in Account
      /\ FundsKept(swarm[s].funds, swarm[s].funds)
  BY <1>1, Stored
<1>3. /\ f \in Records(SwarmEvents, Swarm) /\ f.source = s /\ f.name = name
      /\ f.id = id /\ f.who = a
  BY <1>2 DEF EventBy, Records, SwarmEvents
<1>4. /\ Emit(<<f>>) /\ swarm' = [swarm EXCEPT ![s] = sw] /\ click' = click
      /\ q[id].status = "pending"
  BY DEF CloseJoin, JoinPending
<1> HIDE DEF f
<1>5. PICK e : Grown(log, log', e) /\ SameEvent(e, f) /\ Len(log') = Len(log) + 1
             /\ LogOrdered(log')
  BY <1>1, <1>3, <1>4, EmitOne
<1>6. e.name = f.name /\ e.source = f.source /\ e.id = f.id /\ e.who = f.who
  BY <1>3, <1>5, Same
<1>7. /\ JoinsLogged(q, log, s) /\ ClosingsLogged(q, log, s)
      /\ MembersLogged(swarm[s].members, log, s)
      /\ EpochLogged(swarm[s].epoch, log, s) /\ BindingLogged(swarm[s].treasury, log, s)
      /\ FundsLogged(swarm[s].funds, log, s)
  BY <1>1 DEF SwarmLogged
<1>8. r \in Joins /\ JoinsLogged(r, log', s) /\ ClosingsLogged(r, log', s)
  <2>1. verdict \in Status \ {"pending"} /\ e.name \in Closing
    BY <1>3, <1>6 DEF Status, Closing
  <2> QED BY <1>2, <1>3, <1>4, <1>5, <1>6, <1>7, <2>1, JoinClosed
<1> HIDE DEF r
<1>9. /\ sw \in Storage /\ sw.joins = r /\ sw.members = swarm[s].members
      /\ sw.epoch = swarm[s].epoch
      /\ sw.treasury = swarm[s].treasury /\ sw.funds = swarm[s].funds
  BY <1>2, <1>8 DEF Storage, Joins
<1> HIDE DEF sw
<1>10. /\ MembersLogged(swarm[s].members, log', s) /\ EpochLogged(swarm[s].epoch, log', s)
       /\ BindingLogged(swarm[s].treasury, log', s) /\ FundsLogged(swarm[s].funds, log', s)
  <2>1. e.name \notin RosterEvents /\ e.name \notin Deciding \cup {"FundRequested"}
        /\ e.name # "EpochRotated" /\ e.name # "TreasurySet"
    BY <1>3, <1>6 DEF RosterEvents, Deciding
  <2> QED BY <1>5, <1>7, <2>1, MembersSame, EpochSame, BindingSame, FundsSame
<1>11. SwarmLogged(sw, log', s)
  BY <1>8, <1>9, <1>10 DEF SwarmLogged
<1> QED
  BY <1>2, <1>3, <1>4, <1>5, <1>9, <1>11, OneEvent

LEMMA RemovalLogged ==
    ASSUME LogInv, NEW s \in Swarm, NEW a \in Account, RemoveMember(s, a)
    PROVE  LogInv'
<1> DEFINE q == swarm[s].joins
           old == swarm[s].members
           mem == [old EXCEPT ![a].active = FALSE]
           v == swarm[s].version + 1
           sw == [swarm[s] EXCEPT !.members = mem, !.version = v]
           f == [EventBy("MemberRemoved", s) EXCEPT !.who = a, !.epoch = swarm[s].epoch]
<1>1. ViewsTypeOK /\ SwarmLogged(swarm[s], log, s)
  BY DEF LogInv
<1>2. /\ swarm[s] \in Storage /\ FundsKept(swarm[s].funds, swarm[s].funds) /\ swarm[s].epoch \in Nat
      /\ old \in [Account -> [active : BOOLEAN, key : Nat, joinedEpoch : Nat]]
      /\ q \in Joins /\ swarm[s].version \in Nat
  BY <1>1, Stored
<1>3. /\ f \in Records(SwarmEvents, Swarm) /\ f.source = s /\ f.name = "MemberRemoved" /\ f.who = a
  BY <1>2 DEF EventBy, Records, SwarmEvents
<1>4. /\ Emit(<<f>>) /\ swarm' = [swarm EXCEPT ![s] = sw] /\ click' = click
  BY DEF RemoveMember
<1> HIDE DEF f
<1>5. PICK e : Grown(log, log', e) /\ SameEvent(e, f) /\ Len(log') = Len(log) + 1
             /\ LogOrdered(log')
  BY <1>1, <1>3, <1>4, EmitOne
<1>6. e.name = f.name /\ e.source = f.source /\ e.who = f.who
  BY <1>3, <1>5, Same
<1>7. /\ JoinsLogged(q, log, s) /\ ClosingsLogged(q, log, s) /\ MembersLogged(old, log, s)
      /\ EpochLogged(swarm[s].epoch, log, s) /\ BindingLogged(swarm[s].treasury, log, s)
      /\ FundsLogged(swarm[s].funds, log, s)
  BY <1>1 DEF SwarmLogged
<1>9. /\ mem \in [Account -> [active : BOOLEAN, key : Nat, joinedEpoch : Nat]]
      /\ ~mem[a].active /\ \A b \in Account \ {a} : mem[b] = old[b]
  BY <1>2
<1> HIDE DEF mem
<1>10. /\ sw \in Storage /\ sw.joins = q /\ sw.members = mem /\ sw.epoch = swarm[s].epoch
       /\ sw.treasury = swarm[s].treasury /\ sw.funds = swarm[s].funds
  <2>1. sw = [swarm[s] EXCEPT !.members = mem, !.joins = q, !.version = v]
    <3> HIDE DEF v
    <3> QED BY <1>2 DEF Storage
  <2>2. v \in Nat
    BY <1>2
  <2> DEFINE x == swarm[s]
  <2>3. x \in Storage /\ MembersAndJoins(x, sw, mem, q, v) /\ q \in Joins
    BY <1>2, <2>1 DEF MembersAndJoins
  <2> HIDE DEF v, q, old, sw, x
  <2>4. /\ sw \in Storage /\ sw.joins = q /\ sw.members = mem /\ sw.epoch = x.epoch
        /\ sw.treasury = x.treasury /\ sw.funds = x.funds
    BY <1>9, <2>2, <2>3, MembersStored
  <2> QED BY <2>4 DEF x
<1> HIDE DEF sw
<1>11. MembersLogged(mem, log', s)
  <2>1. e.name \in RosterEvents /\ e.name # "JoinApproved"
    BY <1>3, <1>6 DEF RosterEvents
  <2>2. e.source = s /\ e.who = a /\ Grown(log, log', e) /\ MembersLogged(old, log, s)
    BY <1>3, <1>5, <1>6, <1>7
  <2> HIDE DEF old
  <2> QED BY <1>9, <2>1, <2>2, RosterChanged
<1>12. /\ EpochLogged(swarm[s].epoch, log', s) /\ BindingLogged(swarm[s].treasury, log', s)
       /\ FundsLogged(swarm[s].funds, log', s)
       /\ JoinsLogged(q, log', s) /\ ClosingsLogged(q, log', s)
  <2>1. e.name \notin Deciding \cup {"FundRequested"} /\ e.name # "EpochRotated"
        /\ e.name # "TreasurySet" /\ e.name # "JoinRequested"
        /\ e.name \notin Closing \cup {"JoinRequested"}
    BY <1>3, <1>6 DEF Deciding, Closing
  <2> QED BY <1>5, <1>7, <2>1, EpochSame, BindingSame, FundsSame, JoinsSame, ClosingsSame
<1>13. SwarmLogged(sw, log', s)
  BY <1>10, <1>11, <1>12 DEF SwarmLogged
<1> QED
  BY <1>2, <1>3, <1>4, <1>5, <1>10, <1>13, OneEvent

(* What the events that are not of a part leave as it was.                 *)
LEMMA RosterKept ==
    ASSUME NEW l, NEW m, NEW e, NEW s \in Swarm, Grown(l, m, e), NEW q, NEW mem,
           e.name \notin {"JoinRequested", "JoinApproved", "JoinRejected", "JoinCancelled",
                          "MemberRemoved"},
           JoinsLogged(q, l, s), ClosingsLogged(q, l, s), MembersLogged(mem, l, s)
    PROVE  JoinsLogged(q, m, s) /\ ClosingsLogged(q, m, s) /\ MembersLogged(mem, m, s)
<1>1. e.name # "JoinRequested" /\ e.name \notin Closing \cup {"JoinRequested"}
      /\ e.name \notin RosterEvents
  BY DEF Closing, RosterEvents
<1> QED
  BY <1>1, JoinsSame, ClosingsSame, MembersSame

LEMMA RotationLogged ==
    ASSUME LogInv, NEW s \in Swarm, RotateEpoch(s)
    PROVE  LogInv'
<1> DEFINE old == swarm[s]
           new == old.epoch + 1
           sw == [old EXCEPT !.epoch = new]
           f == [EventBy("EpochRotated", s) EXCEPT !.epoch = new, !.version = old.version]
<1>1. ViewsTypeOK /\ SwarmLogged(old, log, s)
  BY DEF LogInv
<1>2. old \in Storage /\ FundsKept(old.funds, old.funds) /\ new \in Nat /\ old.version \in Nat
  BY <1>1, Stored
<1>4. Emit(<<f>>) /\ swarm' = [swarm EXCEPT ![s] = sw] /\ click' = click
  BY DEF RotateEpoch
<1>3. f \in Records(SwarmEvents, Swarm) /\ f.source = s /\ f.name = "EpochRotated" /\ f.epoch = new
  <2> HIDE DEF old, new
  <2>1. \A n, k \in Nat : [EventBy("EpochRotated", s) EXCEPT !.epoch = n, !.version = k]
                            \in Records(SwarmEvents, Swarm)
    BY DEF EventBy, Records, SwarmEvents
  <2>2. f.source = s /\ f.name = "EpochRotated" /\ f.epoch = new
    BY DEF EventBy
  <2> QED BY <1>2, <2>1, <2>2
<1> HIDE DEF f
<1>5. PICK e : Grown(log, log', e) /\ SameEvent(e, f) /\ Len(log') = Len(log) + 1
             /\ LogOrdered(log')
  BY <1>1, <1>3, <1>4, EmitOne
<1>6. e.name = f.name /\ e.source = f.source /\ e.epoch = f.epoch
  BY <1>3, <1>5, Same
<1>7. /\ JoinsLogged(old.joins, log, s) /\ ClosingsLogged(old.joins, log, s)
      /\ MembersLogged(old.members, log, s) /\ BindingLogged(old.treasury, log, s)
      /\ FundsLogged(old.funds, log, s)
  BY <1>1 DEF SwarmLogged
<1> HIDE DEF new, old
<1>9. /\ sw \in Storage /\ sw.joins = old.joins /\ sw.members = old.members /\ sw.epoch = new
      /\ sw.treasury = old.treasury /\ sw.funds = old.funds
  BY <1>2 DEF Storage
<1> HIDE DEF sw
<1>10. /\ JoinsLogged(old.joins, log', s) /\ ClosingsLogged(old.joins, log', s)
       /\ MembersLogged(old.members, log', s)
  BY <1>3, <1>5, <1>6, <1>7, RosterKept
<1>11. BindingLogged(old.treasury, log', s) /\ FundsLogged(old.funds, log', s)
  <2>1. e.name # "TreasurySet" /\ e.name \notin Deciding \cup {"FundRequested"}
    BY <1>3, <1>6 DEF Deciding
  <2> QED BY <1>5, <1>7, <2>1, BindingSame, FundsSame
<1>12. EpochLogged(new, log', s)
  BY <1>3, <1>5, <1>6, EpochChanged
<1>13. SwarmLogged(sw, log', s)
  BY <1>9, <1>10, <1>11, <1>12 DEF SwarmLogged
<1> QED
  BY <1>2, <1>3, <1>4, <1>5, <1>9, <1>13, OneEvent DEF old

LEMMA MappingLogged ==
    ASSUME LogInv, NEW s \in Swarm, NEW a \in Account, UpdateMemberFileMapping(s, a)
    PROVE  LogInv'
<1> DEFINE old == swarm[s]
           n == old.epoch
           f == [EventBy("MemberFileMappingUpdated", s) EXCEPT !.who = a, !.epoch = n]
<1>1. ViewsTypeOK /\ SwarmLogged(old, log, s) /\ swarm \in [Swarm -> Storage]
  BY LogFacts DEF LogInv
<1>2. old \in Storage /\ FundsKept(old.funds, old.funds) /\ n \in Nat
  BY <1>1, Stored
<1>4. Emit(<<f>>) /\ swarm' = [swarm EXCEPT ![s] = old] /\ click' = click
  BY <1>1 DEF UpdateMemberFileMapping
<1>3. f \in Records(SwarmEvents, Swarm) /\ f.source = s /\ f.name = "MemberFileMappingUpdated"
  <2> HIDE DEF old, n
  <2> QED BY <1>2 DEF EventBy, Records, SwarmEvents
<1> HIDE DEF f
<1>5. PICK e : Grown(log, log', e) /\ SameEvent(e, f) /\ Len(log') = Len(log) + 1
             /\ LogOrdered(log')
  BY <1>1, <1>3, <1>4, EmitOne
<1>6. e.name = f.name /\ e.source = f.source
  BY <1>3, <1>5, Same
<1>7. /\ JoinsLogged(old.joins, log, s) /\ ClosingsLogged(old.joins, log, s)
      /\ MembersLogged(old.members, log, s) /\ BindingLogged(old.treasury, log, s)
      /\ FundsLogged(old.funds, log, s) /\ EpochLogged(old.epoch, log, s)
  BY <1>1 DEF SwarmLogged
<1> HIDE DEF old
<1>10. /\ JoinsLogged(old.joins, log', s) /\ ClosingsLogged(old.joins, log', s)
       /\ MembersLogged(old.members, log', s)
  BY <1>3, <1>5, <1>6, <1>7, RosterKept
<1>11. /\ BindingLogged(old.treasury, log', s) /\ FundsLogged(old.funds, log', s)
       /\ EpochLogged(old.epoch, log', s)
  <2>1. e.name # "TreasurySet" /\ e.name \notin Deciding \cup {"FundRequested"}
        /\ e.name # "EpochRotated"
    BY <1>3, <1>6 DEF Deciding
  <2> QED BY <1>5, <1>7, <2>1, BindingSame, FundsSame, EpochSame
<1>13. SwarmLogged(old, log', s)
  BY <1>10, <1>11 DEF SwarmLogged
<1> QED
  BY <1>2, <1>3, <1>4, <1>5, <1>13, OneEvent DEF old

LEMMA BindingStepLogged ==
    ASSUME LogInv, NEW s \in Swarm, NEW t \in Treasury, SetTreasury(s, t)
    PROVE  LogInv'
<1> DEFINE old == swarm[s]
           sw == [old EXCEPT !.treasury = t]
           f == [EventBy("TreasurySet", s) EXCEPT !.who = t]
<1>1. ViewsTypeOK /\ SwarmLogged(old, log, s)
  BY DEF LogInv
<1>2. old \in Storage /\ FundsKept(old.funds, old.funds)
  BY <1>1, Stored
<1>4. Emit(<<f>>) /\ swarm' = [swarm EXCEPT ![s] = sw] /\ click' = click
  BY DEF SetTreasury
<1>3. f \in Records(SwarmEvents, Swarm) /\ f.source = s /\ f.name = "TreasurySet" /\ f.who = t
  BY DEF EventBy, Records, SwarmEvents
<1> HIDE DEF f
<1>5. PICK e : Grown(log, log', e) /\ SameEvent(e, f) /\ Len(log') = Len(log) + 1
             /\ LogOrdered(log')
  BY <1>1, <1>3, <1>4, EmitOne
<1>6. e.name = f.name /\ e.source = f.source /\ e.who = f.who
  BY <1>3, <1>5, Same
<1>7. /\ JoinsLogged(old.joins, log, s) /\ ClosingsLogged(old.joins, log, s)
      /\ MembersLogged(old.members, log, s) /\ EpochLogged(old.epoch, log, s)
      /\ FundsLogged(old.funds, log, s)
  BY <1>1 DEF SwarmLogged
<1> HIDE DEF old
<1>9. /\ sw \in Storage /\ sw.joins = old.joins /\ sw.members = old.members /\ sw.epoch = old.epoch
      /\ sw.treasury = t /\ sw.funds = old.funds
  BY <1>2 DEF Storage
<1> HIDE DEF sw
<1>10. /\ JoinsLogged(old.joins, log', s) /\ ClosingsLogged(old.joins, log', s)
       /\ MembersLogged(old.members, log', s)
  BY <1>3, <1>5, <1>6, <1>7, RosterKept
<1>11. EpochLogged(old.epoch, log', s) /\ FundsLogged(old.funds, log', s)
  <2>1. e.name # "EpochRotated" /\ e.name \notin Deciding \cup {"FundRequested"}
    BY <1>3, <1>6 DEF Deciding
  <2> QED BY <1>5, <1>7, <2>1, EpochSame, FundsSame
<1>12. BindingLogged(t, log', s)
  BY <1>3, <1>5, <1>6, BindingChanged
<1>13. SwarmLogged(sw, log', s)
  BY <1>9, <1>10, <1>11, <1>12 DEF SwarmLogged
<1> QED
  BY <1>2, <1>3, <1>4, <1>5, <1>9, <1>13, OneEvent DEF old

LEMMA RequestLogged ==
    ASSUME LogInv, NEW s \in Swarm, NEW a \in Account, NEW v \in Amount, RequestFunds(s, a, v)
    PROVE  LogInv'
<1> DEFINE old == swarm[s]
           q == old.funds
           n == Len(q) + 1
           r == Append(q, [requester |-> a, amount |-> v, status |-> "pending"])
           sw == [old EXCEPT !.funds = r]
           f == [EventBy("FundRequested", s) EXCEPT !.id = n, !.who = a, !.amount = v]
<1>1. ViewsTypeOK /\ SwarmLogged(old, log, s)
  BY DEF LogInv
<1>2. old \in Storage /\ q \in FundRequests /\ n \in Nat /\ v \in Nat
  BY <1>1, Stored, ViewsAssumption
<1>4. Emit(<<f>>) /\ swarm' = [swarm EXCEPT ![s] = sw] /\ click' = click
  BY DEF RequestFunds
<1>3. /\ f \in Records(SwarmEvents, Swarm) /\ f.source = s /\ f.name = "FundRequested"
      /\ f.id = n /\ f.who = a /\ f.amount = v
  <2> HIDE DEF n
  <2> QED BY <1>2 DEF EventBy, Records, SwarmEvents
<1> HIDE DEF f
<1>5. PICK e : Grown(log, log', e) /\ SameEvent(e, f) /\ Len(log') = Len(log) + 1
             /\ LogOrdered(log')
  BY <1>1, <1>3, <1>4, EmitOne
<1>6. e.name = f.name /\ e.source = f.source /\ e.id = f.id /\ e.who = f.who /\ e.amount = f.amount
  BY <1>3, <1>5, Same
<1>7. /\ JoinsLogged(old.joins, log, s) /\ ClosingsLogged(old.joins, log, s)
      /\ MembersLogged(old.members, log, s) /\ EpochLogged(old.epoch, log, s)
      /\ BindingLogged(old.treasury, log, s) /\ FundsLogged(q, log, s)
  BY <1>1 DEF SwarmLogged
<1>8. /\ r \in FundRequests /\ FundsLogged(r, log', s)
      /\ \A k \in DOMAIN q : k \in DOMAIN r /\ r[k] = q[k]
  <2>1. e.source = s /\ e.name = "FundRequested" /\ e.id = Len(q) + 1 /\ e.who = a /\ e.amount = v
    BY <1>3, <1>6
  <2> HIDE DEF q
  <2> QED BY <1>2, <1>5, <1>7, <2>1, FundAsked
<1> HIDE DEF r, n
<1>14. FundsKept(swarm[s].funds, r)
  BY <1>8 DEF FundsKept
<1> HIDE DEF old
<1>9. /\ sw \in Storage /\ sw.joins = old.joins /\ sw.members = old.members /\ sw.epoch = old.epoch
      /\ sw.treasury = old.treasury /\ sw.funds = r
  BY <1>2, <1>8 DEF Storage, FundRequests
<1> HIDE DEF sw
<1>10. /\ JoinsLogged(old.joins, log', s) /\ ClosingsLogged(old.joins, log', s)
       /\ MembersLogged(old.members, log', s)
  BY <1>3, <1>5, <1>6, <1>7, RosterKept
<1>11. EpochLogged(old.epoch, log', s) /\ BindingLogged(old.treasury, log', s)
  <2>1. e.name # "EpochRotated" /\ e.name # "TreasurySet"
    BY <1>3, <1>6
  <2> QED BY <1>5, <1>7, <2>1, EpochSame, BindingSame
<1>13. SwarmLogged(sw, log', s)
  BY <1>8, <1>9, <1>10, <1>11 DEF SwarmLogged
<1> QED
  BY <1>3, <1>4, <1>5, <1>9, <1>13, <1>14, OneEvent

LEMMA DecisionStored ==
    ASSUME LogInv, NEW s \in Swarm, NEW r, NEW verdict \in Status \ {"pending"},
           FundPending(s, r), Decide(s, r, verdict), NEW e, Grown(log, log', e),
           e.source = s, e.name \in Deciding, e.id = r, verdict = Verdict(e.name)
    PROVE  \E sw \in Storage : /\ swarm' = [swarm EXCEPT ![s] = sw]
                               /\ SwarmLogged(sw, log', s) /\ FundsKept(swarm[s].funds, sw.funds)
                               /\ r \in DOMAIN sw.funds /\ sw.funds[r].status = verdict
<1> DEFINE old == swarm[s]
           q == old.funds
           g == [q EXCEPT ![r].status = verdict]
           sw == [old EXCEPT !.funds = g]
<1>1. ViewsTypeOK /\ SwarmLogged(old, log, s)
  BY DEF LogInv
<1>2. old \in Storage /\ q \in FundRequests /\ r \in DOMAIN q /\ q[r].status = "pending"
  BY <1>1, Stored DEF FundPending
<1>4. swarm' = [swarm EXCEPT ![s] = sw]
  BY DEF Decide
<1>7. /\ JoinsLogged(old.joins, log, s) /\ ClosingsLogged(old.joins, log, s)
      /\ MembersLogged(old.members, log, s) /\ EpochLogged(old.epoch, log, s)
      /\ BindingLogged(old.treasury, log, s) /\ FundsLogged(q, log, s)
  BY <1>1 DEF SwarmLogged
<1>8. /\ g \in FundRequests /\ FundsLogged(g, log', s)
      /\ DOMAIN g = DOMAIN q /\ g[r].status = verdict
      /\ \A k \in DOMAIN q : g[k].requester = q[k].requester /\ g[k].amount = q[k].amount
                             /\ (k # r => g[k].status = q[k].status)
  <2> HIDE DEF q
  <2> QED BY <1>2, <1>7, FundDecided
<1> HIDE DEF g
<1>14. FundsKept(swarm[s].funds, g)
  BY <1>2, <1>8 DEF FundsKept
<1> HIDE DEF old
<1>9. /\ sw \in Storage /\ sw.joins = old.joins /\ sw.members = old.members /\ sw.epoch = old.epoch
      /\ sw.treasury = old.treasury /\ sw.funds = g
  BY <1>2, <1>8 DEF Storage, FundRequests
<1> HIDE DEF sw
<1>10. /\ JoinsLogged(old.joins, log', s) /\ ClosingsLogged(old.joins, log', s)
       /\ MembersLogged(old.members, log', s)
  <2>1. e.name \notin {"JoinRequested", "JoinApproved", "JoinRejected", "JoinCancelled",
                       "MemberRemoved"}
    BY DEF Deciding
  <2> QED BY <1>7, <2>1, RosterKept
<1>11. EpochLogged(old.epoch, log', s) /\ BindingLogged(old.treasury, log', s)
  <2>1. e.name # "EpochRotated" /\ e.name # "TreasurySet"
    BY DEF Deciding
  <2> QED BY <1>7, <2>1, EpochSame, BindingSame
<1>13. SwarmLogged(sw, log', s)
  BY <1>8, <1>9, <1>10, <1>11 DEF SwarmLogged
<1> QED
  BY <1>2, <1>4, <1>8, <1>9, <1>13, <1>14

LEMMA CancellationLogged ==
    ASSUME LogInv, NEW s \in Swarm, NEW r, NEW caller, CancelFundRequest(s, r, caller),
           click' = click \/ click' = NoClick
    PROVE  LogInv'
<1> DEFINE f == [EventBy("FundRequestCancelled", s) EXCEPT !.id = r, !.who = caller]
<1>1. ViewsTypeOK /\ FundPending(s, r) /\ swarm[s].funds[r].requester = caller
      /\ Decide(s, r, "cancelled") /\ Emit(<<f>>)
  BY DEF LogInv, CancelFundRequest
<1>2. r \in Nat /\ caller \in Account
  <2>1. swarm[s].funds \in FundRequests /\ DOMAIN swarm[s].funds \subseteq Nat
    BY <1>1, Stored
  <2>2. \A q \in FundRequests : \A k \in DOMAIN q : q[k].requester \in Account
    <3> SUFFICES ASSUME NEW q \in FundRequests, NEW k \in DOMAIN q
                 PROVE  q[k].requester \in Account
      OBVIOUS
    <3>1. q[k] \in [requester : Account, amount : Amount, status : Status]
      <4> DEFINE R == [requester : Account, amount : Amount, status : Status]
      <4>1. q \in Seq(R)
        BY DEF FundRequests
      <4> HIDE DEF R
      <4>2. q[k] \in R
        BY <4>1, LenProperties
      <4> QED BY <4>2 DEF R
    <3> QED BY <3>1
  <2> QED BY <1>1, <2>1, <2>2 DEF FundPending
<1>3. f \in Records(SwarmEvents, Swarm) /\ f.source = s /\ f.name = "FundRequestCancelled"
        /\ f.id = r
  BY <1>2 DEF EventBy, Records, SwarmEvents
<1> HIDE DEF f
<1>5. PICK e : Grown(log, log', e) /\ SameEvent(e, f) /\ Len(log') = Len(log) + 1
             /\ LogOrdered(log')
  BY <1>1, <1>3, EmitOne
<1>6. e.name = f.name /\ e.source = f.source /\ e.id = f.id
  BY <1>3, <1>5, Same
<1>7. /\ "cancelled" \in Status \ {"pending"} /\ e.name \in Deciding
      /\ Verdict(e.name) = "cancelled"
  BY <1>3, <1>6 DEF Status, Deciding, Verdict
<1>8. PICK sw \in Storage : /\ swarm' = [swarm EXCEPT ![s] = sw]
                            /\ SwarmLogged(sw, log', s) /\ FundsKept(swarm[s].funds, sw.funds)
  BY <1>1, <1>3, <1>5, <1>6, <1>7, DecisionStored
<1> QED
  BY <1>3, <1>5, <1>8, OneEvent

LEMMA VerdictLogged ==
    ASSUME LogInv, NEW s \in Swarm, NEW t \in Treasury, NEW r, NEW verdict, NEW name, NEW both,
           FundPending(s, r), Decide(s, r, verdict),
           \/ name = "FundRequestApproved" /\ both = "FundsReleased" /\ verdict = "approved"
           \/ name = "FundRequestRejected" /\ both = "FundRequestRejectedByTreasury"
              /\ verdict = "rejected",
           Emit(<<[EventBy(name, s) EXCEPT !.id = r],
                  [EventBy(both, t) EXCEPT !.id = r, !.of = s]>>),
           click' = click \/ click' = NoClick
    PROVE  LogInv'
<1> DEFINE f == [EventBy(name, s) EXCEPT !.id = r]
           g == [EventBy(both, t) EXCEPT !.id = r, !.of = s]
<1>1. ViewsTypeOK /\ Emit(<<f, g>>)
  BY DEF LogInv
<1>2. r \in Nat
  <2>1. DOMAIN swarm[s].funds \subseteq Nat
    BY <1>1, Stored
  <2> QED BY <2>1 DEF FundPending
<1>3. /\ f \in Records(SwarmEvents, Swarm) /\ f.source = s /\ f.name = name /\ f.id = r
  BY <1>2 DEF EventBy, Records, SwarmEvents
<1>4. /\ g \in Records(TreasuryEvents, Treasury) /\ g.of = s /\ g.name = both /\ g.id = r
  BY <1>2 DEF EventBy, Records, TreasuryEvents
<1> HIDE DEF f, g
<1>5. PICK e : /\ Grown(log, log', e) /\ SameEvent(e, f) /\ LogOrdered(log')
               /\ Len(log') = Len(log) + 2 /\ SameEvent(log'[Len(log) + 2], g)
  BY <1>1, <1>3, <1>4, EmitTwo
<1>6. e.name = f.name /\ e.source = f.source /\ e.id = f.id
  BY <1>3, <1>5, Same
<1>7. /\ verdict \in Status \ {"pending"} /\ e.name \in Deciding /\ Verdict(e.name) = verdict
      /\ Verdict(both) = verdict /\ name \in SwarmEvents /\ name \notin TreasuryEvents
  BY <1>3, <1>6 DEF Status, Deciding, Verdict, TreasuryEvents, SwarmEvents
<1>8. PICK sw \in Storage : /\ swarm' = [swarm EXCEPT ![s] = sw]
                            /\ SwarmLogged(sw, log', s) /\ FundsKept(swarm[s].funds, sw.funds)
                            /\ r \in DOMAIN sw.funds /\ sw.funds[r].status = verdict
  BY <1>3, <1>5, <1>6, <1>7, DecisionStored
<1>9. \A i \in 1..Len(log') : i > Len(log) /\ log'[i].name \in TreasuryEvents =>
              /\ log'[i].of = s /\ log'[i].id \in DOMAIN sw.funds
              /\ sw.funds[log'[i].id].status = Verdict(log'[i].name)
  <2>1. Len(log) \in Nat /\ log'[Len(log) + 1] = e
    BY <1>5 DEF Grown
  <2>2. /\ log'[Len(log) + 2].of = s /\ log'[Len(log) + 2].id = r /\ log'[Len(log) + 2].name = both
    BY <1>4, <1>5 DEF SameEvent, Records
  <2>3. \A i \in 1..Len(log') : i > Len(log) => i = Len(log) + 1 \/ i = Len(log) + 2
    BY <1>5, <2>1
  <2>4. e.name \notin TreasuryEvents
    BY <1>3, <1>6, <1>7
  <2> QED BY <1>7, <1>8, <2>1, <2>2, <2>3, <2>4
<1> QED
  BY <1>3, <1>5, <1>6, <1>8, <1>9, OneLogged

-----------------------------------------------------------------------------
(* What an event does to each field of a view. *)

View(v) ==
    v = [members |-> v.members, pending |-> v.pending, removed |-> v.removed, funds |-> v.funds,
         treasury |-> v.treasury, epoch |-> v.epoch, version |-> v.version]

Marks == Deciding \cup TreasuryEvents

Label(name) ==
    CASE name = "FundRequestApproved" -> "approved"
      [] name = "FundRequestRejected" -> "rejected"
      [] name = "FundRequestCancelled" -> "cancelled"
      [] name = "FundRequestRejectedByTreasury" -> "rejected-by-treasury"
      [] name = "FundsReleased" -> "released"

AskedRow(e)   == [requester |-> e.who, amount |-> e.amount, status |-> "requested"]
PendingRow(e) == [requester |-> e.who, key |-> e.key]
Taken(v, a)   == IF AskedBy(v, a) = {} THEN {} ELSE {Min(AskedBy(v, a))}
MemberRow(v, e) ==
    [joinedEpoch |-> e.epoch,
     key |-> IF Taken(v, e.who) = {} THEN 0 ELSE v.pending[Min(AskedBy(v, e.who))].key]

Marked(f, e) == [f EXCEPT ![e.id].status = Label(e.name)]

FundsAfter(v, e) ==
    IF e.name = "FundRequested" THEN Put(v.funds, e.id, AskedRow(e))
    ELSE IF e.name \in Marks /\ e.id \in DOMAIN v.funds
         THEN Marked(v.funds, e) ELSE v.funds
PendingAfter(v, e) ==
    IF e.name = "JoinRequested" THEN Put(v.pending, e.id, PendingRow(e))
    ELSE IF e.name = "JoinApproved" THEN Drop(v.pending, Taken(v, e.who))
    ELSE IF e.name \in {"JoinRejected", "JoinCancelled"} THEN Drop(v.pending, AskedBy(v, e.who))
    ELSE v.pending
MembersAfter(v, e) ==
    IF e.name = "JoinApproved" THEN Put(v.members, e.who, MemberRow(v, e))
    ELSE IF e.name = "MemberRemoved" THEN Drop(v.members, {e.who}) ELSE v.members
RemovedAfter(v, e) ==
    IF e.name = "MemberRemoved" THEN Put(v.removed, e.who, e.block)
    ELSE IF e.name = "MemberFileMappingUpdated"
         THEN Drop(v.removed, {a \in DOMAIN v.removed : e.block > v.removed[a]}) ELSE v.removed

(* w is v with these fields.                                               *)
Fields(v, w, members, pending, removed, funds, treasury, epoch) ==
    /\ View(w)
    /\ w.members = members /\ w.pending = pending /\ w.removed = removed
    /\ w.funds = funds /\ w.treasury = treasury /\ w.epoch = epoch

LEMMA SetFields ==
    ASSUME NEW v, View(v)
    PROVE  /\ \A x : Fields(v, [v EXCEPT !.funds = x],
                            v.members, v.pending, v.removed, x, v.treasury, v.epoch)
           /\ \A x : Fields(v, [v EXCEPT !.pending = x],
                            v.members, x, v.removed, v.funds, v.treasury, v.epoch)
           /\ \A x : Fields(v, [v EXCEPT !.removed = x],
                            v.members, v.pending, x, v.funds, v.treasury, v.epoch)
           /\ \A x : Fields(v, [v EXCEPT !.treasury = x],
                            v.members, v.pending, v.removed, v.funds, x, v.epoch)
           /\ \A x, y : Fields(v, [v EXCEPT !.epoch = x, !.version = y],
                               v.members, v.pending, v.removed, v.funds, v.treasury, x)
           /\ \A x, y : Fields(v, [v EXCEPT !.pending = x, !.members = y],
                               y, x, v.removed, v.funds, v.treasury, v.epoch)
           /\ \A x, y : Fields(v, [v EXCEPT !.members = x, !.removed = y],
                               x, v.pending, y, v.funds, v.treasury, v.epoch)
<1>1. ASSUME NEW x
      PROVE  Fields(v, [v EXCEPT !.funds = x],
                    v.members, v.pending, v.removed, x, v.treasury, v.epoch)
  BY DEF View, Fields
<1>2. ASSUME NEW x
      PROVE  Fields(v, [v EXCEPT !.pending = x],
                    v.members, x, v.removed, v.funds, v.treasury, v.epoch)
  BY DEF View, Fields
<1>3. ASSUME NEW x
      PROVE  Fields(v, [v EXCEPT !.removed = x],
                    v.members, v.pending, x, v.funds, v.treasury, v.epoch)
  BY DEF View, Fields
<1>4. ASSUME NEW x
      PROVE  Fields(v, [v EXCEPT !.treasury = x],
                    v.members, v.pending, v.removed, v.funds, x, v.epoch)
  BY DEF View, Fields
<1>5. ASSUME NEW x, NEW y
      PROVE  Fields(v, [v EXCEPT !.epoch = x, !.version = y],
                    v.members, v.pending, v.removed, v.funds, v.treasury, x)
  <2> SUFFICES ASSUME NEW w, w = [v EXCEPT !.epoch = x, !.version = y]
               PROVE  Fields(v, w, v.members, v.pending, v.removed, v.funds, v.treasury, x)
    OBVIOUS
  <2> QED BY DEF View, Fields
<1>6. ASSUME NEW x, NEW y
      PROVE  Fields(v, [v EXCEPT !.pending = x, !.members = y],
                    y, x, v.removed, v.funds, v.treasury, v.epoch)
  <2> SUFFICES ASSUME NEW w, w = [v EXCEPT !.pending = x, !.members = y]
               PROVE  Fields(v, w, y, x, v.removed, v.funds, v.treasury, v.epoch)
    OBVIOUS
  <2> QED BY DEF View, Fields
<1>7. ASSUME NEW x, NEW y
      PROVE  Fields(v, [v EXCEPT !.members = x, !.removed = y],
                    x, v.pending, y, v.funds, v.treasury, v.epoch)
  <2> SUFFICES ASSUME NEW w, w = [v EXCEPT !.members = x, !.removed = y]
               PROVE  Fields(v, w, x, v.pending, y, v.funds, v.treasury, v.epoch)
    OBVIOUS
  <2> QED BY DEF View, Fields
<1> HIDE DEF Fields
<1> QED
  BY <1>1, <1>2, <1>3, <1>4, <1>5, <1>6, <1>7

LEMMA Applied ==
    ASSUME NEW v, View(v), NEW e, e.name \in SwarmEvents \cup TreasuryEvents
    PROVE  LET w == Apply(v, e) IN
           /\ View(w)
           /\ w.members = MembersAfter(v, e) /\ w.pending = PendingAfter(v, e)
           /\ w.removed = RemovedAfter(v, e) /\ w.funds = FundsAfter(v, e)
           /\ w.treasury = (IF e.name = "TreasurySet" THEN e.who ELSE v.treasury)
           /\ w.epoch = (IF e.name = "EpochRotated" THEN e.epoch ELSE v.epoch)
<1> DEFINE n == e.name
           w == Apply(v, e)
           good == Fields(v, w, MembersAfter(v, e), PendingAfter(v, e), RemovedAfter(v, e),
                          FundsAfter(v, e),
                          IF n = "TreasurySet" THEN e.who ELSE v.treasury,
                          IF n = "EpochRotated" THEN e.epoch ELSE v.epoch)
<1>0. /\ n \notin Marks => FundsAfter(v, e) = IF n = "FundRequested"
                                              THEN Put(v.funds, e.id, AskedRow(e)) ELSE v.funds
      /\ n \notin {"JoinRequested", "JoinApproved", "JoinRejected", "JoinCancelled"} =>
            PendingAfter(v, e) = v.pending
      /\ n \notin {"JoinApproved", "MemberRemoved"} => MembersAfter(v, e) = v.members
      /\ n \notin {"MemberRemoved", "MemberFileMappingUpdated"} => RemovedAfter(v, e) = v.removed
  BY DEF FundsAfter, PendingAfter, MembersAfter, RemovedAfter
<1>00. \A x \in {"JoinRequested", "JoinApproved", "JoinRejected", "JoinCancelled", "MemberRemoved",
                 "MemberFileMappingUpdated", "EpochRotated", "TreasurySet", "FundRequested"} :
          x \notin Marks
  BY DEF Marks, Deciding, TreasuryEvents
<1>1. CASE n = "JoinRequested"
  <2>1. w = [v EXCEPT !.pending = Put(v.pending, e.id, PendingRow(e))]
    BY <1>1 DEF Apply, PendingRow
  <2>2. PendingAfter(v, e) = Put(v.pending, e.id, PendingRow(e))
    BY <1>1 DEF PendingAfter
  <2> HIDE DEF w
  <2>3. good
    BY <1>0, <1>00, <1>1, <2>1, <2>2, SetFields
  <2> QED BY <2>3 DEF Fields, w
<1>2. CASE n = "JoinApproved"
  <2>1. w = Approve(v, e)
    BY <1>2 DEF Apply
  <2>2. Approve(v, e) = [v EXCEPT !.pending = Drop(v.pending, Taken(v, e.who)),
                                  !.members = Put(v.members, e.who, MemberRow(v, e))]
    BY DEF Approve, Taken, MemberRow
  <2>3. PendingAfter(v, e) = Drop(v.pending, Taken(v, e.who))
        /\ MembersAfter(v, e) = Put(v.members, e.who, MemberRow(v, e))
    BY <1>2 DEF PendingAfter, MembersAfter
  <2> DEFINE x == Drop(v.pending, Taken(v, e.who))
             y == Put(v.members, e.who, MemberRow(v, e))
  <2>4. w = [v EXCEPT !.pending = x, !.members = y]
    BY <2>1, <2>2
  <2>5. PendingAfter(v, e) = x /\ MembersAfter(v, e) = y
    BY <2>3
  <2> HIDE DEF w, x, y
  <2>6. Fields(v, w, y, x, v.removed, v.funds, v.treasury, v.epoch)
    BY Zenon, <2>4, SetFields
  <2>7. good
    BY <1>0, <1>00, <1>2, <2>5, <2>6
  <2> QED BY <2>7 DEF Fields, w
<1>3. CASE n \in {"JoinRejected", "JoinCancelled"}
  <2>1. w = [v EXCEPT !.pending = Drop(v.pending, AskedBy(v, e.who))]
    BY <1>3 DEF Apply, Close
  <2>2. PendingAfter(v, e) = Drop(v.pending, AskedBy(v, e.who))
    BY <1>3 DEF PendingAfter
  <2> HIDE DEF w
  <2>3. good
    BY <1>0, <1>00, <1>3, <2>1, <2>2, SetFields
  <2> QED BY <2>3 DEF Fields, w
<1>4. CASE n = "MemberRemoved"
  <2> DEFINE x == Drop(v.members, {e.who})
             y == Put(v.removed, e.who, e.block)
  <2>1. w = [v EXCEPT !.members = x, !.removed = y]
    BY <1>4 DEF Apply, Kick
  <2>2. MembersAfter(v, e) = x /\ RemovedAfter(v, e) = y
    BY <1>4 DEF MembersAfter, RemovedAfter
  <2> HIDE DEF w, x, y
  <2>3. Fields(v, w, x, v.pending, y, v.funds, v.treasury, v.epoch)
    BY Zenon, <2>1, SetFields
  <2>4. good
    BY <1>0, <1>00, <1>4, <2>2, <2>3
  <2> QED BY <2>4 DEF Fields, w
<1>5. CASE n = "MemberFileMappingUpdated"
  <2> DEFINE x == Drop(v.removed, {a \in DOMAIN v.removed : e.block > v.removed[a]})
  <2>1. w = [v EXCEPT !.removed = x]
    BY <1>5 DEF Apply, ClearRemoved
  <2>2. RemovedAfter(v, e) = x
    BY <1>5 DEF RemovedAfter
  <2> HIDE DEF w, x
  <2>3. good
    BY <1>0, <1>00, <1>5, <2>1, <2>2, SetFields
  <2> QED BY <2>3 DEF Fields, w
<1>6. CASE n = "EpochRotated"
  <2> DEFINE x == e.epoch
             y == e.version
  <2>1. w = [v EXCEPT !.epoch = x, !.version = y]
    BY <1>6 DEF Apply
  <2> HIDE DEF w
  <2>2. Fields(v, w, v.members, v.pending, v.removed, v.funds, v.treasury, x)
    BY Zenon, <2>1, SetFields
  <2>3. good
    BY <1>0, <1>00, <1>6, <2>2
  <2> QED BY <2>3 DEF Fields, w
<1>7. CASE n = "TreasurySet"
  <2>1. w = [v EXCEPT !.treasury = e.who]
    BY <1>7 DEF Apply
  <2> HIDE DEF w
  <2>3. good
    BY <1>0, <1>00, <1>7, <2>1, SetFields
  <2> QED BY <2>3 DEF Fields, w
<1>8. CASE n = "FundRequested"
  <2>1. w = [v EXCEPT !.funds = Put(v.funds, e.id, AskedRow(e))]
    BY <1>8 DEF Apply, AskedRow
  <2> HIDE DEF w
  <2>3. good
    BY <1>0, <1>00, <1>8, <2>1, SetFields
  <2> QED BY <2>3 DEF Fields, w
<1>9. CASE n \in Marks
  <2>0. n \in {"FundRequestApproved", "FundRequestRejected", "FundRequestCancelled",
               "FundsReleased", "FundRequestRejectedByTreasury"}
    BY <1>9 DEF Marks, Deciding, TreasuryEvents
  <2>1. w = Mark(v, e, Label(n))
    BY <2>0 DEF Apply, Label
  <2> DEFINE x == [v.funds EXCEPT ![e.id].status = Label(n)]
  <2>2. w = IF e.id \in DOMAIN v.funds THEN [v EXCEPT !.funds = x] ELSE v
    BY <2>1 DEF Mark
  <2>3. FundsAfter(v, e) = IF e.id \in DOMAIN v.funds THEN x ELSE v.funds
    BY <2>0, <1>9 DEF FundsAfter, Marked
  <2> HIDE DEF w, x
  <2>4. Fields(v, v, v.members, v.pending, v.removed, v.funds, v.treasury, v.epoch)
    BY DEF Fields
  <2>5. Fields(v, w, v.members, v.pending, v.removed, FundsAfter(v, e), v.treasury, v.epoch)
    BY <2>2, <2>3, <2>4, SetFields
  <2>6. good
    BY <1>0, <2>0, <2>5
  <2> QED BY <2>6 DEF Fields, w
<1>10. \/ n = "JoinRequested" \/ n = "JoinApproved" \/ n \in {"JoinRejected", "JoinCancelled"}
       \/ n = "MemberRemoved" \/ n = "MemberFileMappingUpdated" \/ n = "EpochRotated"
       \/ n = "TreasurySet" \/ n = "FundRequested" \/ n \in Marks
  BY DEF SwarmEvents, TreasuryEvents, Marks, Deciding
<1> QED
  BY <1>1, <1>2, <1>3, <1>4, <1>5, <1>6, <1>7, <1>8, <1>9, <1>10

-----------------------------------------------------------------------------
(* The rows of the treasury page. *)

(* A row is that of a request in the part of the log that was read, and    *)
(* its status that of a later event of the number, if there is one.        *)
RowsShown(f, l, T, n) ==
    \A r \in DOMAIN f : \E i \in T :
      /\ i <= n /\ l[i].name = "FundRequested" /\ l[i].id = r
      /\ f[r] = [requester |-> l[i].who, amount |-> l[i].amount, status |-> f[r].status]
      /\ f[r].status = "requested" =>
           \A k \in T : i < k /\ k <= n /\ l[k].name \in Marks => l[k].id # r
      /\ f[r].status # "requested" =>
           \E k \in T : /\ k <= n /\ l[k].name \in Marks /\ l[k].id = r
                        /\ f[r].status = Label(l[k].name)

LEMMA RowAsked ==
    ASSUME NEW f, NEW l, NEW n \in Nat, NEW T, T \subseteq Nat, n + 1 \in T,
           RowsShown(f, l, T, n), l[n+1].name = "FundRequested"
    PROVE  RowsShown(Put(f, l[n+1].id, AskedRow(l[n+1])), l, T, n + 1)
<1> DEFINE e == l[n+1]
           g == Put(f, e.id, AskedRow(e))
<1>1. /\ DOMAIN g = DOMAIN f \cup {e.id} /\ g[e.id] = AskedRow(e)
      /\ \A r \in DOMAIN f : r # e.id => g[r] = f[r]
  BY DEF Put
<1>2. "FundRequested" \notin Marks
  BY DEF Marks, Deciding, TreasuryEvents
<1>0. \A k \in T : k <= n + 1 => k <= n \/ k = n + 1
  OBVIOUS
<1> HIDE DEF g
<1> SUFFICES ASSUME NEW r \in DOMAIN g
             PROVE  \E i \in T :
               /\ i <= n + 1 /\ l[i].name = "FundRequested" /\ l[i].id = r
               /\ g[r] = [requester |-> l[i].who, amount |-> l[i].amount, status |-> g[r].status]
               /\ g[r].status = "requested" =>
                    \A k \in T : i < k /\ k <= n + 1 /\ l[k].name \in Marks => l[k].id # r
               /\ g[r].status # "requested" =>
                    \E k \in T : /\ k <= n + 1 /\ l[k].name \in Marks /\ l[k].id = r
                                 /\ g[r].status = Label(l[k].name)
  BY DEF g, RowsShown
<1>3. CASE r = e.id
  <2>1. /\ g[r] = [requester |-> e.who, amount |-> e.amount, status |-> "requested"]
        /\ g[r].status = "requested"
    BY <1>1, <1>3 DEF AskedRow
  <2>2. \A k \in T : ~(n + 1 < k /\ k <= n + 1)
    <3>1. \A k \in Nat : ~(n + 1 < k /\ k <= n + 1)
      OBVIOUS
    <3> QED BY <3>1
  <2> QED BY <1>3, <2>1, <2>2
<1>4. CASE r # e.id
  <2>1. r \in DOMAIN f /\ g[r] = f[r]
    BY <1>1, <1>4
  <2>2. PICK i \in T :
      /\ i <= n /\ l[i].name = "FundRequested" /\ l[i].id = r
      /\ f[r] = [requester |-> l[i].who, amount |-> l[i].amount, status |-> f[r].status]
      /\ f[r].status = "requested" =>
           \A k \in T : i < k /\ k <= n /\ l[k].name \in Marks => l[k].id # r
      /\ f[r].status # "requested" =>
           \E k \in T : /\ k <= n /\ l[k].name \in Marks /\ l[k].id = r
                        /\ f[r].status = Label(l[k].name)
    BY <2>1 DEF RowsShown
  <2>3. i <= n + 1 /\ \A k \in T : k <= n => k <= n + 1
    BY <2>2
  <2>4. f[r].status = "requested" =>
           \A k \in T : i < k /\ k <= n + 1 /\ l[k].name \in Marks => l[k].id # r
    BY <1>0, <1>2, <2>2
  <2> QED BY <2>1, <2>2, <2>3, <2>4
<1> QED
  BY <1>3, <1>4

LEMMA RowMarked ==
    ASSUME NEW f, NEW l, NEW n \in Nat, NEW T, T \subseteq Nat, n + 1 \in T,
           RowsShown(f, l, T, n), l[n+1].name \in Marks, l[n+1].id \in DOMAIN f
    PROVE  RowsShown(Marked(f, l[n+1]), l, T, n + 1)
<1> DEFINE e == l[n+1]
           g == Marked(f, e)
<1>1. /\ DOMAIN g = DOMAIN f /\ g[e.id] = [f[e.id] EXCEPT !.status = Label(e.name)]
      /\ \A r \in DOMAIN f : r # e.id => g[r] = f[r]
  BY DEF Marked
<1>2. Label(e.name) # "requested"
  BY DEF Marks, Deciding, TreasuryEvents, Label
<1>0. \A k \in T : k <= n + 1 => k <= n \/ k = n + 1
  OBVIOUS
<1> HIDE DEF g
<1> SUFFICES ASSUME NEW r \in DOMAIN g
             PROVE  \E i \in T :
               /\ i <= n + 1 /\ l[i].name = "FundRequested" /\ l[i].id = r
               /\ g[r] = [requester |-> l[i].who, amount |-> l[i].amount, status |-> g[r].status]
               /\ g[r].status = "requested" =>
                    \A k \in T : i < k /\ k <= n + 1 /\ l[k].name \in Marks => l[k].id # r
               /\ g[r].status # "requested" =>
                    \E k \in T : /\ k <= n + 1 /\ l[k].name \in Marks /\ l[k].id = r
                                 /\ g[r].status = Label(l[k].name)
  BY DEF g, RowsShown
<1>3. PICK i \in T :
      /\ i <= n /\ l[i].name = "FundRequested" /\ l[i].id = r
      /\ f[r] = [requester |-> l[i].who, amount |-> l[i].amount, status |-> f[r].status]
      /\ f[r].status = "requested" =>
           \A k \in T : i < k /\ k <= n /\ l[k].name \in Marks => l[k].id # r
      /\ f[r].status # "requested" =>
           \E k \in T : /\ k <= n /\ l[k].name \in Marks /\ l[k].id = r
                        /\ f[r].status = Label(l[k].name)
  BY <1>1 DEF RowsShown
<1>4. i <= n + 1 /\ \A k \in T : k <= n => k <= n + 1
  <2>1. \A k \in Nat : k <= n => k <= n + 1
    OBVIOUS
  <2> QED BY <1>3, <2>1
<1>5. CASE r = e.id
  <2>1. /\ g[r] = [requester |-> l[i].who, amount |-> l[i].amount, status |-> Label(e.name)]
        /\ g[r].status = Label(e.name)
    <3> DEFINE x == l[i].who
               y == l[i].amount
               z == f[r].status
               u == Label(e.name)
    <3>1. f[r] = [requester |-> x, amount |-> y, status |-> z] /\ g[r] = [f[r] EXCEPT !.status = u]
      BY <1>1, <1>3, <1>5
    <3> HIDE DEF x, y, z, u
    <3>2. g[r] = [requester |-> x, amount |-> y, status |-> u]
      BY <3>1
    <3>3. g[r].status = u
      BY <3>2
    <3> QED BY <3>2, <3>3 DEF x, y, u
  <2>2. n + 1 <= n + 1
    OBVIOUS
  <2> QED BY <1>2, <1>3, <1>4, <1>5, <2>1, <2>2
<1>6. CASE r # e.id
  <2>1. g[r] = f[r]
    BY <1>1, <1>6
  <2>4. f[r].status = "requested" =>
           \A k \in T : i < k /\ k <= n + 1 /\ l[k].name \in Marks => l[k].id # r
    BY <1>0, <1>3, <1>6
  <2> QED BY <1>3, <1>4, <2>1, <2>4
<1> QED
  BY <1>5, <1>6

LEMMA RowsKept ==
    ASSUME NEW f, NEW l, NEW n \in Nat, NEW T, T \subseteq Nat, RowsShown(f, l, T, n),
           n + 1 \in T => l[n+1].name \notin Marks \/ l[n+1].id \notin DOMAIN f
    PROVE  RowsShown(f, l, T, n + 1)
<1>0. \A k \in T : k <= n + 1 => k <= n \/ k = n + 1
  OBVIOUS
<1> SUFFICES ASSUME NEW r \in DOMAIN f
             PROVE  \E i \in T :
               /\ i <= n + 1 /\ l[i].name = "FundRequested" /\ l[i].id = r
               /\ f[r] = [requester |-> l[i].who, amount |-> l[i].amount, status |-> f[r].status]
               /\ f[r].status = "requested" =>
                    \A k \in T : i < k /\ k <= n + 1 /\ l[k].name \in Marks => l[k].id # r
               /\ f[r].status # "requested" =>
                    \E k \in T : /\ k <= n + 1 /\ l[k].name \in Marks /\ l[k].id = r
                                 /\ f[r].status = Label(l[k].name)
  BY DEF RowsShown
<1>3. PICK i \in T :
      /\ i <= n /\ l[i].name = "FundRequested" /\ l[i].id = r
      /\ f[r] = [requester |-> l[i].who, amount |-> l[i].amount, status |-> f[r].status]
      /\ f[r].status = "requested" =>
           \A k \in T : i < k /\ k <= n /\ l[k].name \in Marks => l[k].id # r
      /\ f[r].status # "requested" =>
           \E k \in T : /\ k <= n /\ l[k].name \in Marks /\ l[k].id = r
                        /\ f[r].status = Label(l[k].name)
  BY DEF RowsShown
<1>4. i <= n + 1 /\ \A k \in T : k <= n => k <= n + 1
  BY <1>3
<1>5. f[r].status = "requested" =>
           \A k \in T : i < k /\ k <= n + 1 /\ l[k].name \in Marks => l[k].id # r
  BY <1>0, <1>3
<1> QED
  BY <1>3, <1>4, <1>5

LEMMA RowsFolded ==
    ASSUME ViewsTypeOK, NEW T, T \subseteq DOMAIN log
    PROVE  RowsShown(ReduceSwarmState(T).funds, log, T, Len(log))
<1>1. /\ Len(log) \in Nat /\ DOMAIN log = 1..Len(log) /\ T \subseteq Nat
      /\ \A i \in DOMAIN log : log[i].name \in SwarmEvents \cup TreasuryEvents
  <2>1. \A e \in Logged : e.name \in SwarmEvents \cup TreasuryEvents
    BY DEF Logged, Records
  <2> QED BY <2>1, LogFacts
<1>2. PICK v : Folds(v, T, Len(log)) /\ ReduceSwarmState(T) = v[Len(log)]
  BY <1>1, Fold
<1> DEFINE S == {n \in 0..Len(log) : View(v[n]) /\ RowsShown(v[n].funds, log, T, n)}
<1>3. 0 \in S
  <2>1. v[0] = EmptyView
    BY <1>2 DEF Folds
  <2>2. View(EmptyView) /\ DOMAIN EmptyView.funds = {}
    BY DEF View, EmptyView, NoFields
  <2> QED BY <1>1, <2>1, <2>2 DEF RowsShown
<1>4. ASSUME NEW n \in 0..Len(log), n \in S, n < Len(log)
      PROVE  n + 1 \in S
  <2>1. /\ n + 1 \in 1..Len(log) /\ n + 1 \in 0..Len(log) /\ (n + 1) - 1 = n /\ n \in Nat
        /\ View(v[n]) /\ RowsShown(v[n].funds, log, T, n)
    BY <1>1, <1>4
  <2>2. v[n+1] = IF n + 1 \in T THEN Apply(v[n], log[n+1]) ELSE v[n]
    BY <1>2, <2>1 DEF Folds
  <2>3. CASE n + 1 \notin T
    <3>1. RowsShown(v[n].funds, log, T, n + 1)
      BY <1>1, <2>1, <2>3, RowsKept
    <3> QED BY <2>1, <2>2, <2>3, <3>1
  <2>4. CASE n + 1 \in T
    <3> DEFINE e == log[n+1]
               f == v[n].funds
               w == v[n+1]
    <3>1. View(w) /\ w.funds = FundsAfter(v[n], e)
      <4>1. e.name \in SwarmEvents \cup TreasuryEvents
        BY <1>1, <2>1
      <4>2. w = Apply(v[n], e)
        BY <2>2, <2>4
      <4> HIDE DEF w, e
      <4> QED BY <2>1, <4>1, <4>2, Applied
    <3>2. FundsAfter(v[n], e) =
            IF e.name = "FundRequested" THEN Put(f, e.id, AskedRow(e))
            ELSE IF e.name \in Marks /\ e.id \in DOMAIN f
                 THEN Marked(f, e) ELSE f
      BY DEF FundsAfter
    <3> HIDE DEF f
    <3>3. RowsShown(FundsAfter(v[n], e), log, T, n + 1)
      <4>0. RowsShown(f, log, T, n)
        BY <2>1 DEF f
      <4>1. CASE e.name = "FundRequested"
        BY <1>1, <2>1, <2>4, <3>2, <4>0, <4>1, RowAsked
      <4>2. CASE e.name # "FundRequested" /\ e.name \in Marks /\ e.id \in DOMAIN f
        BY <1>1, <2>1, <2>4, <3>2, <4>0, <4>2, RowMarked
      <4>3. CASE e.name # "FundRequested" /\ ~(e.name \in Marks /\ e.id \in DOMAIN f)
        BY <1>1, <2>1, <2>4, <3>2, <4>0, <4>3, RowsKept
      <4> QED BY <4>1, <4>2, <4>3
    <3> QED BY <2>1, <3>1, <3>3
  <2> QED BY <2>3, <2>4
<1>5. Len(log) \in S
  <2> HIDE DEF S
  <2>1. \A n \in 0..Len(log) : n \in S
    BY <1>1, <1>3, <1>4, UpTo
  <2> QED BY <1>1, <2>1
<1> QED
  BY <1>2, <1>5

(* What a page has read of a published swarm's requests.                   *)
LEMMA ReadRequests ==
    ASSUME LogInv, NEW from, NEW behind, NEW i \in Feed(from, behind),
           log[i].name = "FundRequested"
    PROVE  /\ i \in DOMAIN log /\ log[i].source \in Swarm /\ log[i].source \in ToSet(Published)
           /\ i \in Emitted(log, log[i].source, {"FundRequested"})
<1>1. i \in DOMAIN log /\ log[i] \in Logged /\ log[i].source \in Watched
  BY LogFacts DEF LogInv, Feed
<1>2. log[i].source \in Swarm
  BY <1>1, SourcesApart DEF SwarmEvents, Records
<1>3. log[i].source \in ToSet(Published)
  BY <1>1, <1>2, ViewsAssumption DEF Watched
<1> QED
  BY <1>1, <1>2, <1>3 DEF Emitted

LEMMA RowTerms ==
    ASSUME LogInv, NEW from, NEW behind, NEW r \in DOMAIN Rows(from, behind)
    PROVE  LET row == Rows(from, behind)[r] IN
           /\ \E i \in Feed(from, behind) :
                /\ log[i].name = "FundRequested" /\ log[i].id = r
                /\ row = [requester |-> log[i].who, amount |-> log[i].amount, status |-> row.status]
                /\ row.status = "requested" =>
                     \A k \in Feed(from, behind) : i < k /\ log[k].name \in Marks => log[k].id # r
           /\ row.status # "requested" =>
                \E k \in Feed(from, behind) :
                  log[k].name \in Marks /\ log[k].id = r /\ row.status = Label(log[k].name)
<1> DEFINE T == Feed(from, behind)
           f == Rows(from, behind)
<1>1. T \subseteq DOMAIN log /\ f = ReduceSwarmState(T).funds
  BY DEF Feed, Rows, GlobalState
<1>2. Len(log) \in Nat /\ DOMAIN log = 1..Len(log)
  BY LogFacts DEF LogInv
<1> HIDE DEF T
<1>3. RowsShown(f, log, T, Len(log))
  BY <1>1, RowsFolded DEF LogInv
<1>4. \A k \in T : k <= Len(log)
  BY <1>1, <1>2
<1> HIDE DEF f
<1>5. PICK i \in T :
      /\ i <= Len(log) /\ log[i].name = "FundRequested" /\ log[i].id = r
      /\ f[r] = [requester |-> log[i].who, amount |-> log[i].amount, status |-> f[r].status]
      /\ f[r].status = "requested" =>
           \A k \in T : i < k /\ k <= Len(log) /\ log[k].name \in Marks => log[k].id # r
      /\ f[r].status # "requested" =>
           \E k \in T : /\ k <= Len(log) /\ log[k].name \in Marks /\ log[k].id = r
                        /\ f[r].status = Label(log[k].name)
  BY <1>3 DEF RowsShown, f
<1>6. f[r].status = "requested" =>
           \A k \in T : i < k /\ log[k].name \in Marks => log[k].id # r
  BY <1>4, <1>5
<1> QED
  BY <1>5, <1>6 DEF f, T

LEMMA RowsAreTrue == LogInv => RowsTrue
<1> SUFFICES ASSUME LogInv, NEW from \in 0..Height, NEW behind \in SUBSET Watched,
                    NEW r \in DOMAIN Rows(from, behind)
             PROVE  LET rows == Rows(from, behind) IN
        /\ \E s \in ToSet(Published) :
             /\ r \in DOMAIN swarm[s].funds
             /\ rows[r].requester = swarm[s].funds[r].requester
             /\ rows[r].amount = swarm[s].funds[r].amount
             /\ rows[r].status = "requested" /\ behind = {} => FundPending(s, r)
        /\ rows[r].status # "requested" =>
             \E s \in Swarm : /\ r \in DOMAIN swarm[s].funds
                              /\ swarm[s].funds[r].status = Decision(rows[r].status)
  BY DEF RowsTrue
<1> DEFINE T == Feed(from, behind)
           row == Rows(from, behind)[r]
<1>1. PICK i \in T :
        /\ log[i].name = "FundRequested" /\ log[i].id = r
        /\ row = [requester |-> log[i].who, amount |-> log[i].amount, status |-> row.status]
        /\ row.status = "requested" =>
             \A k \in T : i < k /\ log[k].name \in Marks => log[k].id # r
  BY RowTerms
<1>2. row.status # "requested" =>
         \E k \in T : log[k].name \in Marks /\ log[k].id = r /\ row.status = Label(log[k].name)
  BY RowTerms
<1> HIDE DEF row
<1>3. row.requester = log[i].who /\ row.amount = log[i].amount
  <2> DEFINE x == log[i].who
             y == log[i].amount
             z == row.status
  <2>1. row = [requester |-> x, amount |-> y, status |-> z]
    BY <1>1
  <2> HIDE DEF x, y, z
  <2>2. row.requester = x /\ row.amount = y
    BY <2>1
  <2> QED BY <2>2 DEF x, y
<1> DEFINE s == log[i].source
<1>4. /\ i \in DOMAIN log /\ s \in Swarm /\ s \in ToSet(Published)
      /\ i \in Emitted(log, s, {"FundRequested"})
  BY <1>1, ReadRequests
<1>5. /\ \A q \in Swarm : FundsLogged(swarm[q].funds, log, q)
      /\ ReleasesLogged /\ ViewsTypeOK /\ DOMAIN log \subseteq Nat
      /\ \A k, j \in DOMAIN log : k < j => log[k].block <= log[j].block
      /\ \A k \in DOMAIN log : log[k] \in Logged /\ log[k].block \in Nat
  BY LogFacts DEF LogInv, SwarmLogged, LogOrdered
<1> DEFINE f == swarm[s].funds
<1>6. /\ r \in DOMAIN f /\ log[i].who = f[r].requester /\ log[i].amount = f[r].amount
      /\ f[r].status # "pending" => \E j \in Emitted(log, s, Deciding) : i < j /\ log[j].id = r
  BY <1>1, <1>4, <1>5 DEF FundsLogged
<1>7. ASSUME row.status = "requested", behind = {}
      PROVE  FundPending(s, r)
  <2> SUFFICES ASSUME f[r].status # "pending"
               PROVE  FALSE
    BY <1>6 DEF FundPending
  <2>1. PICK j \in Emitted(log, s, Deciding) : i < j /\ log[j].id = r
    BY <1>6
  <2>2. j \in DOMAIN log /\ log[j].source = s /\ log[j].name \in Marks
    BY DEF Emitted, Marks
  <2>3. log[i].source \in Watched /\ log[i].block >= from
    BY DEF Feed
  <2>4. log[j].block >= from
    <3>1. log[i].block <= log[j].block /\ log[i].block \in Nat /\ log[j].block \in Nat
      BY <1>4, <1>5, <2>1, <2>2
    <3>2. from \in Nat
      BY <1>5, LogFacts
    <3> QED BY <2>3, <3>1, <3>2
  <2>5. j \in T
    BY <1>7, <2>2, <2>3, <2>4 DEF Feed
  <2> QED BY <1>1, <1>7, <2>1, <2>2, <2>5
<1>8. ASSUME row.status # "requested"
      PROVE  \E q \in Swarm : /\ r \in DOMAIN swarm[q].funds
                              /\ swarm[q].funds[r].status = Decision(row.status)
  <2>1. PICK k \in T : log[k].name \in Marks /\ log[k].id = r /\ row.status = Label(log[k].name)
    BY <1>2, <1>8
  <2>2. k \in DOMAIN log /\ log[k] \in Logged
    BY <1>5 DEF Feed
  <2>3. Decision(row.status) = Verdict(log[k].name)
    BY <2>1 DEF Decision, Verdict, Label, Marks, Deciding, TreasuryEvents
  <2>4. CASE log[k].name \in Deciding
    <3>1. log[k].source \in Swarm
      BY <2>2, <2>4, SourcesApart DEF SwarmEvents, Deciding, Records
    <3>2. k \in Emitted(log, log[k].source, Deciding)
      BY <2>2, <2>4 DEF Emitted
    <3>3. /\ log[k].id \in DOMAIN swarm[log[k].source].funds
          /\ swarm[log[k].source].funds[log[k].id].status = Verdict(log[k].name)
      BY <1>5, <3>1, <3>2 DEF FundsLogged
    <3> QED BY <2>1, <2>3, <3>1, <3>3
  <2>5. CASE log[k].name \in TreasuryEvents
    <3>1. log[k].of \in Swarm
      BY <2>2 DEF Logged, Records
    <3>2. /\ log[k].id \in DOMAIN swarm[log[k].of].funds
          /\ swarm[log[k].of].funds[log[k].id].status = Verdict(log[k].name)
      BY <1>5, <2>2, <2>5 DEF ReleasesLogged
    <3> QED BY <2>1, <2>3, <3>1, <3>2
  <2> QED BY <2>1, <2>4, <2>5 DEF Marks
<1> HIDE DEF f, s
<1>9. \E q \in ToSet(Published) :
        /\ r \in DOMAIN swarm[q].funds
        /\ row.requester = swarm[q].funds[r].requester
        /\ row.amount = swarm[q].funds[r].amount
        /\ row.status = "requested" /\ behind = {} => FundPending(q, r)
  <2>1. /\ r \in DOMAIN swarm[s].funds /\ row.requester = swarm[s].funds[r].requester
        /\ row.amount = swarm[s].funds[r].amount
    BY <1>3, <1>6 DEF f
  <2>2. row.status = "requested" /\ behind = {} => FundPending(s, r)
    BY <1>7
  <2> QED BY <1>4, <2>1, <2>2
<1> QED
  BY <1>8, <1>9 DEF row

-----------------------------------------------------------------------------
(* The invariant holds. *)

LEMMA LogUnchanged ==
    ASSUME LogInv, UNCHANGED <<swarm, log>>,
           (click \in {NoClick} \cup [op : {"approve", "reject", "cancel"}, request : Nat,
                                      requester : Account, amount : Amount])',
           ClickTrue'
    PROVE  LogInv'
<1>1. ViewsTypeOK'
  BY DEF ViewsTypeOK, LogInv
<1>2. (\A s \in Swarm : SwarmLogged(swarm[s], log, s))'
  BY DEF LogInv
<1>3. ReleasesLogged'
  BY DEF ReleasesLogged, LogInv
<1> QED
  BY <1>1, <1>2, <1>3 DEF LogInv

LEMMA ClickLogged ==
    ASSUME LogInv, Click
    PROVE  LogInv'
<1>1. PICK x \in Shown, op \in {"approve", "reject", "cancel"} :
         click' = [op |-> op, request |-> x.id, requester |-> x.row.requester,
                   amount |-> x.row.amount]
  BY DEF Click
<1>2. PICK from \in 0..Height, behind \in SUBSET Watched :
         x \in {[id |-> r, row |-> Rows(from, behind)[r]] : r \in DOMAIN Rows(from, behind)}
  BY DEF Shown
<1>3. PICK r \in DOMAIN Rows(from, behind) : x = [id |-> r, row |-> Rows(from, behind)[r]]
  BY <1>2
<1> DEFINE row == Rows(from, behind)[r]
<1>4. PICK s \in ToSet(Published) :
        /\ r \in DOMAIN swarm[s].funds
        /\ row.requester = swarm[s].funds[r].requester
        /\ row.amount = swarm[s].funds[r].amount
  BY RowsAreTrue DEF RowsTrue
<1> HIDE DEF row
<1>5. /\ click' = [op |-> op, request |-> r, requester |-> row.requester, amount |-> row.amount]
  BY <1>1, <1>3 DEF row
<1>6. click'.request = r /\ click'.requester = row.requester /\ click'.amount = row.amount
  BY <1>5
<1>7. UNCHANGED <<swarm, log>>
  BY DEF Click
<1>8. ClickTrue'
  BY <1>4, <1>6, <1>7 DEF ClickTrue
<1>9. r \in Nat /\ row.requester \in Account /\ row.amount \in Amount
  <2>1. s \in Swarm
    BY ViewsAssumption DEF ToSet
  <2>2. swarm[s].funds \in FundRequests /\ DOMAIN swarm[s].funds \subseteq Nat
    BY <2>1, Stored DEF LogInv
  <2>3. \A q \in FundRequests : \A k \in DOMAIN q : q[k].requester \in Account
          /\ q[k].amount \in Amount
    <3> SUFFICES ASSUME NEW q \in FundRequests, NEW k \in DOMAIN q
                 PROVE  q[k].requester \in Account /\ q[k].amount \in Amount
      OBVIOUS
    <3>1. q[k] \in [requester : Account, amount : Amount, status : Status]
      <4> DEFINE R == [requester : Account, amount : Amount, status : Status]
      <4>1. q \in Seq(R)
        BY DEF FundRequests
      <4> HIDE DEF R
      <4>2. q[k] \in R
        BY <4>1, LenProperties
      <4> QED BY <4>2 DEF R
    <3> QED BY <3>1
  <2> QED BY <1>4, <2>2, <2>3
<1>10. click' \in [op : {"approve", "reject", "cancel"}, request : Nat,
                   requester : Account, amount : Amount]
  BY <1>5, <1>9
<1> QED
  BY <1>7, <1>8, <1>10, LogUnchanged

LEMMA ApprovalLogged ==
    ASSUME LogInv, NEW t \in Treasury, NEW s \in Swarm, NEW r, ApproveFundRequest(t, s, r),
           click' = click \/ click' = NoClick
    PROVE  LogInv'
<1>1. /\ FundPending(s, r) /\ Decide(s, r, "approved")
      /\ Emit(<<[EventBy("FundRequestApproved", s) EXCEPT !.id = r],
                [EventBy("FundsReleased", t) EXCEPT !.id = r, !.of = s]>>)
  BY DEF ApproveFundRequest
<1> QED
  BY <1>1, VerdictLogged

LEMMA RejectionLogged ==
    ASSUME LogInv, NEW t \in Treasury, NEW s \in Swarm, NEW r, RejectFundRequest(t, s, r),
           click' = click \/ click' = NoClick
    PROVE  LogInv'
<1>1. /\ FundPending(s, r) /\ Decide(s, r, "rejected")
      /\ Emit(<<[EventBy("FundRequestRejected", s) EXCEPT !.id = r],
                [EventBy("FundRequestRejectedByTreasury", t) EXCEPT !.id = r, !.of = s]>>)
  BY DEF RejectFundRequest
<1> QED
  BY <1>1, VerdictLogged

LEMMA LogStep == LogInv /\ [ViewsNext]_viewsVars => LogInv'
<1> SUFFICES ASSUME LogInv, [ViewsNext]_viewsVars
             PROVE  LogInv'
  OBVIOUS
<1>1. ASSUME NEW s \in Swarm, Roster(s)
      PROVE  LogInv'
  <2>1. ASSUME NEW a \in Account, RequestJoin(s, a) \/ RemoveMember(s, a)
                                  \/ UpdateMemberFileMapping(s, a)
        PROVE  LogInv'
    BY <2>1, JoinRequestLogged, RemovalLogged, MappingLogged
  <2>2. ASSUME NEW id \in DOMAIN swarm[s].joins,
               ApproveJoin(s, id) \/ RejectJoin(s, id) \/ CancelJoin(s, id)
        PROVE  LogInv'
    BY <2>2, JoinApprovalLogged, JoinClosingLogged DEF RejectJoin, CancelJoin
  <2> QED BY <1>1, <2>1, <2>2, RotationLogged DEF Roster
<1>2. ASSUME NEW s \in Swarm, Funds(s)
      PROVE  LogInv'
  <2>1. ASSUME NEW a \in Account, NEW v \in Amount, RequestFunds(s, a, v)
        PROVE  LogInv'
    BY <2>1, RequestLogged
  <2>2. ASSUME NEW t \in Treasury, SetTreasury(s, t)
        PROVE  LogInv'
    BY <2>2, BindingStepLogged
  <2>3. ASSUME NEW r \in DOMAIN swarm[s].funds,
               CancelFundRequest(s, r, swarm[s].funds[r].requester), UNCHANGED click
        PROVE  LogInv'
    BY <2>3, CancellationLogged
  <2>4. ASSUME NEW r \in DOMAIN swarm[s].funds, NEW t \in Treasury,
               ApproveFundRequest(t, s, r) \/ RejectFundRequest(t, s, r), UNCHANGED click
        PROVE  LogInv'
    BY <2>4, ApprovalLogged, RejectionLogged
  <2> QED BY <1>2, <2>1, <2>2, <2>3, <2>4 DEF Funds
<1>3. CASE ClickMined
  <2>1. Active \in Treasury /\ EnsSwarm \in Swarm
    BY ViewsAssumption DEF EnsSwarm
  <2> QED BY <1>3, <2>1, ApprovalLogged, RejectionLogged, CancellationLogged DEF ClickMined
<1>4. CASE ClickFails
  <2>1. ClickTrue' /\ UNCHANGED <<swarm, log>> /\ click' = NoClick
    BY <1>4 DEF ClickFails, ClickTrue
  <2> QED BY <2>1, LogUnchanged
<1>5. CASE UNCHANGED viewsVars
  <2>1. UNCHANGED <<swarm, log>> /\ click' = click
    BY <1>5 DEF viewsVars
  <2>2. ClickTrue'
    BY <2>1 DEF ClickTrue, LogInv
  <2> QED BY <2>1, <2>2, LogUnchanged DEF LogInv, ViewsTypeOK
<1> QED
  BY <1>1, <1>2, <1>3, <1>4, <1>5, ClickLogged DEF ViewsNext, Page

(* The log accounts for the storage of every swarm, a treasury's events    *)
(* name requests decided so, and the call under way has the terms of one.  *)
THEOREM LogInvariant == ViewsSpec => []LogInv
<1> QED
  BY LogInit, LogStep, PTL DEF ViewsSpec

(* Storage, log and the call under way are of their types; the log is in   *)
(* the order of its blocks, and each kind of contract has its own events.  *)
THEOREM ViewsTyped == ViewsSpec => []ViewsTypeOK
<1>1. LogInv => ViewsTypeOK
  BY DEF LogInv
<1> QED
  BY <1>1, LogInvariant, PTL

(* Whichever blocks the contracts have been read up to, a row of the       *)
(* treasury page has the terms of a request of a published swarm, is       *)
(* called open only while it awaits a decision if every contract has been  *)
(* read, and is called decided only when a request of this number was      *)
(* decided so.                                                             *)
THEOREM RowsAlwaysTrue == ViewsSpec => []RowsTrue
<1> QED
  BY LogInvariant, RowsAreTrue, PTL

(* With one published swarm a button decides the request that its row      *)
(* showed, with the requester and the amount shown.                        *)
THEOREM ButtonsDecideWhatTheyShow ==
    ASSUME Len(Published) = 1
    PROVE  ViewsSpec => PaidAsShown
<1> DEFINE Paid == ClickMined =>
          \E s \in Swarm :
            /\ FundPending(s, click.request)
            /\ swarm[s].funds[click.request].requester = click.requester
            /\ swarm[s].funds[click.request].amount = click.amount
            /\ swarm'[s].funds[click.request].status =
                 CASE click.op = "approve" -> "approved" [] click.op = "reject" -> "rejected"
                   [] click.op = "cancel" -> "cancelled"
<1>1. LogInv => Paid
  <2> SUFFICES ASSUME LogInv, ClickMined
               PROVE  \E s \in Swarm :
                  /\ FundPending(s, click.request)
                  /\ swarm[s].funds[click.request].requester = click.requester
                  /\ swarm[s].funds[click.request].amount = click.amount
                  /\ swarm'[s].funds[click.request].status =
                       CASE click.op = "approve" -> "approved" [] click.op = "reject" -> "rejected"
                         [] click.op = "cancel" -> "cancelled"
    OBVIOUS
  <2> DEFINE r == click.request
             q == Head(Published)
  <2>1. q \in Swarm /\ ToSet(Published) = {q} /\ EnsSwarm = q
    BY ViewsAssumption DEF ToSet, EnsSwarm
  <2>2. PICK s \in ToSet(Published) :
          /\ r \in DOMAIN swarm[s].funds /\ click.requester = swarm[s].funds[r].requester
          /\ click.amount = swarm[s].funds[r].amount
    BY DEF LogInv, ClickTrue, ClickMined
  <2> HIDE DEF q
  <2>3. s = q /\ s \in Swarm
    BY <2>1
  <2>4. swarm \in [Swarm -> Storage]
    BY LogFacts DEF LogInv
  <2>5. ASSUME NEW verdict, FundPending(s, r), Decide(s, r, verdict)
        PROVE  swarm'[s].funds[r].status = verdict
    <3> DEFINE f == swarm[s].funds
               g == [f EXCEPT ![r].status = verdict]
    <3>1. f \in FundRequests /\ r \in DOMAIN f /\ swarm[s] \in Storage
      BY <2>3, <2>5, Stored DEF LogInv, FundPending
    <3>2. swarm' = [swarm EXCEPT ![s] = [swarm[s] EXCEPT !.funds = g]]
      BY <2>5 DEF Decide
    <3>3. g[r].status = verdict
      <4> DEFINE R == [requester : Account, amount : Amount, status : Status]
      <4>1. f \in Seq(R)
        BY <3>1 DEF FundRequests
      <4> HIDE DEF R, f
      <4>2. f[r] \in R
        BY <3>1, <4>1, LenProperties
      <4>3. g[r] = [f[r] EXCEPT !.status = verdict]
        BY <3>1
      <4> HIDE DEF g
      <4> QED BY <4>2, <4>3 DEF R
    <3> HIDE DEF g
    <3>4. swarm'[s].funds = g
      BY <2>3, <2>4, <3>1, <3>2 DEF Storage
    <3> QED BY <3>3, <3>4
  <2>6. CASE click.op = "approve" /\ ApproveFundRequest(Active, q, r)
    BY <2>2, <2>3, <2>5, <2>6 DEF ApproveFundRequest
  <2>7. CASE click.op = "reject" /\ RejectFundRequest(Active, q, r)
    BY <2>2, <2>3, <2>5, <2>7 DEF RejectFundRequest
  <2>8. CASE click.op = "cancel" /\ CancelFundRequest(q, r, click.requester)
    BY <2>2, <2>3, <2>5, <2>8 DEF CancelFundRequest
  <2> QED BY <2>1, <2>6, <2>7, <2>8 DEF ClickMined
<1>2. LogInv /\ [ViewsNext]_viewsVars => [Paid]_viewsVars
  BY <1>1
<1> QED
  BY <1>2, LogInvariant, PTL DEF ViewsSpec, PaidAsShown

-----------------------------------------------------------------------------
(* The swarm page: a stretch T of the events of one swarm. *)

Asking(l, T, n)  == {i \in T : i <= n /\ l[i].name = "JoinRequested"}
Closers(l, T, n) == {i \in T : i <= n /\ l[i].name \in Closing}
Open(l, T, n, i) == \A k \in Closers(l, T, n) : l[k].id # l[i].id

(* What the invariant says of the requests and closings in the stretch; F  *)
(* has the accounts that never had two requests pending.                   *)
Stretch(l, T, N, F) ==
    /\ N \in Nat /\ T \subseteq 1..N
    /\ \A i \in T : i \in Nat /\ l[i].block \in Nat /\ l[i].id \in Nat
                    /\ l[i].name \in SwarmEvents
    /\ \A i, j \in T : i < j => l[i].block <= l[j].block
    /\ \A i \in Asking(l, T, N) : l[i].key = l[i].id
    /\ \A i, j \in Asking(l, T, N) : l[i].id = l[j].id => i = j
    /\ \A j, k \in Closers(l, T, N) : l[j].id = l[k].id => j = k
    /\ \A i \in Asking(l, T, N), k \in Closers(l, T, N) :
         l[i].id = l[k].id => i < k /\ l[i].who = l[k].who
    /\ \A i \in Asking(l, T, N), k \in Closers(l, T, N) :
         i < k /\ l[i].who = l[k].who /\ l[i].who \in F /\ l[i].id # l[k].id =>
           \E j \in Closers(l, T, N) : j < k /\ l[j].id = l[i].id

PendingShown(p, l, T, n, F) ==
    /\ \A id \in DOMAIN p : \E i \in Asking(l, T, n) :
         l[i].id = id /\ p[id] = PendingRow(l[i]) /\ (l[i].who \in F => Open(l, T, n, i))
    /\ \A i \in Asking(l, T, n) :
         l[i].who \in F /\ Open(l, T, n, i) => l[i].id \in DOMAIN p

LEMMA UpToNext ==
    ASSUME NEW l, NEW T, NEW n \in Nat, T \subseteq Nat, NEW m, m = n + 1
    PROVE  /\ ~(m \in T /\ l[m].name = "JoinRequested") => Asking(l, T, m) = Asking(l, T, n)
           /\ m \in T /\ l[m].name = "JoinRequested" =>
                \A k : k \in Asking(l, T, m) <=> k \in Asking(l, T, n) \/ k = m
           /\ ~(m \in T /\ l[m].name \in Closing) => Closers(l, T, m) = Closers(l, T, n)
           /\ m \in T /\ l[m].name \in Closing =>
                \A k : k \in Closers(l, T, m) <=> k \in Closers(l, T, n) \/ k = m
<1>1. \A k \in T : k <= m <=> k <= n \/ k = m
  OBVIOUS
<1> QED
  BY <1>1 DEF Asking, Closers

LEMMA UpToLast ==
    ASSUME NEW l, NEW T, NEW n \in Nat, NEW N \in Nat, NEW F, Stretch(l, T, N, F), n + 1 \in T
    PROVE  /\ n + 1 <= N /\ n <= N /\ T \subseteq Nat
           /\ Asking(l, T, n) \subseteq Asking(l, T, N)
           /\ Closers(l, T, n) \subseteq Closers(l, T, N)
           /\ l[n+1].name = "JoinRequested" => n + 1 \in Asking(l, T, N)
           /\ l[n+1].name \in Closing => n + 1 \in Closers(l, T, N)
           /\ \A k \in Closers(l, T, N) : k < n + 1 => k \in Closers(l, T, n)
           /\ \A k \in Asking(l, T, N) : k < n + 1 => k \in Asking(l, T, n)
           /\ \A k \in Asking(l, T, n) \cup Closers(l, T, n) : k < n + 1 /\ k \in Nat
<1>1. T \subseteq 1..N
  BY DEF Stretch
<1>2. \A k \in T : k \in Nat /\ k <= N /\ (k <= n <=> k < n + 1)
  BY <1>1
<1>3. n + 1 <= N /\ n <= N /\ T \subseteq Nat
  BY <1>1
<1>4. \A k \in T : k <= n => k <= N
  BY <1>2
<1>5. Asking(l, T, n) \subseteq Asking(l, T, N) /\ Closers(l, T, n) \subseteq Closers(l, T, N)
  BY <1>4 DEF Asking, Closers
<1>6. /\ l[n+1].name = "JoinRequested" => n + 1 \in Asking(l, T, N)
      /\ l[n+1].name \in Closing => n + 1 \in Closers(l, T, N)
  BY <1>3 DEF Asking, Closers
<1>7. /\ \A k \in Closers(l, T, N) : k < n + 1 => k \in Closers(l, T, n)
      /\ \A k \in Asking(l, T, N) : k < n + 1 => k \in Asking(l, T, n)
      /\ \A k \in Asking(l, T, n) \cup Closers(l, T, n) : k < n + 1 /\ k \in Nat
  BY <1>2 DEF Asking, Closers
<1> QED
  BY <1>3, <1>5, <1>6, <1>7

LEMMA PendingUntouched ==
    ASSUME NEW p, NEW l, NEW T, NEW n \in Nat, NEW F, T \subseteq Nat,
           PendingShown(p, l, T, n, F),
           n + 1 \in T => l[n+1].name \notin Closing \cup {"JoinRequested"}
    PROVE  PendingShown(p, l, T, n + 1, F)
<1>1. Asking(l, T, n + 1) = Asking(l, T, n) /\ Closers(l, T, n + 1) = Closers(l, T, n)
  <2>1. /\ ~(n + 1 \in T /\ l[n+1].name = "JoinRequested")
        /\ ~(n + 1 \in T /\ l[n+1].name \in Closing)
    OBVIOUS
  <2> QED BY <2>1, UpToNext
<1>2. \A i : Open(l, T, n + 1, i) <=> Open(l, T, n, i)
  BY <1>1 DEF Open
<1> QED
  BY <1>1, <1>2 DEF PendingShown

LEMMA PendingAsked ==
    ASSUME NEW p, NEW l, NEW T, NEW n \in Nat, NEW N \in Nat, NEW F, Stretch(l, T, N, F),
           PendingShown(p, l, T, n, F), n + 1 \in T, l[n+1].name = "JoinRequested"
    PROVE  PendingShown(Put(p, l[n+1].id, PendingRow(l[n+1])), l, T, n + 1, F)
<1> DEFINE e == l[n+1]
           g == Put(p, e.id, PendingRow(e))
           A == Asking(l, T, n)
           B == Asking(l, T, n + 1)
<1>0. n + 1 <= N /\ n <= N /\ T \subseteq Nat
  BY UpToLast
<1>1. /\ DOMAIN g = DOMAIN p \cup {e.id} /\ g[e.id] = PendingRow(e)
      /\ \A id \in DOMAIN p : id # e.id => g[id] = p[id]
  BY DEF Put
<1>2. B = A \cup {n + 1} /\ Closers(l, T, n + 1) = Closers(l, T, n)
  <2>1. "JoinRequested" \notin Closing
    BY DEF Closing
  <2> DEFINE m == n + 1
  <2>2. m = n + 1 /\ T \subseteq Nat /\ m \in T /\ l[m].name = "JoinRequested"
          /\ l[m].name \notin Closing
    BY <1>0, <2>1
  <2> HIDE DEF m
  <2>3. \A k : k \in Asking(l, T, m) <=> k \in Asking(l, T, n) \/ k = m
    BY <2>2, UpToNext
  <2>4. Closers(l, T, m) = Closers(l, T, n)
    BY <2>2, UpToNext
  <2> QED BY <2>3, <2>4 DEF m
<1>3. \A i : Open(l, T, n + 1, i) <=> Open(l, T, n, i)
  BY <1>2 DEF Open
<1>4. Open(l, T, n, n + 1)
  <2> SUFFICES ASSUME NEW k \in Closers(l, T, n), l[k].id = e.id
               PROVE  FALSE
    BY DEF Open
  <2>1. k \in Closers(l, T, N) /\ n + 1 \in Asking(l, T, N) /\ k < n + 1 /\ k \in Nat
    BY UpToLast
  <2>2. n + 1 < k
    BY <2>1 DEF Stretch
  <2> QED BY <2>1, <2>2
<1>5. /\ \A id \in DOMAIN p : \E i \in A :
           l[i].id = id /\ p[id] = PendingRow(l[i]) /\ (l[i].who \in F => Open(l, T, n, i))
      /\ \A i \in A : l[i].who \in F /\ Open(l, T, n, i) => l[i].id \in DOMAIN p
  BY DEF PendingShown
<1> HIDE DEF g, A, B
<1>6. \A id \in DOMAIN g : \E i \in B :
         l[i].id = id /\ g[id] = PendingRow(l[i]) /\ (l[i].who \in F => Open(l, T, n + 1, i))
  BY <1>1, <1>2, <1>3, <1>4, <1>5
<1>7. \A i \in B : l[i].who \in F /\ Open(l, T, n + 1, i) => l[i].id \in DOMAIN g
  BY <1>1, <1>2, <1>3, <1>5
<1> QED
  BY <1>6, <1>7 DEF PendingShown, B, g

(* A free account has at most the request that is being closed.            *)
LEMMA OnlyOneAsked ==
    ASSUME NEW v, NEW l, NEW T, NEW n \in Nat, NEW N \in Nat, NEW F, Stretch(l, T, N, F),
           PendingShown(v.pending, l, T, n, F), n + 1 \in T, l[n+1].name \in Closing,
           l[n+1].who \in F
    PROVE  AskedBy(v, l[n+1].who) \subseteq {l[n+1].id}
<1> DEFINE e == l[n+1]
<1> SUFFICES ASSUME NEW id \in AskedBy(v, e.who), id # e.id
             PROVE  FALSE
  OBVIOUS
<1>0. n + 1 <= N /\ n <= N /\ T \subseteq Nat
  BY UpToLast
<1>1. id \in DOMAIN v.pending /\ v.pending[id].requester = e.who
  BY DEF AskedBy
<1>2. PICK i \in Asking(l, T, n) :
         l[i].id = id /\ v.pending[id] = PendingRow(l[i]) /\ (l[i].who \in F => Open(l, T, n, i))
  BY <1>1 DEF PendingShown
<1>3. l[i].who = e.who
  BY <1>1, <1>2 DEF PendingRow
<1>4. i \in Asking(l, T, N) /\ n + 1 \in Closers(l, T, N) /\ i < n + 1
  BY UpToLast
<1>5. PICK j \in Closers(l, T, N) : j < n + 1 /\ l[j].id = l[i].id
  BY <1>2, <1>3, <1>4 DEF Stretch
<1>6. j \in Closers(l, T, n)
  BY <1>5, UpToLast
<1> QED
  BY <1>2, <1>3, <1>5, <1>6 DEF Open

LEMMA PendingDropped ==
    ASSUME NEW v, NEW l, NEW T, NEW n \in Nat, NEW N \in Nat, NEW F, Stretch(l, T, N, F),
           PendingShown(v.pending, l, T, n, F), n + 1 \in T, l[n+1].name \in Closing,
           NEW D, D \subseteq AskedBy(v, l[n+1].who),
           l[n+1].who \in F => D = AskedBy(v, l[n+1].who)
    PROVE  PendingShown(Drop(v.pending, D), l, T, n + 1, F)
<1> DEFINE e == l[n+1]
           p == v.pending
           g == Drop(p, D)
           A == Asking(l, T, n)
<1>0. n + 1 <= N /\ n <= N /\ T \subseteq Nat
  BY UpToLast
<1>1. DOMAIN g = DOMAIN p \ D /\ \A id \in DOMAIN g : g[id] = p[id]
  BY DEF Drop
<1>2. Asking(l, T, n + 1) = A /\ Closers(l, T, n + 1) = Closers(l, T, n) \cup {n + 1}
  <2>1. "JoinRequested" \notin Closing
    BY DEF Closing
  <2> QED BY <1>0, <2>1, UpToNext
<1>3. \A i : Open(l, T, n + 1, i) <=> Open(l, T, n, i) /\ e.id # l[i].id
  BY <1>2 DEF Open
<1>4. /\ \A id \in DOMAIN p : \E i \in A :
           l[i].id = id /\ p[id] = PendingRow(l[i]) /\ (l[i].who \in F => Open(l, T, n, i))
      /\ \A i \in A : l[i].who \in F /\ Open(l, T, n, i) => l[i].id \in DOMAIN p
  BY DEF PendingShown
<1>5. A \subseteq Asking(l, T, N) /\ n + 1 \in Closers(l, T, N)
  BY UpToLast DEF A
<1>6. \A i, j \in A : l[i].id = l[j].id => i = j
  BY <1>5 DEF Stretch
<1>7. \A i \in A : l[i].id = e.id => l[i].who = e.who
  BY <1>5 DEF Stretch
<1> HIDE DEF g, A
<1>8. \A id \in DOMAIN g : \E i \in A :
         l[i].id = id /\ g[id] = PendingRow(l[i]) /\ (l[i].who \in F => Open(l, T, n + 1, i))
  <2> SUFFICES ASSUME NEW id \in DOMAIN g
               PROVE  \E i \in A : /\ l[i].id = id /\ g[id] = PendingRow(l[i])
                                   /\ l[i].who \in F => Open(l, T, n + 1, i)
    OBVIOUS
  <2>1. id \in DOMAIN p /\ g[id] = p[id] /\ id \notin D
    BY <1>1
  <2>2. PICK i \in A :
           l[i].id = id /\ p[id] = PendingRow(l[i]) /\ (l[i].who \in F => Open(l, T, n, i))
    BY <1>4, <2>1
  <2>3. ASSUME l[i].who \in F, e.id = id
        PROVE  FALSE
    <3>1. l[i].who = e.who /\ p[id].requester = e.who
      BY <1>7, <2>2, <2>3 DEF PendingRow
    <3>2. id \in AskedBy(v, e.who)
      BY <2>1, <3>1 DEF AskedBy
    <3> QED BY <2>1, <2>3, <3>1, <3>2
  <2> QED BY <1>3, <2>1, <2>2, <2>3
<1>9. \A i \in A : l[i].who \in F /\ Open(l, T, n + 1, i) => l[i].id \in DOMAIN g
  <2> SUFFICES ASSUME NEW i \in A, l[i].who \in F, Open(l, T, n + 1, i), l[i].id \in D
               PROVE  FALSE
    BY <1>1, <1>3, <1>4
  <2>1. l[i].id \in DOMAIN p /\ p[l[i].id].requester = e.who
    BY DEF AskedBy
  <2>2. PICK j \in A : l[j].id = l[i].id /\ p[l[i].id] = PendingRow(l[j])
    BY <1>4, <2>1
  <2>3. l[i].who = e.who
    BY <1>6, <2>1, <2>2 DEF PendingRow
  <2>4. l[i].id = e.id
    <3>1. AskedBy(v, e.who) \subseteq {e.id}
      BY <2>3, OnlyOneAsked
    <3> QED BY <3>1
  <2> QED BY <1>3, <2>4
<1> QED
  BY <1>2, <1>8, <1>9 DEF PendingShown, A, g

(* The last event in the stretch, up to n, on the membership of a.         *)
LastWord(l, T, n, a, i) ==
    /\ i \in T /\ i <= n /\ l[i].name \in RosterEvents /\ l[i].who = a
    /\ \A j \in T : j <= n /\ l[j].name \in RosterEvents /\ l[j].who = a => j <= i

(* The key is that of the request that was approved, if the request is in  *)
(* the stretch.                                                            *)
KeyOf(l, T, N, i) ==
    IF \E q \in Asking(l, T, N) : l[q].id = l[i].id THEN l[i].id ELSE 0

MembersShown(m, l, T, n, N, F) ==
    /\ \A a \in DOMAIN m : \E i \in T :
         /\ LastWord(l, T, n, a, i) /\ l[i].name = "JoinApproved"
         /\ m[a].joinedEpoch = l[i].epoch /\ (a \in F => m[a].key = KeyOf(l, T, N, i))
    /\ \A i \in T : LastWord(l, T, n, l[i].who, i) /\ l[i].name = "JoinApproved" =>
                       l[i].who \in DOMAIN m

LEMMA LastWordKept ==
    ASSUME NEW l, NEW T, NEW n \in Nat, NEW m, m = n + 1, T \subseteq Nat, NEW a,
           m \in T => l[m].name \notin RosterEvents \/ l[m].who # a
    PROVE  \A i \in T : LastWord(l, T, m, a, i) <=> LastWord(l, T, n, a, i)
<1>1. \A k \in T : k <= m <=> k <= n \/ k = m
  OBVIOUS
<1> QED
  BY <1>1 DEF LastWord

OnlyLastWord(l, T, m, a) == \A i \in T : LastWord(l, T, m, a, i) <=> i = m

LEMMA LastWordNew ==
    ASSUME NEW l, NEW T, NEW m, T \subseteq Nat, NEW a,
           m \in T, l[m].name \in RosterEvents, l[m].who = a
    PROVE  OnlyLastWord(l, T, m, a)
<1>1. \A k \in T : k <= m /\ m <= k => k = m
  OBVIOUS
<1>2. \A k \in T : k \in Nat /\ m \in Nat /\ m <= m
  OBVIOUS
<1> QED
  BY <1>1, <1>2 DEF LastWord, OnlyLastWord

LEMMA MembersUntouched ==
    ASSUME NEW f, NEW l, NEW T, NEW n \in Nat, NEW N, NEW F, T \subseteq Nat, NEW m, m = n + 1,
           MembersShown(f, l, T, n, N, F), m \in T => l[m].name \notin RosterEvents
    PROVE  MembersShown(f, l, T, m, N, F)
<1>1. \A a : \A i \in T : LastWord(l, T, m, a, i) <=> LastWord(l, T, n, a, i)
  BY LastWordKept
<1> QED
  BY <1>1 DEF MembersShown

LEMMA MembersAdded ==
    ASSUME NEW f, NEW l, NEW T, NEW n \in Nat, NEW N, NEW F, T \subseteq Nat, NEW m, m = n + 1,
           MembersShown(f, l, T, n, N, F), m \in T, l[m].name = "JoinApproved", NEW row,
           row.joinedEpoch = l[m].epoch, l[m].who \in F => row.key = KeyOf(l, T, N, m)
    PROVE  MembersShown(Put(f, l[m].who, row), l, T, m, N, F)
<1> DEFINE b == l[m].who
           g == Put(f, b, row)
<1>1. /\ DOMAIN g = DOMAIN f \cup {b} /\ g[b] = row
      /\ \A a \in DOMAIN f : a # b => g[a] = f[a]
  BY DEF Put
<1>2. \A a : a # b => \A i \in T : LastWord(l, T, m, a, i) <=> LastWord(l, T, n, a, i)
  BY LastWordKept
<1>3. \A i \in T : LastWord(l, T, m, b, i) <=> i = m
  <2>1. l[m].name \in RosterEvents
    BY DEF RosterEvents
  <2>2. m \in T /\ T \subseteq Nat /\ l[m].who = b
    OBVIOUS
  <2> HIDE DEF b, g
  <2>3. OnlyLastWord(l, T, m, b)
    BY ONLY <2>1, <2>2, LastWordNew
  <2> QED BY ONLY <2>3 DEF OnlyLastWord
<1> HIDE DEF g
<1>4. \A a \in DOMAIN g : \E i \in T :
         /\ LastWord(l, T, m, a, i) /\ l[i].name = "JoinApproved"
         /\ g[a].joinedEpoch = l[i].epoch /\ (a \in F => g[a].key = KeyOf(l, T, N, i))
  <2> SUFFICES ASSUME NEW a \in DOMAIN g
               PROVE  \E i \in T :
                  /\ LastWord(l, T, m, a, i) /\ l[i].name = "JoinApproved"
                  /\ g[a].joinedEpoch = l[i].epoch /\ (a \in F => g[a].key = KeyOf(l, T, N, i))
    OBVIOUS
  <2>1. CASE a = b
    BY <1>1, <1>3, <2>1
  <2>2. CASE a # b
    BY <1>1, <1>2, <2>2 DEF MembersShown
  <2> QED BY <2>1, <2>2
<1>5. \A i \in T : LastWord(l, T, m, l[i].who, i) /\ l[i].name = "JoinApproved" =>
                       l[i].who \in DOMAIN g
  BY <1>1, <1>2 DEF MembersShown
<1> QED
  BY <1>4, <1>5 DEF MembersShown, g

LEMMA MembersDropped ==
    ASSUME NEW f, NEW l, NEW T, NEW n \in Nat, NEW N, NEW F, T \subseteq Nat, NEW m, m = n + 1,
           MembersShown(f, l, T, n, N, F), m \in T, l[m].name = "MemberRemoved"
    PROVE  MembersShown(Drop(f, {l[m].who}), l, T, m, N, F)
<1> DEFINE b == l[m].who
           g == Drop(f, {b})
<1>1. DOMAIN g = DOMAIN f \ {b} /\ \A a \in DOMAIN g : g[a] = f[a]
  BY DEF Drop
<1>2. \A a : a # b => \A i \in T : LastWord(l, T, m, a, i) <=> LastWord(l, T, n, a, i)
  BY LastWordKept
<1>3. \A i \in T : LastWord(l, T, m, b, i) <=> i = m
  <2>1. l[m].name \in RosterEvents
    BY DEF RosterEvents
  <2>2. m \in T /\ T \subseteq Nat /\ l[m].who = b
    OBVIOUS
  <2> HIDE DEF b, g
  <2>3. OnlyLastWord(l, T, m, b)
    BY ONLY <2>1, <2>2, LastWordNew
  <2> QED BY ONLY <2>3 DEF OnlyLastWord
<1> HIDE DEF g
<1>4. \A a \in DOMAIN g : \E i \in T :
         /\ LastWord(l, T, m, a, i) /\ l[i].name = "JoinApproved"
         /\ g[a].joinedEpoch = l[i].epoch /\ (a \in F => g[a].key = KeyOf(l, T, N, i))
  BY <1>1, <1>2 DEF MembersShown
<1>5. \A i \in T : LastWord(l, T, m, l[i].who, i) /\ l[i].name = "JoinApproved" =>
                       l[i].who \in DOMAIN g
  <2> SUFFICES ASSUME NEW i \in T, LastWord(l, T, m, l[i].who, i), l[i].name = "JoinApproved"
               PROVE  l[i].who \in DOMAIN g
    OBVIOUS
  <2>1. l[i].who # b
    BY <1>3
  <2> QED BY <1>1, <1>2, <2>1 DEF MembersShown
<1> QED
  BY <1>4, <1>5 DEF MembersShown, g

(* The key that an approval gives.                                         *)
KeyShown(v, l, T, N, i) == MemberRow(v, l[i]).key = KeyOf(l, T, N, i)

LEMMA ApprovedKey ==
    ASSUME NEW v, NEW l, NEW T, NEW n \in Nat, NEW N \in Nat, NEW F, Stretch(l, T, N, F),
           PendingShown(v.pending, l, T, n, F), n + 1 \in T, l[n+1].name = "JoinApproved",
           l[n+1].who \in F
    PROVE  KeyShown(v, l, T, N, n + 1)
<1> SUFFICES MemberRow(v, l[n+1]).key = KeyOf(l, T, N, n + 1)
  BY DEF KeyShown
<1> DEFINE e == l[n+1]
           asked == AskedBy(v, e.who)
<1>0. e.name \in Closing
  BY DEF Closing
<1>1. asked \subseteq {e.id} /\ e.id \in Nat
  <2>1. e.id \in Nat
    BY DEF Stretch
  <2> QED BY <1>0, <2>1, OnlyOneAsked
<1>2. n + 1 \in Closers(l, T, N)
  BY <1>0, UpToLast
<1>3. CASE \E q \in Asking(l, T, N) : l[q].id = e.id
  <2>1. PICK q \in Asking(l, T, N) : l[q].id = e.id
    BY <1>3
  <2>2. q < n + 1 /\ l[q].who = e.who /\ l[q].key = l[q].id
    BY <1>2, <2>1 DEF Stretch
  <2>3. q \in Asking(l, T, n) /\ Asking(l, T, n) \subseteq Asking(l, T, N)
    BY <2>1, <2>2, UpToLast
  <2>4. Open(l, T, n, q)
    <3> SUFFICES ASSUME NEW k \in Closers(l, T, n), l[k].id = l[q].id
                 PROVE  FALSE
      BY DEF Open
    <3>1. k \in Closers(l, T, N) /\ k < n + 1 /\ k \in Nat
      BY UpToLast
    <3>2. k = n + 1
      BY <1>2, <2>1, <3>1 DEF Stretch
    <3> QED BY <3>1, <3>2
  <2>5. e.id \in DOMAIN v.pending
    BY <2>1, <2>2, <2>3, <2>4 DEF PendingShown
  <2>6. PICK i \in Asking(l, T, n) : l[i].id = e.id /\ v.pending[e.id] = PendingRow(l[i])
    BY <2>5 DEF PendingShown
  <2>7. i = q
    BY <2>1, <2>3, <2>6 DEF Stretch
  <2>8. v.pending[e.id].requester = e.who /\ v.pending[e.id].key = e.id
    BY <2>1, <2>2, <2>6, <2>7 DEF PendingRow
  <2>9. asked = {e.id}
    BY <1>1, <2>5, <2>8 DEF AskedBy
  <2>10. Min(asked) = e.id /\ asked # {}
    <3> DEFINE x == e.id
    <3>1. asked = {x} /\ x \in Nat
      BY <1>1, <2>9
    <3> HIDE DEF asked, x
    <3>2. Min({x}) = x
      BY <3>1 DEF Min
    <3> QED BY <3>1, <3>2 DEF x
  <2>11. MemberRow(v, e).key = v.pending[e.id].key
    BY <2>10 DEF MemberRow, Taken
  <2> QED BY <1>3, <2>8, <2>11 DEF KeyOf
<1>4. CASE ~\E q \in Asking(l, T, N) : l[q].id = e.id
  <2>1. asked = {}
    <3> SUFFICES ASSUME e.id \in asked
                 PROVE  FALSE
      BY <1>1
    <3>1. PICK i \in Asking(l, T, n) : l[i].id = e.id
      BY DEF AskedBy, PendingShown
    <3>2. i \in Asking(l, T, N)
      BY UpToLast
    <3> QED BY <1>4, <3>1, <3>2
  <2>2. MemberRow(v, e).key = 0
    BY <2>1 DEF MemberRow, Taken
  <2> QED BY <1>4, <2>2 DEF KeyOf
<1> QED
  BY <1>3, <1>4

(* A set of numbers has a least one.                                       *)
LEMMA SmallestNumber ==
    ASSUME NEW A, A \subseteq Nat, A # {}
    PROVE  \E x \in A : \A y \in A : x <= y
<1> DEFINE R == OpToRel(<, Nat)
<1>1. PICK x \in A : \A y \in A : <<y, x>> \notin R
  <2>1. IsWellFoundedOn(R, Nat)
    BY NatLessThanWellFounded
  <2> HIDE DEF R
  <2> QED BY <2>1, WFMin
<1>2. \A y \in A : ~(y < x)
  BY <1>1 DEF OpToRel
<1>3. \A y \in A : x <= y
  BY <1>2
<1> QED
  BY <1>3

(* The value of the last of these events up to n, or of none.              *)
Latest(x, none, f, E, n) ==
    \/ x = none /\ \A i \in E : ~(i <= n)
    \/ \E i \in E : i <= n /\ x = f[i] /\ \A j \in E : j <= n => j <= i

LEMMA LatestNext ==
    ASSUME NEW x, NEW none, NEW f, NEW E, E \subseteq Nat, NEW n \in Nat, NEW m, m = n + 1,
           Latest(x, none, f, E, n), NEW y, y = IF m \in E THEN f[m] ELSE x
    PROVE  Latest(y, none, f, E, m)
<1>1. \A k \in E : (k <= m <=> k <= n \/ k = m) /\ (k <= m => k <= m)
  OBVIOUS
<1>2. CASE m \in E
  <2>1. y = f[m] /\ m <= m /\ \A j \in E : j <= m => j <= m
    BY <1>2
  <2> QED BY <1>2, <2>1 DEF Latest
<1>3. CASE m \notin E
  <2>1. \A k \in E : k <= m <=> k <= n
    BY <1>1, <1>3
  <2>2. y = x
    BY <1>3
  <2> QED BY <2>1, <2>2 DEF Latest
<1> QED
  BY <1>2, <1>3

Named(l, T, name) == {i \in T : l[i].name = name}

(* Whoever was kicked in or after the last block of a mapping is on the    *)
(* banner, with that block or a later one.                                 *)
RemovedShown(rm, l, T, n) ==
    /\ \A a \in DOMAIN rm : rm[a] \in Nat
    /\ \A i \in Named(l, T, "MemberRemoved") :
         /\ i <= n
         /\ \A j \in Named(l, T, "MemberFileMappingUpdated") : j <= n => l[j].block <= l[i].block
         => l[i].who \in DOMAIN rm /\ l[i].block <= rm[l[i].who]

LEMMA RemovedUntouched ==
    ASSUME NEW rm, NEW l, NEW T, NEW n \in Nat, NEW m, m = n + 1, T \subseteq Nat,
           RemovedShown(rm, l, T, n),
           m \in T => l[m].name # "MemberRemoved"
    PROVE  RemovedShown(rm, l, T, m)
<1>1. \A k \in T : k <= n => k <= m
  OBVIOUS
<1>2. \A i \in Named(l, T, "MemberRemoved") : i <= m => i <= n
  <2>1. \A k \in T : k <= m /\ k # m => k <= n
    OBVIOUS
  <2> QED BY <2>1 DEF Named
<1>3. \A j \in Named(l, T, "MemberFileMappingUpdated") : j <= n => j <= m
  BY <1>1 DEF Named
<1> QED
  BY <1>2, <1>3 DEF RemovedShown

LEMMA RemovedKicked ==
    ASSUME NEW rm, NEW l, NEW T, NEW n \in Nat, NEW N, NEW F, NEW m, m = n + 1, Stretch(l, T, N, F),
           RemovedShown(rm, l, T, n), m \in T, l[m].name = "MemberRemoved"
    PROVE  RemovedShown(Put(rm, l[m].who, l[m].block), l, T, m)
<1> DEFINE b == l[m].who
           g == Put(rm, b, l[m].block)
<1>1. /\ DOMAIN g = DOMAIN rm \cup {b} /\ g[b] = l[m].block
      /\ \A a \in DOMAIN rm : a # b => g[a] = rm[a]
  BY DEF Put
<1>2. /\ T \subseteq Nat /\ \A i \in T : l[i].block \in Nat
      /\ \A i, j \in T : i < j => l[i].block <= l[j].block
  BY DEF Stretch
<1> HIDE DEF g
<1>3. \A a \in DOMAIN g : g[a] \in Nat
  BY <1>1, <1>2 DEF RemovedShown
<1> SUFFICES ASSUME NEW i \in Named(l, T, "MemberRemoved"), i <= m,
                    \A j \in Named(l, T, "MemberFileMappingUpdated") :
                       j <= m => l[j].block <= l[i].block
             PROVE  l[i].who \in DOMAIN g /\ l[i].block <= g[l[i].who]
  BY <1>3 DEF RemovedShown, g
<1>4. i \in T /\ i \in Nat /\ l[i].block \in Nat
  BY <1>2 DEF Named
<1>5. i < m => l[i].block <= l[m].block
  BY <1>2, <1>4
<1>6. l[i].who = b => l[i].block <= l[m].block
  BY <1>2, <1>4, <1>5
<1>7. CASE l[i].who = b
  BY <1>1, <1>6, <1>7
<1>8. CASE l[i].who # b
  <2>1. i <= n
    BY <1>4, <1>8
  <2>2. \A j \in Named(l, T, "MemberFileMappingUpdated") : j <= n => j <= m
    BY <1>2 DEF Named
  <2>3. l[i].who \in DOMAIN rm /\ l[i].block <= rm[l[i].who]
    BY <2>1, <2>2 DEF RemovedShown
  <2> QED BY <1>1, <1>8, <2>3
<1> QED
  BY <1>7, <1>8

LEMMA RemovedCleared ==
    ASSUME NEW rm, NEW l, NEW T, NEW n \in Nat, NEW N, NEW F, NEW m, m = n + 1, Stretch(l, T, N, F),
           RemovedShown(rm, l, T, n), m \in T, l[m].name = "MemberFileMappingUpdated"
    PROVE  RemovedShown(Drop(rm, {a \in DOMAIN rm : l[m].block > rm[a]}), l, T, m)
<1> DEFINE D == {a \in DOMAIN rm : l[m].block > rm[a]}
           g == Drop(rm, D)
<1>1. DOMAIN g = DOMAIN rm \ D /\ \A a \in DOMAIN g : g[a] = rm[a]
  BY DEF Drop
<1>2. /\ T \subseteq Nat /\ \A i \in T : l[i].block \in Nat
  BY DEF Stretch
<1> HIDE DEF g
<1>3. \A a \in DOMAIN g : g[a] \in Nat
  BY <1>1 DEF RemovedShown
<1> SUFFICES ASSUME NEW i \in Named(l, T, "MemberRemoved"), i <= m,
                    \A j \in Named(l, T, "MemberFileMappingUpdated") :
                       j <= m => l[j].block <= l[i].block
             PROVE  l[i].who \in DOMAIN g /\ l[i].block <= g[l[i].who]
  BY <1>3 DEF RemovedShown, g
<1>4. i \in T /\ i \in Nat /\ l[i].block \in Nat /\ l[i].name = "MemberRemoved"
  BY <1>2 DEF Named
<1>5. i <= n
  BY <1>4
<1>6. l[m].block <= l[i].block
  <2>1. m \in Named(l, T, "MemberFileMappingUpdated") /\ m <= m
    BY <1>2 DEF Named
  <2> QED BY <2>1
<1>7. \A j \in Named(l, T, "MemberFileMappingUpdated") : j <= n => j <= m
  BY <1>2 DEF Named
<1>8. l[i].who \in DOMAIN rm /\ l[i].block <= rm[l[i].who] /\ rm[l[i].who] \in Nat
  BY <1>5, <1>7 DEF RemovedShown
<1>9. l[i].who \notin D
  BY <1>2, <1>4, <1>6, <1>8
<1> QED
  BY <1>1, <1>8, <1>9

PageShown(v, l, T, n, N, F) ==
    /\ View(v)
    /\ PendingShown(v.pending, l, T, n, F)
    /\ MembersShown(v.members, l, T, n, N, F)
    /\ RemovedShown(v.removed, l, T, n)
    /\ Latest(v.epoch, 0, [i \in T |-> l[i].epoch], Named(l, T, "EpochRotated"), n)
    /\ Latest(v.treasury, Nobody, [i \in T |-> l[i].who], Named(l, T, "TreasurySet"), n)

LEMMA PageNext ==
    ASSUME NEW v, NEW l, NEW T, NEW n \in Nat, NEW N \in Nat, NEW F, Stretch(l, T, N, F),
           PageShown(v, l, T, n, N, F), NEW m, m = n + 1, NEW w,
           w = IF m \in T THEN Apply(v, l[m]) ELSE v
    PROVE  PageShown(w, l, T, m, N, F)
<1> DEFINE e == l[m]
<1>1. /\ View(v) /\ PendingShown(v.pending, l, T, n, F)
      /\ MembersShown(v.members, l, T, n, N, F)
      /\ RemovedShown(v.removed, l, T, n)
      /\ Latest(v.epoch, 0, [i \in T |-> l[i].epoch], Named(l, T, "EpochRotated"), n)
      /\ Latest(v.treasury, Nobody, [i \in T |-> l[i].who], Named(l, T, "TreasurySet"), n)
  BY DEF PageShown
<1>2. /\ T \subseteq Nat
      /\ \A i \in T : l[i].name \in SwarmEvents
  BY DEF Stretch
<1>3. m \in T =>
        /\ View(w) /\ w.members = MembersAfter(v, e) /\ w.pending = PendingAfter(v, e)
        /\ w.removed = RemovedAfter(v, e)
        /\ w.treasury = (IF e.name = "TreasurySet" THEN e.who ELSE v.treasury)
        /\ w.epoch = (IF e.name = "EpochRotated" THEN e.epoch ELSE v.epoch)
  <2> SUFFICES ASSUME m \in T
               PROVE  /\ View(w) /\ w.members = MembersAfter(v, e) /\ w.pending = PendingAfter(v, e)
                      /\ w.removed = RemovedAfter(v, e)
                      /\ w.treasury = (IF e.name = "TreasurySet" THEN e.who ELSE v.treasury)
                      /\ w.epoch = (IF e.name = "EpochRotated" THEN e.epoch ELSE v.epoch)
    OBVIOUS
  <2>1. e.name \in SwarmEvents \cup TreasuryEvents /\ w = Apply(v, e)
    BY <1>2
  <2> HIDE DEF e
  <2> QED BY <1>1, <2>1, Applied
<1>4. m \notin T => w = v
  OBVIOUS
<1> HIDE DEF e
<1>0. "JoinApproved" \in Closing /\ "JoinRejected" \in Closing /\ "JoinCancelled" \in Closing
      /\ Closing = {"JoinApproved", "JoinRejected", "JoinCancelled"}
      /\ RosterEvents = {"JoinApproved", "MemberRemoved"}
  BY DEF Closing, RosterEvents
<1>5. PendingShown(w.pending, l, T, m, F)
  <2>1. CASE ~(m \in T /\ e.name \in Closing \cup {"JoinRequested"})
    <3>1. w.pending = v.pending
      BY <1>0, <1>3, <1>4, <2>1 DEF PendingAfter
    <3>2. n + 1 \in T => l[n+1].name \notin Closing \cup {"JoinRequested"}
      BY <2>1 DEF e
    <3> QED BY <1>1, <1>2, <3>1, <3>2, PendingUntouched
  <2>2. CASE m \in T /\ e.name = "JoinRequested"
    <3>1. w.pending = Put(v.pending, e.id, PendingRow(e))
      BY <1>3, <2>2 DEF PendingAfter
    <3>2. n + 1 \in T /\ l[n+1].name = "JoinRequested"
      BY <2>2 DEF e
    <3> QED BY <1>1, <3>1, <3>2, PendingAsked DEF e
  <2>3. CASE m \in T /\ e.name \in Closing
    <3> DEFINE D == IF e.name = "JoinApproved" THEN Taken(v, e.who) ELSE AskedBy(v, e.who)
    <3>1. w.pending = Drop(v.pending, D)
      BY <1>0, <1>3, <2>3 DEF PendingAfter
    <3>2. n + 1 \in T /\ l[n+1].name \in Closing /\ e = l[n+1]
      BY <2>3 DEF e
    <3>3. e.who \in F => AskedBy(v, e.who) \subseteq {e.id} /\ e.id \in Nat
      <4>1. e.id \in Nat
        BY <2>3 DEF Stretch, e
      <4> QED BY <1>1, <3>2, <4>1, OnlyOneAsked
    <3>4. AskedBy(v, e.who) \subseteq Nat
      <4>1. \A id \in DOMAIN v.pending : id \in Nat
        <5> SUFFICES ASSUME NEW id \in DOMAIN v.pending
                     PROVE  id \in Nat
          OBVIOUS
        <5>1. PICK i \in Asking(l, T, n) : l[i].id = id
          BY <1>1 DEF PendingShown
        <5> QED BY <5>1 DEF Asking, Stretch
      <4> QED BY <4>1 DEF AskedBy
    <3>5. Taken(v, e.who) \subseteq AskedBy(v, e.who)
      <4> DEFINE A == AskedBy(v, e.who)
      <4>1. A # {} => Min(A) \in A
        <5> SUFFICES ASSUME A # {}
                     PROVE  Min(A) \in A
          OBVIOUS
        <5>1. \E x \in A : \A y \in A : x <= y
          BY <3>4, SmallestNumber
        <5> QED BY <5>1 DEF Min
      <4> QED BY <4>1 DEF Taken
    <3>6. e.who \in F => Taken(v, e.who) = AskedBy(v, e.who)
      <4> DEFINE A == AskedBy(v, e.who)
      <4>1. CASE A = {}
        BY <4>1 DEF Taken
      <4>2. CASE A # {}
        BY <3>3, <3>5, <4>2 DEF Taken
      <4> QED BY <4>1, <4>2
    <3>7. D \subseteq AskedBy(v, e.who) /\ (e.who \in F => D = AskedBy(v, e.who))
      BY <3>5, <3>6
    <3> HIDE DEF D
    <3> QED BY <1>1, <3>1, <3>2, <3>7, PendingDropped
  <2> QED BY <2>1, <2>2, <2>3
<1>6. MembersShown(w.members, l, T, m, N, F)
  <2>1. CASE ~(m \in T /\ e.name \in RosterEvents)
    <3>1. w.members = v.members
      BY <1>0, <1>3, <1>4, <2>1 DEF MembersAfter
    <3> QED BY <1>1, <1>2, <2>1, <3>1, MembersUntouched DEF e
  <2>2. CASE m \in T /\ e.name = "JoinApproved"
    <3>1. w.members = Put(v.members, e.who, MemberRow(v, e))
      BY <1>3, <2>2 DEF MembersAfter
    <3>2. MemberRow(v, e).joinedEpoch = e.epoch
      BY DEF MemberRow
    <3>3. e.who \in F => MemberRow(v, e).key = KeyOf(l, T, N, m)
      <4> SUFFICES ASSUME e.who \in F
                   PROVE  MemberRow(v, e).key = KeyOf(l, T, N, m)
        OBVIOUS
      <4>1. /\ n + 1 \in T /\ l[n+1].name = "JoinApproved" /\ e = l[n+1] /\ l[n+1].who \in F
            /\ PendingShown(v.pending, l, T, n, F)
        BY <1>1, <2>2 DEF e
      <4>2. KeyShown(v, l, T, N, n + 1)
        BY ONLY <4>1, n \in Nat, N \in Nat, Stretch(l, T, N, F), ApprovedKey
      <4> QED BY ONLY <4>1, <4>2, m = n + 1 DEF KeyShown
    <3> DEFINE row == MemberRow(v, e)
               f   == v.members
    <3>4. /\ m \in T /\ l[m].name = "JoinApproved" /\ row.joinedEpoch = l[m].epoch
          /\ l[m].who \in F => row.key = KeyOf(l, T, N, m)
      BY <2>2, <3>2, <3>3 DEF e
    <3>5. w.members = Put(f, l[m].who, row)
      BY <3>1 DEF e
    <3>6. MembersShown(f, l, T, n, N, F) /\ T \subseteq Nat
      BY <1>1, <1>2
    <3> HIDE DEF row, f
    <3>7. MembersShown(Put(f, l[m].who, row), l, T, m, N, F)
      BY <3>4, <3>6, MembersAdded
    <3> QED BY <3>5, <3>7
  <2>3. CASE m \in T /\ e.name = "MemberRemoved"
    <3>1. w.members = Drop(v.members, {e.who})
      BY <1>3, <2>3 DEF MembersAfter
    <3> DEFINE f == v.members
    <3>2. m \in T /\ l[m].name = "MemberRemoved" /\ w.members = Drop(f, {l[m].who})
      BY <2>3, <3>1 DEF e
    <3>3. MembersShown(f, l, T, n, N, F) /\ T \subseteq Nat
      BY <1>1, <1>2
    <3> HIDE DEF f
    <3>4. MembersShown(Drop(f, {l[m].who}), l, T, m, N, F)
      BY <3>2, <3>3, MembersDropped
    <3> QED BY <3>2, <3>4
  <2> QED BY <1>0, <2>1, <2>2, <2>3
<1>7. RemovedShown(w.removed, l, T, m)
  <2>1. CASE ~(m \in T /\ e.name \in {"MemberRemoved", "MemberFileMappingUpdated"})
    <3>1. w.removed = v.removed
      BY <1>3, <1>4, <2>1 DEF RemovedAfter
    <3> QED BY <1>1, <1>2, <2>1, <3>1, RemovedUntouched DEF e
  <2>2. CASE m \in T /\ e.name = "MemberRemoved"
    <3>1. w.removed = Put(v.removed, e.who, e.block)
      BY <1>3, <2>2 DEF RemovedAfter
    <3> QED BY <1>1, <2>2, <3>1, RemovedKicked DEF e
  <2>3. CASE m \in T /\ e.name = "MemberFileMappingUpdated"
    <3>1. w.removed = Drop(v.removed, {a \in DOMAIN v.removed : e.block > v.removed[a]})
      BY <1>3, <2>3 DEF RemovedAfter
    <3> QED BY <1>1, <2>3, <3>1, RemovedCleared DEF e
  <2> QED BY <2>1, <2>2, <2>3
<1>8. Latest(w.epoch, 0, [i \in T |-> l[i].epoch], Named(l, T, "EpochRotated"), m)
  <2> DEFINE f == [i \in T |-> l[i].epoch]
             E == Named(l, T, "EpochRotated")
  <2>1. w.epoch = IF m \in E THEN f[m] ELSE v.epoch
    BY <1>3, <1>4 DEF Named, e
  <2>2. E \subseteq Nat
    BY <1>2 DEF Named
  <2> HIDE DEF f, E
  <2>3. Latest(v.epoch, 0, f, E, n)
    BY <1>1 DEF f, E
  <2>4. Latest(w.epoch, 0, f, E, m)
    BY <2>1, <2>2, <2>3, LatestNext
  <2> QED BY <2>4 DEF f, E
<1>9. Latest(w.treasury, Nobody, [i \in T |-> l[i].who], Named(l, T, "TreasurySet"), m)
  <2> DEFINE f == [i \in T |-> l[i].who]
             E == Named(l, T, "TreasurySet")
  <2>1. w.treasury = IF m \in E THEN f[m] ELSE v.treasury
    BY <1>3, <1>4 DEF Named, e
  <2>2. E \subseteq Nat
    BY <1>2 DEF Named
  <2> HIDE DEF f, E
  <2>3. Latest(v.treasury, Nobody, f, E, n)
    BY <1>1 DEF f, E
  <2>4. Latest(w.treasury, Nobody, f, E, m)
    BY <2>1, <2>2, <2>3, LatestNext
  <2> QED BY <2>4 DEF f, E
<1> QED
  BY <1>1, <1>3, <1>4, <1>5, <1>6, <1>7, <1>8, <1>9 DEF PageShown

LEMMA EmptyPage ==
    ASSUME NEW l, NEW T, T \subseteq Nat, 0 \notin T, NEW N, NEW F
    PROVE  PageShown(EmptyView, l, T, 0, N, F)
<1>1. \A i \in T : ~(i <= 0)
  OBVIOUS
<1>2. /\ View(EmptyView) /\ DOMAIN EmptyView.pending = {} /\ DOMAIN EmptyView.members = {}
      /\ DOMAIN EmptyView.removed = {} /\ EmptyView.epoch = 0 /\ EmptyView.treasury = Nobody
  BY DEF View, EmptyView, NoFields
<1>3. Asking(l, T, 0) = {} /\ \A name : \A i \in Named(l, T, name) : ~(i <= 0)
  BY <1>1 DEF Asking, Named
<1>4. PendingShown(EmptyView.pending, l, T, 0, F)
  BY <1>2, <1>3 DEF PendingShown
<1>5. \A a : \A i \in T : ~LastWord(l, T, 0, a, i)
  BY <1>1 DEF LastWord
<1>6. MembersShown(EmptyView.members, l, T, 0, N, F)
  BY <1>2, <1>5 DEF MembersShown
<1>7. RemovedShown(EmptyView.removed, l, T, 0)
  BY <1>2, <1>3 DEF RemovedShown
<1>8. \A f, name : /\ Latest(0, 0, f, Named(l, T, name), 0)
                   /\ Latest(Nobody, Nobody, f, Named(l, T, name), 0)
  BY <1>3 DEF Latest
<1> QED
  BY <1>2, <1>4, <1>6, <1>7, <1>8 DEF PageShown

(* The whole reduction of the stretch at these places.                     *)
LEMMA PageFolded ==
    ASSUME ViewsTypeOK, NEW T, NEW F, Stretch(log, T, Len(log), F)
    PROVE  PageShown(ReduceSwarmState(T), log, T, Len(log), Len(log), F)
<1>1. Len(log) \in Nat /\ T \subseteq 1..Len(log) /\ T \subseteq Nat /\ 0 \notin T
  BY DEF Stretch
<1>2. PICK v : Folds(v, T, Len(log)) /\ ReduceSwarmState(T) = v[Len(log)]
  BY <1>1, Fold
<1> DEFINE S == {n \in 0..Len(log) : PageShown(v[n], log, T, n, Len(log), F)}
<1>3. 0 \in S
  <2>1. v[0] = EmptyView /\ PageShown(EmptyView, log, T, 0, Len(log), F)
    BY <1>1, <1>2, EmptyPage DEF Folds
  <2> QED BY <1>1, <2>1
<1>4. ASSUME NEW n \in 0..Len(log), n \in S, n < Len(log)
      PROVE  n + 1 \in S
  <2>1. /\ n + 1 \in 1..Len(log) /\ n + 1 \in 0..Len(log) /\ (n + 1) - 1 = n /\ n \in Nat
        /\ PageShown(v[n], log, T, n, Len(log), F)
    BY <1>1, <1>4
  <2> DEFINE m == n + 1
  <2>2. v[m] = IF m \in T THEN Apply(v[n], log[m]) ELSE v[n]
    BY <1>2, <2>1 DEF Folds
  <2>3. m = n + 1
    OBVIOUS
  <2> HIDE DEF m
  <2>4. PageShown(v[m], log, T, m, Len(log), F)
    BY <1>1, <2>1, <2>2, <2>3, PageNext
  <2> QED BY <2>1, <2>3, <2>4
<1>5. Len(log) \in S
  <2> HIDE DEF S
  <2>1. \A n \in 0..Len(log) : n \in S
    BY <1>1, <1>3, <1>4, UpTo
  <2> QED BY <1>1, <2>1
<1> QED
  BY <1>2, <1>5

(* What a page reads of a swarm: its events from a block on.               *)
Part(s, from) == {i \in DOMAIN log : log[i].source = s /\ log[i].block >= from}
Free(s) == {a \in Account : ~Overlapping(s, a)}

LEMMA PartFacts ==
    ASSUME LogInv, NEW s \in Swarm, NEW from \in Nat
    PROVE  /\ Part(s, from) \subseteq 1..Len(log)
           /\ \A i \in Part(s, from) : /\ i \in DOMAIN log /\ i \in Nat /\ log[i] \in Logged
                                       /\ log[i].block \in Nat /\ log[i].id \in Nat
                                       /\ log[i].name \in SwarmEvents
           /\ \A i \in Part(s, from) : \A j \in DOMAIN log :
                log[j].source = s /\ i < j => j \in Part(s, from)
           /\ \A i, j \in Part(s, from) : i < j => log[i].block <= log[j].block
<1>1. /\ Len(log) \in Nat /\ DOMAIN log = 1..Len(log) /\ LogOrdered(log)
      /\ \A i \in DOMAIN log : log[i] \in Logged /\ log[i].block \in Nat
  BY LogFacts DEF LogInv
<1>2. \A i \in Part(s, from) : log[i].id \in Nat /\ log[i].name \in SwarmEvents
  <2> SUFFICES ASSUME NEW i \in Part(s, from)
               PROVE  log[i].id \in Nat /\ log[i].name \in SwarmEvents
    OBVIOUS
  <2>1. log[i] \in Logged /\ log[i].source \in Swarm
    BY <1>1 DEF Part
  <2>2. log[i] \in Records(SwarmEvents, Swarm)
    BY <2>1, SourcesApart
  <2> QED BY <2>2 DEF Records
<1>3. \A i \in Part(s, from) : \A j \in DOMAIN log :
        log[j].source = s /\ i < j => j \in Part(s, from)
  BY <1>1 DEF Part, LogOrdered
<1> QED
  BY <1>1, <1>2, <1>3 DEF Part, LogOrdered

(* A request has one place in the log, and so has its closing, after it.   *)
LEMMA JoinPlaces ==
    ASSUME LogInv, NEW s \in Swarm
    PROVE  /\ \A i, j \in Emitted(log, s, {"JoinRequested"}) : log[i].id = log[j].id => i = j
           /\ \A j, k \in Emitted(log, s, Closing) : log[j].id = log[k].id => j = k
           /\ \A i \in Emitted(log, s, {"JoinRequested"}), k \in Emitted(log, s, Closing) :
                log[i].id = log[k].id => i < k /\ log[i].who = log[k].who
           /\ \A k \in Emitted(log, s, Closing) : \E i \in Emitted(log, s, {"JoinRequested"}) :
                log[i].id = log[k].id
<1>1. /\ DOMAIN log \subseteq Nat /\ JoinsLogged(swarm[s].joins, log, s)
      /\ ClosingsLogged(swarm[s].joins, log, s)
      /\ \A i \in DOMAIN log : log[i].id \in Nat
  <2>1. \A e \in Logged : e.id \in Nat
    BY DEF Logged, Records
  <2> QED BY <2>1, LogFacts DEF LogInv, SwarmLogged
<1>2. \A i, j \in Emitted(log, s, {"JoinRequested"}) : log[i].id = log[j].id => i = j
  <2> SUFFICES ASSUME NEW i \in Emitted(log, s, {"JoinRequested"}),
                      NEW j \in Emitted(log, s, {"JoinRequested"}), log[i].id = log[j].id
               PROVE  i = j
    OBVIOUS
  <2>1. i \in Nat /\ j \in Nat /\ log[i].id \in Nat /\ log[j].id \in Nat
    BY <1>1 DEF Emitted
  <2>2. ~(log[i].id < log[j].id) /\ ~(log[j].id < log[i].id)
    BY <2>1
  <2>3. ~(i < j) /\ ~(j < i)
    BY <1>1, <2>2 DEF JoinsLogged
  <2> QED BY <2>1, <2>3
<1>3. \A j, k \in Emitted(log, s, Closing) : log[j].id = log[k].id => j = k
  BY <1>1 DEF ClosingsLogged
<1>4. \A k \in Emitted(log, s, Closing) : \E i \in Emitted(log, s, {"JoinRequested"}) :
         i < k /\ log[i].id = log[k].id
  BY <1>1 DEF ClosingsLogged
<1>5. \A i \in Emitted(log, s, {"JoinRequested"}), k \in Emitted(log, s, Closing) :
         log[i].id = log[k].id => log[i].who = log[k].who
  BY <1>1 DEF ClosingsLogged, JoinsLogged
<1> QED
  BY <1>2, <1>3, <1>4, <1>5

(* Of an account that is free of overlaps, an earlier request has been     *)
(* closed before another of its requests is closed.                        *)
LEMMA ClosedInTurn ==
    ASSUME LogInv, NEW s \in Swarm,
           NEW i \in Emitted(log, s, {"JoinRequested"}), NEW k \in Emitted(log, s, Closing),
           i < k, log[i].who = log[k].who, ~Overlapping(s, log[i].who), log[i].id # log[k].id
    PROVE  \E j \in Emitted(log, s, Closing) : j < k /\ log[j].id = log[i].id
<1>1. PICK q \in Emitted(log, s, {"JoinRequested"}) : log[q].id = log[k].id
  BY JoinPlaces
<1>2. q < k /\ i \in Nat /\ q \in Nat /\ k \in Nat /\ log[q].who = log[i].who
  BY <1>1, JoinPlaces, LogFacts DEF LogInv, Emitted
<1> DEFINE a == log[i].who
           x == log[i].id
           y == log[k].id
<1>3. /\ x \in DOMAIN swarm[s].joins /\ swarm[s].joins[x].requester = a
      /\ y \in DOMAIN swarm[s].joins /\ swarm[s].joins[y].requester = a
      /\ x \in Nat /\ y \in Nat
  <2>1. JoinsLogged(swarm[s].joins, log, s) /\ ClosingsLogged(swarm[s].joins, log, s)
    BY DEF LogInv, SwarmLogged
  <2>2. \A e \in Logged : e.id \in Nat
    BY DEF Logged, Records
  <2>3. log[i] \in Logged /\ log[k] \in Logged
    BY LogFacts DEF LogInv, Emitted
  <2> QED BY <2>1, <2>2, <2>3 DEF JoinsLogged, ClosingsLogged
<1>4. \A id, later \in DOMAIN swarm[s].joins :
        /\ swarm[s].joins[id].requester = a /\ swarm[s].joins[later].requester = a
        /\ id < later
        => \E p \in Place(s, id, Closing), r \in Place(s, later, {"JoinRequested"}) : ~(r < p)
  BY DEF Overlapping
<1>5. \A id : \A names : \A p \in Place(s, id, names) : p \in Emitted(log, s, names)
        /\ log[p].id = id
  BY DEF Place, Emitted
<1>6. \A p \in Emitted(log, s, Closing) \cup Emitted(log, s, {"JoinRequested"}) : p \in Nat
  BY LogFacts DEF LogInv, Emitted
<1>7. CASE x < y
  <2>1. PICK p \in Place(s, x, Closing), r \in Place(s, y, {"JoinRequested"}) : ~(r < p)
    BY <1>3, <1>4, <1>7
  <2>2. /\ p \in Emitted(log, s, Closing) /\ log[p].id = x /\ p \in Nat
        /\ r \in Emitted(log, s, {"JoinRequested"}) /\ log[r].id = y /\ r \in Nat
    BY <1>5, <1>6
  <2>3. r = q
    BY <1>1, <2>2, JoinPlaces
  <2> QED BY <1>2, <2>1, <2>2, <2>3
<1>8. CASE y < x
  <2>1. PICK p \in Place(s, y, Closing), r \in Place(s, x, {"JoinRequested"}) : ~(r < p)
    BY <1>3, <1>4, <1>8
  <2>2. /\ p \in Emitted(log, s, Closing) /\ log[p].id = y /\ p \in Nat
        /\ r \in Emitted(log, s, {"JoinRequested"}) /\ log[r].id = x /\ r \in Nat
    BY <1>5, <1>6
  <2>3. p = k /\ r = i
    BY <2>2, JoinPlaces
  <2> QED BY <1>2, <2>1, <2>3
<1> QED
  BY <1>3, <1>7, <1>8

LEMMA PartIsStretch ==
    ASSUME LogInv, NEW s \in Swarm, NEW from \in Nat
    PROVE  Stretch(log, Part(s, from), Len(log), Free(s))
<1> DEFINE T == Part(s, from)
           N == Len(log)
<1>1. /\ \A i \in Asking(log, T, N) : i \in T /\ i \in Emitted(log, s, {"JoinRequested"})
      /\ \A k \in Closers(log, T, N) : k \in T /\ k \in Emitted(log, s, Closing)
  BY DEF Asking, Closers, Part, Emitted
<1>2. /\ T \subseteq 1..N /\ N \in Nat
      /\ \A i \in T : i \in Nat /\ log[i].block \in Nat /\ log[i].id \in Nat
                      /\ log[i].name \in SwarmEvents
      /\ \A i, j \in T : i < j => log[i].block <= log[j].block
  BY PartFacts, LogFacts DEF LogInv
<1>3. \A i \in Asking(log, T, N) : log[i].key = log[i].id
  BY <1>1 DEF LogInv, SwarmLogged, JoinsLogged
<1>4. \A i \in Asking(log, T, N), k \in Closers(log, T, N) :
         i < k /\ log[i].who = log[k].who /\ log[i].who \in Free(s) /\ log[i].id # log[k].id =>
           \E j \in Closers(log, T, N) : j < k /\ log[j].id = log[i].id
  <2> SUFFICES ASSUME NEW i \in Asking(log, T, N), NEW k \in Closers(log, T, N),
                      i < k, log[i].who = log[k].who, log[i].who \in Free(s),
                      log[i].id # log[k].id
               PROVE  \E j \in Closers(log, T, N) : j < k /\ log[j].id = log[i].id
    OBVIOUS
  <2>1. i \in Emitted(log, s, {"JoinRequested"}) /\ k \in Emitted(log, s, Closing) /\ i \in T
    BY <1>1
  <2>2. PICK j \in Emitted(log, s, Closing) : j < k /\ log[j].id = log[i].id
    BY <2>1, ClosedInTurn DEF Free
  <2>3. i < j
    BY <2>1, <2>2, JoinPlaces
  <2>4. j \in DOMAIN log /\ log[j].source = s /\ log[j].name \in Closing
    BY DEF Emitted
  <2>5. j \in T
    BY <2>1, <2>3, <2>4, PartFacts
  <2>6. j <= N
    BY <1>2, <2>5
  <2>7. j \in Closers(log, T, N)
    BY <2>4, <2>5, <2>6 DEF Closers
  <2> QED BY <2>2, <2>7
<1>5. /\ \A i, j \in Asking(log, T, N) : log[i].id = log[j].id => i = j
      /\ \A j, k \in Closers(log, T, N) : log[j].id = log[k].id => j = k
      /\ \A i \in Asking(log, T, N), k \in Closers(log, T, N) :
           log[i].id = log[k].id => i < k /\ log[i].who = log[k].who
  BY <1>1, JoinPlaces
<1> HIDE DEF T, N
<1>6. Stretch(log, T, N, Free(s))
  BY <1>2, <1>3, <1>4, <1>5 DEF Stretch
<1> QED
  BY <1>6 DEF T, N

LEMMA JoinRequester ==
    ASSUME ViewsTypeOK, NEW s \in Swarm, NEW id \in DOMAIN swarm[s].joins
    PROVE  swarm[s].joins[id].requester \in Account
<1> DEFINE q == swarm[s].joins
<1>1. swarm[s] \in Storage
  BY DEF ViewsTypeOK
<1>2. q \in Joins
  BY <1>1 DEF Storage, Joins
<1> DEFINE R == [requester : Account, status : Status]
<1> HIDE DEF q
<1>3. \A x \in DOMAIN q : q[x] \in R
  <2>1. q \in Seq(R)
    BY <1>2 DEF Joins
  <2> HIDE DEF R
  <2> QED BY <2>1, LenProperties
<1> QED
  BY <1>3 DEF q

(* The page of a swarm from a block on, and what is to be true of it.      *)
ShownPage(view, s, from) ==
    PageShown(view, log, Part(s, from), Len(log), Len(log), Free(s))

LEMMA PageMember ==
    ASSUME LogInv, NEW s \in Swarm, NEW from \in Nat, NEW view, ShownPage(view, s, from),
           NEW a \in DOMAIN view.members
    PROVE  /\ a \in Account /\ swarm[s].members[a].active
           /\ view.members[a].joinedEpoch = swarm[s].members[a].joinedEpoch
           /\ ~Overlapping(s, a) =>
                view.members[a].key \in {swarm[s].members[a].key}
                                        \cup (IF from = 0 THEN {} ELSE {0})
<1> DEFINE T == Part(s, from)
           N == Len(log)
<1>1. PICK i \in T :
        /\ LastWord(log, T, N, a, i) /\ log[i].name = "JoinApproved"
        /\ view.members[a].joinedEpoch = log[i].epoch
        /\ a \in Free(s) => view.members[a].key = KeyOf(log, T, N, i)
  BY DEF ShownPage, PageShown, MembersShown
<1>2. i \in DOMAIN log /\ i \in Nat /\ log[i].source = s
  BY PartFacts DEF Part
<1>3. log[i].who = a /\ i \in Emitted(log, s, {"JoinApproved"}) /\ i \in Emitted(log, s, Closing)
  BY <1>1, <1>2 DEF LastWord, Emitted, Closing
<1>4. \A j \in Emitted(log, s, RosterEvents) : log[j].who = a => j <= i
  <2> SUFFICES ASSUME NEW j \in Emitted(log, s, RosterEvents), log[j].who = a, i < j
               PROVE  FALSE
    <3>1. Emitted(log, s, RosterEvents) \subseteq Nat
      BY LogFacts DEF LogInv, Emitted
    <3> QED BY <1>2, <3>1
  <2>1. j \in DOMAIN log /\ log[j].source = s /\ log[j].name \in RosterEvents
    BY DEF Emitted
  <2>2. j \in T /\ j \in Nat /\ j <= N
    BY <2>1, PartFacts, LogFacts DEF LogInv
  <2>3. j <= i
    BY <1>1, <2>1, <2>2 DEF LastWord
  <2> QED BY <1>2, <2>2, <2>3
<1>5. Standing(log, s, a, i)
  BY <1>3, <1>4 DEF Standing
<1>6. a \in Account
  <2>1. /\ log[i].id \in DOMAIN swarm[s].joins
        /\ a = swarm[s].joins[log[i].id].requester
    BY <1>3 DEF LogInv, SwarmLogged, ClosingsLogged
  <2> QED BY <2>1, JoinRequester DEF LogInv
<1>7. /\ swarm[s].members[a].active /\ swarm[s].members[a].joinedEpoch = log[i].epoch
      /\ swarm[s].members[a].key = log[i].id
  BY <1>2, <1>5, <1>6 DEF LogInv, SwarmLogged, MembersLogged
<1>8. ASSUME ~Overlapping(s, a)
      PROVE  view.members[a].key \in {swarm[s].members[a].key} \cup (IF from = 0 THEN {} ELSE {0})
  <2>1. view.members[a].key = KeyOf(log, T, N, i)
    BY <1>1, <1>6, <1>8 DEF Free
  <2>2. CASE from # 0
    BY <1>7, <2>1, <2>2 DEF KeyOf
  <2>3. CASE from = 0
    <3>1. PICK q \in Emitted(log, s, {"JoinRequested"}) : log[q].id = log[i].id
      BY <1>3, JoinPlaces
    <3>2. q \in DOMAIN log /\ log[q].source = s /\ log[q].name = "JoinRequested"
      BY DEF Emitted
    <3>3. q \in T /\ q <= N
      BY <2>3, <3>2, LogFacts DEF LogInv, Part
    <3>4. KeyOf(log, T, N, i) = log[i].id
      BY <3>1, <3>2, <3>3 DEF KeyOf, Asking
    <3> QED BY <1>7, <2>1, <3>4
  <2> QED BY <2>2, <2>3
<1> QED
  BY <1>1, <1>6, <1>7, <1>8

LEMMA PageMembersAll ==
    ASSUME LogInv, NEW s \in Swarm, NEW view, ShownPage(view, s, 0),
           NEW a \in Account, swarm[s].members[a].active
    PROVE  a \in DOMAIN view.members
<1> DEFINE T == Part(s, 0)
           N == Len(log)
<1>1. PICK i \in DOMAIN log : Standing(log, s, a, i)
  BY DEF LogInv, SwarmLogged, MembersLogged
<1>2. /\ log[i].source = s /\ log[i].name = "JoinApproved" /\ log[i].who = a
      /\ \A j \in Emitted(log, s, RosterEvents) : log[j].who = a => j <= i
  BY <1>1 DEF Standing, Emitted
<1>3. i \in T /\ i <= N /\ \A j \in T : j \in DOMAIN log /\ log[j].source = s
  BY <1>2, LogFacts DEF LogInv, Part
<1>4. LastWord(log, T, N, a, i)
  BY <1>2, <1>3 DEF LastWord, Emitted, RosterEvents
<1>5. a = log[i].who
  BY <1>2
<1> QED
  BY <1>2, <1>3, <1>4, <1>5 DEF ShownPage, PageShown, MembersShown

LEMMA PagePending ==
    ASSUME LogInv, NEW s \in Swarm, NEW from \in Nat, NEW view, ShownPage(view, s, from)
    PROVE  \A id : id \in DOMAIN view.pending /\ ~Overlapping(s, view.pending[id].requester)
             <=> /\ id \in DOMAIN swarm[s].joins
                 /\ ~Overlapping(s, swarm[s].joins[id].requester)
                 /\ swarm[s].joins[id].status = "pending"
                 /\ \A i \in Place(s, id, {"JoinRequested"}) : log[i].block >= from
<1> DEFINE T == Part(s, from)
           N == Len(log)
           q == swarm[s].joins
<1>0. /\ JoinsLogged(q, log, s) /\ ClosingsLogged(q, log, s)
      /\ \A id \in DOMAIN q : q[id].requester \in Account
  BY JoinRequester DEF LogInv, SwarmLogged
<1>1. PendingShown(view.pending, log, T, N, Free(s))
  BY DEF ShownPage, PageShown
<1>2. /\ \A i \in Asking(log, T, N) : i \in T /\ i \in Emitted(log, s, {"JoinRequested"})
      /\ \A k \in Closers(log, T, N) : k \in T /\ k \in Emitted(log, s, Closing)
      /\ \A i \in T : i \in DOMAIN log /\ log[i].source = s /\ log[i].block >= from /\ i <= N
  BY LogFacts DEF LogInv, Asking, Closers, Part, Emitted
<1>3. ASSUME NEW id \in DOMAIN view.pending, ~Overlapping(s, view.pending[id].requester)
      PROVE  /\ id \in DOMAIN q /\ ~Overlapping(s, q[id].requester)
             /\ q[id].status = "pending"
             /\ \A i \in Place(s, id, {"JoinRequested"}) : log[i].block >= from
  <2>1. PICK i \in Asking(log, T, N) :
          /\ log[i].id = id /\ view.pending[id] = PendingRow(log[i])
          /\ log[i].who \in Free(s) => Open(log, T, N, i)
    BY <1>1 DEF PendingShown
  <2>2. /\ i \in Emitted(log, s, {"JoinRequested"}) /\ id \in DOMAIN q
        /\ log[i].who = q[id].requester /\ view.pending[id].requester = log[i].who
    BY <1>0, <1>2, <2>1 DEF JoinsLogged, PendingRow
  <2>3. Open(log, T, N, i)
    BY <1>0, <1>3, <2>1, <2>2 DEF Free
  <2>4. q[id].status = "pending"
    <3> SUFFICES ASSUME q[id].status # "pending"
                 PROVE  FALSE
      OBVIOUS
    <3>1. PICK k \in Emitted(log, s, Closing) : log[k].id = id
      BY <1>0, <2>2 DEF ClosingsLogged
    <3>2. i < k
      BY <2>1, <2>2, <3>1, JoinPlaces
    <3>3. k \in DOMAIN log /\ log[k].source = s /\ log[k].name \in Closing
      BY DEF Emitted
    <3>4. k \in T
      BY <1>2, <3>2, <3>3, PartFacts
    <3>5. k \in Closers(log, T, N)
      BY <1>2, <3>3, <3>4 DEF Closers
    <3> QED BY <2>1, <2>3, <3>1, <3>5 DEF Open
  <2>5. \A j \in Place(s, id, {"JoinRequested"}) : j = i
    <3>1. \A j \in Place(s, id, {"JoinRequested"}) :
            j \in Emitted(log, s, {"JoinRequested"}) /\ log[j].id = id
      BY DEF Place, Emitted
    <3> QED BY <2>1, <2>2, <3>1, JoinPlaces
  <2> QED BY <1>2, <1>3, <2>2, <2>4, <2>5
<1>4. ASSUME NEW id \in DOMAIN q, ~Overlapping(s, q[id].requester), q[id].status = "pending",
             \A i \in Place(s, id, {"JoinRequested"}) : log[i].block >= from
      PROVE  id \in DOMAIN view.pending /\ ~Overlapping(s, view.pending[id].requester)
  <2>1. PICK i \in Emitted(log, s, {"JoinRequested"}) : log[i].id = id
    BY <1>0 DEF JoinsLogged
  <2>2. /\ i \in DOMAIN log /\ log[i].source = s /\ log[i].name = "JoinRequested"
        /\ log[i].who = q[id].requester
    BY <1>0, <2>1 DEF JoinsLogged, Emitted
  <2>3. log[i].block >= from
    BY <1>4, <2>1, <2>2 DEF Place
  <2>4. i \in Asking(log, T, N)
    BY <2>2, <2>3, LogFacts DEF LogInv, Asking, Part
  <2>5. Open(log, T, N, i)
    BY <1>0, <1>2, <1>4, <2>1 DEF Open, ClosingsLogged
  <2>6. log[i].who \in Free(s)
    BY <1>0, <1>4, <2>2 DEF Free
  <2>7. id \in DOMAIN view.pending
    BY <1>1, <2>1, <2>4, <2>5, <2>6 DEF PendingShown
  <2>8. PICK j \in Asking(log, T, N) :
          log[j].id = id /\ view.pending[id] = PendingRow(log[j])
    BY <1>1, <2>7 DEF PendingShown
  <2>9. j = i
    BY <1>2, <2>1, <2>8, JoinPlaces
  <2>10. view.pending[id].requester = q[id].requester
    BY <2>2, <2>8, <2>9 DEF PendingRow
  <2> QED BY <1>4, <2>7, <2>10
<1> QED
  BY <1>3, <1>4

(* The last event of a kind in the page is the last of the swarm.          *)
LatestOf(x, none, f, s, from, name) ==
    \/ x = none /\ (from = 0 => Emitted(log, s, {name}) = {})
    \/ \E i \in Emitted(log, s, {name}) :
         i \in Part(s, from) /\ x = f[i] /\ \A j \in Emitted(log, s, {name}) : j <= i

LEMMA PageLatest ==
    ASSUME LogInv, NEW s \in Swarm, NEW from \in Nat, NEW name, NEW x, NEW none, NEW f,
           Latest(x, none, f, Named(log, Part(s, from), name), Len(log))
    PROVE  LatestOf(x, none, f, s, from, name)
<1> DEFINE T == Part(s, from)
           E == Named(log, T, name)
           A == Emitted(log, s, {name})
<1>1. /\ \A i \in E : i \in A /\ i \in T /\ i <= Len(log) /\ i \in Nat
      /\ A \subseteq Nat
  BY LogFacts DEF LogInv, Named, Part, Emitted
<1>2. \A i \in E : \A j \in A : i < j => j \in E
  <2>1. \A j \in A : j \in DOMAIN log /\ log[j].source = s /\ log[j].name = name
    BY DEF Emitted
  <2> QED BY <1>1, <2>1, PartFacts DEF Named
<1>3. from = 0 => A \subseteq E
  BY LogFacts DEF LogInv, Named, Part, Emitted
<1> HIDE DEF T, E, A
<1>4. CASE x = none /\ \A i \in E : ~(i <= Len(log))
  BY <1>1, <1>3, <1>4 DEF E, A, T, LatestOf
<1>5. CASE \E i \in E : i <= Len(log) /\ x = f[i] /\ \A j \in E : j <= Len(log) => j <= i
  <2>1. PICK i \in E : x = f[i] /\ \A j \in E : j <= Len(log) => j <= i
    BY <1>5
  <2>2. \A j \in A : j <= i
    BY <1>1, <1>2, <2>1
  <2> QED BY <1>1, <2>1, <2>2 DEF A, T, LatestOf
<1> QED
  BY <1>4, <1>5 DEF Latest, E, T

LEMMA PageEpochAndTreasury ==
    ASSUME LogInv, NEW s \in Swarm, NEW from \in Nat, NEW view, ShownPage(view, s, from)
    PROVE  /\ view.epoch \in {0, swarm[s].epoch} /\ view.treasury \in {Nobody, swarm[s].treasury}
           /\ from = 0 => view.epoch = swarm[s].epoch /\ view.treasury = swarm[s].treasury
<1> DEFINE T == Part(s, from)
           f == [i \in T |-> log[i].epoch]
           g == [i \in T |-> log[i].who]
<1>1. EpochLogged(swarm[s].epoch, log, s) /\ BindingLogged(swarm[s].treasury, log, s)
  BY DEF LogInv, SwarmLogged
<1>2. view.epoch \in {0, swarm[s].epoch} /\ (from = 0 => view.epoch = swarm[s].epoch)
  <2> HIDE DEF f
  <2>1. Latest(view.epoch, 0, f, Named(log, T, "EpochRotated"), Len(log))
    BY DEF ShownPage, PageShown, f
  <2>2. LatestOf(view.epoch, 0, f, s, from, "EpochRotated")
    BY <2>1, PageLatest
  <2> QED BY <1>1, <2>2 DEF LatestOf, EpochLogged, f
<1>3. /\ view.treasury \in {Nobody, swarm[s].treasury}
      /\ from = 0 => view.treasury = swarm[s].treasury
  <2> HIDE DEF g
  <2>1. Latest(view.treasury, Nobody, g, Named(log, T, "TreasurySet"), Len(log))
    BY DEF ShownPage, PageShown, g
  <2>2. LatestOf(view.treasury, Nobody, g, s, from, "TreasurySet")
    BY <2>1, PageLatest
  <2> QED BY <1>1, <2>2 DEF LatestOf, BindingLogged, g
<1> QED
  BY <1>2, <1>3

LEMMA PageRemoved ==
    ASSUME LogInv, NEW s \in Swarm, NEW from \in Nat, NEW view, ShownPage(view, s, from),
           NEW i \in Since(s, from, {"MemberRemoved"}),
           \A j \in Since(s, from, {"MemberFileMappingUpdated"}) : log[j].block <= log[i].block
    PROVE  log[i].who \in DOMAIN view.removed
<1> DEFINE T == Part(s, from)
<1>1. \A name : Named(log, T, name) = Since(s, from, {name})
  BY DEF Named, Part, Since
<1>2. i <= Len(log)
  BY LogFacts DEF LogInv, Since
<1>3. RemovedShown(view.removed, log, T, Len(log))
  BY DEF ShownPage, PageShown
<1> HIDE DEF T
<1> QED
  BY <1>1, <1>2, <1>3 DEF RemovedShown

LEMMA PageIsTrue ==
    ASSUME LogInv, NEW s \in Swarm, NEW from \in Nat, NEW view, ShownPage(view, s, from)
    PROVE  PageTrue(s, from, view)
<1>4. /\ DOMAIN view.members \subseteq {a \in Account : swarm[s].members[a].active}
      /\ \A a \in DOMAIN view.members :
           /\ view.members[a].joinedEpoch = swarm[s].members[a].joinedEpoch
           /\ ~Overlapping(s, a) =>
                view.members[a].key \in {swarm[s].members[a].key}
                                        \cup (IF from = 0 THEN {} ELSE {0})
  BY PageMember
<1>5. from = 0 => DOMAIN view.members = {a \in Account : swarm[s].members[a].active}
  BY <1>4, PageMembersAll
<1>6. {id \in DOMAIN view.pending : ~Overlapping(s, view.pending[id].requester)}
      = {id \in {id \in DOMAIN swarm[s].joins : ~Overlapping(s, swarm[s].joins[id].requester)} :
           /\ swarm[s].joins[id].status = "pending"
           /\ \A i \in Place(s, id, {"JoinRequested"}) : log[i].block >= from}
  BY PagePending
<1>7. /\ view.epoch \in {0, swarm[s].epoch} /\ view.treasury \in {Nobody, swarm[s].treasury}
      /\ from = 0 => view.epoch = swarm[s].epoch /\ view.treasury = swarm[s].treasury
  BY PageEpochAndTreasury
<1>8. \A i \in Since(s, from, {"MemberRemoved"}) :
        (\A j \in Since(s, from, {"MemberFileMappingUpdated"}) : log[j].block <= log[i].block)
          => log[i].who \in DOMAIN view.removed
  BY PageRemoved
<1> QED
  BY <1>4, <1>5, <1>6, <1>7, <1>8 DEF PageTrue

(* The events of a treasury change the rows of requests only.              *)
SamePage(v, w) ==
    /\ View(v) /\ View(w)
    /\ w.members = v.members /\ w.pending = v.pending /\ w.removed = v.removed
    /\ w.treasury = v.treasury /\ w.epoch = v.epoch

LEMMA AppliedSame ==
    ASSUME NEW v, NEW w, SamePage(v, w), NEW e, e.name \in SwarmEvents \cup TreasuryEvents
    PROVE  /\ SamePage(Apply(v, e), Apply(w, e))
           /\ e.name \in TreasuryEvents => SamePage(v, Apply(w, e))
<1>1. /\ MembersAfter(w, e) = MembersAfter(v, e) /\ PendingAfter(w, e) = PendingAfter(v, e)
      /\ RemovedAfter(w, e) = RemovedAfter(v, e)
  BY DEF SamePage, MembersAfter, PendingAfter, RemovedAfter, MemberRow, Taken, AskedBy
<1>2. e.name \in TreasuryEvents =>
        /\ MembersAfter(w, e) = w.members /\ PendingAfter(w, e) = w.pending
        /\ RemovedAfter(w, e) = w.removed /\ e.name # "TreasurySet" /\ e.name # "EpochRotated"
  BY DEF TreasuryEvents, MembersAfter, PendingAfter, RemovedAfter
<1>3. /\ View(Apply(v, e))
      /\ Apply(v, e).members = MembersAfter(v, e) /\ Apply(v, e).pending = PendingAfter(v, e)
      /\ Apply(v, e).removed = RemovedAfter(v, e)
      /\ Apply(v, e).treasury = (IF e.name = "TreasurySet" THEN e.who ELSE v.treasury)
      /\ Apply(v, e).epoch = (IF e.name = "EpochRotated" THEN e.epoch ELSE v.epoch)
  BY Applied DEF SamePage
<1>4. /\ View(Apply(w, e))
      /\ Apply(w, e).members = MembersAfter(w, e) /\ Apply(w, e).pending = PendingAfter(w, e)
      /\ Apply(w, e).removed = RemovedAfter(w, e)
      /\ Apply(w, e).treasury = (IF e.name = "TreasurySet" THEN e.who ELSE w.treasury)
      /\ Apply(w, e).epoch = (IF e.name = "EpochRotated" THEN e.epoch ELSE w.epoch)
  BY Applied DEF SamePage
<1>5. SamePage(Apply(v, e), Apply(w, e))
  BY <1>1, <1>3, <1>4 DEF SamePage
<1>6. e.name \in TreasuryEvents => SamePage(v, Apply(w, e))
  BY <1>2, <1>4 DEF SamePage
<1> QED
  BY <1>5, <1>6

LEMMA GlobalFolded ==
    ASSUME ViewsTypeOK, NEW T, NEW U, T \subseteq U, U \subseteq DOMAIN log,
           \A i \in U : i \notin T => log[i].name \in TreasuryEvents
    PROVE  SamePage(ReduceSwarmState(T), ReduceSwarmState(U))
<1>1. /\ Len(log) \in Nat /\ DOMAIN log = 1..Len(log)
      /\ \A i \in DOMAIN log : log[i].name \in SwarmEvents \cup TreasuryEvents
  <2>1. \A e \in Logged : e.name \in SwarmEvents \cup TreasuryEvents
    BY DEF Logged, Records
  <2> QED BY <2>1, LogFacts
<1>2. PICK v : Folds(v, T, Len(log)) /\ ReduceSwarmState(T) = v[Len(log)]
  BY <1>1, Fold
<1>3. PICK w : Folds(w, U, Len(log)) /\ ReduceSwarmState(U) = w[Len(log)]
  BY <1>1, Fold
<1> DEFINE S == {n \in 0..Len(log) : SamePage(v[n], w[n])}
<1>4. 0 \in S
  <2>1. v[0] = EmptyView /\ w[0] = EmptyView /\ View(EmptyView)
    BY <1>2, <1>3 DEF Folds, View, EmptyView
  <2> QED BY <1>1, <2>1 DEF SamePage
<1>5. ASSUME NEW n \in 0..Len(log), n \in S, n < Len(log)
      PROVE  n + 1 \in S
  <2> DEFINE m == n + 1
             e == log[m]
  <2>1. m \in 1..Len(log) /\ m \in 0..Len(log) /\ m - 1 = n /\ SamePage(v[n], w[n])
    BY <1>1, <1>5
  <2> HIDE DEF m
  <2>2. /\ v[m] = IF m \in T THEN Apply(v[n], e) ELSE v[n]
        /\ w[m] = IF m \in U THEN Apply(w[n], e) ELSE w[n]
    BY <1>2, <1>3, <2>1 DEF Folds
  <2>3. e.name \in SwarmEvents \cup TreasuryEvents
    BY <1>1, <2>1
  <2>4. m \in U /\ m \notin T => e.name \in TreasuryEvents
    OBVIOUS
  <2> HIDE DEF e
  <2>5. SamePage(v[m], w[m])
    BY <2>1, <2>2, <2>3, <2>4, AppliedSame
  <2> QED BY <2>1, <2>5 DEF m
<1>6. Len(log) \in S
  <2> HIDE DEF S
  <2>1. \A n \in 0..Len(log) : n \in S
    BY <1>1, <1>4, <1>5, UpTo
  <2> QED BY <1>1, <2>1
<1> QED
  BY <1>2, <1>3, <1>6

LEMMA SwarmPageIsTrue == LogInv => SwarmPageTrue
<1> SUFFICES ASSUME LogInv, NEW s \in ToSet(Published), NEW from \in 0..Height
             PROVE  /\ PageTrue(s, from, ScopedState(s, from))
                    /\ ToSet(Published) = {s} => PageTrue(s, from, GlobalState(from, {}))
  BY DEF SwarmPageTrue
<1>1. s \in Swarm /\ s \in Watched /\ from \in Nat
  BY ViewsAssumption, LogFacts DEF LogInv, Watched, ToSet
<1>2. {i \in Feed(from, {}) : log[i].source = s} = Part(s, from)
  BY <1>1 DEF Feed, Part
<1>3. ShownPage(ScopedState(s, from), s, from)
  BY <1>1, <1>2, PartIsStretch, PageFolded DEF LogInv, ShownPage, ScopedState
<1>4. ASSUME ToSet(Published) = {s} PROVE ShownPage(GlobalState(from, {}), s, from)
  <2> DEFINE T == Part(s, from)
             U == Feed(from, {})
  <2>1. T \subseteq U /\ U \subseteq DOMAIN log
    BY <1>1 DEF Part, Feed
  <2>2. ASSUME NEW i \in U, i \notin T PROVE log[i].name \in TreasuryEvents
    <3>1. i \in DOMAIN log /\ log[i] \in Logged /\ log[i].source \in Watched /\ log[i].source # s
      BY <2>2, LogFacts DEF LogInv, Feed, Part
    <3>2. log[i].source \notin Swarm
      BY <1>4, <3>1, ViewsAssumption DEF Watched
    <3> QED BY <3>1, <3>2, SourcesApart DEF Records
  <2>3. SamePage(ReduceSwarmState(T), ReduceSwarmState(U))
    <3> HIDE DEF T, U
    <3> QED BY <2>1, <2>2, GlobalFolded DEF LogInv
  <2>4. ScopedState(s, from) = ReduceSwarmState(T) /\ GlobalState(from, {}) = ReduceSwarmState(U)
    BY <1>2 DEF ScopedState, GlobalState
  <2> HIDE DEF T, U
  <2>5. SamePage(ScopedState(s, from), GlobalState(from, {}))
    BY <2>3, <2>4
  <2> QED BY <1>3, <2>5 DEF ShownPage, PageShown, SamePage
<1> QED
  BY <1>1, <1>3, <1>4, PageIsTrue

(* For any recent stretch of its log, the page of a published swarm shows  *)
(* the contract's members, binding and epoch, and but for accounts that    *)
(* asked twice the requests that await the owner and the members' keys     *)
(* (reducers.ts over the events of SoulVaultSwarm): for any number of      *)
(* swarms, accounts, requests and events.                                  *)
THEOREM SwarmPagesAlwaysTrue == ViewsSpec => []SwarmPageTrue
<1>1. LogInv => SwarmPageTrue
  BY SwarmPageIsTrue
<1> QED
  BY <1>1, LogInvariant, PTL

=============================================================================
