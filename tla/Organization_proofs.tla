------------------------- MODULE Organization_proofs -------------------------
(***************************************************************************)
(* Theorems about what an organization owns.  Its treasury: the payout     *)
(* flow for any number of swarms, treasuries and accounts, calls nested to *)
(* any depth, and any recipients.  Its name: registration and repair in    *)
(* either ENS, for any number of pages and runs, interrupted anywhere,     *)
(* with any clocks and any order of transactions that the pool allows.     *)
(***************************************************************************)
EXTENDS FundFlow, OrgRegistration, FiniteSetTheorems, SequenceTheorems, TLAPS

-----------------------------------------------------------------------------
(* Part one: the payout flow.                                              *)

-----------------------------------------------------------------------------
(* What holds of a world, the current one or one that may be gone back to. *)

SpentBy(w, t) == {sig \in w.landed : sig.treasury = t}

SpentOnce(w) ==
    \A t \in Treasury :
      /\ IsFiniteSet(SpentBy(w, t))
      /\ w.nonce[t] = Cardinality(SpentBy(w, t))
      /\ {sig.nonce : sig \in SpentBy(w, t)} = 0..(w.nonce[t] - 1)

Decided(w) ==
    \A sig \in w.landed : sig.kind \in {"approve", "reject"} =>
      /\ sig.swarm \in Swarm /\ sig.request \in DOMAIN w.requests[sig.swarm]
      /\ LET req == w.requests[sig.swarm][sig.request] IN
         /\ sig.kind = "approve" => /\ req.requester = sig.to /\ req.amount = sig.amount
                                    /\ req.status = "approved"
         /\ sig.kind = "reject" => req.status = "rejected"

(* w is a later world than v: no request is forgotten, changed or decided  *)
(* a second time.                                                          *)
Keeps(v, w) ==
    \A s \in Swarm : \A r \in DOMAIN v.requests[s] :
      /\ r \in DOMAIN w.requests[s]
      /\ w.requests[s][r].requester = v.requests[s][r].requester
      /\ w.requests[s][r].amount = v.requests[s][r].amount
      /\ v.requests[s][r].status # "pending" => w.requests[s][r].status = v.requests[s][r].status

Sound(w) == w \in World /\ w.landed \subseteq signed /\ SpentOnce(w) /\ Decided(w)

FlowInv ==
    /\ Sound(world)
    /\ stack \in Seq(Frame)
    /\ \A i \in 1..Len(stack) :
         /\ Sound(stack[i].saved) /\ Keeps(stack[i].saved, world)
         /\ \A j \in i..Len(stack) : Keeps(stack[i].saved, stack[j].saved)
    /\ signed \subseteq Signature /\ expired \subseteq signed
    /\ \A sig \in signed : sig.kind = "withdraw" => sig.to \in Account \cup Treasury

-----------------------------------------------------------------------------
(* Operations on worlds.                                                   *)

LEMMA KeepsOrder ==
  /\ \A w : Keeps(w, w)
  /\ \A u, v, w : Keeps(u, v) /\ Keeps(v, w) => Keeps(u, w)
<1>1. \A w : Keeps(w, w)
  BY DEF Keeps
<1>2. ASSUME NEW u, NEW v, NEW w, Keeps(u, v), Keeps(v, w) PROVE Keeps(u, w)
  BY <1>2 DEF Keeps
<1> QED
  BY <1>1, <1>2

(* What was decided stays decided in a later world.                        *)
LEMMA DecidedKept ==
  ASSUME NEW v, NEW w, Decided(v), Keeps(v, w), w.landed = v.landed
  PROVE  Decided(w)
BY DEF Decided, Keeps

LEMMA SpentKept ==
  ASSUME NEW v, NEW w, SpentOnce(v), w.landed = v.landed, w.nonce = v.nonce
  PROVE  SpentOnce(w)
BY DEF SpentOnce, SpentBy

(* Money, locks, pauses and bindings are not what the properties are about.*)
LEMMA Unrelated ==
  ASSUME NEW v, NEW w \in World, Sound(v),
         w.requests = v.requests, w.landed = v.landed, w.nonce = v.nonce
  PROVE  Sound(w) /\ Keeps(v, w)
<1>1. Keeps(v, w)
  BY DEF Keeps
<1> QED
  BY <1>1, DecidedKept, SpentKept DEF Sound

LEMMA TransferTyped ==
  ASSUME NEW w \in World, NEW t \in Account \cup Treasury, NEW to \in Account \cup Treasury,
         NEW v \in Nat, w.balance[t] >= v
  PROVE  /\ Transfer(w, t, to, v) \in World
         /\ Transfer(w, t, to, v).requests = w.requests
         /\ Transfer(w, t, to, v).landed = w.landed
         /\ Transfer(w, t, to, v).nonce = w.nonce
         /\ Transfer(w, t, to, v).net = w.net
<1> DEFINE b == [w.balance EXCEPT ![t] = @ - v, ![to] = @ + v]
<1>1. w.balance \in [Account \cup Treasury -> Nat]
  BY DEF World
<1>2. b \in [Account \cup Treasury -> Nat]
  BY <1>1
<1>3. Transfer(w, t, to, v) = [w EXCEPT !.balance = b]
  BY DEF Transfer, World
<1> HIDE DEF b
<1> QED
  BY <1>2, <1>3 DEF World

LEMMA LockTyped ==
  ASSUME NEW w \in World, NEW t \in Treasury
  PROVE  /\ Lock(w, t) \in World /\ Unlock(w, t) \in World
         /\ Lock(w, t).requests = w.requests /\ Unlock(w, t).requests = w.requests
         /\ Lock(w, t).landed = w.landed /\ Unlock(w, t).landed = w.landed
         /\ Lock(w, t).nonce = w.nonce /\ Unlock(w, t).nonce = w.nonce
BY DEF Lock, Unlock, World

(* A request is decided: it was pending, and nothing else changes.         *)
LEMMA DecideTyped ==
  ASSUME NEW w \in World, NEW s \in Swarm, NEW r, NEW status \in Status, Pending(w, s, r)
  PROVE  LET x == Decide(w, s, r, status) IN
         /\ x \in World
         /\ x.landed = w.landed /\ x.nonce = w.nonce /\ x.balance = w.balance
         /\ Keeps(w, x)
         /\ r \in DOMAIN x.requests[s]
         /\ x.requests[s][r].requester = w.requests[s][r].requester
         /\ x.requests[s][r].amount = w.requests[s][r].amount
         /\ x.requests[s][r].status = status
<1>1. /\ w.requests \in [Swarm -> Seq(Request)] /\ w.requests[s] \in Seq(Request)
      /\ r \in DOMAIN w.requests[s] /\ w.requests[s][r].status = "pending"
  BY DEF World, Pending
<1>2. r \in 1..Len(w.requests[s]) /\ w.requests[s][r] \in Request
      /\ Len(w.requests[s]) \in Nat
  BY <1>1, LenProperties, ElementOfSeq
<1> DEFINE old == w.requests[s][r]
           new == [old EXCEPT !.status = status]
           seq == [w.requests[s] EXCEPT ![r] = new]
           all == [w.requests EXCEPT ![s] = seq]
<1>3. /\ new \in Request /\ new.status = status
      /\ new.requester = old.requester /\ new.amount = old.amount
  BY <1>2 DEF Request
<1>4. Decide(w, s, r, status) = [w EXCEPT !.requests = all]
  BY <1>1, <1>2 DEF Decide
<1> HIDE DEF new
<1>5. /\ seq \in Seq(Request) /\ Len(seq) = Len(w.requests[s]) /\ DOMAIN seq = DOMAIN w.requests[s]
      /\ seq[r] = new
      /\ \A j \in 1..Len(w.requests[s]) : j # r => seq[j] = w.requests[s][j]
  BY <1>1, <1>2, <1>3, ExceptSeq, LenProperties
<1>6. DOMAIN w.requests[s] = 1..Len(w.requests[s])
  BY <1>1, LenProperties
<1> HIDE DEF seq
<1>7. /\ all \in [Swarm -> Seq(Request)] /\ all[s] = seq
      /\ \A x \in Swarm : x # s => all[x] = w.requests[x]
  BY <1>1, <1>5
<1> HIDE DEF all
<1> DEFINE x == Decide(w, s, r, status)
<1>8. /\ x \in World /\ x.requests = all /\ x.landed = w.landed /\ x.nonce = w.nonce
      /\ x.balance = w.balance
  BY <1>4, <1>7 DEF World
<1> HIDE DEF x
<1>9. Keeps(w, x)
  BY <1>1, <1>3, <1>5, <1>6, <1>7, <1>8 DEF Keeps
<1> QED
  BY <1>3, <1>5, <1>1, <1>7, <1>8, <1>9 DEF x

(* A signature takes effect in world w.                                    *)
Spend(w, sig) == [w EXCEPT !.nonce[sig.treasury] = sig.nonce + 1, !.landed = @ \cup {sig}]

LEMMA SpendTyped ==
  ASSUME NEW w \in World, NEW sig \in Signature
  PROVE  LET x == Spend(w, sig) IN
         /\ x \in World
         /\ x.landed = w.landed \cup {sig} /\ x.requests = w.requests
         /\ x.balance = w.balance /\ x.net = w.net
         /\ x.nonce \in [Treasury -> Nat]
         /\ x.nonce[sig.treasury] = sig.nonce + 1
         /\ \A t \in Treasury : t # sig.treasury => x.nonce[t] = w.nonce[t]
<1>1. PICK n \in Nat : n = sig.nonce + 1
  BY DEF Signature
<1>2. sig.treasury \in Treasury /\ w.nonce \in [Treasury -> Nat] /\ w.landed \subseteq Signature
  BY DEF Signature, World
<1> DEFINE m == [w.nonce EXCEPT ![sig.treasury] = n]
           l == w.landed \cup {sig}
<1>3. /\ m \in [Treasury -> Nat] /\ m[sig.treasury] = n /\ l \in SUBSET Signature
      /\ \A t \in Treasury : t # sig.treasury => m[t] = w.nonce[t]
  BY <1>2
<1>4. Spend(w, sig) = [[w EXCEPT !.nonce = m] EXCEPT !.landed = l]
  BY <1>1, <1>2 DEF Spend, World
<1> HIDE DEF m, l
<1> DEFINE x == Spend(w, sig)
<1>5. /\ x \in World /\ x.landed = l /\ x.nonce = m /\ x.requests = w.requests
      /\ x.balance = w.balance /\ x.net = w.net
  BY <1>3, <1>4 DEF World
<1> HIDE DEF x
<1> QED
  BY <1>1, <1>3, <1>5 DEF x, l

LEMMA SpendOnce ==
  ASSUME NEW w \in World, NEW sig \in Signature, SpentOnce(w), sig.nonce = w.nonce[sig.treasury]
  PROVE  SpentOnce(Spend(w, sig))
<1> DEFINE x == Spend(w, sig)
           n == sig.nonce
<1>1. /\ x.landed = w.landed \cup {sig}
      /\ x.nonce[sig.treasury] = n + 1 /\ n \in Nat /\ sig.treasury \in Treasury
      /\ \A t \in Treasury : t # sig.treasury => x.nonce[t] = w.nonce[t]
  BY SpendTyped DEF Signature
<1> HIDE DEF x
<1>2. ASSUME NEW t \in Treasury, t # sig.treasury
      PROVE  /\ IsFiniteSet(SpentBy(x, t))
             /\ x.nonce[t] = Cardinality(SpentBy(x, t))
             /\ {g.nonce : g \in SpentBy(x, t)} = 0..(x.nonce[t] - 1)
  <2>1. SpentBy(x, t) = SpentBy(w, t) /\ x.nonce[t] = w.nonce[t]
    BY <1>1, <1>2 DEF SpentBy
  <2> QED
    BY <2>1 DEF SpentOnce
<1>3. ASSUME NEW t \in Treasury, t = sig.treasury
      PROVE  /\ IsFiniteSet(SpentBy(x, t))
             /\ x.nonce[t] = Cardinality(SpentBy(x, t))
             /\ {g.nonce : g \in SpentBy(x, t)} = 0..(x.nonce[t] - 1)
  <2>1. /\ IsFiniteSet(SpentBy(w, t)) /\ n = Cardinality(SpentBy(w, t))
        /\ {g.nonce : g \in SpentBy(w, t)} = 0..(n - 1)
    BY <1>3 DEF SpentOnce
  <2>2. SpentBy(x, t) = SpentBy(w, t) \cup {sig}
    BY <1>1, <1>3 DEF SpentBy
  <2>3. sig \notin SpentBy(w, t)
    <3> SUFFICES ASSUME sig \in SpentBy(w, t) PROVE FALSE
      OBVIOUS
    <3>1. n \in 0..(n - 1)
      BY <2>1
    <3> QED
      BY <1>1, <3>1
  <2>4. IsFiniteSet(SpentBy(x, t)) /\ Cardinality(SpentBy(x, t)) = n + 1
    BY <2>1, <2>2, <2>3, FS_AddElement
  <2>5. {g.nonce : g \in SpentBy(x, t)} = {g.nonce : g \in SpentBy(w, t)} \cup {n}
    BY <2>2
  <2>6. 0..n = 0..(n - 1) \cup {n} /\ (n + 1) - 1 = n
    BY <1>1
  <2> QED
    BY <1>1, <1>3, <2>1, <2>4, <2>5, <2>6
<1> QED
  BY <1>2, <1>3 DEF SpentOnce, x

(* A request more.                                                         *)
LEMMA RequestTyped ==
  ASSUME NEW w \in World, NEW s \in Swarm, NEW req \in Request
  PROVE  LET x == [w EXCEPT !.requests[s] = Append(@, req)] IN
         x \in World /\ x.landed = w.landed /\ x.nonce = w.nonce /\ Keeps(w, x)
<1>1. w.requests \in [Swarm -> Seq(Request)] /\ w.requests[s] \in Seq(Request)
  BY DEF World
<1> DEFINE seq == Append(w.requests[s], req)
           all == [w.requests EXCEPT ![s] = seq]
<1>2. /\ seq \in Seq(Request) /\ Len(seq) = Len(w.requests[s]) + 1 /\ Len(w.requests[s]) \in Nat
      /\ \A i \in 1..Len(w.requests[s]) : seq[i] = w.requests[s][i]
  BY <1>1, AppendProperties
<1>3. /\ DOMAIN w.requests[s] = 1..Len(w.requests[s]) /\ DOMAIN seq = 1..Len(seq)
  BY <1>1, <1>2, LenProperties
<1>4. [w EXCEPT !.requests[s] = Append(@, req)] = [w EXCEPT !.requests = all]
  BY <1>1
<1> HIDE DEF seq
<1>5. /\ all \in [Swarm -> Seq(Request)] /\ all[s] = seq
      /\ \A x \in Swarm : x # s => all[x] = w.requests[x]
  BY <1>1, <1>2
<1> HIDE DEF all
<1> DEFINE x == [w EXCEPT !.requests = all]
<1>6. x \in World /\ x.requests = all /\ x.landed = w.landed /\ x.nonce = w.nonce
  BY <1>5 DEF World
<1> HIDE DEF x
<1>7. Keeps(w, x)
  <2>1. \A y \in Swarm : \A i \in DOMAIN w.requests[y] :
          i \in DOMAIN all[y] /\ all[y][i] = w.requests[y][i]
    <3>1. \A i \in DOMAIN w.requests[s] : i \in DOMAIN seq /\ seq[i] = w.requests[s][i]
      BY <1>2, <1>3
    <3> QED
      BY <1>5, <3>1
  <2> QED
    BY <1>6, <2>1 DEF Keeps
<1> QED
  BY <1>4, <1>6, <1>7 DEF x

-----------------------------------------------------------------------------
(* What a step does: it calls, pays, returns, reverts or signs.            *)

Evolves(w) == Sound(w) /\ Keeps(world, w)

Calls == \E w \in World : Evolves(w) /\ BecomesWorld(w)

Pays ==
    \E w \in World, t \in Treasury, to \in Account \cup Treasury :
      /\ Evolves(w)
      /\ world' = w
      /\ stack' = Append(stack, [treasury |-> t, to |-> to, saved |-> world])
      /\ UNCHANGED <<signed, expired>>

(* The recipient is called in a world that has been prepared.              *)
LEMMA PayPays ==
  ASSUME FlowInv, NEW w, Evolves(w), w.balance = world.balance,
         NEW t \in Treasury, NEW to \in Account \cup Treasury, NEW v \in Nat, Pay(w, t, to, v)
  PROVE  Pays
<1>1. w \in World /\ w.balance[t] >= v
  BY DEF Evolves, Sound, Pay
<1> DEFINE x == Lock(Transfer(w, t, to, v), t)
<1>2. x \in World /\ x.requests = w.requests /\ x.landed = w.landed /\ x.nonce = w.nonce
  BY <1>1, TransferTyped, LockTyped
<1>3. world' = x /\ UNCHANGED <<signed, expired>>
      /\ stack' = Append(stack, [treasury |-> t, to |-> to, saved |-> world])
  BY DEF Pay
<1> HIDE DEF x
<1>4. Evolves(x)
  BY <1>2, Unrelated, KeepsOrder DEF Evolves
<1> QED
  BY <1>2, <1>3, <1>4 DEF Pays

(* A change of money, locks, pauses or bindings only.                      *)
LEMMA SmallCall ==
  ASSUME FlowInv, NEW w \in World, BecomesWorld(w),
         w.requests = world.requests, w.landed = world.landed, w.nonce = world.nonce
  PROVE  Calls
<1>1. Sound(world)
  BY DEF FlowInv
<1>2. Evolves(w)
  BY <1>1, Unrelated DEF Evolves
<1> QED
  BY <1>2 DEF Calls

LEMMA SwarmCalls ==
  ASSUME FlowInv, NEW c \in Account, SwarmCall(c)
  PROVE  Calls
<1>1. world \in World /\ Sound(world)
  BY DEF FlowInv, Sound
<1>2. ASSUME NEW s \in Swarm, NEW t \in Treasury, SetTreasury(c, s, t)
      PROVE  Calls
  <2> DEFINE w == [world EXCEPT !.treasury[s] = t]
  <2>1. /\ w \in World /\ w.requests = world.requests /\ w.landed = world.landed
        /\ w.nonce = world.nonce
    BY <1>1 DEF World
  <2>2. BecomesWorld(w)
    BY <1>2 DEF SetTreasury
  <2> HIDE DEF w
  <2> QED
    BY <2>1, <2>2, SmallCall
<1>3. ASSUME NEW s \in Swarm, NEW p \in BOOLEAN, SetPaused(c, s, p)
      PROVE  Calls
  <2> DEFINE w == [world EXCEPT !.paused[s] = p]
  <2>1. /\ w \in World /\ w.requests = world.requests /\ w.landed = world.landed
        /\ w.nonce = world.nonce
    BY <1>1 DEF World
  <2>2. BecomesWorld(w)
    BY <1>3 DEF SetPaused
  <2> HIDE DEF w
  <2> QED
    BY <2>1, <2>2, SmallCall
<1>4. ASSUME NEW s \in Swarm, NEW v \in Amount, RequestFunds(c, s, v)
      PROVE  Calls
  <2> DEFINE req == [requester |-> c, amount |-> v, status |-> "pending"]
             w == [world EXCEPT !.requests[s] = Append(@, req)]
  <2>1. req \in Request
    BY <1>4 DEF Request, Status, RequestFunds, ActiveMember
  <2>2. BecomesWorld(w)
    BY <1>4 DEF RequestFunds
  <2> HIDE DEF req
  <2>3. w \in World /\ w.landed = world.landed /\ w.nonce = world.nonce /\ Keeps(world, w)
    BY <1>1, <2>1, RequestTyped
  <2> HIDE DEF w
  <2>4. Evolves(w)
    BY <1>1, <2>3, DecidedKept, SpentKept DEF Evolves, Sound
  <2> QED
    BY <2>2, <2>3, <2>4 DEF Calls
<1>5. ASSUME NEW s \in Swarm, NEW r \in RequestId, CancelFundRequest(c, s, r)
      PROVE  Calls
  <2> DEFINE w == Decide(world, s, r, "cancelled")
  <2>1. /\ w \in World /\ w.landed = world.landed /\ w.nonce = world.nonce /\ Keeps(world, w)
    <3>1. "cancelled" \in Status /\ Pending(world, s, r)
      BY <1>5 DEF Status, CancelFundRequest
    <3> QED
      BY <1>1, <3>1, DecideTyped
  <2>2. BecomesWorld(w)
    BY <1>5 DEF CancelFundRequest
  <2> HIDE DEF w
  <2>3. Evolves(w)
    BY <1>1, <2>1, DecidedKept, SpentKept DEF Evolves, Sound
  <2> QED
    BY <2>1, <2>2, <2>3 DEF Calls
<1> QED
  BY <1>2, <1>3, <1>4, <1>5 DEF SwarmCall

(* A request that is paid: approved in the world that calls the recipient. *)
LEMMA Payee ==
  ASSUME NEW w \in World, NEW s \in Swarm, NEW r, Pending(w, s, r)
  PROVE  /\ w.requests[s][r] \in Request
         /\ w.requests[s][r].requester \in Account \cup Treasury
         /\ w.requests[s][r].amount \in Nat
<1>1. w.requests[s] \in Seq(Request) /\ r \in DOMAIN w.requests[s]
  BY DEF World, Pending
<1>2. w.requests[s][r] \in Request
  BY <1>1, LenProperties, ElementOfSeq
<1> QED
  BY <1>2, FlowAssumption DEF Request

LEMMA TreasuryCalls ==
  ASSUME FlowInv, NEW c \in Account, TreasuryCall(c)
  PROVE  Calls \/ Pays
<1>1. world \in World /\ Sound(world) /\ world.balance \in [Account \cup Treasury -> Nat]
  BY DEF FlowInv, Sound, World
<1>2. ASSUME NEW t \in Treasury, NEW v \in Amount, Deposit(c, t, v)
      PROVE  Calls
  <2> DEFINE u == Transfer(world, c, t, v)
             w == [u EXCEPT !.net = @ + v]
  <2>1. v \in Nat
    BY FlowAssumption
  <2>2. BecomesWorld(w) /\ world.balance[c] >= v
    BY <1>2 DEF Deposit
  <2>3. /\ u \in World /\ u.requests = world.requests /\ u.landed = world.landed
        /\ u.nonce = world.nonce
    BY <1>1, <2>1, <2>2, TransferTyped
  <2> HIDE DEF u
  <2>4. /\ w \in World /\ w.requests = world.requests /\ w.landed = world.landed
        /\ w.nonce = world.nonce
    <3>1. u.net + v \in Int
      BY <2>1, <2>3 DEF World
    <3> QED
      BY <2>3, <3>1 DEF World
  <2> HIDE DEF w
  <2> QED
    BY <2>2, <2>4, SmallCall
<1>3. ASSUME NEW t \in Treasury, NEW s \in Swarm, NEW r \in RequestId,
             ApproveFundRequest(c, t, s, r)
      PROVE  Pays
  <2> DEFINE w == Decide(world, s, r, "approved")
             req == world.requests[s][r]
  <2>1. Pending(world, s, r) /\ Pay(w, t, req.requester, req.amount)
    BY <1>3 DEF ApproveFundRequest, PayRequest
  <2>2. req.requester \in Account \cup Treasury /\ req.amount \in Nat
    BY <1>1, <2>1, Payee
  <2>3. /\ w \in World /\ w.landed = world.landed /\ w.nonce = world.nonce
        /\ w.balance = world.balance /\ Keeps(world, w)
    <3>1. "approved" \in Status
      BY DEF Status
    <3> QED
      BY <1>1, <2>1, <3>1, DecideTyped
  <2> HIDE DEF w, req
  <2>4. Evolves(w)
    BY <1>1, <2>3, DecidedKept, SpentKept DEF Evolves, Sound
  <2> QED
    BY <2>1, <2>2, <2>3, <2>4, PayPays
<1>4. ASSUME NEW t \in Treasury, NEW s \in Swarm, NEW r \in RequestId, RejectFundRequest(c, t, s, r)
      PROVE  Calls
  <2> DEFINE w == Decide(world, s, r, "rejected")
  <2>1. Pending(world, s, r) /\ BecomesWorld(w)
    BY <1>4 DEF RejectFundRequest, RejectRequest
  <2>2. w \in World /\ w.landed = world.landed /\ w.nonce = world.nonce /\ Keeps(world, w)
    <3>1. "rejected" \in Status
      BY DEF Status
    <3> QED
      BY <1>1, <2>1, <3>1, DecideTyped
  <2> HIDE DEF w
  <2>3. Evolves(w)
    BY <1>1, <2>2, DecidedKept, SpentKept DEF Evolves, Sound
  <2> QED
    BY <2>1, <2>2, <2>3 DEF Calls
<1>5. ASSUME NEW t \in Treasury, NEW to \in Account \cup Treasury, NEW v \in Amount,
             Withdraw(c, t, to, v)
      PROVE  Pays
  <2> DEFINE w == [world EXCEPT !.net = @ - Outside(to, v)]
  <2>1. v \in Nat /\ Outside(to, v) \in Nat
    BY FlowAssumption DEF Outside
  <2>2. Pay(w, t, to, v)
    BY <1>5 DEF Withdraw, TakeOut
  <2>3. /\ w \in World /\ w.requests = world.requests /\ w.landed = world.landed
        /\ w.nonce = world.nonce /\ w.balance = world.balance
    <3>1. world.net - Outside(to, v) \in Int
      BY <1>1, <2>1 DEF World
    <3> QED
      BY <1>1, <3>1 DEF World
  <2> HIDE DEF w
  <2>4. Evolves(w)
    BY <1>1, <2>3, Unrelated DEF Evolves
  <2> QED
    BY <2>1, <2>2, <2>3, <2>4, PayPays
<1> QED
  BY <1>2, <1>3, <1>4, <1>5 DEF TreasuryCall

(* A signature decides the request that it names, on the terms it names.   *)
LEMMA SignedDecision ==
  ASSUME FlowInv, NEW sig \in signed, CheckSig(sig), NEW status \in Status,
         sig.swarm \in Swarm, Pending(world, sig.swarm, sig.request),
         \/ /\ sig.kind = "approve" /\ status = "approved"
            /\ world.requests[sig.swarm][sig.request].amount = sig.amount
            /\ world.requests[sig.swarm][sig.request].requester = sig.to
         \/ sig.kind = "reject" /\ status = "rejected"
  PROVE  LET w == Decide(Consume(sig), sig.swarm, sig.request, status) IN
         w \in World /\ Evolves(w) /\ w.balance = world.balance
<1> DEFINE s == sig.swarm
           r == sig.request
           u == Spend(world, sig)
           w == Decide(u, s, r, status)
<1>1. /\ world \in World /\ Sound(world) /\ SpentOnce(world) /\ Decided(world)
      /\ sig \in Signature /\ sig.nonce = world.nonce[sig.treasury]
      /\ world.landed \subseteq signed
  BY DEF FlowInv, Sound, CheckSig
<1>2. /\ u \in World /\ u.landed = world.landed \cup {sig} /\ u.requests = world.requests
      /\ u.balance = world.balance
  BY <1>1, SpendTyped
<1>3. SpentOnce(u)
  BY <1>1, SpendOnce
<1>4. Consume(sig) = u
  BY DEF Consume, Spend
<1> HIDE DEF u
<1>5. Pending(u, s, r)
  BY <1>2 DEF Pending
<1>6. /\ w \in World /\ w.landed = u.landed /\ w.nonce = u.nonce /\ w.balance = u.balance
      /\ Keeps(u, w)
      /\ r \in DOMAIN w.requests[s]
      /\ w.requests[s][r].requester = u.requests[s][r].requester
      /\ w.requests[s][r].amount = u.requests[s][r].amount
      /\ w.requests[s][r].status = status
  <2> HIDE DEF w, s, r
  <2>1. s \in Swarm
    BY DEF s
  <2> QED
    BY <1>2, <1>5, <2>1, DecideTyped DEF w
<1> HIDE DEF w
<1>7. Keeps(world, w)
  <2>1. Keeps(world, u)
    BY <1>2 DEF Keeps
  <2> QED
    BY <1>6, <2>1, KeepsOrder
<1>8. Decided(w)
  <2> SUFFICES ASSUME NEW g \in w.landed, g.kind \in {"approve", "reject"}
               PROVE  /\ g.swarm \in Swarm /\ g.request \in DOMAIN w.requests[g.swarm]
                      /\ LET req == w.requests[g.swarm][g.request] IN
                         /\ g.kind = "approve" => /\ req.requester = g.to /\ req.amount = g.amount
                                                  /\ req.status = "approved"
                         /\ g.kind = "reject" => req.status = "rejected"
    BY DEF Decided
  <2>1. CASE g \in world.landed
    BY <1>1, <1>7, <2>1 DEF Decided, Keeps
  <2>2. CASE g = sig
    <3>1. u.requests[s][r] = world.requests[s][r]
      BY <1>2
    <3> QED
      BY <1>6, <2>2, <3>1
  <2> QED
    BY <1>2, <1>6, <2>1, <2>2
<1>9. SpentOnce(w)
  BY <1>3, <1>6, SpentKept
<1>10. Evolves(w)
  BY <1>1, <1>2, <1>6, <1>7, <1>8, <1>9 DEF Evolves, Sound
<1> QED
  BY <1>2, <1>4, <1>6, <1>10 DEF w

LEMMA SignedCalls ==
  ASSUME FlowInv, NEW c \in Account, SignedCall(c)
  PROVE  Calls \/ Pays
<1>1. /\ world \in World /\ Sound(world)
      /\ \A sig \in signed : sig \in Signature /\ sig.treasury \in Treasury
  BY DEF FlowInv, Sound, Signature
<1>2. ASSUME NEW sig \in signed, NEW s \in Swarm, ApproveFundRequestWithSig(c, sig, s)
      PROVE  Pays
  <2> DEFINE w == Decide(Consume(sig), s, sig.request, "approved")
             req == world.requests[s][sig.request]
  <2>1. /\ Pending(world, s, sig.request) /\ s = sig.swarm /\ sig.kind = "approve" /\ CheckSig(sig)
        /\ req.amount = sig.amount /\ req.requester = sig.to
        /\ Pay(w, sig.treasury, req.requester, req.amount)
    BY <1>2 DEF ApproveFundRequestWithSig, PayRequest, SignedSwarm
  <2>2. req.requester \in Account \cup Treasury /\ req.amount \in Nat
    BY <1>1, <2>1, Payee
  <2>3. w \in World /\ Evolves(w) /\ w.balance = world.balance
    <3>1. "approved" \in Status
      BY DEF Status
    <3> QED
      BY <2>1, <3>1, SignedDecision
  <2> HIDE DEF w, req
  <2> QED
    BY <1>1, <2>1, <2>2, <2>3, PayPays
<1>3. ASSUME NEW sig \in signed, NEW s \in Swarm, RejectFundRequestWithSig(c, sig, s)
      PROVE  Calls
  <2> DEFINE w == Decide(Consume(sig), s, sig.request, "rejected")
  <2>1. /\ Pending(world, s, sig.request) /\ s = sig.swarm /\ sig.kind = "reject" /\ CheckSig(sig)
        /\ BecomesWorld(w)
    BY <1>3 DEF RejectFundRequestWithSig, RejectRequest, SignedSwarm
  <2>2. w \in World /\ Evolves(w)
    <3>1. "rejected" \in Status
      BY DEF Status
    <3> QED
      BY <2>1, <3>1, SignedDecision
  <2> HIDE DEF w
  <2> QED
    BY <2>1, <2>2 DEF Calls
<1>4. ASSUME NEW sig \in signed, WithdrawWithSig(c, sig)
      PROVE  Pays
  <2> DEFINE u == Spend(world, sig)
             w == [u EXCEPT !.net = @ - Outside(sig.to, sig.amount)]
  <2>1. /\ sig.kind = "withdraw" /\ CheckSig(sig) /\ Pay(w, sig.treasury, sig.to, sig.amount)
    BY <1>4 DEF WithdrawWithSig, TakeOut, Consume, Spend
  <2>2. /\ sig \in Signature /\ sig.to \in Account \cup Treasury /\ sig.amount \in Nat
        /\ Outside(sig.to, sig.amount) \in Nat /\ sig.nonce = world.nonce[sig.treasury]
    BY <1>1, <2>1, FlowAssumption DEF FlowInv, Signature, Outside, CheckSig
  <2>3. /\ u \in World /\ u.landed = world.landed \cup {sig} /\ u.requests = world.requests
        /\ u.balance = world.balance
    BY <1>1, <2>2, SpendTyped
  <2>4. SpentOnce(u)
    BY <1>1, <2>2, SpendOnce DEF Sound
  <2> HIDE DEF u
  <2>5. /\ w \in World /\ w.landed = u.landed /\ w.requests = u.requests /\ w.nonce = u.nonce
        /\ w.balance = u.balance
    <3>1. u.net - Outside(sig.to, sig.amount) \in Int
      BY <2>2, <2>3 DEF World
    <3> QED
      BY <2>3, <3>1 DEF World
  <2> HIDE DEF w
  <2>6. SpentOnce(w) /\ Keeps(world, w)
    BY <2>3, <2>4, <2>5, SpentKept DEF Keeps
  <2>7. Decided(w)
    BY <1>1, <2>1, <2>3, <2>5 DEF Sound, Decided
  <2>8. Evolves(w)
    BY <1>1, <2>3, <2>5, <2>6, <2>7 DEF Evolves, Sound
  <2> QED
    BY <1>1, <2>1, <2>2, <2>3, <2>5, <2>8, PayPays
<1> QED
  BY <1>2, <1>3, <1>4 DEF SignedCall

-----------------------------------------------------------------------------
(* The invariant.                                                          *)

LEMMA FlowInit ==
  Init => FlowInv
<1> SUFFICES ASSUME Init PROVE FlowInv
  OBVIOUS
<1>1. PICK n \in Int : n = Funds * Cardinality(Treasury)
  <2>1. Cardinality(Treasury) \in Nat
    BY FlowAssumption, FS_CardinalityType
  <2> QED
    BY <2>1, FlowAssumption
<1>2. [x \in Account \cup Treasury |-> IF x \in Treasury THEN Funds ELSE 0]
         \in [Account \cup Treasury -> Nat]
  BY FlowAssumption
<1>3. [s \in Swarm |-> <<>>] \in [Swarm -> Seq(Request)]
  BY EmptySeq
<1>4. world \in World
  BY <1>1, <1>2, <1>3 DEF Init, World
<1>5. /\ world.landed = {} /\ \A t \in Treasury : world.nonce[t] = 0
      /\ stack = <<>> /\ signed = {} /\ expired = {}
  BY DEF Init
<1>6. SpentOnce(world)
  <2> SUFFICES ASSUME NEW t \in Treasury
               PROVE  /\ IsFiniteSet(SpentBy(world, t))
                      /\ world.nonce[t] = Cardinality(SpentBy(world, t))
                      /\ {sig.nonce : sig \in SpentBy(world, t)} = 0..(world.nonce[t] - 1)
    BY DEF SpentOnce
  <2>1. SpentBy(world, t) = {}
    BY <1>5 DEF SpentBy
  <2>2. {sig.nonce : sig \in SpentBy(world, t)} = {} /\ 0..(0 - 1) = {}
    BY <2>1
  <2> QED
    BY <1>5, <2>1, <2>2, FS_EmptySet
<1>7. stack \in Seq(Frame) /\ Len(stack) = 0
  BY <1>5, EmptySeq
<1> QED
  BY <1>4, <1>5, <1>6, <1>7 DEF FlowInv, Sound, Decided

LEMMA CallsKeep ==
  ASSUME FlowInv, Calls
  PROVE  FlowInv' /\ Keeps(Committed, Committed')
<1>1. PICK w \in World : Evolves(w) /\ BecomesWorld(w)
  BY DEF Calls
<1>2. world' = w /\ UNCHANGED <<stack, signed, expired>>
  BY <1>1 DEF BecomesWorld
<1>3. Sound(w)' /\ Keeps(world, w)
  BY <1>1, <1>2 DEF Evolves, Sound
<1>4. \A i \in 1..Len(stack) : Sound(stack[i].saved)'
  BY <1>2 DEF FlowInv, Sound
<1>5. \A i \in 1..Len(stack) : Keeps(stack[i].saved, world')
  BY <1>2, <1>3, KeepsOrder DEF FlowInv
<1>6. Sound(world)'
  BY <1>2, <1>3 DEF Sound
<1>7. FlowInv'
  BY <1>2, <1>4, <1>5, <1>6 DEF FlowInv
<1>8. Keeps(Committed, Committed')
  BY <1>2, <1>3, KeepsOrder DEF Committed
<1> QED
  BY <1>7, <1>8

LEMMA PaysKeep ==
  ASSUME FlowInv, Pays
  PROVE  FlowInv' /\ Keeps(Committed, Committed')
<1>1. PICK w \in World, t \in Treasury, to \in Account \cup Treasury :
        /\ Evolves(w)
        /\ world' = w
        /\ stack' = Append(stack, [treasury |-> t, to |-> to, saved |-> world])
        /\ UNCHANGED <<signed, expired>>
  BY DEF Pays
<1> DEFINE frame == [treasury |-> t, to |-> to, saved |-> world]
<1>2. frame \in Frame /\ frame.saved = world
  BY DEF FlowInv, Sound, Frame
<1> HIDE DEF frame
<1>3. PICK n \in Nat : n = Len(stack)
  BY LenProperties DEF FlowInv
<1>4. /\ stack' \in Seq(Frame) /\ Len(stack') = n + 1
      /\ stack'[n + 1].saved = world
      /\ \A i \in 1..n : stack'[i] = stack[i]
  BY <1>1, <1>2, <1>3, AppendProperties DEF FlowInv, frame
<1>5. Sound(world) /\ Keeps(world, w) /\ Keeps(world, world) /\ Sound(w)
  BY <1>1, KeepsOrder DEF FlowInv, Evolves
<1>6. \A i \in 1..n :
        /\ Sound(stack'[i].saved) /\ Keeps(stack'[i].saved, world)
        /\ \A j \in i..n : Keeps(stack'[i].saved, stack'[j].saved)
  BY <1>3, <1>4 DEF FlowInv
<1>7. \A i \in 1..(n + 1) : Sound(stack'[i].saved) /\ Keeps(stack'[i].saved, world)
  <2> SUFFICES ASSUME NEW i \in 1..(n + 1)
               PROVE  Sound(stack'[i].saved) /\ Keeps(stack'[i].saved, world)
    OBVIOUS
  <2>1. CASE i = n + 1
    BY <1>4, <1>5, <2>1
  <2>2. CASE i \in 1..n
    BY <1>6, <2>2
  <2> QED
    BY <2>1, <2>2
<1>8. \A i \in 1..(n + 1) : \A j \in i..(n + 1) : Keeps(stack'[i].saved, stack'[j].saved)
  <2> SUFFICES ASSUME NEW i \in 1..(n + 1), NEW j \in i..(n + 1)
               PROVE  Keeps(stack'[i].saved, stack'[j].saved)
    OBVIOUS
  <2>1. CASE j = n + 1
    BY <1>4, <1>7, <2>1
  <2>2. CASE j \in 1..n
    <3>1. i \in 1..n /\ j \in i..n
      BY <2>2
    <3> QED
      BY <1>6, <3>1
  <2> QED
    BY <2>1, <2>2
<1>9. \A i \in 1..(n + 1) : Keeps(stack'[i].saved, world')
  BY <1>1, <1>5, <1>7, KeepsOrder
<1>10. \A v : Sound(v) => Sound(v)'
  BY <1>1 DEF Sound
<1>11. Sound(world)'
  BY <1>1, <1>5 DEF Sound
<1>12. \A i \in 1..Len(stack') :
         /\ Sound(stack[i].saved)' /\ Keeps(stack'[i].saved, world')
         /\ \A j \in i..Len(stack') : Keeps(stack'[i].saved, stack'[j].saved)
  BY <1>1, <1>4, <1>7, <1>8, <1>9 DEF Sound
<1>13. FlowInv'
  BY <1>1, <1>4, <1>11, <1>12 DEF FlowInv
<1>14. Keeps(Committed, Committed')
  <2>1. stack' # <<>>
    BY <1>3, <1>4, EmptySeq
  <2>2. CASE stack = <<>>
    BY <1>3, <1>4, <1>5, <2>1, <2>2 DEF Committed
  <2>3. CASE stack # <<>>
    <3>1. n # 0
      BY <1>3, <2>3, EmptySeq DEF FlowInv
    <3> QED
      BY <1>4, <2>1, <2>3, <3>1, KeepsOrder DEF Committed
  <2> QED
    BY <2>2, <2>3
<1> QED
  BY <1>13, <1>14

(* What is left when the innermost payout is over.                         *)
LEMMA Popped ==
  ASSUME FlowInv, stack # <<>>
  PROVE  LET n == Len(stack) IN
         /\ n \in Nat \ {0} /\ Top = stack[n] /\ Top \in Frame
         /\ Front(stack) \in Seq(Frame) /\ Len(Front(stack)) = n - 1
         /\ \A i \in 1..(n - 1) : Front(stack)[i] = stack[i]
         /\ Front(stack) = <<>> <=> n = 1
<1>1. stack \in Seq(Frame)
  BY DEF FlowInv
<1>2. Len(stack) \in Nat \ {0}
  BY <1>1, LenProperties, EmptySeq
<1>3. Top = stack[Len(stack)] /\ Top \in Frame
  BY <1>1, <1>2, ElementOfSeq DEF Top
<1>4. Front(stack) = SubSeq(stack, 1, Len(stack) - 1)
  BY DEF Front
<1>5. /\ Front(stack) \in Seq(Frame) /\ Len(Front(stack)) = Len(stack) - 1
      /\ \A i \in 1..(Len(stack) - 1) : Front(stack)[i] = stack[i]
  <2>1. PICK n \in Nat \ {0} : n = Len(stack)
    BY <1>2
  <2>2. n - 1 \in Int /\ 1 \in Int /\ \A i \in 1..(n - 1) : i \in 1..n /\ (1 + i) - 1 = i
    OBVIOUS
  <2>3. \A i \in 1..(n - 1) : stack[i] \in Frame
    BY <1>1, <2>1, <2>2, ElementOfSeq
  <2>4. /\ SubSeq(stack, 1, n - 1) \in Seq(Frame)
        /\ Len(SubSeq(stack, 1, n - 1)) = IF 1 <= n - 1 THEN ((n - 1) - 1) + 1 ELSE 0
        /\ \A i \in 1..(((n - 1) - 1) + 1) : SubSeq(stack, 1, n - 1)[i] = stack[(1 + i) - 1]
    BY <2>2, <2>3, SubSeqProperties
  <2>5. ((n - 1) - 1) + 1 = n - 1 /\ (IF 1 <= n - 1 THEN n - 1 ELSE 0) = n - 1
    BY <2>1
  <2> QED
    BY <1>4, <2>1, <2>2, <2>4, <2>5
<1>6. Front(stack) = <<>> <=> Len(Front(stack)) = 0
  BY <1>5, EmptySeq
<1> QED
  BY <1>2, <1>3, <1>5, <1>6

(* The stack has lost its top and the world is a later one than all that   *)
(* is saved below.                                                         *)
LEMMA PoppedKeeps ==
  ASSUME FlowInv, stack # <<>>, stack' = Front(stack), UNCHANGED <<signed, expired>>,
         Sound(world'), \A i \in 1..Len(stack) : Keeps(stack[i].saved, world')
  PROVE  FlowInv' /\ Keeps(Committed, Committed')
<1>1. PICK n \in Nat \ {0} : n = Len(stack)
  BY Popped
<1>2. /\ stack' \in Seq(Frame) /\ Len(stack') = n - 1
      /\ \A i \in 1..(n - 1) : stack'[i] = stack[i]
      /\ stack' = <<>> <=> n = 1
  BY <1>1, Popped
<1>3. Sound(world)'
  BY DEF Sound
<1>4. \A i \in 1..(n - 1) :
        /\ Sound(stack[i].saved)' /\ Keeps(stack'[i].saved, world')
        /\ \A j \in i..(n - 1) : Keeps(stack'[i].saved, stack'[j].saved)
  <2> SUFFICES ASSUME NEW i \in 1..(n - 1)
               PROVE  /\ Sound(stack[i].saved)' /\ Keeps(stack'[i].saved, world')
                      /\ \A j \in i..(n - 1) : Keeps(stack'[i].saved, stack'[j].saved)
    OBVIOUS
  <2>1. /\ i \in 1..n /\ stack'[i] = stack[i]
        /\ \A j \in i..(n - 1) : j \in i..n /\ stack'[j] = stack[j]
    BY <1>2
  <2>2. Sound(stack'[i].saved)
    BY <1>1, <2>1 DEF FlowInv
  <2> QED
    BY <1>1, <2>1, <2>2 DEF FlowInv, Sound
<1>5. FlowInv'
  BY <1>2, <1>3, <1>4 DEF FlowInv
<1>6. Keeps(Committed, Committed')
  <2>1. CASE n = 1
    BY <1>1, <1>2, <2>1 DEF Committed
  <2>2. CASE n # 1
    BY <1>2, <2>2, KeepsOrder DEF Committed
  <2> QED
    BY <2>1, <2>2
<1> QED
  BY <1>5, <1>6

LEMMA ReturnKeeps ==
  ASSUME FlowInv, Return
  PROVE  FlowInv' /\ Keeps(Committed, Committed')
<1> DEFINE w == Unlock(world, Top.treasury)
<1>1. stack # <<>> /\ world' = w /\ stack' = Front(stack) /\ UNCHANGED <<signed, expired>>
  BY DEF Return
<1>2. Top.treasury \in Treasury
  BY <1>1, Popped DEF Frame
<1>3. world \in World /\ Sound(world)
  BY DEF FlowInv, Sound
<1>4. w \in World /\ w.requests = world.requests /\ w.landed = world.landed /\ w.nonce = world.nonce
  BY <1>2, <1>3, LockTyped
<1> HIDE DEF w
<1>5. Sound(w) /\ Keeps(world, w)
  BY <1>3, <1>4, Unrelated
<1>6. \A i \in 1..Len(stack) : Keeps(stack[i].saved, w)
  BY <1>5, KeepsOrder DEF FlowInv
<1> QED
  BY <1>1, <1>5, <1>6, PoppedKeeps

LEMMA RevertKeeps ==
  ASSUME FlowInv, Revert
  PROVE  FlowInv' /\ Keeps(Committed, Committed')
<1>1. stack # <<>> /\ world' = Top.saved /\ stack' = Front(stack) /\ UNCHANGED <<signed, expired>>
  BY DEF Revert
<1>2. PICK n \in Nat \ {0} : n = Len(stack) /\ Top = stack[n]
  BY <1>1, Popped
<1>3. n \in 1..n /\ \A i \in 1..n : n \in i..n
  OBVIOUS
<1>4. Sound(world') /\ \A i \in 1..Len(stack) : Keeps(stack[i].saved, world')
  BY <1>1, <1>2, <1>3 DEF FlowInv
<1> QED
  BY <1>1, <1>4, PoppedKeeps

(* A signature more, or a deadline: no world changes.                      *)
LEMMA SignatureKeeps ==
  ASSUME FlowInv, UNCHANGED <<world, stack>>, signed \subseteq signed', signed' \subseteq Signature,
         expired' \subseteq signed',
         \A sig \in signed' : sig.kind = "withdraw" => sig.to \in Account \cup Treasury
  PROVE  FlowInv' /\ Keeps(Committed, Committed')
<1>1. \A v : Sound(v) => v \in World /\ v.landed \subseteq signed' /\ SpentOnce(v) /\ Decided(v)
  BY DEF Sound
<1>2. Sound(world)' /\ \A i \in 1..Len(stack) : Sound(stack[i].saved)'
  BY <1>1 DEF FlowInv, Sound
<1>3. FlowInv'
  BY <1>2 DEF FlowInv
<1>4. Committed' = Committed
  BY DEF Committed
<1> QED
  BY <1>3, <1>4, KeepsOrder

LEMMA Rejection ==
  ASSUME NEW sig \in Signature
  PROVE  LET no == [sig EXCEPT !.kind = "reject", !.amount = 0, !.to = NoAddress] IN
         no \in Signature /\ no.kind = "reject"
BY DEF Signature

LEMMA OwnerSignsKeeps ==
  ASSUME FlowInv, OwnerSigns
  PROVE  FlowInv' /\ Keeps(Committed, Committed')
<1>1. world \in World /\ world.nonce \in [Treasury -> Nat]
      /\ signed \subseteq Signature /\ expired \subseteq signed
      /\ \A sig \in signed : sig.kind = "withdraw" => sig.to \in Account \cup Treasury
  BY DEF FlowInv, Sound, World
<1>2. ASSUME NEW sig \in Signature, sig.kind = "withdraw" => sig.to \in Account \cup Treasury,
             Sign(sig)
      PROVE  FlowInv' /\ Keeps(Committed, Committed')
  <2>1. signed' = signed \cup {sig} /\ UNCHANGED <<world, stack, expired>>
    BY <1>2 DEF Sign
  <2>2. /\ UNCHANGED <<world, stack>> /\ signed \subseteq signed' /\ signed' \subseteq Signature
        /\ expired' \subseteq signed'
        /\ \A g \in signed' : g.kind = "withdraw" => g.to \in Account \cup Treasury
    BY <1>1, <1>2, <2>1
  <2> QED
    BY <2>2, SignatureKeeps
<1>3. ASSUME NEW t \in Treasury, NEW s \in Swarm, NEW r \in RequestId, Pending(world, s, r),
             LET req == world.requests[s][r]
                 sig == [kind |-> "approve", treasury |-> t, swarm |-> s, request |-> r,
                         amount |-> req.amount, to |-> req.requester, nonce |-> world.nonce[t]]
             IN  Sign(sig) \/ Sign([sig EXCEPT !.kind = "reject", !.amount = 0, !.to = NoAddress])
      PROVE  FlowInv' /\ Keeps(Committed, Committed')
  <2> DEFINE req == world.requests[s][r]
             sig == [kind |-> "approve", treasury |-> t, swarm |-> s, request |-> r,
                     amount |-> req.amount, to |-> req.requester, nonce |-> world.nonce[t]]
             no == [sig EXCEPT !.kind = "reject", !.amount = 0, !.to = NoAddress]
  <2>1. req \in Request
    BY <1>1, <1>3, Payee
  <2>2. req.amount \in Amount /\ req.requester \in Account /\ world.nonce[t] \in Nat
    BY <1>1, <2>1, FlowAssumption DEF Request
  <2>3. Sign(sig) \/ Sign(no)
    BY <1>3
  <2> HIDE DEF req
  <2>4. sig \in Signature /\ sig.kind # "withdraw"
    BY <2>2 DEF Signature
  <2> HIDE DEF sig
  <2>5. no \in Signature /\ no.kind = "reject"
    BY <2>4, Rejection
  <2> HIDE DEF no
  <2> QED
    BY <1>2, <2>3, <2>4, <2>5
<1>4. ASSUME NEW t \in Treasury, NEW to \in Account \cup Treasury, NEW v \in Amount,
             Sign([kind |-> "withdraw", treasury |-> t, swarm |-> NoAddress, request |-> 0,
                   amount |-> v, to |-> to, nonce |-> world.nonce[t]])
      PROVE  FlowInv' /\ Keeps(Committed, Committed')
  <2> DEFINE sig == [kind |-> "withdraw", treasury |-> t, swarm |-> NoAddress, request |-> 0,
                     amount |-> v, to |-> to, nonce |-> world.nonce[t]]
  <2>1. sig \in Signature /\ sig.to \in Account \cup Treasury
    BY <1>1 DEF Signature
  <2>2. Sign(sig)
    BY <1>4
  <2> HIDE DEF sig
  <2> QED
    BY <1>2, <2>1, <2>2
<1> QED
  BY <1>3, <1>4 DEF OwnerSigns

LEMMA FlowNext ==
  ASSUME FlowInv, [Next]_vars
  PROVE  FlowInv' /\ Keeps(Committed, Committed')
<1>1. ASSUME NEW c \in Account, SwarmCall(c) \/ TreasuryCall(c) \/ SignedCall(c)
      PROVE  FlowInv' /\ Keeps(Committed, Committed')
  BY <1>1, SwarmCalls, TreasuryCalls, SignedCalls, CallsKeep, PaysKeep
<1>2. ASSUME NEW sig \in signed, DeadlinePasses(sig)
      PROVE  FlowInv' /\ Keeps(Committed, Committed')
  <2>1. /\ UNCHANGED <<world, stack>> /\ signed \subseteq signed' /\ signed' \subseteq Signature
        /\ expired' \subseteq signed'
        /\ \A g \in signed' : g.kind = "withdraw" => g.to \in Account \cup Treasury
    BY <1>2 DEF FlowInv, DeadlinePasses
  <2> QED
    BY <2>1, SignatureKeeps
<1>3. CASE UNCHANGED vars
  <2>1. /\ UNCHANGED <<world, stack>> /\ signed \subseteq signed' /\ signed' \subseteq Signature
        /\ expired' \subseteq signed'
        /\ \A g \in signed' : g.kind = "withdraw" => g.to \in Account \cup Treasury
    BY <1>3 DEF FlowInv, vars
  <2> QED
    BY <2>1, SignatureKeeps
<1> QED
  BY <1>1, <1>2, <1>3, ReturnKeeps, RevertKeeps, OwnerSignsKeeps DEF Next

LEMMA FlowAlways ==
  Spec => []FlowInv
<1>1. FlowInv /\ [Next]_vars => FlowInv'
  BY FlowNext
<1> QED
  BY <1>1, FlowInit, PTL DEF Spec

-----------------------------------------------------------------------------
(* Sums.                                                                   *)

LEMMA UnitsFinite ==
  ASSUME NEW S, IsFiniteSet(S), NEW f \in [S -> Nat]
  PROVE  IsFiniteSet(Units(f)) /\ Total(f) \in Nat
<1>1. ASSUME NEW x \in S PROVE IsFiniteSet({x} \X (1..f[x]))
  <2>1. f[x] \in Int /\ 1 \in Int
    OBVIOUS
  <2>2. IsFiniteSet(1..f[x])
    BY <2>1, FS_Interval
  <2> QED
    BY <2>2, FS_Singleton, FS_Product
<1> DEFINE parts == {{x} \X (1..f[x]) : x \in S}
<1>2. IsFiniteSet(parts)
  <2> DEFINE part == [x \in S |-> {x} \X (1..f[x])]
  <2>1. part \in Surjection(S, parts)
    BY DEF Surjection
  <2> QED
    BY <2>1, FS_Surjection
<1>3. \A T \in parts : IsFiniteSet(T)
  BY <1>1
<1>4. Units(f) = UNION parts
  BY DEF Units
<1> HIDE DEF parts
<1> QED
  BY <1>2, <1>3, <1>4, FS_UNION, FS_CardinalityType DEF Total

(* What one of the summands adds.                                          *)
LEMMA TotalWithout ==
  ASSUME NEW S, IsFiniteSet(S), NEW f \in [S -> Nat], NEW x \in S
  PROVE  Total(f) = f[x] + Total([y \in S \ {x} |-> f[y]])
<1> DEFINE g == [y \in S \ {x} |-> f[y]]
           own == {x} \X (1..f[x])
<1>1. IsFiniteSet(S \ {x}) /\ g \in [S \ {x} -> Nat]
  BY FS_RemoveElement
<1>2. IsFiniteSet(Units(g)) /\ Cardinality(Units(g)) \in Nat
  BY <1>1, UnitsFinite DEF Total
<1>3. f[x] \in Nat
  OBVIOUS
<1>4. IsFiniteSet(own) /\ Cardinality(own) = f[x]
  <2>1. IsFiniteSet({x}) /\ Cardinality({x}) = 1
    BY FS_Singleton
  <2>2. IsFiniteSet(1..f[x]) /\ Cardinality(1..f[x]) = f[x]
    <3>1. PICK n \in Nat : n = f[x]
      BY <1>3
    <3>2. 1 \in Int /\ n \in Int
      OBVIOUS
    <3>3. /\ IsFiniteSet(1..n)
          /\ 1 > n => Cardinality(1..n) = 0
          /\ ~(1 > n) => Cardinality(1..n) = n - 1 + 1
      BY <3>2, FS_Interval
    <3>4. Cardinality(1..n) = n
      BY <3>3
    <3> QED
      BY <3>1, <3>3, <3>4
  <2>3. IsFiniteSet(own) /\ Cardinality(own) = Cardinality({x}) * Cardinality(1..f[x])
    BY <2>1, <2>2, FS_Product, Zenon
  <2>4. Cardinality(own) = 1 * f[x]
    BY <2>1, <2>2, <2>3, Zenon
  <2> QED
    BY <1>3, <2>3, <2>4
<1>5. Units(f) = own \cup Units(g)
  <2>1. ASSUME NEW u PROVE u \in Units(f) <=> u \in own \cup Units(g)
    BY DEF Units
  <2> QED
    BY <2>1
<1>6. own \cap Units(g) = {}
  BY DEF Units
<1> HIDE DEF own, g
<1>7. Cardinality(own \cap Units(g)) = 0
  BY <1>6, FS_EmptySet
<1>8. Cardinality(own \cup Units(g)) = Cardinality(own) + Cardinality(Units(g)) - 0
  BY <1>2, <1>4, <1>7, FS_Union
<1> QED
  BY <1>2, <1>3, <1>4, <1>5, <1>8 DEF Total, g

LEMMA TotalChanges ==
  ASSUME NEW S, IsFiniteSet(S), NEW f \in [S -> Nat], NEW g \in [S -> Nat], NEW x \in S,
         \A y \in S \ {x} : g[y] = f[y]
  PROVE  Total(g) = Total(f) - f[x] + g[x]
<1>1. [y \in S \ {x} |-> g[y]] = [y \in S \ {x} |-> f[y]]
  OBVIOUS
<1>2. Total(f) = f[x] + Total([y \in S \ {x} |-> f[y]])
  BY TotalWithout
<1>3. Total(g) = g[x] + Total([y \in S \ {x} |-> f[y]])
  BY <1>1, TotalWithout
<1>4. f[x] \in Nat /\ g[x] \in Nat /\ Total([y \in S \ {x} |-> f[y]]) \in Nat
  <2>1. IsFiniteSet(S \ {x}) /\ [y \in S \ {x} |-> f[y]] \in [S \ {x} -> Nat]
    BY FS_RemoveElement
  <2> QED
    BY <2>1, UnitsFinite
<1> QED
  BY <1>2, <1>3, <1>4

LEMMA TotalGrows ==
  ASSUME NEW S, IsFiniteSet(S), NEW f \in [S -> Nat], NEW x, x \notin S,
         NEW g \in [S \cup {x} -> Nat], \A y \in S : g[y] = f[y]
  PROVE  Total(g) = Total(f) + g[x]
<1>1. IsFiniteSet(S \cup {x})
  BY FS_AddElement
<1>2. Total(g) = g[x] + Total([y \in (S \cup {x}) \ {x} |-> g[y]])
  BY <1>1, TotalWithout
<1>3. [y \in (S \cup {x}) \ {x} |-> g[y]] = f
  OBVIOUS
<1>4. g[x] \in Nat /\ Total(f) \in Nat
  BY UnitsFinite
<1> QED
  BY <1>2, <1>3, <1>4

-----------------------------------------------------------------------------
(* The money of a world.                                                   *)

LEMMA HeldTyped ==
  ASSUME NEW w \in World
  PROVE  /\ Held(w) \in [Treasury -> Nat] /\ IsFiniteSet(Treasury) /\ Total(Held(w)) \in Nat
         /\ w.net \in Int
<1>1. Held(w) \in [Treasury -> Nat] /\ w.net \in Int
  BY DEF World, Held
<1> QED
  BY <1>1, FlowAssumption, UnitsFinite

LEMMA PaidTyped ==
  ASSUME NEW w \in World
  PROVE  /\ IsFiniteSet(Approved(w)) /\ Paid(w) \in [Approved(w) -> Nat]
         /\ Total(Paid(w)) \in Nat
<1>1. IsFiniteSet(Approved(w))
  <2>1. IsFiniteSet(RequestId)
    BY FlowAssumption, FS_Interval DEF RequestId
  <2>2. IsFiniteSet(Swarm \X RequestId)
    BY <2>1, FlowAssumption, FS_Product
  <2> QED
    BY <2>2, FS_Subset DEF Approved
<1>2. ASSUME NEW x \in Approved(w) PROVE w.requests[x[1]][x[2]].amount \in Nat
  <2>1. w.requests[x[1]] \in Seq(Request) /\ x[2] \in DOMAIN w.requests[x[1]]
    BY DEF Approved, World
  <2>2. w.requests[x[1]][x[2]] \in Request
    BY <2>1, LenProperties, ElementOfSeq
  <2> QED
    BY <2>2, FlowAssumption DEF Request
<1>3. Paid(w) \in [Approved(w) -> Nat]
  BY <1>2 DEF Paid
<1> QED
  BY <1>1, <1>3, UnitsFinite

(* What each operation leaves of the books.                                *)
SameBooks(v, w) == w.balance = v.balance /\ w.net = v.net /\ Paid(w) = Paid(v)

LEMMA BooksKept ==
  ASSUME NEW v, NEW w, Balanced(v), SameBooks(v, w)
  PROVE  Balanced(w)
<1>1. Held(w) = Held(v)
  BY DEF SameBooks, Held
<1> QED
  BY <1>1 DEF SameBooks, Balanced

LEMMA SamePaid ==
  ASSUME NEW v, NEW w, w.requests = v.requests
  PROVE  Paid(w) = Paid(v)
<1>1. Approved(w) = Approved(v)
  BY DEF Approved
<1> QED
  BY <1>1 DEF Paid

LEMMA TransferMoney ==
  ASSUME NEW w \in World, NEW t \in Treasury, NEW to \in Account \cup Treasury,
         NEW v \in Nat, w.balance[t] >= v
  PROVE  Total(Held(Transfer(w, t, to, v))) = Total(Held(w)) - Outside(to, v)
<1> DEFINE x == Transfer(w, t, to, v)
<1>1. x \in World
  BY TransferTyped
<1>2. w.balance \in [Account \cup Treasury -> Nat] /\ w.balance[t] \in Nat
  BY DEF World
<1>3. x.balance = [w.balance EXCEPT ![t] = @ - v, ![to] = @ + v]
  BY DEF Transfer, World
<1>4. ASSUME NEW a \in Account \cup Treasury, a # t, a # to
      PROVE  x.balance[a] = w.balance[a]
  BY <1>2, <1>3, <1>4
<1>5. /\ to = t => x.balance[t] = w.balance[t]
      /\ to # t => x.balance[t] = w.balance[t] - v /\ x.balance[to] = w.balance[to] + v
  BY <1>2, <1>3
<1>6. /\ Held(w) \in [Treasury -> Nat] /\ Held(x) \in [Treasury -> Nat]
      /\ IsFiniteSet(Treasury) /\ Total(Held(w)) \in Nat /\ Total(Held(x)) \in Nat
  BY <1>1, HeldTyped
<1> HIDE DEF x
<1>7. \A a \in Treasury : Held(w)[a] = w.balance[a] /\ Held(x)[a] = x.balance[a]
  BY DEF Held
<1>8. CASE to = t
  <2>1. Held(x) = Held(w)
    BY <1>4, <1>5, <1>6, <1>7, <1>8
  <2> QED
    BY <1>6, <1>8, <2>1 DEF Outside, x
<1>9. CASE to \notin Treasury
  <2>1. Total(Held(x)) = Total(Held(w)) - w.balance[t] + x.balance[t]
    <3>1. \A a \in Treasury \ {t} : Held(x)[a] = Held(w)[a]
      BY <1>4, <1>7, <1>9
    <3> QED
      BY <1>6, <1>7, <3>1, TotalChanges
  <2> QED
    BY <1>2, <1>5, <1>6, <1>9, <2>1 DEF Outside, x
<1>10. CASE to \in Treasury /\ to # t
  <2> DEFINE m == [Held(w) EXCEPT ![t] = w.balance[t] - v]
  <2>1. /\ m \in [Treasury -> Nat] /\ m[t] = w.balance[t] - v
        /\ \A a \in Treasury \ {t} : m[a] = Held(w)[a]
    BY <1>2, <1>6
  <2> HIDE DEF m
  <2>2. Total(m) = Total(Held(w)) - w.balance[t] + (w.balance[t] - v)
    BY <1>6, <1>7, <2>1, TotalChanges
  <2>3. \A a \in Treasury \ {to} : Held(x)[a] = m[a]
    BY <1>4, <1>5, <1>7, <1>10, <2>1
  <2>4. Total(Held(x)) = Total(m) - m[to] + x.balance[to]
    BY <1>6, <1>7, <1>10, <2>1, <2>3, TotalChanges
  <2>5. m[to] = w.balance[to] /\ w.balance[to] \in Nat
    BY <1>2, <1>7, <1>10, <2>1
  <2> QED
    BY <1>2, <1>5, <1>6, <1>10, <2>2, <2>4, <2>5 DEF Outside, x
<1> QED
  BY <1>8, <1>9, <1>10

LEMMA PaidAppended ==
  ASSUME NEW w \in World, NEW s \in Swarm, NEW req, req.status = "pending"
  PROVE  SameBooks(w, [w EXCEPT !.requests[s] = Append(@, req)])
<1> DEFINE x == [w EXCEPT !.requests[s] = Append(@, req)]
<1>1. /\ w.requests \in [Swarm -> Seq(Request)]
      /\ x.balance = w.balance /\ x.net = w.net /\ DOMAIN x.requests = Swarm
      /\ x.requests[s] = Append(w.requests[s], req)
      /\ \A z \in Swarm : z # s => x.requests[z] = w.requests[z]
  BY DEF World
<1> HIDE DEF x
<1>2. /\ w.requests[s] \in Seq(Request \cup {req}) /\ Len(w.requests[s]) \in Nat
      /\ DOMAIN w.requests[s] = 1..Len(w.requests[s])
  BY <1>1, LenProperties
<1>3. /\ Len(x.requests[s]) = Len(w.requests[s]) + 1
      /\ DOMAIN x.requests[s] = 1..Len(w.requests[s]) + 1
      /\ \A i \in 1..Len(w.requests[s]) : x.requests[s][i] = w.requests[s][i]
      /\ x.requests[s][Len(w.requests[s]) + 1] = req
  BY <1>1, <1>2, AppendProperties, LenProperties
<1>4. ASSUME NEW z \in Swarm, NEW r \in RequestId
      PROVE  /\ <<z, r>> \in Approved(x) <=> <<z, r>> \in Approved(w)
             /\ <<z, r>> \in Approved(w) => x.requests[z][r] = w.requests[z][r]
  <2>1. CASE z # s
    BY <1>1, <2>1 DEF Approved
  <2>2. CASE z = s
    <3>1. r \in Nat
      BY FlowAssumption DEF RequestId
    <3>2. CASE r \in 1..Len(w.requests[s])
      BY <1>2, <1>3, <2>2, <3>2 DEF Approved
    <3>3. CASE r \notin 1..Len(w.requests[s])
      <4>1. r \in DOMAIN x.requests[s] => r = Len(w.requests[s]) + 1
        BY <1>2, <1>3, <3>1, <3>3
      <4> QED
        BY <1>2, <1>3, <2>2, <3>3, <4>1 DEF Approved
    <3> QED
      BY <3>2, <3>3
  <2> QED
    BY <2>1, <2>2
<1>5. Approved(x) = Approved(w)
  <2>1. Approved(x) \subseteq Swarm \X RequestId /\ Approved(w) \subseteq Swarm \X RequestId
    BY DEF Approved
  <2>2. \A y \in Swarm \X RequestId : \E z \in Swarm, q \in RequestId : y = <<z, q>>
    OBVIOUS
  <2>3. ASSUME NEW y \in Swarm \X RequestId PROVE y \in Approved(x) <=> y \in Approved(w)
    BY <1>4, <2>2
  <2> QED
    BY <2>1, <2>3
<1>6. \A y \in Approved(w) : x.requests[y[1]][y[2]].amount = w.requests[y[1]][y[2]].amount
  <2>1. \A y \in Approved(w) : \E z \in Swarm, r \in RequestId : y = <<z, r>>
    BY DEF Approved
  <2> QED
    BY <1>4, <2>1
<1>7. Paid(x) = Paid(w)
  BY <1>5, <1>6 DEF Paid
<1> QED
  BY <1>1, <1>7 DEF SameBooks, x

(* A decision changes one request, and of it the status.                   *)
LEMMA DecideOne ==
  ASSUME NEW w \in World, NEW s \in Swarm, NEW r, NEW status \in Status, Pending(w, s, r)
  PROVE  LET x == Decide(w, s, r, status) IN
         /\ x.net = w.net /\ x.balance = w.balance
         /\ \A z \in Swarm : DOMAIN x.requests[z] = DOMAIN w.requests[z]
         /\ \A z \in Swarm, q \in RequestId :
              <<z, q>> # <<s, r>> => x.requests[z][q] = w.requests[z][q]
         /\ x.requests[s][r].status = status
         /\ x.requests[s][r].amount = w.requests[s][r].amount
<1> DEFINE x == Decide(w, s, r, status)
<1>1. /\ w.requests \in [Swarm -> Seq(Request)] /\ w.requests[s] \in Seq(Request)
      /\ r \in DOMAIN w.requests[s]
  BY DEF World, Pending
<1>2. w.requests[s][r] \in Request
  BY <1>1, LenProperties, ElementOfSeq
<1>3. /\ x.net = w.net /\ x.balance = w.balance /\ DOMAIN x.requests = Swarm
      /\ x.requests[s] = [w.requests[s] EXCEPT ![r] = [w.requests[s][r] EXCEPT !.status = status]]
      /\ \A z \in Swarm : z # s => x.requests[z] = w.requests[z]
  BY <1>1 DEF Decide, World
<1> HIDE DEF x
<1>4. /\ DOMAIN x.requests[s] = DOMAIN w.requests[s]
      /\ \A q \in RequestId : q # r => x.requests[s][q] = w.requests[s][q]
  BY <1>1, <1>3
<1>5. x.requests[s][r] = [w.requests[s][r] EXCEPT !.status = status]
  BY <1>1, <1>3
<1>6. /\ x.requests[s][r].status = status
      /\ x.requests[s][r].amount = w.requests[s][r].amount
  BY <1>2, <1>5 DEF Request
<1> QED
  BY <1>3, <1>4, <1>6 DEF x

LEMMA RefusedBooks ==
  ASSUME NEW w \in World, NEW s \in Swarm, NEW r \in RequestId, NEW status \in Status,
         Pending(w, s, r), status # "approved"
  PROVE  SameBooks(w, Decide(w, s, r, status))
<1>1. PICK x : x = Decide(w, s, r, status)
  OBVIOUS
<1>2. /\ x.net = w.net /\ x.balance = w.balance
      /\ \A z \in Swarm : DOMAIN x.requests[z] = DOMAIN w.requests[z]
      /\ \A z \in Swarm, q \in RequestId :
           <<z, q>> # <<s, r>> => x.requests[z][q] = w.requests[z][q]
      /\ x.requests[s][r].status = status
  BY <1>1, DecideOne
<1>3. w.requests[s][r].status = "pending"
  BY DEF Pending
<1>4. ASSUME NEW z \in Swarm, NEW q \in RequestId
      PROVE  /\ <<z, q>> \in Approved(x) <=> <<z, q>> \in Approved(w)
             /\ <<z, q>> \in Approved(w) => x.requests[z][q] = w.requests[z][q]
  BY <1>2, <1>3 DEF Approved
<1>5. Approved(x) = Approved(w)
  <2>1. Approved(x) \subseteq Swarm \X RequestId /\ Approved(w) \subseteq Swarm \X RequestId
    BY DEF Approved
  <2>2. \A y \in Swarm \X RequestId : \E z \in Swarm, q \in RequestId : y = <<z, q>>
    OBVIOUS
  <2>3. ASSUME NEW y \in Swarm \X RequestId PROVE y \in Approved(x) <=> y \in Approved(w)
    BY <1>4, <2>2
  <2> QED
    BY <2>1, <2>3
<1>6. \A y \in Approved(w) : x.requests[y[1]][y[2]].amount = w.requests[y[1]][y[2]].amount
  <2>1. \A y \in Approved(w) : \E z \in Swarm, q \in RequestId : y = <<z, q>>
    BY DEF Approved
  <2> QED
    BY <1>4, <2>1
<1>7. Paid(x) = Paid(w)
  BY <1>5, <1>6 DEF Paid
<1> QED
  BY <1>1, <1>2, <1>7 DEF SameBooks

LEMMA ApprovedBooks ==
  ASSUME NEW w \in World, NEW s \in Swarm, NEW r \in RequestId, Pending(w, s, r)
  PROVE  LET x == Decide(w, s, r, "approved") IN
         /\ x.net = w.net /\ x.balance = w.balance
         /\ Total(Paid(x)) = Total(Paid(w)) + w.requests[s][r].amount
<1>1. PICK x : x = Decide(w, s, r, "approved")
  OBVIOUS
<1>2. "approved" \in Status
  BY DEF Status
<1>3. /\ x \in World
      /\ x.net = w.net /\ x.balance = w.balance
      /\ \A z \in Swarm : DOMAIN x.requests[z] = DOMAIN w.requests[z]
      /\ \A z \in Swarm, q \in RequestId :
           <<z, q>> # <<s, r>> => x.requests[z][q] = w.requests[z][q]
      /\ x.requests[s][r].status = "approved"
      /\ x.requests[s][r].amount = w.requests[s][r].amount
  BY <1>1, <1>2, DecideOne, DecideTyped
<1>4. w.requests[s][r].status = "pending" /\ r \in DOMAIN w.requests[s]
  BY DEF Pending
<1>5. <<s, r>> \in Approved(x) /\ <<s, r>> \notin Approved(w)
  BY <1>3, <1>4 DEF Approved
<1>6. ASSUME NEW z \in Swarm, NEW q \in RequestId, <<z, q>> # <<s, r>>
      PROVE  /\ <<z, q>> \in Approved(x) <=> <<z, q>> \in Approved(w)
             /\ <<z, q>> \in Approved(w) => x.requests[z][q] = w.requests[z][q]
  BY <1>3, <1>6 DEF Approved
<1>7. Approved(x) = Approved(w) \cup {<<s, r>>}
  <2>1. Approved(x) \subseteq Swarm \X RequestId /\ Approved(w) \subseteq Swarm \X RequestId
    BY DEF Approved
  <2> QED
    BY <1>5, <1>6, <2>1
<1>8. \A y \in Approved(w) : Paid(x)[y] = Paid(w)[y]
  <2>1. \A y \in Approved(w) : \E z \in Swarm, q \in RequestId : y = <<z, q>>
    BY DEF Approved
  <2>2. \A y \in Approved(w) : x.requests[y[1]][y[2]] = w.requests[y[1]][y[2]]
    BY <1>5, <1>6, <2>1
  <2> QED
    BY <1>7, <2>2 DEF Paid
<1>9. /\ IsFiniteSet(Approved(w)) /\ Paid(w) \in [Approved(w) -> Nat]
      /\ Paid(x) \in [Approved(w) \cup {<<s, r>>} -> Nat]
  BY <1>3, <1>7, PaidTyped
<1>10. Total(Paid(x)) = Total(Paid(w)) + Paid(x)[<<s, r>>]
  BY <1>5, <1>8, <1>9, TotalGrows
<1>11. Paid(x)[<<s, r>>] = w.requests[s][r].amount
  BY <1>3, <1>5 DEF Paid
<1> QED
  BY <1>1, <1>3, <1>10, <1>11

-----------------------------------------------------------------------------
(* The books of the world, and of every world that may be gone back to.    *)

BooksInv == Balanced(world) /\ \A i \in 1..Len(stack) : Balanced(stack[i].saved)

LEMMA BooksInit ==
  ASSUME Init
  PROVE  BooksInv
<1>1. world \in World /\ stack = <<>>
  BY FlowInit DEF FlowInv, Sound, Init
<1>2. /\ world.balance = [x \in Account \cup Treasury |-> IF x \in Treasury THEN Funds ELSE 0]
      /\ world.requests = [s \in Swarm |-> <<>>] /\ world.net = Funds * Cardinality(Treasury)
  BY DEF Init
<1>3. IsFiniteSet(Treasury) /\ Funds \in Nat /\ Cardinality(Treasury) \in Nat
  BY FlowAssumption, FS_CardinalityType
<1>4. Total(Held(world)) = Funds * Cardinality(Treasury)
  <2>1. \A t \in Treasury : Held(world)[t] = Funds
    BY <1>2 DEF Held
  <2>2. DOMAIN Held(world) = Treasury
    BY DEF Held
  <2>3. Units(Held(world)) = Treasury \X (1..Funds)
    <3>1. ASSUME NEW u PROVE u \in Units(Held(world)) <=> u \in Treasury \X (1..Funds)
      BY <2>1, <2>2 DEF Units
    <3> QED
      BY <3>1
  <2>4. IsFiniteSet(1..Funds) /\ Cardinality(1..Funds) = Funds
    BY <1>3, FS_Interval
  <2>5. Cardinality(Treasury \X (1..Funds)) = Cardinality(Treasury) * Funds
    BY <1>3, <2>4, FS_Product
  <2>6. Cardinality(Treasury) * Funds = Funds * Cardinality(Treasury)
    BY <1>3
  <2> QED
    BY <2>3, <2>5, <2>6 DEF Total
<1>5. Total(Paid(world)) = 0
  <2>1. Approved(world) = {}
    BY <1>2 DEF Approved
  <2>2. Units(Paid(world)) = {}
    BY <2>1 DEF Units, Paid
  <2> QED
    BY <2>2, FS_EmptySet DEF Total
<1>6. Funds * Cardinality(Treasury) \in Int
  BY <1>3
<1> QED
  BY <1>1, <1>2, <1>4, <1>5, <1>6 DEF BooksInv, Balanced

(* A call whose books balance, whatever its recipient does next.           *)
LEMMA CallBooks ==
  ASSUME BooksInv, NEW w, BecomesWorld(w), Balanced(w)
  PROVE  BooksInv'
BY DEF BooksInv, BecomesWorld

LEMMA KeptBooks ==
  ASSUME BooksInv, NEW w, BecomesWorld(w), SameBooks(world, w)
  PROVE  BooksInv'
<1>1. Balanced(w)
  BY BooksKept DEF BooksInv
<1> QED
  BY <1>1, CallBooks

LEMMA PayBooks ==
  ASSUME FlowInv, BooksInv, NEW w \in World,
         NEW t \in Treasury, NEW to \in Account \cup Treasury, NEW v \in Nat, Pay(w, t, to, v),
         w.balance = world.balance, Total(Held(w)) - Outside(to, v) = w.net - Total(Paid(w))
  PROVE  BooksInv'
<1>1. w.balance[t] >= v
  BY DEF Pay
<1> DEFINE y == Transfer(w, t, to, v)
<1>2. /\ y \in World /\ y.requests = w.requests /\ y.net = w.net
      /\ Total(Held(y)) = Total(Held(w)) - Outside(to, v)
  BY <1>1, TransferTyped, TransferMoney
<1>3. world' = Lock(y, t) /\ stack' = Append(stack, [treasury |-> t, to |-> to, saved |-> world])
  BY DEF Pay
<1> HIDE DEF y
<1>4. Balanced(y)
  <2>1. Paid(y) = Paid(w)
    BY <1>2, SamePaid
  <2> QED
    BY <1>2, <2>1 DEF Balanced
<1>5. SameBooks(y, Lock(y, t))
  <2>1. Lock(y, t).requests = y.requests /\ Lock(y, t).balance = y.balance /\ Lock(y, t).net = y.net
    BY <1>2 DEF Lock, World
  <2> QED
    BY <2>1, SamePaid DEF SameBooks
<1>6. Balanced(world')
  BY <1>3, <1>4, <1>5, BooksKept
<1>7. ASSUME NEW i \in 1..Len(stack') PROVE Balanced(stack'[i].saved)
  <2>1. stack \in Seq(Frame) /\ Len(stack) \in Nat
    BY LenProperties DEF FlowInv
  <2> DEFINE frame == [treasury |-> t, to |-> to, saved |-> world]
  <2>2. frame \in Frame /\ frame.saved = world
    BY DEF FlowInv, Sound, Frame
  <2> HIDE DEF frame
  <2>3. /\ Len(stack') = Len(stack) + 1 /\ stack'[Len(stack) + 1] = frame
        /\ \A j \in 1..Len(stack) : stack'[j] = stack[j]
    BY <1>3, <2>1, <2>2, AppendProperties DEF frame
  <2>4. CASE i \in 1..Len(stack)
    BY <2>3, <2>4 DEF BooksInv
  <2>5. CASE i = Len(stack) + 1
    BY <2>2, <2>3, <2>5 DEF BooksInv
  <2> QED
    BY <1>7, <2>1, <2>3, <2>4, <2>5
<1> QED
  BY <1>6, <1>7 DEF BooksInv

LEMMA SwarmBooks ==
  ASSUME FlowInv, BooksInv, NEW c \in Account, SwarmCall(c)
  PROVE  BooksInv'
<1>1. world \in World
  BY DEF FlowInv, Sound
<1>2. ASSUME NEW s \in Swarm, NEW t \in Treasury, SetTreasury(c, s, t)
      PROVE  BooksInv'
  <2> DEFINE w == [world EXCEPT !.treasury[s] = t]
  <2>1. w.requests = world.requests /\ w.balance = world.balance /\ w.net = world.net
    BY <1>1 DEF World
  <2>2. BecomesWorld(w)
    BY <1>2 DEF SetTreasury
  <2> HIDE DEF w
  <2> QED
    BY <2>1, <2>2, SamePaid, KeptBooks DEF SameBooks
<1>3. ASSUME NEW s \in Swarm, NEW p \in BOOLEAN, SetPaused(c, s, p)
      PROVE  BooksInv'
  <2> DEFINE w == [world EXCEPT !.paused[s] = p]
  <2>1. w.requests = world.requests /\ w.balance = world.balance /\ w.net = world.net
    BY <1>1 DEF World
  <2>2. BecomesWorld(w)
    BY <1>3 DEF SetPaused
  <2> HIDE DEF w
  <2> QED
    BY <2>1, <2>2, SamePaid, KeptBooks DEF SameBooks
<1>4. ASSUME NEW s \in Swarm, NEW v \in Amount, RequestFunds(c, s, v)
      PROVE  BooksInv'
  <2> DEFINE req == [requester |-> c, amount |-> v, status |-> "pending"]
             w == [world EXCEPT !.requests[s] = Append(@, req)]
  <2>1. req.status = "pending"
    OBVIOUS
  <2>2. BecomesWorld(w)
    BY <1>4 DEF RequestFunds
  <2> HIDE DEF req
  <2>3. SameBooks(world, w)
    BY <1>1, <2>1, PaidAppended
  <2> HIDE DEF w
  <2> QED
    BY <2>2, <2>3, KeptBooks
<1>5. ASSUME NEW s \in Swarm, NEW r \in RequestId, CancelFundRequest(c, s, r)
      PROVE  BooksInv'
  <2> DEFINE w == Decide(world, s, r, "cancelled")
  <2>1. SameBooks(world, w)
    <3>1. "cancelled" \in Status /\ Pending(world, s, r)
      BY <1>5 DEF Status, CancelFundRequest
    <3> QED
      BY <1>1, <3>1, RefusedBooks
  <2>2. BecomesWorld(w)
    BY <1>5 DEF CancelFundRequest
  <2> HIDE DEF w
  <2> QED
    BY <2>1, <2>2, KeptBooks
<1> QED
  BY <1>2, <1>3, <1>4, <1>5 DEF SwarmCall

(* The decisions of a treasury in a prepared world, which is the current   *)
(* one, with or without a signature consumed.                              *)
Prepared(w) ==
  /\ w \in World
  /\ w.requests = world.requests /\ w.balance = world.balance /\ w.net = world.net

LEMMA ApprovalBooks ==
  ASSUME FlowInv, BooksInv, NEW w, Prepared(w), NEW t \in Treasury, NEW s \in Swarm,
         NEW r \in RequestId, PayRequest(w, t, s, r)
  PROVE  BooksInv'
<1> DEFINE req == world.requests[s][r]
           x == Decide(w, s, r, "approved")
<1>1. world \in World /\ w \in World /\ Pending(world, s, r) /\ Pending(w, s, r)
  BY DEF FlowInv, Sound, PayRequest, Pending, Prepared
<1>2. /\ req \in Request /\ req.requester \in Account /\ req.requester \notin Treasury
      /\ req.amount \in Nat
  <2>1. req \in Request /\ req.amount \in Nat
    BY <1>1, Payee
  <2> QED
    BY <2>1, FlowAssumption DEF Request
<1>3. Pay(x, t, req.requester, req.amount)
  BY DEF PayRequest
<1>4. /\ x.net = w.net /\ x.balance = w.balance
      /\ Total(Paid(x)) = Total(Paid(w)) + w.requests[s][r].amount
  BY <1>1, ApprovedBooks
<1>5. x \in World
  BY <1>1, DecideTyped DEF Status
<1>6. w.requests[s][r] = req /\ x.balance = world.balance /\ x.net = world.net
  BY <1>4 DEF Prepared
<1> HIDE DEF req, x
<1>7. Paid(w) = Paid(world)
  BY SamePaid DEF Prepared
<1>8. Total(Held(x)) = Total(Held(world))
  BY <1>6 DEF Held
<1>9. Total(Held(world)) \in Nat /\ Total(Paid(world)) \in Nat /\ world.net \in Int
  BY <1>1, HeldTyped, PaidTyped
<1>10. Total(Held(world)) = world.net - Total(Paid(world))
  BY DEF BooksInv, Balanced
<1>11. Total(Held(x)) - Outside(req.requester, req.amount) = x.net - Total(Paid(x))
  BY <1>2, <1>4, <1>6, <1>7, <1>8, <1>9, <1>10 DEF Outside
<1> QED
  BY <1>2, <1>3, <1>5, <1>6, <1>11, PayBooks

LEMMA RejectionBooks ==
  ASSUME FlowInv, BooksInv, NEW w, Prepared(w), NEW t \in Treasury, NEW s \in Swarm,
         NEW r \in RequestId, RejectRequest(w, t, s, r)
  PROVE  BooksInv'
<1> DEFINE x == Decide(w, s, r, "rejected")
<1>1. w \in World /\ Pending(w, s, r) /\ "rejected" \in Status
  BY DEF RejectRequest, Pending, Prepared, Status
<1>2. SameBooks(w, x)
  BY <1>1, RefusedBooks
<1>3. BecomesWorld(x)
  BY DEF RejectRequest
<1> HIDE DEF x
<1>4. SameBooks(world, x)
  BY <1>2, SamePaid DEF SameBooks, Prepared
<1> QED
  BY <1>3, <1>4, KeptBooks

LEMMA WithdrawalBooks ==
  ASSUME FlowInv, BooksInv, NEW w, Prepared(w), NEW t \in Treasury,
         NEW to \in Account \cup Treasury, NEW v \in Nat, TakeOut(w, t, to, v)
  PROVE  BooksInv'
<1> DEFINE x == [w EXCEPT !.net = @ - Outside(to, v)]
<1>1. world \in World /\ w \in World /\ w.net \in Int /\ Outside(to, v) \in Nat
  BY DEF FlowInv, Sound, Prepared, World, Outside
<1>2. /\ x \in World /\ x.requests = w.requests /\ x.balance = w.balance
      /\ x.net = w.net - Outside(to, v)
  <2>1. w.net - Outside(to, v) \in Int
    BY <1>1
  <2> QED
    BY <1>1, <2>1 DEF World
<1>3. Pay(x, t, to, v)
  BY DEF TakeOut
<1> HIDE DEF x
<1>4. /\ x.balance = world.balance /\ x.net = world.net - Outside(to, v)
      /\ x.requests = world.requests
  BY <1>2 DEF Prepared
<1>5. Paid(x) = Paid(world) /\ Held(x) = Held(world)
  BY <1>4, SamePaid DEF Held
<1>6. Total(Held(world)) \in Nat /\ Total(Paid(world)) \in Nat /\ world.net \in Int
  BY <1>1, HeldTyped, PaidTyped
<1>7. Total(Held(world)) = world.net - Total(Paid(world))
  BY DEF BooksInv, Balanced
<1>8. Total(Held(x)) - Outside(to, v) = x.net - Total(Paid(x))
  BY <1>1, <1>4, <1>5, <1>6, <1>7
<1> QED
  BY <1>2, <1>3, <1>4, <1>8, PayBooks

LEMMA TreasuryBooks ==
  ASSUME FlowInv, BooksInv, NEW c \in Account, TreasuryCall(c)
  PROVE  BooksInv'
<1>1. world \in World /\ Prepared(world)
  BY DEF FlowInv, Sound, Prepared
<1>2. ASSUME NEW t \in Treasury, NEW v \in Amount, Deposit(c, t, v)
      PROVE  BooksInv'
  <2> DEFINE u == Transfer(world, c, t, v)
             w == [u EXCEPT !.net = @ + v]
  <2>1. v \in Nat /\ c \notin Treasury /\ world.balance[c] >= v
    BY <1>2, FlowAssumption DEF Deposit
  <2>2. BecomesWorld(w)
    BY <1>2 DEF Deposit
  <2>3. /\ u \in World /\ u.requests = world.requests /\ u.net = world.net
    BY <1>1, <2>1, TransferTyped
  <2>4. Total(Held(u)) = Total(Held(world)) + v
    <3>1. world.balance \in [Account \cup Treasury -> Nat] /\ t # c
      BY <1>1, <2>1 DEF World
    <3>2. u.balance = [world.balance EXCEPT ![c] = @ - v, ![t] = @ + v]
      BY <1>1 DEF Transfer, World
    <3>3. /\ u.balance[t] = world.balance[t] + v /\ world.balance[t] \in Nat
          /\ \A a \in Treasury \ {t} : u.balance[a] = world.balance[a]
      BY <2>1, <3>1, <3>2
    <3> HIDE DEF u
    <3>4. /\ Held(world)[t] = world.balance[t] /\ Held(u)[t] = u.balance[t]
          /\ \A a \in Treasury \ {t} : Held(u)[a] = Held(world)[a]
      BY <3>3 DEF Held
    <3>5. /\ Held(world) \in [Treasury -> Nat] /\ Held(u) \in [Treasury -> Nat]
          /\ IsFiniteSet(Treasury) /\ Total(Held(world)) \in Nat
      BY <1>1, <2>3, HeldTyped
    <3>6. Total(Held(u)) = Total(Held(world)) - Held(world)[t] + Held(u)[t]
      BY <3>4, <3>5, TotalChanges
    <3> QED
      BY <2>1, <3>3, <3>4, <3>5, <3>6
  <2> HIDE DEF u
  <2>5. w.requests = world.requests /\ w.balance = u.balance /\ w.net = world.net + v
    BY <2>3 DEF World
  <2> HIDE DEF w
  <2>6. Held(w) = Held(u) /\ Paid(w) = Paid(world)
    BY <2>5, SamePaid DEF Held
  <2>7. Total(Held(world)) \in Nat /\ Total(Paid(world)) \in Nat /\ world.net \in Int
    BY <1>1, HeldTyped, PaidTyped
  <2>8. Total(Held(world)) = world.net - Total(Paid(world))
    BY DEF BooksInv, Balanced
  <2>9. Balanced(w)
    BY <2>1, <2>4, <2>5, <2>6, <2>7, <2>8 DEF Balanced
  <2> QED
    BY <2>2, <2>9, CallBooks
<1>3. ASSUME NEW t \in Treasury, NEW s \in Swarm, NEW r \in RequestId,
             ApproveFundRequest(c, t, s, r) \/ RejectFundRequest(c, t, s, r)
      PROVE  BooksInv'
  <2>1. PayRequest(world, t, s, r) \/ RejectRequest(world, t, s, r)
    BY <1>3 DEF ApproveFundRequest, RejectFundRequest
  <2> QED
    BY <1>1, <2>1, ApprovalBooks, RejectionBooks
<1>4. ASSUME NEW t \in Treasury, NEW to \in Account \cup Treasury, NEW v \in Amount,
             Withdraw(c, t, to, v)
      PROVE  BooksInv'
  <2>1. TakeOut(world, t, to, v) /\ v \in Nat
    BY <1>4, FlowAssumption DEF Withdraw
  <2> QED
    BY <1>1, <2>1, WithdrawalBooks
<1> QED
  BY <1>2, <1>3, <1>4 DEF TreasuryCall

LEMMA SignedBooks ==
  ASSUME FlowInv, BooksInv, NEW c \in Account, SignedCall(c)
  PROVE  BooksInv'
<1>1. world \in World /\ signed \subseteq Signature
      /\ \A sig \in signed : sig.kind = "withdraw" => sig.to \in Account \cup Treasury
  BY DEF FlowInv, Sound
<1>2. PICK sig \in signed : \/ \E s \in Swarm : \/ ApproveFundRequestWithSig(c, sig, s)
                                                \/ RejectFundRequestWithSig(c, sig, s)
                            \/ WithdrawWithSig(c, sig)
  BY DEF SignedCall
<1>3. /\ sig \in Signature /\ sig.treasury \in Treasury /\ sig.amount \in Nat
      /\ sig.request \in RequestId \cup {0}
  <2>1. sig \in Signature
    BY <1>1
  <2>2. /\ sig.treasury \in Treasury /\ sig.request \in RequestId \cup {0}
        /\ sig.amount \in Amount \cup {0}
    BY <2>1 DEF Signature
  <2>3. Amount \cup {0} \subseteq Nat
    BY FlowAssumption
  <2>4. sig.amount \in Nat
    BY <2>2, <2>3
  <2> QED
    BY <2>1, <2>2, <2>4
<1>4. PICK w : w = Consume(sig)
  OBVIOUS
<1>5. Prepared(w)
  <2>1. w = Spend(world, sig)
    BY <1>4 DEF Consume, Spend
  <2> QED
    BY <1>1, <1>3, <2>1, SpendTyped DEF Prepared
<1>6. ASSUME NEW s \in Swarm, \/ ApproveFundRequestWithSig(c, sig, s)
                              \/ RejectFundRequestWithSig(c, sig, s)
      PROVE  BooksInv'
  <2>1. \/ PayRequest(w, sig.treasury, s, sig.request)
        \/ RejectRequest(w, sig.treasury, s, sig.request)
    BY <1>4, <1>6 DEF ApproveFundRequestWithSig, RejectFundRequestWithSig
  <2>2. sig.request \in RequestId
    <3>1. Pending(world, s, sig.request)
      BY <2>1 DEF PayRequest, RejectRequest
    <3>2. world.requests[s] \in Seq(Request) /\ sig.request \in DOMAIN world.requests[s]
      BY <1>1, <3>1 DEF Pending, World
    <3>3. sig.request # 0
      BY <3>2, LenProperties
    <3> QED
      BY <1>3, <3>3
  <2> QED
    BY <1>3, <1>5, <2>1, <2>2, ApprovalBooks, RejectionBooks
<1>7. ASSUME WithdrawWithSig(c, sig) PROVE BooksInv'
  <2>1. TakeOut(w, sig.treasury, sig.to, sig.amount) /\ sig.to \in Account \cup Treasury
    BY <1>1, <1>4, <1>7 DEF WithdrawWithSig
  <2> QED
    BY <1>3, <1>5, <2>1, WithdrawalBooks
<1> QED
  BY <1>2, <1>6, <1>7

LEMMA BooksNext ==
  ASSUME FlowInv, BooksInv, [Next]_vars
  PROVE  BooksInv'
<1>1. world \in World /\ stack \in Seq(Frame) /\ Len(stack) \in Nat
  BY LenProperties DEF FlowInv, Sound
<1>2. ASSUME stack # <<>>, stack' = Front(stack), Balanced(world') PROVE BooksInv'
  <2>1. stack' = Front(stack) /\ Len(stack) > 0
    BY <1>1, <1>2, EmptySeq
  <2>2. Len(stack') = Len(stack) - 1 /\ \A i \in 1..Len(stack') : stack'[i] = stack[i]
    BY <1>1, <1>2, Popped
  <2>3. \A i \in 1..Len(stack') : Balanced(stack'[i].saved)
    BY <1>1, <2>2 DEF BooksInv
  <2> QED
    BY <1>2, <2>3 DEF BooksInv
<1>3. CASE Return
  <2>1. PICK w : w = Unlock(world, Top.treasury)
    OBVIOUS
  <2>2. w.requests = world.requests /\ w.balance = world.balance /\ w.net = world.net
    BY <1>1, <2>1 DEF Unlock, World
  <2>3. Balanced(w)
    BY <2>2, SamePaid, BooksKept DEF SameBooks, BooksInv
  <2> QED
    BY <1>2, <1>3, <2>1, <2>3 DEF Return
<1>4. CASE Revert
  <2>1. Len(stack) \in 1..Len(stack)
    BY <1>1, <1>4, EmptySeq DEF Revert
  <2>2. Balanced(Top.saved)
    BY <2>1 DEF BooksInv, Top
  <2> QED
    BY <1>2, <1>4, <2>2 DEF Revert
<1>5. ASSUME UNCHANGED <<world, stack>> PROVE BooksInv'
  BY <1>5 DEF BooksInv
<1>6. CASE OwnerSigns
  <2>1. \A sig : Sign(sig) => UNCHANGED <<world, stack>>
    BY DEF Sign
  <2>2. UNCHANGED <<world, stack>>
    BY <1>6, <2>1 DEF OwnerSigns
  <2> QED
    BY <1>5, <2>2
<1>7. CASE \E sig \in signed : DeadlinePasses(sig)
  BY <1>5, <1>7 DEF DeadlinePasses
<1>8. CASE UNCHANGED vars
  BY <1>5, <1>8 DEF vars
<1> QED
  BY <1>3, <1>4, <1>6, <1>7, <1>8, SwarmBooks, TreasuryBooks, SignedBooks DEF Next

-----------------------------------------------------------------------------
(* The theorems.                                                           *)

(* Storage, balances and signatures stay of their types, no balance goes   *)
(* below zero, and only signatures that the owner gave take effect, in     *)
(* every world that a revert may bring back too.                           *)
THEOREM FlowTypeCorrect ==
  Spec => []TypeOK
<1>1. FlowInv => TypeOK
  BY DEF FlowInv, Sound, TypeOK
<1> QED
  BY <1>1, FlowAlways, PTL

(* The nonce of a treasury counts the owner signatures that took effect    *)
(* there, one for each number, whatever recipients call back or revert.    *)
THEOREM OneIntentPerNonceHolds ==
  Spec => []OneIntentPerNonce
<1>1. FlowInv => OneIntentPerNonce
  BY DEF FlowInv, Sound, SpentOnce, SpentBy, OneIntentPerNonce
<1> QED
  BY <1>1, FlowAlways, PTL

(* A signature that took effect decided the request that it names, on the  *)
(* terms that it names, and no later step undoes the decision.             *)
THEOREM SignedTermsKeptHolds ==
  Spec => []SignedTermsKept
<1>1. ASSUME FlowInv PROVE SignedTermsKept
  <2>1. world \in World /\ Decided(world)
    BY <1>1 DEF FlowInv, Sound
  <2> SUFFICES ASSUME NEW sig \in world.landed
               PROVE  LET req == world.requests[sig.swarm][sig.request] IN
                      /\ sig.kind = "approve" => req = [requester |-> sig.to, amount |-> sig.amount,
                                                        status |-> "approved"]
                      /\ sig.kind = "reject" => req.status = "rejected"
    BY DEF SignedTermsKept
  <2>2. CASE sig.kind = "approve"
    <3> DEFINE req == world.requests[sig.swarm][sig.request]
    <3>1. /\ sig.swarm \in Swarm /\ sig.request \in DOMAIN world.requests[sig.swarm]
          /\ req.requester = sig.to /\ req.amount = sig.amount /\ req.status = "approved"
      BY <2>1, <2>2 DEF Decided
    <3>2. world.requests[sig.swarm] \in Seq(Request)
      BY <2>1, <3>1 DEF World
    <3>3. req \in Request
      BY <3>1, <3>2, LenProperties, ElementOfSeq
    <3>4. req = [requester |-> req.requester, amount |-> req.amount, status |-> req.status]
      <4> HIDE DEF req
      <4> QED
        BY <3>3 DEF Request
    <3> QED
      BY <2>2, <3>1, <3>4
  <2>3. CASE sig.kind = "reject"
    BY <2>1, <2>3 DEF Decided
  <2> QED
    BY <2>2, <2>3
<1> QED
  BY <1>1, FlowAlways, PTL

(* Between transactions no request is forgotten or changed, and one that   *)
(* was approved, rejected or cancelled stays so.                           *)
THEOREM DecidedForEverHolds ==
  Spec => DecidedForEver
<1> DEFINE Kept ==
      \A s \in Swarm : \A r \in DOMAIN Committed.requests[s] :
         LET old == Committed.requests[s][r]  new == Committed'.requests[s][r] IN
         /\ new.requester = old.requester /\ new.amount = old.amount
         /\ old.status # "pending" => new.status = old.status
<1>1. FlowInv /\ [Next]_vars => [Kept]_vars
  BY FlowNext DEF Keeps
<1> QED
  BY <1>1, FlowAlways, PTL DEF Spec, DecidedForEver

(* What has left the treasuries is what was withdrawn and the amount of    *)
(* every request that the swarms call approved, each once, at every point  *)
(* of every call: however recipients call back, rebind a swarm or revert.  *)
THEOREM AccountedHolds ==
  Spec => []Accounted
<1>1. FlowInv /\ BooksInv /\ [Next]_vars => BooksInv'
  BY BooksNext
<1>2. BooksInv => Accounted
  BY DEF BooksInv, Accounted
<1> QED
  BY <1>1, <1>2, BooksInit, FlowAlways, PTL DEF Spec

-----------------------------------------------------------------------------
(* Part two: the registration of a name.  The invariant: what the steps    *)
(* that a run has still ahead imply, of the chain and of a clean run.      *)

(* The steps of a run that have not taken effect.                          *)
Ahead(r) == IF r.sent = "success" THEN After(r, {}) ELSE r.todo

(* What a run of each flow relies on, by the steps in A that it has still  *)
(* ahead: what lasts whatever others do, and what is so of a clean run.    *)
FirstFlow(A, r) ==
    /\ "check" \in A => A = RegisterV1
    /\ "commit" \in A => "sleep" \in A /\ r.wake = 0
    /\ "check" \notin A =>
        /\ "reveal" \in A => "wrapper" \in A
        /\ "wrapper" \in A => "unwrap" \in A
        /\ "unwrap" \in A /\ "wrapper" \notin A => wraps
        /\ "reveal" \in A /\ "commit" \notin A =>
             /\ r.secret \in DOMAIN chain.commits /\ chain.commits[r.secret] <= now
             /\ "sleep" \in A /\ r.wake # 0 =>
                  r.wake >= chain.commits[r.secret] + MinAge + Margin
             /\ "sleep" \notin A => wall >= chain.commits[r.secret] + MinAge + Margin
        /\ "reveal" \notin A =>
             /\ chain.holder = "wallet" \/ (wraps /\ chain.holder = "wrapper")
             /\ "unwrap" \notin A /\ ~r.misled => chain.holder = "wallet"
        /\ r.clean =>
             /\ "reveal" \in A => chain.holder = None
             /\ "reveal" \notin A /\ "unwrap" \in A => (wraps => chain.holder = "wrapper")
             /\ "title" \notin A => chain.title = r.title

SecondFlow(A, r) ==
    /\ "probe" \in A => A = RegisterV2
    /\ "slot" \in A => {"proxy", "attach", "mirror", "pointer", "records", "metadata"} \subseteq A
    /\ "records" \in A => "metadata" \in A
    /\ "probe" \notin A =>
        /\ "registry" \notin A => chain.registry
        /\ r.clean =>
             /\ "registry" \in A => ~chain.registry
             /\ "register" \in A => chain.until <= wall
             /\ "register" \notin A => Registered(chain)
    /\ "slot" \notin A =>
        /\ A \cap {"probe", "registry", "verify", "register"} = {}
        /\ "proxy" \notin A => chain.proxy
        /\ r.clean =>
             /\ "proxy" \in A => ~chain.proxy
             /\ "attach" \notin A => chain.attached
    /\ "records" \notin A /\ "metadata" \notin A /\ r.clean => chain.title = r.title

Repairing(A, r) ==
    "locate" \notin A => chain.registry /\ chain.proxy /\ (r.clean => chain.attached)

Mirrored(A) ==
    /\ "mirror" \in A => "pointer" \in A
    /\ "mirror" \notin A /\ "pointer" \notin A => chain.pointer

Relies(A, r) ==
    /\ r.op = "register" /\ lane = "v1" => FirstFlow(A, r)
    /\ r.op = "register" /\ lane = "v2" => SecondFlow(A, r) /\ Mirrored(A)
    /\ r.op = "repair" => Repairing(A, r) /\ Mirrored(A)

RunInv ==
    \A t \in Tab : Busy(t) =>
      /\ run[t].op \in {"register", "repair"} /\ (run[t].op = "repair" => lane = "v2")
      /\ run[t].secret \in 1..runs
      /\ run[t].sent # "no" => \E kind \in Kind : At(t, kind)
      /\ run[t].clean => run[t].sent # "reverted"
      /\ Relies(Ahead(run[t]), run[t])

ApartInv ==
    \A t, u \in Tab : Busy(t) /\ Busy(u) /\ t # u => run[t].secret # run[u].secret

(* A clean run that waits for the wallet has an estimate that still holds. *)
EstimateInv ==
    \A t \in Tab : Busy(t) /\ run[t].sent = "ready" /\ run[t].clean =>
      \A kind \in Kind : At(t, kind) => Can(Tx(t, run[t], kind), chain)

(* The transaction of a run that waits for it, and the others.             *)
Owned(tx, t) ==
    /\ Busy(t) /\ run[t].sent = "pending" /\ At(t, tx.kind)
    /\ tx.secret = run[t].secret /\ tx.title = run[t].title
    /\ run[t].clean => Can(tx, chain)

PoolInv ==
    /\ \A i \in DOMAIN pool : \A t \in Tab :
         /\ pool[i].by = t => Owned(pool[i], t)
         /\ Busy(t) /\ pool[i].secret = run[t].secret => pool[i].by = t
    /\ \A i, j \in DOMAIN pool : pool[i].by = pool[j].by /\ pool[i].by \in Tab => i = j
    /\ \A i \in DOMAIN pool : /\ pool[i].secret <= runs
                              /\ pool[i].kind = "attach" => chain.proxy

ChainInv ==
    /\ DOMAIN chain.commits \subseteq 1..runs
    /\ chain.attached => chain.proxy
    /\ chain.until # 0 => chain.registry

OrgInv == OrgTypeOK /\ RunInv /\ ApartInv /\ EstimateInv /\ PoolInv /\ ChainInv

-----------------------------------------------------------------------------
(* The order of the steps. *)

Step == ToSet(Order)

LEMMA Positions ==
    /\ DOMAIN Order = 1..20
    /\ Order[1] = "check" /\ Order[2] = "commit" /\ Order[3] = "sleep"
    /\ Order[4] = "reveal" /\ Order[5] = "wrapper" /\ Order[6] = "unwrap"
    /\ Order[7] = "class" /\ Order[8] = "title" /\ Order[9] = "probe"
    /\ Order[10] = "registry" /\ Order[11] = "verify" /\ Order[12] = "register"
    /\ Order[13] = "slot" /\ Order[14] = "proxy" /\ Order[15] = "attach"
    /\ Order[16] = "locate" /\ Order[17] = "mirror" /\ Order[18] = "pointer"
    /\ Order[19] = "records" /\ Order[20] = "metadata"
  BY DEF Order

LEMMA PlaceAt ==
    ASSUME NEW s \in Step
    PROVE  Place[s] \in 1..20 /\ Order[Place[s]] = s
<1>1. \E i \in DOMAIN Order : Order[i] = s
  BY DEF Step, ToSet
<1>2. Place[s] \in DOMAIN Order /\ Order[Place[s]] = s
  BY <1>1 DEF Place, Step
<1> QED
  BY <1>2, Positions

LEMMA Steps ==
    Step = {"check", "commit", "sleep", "reveal", "wrapper", "unwrap", "class", "title", "probe",
            "registry", "verify", "register", "slot", "proxy", "attach", "locate",
            "mirror", "pointer", "records", "metadata"}
<1>1. \A i \in 1..20 : i = 1 \/ i = 2 \/ i = 3 \/ i = 4 \/ i = 5 \/ i = 6 \/ i = 7 \/ i = 8
        \/ i = 9 \/ i = 10 \/ i = 11 \/ i = 12 \/ i = 13 \/ i = 14 \/ i = 15 \/ i = 16
        \/ i = 17 \/ i = 18 \/ i = 19 \/ i = 20
  OBVIOUS
<1>2. Step = {Order[i] : i \in 1..20}
  BY Positions DEF Step, ToSet
<1> QED
  BY <1>1, <1>2, Positions

LEMMA Places ==
    /\ Place["check"] = 1 /\ Place["commit"] = 2 /\ Place["sleep"] = 3
    /\ Place["reveal"] = 4 /\ Place["wrapper"] = 5 /\ Place["unwrap"] = 6
    /\ Place["class"] = 7 /\ Place["title"] = 8 /\ Place["probe"] = 9
    /\ Place["registry"] = 10 /\ Place["verify"] = 11 /\ Place["register"] = 12
    /\ Place["slot"] = 13 /\ Place["proxy"] = 14 /\ Place["attach"] = 15
    /\ Place["locate"] = 16 /\ Place["mirror"] = 17 /\ Place["pointer"] = 18
    /\ Place["records"] = 19 /\ Place["metadata"] = 20
<1>1. \A s \in Step : Place[s] \in 1..20 /\ Order[Place[s]] = s
  BY PlaceAt
<1>2. \A i \in 1..20 : i = 1 \/ i = 2 \/ i = 3 \/ i = 4 \/ i = 5 \/ i = 6 \/ i = 7 \/ i = 8
        \/ i = 9 \/ i = 10 \/ i = 11 \/ i = 12 \/ i = 13 \/ i = 14 \/ i = 15 \/ i = 16
        \/ i = 17 \/ i = 18 \/ i = 19 \/ i = 20
  OBVIOUS
<1> QED
  BY <1>1, <1>2, Positions, Steps

(* Two steps are not both the first, and a step is behind those before it. *)
LEMMA DueOnce ==
    ASSUME NEW r, r.todo \subseteq Step, NEW s, NEW u, Due(r, s), Due(r, u)
    PROVE  s = u
<1>1. s \in Step /\ u \in Step /\ Place[s] <= Place[u] /\ Place[u] <= Place[s]
  BY DEF Due
<1>2. Place[s] = Place[u]
  BY <1>1, PlaceAt
<1> QED
  BY <1>1, <1>2, PlaceAt

LEMMA Passed ==
    ASSUME NEW r
    PROVE  /\ Due(r, "commit") => "check" \notin r.todo
           /\ Due(r, "sleep") => {"check", "commit"} \cap r.todo = {}
           /\ Due(r, "reveal") => {"check", "commit", "sleep"} \cap r.todo = {}
           /\ Due(r, "wrapper") => {"check", "commit", "sleep", "reveal"} \cap r.todo = {}
           /\ Due(r, "unwrap") =>
                {"check", "commit", "sleep", "reveal", "wrapper"} \cap r.todo = {}
           /\ Due(r, "class") \/ Due(r, "title") =>
                {"check", "commit", "sleep", "reveal", "wrapper", "unwrap"} \cap r.todo = {}
           /\ Due(r, "registry") => "probe" \notin r.todo
           /\ Due(r, "verify") \/ Due(r, "register") => {"probe", "registry"} \cap r.todo = {}
           /\ Due(r, "slot") => {"probe", "registry", "verify", "register"} \cap r.todo = {}
           /\ Due(r, "proxy") =>
                {"probe", "registry", "verify", "register", "slot"} \cap r.todo = {}
           /\ Due(r, "attach") =>
                {"probe", "registry", "verify", "register", "slot", "proxy"} \cap r.todo = {}
           /\ Due(r, "mirror") \/ Due(r, "pointer") \/ Due(r, "records") \/ Due(r, "metadata") =>
                {"probe", "registry", "verify", "register", "slot", "proxy", "attach", "locate"}
                  \cap r.todo = {}
           /\ Due(r, "pointer") \/ Due(r, "records") \/ Due(r, "metadata") =>
                "mirror" \notin r.todo
           /\ Due(r, "records") \/ Due(r, "metadata") => "pointer" \notin r.todo
           /\ Due(r, "metadata") => "records" \notin r.todo
  BY Places DEF Due

LEMMA Typed ==
    ASSUME OrgTypeOK, NEW t \in Tab
    PROVE  /\ run[t] \in Run /\ run[t].todo \subseteq Step
           /\ Busy(t) => run[t].todo \subseteq Program(run[t].op)
  BY DEF OrgTypeOK, Run, Step, Busy

(* A run that is at a read waits for no transaction.                       *)
LEMMA ReadUnsent ==
    ASSUME OrgInv, NEW t \in Tab, NEW step, At(t, step), step \notin Kind
    PROVE  Busy(t) /\ run[t].sent = "no"
<1>1. Busy(t)
  BY DEF At, Due, Busy
<1>2. run[t].todo \subseteq Step
  BY Typed DEF OrgInv
<1> QED
  BY <1>1, <1>2, DueOnce DEF OrgInv, RunInv, At

LEMMA Unpooled ==
    ASSUME OrgInv, NEW t \in Tab, run[t].sent # "pending" \/ ~Busy(t)
    PROVE  \A i \in DOMAIN pool : pool[i].by # t
  BY DEF OrgInv, PoolInv, Owned

-----------------------------------------------------------------------------
(* Steps of a run. *)

(* What a run that goes on may look like.                                  *)
Continued(r, t) ==
    /\ r \in Run
    /\ r.todo # {} =>
         /\ r.todo \subseteq run[t].todo /\ r.end = "no" /\ r.sent = "no"
         /\ r.op = run[t].op /\ r.title = run[t].title /\ r.secret = run[t].secret
         /\ Relies(r.todo, r)

LEMMA ReliesKept ==
    ASSUME UNCHANGED <<setting, chain, time>>, NEW A, NEW r
    PROVE  Relies(A, r)' <=> Relies(A, r)
  BY DEF setting, time, Relies, FirstFlow, SecondFlow, Repairing, Mirrored, Registered

LEMMA CanKept ==
    ASSUME UNCHANGED <<setting, chain, time>>, NEW tx
    PROVE  Can(tx, chain)' <=> Can(tx, chain)
  BY DEF setting, time, Can, Registered, Aged

LEMMA ReliesNow ==
    ASSUME NEW t \in Tab, NEW A, NEW r, run'[t] = r, Ahead(r) = A, Relies(A, r)'
    PROVE  Relies(Ahead(run[t]), run[t])'
  BY DEF Ahead, After, Due, Relies, FirstFlow, SecondFlow, Repairing, Mirrored

(* A run goes over to r.                                                   *)
LEMMA Replaced ==
    ASSUME OrgInv, NEW t \in Tab, NEW r \in Run, run' = [run EXCEPT ![t] = r],
           UNCHANGED <<setting, chain, time>>, runs' \in runs..MaxRuns,
           faults' \in 0..MaxFaults, misreads' \in 0..MaxMisreads,
           pool' \in Seq(Transaction),
           r.todo # {} =>
             /\ r.todo \subseteq Program(r.op) /\ r.end = "no" /\ r.title # None
             /\ r.op \in {"register", "repair"} /\ (r.op = "repair" => lane = "v2")
             /\ r.secret \in 1..runs'
             /\ \A u \in Tab : u # t /\ Busy(u) => run[u].secret # r.secret
             /\ r.sent # "no" => \E kind \in Kind : Due(r, kind)
             /\ r.clean => r.sent # "reverted"
             /\ r.sent = "ready" /\ r.clean =>
                  \A kind \in Kind : Due(r, kind) => Can(Tx(t, r, kind), chain)
             /\ Relies(Ahead(r), r)
    PROVE  /\ OrgTypeOK' /\ RunInv' /\ ApartInv' /\ EstimateInv' /\ ChainInv'
           /\ run'[t] = r /\ \A u \in Tab : u # t => run'[u] = run[u]
<1>1. run \in [Tab -> Run] /\ run'[t] = r /\ \A u \in Tab : u # t => run'[u] = run[u]
  BY DEF OrgInv, OrgTypeOK
<1>2. runs \in Nat /\ MaxRuns \in Nat /\ runs' \in 0..MaxRuns /\ runs <= runs'
  BY BoundAssumption DEF OrgInv, OrgTypeOK
<1>3. OrgTypeOK'
  <2>1. run' \in [Tab -> Run]
    BY <1>1
  <2>2. ASSUME NEW u \in Tab, run'[u].todo # {}
        PROVE  /\ \E op : run'[u].op = op /\ run'[u].todo \subseteq Program(op)
               /\ run'[u].end = "no" /\ run'[u].title # None
    <3>1. CASE u = t
      BY <1>1, <2>2, <3>1
    <3>2. CASE u # t
      BY <1>1, <2>2, <3>2 DEF OrgInv, OrgTypeOK
    <3> QED BY <3>1, <3>2
  <2> QED
    BY <1>2, <2>1, <2>2 DEF OrgInv, OrgTypeOK, setting, time, Program
<1>4. RunInv'
  <2> SUFFICES ASSUME NEW u \in Tab, Busy(u)'
               PROVE  /\ run'[u].op \in {"register", "repair"}
                      /\ run'[u].op = "repair" => lane' = "v2"
                      /\ run'[u].secret \in 1..runs'
                      /\ run'[u].sent # "no" => \E kind \in Kind : At(u, kind)'
                      /\ run'[u].clean => run'[u].sent # "reverted"
                      /\ Relies(Ahead(run[u]), run[u])'
    BY DEF RunInv
  <2>1. CASE u = t
    <3>1. run'[u] = r /\ r.todo # {}
      BY <1>1, <2>1 DEF Busy
    <3>2. PICK A : A = Ahead(r)
      OBVIOUS
    <3>3. Relies(A, r)'
      BY <3>1, <3>2, ReliesKept
    <3>4. Relies(Ahead(run[u]), run[u])'
      BY <3>1, <3>2, <3>3, ReliesNow
    <3> QED BY <3>1, <3>4 DEF setting, At, Due
  <2>2. CASE u # t
    <3> DEFINE q == run[u]
    <3>1. run'[u] = q /\ Busy(u)
      BY <1>1, <2>2 DEF Busy
    <3>2. Relies(Ahead(run[u]), run[u])'
      <4>1. Relies(Ahead(q), q)
        BY <3>1 DEF OrgInv, RunInv
      <4>2. PICK A, p : A = Ahead(q) /\ p = q
        OBVIOUS
      <4>3. Relies(A, p) /\ Ahead(p) = A /\ run'[u] = p
        BY <3>1, <4>1, <4>2
      <4>4. Relies(A, p)'
        BY <4>3, ReliesKept
      <4> QED BY <4>3, <4>4, ReliesNow
    <3>3. run[u].sent # "no" => \E kind \in Kind : At(u, kind)'
      BY <3>1 DEF OrgInv, RunInv, At
    <3>4. run[u].secret \in 1..runs'
      BY <1>2, <3>1 DEF OrgInv, RunInv
    <3> QED BY <3>1, <3>2, <3>3, <3>4 DEF OrgInv, RunInv, setting
  <2> QED BY <2>1, <2>2
<1>5. ApartInv'
  BY <1>1 DEF OrgInv, ApartInv, Busy
<1>6. ChainInv'
  BY <1>2 DEF OrgInv, ChainInv
<1>7. EstimateInv'
  <2> SUFFICES ASSUME NEW u \in Tab, Busy(u)', run'[u].sent = "ready", run'[u].clean,
                      NEW kind \in Kind, At(u, kind)'
               PROVE  Can(Tx(u, run[u], kind), chain)'
    BY DEF EstimateInv
  <2>1. PICK q : q = run'[u]
    OBVIOUS
  <2>2. PICK tx : tx = Tx(u, q, kind)
    OBVIOUS
  <2>3. Can(tx, chain)
    <3>1. CASE u = t
      BY <1>1, <2>1, <2>2, <3>1 DEF Busy, At, Due
    <3>2. CASE u # t
      BY <1>1, <2>1, <2>2, <3>2 DEF OrgInv, EstimateInv, Busy, At
    <3> QED BY <3>1, <3>2
  <2>4. Can(tx, chain)'
    BY <2>3, CanKept
  <2>5. Tx(u, run[u], kind)' = tx
    BY <2>1, <2>2 DEF Tx
  <2> QED BY <2>4, <2>5 DEF Can, Registered, Aged
<1> QED
  BY <1>1, <1>3, <1>4, <1>5, <1>6, <1>7

LEMMA PoolTyped ==
    ASSUME OrgInv
    PROVE  /\ \A i \in DOMAIN pool : /\ pool[i] \in Transaction
                                     /\ pool[i].secret \in Nat /\ pool[i].secret <= runs
           /\ DOMAIN pool = 1..Len(pool) /\ Len(pool) \in Nat
<1>1. pool \in Seq(Transaction)
  BY DEF OrgInv, OrgTypeOK
<1>2. DOMAIN pool = 1..Len(pool) /\ Len(pool) \in Nat
  BY <1>1
<1>3. \A i \in DOMAIN pool : pool[i] \in Transaction
  BY <1>1, <1>2
<1>4. \A tx \in Transaction : tx.secret \in Nat
  BY BoundAssumption DEF Transaction
<1> QED
  BY <1>2, <1>3, <1>4 DEF OrgInv, PoolInv

(* Its transaction, if it has none, and those of the others.               *)
LEMMA PoolKept ==
    ASSUME OrgInv, NEW t \in Tab, run[t].sent # "pending" \/ ~Busy(t),
           UNCHANGED <<setting, chain, time, pool>>, runs' \in runs..MaxRuns,
           \A u \in Tab : u # t => run'[u] = run[u],
           Busy(t)' => \A i \in DOMAIN pool : pool[i].secret # run'[t].secret
    PROVE  PoolInv'
<1>1. \A i \in DOMAIN pool : pool[i].by # t
  BY Unpooled
<1>2. ASSUME NEW i \in DOMAIN pool, NEW u \in Tab, pool[i].by = u
      PROVE  Owned(pool[i], u)'
  <2>1. u # t /\ run'[u] = run[u] /\ Owned(pool[i], u)
    BY <1>1, <1>2 DEF OrgInv, PoolInv
  <2> QED BY <2>1, CanKept DEF Owned, Busy, At
<1>3. ASSUME NEW i \in DOMAIN pool, NEW u \in Tab, Busy(u)', pool[i].secret = run'[u].secret
      PROVE  pool[i].by = u
  BY <1>3 DEF OrgInv, PoolInv, Busy
<1>4. \A i \in DOMAIN pool : pool[i].secret <= runs'
  <2>1. runs \in Nat /\ runs' \in Nat /\ runs <= runs'
    BY BoundAssumption DEF OrgInv, OrgTypeOK
  <2> QED BY <2>1, PoolTyped
<1> QED
  BY <1>2, <1>3, <1>4 DEF OrgInv, PoolInv

LEMMA MovedOn ==
    ASSUME OrgInv, NEW t \in Tab, Busy(t), run[t].sent # "pending", NEW r, Continued(r, t),
           run' = [run EXCEPT ![t] = r], UNCHANGED <<setting, chain, time, pool, runs>>,
           faults' \in 0..MaxFaults, misreads' \in 0..MaxMisreads
    PROVE  OrgInv'
<1>1. runs' \in runs..MaxRuns /\ pool' \in Seq(Transaction) /\ r \in Run
  BY BoundAssumption DEF OrgInv, OrgTypeOK, Continued
<1>2. ASSUME r.todo # {}
      PROVE  /\ r.todo \subseteq Program(r.op) /\ r.end = "no" /\ r.title # None
             /\ r.op \in {"register", "repair"} /\ (r.op = "repair" => lane = "v2")
             /\ r.secret \in 1..runs' /\ r.secret = run[t].secret
             /\ \A u \in Tab : u # t /\ Busy(u) => run[u].secret # r.secret
             /\ r.sent # "no" => \E kind \in Kind : Due(r, kind)
             /\ r.clean => r.sent # "reverted"
             /\ r.sent # "ready"
             /\ Relies(Ahead(r), r)
  <2>1. Ahead(r) = r.todo
    BY <1>2 DEF Continued, Ahead
  <2>2. run[t].todo \subseteq Program(run[t].op) /\ run[t].title # None
    BY DEF OrgInv, OrgTypeOK, Busy
  <2>3. \A u \in Tab : u # t /\ Busy(u) => run[u].secret # run[t].secret
    BY DEF OrgInv, ApartInv
  <2> QED BY <1>2, <2>1, <2>2, <2>3 DEF Continued, OrgInv, RunInv
<1>3. /\ OrgTypeOK' /\ RunInv' /\ ApartInv' /\ EstimateInv' /\ ChainInv'
      /\ run'[t] = r /\ \A u \in Tab : u # t => run'[u] = run[u]
  BY <1>1, <1>2, Replaced
<1>4. Busy(t)' => \A i \in DOMAIN pool : pool[i].secret # run'[t].secret
  <2>1. \A i \in DOMAIN pool : pool[i].by # t
    BY Unpooled
  <2> QED BY <1>2, <1>3, <2>1 DEF OrgInv, PoolInv, Busy
<1>5. PoolInv'
  BY <1>1, <1>3, <1>4, PoolKept
<1> QED
  BY <1>3, <1>5 DEF OrgInv

(* What the two properties say of a step of a run.                         *)
SoundStep(t) ==
    /\ ~Busy(t)' /\ run'[t].end = "done" => Complete(t)'
    /\ run'[t].end = "refused" => ~run[t].clean \/ Behind \/ chain.holder = "wrapper"

LEMMA Flow ==
    ASSUME OrgInv, NEW t \in Tab, NEW step \in run[t].todo
    PROVE  /\ step \in RegisterV1 => run[t].op = "register" /\ lane = "v1"
           /\ step \in RegisterV2 \ Repair => run[t].op = "register" /\ lane = "v2"
           /\ step = "locate" => run[t].op = "repair" /\ lane = "v2"
           /\ step \in {"mirror", "pointer"} => lane = "v2"
<1>1. Busy(t) /\ step \in Program(run[t].op)
  BY Typed DEF OrgInv, Busy
<1>2. run[t].op \in {"register", "repair"} /\ (run[t].op = "repair" => lane = "v2")
  BY <1>1 DEF OrgInv, RunInv
<1>3. lane \in {"v1", "v2"}
  BY DEF OrgInv, OrgTypeOK
<1> QED
  BY <1>1, <1>2, <1>3 DEF Program, RegisterV1, RegisterV2, Repair

LEMMA NothingLeft ==
    ASSUME OrgInv, NEW t \in Tab, Busy(t), NEW q, q.op = run[t].op, Relies({}, q),
           UNCHANGED <<setting, chain, time>>,
           run'[t].op = q.op, run'[t].clean = q.clean, run'[t].title = q.title,
           run'[t].misled = q.misled
    PROVE  Complete(t)'
<1>1. run[t].op \in {"register", "repair"} /\ (run[t].op = "repair" => lane = "v2")
  BY DEF OrgInv, RunInv
<1>2. lane \in {"v1", "v2"}
  BY DEF OrgInv, OrgTypeOK
<1>3. CASE lane = "v1"
  BY <1>1, <1>3 DEF Relies, FirstFlow, Complete, setting
<1>4. CASE lane = "v2"
  BY <1>1, <1>4 DEF Relies, SecondFlow, Repairing, Mirrored, Complete, setting
<1> QED
  BY <1>2, <1>3, <1>4

LEMMA EndedRun ==
    ASSUME NEW q \in Run, NEW how \in {"done", "refused", "stopped"}
    PROVE  /\ Ended(q, how) \in Run /\ Ended(q, how).todo = {} /\ Ended(q, how).end = how
           /\ Ended(q, how).op = q.op /\ Ended(q, how).clean = q.clean
           /\ Ended(q, how).title = q.title /\ Ended(q, how).misled = q.misled
<1>1. 0 \in 0..MaxRuns /\ 0 \in Nat /\ {} \in SUBSET ToSet(Order)
  BY BoundAssumption
<1>2. Ended(q, how) \in Run
  BY <1>1 DEF Ended, Run
<1> QED
  BY <1>2 DEF Ended, Run

LEMMA LeftStep ==
    ASSUME OrgInv, NEW t \in Tab, Busy(t), run[t].sent # "pending",
           NEW q \in Run, q.op = run[t].op, q.title = run[t].title,
           q.secret = run[t].secret, q.end = "no",
           NEW T, T \subseteq run[t].todo, Relies(T, q),
           run' = [run EXCEPT ![t] = Left(q, T)], UNCHANGED <<setting, chain, time, pool, runs>>,
           faults' \in 0..MaxFaults, misreads' \in 0..MaxMisreads
    PROVE  OrgInv' /\ SoundStep(t)
<1>1. run \in [Tab -> Run] /\ run'[t] = Left(q, T)
  BY DEF OrgInv, OrgTypeOK
<1>2. CASE T = {}
  <2>1. Left(q, T) \in Run /\ Left(q, T).todo = {} /\ Left(q, T).end = "done"
        /\ Left(q, T).op = q.op /\ Left(q, T).clean = q.clean /\ Left(q, T).title = q.title
        /\ Left(q, T).misled = q.misled
    BY <1>2, EndedRun DEF Left
  <2>2. OrgInv'
    BY <2>1, MovedOn DEF Continued
  <2>3. Complete(t)'
    BY <1>1, <1>2, <2>1, NothingLeft
  <2> QED BY <1>1, <2>1, <2>2, <2>3 DEF SoundStep
<1>3. CASE T # {}
  <2> DEFINE r == [q EXCEPT !.todo = T, !.sent = "no", !.until = 0]
  <2>1. Left(q, T) = r
    BY <1>3 DEF Left
  <2>2. r \in Run /\ r.todo = T /\ r.sent = "no" /\ r.end = "no" /\ r.op = q.op
        /\ r.title = q.title /\ r.secret = q.secret /\ r.wake = q.wake /\ r.clean = q.clean
        /\ r.misled = q.misled
    <3>1. T \subseteq Step
      BY Typed DEF OrgInv
    <3> QED BY <3>1 DEF Run, Step
  <2>3. Relies(T, r)
    BY <2>2 DEF Relies, FirstFlow, SecondFlow, Repairing
  <2> HIDE DEF r
  <2>4. Continued(r, t)
    BY <2>2, <2>3 DEF Continued
  <2>5. OrgInv'
    BY <2>1, <2>4, MovedOn
  <2> QED BY <1>1, <1>3, <2>1, <2>2, <2>5 DEF SoundStep, Busy
<1> QED
  BY <1>2, <1>3

LEMMA StopStep ==
    ASSUME OrgInv, NEW t \in Tab, Busy(t), run[t].sent # "pending",
           NEW how \in {"done", "refused", "stopped"},
           run' = [run EXCEPT ![t] = Ended(run[t], how)],
           UNCHANGED <<setting, chain, time, pool, runs>>,
           faults' \in 0..MaxFaults, misreads' \in 0..MaxMisreads
    PROVE  OrgInv' /\ run'[t] = Ended(run[t], how)
<1>1. run \in [Tab -> Run]
  BY DEF OrgInv, OrgTypeOK
<1>2. Ended(run[t], how) \in Run /\ Ended(run[t], how).todo = {}
  BY <1>1, EndedRun
<1> QED
  BY <1>1, <1>2, MovedOn DEF Continued

-----------------------------------------------------------------------------
(* Reads. *)

LEMMA Reading ==
    ASSUME OrgInv, NEW t \in Tab, NEW step, At(t, step), step \notin Kind
    PROVE  /\ Busy(t) /\ run[t].sent = "no" /\ run[t] \in Run /\ run[t].end = "no"
           /\ Relies(run[t].todo, run[t]) /\ step \in run[t].todo
           /\ \A done : After(run[t], done) = run[t].todo \ ({step} \cup done)
<1>1. Busy(t) /\ run[t].sent = "no"
  BY ReadUnsent
<1>2. run[t] \in Run /\ run[t].todo \subseteq Step /\ run[t].end = "no"
  BY <1>1, Typed DEF OrgInv, OrgTypeOK, Busy
<1>3. \A u \in run[t].todo : Due(run[t], u) <=> u = step
  BY <1>2, DueOnce DEF At
<1> QED
  BY <1>1, <1>2, <1>3 DEF OrgInv, RunInv, Ahead, After, At, Due

LEMMA SleepSound ==
    ASSUME OrgInv, NEW t \in Tab, Sleep(t)
    PROVE  OrgInv' /\ SoundStep(t)
<1>1. At(t, "sleep") /\ "sleep" \notin Kind
  BY DEF Sleep, Kind
<1>2. /\ Busy(t) /\ run[t].sent = "no" /\ run[t] \in Run /\ run[t].end = "no"
      /\ Relies(run[t].todo, run[t]) /\ "sleep" \in run[t].todo
      /\ After(run[t], {}) = run[t].todo \ ({"sleep"} \cup {})
  BY <1>1, Reading
<1>3. run[t].op = "register" /\ lane = "v1"
  BY <1>2, Flow DEF RegisterV1
<1>4. FirstFlow(run[t].todo, run[t]) /\ {"check", "commit"} \cap run[t].todo = {}
  BY <1>1, <1>2, <1>3, Passed DEF Relies, At
<1>5. /\ now \in Nat /\ wall \in Nat /\ now <= wall /\ MinAge \in Nat \ {0}
      /\ run \in [Tab -> Run] /\ run[t].wake \in Nat
      /\ run[t].secret \in DOMAIN chain.commits => chain.commits[run[t].secret] \in Nat
  BY TimeAssumption DEF OrgInv, OrgTypeOK, State, Run
<1>6. /\ UNCHANGED <<setting, chain, time, pool, runs>>
      /\ faults' \in 0..MaxFaults /\ misreads' \in 0..MaxMisreads
  BY DEF Sleep, count, OrgInv, OrgTypeOK
<1>7. CASE run[t].wake = 0 /\ Becomes(t, [run[t] EXCEPT !.wake = wall + MinAge + Margin])
  <2> DEFINE r == [run[t] EXCEPT !.wake = wall + MinAge + Margin]
  <2>1. /\ r \in Run /\ r.todo = run[t].todo /\ r.end = "no" /\ r.sent = "no"
        /\ r.op = run[t].op /\ r.title = run[t].title /\ r.secret = run[t].secret
        /\ r.wake = wall + MinAge + Margin /\ r.clean = run[t].clean
        /\ r.misled = run[t].misled
    BY <1>2, <1>5 DEF Run, Margin
  <2> HIDE DEF r
  <2>2. FirstFlow(r.todo, r)
    BY <1>4, <1>5, <2>1 DEF FirstFlow, Margin
  <2>3. Continued(r, t)
    BY <1>3, <2>1, <2>2 DEF Continued, Relies
  <2>4. run' = [run EXCEPT ![t] = r]
    BY <1>7 DEF Becomes, r
  <2> QED BY <1>2, <1>5, <1>6, <2>1, <2>3, <2>4, MovedOn DEF SoundStep, Busy
<1>8. CASE run[t].wake # 0 /\ wall >= run[t].wake /\ Becomes(t, Found(t, {}))
  <2> DEFINE T == run[t].todo \ {"sleep"}
  <2>1. FirstFlow(T, run[t])
    BY <1>4, <1>5, <1>2, <1>8 DEF FirstFlow, Margin
  <2>2. Relies(T, run[t])
    BY <1>3, <2>1 DEF Relies
  <2>3. run' = [run EXCEPT ![t] = Left(run[t], T)]
    BY <1>2, <1>8 DEF Becomes, Found
  <2> HIDE DEF T
  <2>4. T \subseteq run[t].todo
    BY DEF T
  <2> QED BY <1>2, <1>6, <2>2, <2>3, <2>4, LeftStep
<1> QED
  BY <1>7, <1>8 DEF Sleep

LEMMA CheckSound ==
    ASSUME OrgInv, NEW t \in Tab, Check(t)
    PROVE  OrgInv' /\ SoundStep(t)
<1>1. At(t, "check") /\ "check" \notin Kind
  BY DEF Check, Read, Kind
<1>2. /\ Busy(t) /\ run[t].sent = "no" /\ run[t] \in Run /\ run[t].end = "no"
      /\ Relies(run[t].todo, run[t]) /\ "check" \in run[t].todo
      /\ \A done : After(run[t], done) = run[t].todo \ ({"check"} \cup done)
  BY <1>1, Reading
<1>3. run[t].op = "register" /\ lane = "v1"
  BY <1>2, Flow DEF RegisterV1
<1>4. run[t].todo = RegisterV1
  BY <1>2, <1>3 DEF Relies, FirstFlow
<1>5. /\ UNCHANGED <<setting, chain, time, pool, runs>>
      /\ faults' \in 0..MaxFaults /\ misreads' \in 0..MaxMisreads
  BY DEF Check, Read, OrgInv, OrgTypeOK
<1>6. ASSUME NEW T, T \subseteq run[t].todo, FirstFlow(T, run[t]), Becomes(t, Left(run[t], T))
      PROVE  OrgInv' /\ SoundStep(t)
  <2>1. Relies(T, run[t])
    BY <1>3, <1>6 DEF Relies
  <2> QED BY <1>2, <1>5, <1>6, <2>1, LeftStep DEF Becomes
<1>7. CASE chain.holder = "wallet" /\ Becomes(t, Left(run[t], {"class", "title"}))
  <2>1. FirstFlow({"class", "title"}, run[t])
    BY <1>7, NameAssumption DEF FirstFlow
  <2> QED BY <1>4, <1>6, <1>7, <2>1 DEF RegisterV1
<1>8. CASE chain.holder = None /\ Becomes(t, Found(t, {}))
  <2> DEFINE T == RegisterV1 \ ({"check"} \cup {})
  <2>1. FirstFlow(T, run[t])
    BY <1>2, <1>3, <1>4, <1>8 DEF FirstFlow, RegisterV1, Relies
  <2>2. Becomes(t, Left(run[t], T))
    BY <1>2, <1>4, <1>8 DEF Found
  <2>3. T \subseteq run[t].todo
    BY <1>4
  <2> QED BY <1>6, <2>1, <2>2, <2>3
<1>9. CASE chain.holder = "wrapper" /\ Becomes(t, Ended(run[t], "refused"))
  BY <1>2, <1>5, <1>9, StopStep, EndedRun DEF Becomes, SoundStep
<1> QED
  BY <1>7, <1>8, <1>9 DEF Check, Read

LEMMA WrappedSound ==
    ASSUME OrgInv, NEW t \in Tab, Wrapped(t)
    PROVE  OrgInv' /\ SoundStep(t)
<1>1. At(t, "wrapper") /\ "wrapper" \notin Kind
  BY DEF Wrapped, Read, Kind
<1>2. /\ Busy(t) /\ run[t].sent = "no" /\ run[t] \in Run /\ run[t].end = "no"
      /\ Relies(run[t].todo, run[t]) /\ "wrapper" \in run[t].todo
      /\ \A done : After(run[t], done) = run[t].todo \ ({"wrapper"} \cup done)
  BY <1>1, Reading
<1>3. run[t].op = "register" /\ lane = "v1"
  BY <1>2, Flow DEF RegisterV1
<1>4. FirstFlow(run[t].todo, run[t]) /\ {"check", "commit", "sleep", "reveal"} \cap run[t].todo = {}
  BY <1>1, <1>2, <1>3, Passed DEF Relies, At
<1>5. /\ UNCHANGED <<setting, chain, time, pool, runs>>
      /\ faults' \in 0..MaxFaults /\ misreads' \in 0..MaxMisreads
  BY BoundAssumption DEF Wrapped, Read, Missed, OrgInv, OrgTypeOK
<1>6. ASSUME NEW q \in Run, q.op = run[t].op, q.title = run[t].title,
             q.secret = run[t].secret, q.end = "no",
             NEW T, T \subseteq run[t].todo, FirstFlow(T, q), Becomes(t, Left(q, T))
      PROVE  OrgInv' /\ SoundStep(t)
  <2>1. Relies(T, q)
    BY <1>3, <1>6 DEF Relies
  <2> QED BY <1>2, <1>5, <1>6, <2>1, LeftStep DEF Becomes
<1>7. CASE Becomes(t, Found(t, IF wraps THEN {} ELSE {"unwrap"}))
  <2> DEFINE T == run[t].todo \ ({"wrapper"} \cup IF wraps THEN {} ELSE {"unwrap"})
  <2>1. FirstFlow(T, run[t])
    BY <1>2, <1>4 DEF FirstFlow
  <2>2. Becomes(t, Left(run[t], T))
    BY <1>2, <1>7 DEF Found
  <2> QED BY <1>2, <1>6, <2>1, <2>2
<1>8. CASE Becomes(t, [Found(t, {"unwrap"}) EXCEPT !.misled = TRUE])
  <2> DEFINE T == run[t].todo \ ({"wrapper"} \cup {"unwrap"})
             q == [run[t] EXCEPT !.misled = TRUE]
  <2>1. /\ q \in Run /\ q.op = run[t].op /\ q.title = run[t].title /\ q.misled
        /\ q.secret = run[t].secret /\ q.end = "no" /\ q.clean = run[t].clean
        /\ q.wake = run[t].wake
    BY <1>2 DEF Run
  <2>2. FirstFlow(T, q)
    BY <1>2, <1>4, <2>1 DEF FirstFlow
  <2>3. [Found(t, {"unwrap"}) EXCEPT !.misled = TRUE] = Left(q, T)
    BY <1>2 DEF Found, Left, Ended, Run
  <2>4. Becomes(t, Left(q, T))
    BY <1>8, <2>3
  <2> HIDE DEF q, T
  <2>5. T \subseteq run[t].todo
    BY DEF T
  <2> QED BY <1>6, <2>1, <2>2, <2>4, <2>5
<1> QED
  BY <1>7, <1>8 DEF Wrapped, Read, Missed

(* A read of the second flow or of the repair takes the run on to what it  *)
(* found left, unclean if it missed something.                             *)
LEMMA FoundStep ==
    ASSUME OrgInv, NEW t \in Tab, NEW step, At(t, step), step \notin Kind, NEW done,
           NEW T, T = run[t].todo \ ({step} \cup done),
           Relies(T, run[t]), Becomes(t, Found(t, done)),
           UNCHANGED <<setting, chain, time, pool, runs>>,
           faults' \in 0..MaxFaults, misreads' \in 0..MaxMisreads
    PROVE  OrgInv' /\ SoundStep(t)
<1>1. /\ Busy(t) /\ run[t].sent = "no" /\ run[t] \in Run /\ run[t].end = "no"
      /\ After(run[t], done) = T
  BY Reading
<1>2. run' = [run EXCEPT ![t] = Left(run[t], T)] /\ T \subseteq run[t].todo
  BY <1>1 DEF Becomes, Found
<1> QED
  BY <1>1, <1>2, LeftStep

LEMMA MissedStep ==
    ASSUME OrgInv, NEW t \in Tab, NEW step, At(t, step), step \notin Kind, NEW done,
           NEW T, T = run[t].todo \ ({step} \cup done), T # {},
           NEW q, q = [run[t] EXCEPT !.clean = FALSE], Relies(T, q),
           Becomes(t, Disturbed(Found(t, done))),
           UNCHANGED <<setting, chain, time, pool, runs>>,
           faults' \in 0..MaxFaults, misreads' \in 0..MaxMisreads
    PROVE  OrgInv' /\ SoundStep(t)
<1>1. /\ Busy(t) /\ run[t].sent = "no" /\ run[t] \in Run /\ run[t].end = "no"
      /\ After(run[t], done) = T
  BY Reading
<1>2. q \in Run /\ q.op = run[t].op /\ q.title = run[t].title /\ q.secret = run[t].secret
      /\ q.end = "no"
  BY <1>1 DEF Run
<1>3. Disturbed(Found(t, done)) = Left(q, T)
  BY <1>1 DEF Disturbed, Found, Left, Run
<1>4. run' = [run EXCEPT ![t] = Left(q, T)] /\ T \subseteq run[t].todo
  BY <1>3 DEF Becomes
<1> QED
  BY <1>1, <1>2, <1>4, LeftStep

LEMMA ProbeSound ==
    ASSUME OrgInv, NEW t \in Tab, Probe(t)
    PROVE  OrgInv' /\ SoundStep(t)
<1>1. At(t, "probe") /\ "probe" \notin Kind
  BY DEF Probe, Read, Kind
<1>2. run[t] \in Run /\ Relies(run[t].todo, run[t]) /\ "probe" \in run[t].todo
  BY <1>1, Reading
<1>3. run[t].op = "register" /\ lane = "v2"
  BY <1>2, Flow DEF RegisterV2, Repair
<1>4. run[t].todo = RegisterV2
  BY <1>2, <1>3 DEF Relies, SecondFlow
<1>5. /\ UNCHANGED <<setting, chain, time, pool, runs>>
      /\ faults' \in 0..MaxFaults /\ misreads' \in 0..MaxMisreads
  BY BoundAssumption DEF Probe, Read, Missed, OrgInv, OrgTypeOK
<1>6. CASE Becomes(t, Found(t, Done(chain)))
  <2> DEFINE T == run[t].todo \ ({"probe"} \cup Done(chain))
  <2>1. chain.until \in Nat /\ now \in Nat /\ wall \in Nat /\ now <= wall
        /\ (chain.until # 0 => chain.registry)
    BY DEF OrgInv, OrgTypeOK, ChainInv, State
  <2>2. SecondFlow(T, run[t]) /\ Mirrored(T)
    BY <1>4, <2>1 DEF SecondFlow, Mirrored, Done, Registered, RegisterV2
  <2>3. Relies(T, run[t])
    BY <1>3, <2>2 DEF Relies
  <2> QED BY <1>1, <1>5, <1>6, <2>3, FoundStep
<1>7. CASE Becomes(t, Disturbed(Found(t, {})))
  <2> DEFINE T == run[t].todo \ ({"probe"} \cup {})
             q == [run[t] EXCEPT !.clean = FALSE]
  <2>1. q.clean = FALSE /\ q.op = run[t].op
    BY <1>2 DEF Run
  <2>2. SecondFlow(T, q) /\ Mirrored(T) /\ T # {}
    BY <1>4, <2>1 DEF SecondFlow, Mirrored, RegisterV2
  <2>3. Relies(T, q)
    BY <1>3, <2>1, <2>2 DEF Relies
  <2> QED BY <1>1, <1>5, <1>7, <2>2, <2>3, MissedStep
<1> QED
  BY <1>6, <1>7 DEF Probe, Read, Missed

LEMMA VerifySound ==
    ASSUME OrgInv, NEW t \in Tab, Verify(t)
    PROVE  OrgInv' /\ SoundStep(t)
<1>1. At(t, "verify") /\ "verify" \notin Kind
  BY DEF Verify, Read, Kind
<1>2. Relies(run[t].todo, run[t]) /\ "verify" \in run[t].todo
  BY <1>1, Reading
<1>3. run[t].op = "register" /\ lane = "v2"
  BY <1>2, Flow DEF RegisterV2, Repair
<1>4. SecondFlow(run[t].todo, run[t]) /\ Mirrored(run[t].todo)
  BY <1>2, <1>3 DEF Relies
<1>5. {"probe", "registry"} \cap run[t].todo = {}
  BY <1>1, Passed DEF At
<1>6. chain.registry
  BY <1>4, <1>5 DEF SecondFlow
<1> DEFINE T == run[t].todo \ ({"verify"} \cup {})
<1>7. SecondFlow(T, run[t]) /\ Mirrored(T)
  BY <1>4, <1>5 DEF SecondFlow, Mirrored
<1>8. Relies(T, run[t])
  BY <1>3, <1>7 DEF Relies
<1>9. Becomes(t, Found(t, {})) /\ UNCHANGED <<setting, chain, time, pool, runs, faults, misreads>>
  BY <1>6 DEF Verify, Read
<1> QED
  BY <1>1, <1>8, <1>9, FoundStep DEF OrgInv, OrgTypeOK

LEMMA SlotSound ==
    ASSUME OrgInv, NEW t \in Tab, Slot(t)
    PROVE  OrgInv' /\ SoundStep(t)
<1>1. At(t, "slot") /\ "slot" \notin Kind
  BY DEF Slot, Read, Kind
<1>2. run[t] \in Run /\ Relies(run[t].todo, run[t]) /\ "slot" \in run[t].todo
  BY <1>1, Reading
<1>3. run[t].op = "register" /\ lane = "v2"
  BY <1>2, Flow DEF RegisterV2, Repair
<1>4. SecondFlow(run[t].todo, run[t]) /\ Mirrored(run[t].todo)
  BY <1>2, <1>3 DEF Relies
<1>5. {"probe", "registry", "verify", "register"} \cap run[t].todo = {}
  BY <1>1, Passed DEF At
<1>6. {"proxy", "attach", "mirror", "pointer", "records", "metadata"} \subseteq run[t].todo
  BY <1>2, <1>4 DEF SecondFlow
<1>7. /\ UNCHANGED <<setting, chain, time, pool, runs>>
      /\ faults' \in 0..MaxFaults /\ misreads' \in 0..MaxMisreads
  BY BoundAssumption DEF Slot, Read, Missed, OrgInv, OrgTypeOK
<1>8. ASSUME NEW done, done \subseteq {"proxy", "attach"}, Becomes(t, Found(t, done)),
             "proxy" \in done => chain.proxy,
             run[t].clean /\ "proxy" \notin done => ~chain.proxy,
             "attach" \in done => chain.attached
      PROVE  OrgInv' /\ SoundStep(t)
  <2> DEFINE T == run[t].todo \ ({"slot"} \cup done)
  <2>1. SecondFlow(T, run[t]) /\ Mirrored(T)
    BY <1>4, <1>5, <1>6, <1>8 DEF SecondFlow, Mirrored
  <2>2. Relies(T, run[t])
    BY <1>3, <2>1 DEF Relies
  <2> QED BY <1>1, <1>7, <1>8, <2>2, FoundStep
<1>9. chain.attached => chain.proxy
  BY DEF OrgInv, ChainInv
<1>10. CASE Becomes(t, Found(t, Ready(chain)))
  BY <1>8, <1>9, <1>10 DEF Ready
<1>11. CASE chain.attached /\ Becomes(t, Found(t, {"proxy"}))
  BY <1>8, <1>9, <1>11
<1>12. CASE Becomes(t, Disturbed(Found(t, {})))
  <2> DEFINE T == run[t].todo \ ({"slot"} \cup {})
             q == [run[t] EXCEPT !.clean = FALSE]
  <2>1. q.clean = FALSE /\ q.op = run[t].op
    BY <1>2 DEF Run
  <2>2. SecondFlow(T, q) /\ Mirrored(T) /\ T # {}
    BY <1>4, <1>5, <1>6, <2>1 DEF SecondFlow, Mirrored
  <2>3. Relies(T, q)
    BY <1>3, <2>1, <2>2 DEF Relies
  <2> QED BY <1>1, <1>7, <1>12, <2>2, <2>3, MissedStep
<1> QED
  BY <1>10, <1>11, <1>12 DEF Slot, Read, Missed

LEMMA DiffersSound ==
    ASSUME OrgInv, NEW t \in Tab, Differs(t)
    PROVE  OrgInv' /\ SoundStep(t)
<1>1. /\ UNCHANGED <<setting, chain, time, pool, runs>>
      /\ faults' \in 0..MaxFaults /\ misreads' \in 0..MaxMisreads
  BY BoundAssumption DEF Differs, Read, Missed, OrgInv, OrgTypeOK
<1>2. ASSUME At(t, "mirror"), NEW done, done \subseteq {"pointer"},
             "pointer" \in done => chain.pointer, Becomes(t, Found(t, done))
      PROVE  OrgInv' /\ SoundStep(t)
  <2>1. Relies(run[t].todo, run[t]) /\ "mirror" \in run[t].todo /\ "mirror" \notin Kind
    BY <1>2, Reading DEF Kind
  <2>2. lane = "v2"
    BY <2>1, Flow
  <2> DEFINE T == run[t].todo \ ({"mirror"} \cup done)
  <2>3. Mirrored(run[t].todo) => Mirrored(T)
    BY <1>2, <2>1 DEF Mirrored
  <2>4. SecondFlow(run[t].todo, run[t]) => SecondFlow(T, run[t])
    <3>1. {"probe", "registry", "verify", "register", "slot", "proxy", "attach", "locate"}
            \cap run[t].todo = {}
      BY <1>2, Passed DEF At
    <3> QED BY <1>2, <3>1 DEF SecondFlow
  <2>5. Repairing(run[t].todo, run[t]) => Repairing(T, run[t])
    BY <1>2 DEF Repairing
  <2>6. Relies(T, run[t])
    BY <2>1, <2>2, <2>3, <2>4, <2>5 DEF Relies
  <2> QED BY <1>1, <1>2, <2>1, <2>6, FoundStep
<1>3. ASSUME At(t, "records"), NEW done, done \subseteq {"metadata"},
             "metadata" \in done => chain.title = run[t].title, Becomes(t, Found(t, done))
      PROVE  OrgInv' /\ SoundStep(t)
  <2>1. Relies(run[t].todo, run[t]) /\ "records" \in run[t].todo /\ "records" \notin Kind
    BY <1>3, Reading DEF Kind
  <2>2. run[t].op = "register" /\ lane = "v2"
    BY <2>1, Flow DEF RegisterV2, Repair
  <2> DEFINE T == run[t].todo \ ({"records"} \cup done)
  <2>3. SecondFlow(run[t].todo, run[t]) /\ Mirrored(run[t].todo)
    BY <2>1, <2>2 DEF Relies
  <2>4. {"probe", "registry", "verify", "register", "slot", "proxy", "attach", "locate", "mirror"}
          \cap run[t].todo = {}
    BY <1>3, Passed DEF At
  <2>5. SecondFlow(T, run[t]) /\ Mirrored(T)
    BY <1>3, <2>1, <2>3, <2>4 DEF SecondFlow, Mirrored
  <2>6. Relies(T, run[t])
    BY <2>2, <2>5 DEF Relies
  <2> QED BY <1>1, <1>3, <2>1, <2>6, FoundStep
<1>4. CASE Read(t, "mirror", Found(t, IF chain.pointer THEN {"pointer"} ELSE {}))
  BY <1>2, <1>4 DEF Read
<1>5. CASE At(t, "mirror") /\ Missed(t, Found(t, {}))
  BY <1>2, <1>5 DEF Missed
<1>6. CASE Read(t, "records", Found(t, IF chain.title = run[t].title THEN {"metadata"} ELSE {}))
  BY <1>3, <1>6 DEF Read
<1>7. CASE At(t, "records") /\ Missed(t, Found(t, {}))
  BY <1>3, <1>7 DEF Missed
<1> QED
  BY <1>4, <1>5, <1>6, <1>7 DEF Differs

LEMMA LocateSound ==
    ASSUME OrgInv, NEW t \in Tab, Locate(t)
    PROVE  OrgInv' /\ SoundStep(t)
<1>1. At(t, "locate") /\ "locate" \notin Kind
  BY DEF Locate, Read, Kind
<1>2. /\ Busy(t) /\ run[t].sent = "no" /\ run[t] \in Run
      /\ Relies(run[t].todo, run[t]) /\ "locate" \in run[t].todo
  BY <1>1, Reading
<1>3. run[t].op = "repair" /\ lane = "v2"
  BY <1>2, Flow
<1>4. UNCHANGED <<setting, chain, time, pool, runs, faults, misreads>>
  BY DEF Locate, Read
<1>5. CASE Registered(chain) /\ chain.attached /\ Becomes(t, Found(t, {}))
  <2> DEFINE T == run[t].todo \ ({"locate"} \cup {})
  <2>1. chain.registry /\ chain.proxy
    BY <1>5 DEF OrgInv, OrgTypeOK, ChainInv, State, Registered
  <2>2. Repairing(T, run[t]) /\ Mirrored(T)
    BY <1>2, <1>3, <1>5, <2>1 DEF Repairing, Mirrored, Relies
  <2>3. Relies(T, run[t])
    BY <1>3, <2>2 DEF Relies
  <2> QED BY <1>1, <1>4, <1>5, <2>3, FoundStep DEF OrgInv, OrgTypeOK
<1>6. CASE Becomes(t, Ended(run[t], "stopped"))
  BY <1>2, <1>4, <1>6, StopStep, EndedRun DEF Becomes, SoundStep, OrgInv, OrgTypeOK
<1> QED
  BY <1>5, <1>6 DEF Locate, Read

-----------------------------------------------------------------------------
(* Beginning, failing, sending. *)

LEMMA BeginSound ==
    ASSUME OrgInv, NEW t \in Tab, Begin(t)
    PROVE  OrgInv'
<1>1. PICK title \in DisplayName, op \in {"register", "repair"} :
        /\ op = "repair" => lane = "v2"
        /\ run' = [run EXCEPT ![t] =
              [Idle EXCEPT !.op = op, !.title = title, !.secret = runs',
                           !.todo = Program(op), !.clean = pool = <<>>]]
  BY DEF Begin, Becomes
<1> DEFINE r == [Idle EXCEPT !.op = op, !.title = title, !.secret = runs',
                             !.todo = Program(op), !.clean = pool = <<>>]
<1>2. run' = [run EXCEPT ![t] = r]
  BY <1>1
<1>3. /\ ~Busy(t) /\ runs' = runs + 1 /\ runs < MaxRuns /\ runs \in Nat /\ MaxRuns \in Nat
      /\ UNCHANGED <<setting, chain, time, pool, faults, misreads>>
  BY BoundAssumption DEF Begin, OrgInv, OrgTypeOK
<1>4. Program(op) \subseteq Step
  BY Steps DEF Program, RegisterV1, RegisterV2, Repair
<1>5. /\ r \in Run /\ r.op = op /\ r.title = title /\ r.secret = runs' /\ r.wake = 0
      /\ r.todo = Program(op) /\ r.sent = "no" /\ r.end = "no"
  <2>1. Idle \in Run /\ Idle.sent = "no" /\ Idle.end = "no" /\ Idle.wake = 0
    <3>1. 0 \in 0..MaxRuns /\ 0 \in Nat /\ {} \in SUBSET ToSet(Order)
      BY <1>3
    <3> QED BY <3>1 DEF Idle, Run
  <2>2. runs' \in 0..MaxRuns /\ Program(op) \in SUBSET ToSet(Order) /\ (pool = <<>>) \in BOOLEAN
    BY <1>3, <1>4 DEF Step
  <2> QED BY <2>1, <2>2 DEF Run
<1> HIDE DEF r
<1>6. r.todo # {} =>
         /\ r.todo \subseteq Program(r.op) /\ r.end = "no" /\ r.title # None
         /\ r.op \in {"register", "repair"} /\ (r.op = "repair" => lane = "v2")
         /\ r.secret \in 1..runs'
         /\ \A u \in Tab : u # t /\ Busy(u) => run[u].secret # r.secret
         /\ r.sent # "no" => \E kind \in Kind : Due(r, kind)
         /\ r.clean => r.sent # "reverted"
         /\ Relies(Ahead(r), r)
  <2>1. \A u \in Tab : Busy(u) => run[u].secret # runs'
    BY <1>3 DEF OrgInv, RunInv
  <2>2. Ahead(r) = Program(op)
    BY <1>5 DEF Ahead
  <2>3. Relies(Program(op), r)
    BY <1>5 DEF Relies, Program, FirstFlow, SecondFlow, Repairing, Mirrored,
           RegisterV1, RegisterV2, Repair
  <2>4. r.title # None
    BY <1>5, NameAssumption
  <2> QED BY <1>1, <1>3, <1>5, <2>1, <2>2, <2>3, <2>4
<1>7. runs' \in runs..MaxRuns /\ pool' \in Seq(Transaction)
      /\ faults' \in 0..MaxFaults /\ misreads' \in 0..MaxMisreads
  BY <1>3 DEF OrgInv, OrgTypeOK
<1>8. /\ OrgTypeOK' /\ RunInv' /\ ApartInv' /\ EstimateInv' /\ ChainInv'
      /\ run'[t] = r /\ \A u \in Tab : u # t => run'[u] = run[u]
  BY <1>2, <1>3, <1>5, <1>6, <1>7, Replaced
<1>9. \A i \in DOMAIN pool : pool[i].secret # run'[t].secret
  <2>1. run'[t].secret = runs + 1
    BY <1>3, <1>5, <1>8
  <2>2. \A i \in DOMAIN pool : pool[i].secret \in Nat /\ pool[i].secret <= runs
    BY PoolTyped
  <2> QED BY <1>3, <2>1, <2>2
<1>10. PoolInv'
  BY <1>3, <1>7, <1>8, <1>9, PoolKept
<1> QED
  BY <1>8, <1>10 DEF OrgInv

(* A run that has just registered the name ends well though its metadata   *)
(* failed: the name is the wallet's, or the run was told of no wrapper.    *)
LEMMA ErrorComplete ==
    ASSUME OrgInv, NEW t \in Tab, run[t].fresh, At(t, "class") \/ At(t, "title"),
           UNCHANGED <<setting, chain, time>>, run'[t] = Ended(run[t], "done")
    PROVE  Complete(t)'
<1>1. Busy(t) /\ \E step \in {"class", "title"} : step \in run[t].todo
  BY DEF At, Due, Busy
<1>2. run[t].op = "register" /\ lane = "v1" /\ run[t] \in Run
  BY <1>1, Flow, Typed DEF RegisterV1, OrgInv
<1>3. {"check", "commit", "sleep", "reveal", "wrapper", "unwrap"} \cap run[t].todo = {}
  BY Passed DEF At
<1>4. {"check", "reveal", "wrapper", "unwrap"} \cap Ahead(run[t]) = {}
  BY <1>3 DEF Ahead, After
<1>5. FirstFlow(Ahead(run[t]), run[t])
  BY <1>1, <1>2 DEF OrgInv, RunInv, Relies
<1>6. chain.holder = "wallet" \/ (run[t].misled /\ chain.holder = "wrapper")
  BY <1>2, <1>4, <1>5 DEF FirstFlow, Run
<1>7. run'[t].fresh /\ run'[t].misled = run[t].misled
  BY <1>2 DEF Ended, Run
<1> QED
  BY <1>2, <1>6, <1>7 DEF Complete, setting

LEMMA FailSound ==
    ASSUME OrgInv, NEW t \in Tab, Fail(t)
    PROVE  OrgInv' /\ SoundStep(t)
<1>1. PICK how \in {"done", "stopped"} :
        /\ run' = [run EXCEPT ![t] = Ended(run[t], how)]
        /\ how = "done" => run[t].fresh /\ (At(t, "class") \/ At(t, "title"))
  BY DEF Fail, Becomes, Error, At
<1>2. run[t] \in Run
  BY DEF OrgInv, OrgTypeOK
<1> DEFINE r == Ended(run[t], how)
<1>3. r \in Run /\ r.todo = {} /\ r.end = how
  BY <1>2, EndedRun
<1>4. UNCHANGED <<setting, chain, time, runs, misreads>> /\ pool' = Orphaned(t)
  BY DEF Fail
<1>5. /\ runs' \in runs..MaxRuns /\ faults' \in 0..MaxFaults /\ misreads' \in 0..MaxMisreads
  BY <1>4, BoundAssumption DEF Fail, OrgInv, OrgTypeOK
<1>6. pool \in Seq(Transaction) /\ DOMAIN pool = 1..Len(pool) /\ Len(pool) \in Nat
  BY DEF OrgInv, OrgTypeOK
<1>7. \A i \in 1..Len(pool) :
        /\ pool'[i] = IF pool[i].by = t THEN [pool[i] EXCEPT !.by = None] ELSE pool[i]
        /\ pool[i] \in Transaction
  BY <1>4, <1>6 DEF Orphaned
<1>8. \A i \in 1..Len(pool) :
        /\ pool'[i] \in Transaction /\ pool'[i].kind = pool[i].kind
        /\ pool'[i].secret = pool[i].secret
        /\ pool'[i].by = (IF pool[i].by = t THEN None ELSE pool[i].by)
        /\ pool[i].by # t => pool'[i] = pool[i]
  BY <1>7 DEF Transaction
<1>9. DOMAIN pool' = 1..Len(pool) /\ pool' \in Seq(Transaction)
  BY <1>4, <1>6, <1>8 DEF Orphaned
<1> HIDE DEF r
<1>10. /\ OrgTypeOK' /\ RunInv' /\ ApartInv' /\ EstimateInv' /\ ChainInv'
       /\ run'[t] = r /\ \A u \in Tab : u # t => run'[u] = run[u]
  BY <1>1, <1>3, <1>4, <1>5, <1>9, Replaced DEF r
<1>11. PoolInv'
  <2>1. None \notin Tab
    BY NameAssumption
  <2>2. ASSUME NEW i \in DOMAIN pool', NEW u \in Tab, pool'[i].by = u
        PROVE  Owned(pool[i], u)'
    <3>1. u # t /\ pool'[i] = pool[i] /\ Owned(pool[i], u) /\ run'[u] = run[u]
      BY <1>6, <1>8, <1>9, <1>10, <2>1, <2>2 DEF OrgInv, PoolInv
    <3>2. PICK tx : tx = pool[i]
      OBVIOUS
    <3>3. Can(tx, chain)' <=> Can(tx, chain)
      BY <1>4, CanKept
    <3>4. Owned(tx, u)'
      BY <3>1, <3>2, <3>3, <1>4 DEF Owned, Busy, At
    <3> QED BY <3>1, <3>2, <3>4 DEF Owned, Can, Registered, Aged
  <2>3. ASSUME NEW i \in DOMAIN pool', NEW u \in Tab, Busy(u)', pool'[i].secret = run'[u].secret
        PROVE  pool'[i].by = u
    <3>1. u # t /\ run'[u] = run[u] /\ Busy(u)
      BY <1>3, <1>10, <2>3 DEF Busy
    <3>2. pool[i].by = u
      BY <1>6, <1>8, <1>9, <2>3, <3>1 DEF OrgInv, PoolInv
    <3> QED BY <1>8, <1>9, <3>1, <3>2
  <2>4. \A i, j \in DOMAIN pool' : pool'[i].by = pool'[j].by /\ pool'[i].by \in Tab => i = j
    BY <1>6, <1>8, <1>9, <2>1 DEF OrgInv, PoolInv
  <2>5. \A i \in DOMAIN pool' : /\ pool'[i].secret <= runs'
                                /\ pool'[i].kind = "attach" => chain'.proxy
    BY <1>4, <1>6, <1>8, <1>9 DEF OrgInv, PoolInv
  <2> QED BY <2>2, <2>3, <2>4, <2>5 DEF PoolInv
<1>12. SoundStep(t)
  BY <1>1, <1>3, <1>4, <1>10, ErrorComplete DEF SoundStep, r
<1> QED
  BY <1>10, <1>11, <1>12 DEF OrgInv

(* The chain accepts what a clean run asks for.                            *)
LEMMA Accepted ==
    ASSUME OrgInv, NEW t \in Tab, NEW kind \in Kind, At(t, kind), run[t].sent = "no",
           run[t].clean, ~Behind, chain.holder # "wrapper"
    PROVE  Can(Tx(t, Made(t, kind), kind), chain)
<1> DEFINE A == run[t].todo
           tx == Tx(t, Made(t, kind), kind)
<1>1. Busy(t) /\ A = run[t].todo /\ kind \in A
  BY DEF At, Due, Busy
<1>2. Relies(A, run[t])
  BY <1>1 DEF OrgInv, RunInv, Ahead
<1>3. /\ tx.kind = kind /\ tx.secret = run[t].secret
      /\ kind = "register" => tx.until = wall + Term
  <2>1. run[t] \in Run
    BY DEF OrgInv, OrgTypeOK
  <2> QED BY <2>1 DEF Tx, Made, Run
<1>4. /\ now \in Nat /\ wall \in Nat /\ now <= wall /\ {MinAge, Term} \subseteq Nat \ {0}
      /\ chain.until \in Nat
      /\ run[t].secret \in DOMAIN chain.commits => chain.commits[run[t].secret] \in Nat
  BY TimeAssumption DEF OrgInv, OrgTypeOK, State
<1>5. wall - now <= 1 /\ ~(Registered(chain) /\ chain.until <= wall)
  BY <1>4 DEF Behind, Margin
<1> SUFFICES Can(tx, chain)
  OBVIOUS
<1> HIDE DEF tx, A
<1>6. CASE kind \in RegisterV1
  <2>1. FirstFlow(A, run[t])
    BY <1>1, <1>2, <1>6, Flow DEF Relies
  <2>2. CASE kind = "commit"
    BY <1>3, <2>2 DEF Can
  <2>3. CASE kind = "reveal"
    <3>1. {"check", "commit", "sleep"} \cap A = {}
      BY <1>1, <2>3, Passed DEF At
    <3>2. /\ chain.holder = None /\ run[t].secret \in DOMAIN chain.commits
          /\ wall >= chain.commits[run[t].secret] + MinAge + 1
      BY <1>1, <2>1, <2>3, <3>1 DEF FirstFlow, Margin
    <3>3. now >= chain.commits[run[t].secret] + MinAge
      BY <1>4, <1>5, <3>2
    <3> QED BY <1>3, <2>3, <3>2, <3>3 DEF Can, Aged
  <2>4. CASE kind = "unwrap"
    <3>1. {"check", "commit", "sleep", "reveal", "wrapper"} \cap A = {}
      BY <1>1, <2>4, Passed DEF At
    <3> QED BY <1>1, <2>1, <2>4, <3>1 DEF FirstFlow
  <2>5. CASE kind \in {"class", "title"}
    <3>1. {"check", "commit", "sleep", "reveal", "wrapper", "unwrap"} \cap A = {}
      BY <1>1, <2>5, Passed DEF At
    <3>2. chain.holder = "wallet"
      BY <2>1, <3>1 DEF FirstFlow
    <3> QED BY <1>3, <2>5, <3>2 DEF Can
  <2> QED BY <1>6, <2>2, <2>3, <2>4, <2>5 DEF RegisterV1, Kind
<1>7. CASE kind \in RegisterV2 \ Repair
  <2>1. SecondFlow(A, run[t])
    BY <1>1, <1>2, <1>7, Flow DEF Relies
  <2>2. CASE kind = "registry"
    <3>1. "probe" \notin A
      BY <1>1, <2>2, Passed DEF At
    <3> QED BY <1>1, <1>3, <2>1, <2>2, <3>1 DEF Can, SecondFlow
  <2>3. CASE kind = "register"
    <3>1. {"probe", "registry"} \cap A = {}
      BY <1>1, <2>3, Passed DEF At
    <3>2. chain.registry /\ chain.until <= wall
      BY <1>1, <2>1, <2>3, <3>1 DEF SecondFlow
    <3>3. ~Registered(chain) /\ tx.until > now
      BY <1>3, <1>4, <1>5, <2>3, <3>2
    <3> QED BY <1>3, <2>3, <3>2, <3>3 DEF Can
  <2>4. CASE kind = "proxy"
    <3>1. "slot" \notin A
      BY <1>1, <2>4, Passed DEF At
    <3> QED BY <1>1, <1>3, <2>1, <2>4, <3>1 DEF Can, SecondFlow
  <2>5. CASE kind = "attach"
    <3>1. {"probe", "registry", "verify", "register", "slot", "proxy"} \cap A = {}
      BY <1>1, <2>5, Passed DEF At
    <3> QED BY <1>3, <2>1, <2>5, <3>1 DEF Can, SecondFlow
  <2>6. CASE kind = "metadata"
    <3>1. {"probe", "registry", "verify", "register", "slot", "proxy"} \cap A = {}
      BY <1>1, <2>6, Passed DEF At
    <3> QED BY <1>3, <2>1, <2>6, <3>1 DEF Can, SecondFlow
  <2> QED BY <1>7, <2>2, <2>3, <2>4, <2>5, <2>6 DEF RegisterV2, Repair, Kind
<1>8. CASE kind \in Repair
  <2>1. kind = "pointer"
    BY <1>8 DEF Repair, Kind
  <2>2. {"slot", "proxy", "locate"} \cap A = {}
    BY <1>1, <2>1, Passed DEF At
  <2>3. lane = "v2" /\ run[t].op \in {"register", "repair"}
    BY <1>1, <2>1, Flow DEF OrgInv, RunInv
  <2>4. chain.proxy
    BY <1>2, <2>2, <2>3 DEF Relies, SecondFlow, Repairing
  <2> QED BY <1>3, <2>1, <2>4 DEF Can
<1> QED
  BY <1>6, <1>7, <1>8 DEF Kind, RegisterV1, RegisterV2, Repair

(* A step that failed ends the run.                                        *)
LEMMA ErrorStep ==
    ASSUME OrgInv, NEW t \in Tab, Busy(t), run[t].sent # "pending",
           Becomes(t, Error(run[t], "refused")),
           UNCHANGED <<setting, chain, time, pool, count>>
    PROVE  /\ OrgInv' /\ ~Busy(t)'
           /\ run'[t].end = "done" => Complete(t)'
<1>1. PICK how \in {"done", "refused"} :
        /\ run' = [run EXCEPT ![t] = Ended(run[t], how)]
        /\ how = "done" => run[t].fresh /\ (At(t, "class") \/ At(t, "title"))
  BY DEF Becomes, Error, At
<1>2. run[t] \in Run
  BY DEF OrgInv, OrgTypeOK
<1>3. OrgInv' /\ run'[t] = Ended(run[t], how)
  BY <1>1, StopStep DEF OrgInv, OrgTypeOK, count
<1> QED
  BY <1>1, <1>2, <1>3, EndedRun, ErrorComplete DEF Busy

LEMMA PrepareSound ==
    ASSUME OrgInv, NEW t \in Tab, NEW kind \in Kind, Prepare(t, kind)
    PROVE  OrgInv' /\ SoundStep(t)
<1> DEFINE tx == Tx(t, Made(t, kind), kind)
<1>1. /\ At(t, kind) /\ run[t].sent = "no" /\ Busy(t) /\ kind \in run[t].todo
      /\ UNCHANGED <<setting, chain, time, pool, count>>
  BY DEF Prepare, At, Due, Busy
<1>2. CASE ~Can(tx, chain)
  <2>1. Becomes(t, Error(run[t], "refused"))
    BY <1>2 DEF Prepare
  <2>2. OrgInv' /\ ~Busy(t)' /\ (run'[t].end = "done" => Complete(t)')
    BY <1>1, <2>1, ErrorStep
  <2>3. ~run[t].clean \/ Behind \/ chain.holder = "wrapper"
    BY <1>1, <1>2, Accepted
  <2> QED BY <2>2, <2>3 DEF SoundStep
<1>3. CASE Can(tx, chain)
  <2> DEFINE r == Made(t, kind)
  <2>1. run' = [run EXCEPT ![t] = r]
    BY <1>3 DEF Prepare, Becomes
  <2>2. /\ run[t] \in Run /\ run[t].end = "no" /\ run[t].title # None
        /\ run[t].todo \subseteq Program(run[t].op) /\ run[t].todo \subseteq Step
        /\ run[t].secret \in 1..runs /\ run[t].op \in {"register", "repair"}
        /\ run[t].op = "repair" => lane = "v2"
    BY <1>1, Typed DEF OrgInv, OrgTypeOK, RunInv, Busy
  <2>3. /\ r \in Run /\ r.sent = "ready" /\ r.todo = run[t].todo /\ r.op = run[t].op
        /\ r.title = run[t].title /\ r.secret = run[t].secret /\ r.end = run[t].end
        /\ r.wake = run[t].wake /\ r.clean = run[t].clean /\ r.misled = run[t].misled
    <3>1. wall \in Nat /\ Term \in Nat
      BY TimeAssumption DEF OrgInv, OrgTypeOK
    <3>2. PICK until \in Nat : until = IF kind = "register" THEN wall + Term ELSE 0
      BY <3>1
    <3>3. r = [run[t] EXCEPT !.sent = "ready", !.until = until]
      BY <3>2 DEF Made
    <3> HIDE DEF r
    <3> QED BY <2>2, <3>2, <3>3 DEF Run
  <2>4. \A k \in Kind : Due(r, k) => Can(Tx(t, r, k), chain)
    <3>1. ASSUME NEW k \in Kind, Due(r, k) PROVE k = kind
      <4>1. Due(run[t], k) /\ Due(run[t], kind)
        BY <1>1, <2>3, <3>1 DEF Due, At
      <4> QED BY <2>2, <4>1, DueOnce
    <3> QED BY <1>3, <3>1
  <2> HIDE DEF r, tx
  <2>5. Relies(Ahead(r), r)
    <3>1. Relies(run[t].todo, run[t])
      BY <1>1 DEF OrgInv, RunInv, Ahead
    <3>2. Ahead(r) = run[t].todo
      BY <2>3 DEF Ahead
    <3> HIDE DEF Ahead
    <3>3. PICK A : A = run[t].todo
      OBVIOUS
    <3>4. Relies(A, r)
      BY <2>3, <3>1, <3>3 DEF Relies, FirstFlow, SecondFlow, Repairing
    <3> QED BY <3>2, <3>3, <3>4
  <2>6. Due(r, kind)
    BY <1>1, <2>3 DEF At, Due
  <2>7. /\ pool' \in Seq(Transaction) /\ runs' \in runs..MaxRuns /\ runs' = runs
        /\ faults' \in 0..MaxFaults /\ misreads' \in 0..MaxMisreads
    BY <1>1, BoundAssumption DEF OrgInv, OrgTypeOK, count
  <2>8. \A u \in Tab : u # t /\ Busy(u) => run[u].secret # r.secret
    BY <1>1, <2>3 DEF OrgInv, ApartInv
  <2>9. /\ OrgTypeOK' /\ RunInv' /\ ApartInv' /\ EstimateInv' /\ ChainInv'
        /\ run'[t] = r /\ \A u \in Tab : u # t => run'[u] = run[u]
    BY <1>1, <2>1, <2>2, <2>3, <2>4, <2>5, <2>6, <2>7, <2>8, Replaced
  <2>10. \A i \in DOMAIN pool : pool[i].secret # run'[t].secret
    <3>1. \A i \in DOMAIN pool : pool[i].by # t
      BY <1>1, Unpooled
    <3> QED BY <1>1, <2>3, <2>9, <3>1 DEF OrgInv, PoolInv
  <2>11. PoolInv'
    BY <1>1, <2>7, <2>9, <2>10, PoolKept
  <2> QED BY <1>1, <2>2, <2>3, <2>9, <2>11 DEF OrgInv, SoundStep, Busy
<1> QED
  BY <1>2, <1>3

LEMMA SubmitSound ==
    ASSUME OrgInv, NEW t \in Tab, NEW kind \in Kind, Submit(t, kind)
    PROVE  OrgInv' /\ SoundStep(t)
<1>1. /\ At(t, kind) /\ run[t].sent = "ready" /\ Busy(t) /\ kind \in run[t].todo
      /\ UNCHANGED <<setting, chain, time, count>>
  BY DEF Submit, At, Due, Busy
<1> DEFINE r == [run[t] EXCEPT !.sent = "pending", !.until = 0]
           tx == Tx(t, run[t], kind)
<1>2. pool' = Append(pool, tx) /\ run' = [run EXCEPT ![t] = r]
  BY DEF Submit, Becomes
<1>3. /\ run[t] \in Run /\ run[t].end = "no" /\ run[t].title # None
      /\ run[t].todo \subseteq Program(run[t].op)
      /\ runs \in 0..MaxRuns /\ MaxRuns \in Nat
      /\ run[t].secret \in 1..runs /\ run[t].op \in {"register", "repair"}
      /\ run[t].op = "repair" => lane = "v2"
  BY <1>1, BoundAssumption DEF OrgInv, OrgTypeOK, RunInv, Busy
<1>4. /\ r \in Run /\ r.sent = "pending" /\ r.todo = run[t].todo /\ r.op = run[t].op
      /\ r.title = run[t].title /\ r.secret = run[t].secret /\ r.end = run[t].end
      /\ r.wake = run[t].wake /\ r.clean = run[t].clean /\ r.misled = run[t].misled
  BY <1>3 DEF Run
<1>5. tx \in Transaction /\ tx.kind = kind /\ tx.by = t /\ tx.secret = run[t].secret
      /\ tx.title = run[t].title
  <2>1. run[t].title \in DisplayName /\ run[t].secret \in 1..MaxRuns /\ run[t].until \in Nat
    BY <1>3 DEF Run
  <2> QED BY <2>1 DEF Tx, Transaction
<1> HIDE DEF r
<1>6. Relies(Ahead(r), r)
  <2>1. Relies(run[t].todo, run[t])
    BY <1>1 DEF OrgInv, RunInv, Ahead
  <2>2. Ahead(r) = run[t].todo
    BY <1>4 DEF Ahead
  <2> HIDE DEF Ahead
  <2>3. PICK A : A = run[t].todo
    OBVIOUS
  <2>4. Relies(A, r)
    BY <1>4, <2>1, <2>3 DEF Relies, FirstFlow, SecondFlow, Repairing
  <2> QED BY <2>2, <2>3, <2>4
<1>7. run[t].clean => Can(tx, chain)
  BY <1>1 DEF OrgInv, EstimateInv
<1> HIDE DEF tx
<1>8. Due(r, kind)
  BY <1>1, <1>4 DEF At, Due
<1>9. pool \in Seq(Transaction) /\ pool' \in Seq(Transaction)
      /\ runs' \in runs..MaxRuns /\ faults' \in 0..MaxFaults /\ misreads' \in 0..MaxMisreads
  BY <1>1, <1>2, <1>3, <1>5 DEF OrgInv, OrgTypeOK, count
<1>10. \A u \in Tab : u # t /\ Busy(u) => run[u].secret # run[t].secret
  BY <1>1 DEF OrgInv, ApartInv
<1>11. /\ OrgTypeOK' /\ RunInv' /\ ApartInv' /\ EstimateInv' /\ ChainInv'
      /\ run'[t] = r /\ \A u \in Tab : u # t => run'[u] = run[u]
  <2>1. r.secret \in 1..runs'
    BY <1>1, <1>3, <1>4 DEF count
  <2>2. r.title # None /\ r.end = "no" /\ r.todo \subseteq Program(r.op)
        /\ r.op \in {"register", "repair"} /\ (r.op = "repair" => lane = "v2")
    BY <1>3, <1>4
  <2>3. \A u \in Tab : u # t /\ Busy(u) => run[u].secret # r.secret
    BY <1>4, <1>10
  <2>4. (r.sent # "no" => \E k \in Kind : Due(r, k)) /\ (r.clean => r.sent # "reverted")
        /\ r.sent # "ready"
    BY <1>4, <1>8
  <2>5. r \in Run
    BY <1>4
  <2> QED BY <1>1, <1>2, <1>6, <1>9, <2>1, <2>2, <2>3, <2>4, <2>5, Replaced
<1>12. /\ DOMAIN pool = 1..Len(pool) /\ Len(pool) \in Nat
       /\ DOMAIN pool' = 1..(Len(pool) + 1) /\ pool'[Len(pool) + 1] = tx
       /\ \A i \in 1..Len(pool) : pool'[i] = pool[i]
  BY <1>2, <1>9
<1>13. \A i \in DOMAIN pool : pool[i].by # t
  BY <1>1, Unpooled
<1>14. ASSUME NEW i \in DOMAIN pool', NEW u \in Tab, pool'[i].by = u
       PROVE  Owned(pool[i], u)'
  <2>1. CASE i = Len(pool) + 1
    <3>1. PICK p : p = tx
      OBVIOUS
    <3>2. u = t /\ pool'[i] = p /\ p.kind = kind /\ p.secret = run[t].secret
          /\ p.title = run[t].title
      BY <1>5, <1>12, <1>14, <2>1, <3>1
    <3>3. run[t].clean => Can(p, chain)
      BY <1>7, <3>1
    <3>4. run[t].clean => Can(p, chain)'
      BY <1>1, <3>3, CanKept
    <3>5. Owned(p, t)'
      BY <1>1, <1>4, <1>8, <1>11, <3>2, <3>4 DEF Owned, Busy, At
    <3> QED BY <3>2, <3>5 DEF Owned, Can, Registered, Aged
  <2>2. CASE i # Len(pool) + 1
    <3>1. i \in DOMAIN pool /\ pool'[i] = pool[i]
      BY <1>12, <2>2
    <3>2. u # t /\ Owned(pool[i], u) /\ run'[u] = run[u]
      BY <1>11, <1>13, <1>14, <3>1 DEF OrgInv, PoolInv
    <3>3. PICK p : p = pool[i]
      OBVIOUS
    <3>4. Owned(p, u)'
      BY <1>1, <3>2, <3>3, CanKept DEF Owned, Busy, At
    <3> QED BY <3>1, <3>3, <3>4 DEF Owned, Can, Registered, Aged
  <2> QED BY <2>1, <2>2
<1>15. ASSUME NEW i \in DOMAIN pool', NEW u \in Tab, Busy(u)', pool'[i].secret = run'[u].secret
       PROVE  pool'[i].by = u
  <2>1. CASE i = Len(pool) + 1
    BY <1>1, <1>4, <1>5, <1>10, <1>11, <1>12, <1>15, <2>1 DEF Busy
  <2>2. CASE i # Len(pool) + 1
    <3>1. i \in DOMAIN pool /\ pool'[i] = pool[i]
      BY <1>12, <2>2
    <3>2. Busy(u) /\ run[u].secret = run'[u].secret
      BY <1>1, <1>4, <1>11, <1>15 DEF Busy
    <3> QED BY <1>15, <3>1, <3>2 DEF OrgInv, PoolInv
  <2> QED BY <2>1, <2>2
<1>16. \A i, j \in DOMAIN pool' : pool'[i].by = pool'[j].by /\ pool'[i].by \in Tab => i = j
  BY <1>5, <1>12, <1>13 DEF OrgInv, PoolInv
<1>17. \A i \in DOMAIN pool' : /\ pool'[i].secret <= runs'
                               /\ pool'[i].kind = "attach" => chain'.proxy
  <2>1. kind = "attach" => chain.proxy
    <3>1. SUFFICES ASSUME kind = "attach" PROVE chain.proxy
      OBVIOUS
    <3>2. {"slot", "proxy"} \cap run[t].todo = {}
      BY <1>1, <3>1, Passed DEF At
    <3>3. run[t].op = "register" /\ lane = "v2"
      BY <1>1, <3>1, Flow DEF RegisterV2, Repair
    <3>4. Relies(run[t].todo, run[t])
      BY <1>1 DEF OrgInv, RunInv, Ahead
    <3> QED BY <3>2, <3>3, <3>4 DEF Relies, SecondFlow
  <2>2. tx.secret <= runs
    BY <1>3, <1>5
  <2> QED BY <1>1, <1>5, <1>12, <2>1, <2>2 DEF OrgInv, PoolInv, count
<1>18. PoolInv'
  BY <1>14, <1>15, <1>16, <1>17 DEF PoolInv
<1> QED BY <1>1, <1>3, <1>4, <1>11, <1>18 DEF OrgInv, SoundStep, Busy

LEMMA ReceiptSound ==
    ASSUME OrgInv, NEW t \in Tab, Receipt(t)
    PROVE  OrgInv' /\ SoundStep(t)
<1>1. Busy(t) /\ UNCHANGED <<setting, chain, time, pool, count>>
  BY DEF Receipt
<1>2. CASE run[t].sent = "success"
  <2> DEFINE q == [run[t] EXCEPT !.fresh = @ \/ At(t, "reveal")]
             T == After(run[t], {})
  <2>1. run' = [run EXCEPT ![t] = Left(q, T)]
    BY <1>2 DEF Receipt, Becomes
  <2>2. run[t] \in Run /\ run[t].end = "no"
    BY <1>1 DEF OrgInv, OrgTypeOK, Busy
  <2>3. /\ q \in Run /\ q.op = run[t].op /\ q.title = run[t].title /\ q.secret = run[t].secret
        /\ q.end = "no" /\ q.wake = run[t].wake /\ q.clean = run[t].clean
        /\ q.misled = run[t].misled
    <3>1. (run[t].fresh \/ At(t, "reveal")) \in BOOLEAN
      BY <2>2 DEF Run
    <3> QED BY <2>2, <3>1 DEF Run
  <2>4. T \subseteq run[t].todo /\ Relies(T, run[t])
    BY <1>1, <1>2 DEF OrgInv, RunInv, Ahead, After
  <2> HIDE DEF q, T
  <2>5. Relies(T, q)
    BY <2>3, <2>4 DEF Relies, FirstFlow, SecondFlow, Repairing
  <2> QED BY <1>1, <1>2, <2>1, <2>3, <2>4, <2>5, LeftStep DEF count, OrgInv, OrgTypeOK
<1>3. CASE run[t].sent = "reverted" /\ Becomes(t, Error(run[t], "refused"))
  <2>1. OrgInv' /\ ~Busy(t)' /\ (run'[t].end = "done" => Complete(t)')
    BY <1>1, <1>3, ErrorStep
  <2>2. ~run[t].clean
    BY <1>1, <1>3 DEF OrgInv, RunInv
  <2> QED BY <2>1, <2>2 DEF SoundStep
<1> QED
  BY <1>2, <1>3 DEF Receipt

-----------------------------------------------------------------------------
(* A transaction is mined. *)

LEMMA Effects ==
    ASSUME OrgInv, NEW tx \in Transaction, chain' = Applied(tx, chain)
    PROVE  /\ chain'.holder = IF tx.kind = "reveal" /\ wraps THEN "wrapper"
                              ELSE IF tx.kind \in {"reveal", "unwrap"} THEN "wallet"
                              ELSE chain.holder
           /\ tx.kind # "commit" => chain'.commits = chain.commits
           /\ tx.kind = "commit" =>
                chain'.commits = [s \in DOMAIN chain.commits \cup {tx.secret} |->
                                    IF s = tx.secret THEN now ELSE chain.commits[s]]
           /\ chain'.registry = (chain.registry \/ tx.kind = "registry")
           /\ chain'.until = IF tx.kind = "register" THEN tx.until ELSE chain.until
           /\ chain'.proxy = (chain.proxy \/ tx.kind = "proxy")
           /\ chain'.attached = ((chain.attached \/ tx.kind = "attach") /\ tx.kind # "register")
           /\ chain'.pointer = (chain.pointer \/ tx.kind = "pointer")
           /\ chain'.title = IF tx.kind \in {"title", "metadata"} THEN tx.title ELSE chain.title
           /\ chain' \in State(DOMAIN chain'.commits)
           /\ DOMAIN chain'.commits \subseteq 1..MaxRuns
<1>1. /\ chain \in State(DOMAIN chain.commits) /\ DOMAIN chain.commits \subseteq 1..MaxRuns
      /\ now \in Nat /\ wraps \in BOOLEAN
  BY WrapAssumption DEF OrgInv, OrgTypeOK
<1>2. /\ tx.kind \in Kind /\ tx.secret \in 1..MaxRuns /\ tx.title \in DisplayName
      /\ tx.until \in Nat
  BY DEF Transaction
<1>3. CASE tx.kind = "commit"
  BY <1>1, <1>2, <1>3 DEF Applied, State
<1>4. CASE tx.kind = "reveal"
  BY <1>1, <1>2, <1>4 DEF Applied, State
<1>5. CASE tx.kind = "unwrap"
  BY <1>1, <1>2, <1>5 DEF Applied, State
<1>6. CASE tx.kind = "class"
  BY <1>1, <1>2, <1>6 DEF Applied, State
<1>7. CASE tx.kind = "registry"
  BY <1>1, <1>2, <1>7 DEF Applied, State
<1>8. CASE tx.kind = "register"
  BY <1>1, <1>2, <1>8 DEF Applied, State
<1>9. CASE tx.kind = "proxy"
  BY <1>1, <1>2, <1>9 DEF Applied, State
<1>10. CASE tx.kind = "attach"
  BY <1>1, <1>2, <1>10 DEF Applied, State
<1>11. CASE tx.kind = "pointer"
  BY <1>1, <1>2, <1>11 DEF Applied, State
<1>12. CASE tx.kind \in {"title", "metadata"}
  BY <1>1, <1>2, <1>12 DEF Applied, State
<1> QED
  BY <1>2, <1>3, <1>4, <1>5, <1>6, <1>7, <1>8, <1>9, <1>10, <1>11, <1>12 DEF Kind

(* What a run relies on once its own transaction has taken effect.         *)
LEMMA OwnMined ==
    ASSUME OrgInv, NEW t \in Tab, NEW tx \in Transaction, Owned(tx, t), Can(tx, chain),
           chain' = Applied(tx, chain), UNCHANGED <<setting, time>>,
           NEW A, A = run[t].todo \ {tx.kind},
           NEW r, r.op = run[t].op, r.title = run[t].title, r.secret = run[t].secret,
           r.wake = run[t].wake, r.clean = run[t].clean, r.misled = run[t].misled
    PROVE  Relies(A, r)'
<1>1. /\ Busy(t) /\ run[t].sent = "pending" /\ At(t, tx.kind) /\ tx.kind \in run[t].todo
      /\ tx.secret = r.secret /\ tx.title = r.title /\ tx.kind \in Kind
  BY DEF Owned, At, Due, Transaction
<1>2. Relies(run[t].todo, run[t])
  BY <1>1 DEF OrgInv, RunInv, Ahead
<1>3. /\ now \in Nat /\ wall \in Nat /\ now <= wall /\ chain.until \in Nat
      /\ lane' = lane /\ wraps' = wraps /\ now' = now /\ wall' = wall
  BY DEF OrgInv, OrgTypeOK, State, setting, time
<1> DEFINE T == run[t].todo
<1>4. CASE tx.kind \in RegisterV1
  <2>1. r.op = "register" /\ lane = "v1" /\ FirstFlow(T, run[t])
    BY <1>1, <1>2, <1>4, Flow DEF Relies
  <2>2. FirstFlow(A, r)'
    <3>1. CASE tx.kind = "commit"
      <4>1. "check" \notin T
        BY <1>1, <3>1, Passed DEF At
      <4>2. /\ r.secret \in DOMAIN chain'.commits /\ chain'.commits[r.secret] = now
            /\ chain'.holder = chain.holder /\ chain'.title = chain.title
        <5>1. chain'.commits = [s \in DOMAIN chain.commits \cup {tx.secret} |->
                                  IF s = tx.secret THEN now ELSE chain.commits[s]]
          BY <3>1, Effects
        <5>2. chain'.holder = chain.holder /\ chain'.title = chain.title
          BY <3>1, Effects
        <5> QED BY <1>1, <5>1, <5>2
      <4>3. r.wake = 0 /\ "sleep" \in A
        BY <1>1, <2>1, <3>1 DEF FirstFlow
      <4> QED BY <1>1, <1>3, <2>1, <3>1, <4>1, <4>2, <4>3 DEF FirstFlow
    <3>2. CASE tx.kind = "reveal"
      <4>1. {"check", "commit", "sleep"} \cap T = {}
        BY <1>1, <3>2, Passed DEF At
      <4>2. /\ chain'.holder = (IF wraps THEN "wrapper" ELSE "wallet")
            /\ chain'.commits = chain.commits /\ chain'.title = chain.title
        BY <3>2, Effects
      <4> QED BY <1>1, <1>3, <2>1, <3>2, <4>1, <4>2 DEF FirstFlow
    <3>3. CASE tx.kind = "unwrap"
      <4>1. {"check", "commit", "sleep", "reveal", "wrapper"} \cap T = {}
        BY <1>1, <3>3, Passed DEF At
      <4>2. chain'.holder = "wallet" /\ chain'.title = chain.title
        BY <3>3, Effects
      <4> QED BY <1>1, <1>3, <2>1, <3>3, <4>1, <4>2 DEF FirstFlow
    <3>4. CASE tx.kind \in {"class", "title"}
      <4>1. {"check", "commit", "sleep", "reveal", "wrapper", "unwrap"} \cap T = {}
        BY <1>1, <3>4, Passed DEF At
      <4>2. /\ chain'.holder = chain.holder
            /\ chain'.title = (IF tx.kind = "title" THEN r.title ELSE chain.title)
        BY <1>1, <3>4, Effects
      <4> QED BY <1>1, <1>3, <2>1, <3>4, <4>1, <4>2 DEF FirstFlow
    <3> QED BY <1>1, <1>4, <3>1, <3>2, <3>3, <3>4 DEF Kind, RegisterV1
  <2> QED BY <1>3, <2>1, <2>2 DEF Relies
<1>5. CASE tx.kind \in RegisterV2 \ Repair
  <2>1. r.op = "register" /\ lane = "v2" /\ SecondFlow(T, run[t]) /\ Mirrored(T)
    BY <1>1, <1>2, <1>5, Flow DEF Relies
  <2>2. Mirrored(A)'
    <3>1. chain.pointer => chain'.pointer
      BY Effects
    <3> QED BY <1>5, <2>1, <3>1 DEF Mirrored, RegisterV2, Repair
  <2>3. SecondFlow(A, r)'
    <3>1. CASE tx.kind = "registry"
      <4>1. "probe" \notin T /\ "slot" \in T
        BY <1>1, <2>1, <3>1, Passed DEF At, SecondFlow
      <4>2. chain'.registry /\ chain'.until = chain.until /\ chain'.title = chain.title
        BY <3>1, Effects
      <4> QED BY <1>1, <1>3, <2>1, <3>1, <4>1, <4>2 DEF SecondFlow, Registered
    <3>2. CASE tx.kind = "register"
      <4>1. {"probe", "registry"} \cap T = {} /\ "slot" \in T
        BY <1>1, <2>1, <3>2, Passed DEF At, SecondFlow
      <4>2. /\ chain'.registry = chain.registry /\ chain'.until = tx.until
            /\ chain'.title = chain.title
        BY <3>2, Effects, <1>3 DEF OrgInv, OrgTypeOK, State
      <4>3. chain.registry /\ tx.until > now
        BY <3>2 DEF Can
      <4> QED BY <1>1, <1>3, <2>1, <3>2, <4>1, <4>2, <4>3 DEF SecondFlow, Registered
    <3>3. CASE tx.kind = "proxy"
      <4>1. {"probe", "registry", "verify", "register", "slot"} \cap T = {}
        BY <1>1, <3>3, Passed DEF At
      <4>2. /\ chain'.registry = chain.registry /\ chain'.until = chain.until /\ chain'.proxy
            /\ chain'.attached = chain.attached /\ chain'.title = chain.title
        BY <3>3, Effects DEF OrgInv, OrgTypeOK, State
      <4> QED BY <1>1, <1>3, <2>1, <3>3, <4>1, <4>2 DEF SecondFlow, Registered
    <3>4. CASE tx.kind = "attach"
      <4>1. {"probe", "registry", "verify", "register", "slot", "proxy"} \cap T = {}
        BY <1>1, <3>4, Passed DEF At
      <4>2. /\ chain'.registry = chain.registry /\ chain'.until = chain.until
            /\ chain'.proxy = chain.proxy /\ chain'.attached /\ chain'.title = chain.title
        BY <3>4, Effects DEF OrgInv, OrgTypeOK, State
      <4> QED BY <1>1, <1>3, <2>1, <3>4, <4>1, <4>2 DEF SecondFlow, Registered
    <3>5. CASE tx.kind = "metadata"
      <4>1. {"probe", "registry", "verify", "register", "slot", "proxy", "records"} \cap T = {}
        BY <1>1, <3>5, Passed DEF At
      <4>2. /\ chain'.registry = chain.registry /\ chain'.until = chain.until
            /\ chain'.proxy = chain.proxy /\ chain'.attached = chain.attached
            /\ chain'.title = r.title
        BY <1>1, <3>5, Effects DEF OrgInv, OrgTypeOK, State
      <4> QED BY <1>1, <1>3, <2>1, <3>5, <4>1, <4>2 DEF SecondFlow, Registered
    <3> QED BY <1>1, <1>5, <3>1, <3>2, <3>3, <3>4, <3>5 DEF Kind, RegisterV2, Repair
  <2> QED BY <1>3, <2>1, <2>2, <2>3 DEF Relies
<1>6. CASE tx.kind \in Repair
  <2>1. tx.kind = "pointer"
    BY <1>1, <1>6 DEF Repair, Kind
  <2>2. lane = "v2" /\ Mirrored(T)
    BY <1>1, <1>2, <2>1, Flow DEF OrgInv, RunInv, Relies
  <2>3. {"probe", "registry", "verify", "register", "slot", "proxy", "attach", "locate", "mirror"}
          \cap T = {}
    BY <1>1, <2>1, Passed DEF At
  <2>4. /\ chain'.pointer /\ chain'.registry = chain.registry /\ chain'.until = chain.until
        /\ chain'.proxy = chain.proxy /\ chain'.attached = chain.attached
        /\ chain'.title = chain.title
    BY <2>1, Effects DEF OrgInv, OrgTypeOK, State
  <2>5. Mirrored(A)'
    BY <2>3, <2>4 DEF Mirrored
  <2>6. SecondFlow(T, run[t]) => SecondFlow(A, r)'
    BY <1>3, <2>1, <2>3, <2>4 DEF SecondFlow, Registered
  <2>7. Repairing(T, run[t]) => Repairing(A, r)'
    BY <2>1, <2>3, <2>4 DEF Repairing
  <2> QED BY <1>2, <1>3, <2>2, <2>5, <2>6, <2>7 DEF Relies
<1> QED
  BY <1>1, <1>4, <1>5, <1>6 DEF Kind, RegisterV1, RegisterV2, Repair

(* What lasts when another's transaction takes effect.                     *)
LEMMA OtherMined ==
    ASSUME OrgInv, NEW t \in Tab, NEW tx \in Transaction, Can(tx, chain),
           tx.secret # run[t].secret,
           chain' = Applied(tx, chain), UNCHANGED <<setting, time>>,
           NEW A, NEW p, p.secret = run[t].secret, Relies(A, p),
           NEW r, r.op = p.op, r.title = p.title, r.secret = p.secret,
           r.wake = p.wake, r.misled = p.misled, ~r.clean
    PROVE  Relies(A, r)'
<1>1. /\ lane' = lane /\ wraps' = wraps /\ now' = now /\ wall' = wall
      /\ chain.registry => chain'.registry
      /\ chain.proxy => chain'.proxy
      /\ chain.pointer => chain'.pointer
  BY Effects DEF setting, time
<1>2. /\ chain.holder = "wallet" => chain'.holder = "wallet"
      /\ chain.holder = "wrapper" => chain'.holder \in {"wrapper", "wallet"}
  BY Effects, NameAssumption DEF Can
<1>3. p.secret \in DOMAIN chain.commits =>
        p.secret \in DOMAIN chain'.commits /\ chain'.commits[p.secret] = chain.commits[p.secret]
  <2>1. CASE tx.kind = "commit"
    <3>1. chain'.commits = [s \in DOMAIN chain.commits \cup {tx.secret} |->
                              IF s = tx.secret THEN now ELSE chain.commits[s]]
      BY <2>1, Effects
    <3> QED BY <3>1
  <2>2. CASE tx.kind # "commit"
    BY <2>2, Effects
  <2> QED BY <2>1, <2>2
<1>4. FirstFlow(A, p) => FirstFlow(A, r)'
  BY <1>1, <1>2, <1>3 DEF FirstFlow
<1>5. SecondFlow(A, p) => SecondFlow(A, r)'
  BY <1>1 DEF SecondFlow
<1>6. Repairing(A, p) => Repairing(A, r)'
  BY <1>1 DEF Repairing
<1>7. Mirrored(A) => Mirrored(A)'
  BY <1>1 DEF Mirrored
<1> QED
  BY <1>1, <1>4, <1>5, <1>6, <1>7 DEF Relies

LEMMA DisturbedRun ==
    ASSUME NEW r \in Run
    PROVE  LET d == Disturbed(r) IN
           /\ d \in Run /\ d.op = r.op /\ d.title = r.title /\ d.secret = r.secret
           /\ d.wake = r.wake /\ d.todo = r.todo /\ d.end = r.end /\ d.sent = r.sent
           /\ d.until = r.until /\ d.misled = r.misled
           /\ r.todo # {} => ~d.clean
           /\ d.clean => r.clean
<1>1. CASE r.todo = {}
  BY <1>1 DEF Disturbed
<1>2. CASE r.todo # {}
  BY <1>2 DEF Disturbed, Run
<1> QED
  BY <1>1, <1>2

LEMMA MineSound ==
    ASSUME OrgInv, Mine
    PROVE  OrgInv' /\ \A t \in Tab : Busy(t) => Busy(t)' /\ run'[t].end = "no"
<1>1. pool \in Seq(Transaction) /\ pool # <<>> /\ pool' = Tail(pool)
  BY DEF OrgInv, OrgTypeOK, Mine
<1>2. PICK tx : tx = Head(pool)
  OBVIOUS
<1>3. /\ DOMAIN pool = 1..Len(pool) /\ Len(pool) \in Nat \ {0}
      /\ pool' \in Seq(Transaction) /\ DOMAIN pool' = 1..(Len(pool) - 1)
      /\ \A i \in 1..(Len(pool) - 1) : pool'[i] = pool[i + 1]
      /\ tx = pool[1] /\ tx \in Transaction
  BY <1>1, <1>2
<1>4. \A i \in DOMAIN pool' : i + 1 \in DOMAIN pool /\ i + 1 # 1 /\ pool'[i] = pool[i + 1]
  BY <1>3
<1>5. 1 \in DOMAIN pool
  BY <1>3
<1>6. /\ run \in [Tab -> Run]
      /\ UNCHANGED <<setting, time, count>>
      /\ lane' = lane /\ wraps' = wraps /\ now' = now /\ wall' = wall /\ runs' = runs
      /\ faults' = faults /\ misreads' = misreads
  BY DEF Mine, OrgInv, OrgTypeOK, setting, time, count
<1>7. /\ Can(tx, chain) => chain' = Applied(tx, chain)
      /\ ~Can(tx, chain) => chain' = chain
  BY <1>2 DEF Mine
<1>8. \A t \in Tab : run'[t] = IF t = tx.by
        THEN [run[t] EXCEPT !.sent = IF Can(tx, chain) THEN "success" ELSE "reverted"]
        ELSE Disturbed(run[t])
  BY <1>2 DEF Mine
<1>9. \A t \in Tab : t = tx.by => Owned(tx, t)
  BY <1>3, <1>5 DEF OrgInv, PoolInv
<1>10. \A t \in Tab : Busy(t) /\ t # tx.by => tx.secret # run[t].secret
  BY <1>3, <1>5 DEF OrgInv, PoolInv
<1>11. \A t \in Tab : run[t] \in Run
  BY <1>6
<1>12. ASSUME NEW t \in Tab
       PROVE  /\ run'[t] \in Run /\ run'[t].op = run[t].op /\ run'[t].title = run[t].title
              /\ run'[t].secret = run[t].secret /\ run'[t].wake = run[t].wake
              /\ run'[t].todo = run[t].todo /\ run'[t].end = run[t].end
              /\ run'[t].misled = run[t].misled
              /\ t = tx.by => /\ run'[t].clean = run[t].clean
                              /\ run'[t].sent = IF Can(tx, chain) THEN "success" ELSE "reverted"
              /\ t # tx.by => /\ Busy(t) => ~run'[t].clean
                              /\ run'[t].sent = run[t].sent
  <2>1. run[t] \in Run
    BY <1>11
  <2>2. CASE t = tx.by
    <3>1. PICK sent \in {"success", "reverted"} :
            sent = IF Can(tx, chain) THEN "success" ELSE "reverted"
      OBVIOUS
    <3>2. run'[t] = [run[t] EXCEPT !.sent = sent]
      BY <1>8, <2>2, <3>1
    <3> QED BY <2>1, <2>2, <3>1, <3>2 DEF Run
  <2>3. CASE t # tx.by
    <3>1. run'[t] = Disturbed(run[t])
      BY <1>8, <2>3
    <3> QED BY <2>1, <2>3, <3>1, DisturbedRun DEF Busy
  <2> QED BY <2>2, <2>3
<1>13. /\ chain' \in State(DOMAIN chain'.commits) /\ DOMAIN chain'.commits \subseteq 1..MaxRuns
       /\ DOMAIN chain'.commits \subseteq 1..runs
       /\ chain.proxy => chain'.proxy
       /\ chain'.attached => chain'.proxy
       /\ chain'.until # 0 => chain'.registry
  <2>1. CASE ~Can(tx, chain)
    BY <1>7, <2>1 DEF OrgInv, OrgTypeOK, ChainInv
  <2>2. CASE Can(tx, chain)
    <3>1. chain' = Applied(tx, chain)
      BY <1>7, <2>2
    <3>2. chain' \in State(DOMAIN chain'.commits) /\ DOMAIN chain'.commits \subseteq 1..MaxRuns
      BY <1>3, <3>1, Effects
    <3>3. DOMAIN chain'.commits \subseteq 1..runs
      <4>1. tx.secret \in 1..runs /\ DOMAIN chain.commits \subseteq 1..runs
        <5>1. tx.secret \in 1..MaxRuns /\ tx.secret <= runs
          BY <1>3, <1>5 DEF Transaction, OrgInv, PoolInv
        <5>2. runs \in Nat /\ MaxRuns \in Nat
          BY BoundAssumption DEF OrgInv, OrgTypeOK
        <5> QED BY <5>1, <5>2 DEF OrgInv, ChainInv
      <4>2. CASE tx.kind = "commit"
        <5>1. chain'.commits = [s \in DOMAIN chain.commits \cup {tx.secret} |->
                                  IF s = tx.secret THEN now ELSE chain.commits[s]]
          BY <1>3, <3>1, <4>2, Effects
        <5> QED BY <4>1, <5>1
      <4>3. CASE tx.kind # "commit"
        BY <1>3, <3>1, <4>1, <4>3, Effects
      <4> QED BY <4>2, <4>3
    <3>4. /\ chain'.proxy = (chain.proxy \/ tx.kind = "proxy")
          /\ chain'.attached = ((chain.attached \/ tx.kind = "attach") /\ tx.kind # "register")
          /\ chain'.registry = (chain.registry \/ tx.kind = "registry")
          /\ chain'.until = IF tx.kind = "register" THEN tx.until ELSE chain.until
      BY <1>3, <3>1, Effects
    <3>5. /\ tx.kind = "attach" => chain.proxy
          /\ tx.kind = "register" => chain.registry
      BY <1>3, <1>5, <2>2 DEF Can, OrgInv, PoolInv
    <3> QED BY <3>2, <3>3, <3>4, <3>5 DEF OrgInv, ChainInv
  <2> QED BY <2>1, <2>2
<1>14. OrgTypeOK'
  <2>1. run' \in [Tab -> Run]
    <3>1. run' = [t \in Tab |-> run'[t]]
      BY DEF Mine
    <3> QED BY <1>12, <3>1
  <2>2. \A t \in Tab : run'[t].todo # {} => /\ run'[t].todo \subseteq Program(run[t].op)
                                           /\ run'[t].op = run[t].op
                                           /\ run'[t].end = "no" /\ run'[t].title # None
    BY <1>12 DEF OrgInv, OrgTypeOK
  <2> QED BY <1>3, <1>6, <1>13, <2>1, <2>2 DEF OrgInv, OrgTypeOK, Program
<1>15. ASSUME NEW t \in Tab, Busy(t)
       PROVE  Relies(Ahead(run[t]), run[t])'
  <2>1. PICK r : r = run'[t]
    OBVIOUS
  <2>2. r.op = run[t].op /\ r.title = run[t].title /\ r.secret = run[t].secret
        /\ r.wake = run[t].wake /\ r.todo = run[t].todo /\ r.misled = run[t].misled
    BY <1>12, <2>1
  <2>3. CASE t = tx.by /\ Can(tx, chain)
    <3>1. Owned(tx, t) /\ chain' = Applied(tx, chain) /\ UNCHANGED <<setting, time>>
      BY <1>6, <1>7, <1>9, <2>3
    <3>2. r.sent = "success" /\ r.clean = run[t].clean
      BY <1>12, <2>1, <2>3
    <3>3. PICK A : A = run[t].todo \ {tx.kind}
      OBVIOUS
    <3>4. Ahead(r) = A
      <4>1. run[t].todo \subseteq Step /\ Due(run[t], tx.kind)
        BY <3>1, Typed DEF OrgInv, Owned, At
      <4>2. \A step \in run[t].todo : Due(run[t], step) <=> step = tx.kind
        BY <4>1, DueOnce
      <4>3. \A step \in run[t].todo : Due(r, step) <=> step = tx.kind
        BY <2>2, <4>2 DEF Due
      <4> QED BY <2>2, <3>2, <3>3, <4>3 DEF Ahead, After
    <3>5. Relies(A, r)'
      BY <1>3, <2>2, <2>3, <3>1, <3>2, <3>3, OwnMined
    <3> QED BY <2>1, <3>4, <3>5, ReliesNow
  <2>4. CASE t = tx.by /\ ~Can(tx, chain)
    <3>1. Owned(tx, t) /\ UNCHANGED <<setting, chain, time>>
      BY <1>6, <1>7, <1>9, <2>4
    <3>2. run[t].sent = "pending" /\ r.sent = "reverted" /\ r.clean = run[t].clean
      BY <1>12, <2>1, <2>4, <3>1 DEF Owned
    <3>3. PICK A : A = run[t].todo
      OBVIOUS
    <3>4. Relies(A, run[t]) /\ Ahead(r) = A
      BY <1>15, <2>2, <3>2, <3>3 DEF OrgInv, RunInv, Ahead
    <3>5. Relies(A, r)
      BY <2>2, <3>2, <3>4 DEF Relies, FirstFlow, SecondFlow, Repairing
    <3>6. Relies(A, r)'
      BY <3>1, <3>5, ReliesKept
    <3> QED BY <2>1, <3>4, <3>6, ReliesNow
  <2>5. CASE t # tx.by
    <3>1. ~r.clean /\ r.sent = run[t].sent
      BY <1>12, <1>15, <2>1, <2>5
    <3>2. PICK A, p : A = Ahead(run[t]) /\ p = run[t]
      OBVIOUS
    <3>3. Relies(A, p)
      BY <1>15, <3>2 DEF OrgInv, RunInv
    <3>4. Ahead(r) = A
      BY <2>2, <3>1, <3>2 DEF Ahead, After, Due
    <3>5. Relies(A, r)'
      <4>1. CASE Can(tx, chain)
        BY <1>3, <1>6, <1>7, <1>10, <1>15, <2>2, <2>5, <3>1, <3>2, <3>3, <4>1, OtherMined
      <4>2. CASE ~Can(tx, chain)
        <5>1. Relies(A, r)
          BY <2>2, <3>1, <3>2, <3>3 DEF Relies, FirstFlow, SecondFlow, Repairing
        <5>2. UNCHANGED <<setting, chain, time>>
          BY <1>6, <1>7, <4>2
        <5> QED BY <5>1, <5>2, ReliesKept
      <4> QED BY <4>1, <4>2
    <3> QED BY <2>1, <3>4, <3>5, ReliesNow
  <2> QED BY <2>3, <2>4, <2>5
<1>16. RunInv'
  <2> SUFFICES ASSUME NEW t \in Tab, Busy(t)'
               PROVE  /\ run'[t].op \in {"register", "repair"}
                      /\ run'[t].op = "repair" => lane' = "v2"
                      /\ run'[t].secret \in 1..runs'
                      /\ run'[t].sent # "no" => \E kind \in Kind : At(t, kind)'
                      /\ run'[t].clean => run'[t].sent # "reverted"
                      /\ Relies(Ahead(run[t]), run[t])'
    BY DEF RunInv
  <2>1. Busy(t)
    BY <1>12 DEF Busy
  <2>2. \A kind : At(t, kind) <=> At(t, kind)'
    BY <1>12 DEF At, Due
  <2>3. run'[t].sent # "no" => \E kind \in Kind : At(t, kind)
    <3>1. CASE t = tx.by
      BY <1>3, <1>9, <3>1 DEF Owned, Transaction
    <3>2. CASE t # tx.by
      BY <1>12, <2>1, <3>2 DEF OrgInv, RunInv
    <3> QED BY <3>1, <3>2
  <2>4. run'[t].clean => run'[t].sent # "reverted"
    <3>1. CASE t = tx.by
      BY <1>9, <1>12, <3>1 DEF Owned
    <3>2. CASE t # tx.by
      BY <1>12, <2>1, <3>2
    <3> QED BY <3>1, <3>2
  <2> QED BY <1>6, <1>12, <1>15, <2>1, <2>2, <2>3, <2>4 DEF OrgInv, RunInv
<1>17. ApartInv'
  BY <1>12 DEF OrgInv, ApartInv, Busy
<1>18. PoolInv'
  <2>1. ASSUME NEW i \in DOMAIN pool', NEW u \in Tab, pool'[i].by = u
        PROVE  Owned(pool[i], u)'
    <3>1. pool[i + 1].by = u /\ u # tx.by /\ Owned(pool[i + 1], u)
      BY <1>3, <1>4, <1>5, <2>1 DEF OrgInv, PoolInv
    <3>2. PICK p : p = pool[i + 1]
      OBVIOUS
    <3>3. Owned(p, u) /\ pool'[i] = p
      BY <1>4, <3>1, <3>2
    <3>4. Owned(p, u)'
      BY <1>12, <3>1, <3>3 DEF Owned, Busy, At, Due
    <3> QED BY <3>3, <3>4 DEF Owned, Can, Registered, Aged
  <2>2. ASSUME NEW i \in DOMAIN pool', NEW u \in Tab, Busy(u)', pool'[i].secret = run'[u].secret
        PROVE  pool'[i].by = u
    BY <1>4, <1>12, <2>2 DEF OrgInv, PoolInv, Busy
  <2>3. ASSUME NEW i \in DOMAIN pool', NEW j \in DOMAIN pool', pool'[i].by = pool'[j].by,
               pool'[i].by \in Tab
        PROVE  i = j
    <3>1. i + 1 = j + 1
      BY <1>4, <2>3 DEF OrgInv, PoolInv
    <3> QED BY <1>3, <3>1
  <2>4. \A i \in DOMAIN pool' : /\ pool'[i].secret <= runs'
                                /\ pool'[i].kind = "attach" => chain'.proxy
    BY <1>4, <1>6, <1>13 DEF OrgInv, PoolInv
  <2> QED BY <2>1, <2>2, <2>3, <2>4 DEF PoolInv
<1>19. ChainInv'
  BY <1>6, <1>13 DEF ChainInv
<1>20. \A t \in Tab : Busy(t) => Busy(t)' /\ run'[t].end = "no"
  BY <1>12 DEF Busy, OrgInv, OrgTypeOK
<1>21. EstimateInv'
  BY <1>12 DEF EstimateInv, Busy
<1> QED
  BY <1>14, <1>16, <1>17, <1>18, <1>19, <1>20, <1>21 DEF OrgInv

-----------------------------------------------------------------------------
(* Time passes. *)

(* A run has nothing to fear from a block in which no registration ends.   *)
Lasts ==
    /\ Registered(chain) => Registered(chain)'
    /\ \A i \in DOMAIN pool : pool[i].kind = "register" /\ pool[i].until > now
                                => pool[i].until > now'
    /\ \A t \in Tab : run[t].until > now => run[t].until > now'

LEMMA Passing ==
    ASSUME OrgInv, UNCHANGED <<setting, chain, pool, count>>,
           wall' \in wall..MaxTime, now' \in now..wall',
           run' \in [Tab -> Run],
           \A t \in Tab : \/ run'[t] = run[t] /\ Lasts
                          \/ run'[t] = Disturbed(run[t])
    PROVE  OrgInv' /\ \A t \in Tab : Busy(t) => Busy(t)' /\ run'[t].end = "no"
<1>1. /\ now \in Nat /\ wall \in Nat /\ now <= wall /\ now' \in Nat /\ wall' \in Nat
      /\ now <= now' /\ wall <= wall' /\ now' <= wall' /\ MaxTime \in Nat /\ wall' <= MaxTime
      /\ lane' = lane /\ wraps' = wraps /\ runs' = runs /\ faults' = faults
      /\ misreads' = misreads /\ chain' = chain /\ pool' = pool
      /\ chain.until \in Nat
      /\ \A s \in DOMAIN chain.commits : chain.commits[s] \in Nat
  BY BoundAssumption DEF OrgInv, OrgTypeOK, setting, count, State
<1>2. ASSUME NEW t \in Tab
      PROVE  /\ run[t] \in Run
             /\ run'[t].op = run[t].op /\ run'[t].title = run[t].title
             /\ run'[t].secret = run[t].secret /\ run'[t].wake = run[t].wake
             /\ run'[t].todo = run[t].todo /\ run'[t].end = run[t].end
             /\ run'[t].sent = run[t].sent /\ run'[t].until = run[t].until
             /\ run'[t].misled = run[t].misled
             /\ run'[t].clean /\ Busy(t) => run[t].clean /\ Lasts
  <2>1. run[t] \in Run
    BY DEF OrgInv, OrgTypeOK
  <2>2. CASE run'[t] = run[t] /\ Lasts
    BY <2>1, <2>2
  <2>3. CASE run'[t] = Disturbed(run[t])
    BY <2>1, <2>3, DisturbedRun DEF Busy
  <2> QED BY <2>2, <2>3
<1>3. OrgTypeOK'
  <2>1. \A t \in Tab : run'[t].todo # {} => /\ run'[t].todo \subseteq Program(run[t].op)
                                           /\ run'[t].op = run[t].op
                                           /\ run'[t].end = "no" /\ run'[t].title # None
    BY <1>2 DEF OrgInv, OrgTypeOK
  <2> QED BY <1>1, <2>1 DEF OrgInv, OrgTypeOK, Program
<1>4. ASSUME NEW t \in Tab, Busy(t)
      PROVE  Relies(Ahead(run[t]), run[t])'
  <2>1. PICK r : r = run'[t]
    OBVIOUS
  <2>2. PICK A, p : A = Ahead(run[t]) /\ p = run[t]
    OBVIOUS
  <2>3. Relies(A, p)
    BY <1>4, <2>2 DEF OrgInv, RunInv
  <2>4. /\ r.op = p.op /\ r.title = p.title /\ r.secret = p.secret /\ r.wake = p.wake
        /\ r.todo = p.todo /\ r.sent = p.sent /\ r.misled = p.misled
        /\ r.clean => p.clean /\ (Registered(chain) => Registered(chain)')
    BY <1>2, <1>4, <2>1, <2>2 DEF Lasts
  <2>5. Ahead(r) = A
    BY <2>2, <2>4 DEF Ahead, After, Due
  <2>6. Relies(A, r)'
    <3>1. FirstFlow(A, p) => FirstFlow(A, r)'
      <4>1. MinAge \in Nat
        BY TimeAssumption
      <4> QED BY <1>1, <2>4, <4>1 DEF FirstFlow, Margin
    <3>2. SecondFlow(A, p) => SecondFlow(A, r)'
      BY <1>1, <2>4 DEF SecondFlow
    <3>3. Repairing(A, p) => Repairing(A, r)'
      BY <1>1, <2>4 DEF Repairing
    <3>4. Mirrored(A) => Mirrored(A)'
      BY <1>1 DEF Mirrored
    <3> QED BY <1>1, <2>3, <2>4, <3>1, <3>2, <3>3, <3>4 DEF Relies
  <2> QED BY <2>1, <2>5, <2>6, ReliesNow
<1>5. RunInv'
  <2> SUFFICES ASSUME NEW t \in Tab, Busy(t)'
               PROVE  /\ run'[t].op \in {"register", "repair"}
                      /\ run'[t].op = "repair" => lane' = "v2"
                      /\ run'[t].secret \in 1..runs'
                      /\ run'[t].sent # "no" => \E kind \in Kind : At(t, kind)'
                      /\ run'[t].clean => run'[t].sent # "reverted"
                      /\ Relies(Ahead(run[t]), run[t])'
    BY DEF RunInv
  <2>1. Busy(t)
    BY <1>2 DEF Busy
  <2>2. \A kind : At(t, kind) <=> At(t, kind)'
    BY <1>2 DEF At, Due
  <2> QED BY <1>1, <1>2, <1>4, <2>1, <2>2 DEF OrgInv, RunInv
<1>6. ApartInv'
  BY <1>2 DEF OrgInv, ApartInv, Busy
<1>7. PoolInv'
  <2>1. ASSUME NEW i \in DOMAIN pool, NEW t \in Tab, pool[i].by = t
        PROVE  Owned(pool[i], t)'
    <3>1. PICK tx : tx = pool[i]
      OBVIOUS
    <3>2. Owned(tx, t)
      BY <2>1, <3>1 DEF OrgInv, PoolInv
    <3>3. Busy(t)' /\ (At(t, tx.kind) <=> At(t, tx.kind)')
      BY <1>2, <3>2 DEF Busy, At, Due, Owned
    <3>4. run'[t].clean => Can(tx, chain)'
      <4> SUFFICES ASSUME run'[t].clean PROVE Can(tx, chain)'
        OBVIOUS
      <4>1. Can(tx, chain) /\ Lasts
        BY <1>2, <3>2 DEF Owned
      <4>2. tx \in Transaction /\ tx.kind \in Kind /\ tx.until \in Nat
        BY <3>1, PoolTyped DEF Transaction
      <4>3. Registered(chain)' <=> Registered(chain)
        BY <1>1, <4>1 DEF Lasts, Registered
      <4>4. tx.kind = "register" => (tx.until > now => tx.until > now')
        BY <3>1, <4>1 DEF Lasts
      <4>5. Aged(chain, tx.secret) => Aged(chain, tx.secret)'
        <5>1. MinAge \in Nat
          BY TimeAssumption
        <5> QED BY <1>1, <5>1 DEF Aged
      <4> HIDE DEF Lasts
      <4> QED BY <1>1, <4>1, <4>2, <4>3, <4>4, <4>5 DEF Can, Kind
    <3>5. Owned(tx, t)'
      BY <1>2, <3>2, <3>3, <3>4 DEF Owned
    <3> QED BY <1>1, <3>1, <3>5 DEF Owned, Can, Registered, Aged
  <2>2. \A i \in DOMAIN pool : \A t \in Tab :
          Busy(t)' /\ pool[i].secret = run'[t].secret => pool[i].by = t
    BY <1>2 DEF OrgInv, PoolInv, Busy
  <2> QED BY <1>1, <2>1, <2>2 DEF OrgInv, PoolInv
<1>8. ChainInv'
  BY <1>1 DEF OrgInv, ChainInv
<1>9. \A t \in Tab : Busy(t) => Busy(t)' /\ run'[t].end = "no"
  BY <1>2 DEF Busy, OrgInv, OrgTypeOK
<1>10. EstimateInv'
  <2> SUFFICES ASSUME NEW t \in Tab, Busy(t)', run'[t].sent = "ready", run'[t].clean,
                      NEW kind \in Kind, At(t, kind)'
               PROVE  Can(Tx(t, run[t], kind), chain)'
    BY DEF EstimateInv
  <2>1. PICK tx : tx = Tx(t, run[t], kind)
    OBVIOUS
  <2>2. Busy(t) /\ run[t].sent = "ready" /\ run[t].clean /\ Lasts /\ At(t, kind)
    BY <1>2 DEF Busy, At, Due
  <2>3. Can(tx, chain) /\ tx.kind = kind /\ tx.until = run[t].until /\ tx.until \in Nat
    BY <1>2, <2>1, <2>2 DEF OrgInv, EstimateInv, Tx, Run
  <2>4. Registered(chain)' <=> Registered(chain)
    BY <1>1, <2>2 DEF Lasts, Registered
  <2>5. tx.until > now => tx.until > now'
    BY <2>2, <2>3 DEF Lasts
  <2>6. Aged(chain, tx.secret) => Aged(chain, tx.secret)'
    <3>1. MinAge \in Nat
      BY TimeAssumption
    <3> QED BY <1>1, <3>1 DEF Aged
  <2>7. Can(tx, chain)'
    BY <1>1, <2>3, <2>4, <2>5, <2>6 DEF Can, Kind
  <2>8. Tx(t, run[t], kind)' = tx
    <3>1. run'[t].secret = run[t].secret /\ run'[t].title = run[t].title
          /\ run'[t].until = run[t].until
      BY <1>2
    <3> QED BY <2>1, <3>1 DEF Tx
  <2> QED BY <2>7, <2>8 DEF Can, Registered, Aged
<1> QED
  BY <1>3, <1>5, <1>6, <1>7, <1>8, <1>9, <1>10 DEF OrgInv

LEMMA WallTickSound ==
    ASSUME OrgInv, WallTick
    PROVE  OrgInv' /\ \A t \in Tab : Busy(t) => Busy(t)' /\ run'[t].end = "no"
<1>1. Lasts
  BY DEF WallTick, Lasts, Registered
<1>2. wall' \in wall..MaxTime /\ now' \in now..wall'
  BY BoundAssumption DEF WallTick, OrgInv, OrgTypeOK
<1>3. run' \in [Tab -> Run] /\ \A t \in Tab : run'[t] = run[t]
  BY DEF WallTick, OrgInv, OrgTypeOK
<1>4. UNCHANGED <<setting, chain, pool, count>>
  BY DEF WallTick
<1> QED
  BY <1>1, <1>2, <1>3, <1>4, Passing

LEMMA BlockSound ==
    ASSUME OrgInv, Block
    PROVE  OrgInv' /\ \A t \in Tab : Busy(t) => Busy(t)' /\ run'[t].end = "no"
<1>1. /\ now \in Nat /\ wall \in Nat /\ now <= wall /\ chain.until \in Nat
      /\ now' = wall /\ wall' = wall /\ chain' = chain /\ run \in [Tab -> Run]
      /\ MaxTime \in Nat /\ wall <= MaxTime
  BY BoundAssumption DEF Block, OrgInv, OrgTypeOK, State
<1>2. ~Expires => Lasts
  <2> SUFFICES ASSUME ~Expires PROVE Lasts
    OBVIOUS
  <2>1. Registered(chain) => Registered(chain)'
    BY <1>1 DEF Expires, Registered
  <2>2. ASSUME NEW i \in DOMAIN pool, pool[i].kind = "register"
        PROVE  pool[i].until > now'
    <3>1. pool[i].until \in Nat
      BY PoolTyped DEF Transaction
    <3> QED BY <1>1, <2>2, <3>1 DEF Expires
  <2>3. ASSUME NEW t \in Tab, run[t].until > now
        PROVE  run[t].until > now'
    <3>1. run[t].until \in Nat
      BY <1>1 DEF Run
    <3> QED BY <1>1, <2>3, <3>1 DEF Expires
  <2> QED BY <2>1, <2>2, <2>3 DEF Lasts
<1>3. \A t \in Tab : run'[t] = IF Expires THEN Disturbed(run[t]) ELSE run[t]
  BY DEF Block
<1>4. run' \in [Tab -> Run]
  <2>1. \A t \in Tab : Disturbed(run[t]) \in Run
    BY <1>1, DisturbedRun
  <2>2. run' = [t \in Tab |-> IF Expires THEN Disturbed(run[t]) ELSE run[t]]
    BY DEF Block
  <2> HIDE DEF Disturbed, Expires
  <2> QED BY <1>1, <2>1, <2>2
<1>5. UNCHANGED <<setting, chain, pool, count>>
  BY DEF Block
<1>6. wall' \in wall..MaxTime /\ now' \in now..wall'
  BY <1>1
<1>7. \A t \in Tab : \/ run'[t] = run[t] /\ Lasts
                     \/ run'[t] = Disturbed(run[t])
  BY <1>2, <1>3
<1> QED
  BY <1>4, <1>5, <1>6, <1>7, Passing

-----------------------------------------------------------------------------
(* The theorems. *)

LEMMA OrgInvInit ==
    ASSUME OrgInit
    PROVE  OrgInv
<1>1. Idle \in Run /\ Idle.todo = {}
  <2>1. 0 \in 0..MaxRuns /\ 0 \in Nat /\ {} \in SUBSET ToSet(Order)
    BY BoundAssumption
  <2> QED BY <2>1 DEF Idle, Run
<1>2. run \in [Tab -> Run] /\ \A t \in Tab : run[t].todo = {}
  BY <1>1 DEF OrgInit
<1>3. Blank \in State(DOMAIN Blank.commits) /\ DOMAIN Blank.commits = {}
  BY DEF Blank, State
<1>4. OrgTypeOK
  <2>1. 0 \in 0..wall /\ wall \in 0..MaxTime /\ pool \in Seq(Transaction)
        /\ runs \in 0..MaxRuns /\ faults \in 0..MaxFaults /\ misreads \in 0..MaxMisreads
    BY BoundAssumption DEF OrgInit
  <2> QED BY <1>2, <1>3, <2>1 DEF OrgInit, OrgTypeOK
<1>5. RunInv /\ ApartInv
  BY <1>2 DEF RunInv, ApartInv, Busy
<1>8. EstimateInv
  BY <1>2 DEF EstimateInv, Busy
<1>6. PoolInv
  <2>1. DOMAIN pool = {}
    BY DEF OrgInit
  <2> QED BY <2>1 DEF PoolInv
<1>7. ChainInv
  BY <1>3 DEF OrgInit, ChainInv, Blank
<1> QED
  BY <1>4, <1>5, <1>6, <1>7, <1>8 DEF OrgInv

(* A step of tab t leaves the runs of the other tabs where they are.       *)
LEMMA OthersWait ==
    ASSUME OrgInv, NEW t \in Tab, NEW u \in Tab, u # t, Busy(u),
           NEW r, run' = [run EXCEPT ![t] = r]
    PROVE  Busy(u)' /\ run'[u].end = "no"
  BY DEF OrgInv, OrgTypeOK, Busy

(* A step of the registration, and none, keep the invariant, and do what   *)
(* the two properties say to the runs that are under way.                  *)
LEMMA OrgStep ==
    ASSUME OrgInv, [OrgNext]_orgVars
    PROVE  OrgInv' /\ \A t \in Tab : Busy(t) => SoundStep(t)
<1>1. ASSUME \A t \in Tab : Busy(t) => Busy(t)' /\ run'[t].end = "no"
      PROVE  \A t \in Tab : Busy(t) => SoundStep(t)
  BY <1>1 DEF SoundStep
<1>2. CASE Mine
  BY <1>1, <1>2, MineSound
<1>3. CASE WallTick
  BY <1>1, <1>3, WallTickSound
<1>4. CASE Block
  BY <1>1, <1>4, BlockSound
<1>5. ASSUME NEW t \in Tab,
             \/ Begin(t) \/ Fail(t)
             \/ \E kind \in Kind : Prepare(t, kind) \/ Submit(t, kind)
             \/ Receipt(t) \/ Check(t) \/ Sleep(t) \/ Wrapped(t)
             \/ Probe(t) \/ Verify(t) \/ Slot(t) \/ Differs(t) \/ Locate(t)
      PROVE  OrgInv' /\ \A u \in Tab : Busy(u) => SoundStep(u)
  <2>1. OrgInv' /\ (Busy(t) => SoundStep(t))
    <3>1. CASE Begin(t)
      BY <3>1, BeginSound DEF Begin
    <3>2. CASE Fail(t)
      BY <3>2, FailSound
    <3>3. CASE \E kind \in Kind : Prepare(t, kind) \/ Submit(t, kind)
      BY <3>3, PrepareSound, SubmitSound
    <3>4. CASE Receipt(t)
      BY <3>4, ReceiptSound
    <3>5. CASE Check(t)
      BY <3>5, CheckSound
    <3>6. CASE Sleep(t)
      BY <3>6, SleepSound
    <3>7. CASE Probe(t)
      BY <3>7, ProbeSound
    <3>8. CASE Verify(t)
      BY <3>8, VerifySound
    <3>9. CASE Slot(t)
      BY <3>9, SlotSound
    <3>10. CASE Differs(t)
      BY <3>10, DiffersSound
    <3>11. CASE Locate(t)
      BY <3>11, LocateSound
    <3>12. CASE Wrapped(t)
      BY <3>12, WrappedSound
    <3> QED BY <1>5, <3>1, <3>2, <3>3, <3>4, <3>5, <3>6, <3>7, <3>8, <3>9, <3>10,
                 <3>11, <3>12
  <2>2. \E r : run' = [run EXCEPT ![t] = r]
    <3>1. CASE Begin(t)
      BY <3>1 DEF Begin, Becomes
    <3>2. CASE Fail(t)
      BY <3>2 DEF Fail, Becomes
    <3>3. CASE \E kind \in Kind : Prepare(t, kind) \/ Submit(t, kind)
      BY <3>3 DEF Prepare, Submit, Becomes
    <3>4. CASE Receipt(t)
      BY <3>4 DEF Receipt, Becomes
    <3>5. CASE Check(t)
      BY <3>5 DEF Check, Read, Becomes
    <3>6. CASE Sleep(t)
      BY <3>6 DEF Sleep, Becomes
    <3>7. CASE Probe(t)
      BY <3>7 DEF Probe, Read, Missed, Becomes
    <3>8. CASE Verify(t)
      BY <3>8 DEF Verify, Read, Becomes
    <3>9. CASE Slot(t)
      BY <3>9 DEF Slot, Read, Missed, Becomes
    <3>10. CASE Differs(t)
      BY <3>10 DEF Differs, Read, Missed, Becomes
    <3>11. CASE Locate(t)
      BY <3>11 DEF Locate, Read, Becomes
    <3>12. CASE Wrapped(t)
      BY <3>12 DEF Wrapped, Read, Missed, Becomes
    <3> QED BY <1>5, <3>1, <3>2, <3>3, <3>4, <3>5, <3>6, <3>7, <3>8, <3>9, <3>10,
                 <3>11, <3>12
  <2>3. \A u \in Tab : u # t /\ Busy(u) => SoundStep(u)
    BY <2>2, OthersWait DEF SoundStep
  <2> QED BY <2>1, <2>3
<1>6. CASE UNCHANGED orgVars
  <2>1. /\ UNCHANGED <<setting, chain, pool, count>> /\ run' = run
        /\ wall' \in wall..MaxTime /\ now' \in now..wall'
    BY <1>6, BoundAssumption DEF orgVars, time, OrgInv, OrgTypeOK
  <2>2. Lasts
    BY <1>6 DEF orgVars, time, Lasts, Registered
  <2>3. run' \in [Tab -> Run]
    BY <2>1 DEF OrgInv, OrgTypeOK
  <2> QED BY <1>1, <2>1, <2>2, <2>3, Passing
<1> QED
  BY <1>2, <1>3, <1>4, <1>5, <1>6 DEF OrgNext

(* Runs, transactions and the chain have the values that the code gives    *)
(* them: a run that is under way has a part of its flow ahead, a name, and *)
(* has not ended.                                                          *)
THEOREM RegistrationTyped == OrgSpec => []OrgTypeOK
<1>1. OrgInit => OrgInv
  BY OrgInvInit
<1>2. OrgInv /\ [OrgNext]_orgVars => OrgInv'
  BY OrgStep
<1>3. OrgInv => OrgTypeOK
  BY DEF OrgInv
<1> QED
  BY <1>1, <1>2, <1>3, PTL DEF OrgSpec

(* ens-register-v2.ts:458: whatever earlier runs have left behind, nothing *)
(* that a run asks for is refused, unless another run, a misread registry, *)
(* the end of the registration or a late chain has come in its way, or the *)
(* name was left wrapped.                                                  *)
THEOREM RunsResumeCleanly == OrgSpec => ResumesCleanly
<1>1. OrgInit => OrgInv
  BY OrgInvInit
<1>2. OrgInv /\ [OrgNext]_orgVars => OrgInv'
  BY OrgStep
<1>3. OrgInv /\ [OrgNext]_orgVars =>
        [\A t \in Tab :
            Refused(t) => ~run[t].clean \/ Behind \/ chain.holder = "wrapper"]_orgVars
  BY OrgStep DEF Refused, SoundStep
<1> QED
  BY <1>1, <1>2, <1>3, PTL DEF OrgSpec, ResumesCleanly

(* A run that ends without an error leaves an organization that can be     *)
(* found, with the records it was given if nobody came in between; the     *)
(* name of one that was told of no wrapper may still be wrapped.           *)
THEOREM FinishedRunsComplete == OrgSpec => FinishedComplete
<1>1. OrgInit => OrgInv
  BY OrgInvInit
<1>2. OrgInv /\ [OrgNext]_orgVars => OrgInv'
  BY OrgStep
<1>3. OrgInv /\ [OrgNext]_orgVars =>
        [\A t \in Tab :
            (Busy(t) /\ ~Busy(t)' /\ run'[t].end = "done") => Complete(t)']_orgVars
  BY OrgStep DEF SoundStep
<1> QED
  BY <1>1, <1>2, <1>3, PTL DEF OrgSpec, FinishedComplete
=============================================================================
