------------------------------ MODULE FundFlow ------------------------------
(***************************************************************************)
(* The payout flow across contracts: the fund requests and the treasury    *)
(* binding of SoulVaultSwarm, and SoulVaultTreasury, which pays them.      *)
(*                                                                         *)
(* A payout hands control to its recipient in the middle of the call.  The *)
(* recipient may be a contract: it may call any of the contracts again, as *)
(* itself, and then return or revert.  `stack' holds the treasury calls    *)
(* that wait for their recipient, each with the world to go back to if it  *)
(* reverts.  With an empty stack no transaction is running.  A call that   *)
(* reverts without paying changes nothing and is not an action.            *)
(*                                                                         *)
(* Whatever is in `world' is rolled back with it, the ghosts too.  All     *)
(* swarms and treasuries have the same owner.                              *)
(***************************************************************************)
EXTENDS Integers, FiniteSets, SequencesExt

CONSTANTS
    Swarm, Treasury,        \* contracts
    Account, Owner,         \* everybody else: may be a contract
    Member,                 \* accounts active in every swarm
    NoAddress,
    Amount, Funds,          \* requested amounts; what each treasury starts with
    MaxRequest, MaxSigned   \* bounds, for model checking only

ASSUME FlowAssumption ==
    /\ Owner \in Account /\ Member \subseteq Account
    /\ Amount \subseteq Nat \ {0} /\ Funds \in Nat
    /\ IsFiniteSet(Treasury) /\ IsFiniteSet(Swarm) /\ MaxRequest \in Nat
    /\ Account \cap Treasury = {} /\ NoAddress \notin Account \cup Treasury \cup Swarm

VARIABLES
    world,      \* storage and balances
    stack,      \* treasury calls that wait for their recipient
    signed,     \* owner signatures given out
    expired     \* those whose deadline has passed

vars == <<world, stack, signed, expired>>

RequestId == 1..MaxRequest
Status    == {"pending", "approved", "rejected", "cancelled"}
Request   == [requester : Member, amount : Amount, status : Status]

Signature == [kind : {"approve", "reject", "withdraw"}, treasury : Treasury,
              swarm : Swarm \cup {NoAddress}, request : RequestId \cup {0},
              amount : Amount \cup {0}, to : Account \cup Treasury \cup {NoAddress},
              nonce : Nat]

World == [treasury : [Swarm -> Treasury \cup {NoAddress}],
          paused   : [Swarm -> BOOLEAN],
          requests : [Swarm -> Seq(Request)],
          balance  : [Account \cup Treasury -> Nat],
          nonce    : [Treasury -> Nat],
          locked   : [Treasury -> BOOLEAN],
          landed   : SUBSET Signature,  \* ghost: signatures whose call took effect
          net      : Int]               \* ghost: deposited and not withdrawn

Frame == [treasury : Treasury, to : Account \cup Treasury, saved : World]

Init ==
    /\ world = [treasury |-> [s \in Swarm |-> NoAddress],
                paused   |-> [s \in Swarm |-> FALSE],
                requests |-> [s \in Swarm |-> <<>>],
                balance  |-> [x \in Account \cup Treasury |-> IF x \in Treasury THEN Funds ELSE 0],
                nonce    |-> [t \in Treasury |-> 0],
                locked   |-> [t \in Treasury |-> FALSE],
                landed   |-> {},
                net      |-> Funds * Cardinality(Treasury)]
    /\ stack = <<>> /\ signed = {} /\ expired = {}

-----------------------------------------------------------------------------
(* Who has control, and how a payout passes it on *)

Top == stack[Len(stack)]
InControl(c) == IF stack = <<>> THEN c \in Account ELSE Top.to = c
BecomesWorld(w) == world' = w /\ UNCHANGED <<stack, signed, expired>>

Unlocked(t) == ~world.locked[t]
Lock(w, t)   == [w EXCEPT !.locked[t] = TRUE]
Unlock(w, t) == [w EXCEPT !.locked[t] = FALSE]

Transfer(w, t, to, v) == [w EXCEPT !.balance[t] = @ - v, !.balance[to] = @ + v]

(* Treasury t calls `to' with value v, in world w. *)
Pay(w, t, to, v) ==
    /\ world.balance[t] >= v
    /\ world' = Lock(Transfer(w, t, to, v), t)
    /\ stack' = Append(stack, [treasury |-> t, to |-> to, saved |-> world])
    /\ UNCHANGED <<signed, expired>>

Return ==
    /\ stack # <<>>
    /\ world' = Unlock(world, Top.treasury)
    /\ stack' = Front(stack)
    /\ UNCHANGED <<signed, expired>>

(* The recipient reverts, so TransferFailed reverts the treasury call. *)
Revert ==
    /\ stack # <<>>
    /\ Top.to \in Account
    /\ world' = Top.saved
    /\ stack' = Front(stack)
    /\ UNCHANGED <<signed, expired>>

-----------------------------------------------------------------------------
(* SoulVaultSwarm *)

SetTreasury(c, s, t) ==
    /\ InControl(c) /\ c = Owner
    /\ BecomesWorld([world EXCEPT !.treasury[s] = t])

SetPaused(c, s, p) ==
    /\ InControl(c) /\ c = Owner
    /\ world.paused[s] # p
    /\ BecomesWorld([world EXCEPT !.paused[s] = p])

ActiveMember(c) == c \in Member

RequestFunds(c, s, v) ==
    /\ InControl(c) /\ ActiveMember(c)
    /\ ~world.paused[s]
    /\ world.treasury[s] # NoAddress
    /\ Len(world.requests[s]) < MaxRequest
    /\ BecomesWorld([world EXCEPT !.requests[s] =
                       Append(@, [requester |-> c, amount |-> v, status |-> "pending"])])

Asked(w, s, r)   == r \in DOMAIN w.requests[s]      \* mutant: the status is not looked at
Pending(w, s, r) == r \in DOMAIN w.requests[s] /\ w.requests[s][r].status = "pending"

Decide(w, s, r, status) == [w EXCEPT !.requests[s][r].status = status]

CancelFundRequest(c, s, r) ==
    /\ InControl(c)
    /\ ~world.paused[s]
    /\ Pending(world, s, r) /\ world.requests[s][r].requester = c
    /\ BecomesWorld(Decide(world, s, r, "cancelled"))

-----------------------------------------------------------------------------
(* SoulVaultTreasury *)

Deposit(c, t, v) ==
    /\ InControl(c)
    /\ world.balance[c] >= v
    /\ BecomesWorld([Transfer(world, c, t, v) EXCEPT !.net = @ + v])

(* _approveFundRequest and markFundRequestApproved, in world w. *)
PayRequest(w, t, s, r) ==
    LET req == world.requests[s][r] IN
    /\ world.treasury[s] = t
    /\ ~world.paused[s]
    /\ Pending(world, s, r)
    /\ Pay(Decide(w, s, r, "approved"), t, req.requester, req.amount)

(* _rejectFundRequest and markFundRequestRejected. *)
RejectRequest(w, t, s, r) ==
    /\ world.treasury[s] = t
    /\ ~world.paused[s]
    /\ Pending(world, s, r)
    /\ BecomesWorld(Decide(w, s, r, "rejected"))

(* A withdrawal into another treasury is a deposit there. *)
Outside(to, v) == IF to \in Treasury THEN 0 ELSE v
TakeOut(w, t, to, v) == Pay([w EXCEPT !.net = @ - Outside(to, v)], t, to, v)

ApproveFundRequest(c, t, s, r) ==
    /\ InControl(c) /\ c = Owner /\ Unlocked(t)
    /\ PayRequest(world, t, s, r)

RejectFundRequest(c, t, s, r) ==
    /\ InControl(c) /\ c = Owner
    /\ RejectRequest(world, t, s, r)

Withdraw(c, t, to, v) ==
    /\ InControl(c) /\ c = Owner /\ Unlocked(t)
    /\ TakeOut(world, t, to, v)

-----------------------------------------------------------------------------
(* The same with an owner signature, which anybody submits *)

(* The owner reads the nonce of the treasury and signs. *)
Sign(sig) ==
    /\ stack = <<>>
    /\ Cardinality(signed \cup {sig}) <= MaxSigned
    /\ signed' = signed \cup {sig}
    /\ UNCHANGED <<world, stack, expired>>

OwnerSigns ==
    \E t \in Treasury :
      \/ \E s \in Swarm, r \in RequestId : Pending(world, s, r) /\
           LET req == world.requests[s][r]
               sig == [kind |-> "approve", treasury |-> t, swarm |-> s, request |-> r,
                       amount |-> req.amount, to |-> req.requester, nonce |-> world.nonce[t]]
           IN  Sign(sig) \/ Sign([sig EXCEPT !.kind = "reject", !.amount = 0, !.to = NoAddress])
      \/ \E to \in Account \cup Treasury, v \in Amount :
           Sign([kind |-> "withdraw", treasury |-> t, swarm |-> NoAddress, request |-> 0,
                 amount |-> v, to |-> to, nonce |-> world.nonce[t]])

DeadlinePasses(sig) ==
    /\ stack = <<>>
    /\ sig \in signed \ expired
    /\ expired' = expired \cup {sig}
    /\ UNCHANGED <<world, stack, signed>>

CheckDeadline(sig) == sig \notin expired        \* mutant: the nonce is not compared
CheckSig(sig) == sig \notin expired /\ sig.nonce = world.nonce[sig.treasury]

Consume(sig) == [world EXCEPT !.nonce[sig.treasury] = sig.nonce + 1, !.landed = @ \cup {sig}]

AnySwarm(sig, s)    == s \in Swarm \cup {sig.swarm}     \* mutant: the digest omits the swarm
SignedSwarm(sig, s) == s = sig.swarm

(* The amount and the recipient signed must be those of the request. *)
ApproveFundRequestWithSig(c, sig, s) ==
    LET t == sig.treasury  r == sig.request IN
    /\ InControl(c) /\ Unlocked(t)
    /\ sig.kind = "approve" /\ CheckSig(sig) /\ SignedSwarm(sig, s)
    /\ r \in DOMAIN world.requests[s]
    /\ world.requests[s][r].amount = sig.amount /\ world.requests[s][r].requester = sig.to
    /\ PayRequest(Consume(sig), t, s, r)

RejectFundRequestWithSig(c, sig, s) ==
    /\ InControl(c)
    /\ sig.kind = "reject" /\ CheckSig(sig) /\ SignedSwarm(sig, s)
    /\ RejectRequest(Consume(sig), sig.treasury, s, sig.request)

WithdrawWithSig(c, sig) ==
    /\ InControl(c) /\ Unlocked(sig.treasury)
    /\ sig.kind = "withdraw" /\ CheckSig(sig)
    /\ TakeOut(Consume(sig), sig.treasury, sig.to, sig.amount)

-----------------------------------------------------------------------------
SwarmCall(c) ==
    \E s \in Swarm :
      \/ \E t \in Treasury : SetTreasury(c, s, t)
      \/ \E p \in BOOLEAN : SetPaused(c, s, p)
      \/ \E v \in Amount : RequestFunds(c, s, v)
      \/ \E r \in RequestId : CancelFundRequest(c, s, r)

TreasuryCall(c) ==
    \E t \in Treasury :
      \/ \E v \in Amount : Deposit(c, t, v)
      \/ \E s \in Swarm, r \in RequestId : \/ ApproveFundRequest(c, t, s, r)
                                           \/ RejectFundRequest(c, t, s, r)
      \/ \E to \in Account \cup Treasury, v \in Amount : Withdraw(c, t, to, v)

SignedCall(c) ==
    \E sig \in signed : \/ \E s \in Swarm : \/ ApproveFundRequestWithSig(c, sig, s)
                                            \/ RejectFundRequestWithSig(c, sig, s)
                        \/ WithdrawWithSig(c, sig)

Next ==
    \/ \E c \in Account : SwarmCall(c) \/ TreasuryCall(c) \/ SignedCall(c)
    \/ Return \/ Revert
    \/ OwnerSigns
    \/ \E sig \in signed : DeadlinePasses(sig)

Spec == Init /\ [][Next]_vars

-----------------------------------------------------------------------------
(* Properties *)

(* Storage, saved worlds and signatures are of their types. *)
TypeOK ==
    /\ world \in World
    /\ stack \in Seq(Frame)
    /\ signed \subseteq Signature /\ expired \subseteq signed /\ world.landed \subseteq signed

\* The sum of the naturals f[x], counted one by one.
Units(f) == UNION {{x} \X (1..f[x]) : x \in DOMAIN f}
Total(f) == Cardinality(Units(f))

Approved(w) == {x \in Swarm \X RequestId :
                  /\ x[2] \in DOMAIN w.requests[x[1]]
                  /\ w.requests[x[1]][x[2]].status = "approved"}

Held(w) == [t \in Treasury |-> w.balance[t]]
Paid(w) == [x \in Approved(w) |-> w.requests[x[1]][x[2]].amount]
Balanced(w) == Total(Held(w)) = w.net - Total(Paid(w))

(* The two contracts tell the same story: what has left the treasuries is  *)
(* what was withdrawn plus the amount of every request the swarms call     *)
(* approved, each once.  At any moment of a call, however recipients call  *)
(* back, rebind the swarm to another treasury, or revert.                  *)
Accounted == Balanced(world)

(* A nonce is spent by one signature only, and by no submission that was   *)
(* rolled back: a treasury's nonce counts the signatures that took effect, *)
(* rejections submitted inside a payout included.                          *)
OneIntentPerNonce ==
    \A t \in Treasury :
      LET mine == {sig \in world.landed : sig.treasury = t}
      IN  world.nonce[t] = Cardinality(mine) /\ {sig.nonce : sig \in mine} = 0..(world.nonce[t] - 1)

(* A signature that took effect decided the request it names, with the     *)
(* amount and the recipient it names, also when another swarm has a        *)
(* request of the same number.                                             *)
SignedTermsKept ==
    \A sig \in world.landed :
      LET req == world.requests[sig.swarm][sig.request] IN
      /\ sig.kind = "approve" => req = [requester |-> sig.to, amount |-> sig.amount,
                                        status |-> "approved"]
      /\ sig.kind = "reject" => req.status = "rejected"

Committed == IF stack = <<>> THEN world ELSE stack[1].saved

(* Between transactions a request is never forgotten or changed, and once  *)
(* decided it stays decided, whichever treasury the swarm is bound to.     *)
DecidedForEver ==
    [][\A s \in Swarm : \A r \in DOMAIN Committed.requests[s] :
         LET old == Committed.requests[s][r]  new == Committed'.requests[s][r] IN
         /\ new.requester = old.requester /\ new.amount = old.amount
         /\ old.status # "pending" => new.status = old.status]_vars
=============================================================================
