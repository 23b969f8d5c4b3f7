--------------------------- MODULE DashboardViews ---------------------------
(***************************************************************************)
(* What the dashboard's swarm and treasury pages show, and what their      *)
(* buttons do: reducers.ts folds the events of the watched contracts into  *)
(* a view, a wallet acts on a row of it, and the contracts execute the     *)
(* call when it is mined.                                                  *)
(*                                                                         *)
(* A page may show any recent stretch of the log: a scan that cannot find  *)
(* the deployment starts in the middle (scan-start.ts), and each contract  *)
(* is read up to a block of its own.  What it holds is a part of every     *)
(* action that looks at it, not a variable.  Calls that revert are steps   *)
(* that do not happen; so are those a paused swarm or an empty treasury    *)
(* refuses.                                                                *)
(***************************************************************************)
EXTENDS Naturals, SequencesExt

CONSTANTS
    NumSwarms,
    Published,      \* the org's soulvault.swarms record, in its order
    Treasury,
    Active,         \* the treasury that the treasury page has selected
    Account,
    Nobody,
    Founders,       \* admitted to every swarm at the start, in this order
    Amount,
    MaxJoins, MaxRequests, MaxEpoch, MaxEvents      \* bounds

Swarm == 1..NumSwarms

ASSUME ViewsAssumption ==
    /\ NumSwarms \in Nat /\ Published \in Seq(Swarm) /\ Published # <<>>
    /\ Active \in Treasury /\ Treasury \cap Swarm = {}
    /\ Founders \in Seq(Account) /\ IsInjective(Founders)
    /\ Nobody \notin Account \cup Treasury \cup Swarm
    /\ Amount \subseteq Nat \ {0}

VARIABLES
    swarm,      \* storage of the swarms
    log,        \* events, in the order of (blockNumber, logIndex)
    click       \* the call the treasury page has given to the wallet

viewsVars == <<swarm, log, click>>

Height == IF log = <<>> THEN 0 ELSE Last(log).block
Status == {"pending", "approved", "rejected", "cancelled"}

Storage == [members  : [Account -> [active : BOOLEAN, key : Nat, joinedEpoch : Nat]],
            joins    : Seq([requester : Account, status : Status]),
            funds    : Seq([requester : Account, amount : Amount, status : Status]),
            treasury : Treasury \cup {Nobody},
            epoch    : Nat,
            version  : Nat]

NoClick == [op |-> "none"]

-----------------------------------------------------------------------------
(* Events.  `of' is the `swarm' argument of a treasury's event.            *)

EventBy(name, source) ==
    [name |-> name, source |-> source, of |-> source, block |-> 0, id |-> 0,
     who |-> Nobody, key |-> 0, epoch |-> 0, version |-> 0, amount |-> 0]

(* A transaction is mined in the current block or in the next.             *)
Emit(events) ==
    \E b \in {Height, Height + 1} :
        /\ Len(log) + Len(events) <= MaxEvents
        /\ log' = log \o [i \in DOMAIN events |-> [events[i] EXCEPT !.block = b]]

(* Every join request registers a public key of its own.                   *)
JoinRequested(s, id, a) ==
    [EventBy("JoinRequested", s) EXCEPT !.id = id, !.who = a, !.key = id]
JoinApproved(s, id, a, epoch) ==
    [EventBy("JoinApproved", s) EXCEPT !.id = id, !.who = a, !.epoch = epoch]

-----------------------------------------------------------------------------
(* SoulVaultSwarm *)

Member(active, key, epoch) == [active |-> active, key |-> key, joinedEpoch |-> epoch]

Deployed ==
    [members  |-> [a \in Account |-> IF \E i \in DOMAIN Founders : Founders[i] = a
                                     THEN Member(TRUE, CHOOSE i \in DOMAIN Founders :
                                                         Founders[i] = a, 0)
                                     ELSE Member(FALSE, 0, 0)],
     joins    |-> [i \in DOMAIN Founders |-> [requester |-> Founders[i], status |-> "approved"]],
     funds    |-> <<>>,
     treasury |-> Active,
     epoch    |-> 0,
     version  |-> Len(Founders)]

Founding(s) ==
    <<[EventBy("TreasurySet", s) EXCEPT !.who = Active]>> \o
    FlattenSeq([i \in DOMAIN Founders |-> <<JoinRequested(s, i, Founders[i]),
                                            JoinApproved(s, i, Founders[i], 0)>>])

ViewsInit ==
    /\ swarm = [s \in Swarm |-> Deployed]
    /\ log = FlattenSeq([s \in Swarm |-> Founding(s)])
    /\ click = NoClick

JoinPending(s, id) == id \in DOMAIN swarm[s].joins /\ swarm[s].joins[id].status = "pending"

RequestJoin(s, a) ==
    LET id == Len(swarm[s].joins) + 1 IN
    /\ ~swarm[s].members[a].active
    /\ id <= MaxJoins
    /\ swarm' = [swarm EXCEPT ![s].joins =
                   Append(@, [requester |-> a, status |-> "pending"])]
    /\ Emit(<<JoinRequested(s, id, a)>>)
    /\ UNCHANGED click

ApproveJoin(s, id) ==
    LET a == swarm[s].joins[id].requester IN
    /\ JoinPending(s, id)
    /\ ~swarm[s].members[a].active
    /\ swarm' = [swarm EXCEPT ![s].members[a] = Member(TRUE, id, swarm[s].epoch),
                              ![s].joins[id].status = "approved",
                              ![s].version = @ + 1]
    /\ Emit(<<JoinApproved(s, id, a, swarm[s].epoch)>>)
    /\ UNCHANGED click

(* rejectJoin and cancelJoin: whoever calls.                               *)
CloseJoin(s, id, name, status) ==
    /\ JoinPending(s, id)
    /\ swarm' = [swarm EXCEPT ![s].joins[id].status = status]
    /\ Emit(<<[EventBy(name, s) EXCEPT !.id = id, !.who = swarm[s].joins[id].requester]>>)
    /\ UNCHANGED click

RejectJoin(s, id) == CloseJoin(s, id, "JoinRejected", "rejected")
CancelJoin(s, id) == CloseJoin(s, id, "JoinCancelled", "cancelled")

RemoveMember(s, a) ==
    /\ swarm[s].members[a].active
    /\ swarm' = [swarm EXCEPT ![s].members[a].active = FALSE, ![s].version = @ + 1]
    /\ Emit(<<[EventBy("MemberRemoved", s) EXCEPT !.who = a, !.epoch = swarm[s].epoch]>>)
    /\ UNCHANGED click

RotateEpoch(s) ==
    LET new == swarm[s].epoch + 1 IN
    /\ new <= MaxEpoch
    /\ swarm' = [swarm EXCEPT ![s].epoch = new]
    /\ Emit(<<[EventBy("EpochRotated", s) EXCEPT !.epoch = new, !.version = swarm[s].version]>>)
    /\ UNCHANGED click

(* The owner or the member publishes; the mapping itself is not modelled.  *)
UpdateMemberFileMapping(s, a) ==
    /\ swarm[s].members[a].active
    /\ Emit(<<[EventBy("MemberFileMappingUpdated", s) EXCEPT !.who = a,
                                                            !.epoch = swarm[s].epoch]>>)
    /\ UNCHANGED <<swarm, click>>

SetTreasury(s, t) ==
    /\ swarm' = [swarm EXCEPT ![s].treasury = t]
    /\ Emit(<<[EventBy("TreasurySet", s) EXCEPT !.who = t]>>)
    /\ UNCHANGED click

RequestFunds(s, a, v) ==
    LET id == Len(swarm[s].funds) + 1 IN
    /\ swarm[s].members[a].active
    /\ swarm[s].treasury # Nobody
    /\ id <= MaxRequests
    /\ swarm' = [swarm EXCEPT ![s].funds =
                   Append(@, [requester |-> a, amount |-> v, status |-> "pending"])]
    /\ Emit(<<[EventBy("FundRequested", s) EXCEPT !.id = id, !.who = a, !.amount = v]>>)
    /\ UNCHANGED click

FundPending(s, r) == r \in DOMAIN swarm[s].funds /\ swarm[s].funds[r].status = "pending"
Decide(s, r, status) == swarm' = [swarm EXCEPT ![s].funds[r].status = status]

CancelFundRequest(s, r, caller) ==
    /\ FundPending(s, r) /\ swarm[s].funds[r].requester = caller
    /\ Decide(s, r, "cancelled")
    /\ Emit(<<[EventBy("FundRequestCancelled", s) EXCEPT !.id = r, !.who = caller]>>)

-----------------------------------------------------------------------------
(* SoulVaultTreasury: the swarm's event and the treasury's, one            *)
(* transaction.                                                            *)

ApproveFundRequest(t, s, r) ==
    /\ swarm[s].treasury = t
    /\ FundPending(s, r)
    /\ Decide(s, r, "approved")
    /\ Emit(<<[EventBy("FundRequestApproved", s) EXCEPT !.id = r],
              [EventBy("FundsReleased", t) EXCEPT !.id = r, !.of = s]>>)

RejectFundRequest(t, s, r) ==
    /\ swarm[s].treasury = t
    /\ FundPending(s, r)
    /\ Decide(s, r, "rejected")
    /\ Emit(<<[EventBy("FundRequestRejected", s) EXCEPT !.id = r],
              [EventBy("FundRequestRejectedByTreasury", t) EXCEPT !.id = r, !.of = s]>>)

-----------------------------------------------------------------------------
(* reduceSwarmState *)

NoFields == [x \in {} |-> Nobody]
Put(f, k, x)  == [y \in DOMAIN f \cup {k} |-> IF y = k THEN x ELSE f[y]]
Drop(f, keys) == [y \in DOMAIN f \ keys |-> f[y]]

EmptyView ==
    [members |-> NoFields, pending |-> NoFields, removed |-> NoFields, funds |-> NoFields,
     treasury |-> Nobody, epoch |-> 0, version |-> 0]

AskedBy(view, a) == {id \in DOMAIN view.pending : view.pending[id].requester = a}

(* The first request of the account, in insertion order, is taken for the  *)
(* one that was approved: the event's requestId is not used.               *)
Approve(view, e) ==
    LET asked == AskedBy(view, e.who)
        taken == IF asked = {} THEN {} ELSE {Min(asked)}
        key   == IF taken = {} THEN 0 ELSE view.pending[Min(asked)].key
    IN  [view EXCEPT !.pending = Drop(@, taken),
                     !.members = Put(@, e.who, [joinedEpoch |-> e.epoch, key |-> key])]

Close(view, e) == [view EXCEPT !.pending = Drop(@, AskedBy(view, e.who))]

Kick(view, e) ==
    [view EXCEPT !.members = Drop(@, {e.who}), !.removed = Put(@, e.who, e.block)]

(* A mapping at the block of the kick would count: a mutant.               *)
ClearAtKick(view, e) ==
    [view EXCEPT !.removed = Drop(@, {a \in DOMAIN @ : e.block >= @[a]})]

(* Any mapping clears the banner of the kicks in earlier blocks.           *)
ClearRemoved(view, e) ==
    [view EXCEPT !.removed = Drop(@, {a \in DOMAIN @ : e.block > @[a]})]

(* Without the test that the request is known: a mutant.                   *)
MarkUnknown(view, e, status) ==
    [view EXCEPT !.funds = Put(@, e.id, [requester |-> e.who, amount |-> e.amount,
                                         status |-> status])]

Mark(view, e, status) ==
    IF e.id \in DOMAIN view.funds
    THEN [view EXCEPT !.funds[e.id].status = status] ELSE view

Apply(view, e) ==
    CASE e.name = "JoinRequested" ->
           [view EXCEPT !.pending = Put(@, e.id, [requester |-> e.who, key |-> e.key])]
      [] e.name = "JoinApproved" -> Approve(view, e)
      [] e.name \in {"JoinRejected", "JoinCancelled"} -> Close(view, e)
      [] e.name = "MemberRemoved" -> Kick(view, e)
      [] e.name = "MemberFileMappingUpdated" -> ClearRemoved(view, e)
      [] e.name = "EpochRotated" -> [view EXCEPT !.epoch = e.epoch, !.version = e.version]
      [] e.name = "TreasurySet" -> [view EXCEPT !.treasury = e.who]
      [] e.name = "FundRequested" ->
           [view EXCEPT !.funds = Put(@, e.id, [requester |-> e.who, amount |-> e.amount,
                                                status |-> "requested"])]
      [] e.name = "FundRequestApproved" -> Mark(view, e, "approved")
      [] e.name = "FundRequestRejected" -> Mark(view, e, "rejected")
      [] e.name = "FundRequestCancelled" -> Mark(view, e, "cancelled")
      [] e.name = "FundRequestRejectedByTreasury" -> Mark(view, e, "rejected-by-treasury")
      [] e.name = "FundsReleased" -> Mark(view, e, "released")

(* From the events at these places of the log, in its order.               *)
ReduceSwarmState(places) ==
    LET view[n \in 0..Len(log)] ==
          IF n = 0 THEN EmptyView
          ELSE IF n \in places THEN Apply(view[n-1], log[n]) ELSE view[n-1]
    IN  view[Len(log)]

-----------------------------------------------------------------------------
(* The pages *)

Watched == ToSet(Published) \cup Treasury

(* The events from block `from' on, by their places in the log; of the     *)
(* contracts in `behind', not yet those of the newest block.               *)
Feed(from, behind) ==
    {i \in DOMAIN log : /\ log[i].source \in Watched
                        /\ log[i].block >= from
                        /\ log[i].source \in behind => log[i].block < Height}

(* useSwarmEvents reduces everything.                                      *)
GlobalState(from, behind) == ReduceSwarmState(Feed(from, behind))

(* The swarm page reduces the events of the selected swarm only; while no  *)
(* swarm is selected it shows the reduction of everything.                 *)
ScopedState(s, from) ==
    ReduceSwarmState({i \in Feed(from, {}) : log[i].source = s})

(* The treasury page has the requests of everything, by number.            *)
Rows(from, behind) == GlobalState(from, behind).funds

NewestSwarm == NumSwarms      \* mutant: the swarm that was deployed last

(* ensSwarm, "the swarm bound to this treasury": the first published one.  *)
EnsSwarm == Head(Published)

(* The rows a page may show by now.                                        *)
Shown ==
    UNION {LET rows == Rows(from, behind) IN {[id |-> r, row |-> rows[r]] : r \in DOMAIN rows}
             : from \in 0..Height, behind \in SUBSET Watched}

(* A row that is still "requested" has the buttons: approve and reject for *)
(* the owner, cancel for the requester.                                    *)
Click ==
    /\ click = NoClick
    /\ \E x \in Shown, op \in {"approve", "reject", "cancel"} :
         /\ x.row.status = "requested"
         /\ click' = [op |-> op, request |-> x.id, requester |-> x.row.requester,
                      amount |-> x.row.amount]
    /\ UNCHANGED <<swarm, log>>

ClickMined ==
    /\ click # NoClick
    /\ \/ click.op = "approve" /\ ApproveFundRequest(Active, EnsSwarm, click.request)
       \/ click.op = "reject" /\ RejectFundRequest(Active, EnsSwarm, click.request)
       \/ click.op = "cancel" /\ CancelFundRequest(EnsSwarm, click.request, click.requester)
    /\ click' = NoClick

(* Refused in the wallet, or reverted.                                     *)
ClickFails ==
    /\ click # NoClick
    /\ click' = NoClick
    /\ UNCHANGED <<swarm, log>>

-----------------------------------------------------------------------------
Roster(s) ==
    \/ \E a \in Account : \/ RequestJoin(s, a) \/ RemoveMember(s, a)
                          \/ UpdateMemberFileMapping(s, a)
    \/ \E id \in DOMAIN swarm[s].joins : ApproveJoin(s, id) \/ RejectJoin(s, id) \/ CancelJoin(s, id)
    \/ RotateEpoch(s)

(* Requests made and decided elsewhere: another page, the command line.    *)
Funds(s) ==
    \/ \E a \in Account, v \in Amount : RequestFunds(s, a, v)
    \/ \E t \in Treasury : SetTreasury(s, t)
    \/ /\ \E r \in DOMAIN swarm[s].funds :
            \/ CancelFundRequest(s, r, swarm[s].funds[r].requester)
            \/ \E t \in Treasury : ApproveFundRequest(t, s, r) \/ RejectFundRequest(t, s, r)
       /\ UNCHANGED click

Page == Click \/ ClickMined \/ ClickFails

ViewsNext == (\E s \in Swarm : Roster(s) \/ Funds(s)) \/ Page

ViewsSpec == ViewsInit /\ [][ViewsNext]_viewsVars

-----------------------------------------------------------------------------
(* Properties *)

SwarmEvents == {"JoinRequested", "JoinApproved", "JoinRejected", "JoinCancelled",
                "MemberRemoved", "MemberFileMappingUpdated", "EpochRotated", "TreasurySet",
                "FundRequested", "FundRequestApproved", "FundRequestRejected",
                "FundRequestCancelled"}
TreasuryEvents == {"FundsReleased", "FundRequestRejectedByTreasury"}

Records(names, sources) ==
    [name : names, source : sources, of : Swarm, block : Nat, id : Nat,
     who : Account \cup Treasury \cup {Nobody}, key : Nat, epoch : Nat, version : Nat,
     amount : Nat]

(* Storage, log and the call under way are of their types; the log is in   *)
(* the order of its blocks, and each kind of contract has its own events.  *)
ViewsTypeOK ==
    /\ swarm \in [Swarm -> Storage]
    /\ log \in Seq(Records(SwarmEvents, Swarm) \cup Records(TreasuryEvents, Treasury))
    /\ \A i, j \in DOMAIN log : i < j => log[i].block <= log[j].block
    /\ click \in {NoClick} \cup [op : {"approve", "reject", "cancel"}, request : Nat,
                                 requester : Account, amount : Amount]

(* Where in the log the n-th request of s was made and closed.             *)
Closing == {"JoinApproved", "JoinRejected", "JoinCancelled"}
Place(s, id, names) ==
    {i \in DOMAIN log : log[i].source = s /\ log[i].id = id /\ log[i].name \in names}

(* The account has had two requests pending at once, which the contract    *)
(* allows.                                                                 *)
Overlapping(s, a) ==
    LET mine == {id \in DOMAIN swarm[s].joins : swarm[s].joins[id].requester = a} IN
    \E id, later \in mine :
        /\ id < later
        /\ \A i \in Place(s, id, Closing), j \in Place(s, later, {"JoinRequested"}) : j < i

Since(s, from, names) ==
    {i \in DOMAIN log : log[i].source = s /\ log[i].block >= from /\ log[i].name \in names}

PageTrue(s, from, view) ==
    LET real == swarm[s]
        asks == {id \in DOMAIN real.joins : ~Overlapping(s, real.joins[id].requester)}
        open == {id \in asks : /\ real.joins[id].status = "pending"
                               /\ \A i \in Place(s, id, {"JoinRequested"}) : log[i].block >= from}
    IN
    /\ DOMAIN view.members \subseteq {a \in Account : real.members[a].active}
    /\ from = 0 => DOMAIN view.members = {a \in Account : real.members[a].active}
    /\ \A a \in DOMAIN view.members :
         /\ view.members[a].joinedEpoch = real.members[a].joinedEpoch
         /\ ~Overlapping(s, a) =>
              view.members[a].key \in {real.members[a].key} \cup (IF from = 0 THEN {} ELSE {0})
    /\ {id \in DOMAIN view.pending : ~Overlapping(s, view.pending[id].requester)} = open
    /\ view.epoch \in {0, real.epoch} /\ view.treasury \in {Nobody, real.treasury}
    /\ from = 0 => view.epoch = real.epoch /\ view.treasury = real.treasury
    /\ \A i \in Since(s, from, {"MemberRemoved"}) :
         (\A j \in Since(s, from, {"MemberFileMappingUpdated"}) : log[j].block <= log[i].block)
           => log[i].who \in DOMAIN view.removed

(* What the page of a swarm shows of any recent stretch of its log is so   *)
(* in the contract, and of the whole log it is all there is: the members   *)
(* and the epoch they joined in, the binding, the epoch; and, but for      *)
(* accounts that asked again while a request was pending, the requests     *)
(* that await the owner and the members' keys.  Whoever was kicked in or   *)
(* after the last block with an escrow publication is on the banner, even  *)
(* when admitted again.  What the page shows while no swarm is selected is *)
(* so of the only swarm, if one is published.                              *)
SwarmPageTrue ==
    \A s \in ToSet(Published), from \in 0..Height :
        /\ PageTrue(s, from, ScopedState(s, from))
        /\ ToSet(Published) = {s} => PageTrue(s, from, GlobalState(from, {}))

Decision(status) ==
    CASE status \in {"approved", "released"} -> "approved"
      [] status \in {"rejected", "rejected-by-treasury"} -> "rejected"
      [] status = "cancelled" -> "cancelled"

(* A row of the treasury page, whichever blocks each contract has been     *)
(* read up to, has the terms of a request of a published swarm; it calls   *)
(* that one open only while it awaits a decision, if every contract has    *)
(* been read; and what it calls decided is a request of this number that   *)
(* was decided so, perhaps of another swarm.                               *)
RowsTrue ==
    \A from \in 0..Height, behind \in SUBSET Watched :
      LET rows == Rows(from, behind) IN
      \A r \in DOMAIN rows :
        /\ \E s \in ToSet(Published) :
             /\ r \in DOMAIN swarm[s].funds
             /\ rows[r].requester = swarm[s].funds[r].requester
             /\ rows[r].amount = swarm[s].funds[r].amount
             /\ rows[r].status = "requested" /\ behind = {} => FundPending(s, r)
        /\ rows[r].status # "requested" =>
             \E s \in Swarm : /\ r \in DOMAIN swarm[s].funds
                              /\ swarm[s].funds[r].status = Decision(rows[r].status)

(* With one published swarm, a button decides the request that its row     *)
(* showed, with the requester and the amount shown, however old the row    *)
(* was: other swarms of the same treasury have requests of the same        *)
(* number.  With two published swarms it does not.                         *)
PaidAsShown ==
    [][ ClickMined =>
          \E s \in Swarm :
            /\ FundPending(s, click.request)
            /\ swarm[s].funds[click.request].requester = click.requester
            /\ swarm[s].funds[click.request].amount = click.amount
            /\ swarm'[s].funds[click.request].status =
                 CASE click.op = "approve" -> "approved" [] click.op = "reject" -> "rejected"
                   [] click.op = "cancel" -> "cancelled" ]_viewsVars

(* A request that the page shows as pending awaits the owner's decision:   *)
(* not so for an account that asked twice.                                 *)
PendingAwaits ==
    \A k \in DOMAIN Published :
        \A id \in DOMAIN ScopedState(Published[k], 0).pending : JoinPending(Published[k], id)
=============================================================================
