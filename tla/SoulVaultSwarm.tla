--------------------------- MODULE SoulVaultSwarm ---------------------------
(***************************************************************************)
(* The coordination contract of one swarm, contracts/SoulVaultSwarm.sol.   *)
(*                                                                         *)
(* A transaction is atomic and a revert leaves no trace, so every external *)
(* function is one action whose guard is the conjunction of the function's *)
(* require conditions; a call that would revert is simply not a step.  The *)
(* first parameter of an action is msg.sender.  The views (getMember, ...) *)
(* are the variables themselves.                                           *)
(*                                                                         *)
(* Abstractions: keys, references and hashes are members of small sets     *)
(* whose elements are the non-empty values; free text (topics, reasons)    *)
(* and the timestamps stored for display are left out.  `events' holds the *)
(* log entries whose content no storage slot repeats.                      *)
(***************************************************************************)
EXTENDS Integers, FiniteSets

CONSTANTS
    Account,            \* addresses that may send a transaction
    Owner,              \* msg.sender of the constructor
    NoAddress,          \* address(0)
    Pubkey, NoPubkey,   \* non-empty public keys; the empty bytes of a fresh slot
    Ref, NoRef,         \* non-empty storage references; the empty string
    Hash,               \* content hashes of key bundles (bytes32)
    Amount,             \* amounts a member may ask for, all positive
    SigLifetime,        \* deadline - now of an intent the owner signs
    MaxRequestId, MaxFundRequestId, MaxEpoch,          \* bounds on the counters,
    MaxSeq, MaxNonce, MaxTime                          \* for model checking only

ASSUME AccountAssumption == Owner \in Account /\ NoAddress \notin Account
ASSUME ReferenceAssumption == NoPubkey \notin Pubkey /\ NoRef \notin Ref
ASSUME AmountAssumption == Amount \subseteq Nat \ {0}
ASSUME BoundAssumption ==
    /\ SigLifetime \in Nat /\ MaxRequestId \in Nat /\ MaxFundRequestId \in Nat
    /\ MaxEpoch \in Nat /\ MaxSeq \in Nat /\ MaxNonce \in Nat /\ MaxTime \in Nat

VARIABLES
    paused, currentEpoch, membershipVersion, memberCount, treasury,
    nextRequestId, nextFundRequestId, members, joinRequests, fundRequests,
    memberFileMappings, agentManifests, lastSenderSeq, ownerNonce,
    events,     \* log entries read back by the clients
    now,        \* block.timestamp
    signed,     \* owner signatures handed to submitters
    landed      \* those a transaction has consumed

membership == <<members, joinRequests, nextRequestId, membershipVersion, memberCount>>
funding    == <<fundRequests, nextFundRequestId>>
publishing == <<memberFileMappings, agentManifests, lastSenderSeq>>
signing    == <<ownerNonce, now, signed, landed>>
vars == <<paused, currentEpoch, treasury, membership, funding, publishing, events, signing>>

-----------------------------------------------------------------------------
(* Types *)

Address     == Account \cup {NoAddress}
RequestId   == 1..MaxRequestId
FundRequestId == 1..MaxFundRequestId
Epoch       == 0..MaxEpoch
Seq         == 0..MaxSeq
Version     == 0..2 * MaxRequestId      \* an approval and a removal per request
Time        == 0..MaxTime
Status      == {"pending", "approved", "rejected", "cancelled"}

Member      == [active : BOOLEAN, pubkey : Pubkey \cup {NoPubkey}, joinedEpoch : Epoch]
JoinRequest == [requester : Address, pubkey : Pubkey \cup {NoPubkey}, status : Status]
FundRequest == [requester : Address, amount : Amount \cup {0}, status : Status]
FileMapping == [locator : Ref \cup {NoRef}, epoch : Epoch]

NoMember      == [active |-> FALSE, pubkey |-> NoPubkey, joinedEpoch |-> 0]
NoJoinRequest == [requester |-> NoAddress, pubkey |-> NoPubkey, status |-> "pending"]
NoFundRequest == [requester |-> NoAddress, amount |-> 0, status |-> "pending"]
NoFileMapping == [locator |-> NoRef, epoch |-> 0]

Event ==
    [type : {"EpochRotated"}, epoch : Epoch, bundle : Ref, hash : Hash, version : Nat]
      \cup [type : {"AgentMessagePosted"}, from : Account, seq : Seq, epoch : Epoch]
      \cup [type : {"BackupRequested"}, epoch : Epoch]
      \cup [type : {"HistoricalKeyBundleGranted"}, member : Account, bundle : Ref,
            fromEpoch : Epoch, toEpoch : Epoch]
      \cup [type : {"EpochKeyRequested"}, requester : Account,
            pubkey : Pubkey \cup {NoPubkey}, epoch : Epoch]
      \cup [type : {"RekeyRequested"}, version : Nat]

(* One record shape per EIP-712 type hash.  The arguments no hash covers    *)
(* are the submitter's choice: of a rotation keyBundleRef, by which clients *)
(* download the bundle, and expectedMembershipVersion; the free text.       *)
Intent ==
    [op : {"ApproveJoin", "RejectJoin"}, requestId : RequestId, requester : Account]
      \cup [op : {"RemoveMember"}, member : Account]
      \cup [op : {"SetTreasury"}, treasury : Account]
      \cup [op : {"RotateEpoch"}, fromEpoch : Epoch, toEpoch : Epoch, hash : Hash]
      \cup [op : {"BackupRequest"}, epoch : Epoch]

Signature == [intent : Intent, nonce : Nat, deadline : Nat]

-----------------------------------------------------------------------------
Init ==
    /\ paused = FALSE
    /\ currentEpoch = 0
    /\ membershipVersion = 0
    /\ memberCount = 0
    /\ treasury \in Address
    /\ nextRequestId = 1
    /\ nextFundRequestId = 1
    /\ members = [a \in Account |-> NoMember]
    /\ joinRequests = [i \in RequestId |-> NoJoinRequest]
    /\ fundRequests = [i \in FundRequestId |-> NoFundRequest]
    /\ memberFileMappings = [a \in Account |-> NoFileMapping]
    /\ agentManifests = [a \in Account |-> NoRef]
    /\ lastSenderSeq = [a \in Account |-> 0]
    /\ ownerNonce = 0
    /\ events = {}
    /\ now = 0
    /\ signed = {}
    /\ landed = {}

OnlyOwner(c)  == c = Owner
IgnorePause   == paused \in BOOLEAN       \* mutant: the modifier does not revert
WhenNotPaused == ~paused
Emit(e)        == events' = events \cup {e}

-----------------------------------------------------------------------------
(* Membership *)

IsActiveMember(m) == members[m].active

SameVersion == membershipVersion                    \* mutant: the change is not counted
NextVersion == membershipVersion + 1

JoinAsked(id) == joinRequests[id].requester # NoAddress     \* mutant: status not checked
PendingJoin(id) ==
    joinRequests[id].requester # NoAddress /\ joinRequests[id].status = "pending"

ResolveJoin(id, status) ==
    joinRequests' = [joinRequests EXCEPT ![id].status = status]

RequestJoin(c, pubkey) ==
    /\ WhenNotPaused
    /\ ~IsActiveMember(c)
    /\ nextRequestId <= MaxRequestId
    /\ joinRequests' = [joinRequests EXCEPT ![nextRequestId] =
                          [requester |-> c, pubkey |-> pubkey, status |-> "pending"]]
    /\ nextRequestId' = nextRequestId + 1
    /\ UNCHANGED <<members, membershipVersion, memberCount>>
    /\ UNCHANGED <<paused, currentEpoch, treasury, funding, publishing, events, signing>>

(* _approveJoin, shared by the direct and the signed call. *)
AdmitRequester(id) ==
    LET requester == joinRequests[id].requester IN
    /\ PendingJoin(id)
    /\ ~IsActiveMember(requester)
    /\ members' = [members EXCEPT ![requester] =
                     [active |-> TRUE, pubkey |-> joinRequests[id].pubkey,
                      joinedEpoch |-> currentEpoch]]
    /\ ResolveJoin(id, "approved")
    /\ membershipVersion' = NextVersion
    /\ memberCount' = memberCount + 1
    /\ UNCHANGED <<nextRequestId, paused, currentEpoch, treasury, funding, publishing, events>>

(* _rejectJoin *)
RefuseRequester(id) ==
    /\ PendingJoin(id)
    /\ ResolveJoin(id, "rejected")
    /\ UNCHANGED <<members, nextRequestId, membershipVersion, memberCount>>
    /\ UNCHANGED <<paused, currentEpoch, treasury, funding, publishing, events>>

(* _removeMember: the key and the message counter of the member stay. *)
DropMember(m) ==
    /\ IsActiveMember(m)
    /\ members' = [members EXCEPT ![m].active = FALSE]
    /\ membershipVersion' = NextVersion
    /\ memberCount' = memberCount - 1
    /\ UNCHANGED <<joinRequests, nextRequestId, paused, currentEpoch, treasury, funding,
                   publishing, events>>

ApproveJoin(c, id)  == OnlyOwner(c) /\ WhenNotPaused /\ AdmitRequester(id) /\ UNCHANGED signing
RejectJoin(c, id)   == OnlyOwner(c) /\ WhenNotPaused /\ RefuseRequester(id) /\ UNCHANGED signing
RemoveMember(c, m)  == OnlyOwner(c) /\ WhenNotPaused /\ DropMember(m) /\ UNCHANGED signing

CancelJoin(c, id) ==
    /\ WhenNotPaused
    /\ PendingJoin(id)
    /\ joinRequests[id].requester = c
    /\ ResolveJoin(id, "cancelled")
    /\ UNCHANGED <<members, nextRequestId, membershipVersion, memberCount>>
    /\ UNCHANGED <<paused, currentEpoch, treasury, funding, publishing, events, signing>>

-----------------------------------------------------------------------------
(* Treasury binding (no whenNotPaused) and fund requests *)

BindTreasury(newTreasury) ==
    /\ newTreasury # NoAddress
    /\ treasury' = newTreasury
    /\ UNCHANGED <<paused, currentEpoch, membership, funding, publishing, events>>

SetTreasury(c, newTreasury) == OnlyOwner(c) /\ BindTreasury(newTreasury) /\ UNCHANGED signing

FundsAsked(id) == fundRequests[id].requester # NoAddress    \* mutant: status not checked
PendingFunds(id) ==
    fundRequests[id].requester # NoAddress /\ fundRequests[id].status = "pending"

ResolveFunds(id, status) ==
    /\ WhenNotPaused
    /\ PendingFunds(id)
    /\ fundRequests' = [fundRequests EXCEPT ![id].status = status]
    /\ UNCHANGED nextFundRequestId
    /\ UNCHANGED <<paused, currentEpoch, treasury, membership, publishing, events, signing>>

RequestFunds(c, amount) ==
    /\ WhenNotPaused
    /\ IsActiveMember(c)
    /\ treasury # NoAddress
    /\ amount # 0
    /\ nextFundRequestId <= MaxFundRequestId
    /\ fundRequests' = [fundRequests EXCEPT ![nextFundRequestId] =
                          [requester |-> c, amount |-> amount, status |-> "pending"]]
    /\ nextFundRequestId' = nextFundRequestId + 1
    /\ UNCHANGED <<paused, currentEpoch, treasury, membership, publishing, events, signing>>

CancelFundRequest(c, id) ==
    fundRequests[id].requester = c /\ ResolveFunds(id, "cancelled")

MarkFundRequestApproved(c, id) == c = treasury /\ ResolveFunds(id, "approved")

MarkFundRequestRejected(c, id) == c = treasury /\ ResolveFunds(id, "rejected")

-----------------------------------------------------------------------------
(* Epochs and keys *)

NotEarlier(newEpoch) == newEpoch >= currentEpoch    \* mutant: off by one
Later(newEpoch)      == newEpoch > currentEpoch

(* _rotateEpoch: any later epoch number is accepted, not only the next. *)
AdvanceEpoch(newEpoch, bundle, hash, expectedVersion) ==
    /\ expectedVersion = membershipVersion
    /\ Later(newEpoch)
    /\ currentEpoch' = newEpoch
    /\ Emit([type |-> "EpochRotated", epoch |-> newEpoch, bundle |-> bundle, hash |-> hash,
             version |-> membershipVersion])
    /\ UNCHANGED <<paused, treasury, membership, funding, publishing>>

RotateEpoch(c, newEpoch, bundle, hash, expectedVersion) ==
    /\ OnlyOwner(c)
    /\ WhenNotPaused
    /\ AdvanceEpoch(newEpoch, bundle, hash, expectedVersion)
    /\ UNCHANGED signing

(* A call that only writes to the log. *)
LogOnly(e) ==
    /\ Emit(e)
    /\ UNCHANGED <<paused, currentEpoch, treasury, membership, funding, publishing>>

GrantHistoricalKeys(c, member, bundle, fromEpoch, toEpoch) ==
    /\ OnlyOwner(c)
    /\ WhenNotPaused
    /\ fromEpoch <= toEpoch
    /\ LogOnly([type |-> "HistoricalKeyBundleGranted", member |-> member, bundle |-> bundle,
                fromEpoch |-> fromEpoch, toEpoch |-> toEpoch])
    /\ UNCHANGED signing

AskBackup(epoch) == epoch = currentEpoch /\ LogOnly([type |-> "BackupRequested", epoch |-> epoch])

RequestBackup(c, epoch) == OnlyOwner(c) /\ WhenNotPaused /\ AskBackup(epoch) /\ UNCHANGED signing

RequestEpochKey(c) ==
    /\ WhenNotPaused
    /\ IsActiveMember(c)
    /\ LogOnly([type |-> "EpochKeyRequested", requester |-> c, pubkey |-> members[c].pubkey,
                epoch |-> currentEpoch])
    /\ UNCHANGED signing

(* Open to every account, paused or not. *)
RequestRekey(c) ==
    /\ LogOnly([type |-> "RekeyRequested", version |-> membershipVersion])
    /\ UNCHANGED signing

-----------------------------------------------------------------------------
(* What members publish *)

UpdateMemberFileMapping(c, member, locator, epoch) ==
    /\ WhenNotPaused
    /\ c = Owner \/ c = member
    /\ c # Owner => IsActiveMember(c)
    /\ c = Owner => IsActiveMember(member)
    /\ epoch <= currentEpoch
    /\ memberFileMappings' = [memberFileMappings EXCEPT ![member] =
                                [locator |-> locator, epoch |-> epoch]]
    /\ UNCHANGED <<agentManifests, lastSenderSeq>>
    /\ UNCHANGED <<paused, currentEpoch, treasury, membership, funding, events, signing>>

SeqNotBelow(c, seq) == seq >= lastSenderSeq[c]      \* mutant: off by one
SeqUnused(c, seq)   == seq > lastSenderSeq[c]

PostMessage(c, seq, epoch) ==
    /\ WhenNotPaused
    /\ IsActiveMember(c)
    /\ epoch = currentEpoch
    /\ SeqUnused(c, seq)
    /\ lastSenderSeq' = [lastSenderSeq EXCEPT ![c] = seq]
    /\ Emit([type |-> "AgentMessagePosted", from |-> c, seq |-> seq, epoch |-> epoch])
    /\ UNCHANGED <<memberFileMappings, agentManifests>>
    /\ UNCHANGED <<paused, currentEpoch, treasury, membership, funding, signing>>

UpdateAgentManifest(c, manifest) ==
    /\ WhenNotPaused
    /\ IsActiveMember(c)
    /\ agentManifests' = [agentManifests EXCEPT ![c] = manifest]
    /\ UNCHANGED <<memberFileMappings, lastSenderSeq>>
    /\ UNCHANGED <<paused, currentEpoch, treasury, membership, funding, events, signing>>

SetPaused(c, value) ==
    /\ OnlyOwner(c)
    /\ paused' = value
    /\ UNCHANGED <<currentEpoch, treasury, membership, funding, publishing, events, signing>>

Pause(c)   == SetPaused(c, TRUE)
Unpause(c) == SetPaused(c, FALSE)

-----------------------------------------------------------------------------
(* Signed intents: the owner signs off chain against the nonce and the     *)
(* clock it reads, anyone submits, in any order, late or more than once.   *)

OwnerSigns(intent) ==
    /\ ownerNonce < MaxNonce
    /\ signed' = signed \cup
         {[intent |-> intent, nonce |-> ownerNonce, deadline |-> now + SigLifetime]}
    /\ UNCHANGED <<ownerNonce, now, landed>>
    /\ UNCHANGED <<paused, currentEpoch, treasury, membership, funding, publishing, events>>

Tick ==
    /\ now < MaxTime
    /\ now' = now + 1
    /\ UNCHANGED <<ownerNonce, signed, landed>>
    /\ UNCHANGED <<paused, currentEpoch, treasury, membership, funding, publishing, events>>

CheckDeadlineOnly(sig) ==       \* mutant: any nonce is accepted
    /\ now <= sig.deadline
    /\ ownerNonce' = sig.nonce + 1
    /\ landed' = landed \cup {sig}
    /\ UNCHANGED <<now, signed>>

(* _checkOwnerSig; ECDSA recovers the owner exactly for what it signed. *)
CheckOwnerSig(sig) ==
    /\ now <= sig.deadline
    /\ sig.nonce = ownerNonce
    /\ ownerNonce' = sig.nonce + 1
    /\ landed' = landed \cup {sig}
    /\ UNCHANGED <<now, signed>>

Signs(sig, op) == sig \in signed /\ sig.intent.op = op

AnyRequester(sig)   == sig \in signed       \* mutant: the request is not compared
NamedRequester(sig) == joinRequests[sig.intent.requestId].requester = sig.intent.requester

ApproveJoinWithSig(sig) ==
    /\ Signs(sig, "ApproveJoin")
    /\ WhenNotPaused
    /\ CheckOwnerSig(sig)
    /\ NamedRequester(sig)
    /\ AdmitRequester(sig.intent.requestId)

RejectJoinWithSig(sig) ==
    /\ Signs(sig, "RejectJoin")
    /\ WhenNotPaused
    /\ CheckOwnerSig(sig)
    /\ NamedRequester(sig)
    /\ RefuseRequester(sig.intent.requestId)

RemoveMemberWithSig(sig) ==
    /\ Signs(sig, "RemoveMember")
    /\ WhenNotPaused
    /\ CheckOwnerSig(sig)
    /\ DropMember(sig.intent.member)

SetTreasuryWithSig(sig) ==
    /\ Signs(sig, "SetTreasury")
    /\ CheckOwnerSig(sig)
    /\ BindTreasury(sig.intent.treasury)

(* The signature covers the two epochs and bundleManifestHash, which must   *)
(* be the keyBundleHash passed; the submitter chooses bundle (keyBundleRef) *)
(* and expectedVersion.                                                     *)
RotateEpochWithSig(sig, bundle, expectedVersion) ==
    /\ Signs(sig, "RotateEpoch")
    /\ WhenNotPaused
    /\ sig.intent.fromEpoch = currentEpoch
    /\ CheckOwnerSig(sig)
    /\ AdvanceEpoch(sig.intent.toEpoch, bundle, sig.intent.hash, expectedVersion)

RequestBackupWithSig(sig) ==
    /\ Signs(sig, "BackupRequest")
    /\ WhenNotPaused
    /\ CheckOwnerSig(sig)
    /\ AskBackup(sig.intent.epoch)

-----------------------------------------------------------------------------
MembershipCalls(c) ==
    \/ \E k \in Pubkey : RequestJoin(c, k)
    \/ \E id \in RequestId : ApproveJoin(c, id) \/ RejectJoin(c, id) \/ CancelJoin(c, id)
    \/ \E m \in Account : RemoveMember(c, m)

FundingCalls(c) ==
    \/ \E t \in Account : SetTreasury(c, t)
    \/ \E amount \in Amount : RequestFunds(c, amount)
    \/ \E id \in FundRequestId :
         \/ CancelFundRequest(c, id)
         \/ MarkFundRequestApproved(c, id)
         \/ MarkFundRequestRejected(c, id)

EpochCalls(c) ==
    \/ \E e \in Epoch, b \in Ref, h \in Hash, v \in Version : RotateEpoch(c, e, b, h, v)
    \/ \E m \in Account, b \in Ref, e, f \in Epoch : GrantHistoricalKeys(c, m, b, e, f)
    \/ \E e \in Epoch : RequestBackup(c, e)
    \/ RequestEpochKey(c)
    \/ RequestRekey(c)

PublishingCalls(c) ==
    \/ \E m \in Account, r \in Ref, e \in Epoch : UpdateMemberFileMapping(c, m, r, e)
    \/ \E n \in Seq, e \in Epoch : PostMessage(c, n, e)
    \/ \E r \in Ref : UpdateAgentManifest(c, r)

PauseCalls(c) == Pause(c) \/ Unpause(c)

SignedCalls ==
    \/ \E intent \in Intent : OwnerSigns(intent)
    \/ Tick
    \/ \E sig \in signed :
         \/ ApproveJoinWithSig(sig)
         \/ RejectJoinWithSig(sig)
         \/ RemoveMemberWithSig(sig)
         \/ SetTreasuryWithSig(sig)
         \/ \E b \in Ref, v \in Version : RotateEpochWithSig(sig, b, v)
         \/ RequestBackupWithSig(sig)

Next ==
    \/ \E c \in Account :
         \/ MembershipCalls(c)
         \/ FundingCalls(c)
         \/ EpochCalls(c)
         \/ PublishingCalls(c)
         \/ PauseCalls(c)
    \/ SignedCalls

Spec == Init /\ [][Next]_vars

-----------------------------------------------------------------------------
(* Properties *)

(* Every slot holds a value of its Solidity type, and no counter or record *)
(* leaves the bounds of the instance.                                      *)
TypeOK ==
    /\ paused \in BOOLEAN
    /\ currentEpoch \in Epoch
    /\ membershipVersion \in Nat
    /\ memberCount \in Nat
    /\ treasury \in Address
    /\ nextRequestId \in 1..(MaxRequestId + 1)
    /\ nextFundRequestId \in 1..(MaxFundRequestId + 1)
    /\ members \in [Account -> Member]
    /\ joinRequests \in [RequestId -> JoinRequest]
    /\ fundRequests \in [FundRequestId -> FundRequest]
    /\ memberFileMappings \in [Account -> FileMapping]
    /\ agentManifests \in [Account -> Ref \cup {NoRef}]
    /\ lastSenderSeq \in [Account -> Seq]
    /\ ownerNonce \in Nat
    /\ events \subseteq Event
    /\ now \in Time
    /\ signed \subseteq Signature
    /\ landed \subseteq Signature

Active   == {a \in Account : members[a].active}
Approved == {id \in RequestId : joinRequests[id].status = "approved"}
Roster   == {<<a, members[a].pubkey>> : a \in Active}

(* memberCount is the number of active members, and membershipVersion has  *)
(* moved exactly once per admission and per removal: with A admissions and *)
(* R removals the two are A - R and A + R.  Two requests of one account,   *)
(* removals and readmissions must never make the counters drift.           *)
RosterLedger ==
    /\ memberCount = Cardinality(Active)
    /\ membershipVersion + memberCount = 2 * Cardinality(Approved)

(* Each active member was admitted on a request of its own that the owner  *)
(* approved, and holds the key of such a request.                          *)
AdmittedAsRequested ==
    \A a \in Active : \E id \in Approved :
      joinRequests[id].requester = a /\ joinRequests[id].pubkey = members[a].pubkey

(* A membershipVersion names one roster, keys included: this is what lets  *)
(* rotateEpoch use expectedMembershipVersion as an optimistic lock.  No    *)
(* step goes back to an earlier version or changes the roster under one.   *)
VersionNamesRoster ==
    [][ /\ membershipVersion' >= membershipVersion
        /\ membershipVersion' = membershipVersion => Roster' = Roster ]_vars

(* A request id belongs for ever to the account that got it, and a request *)
(* leaves "pending" at most once: owner, requester, treasury and a         *)
(* submitted signature can race, only the first decides.                   *)
DecidedOnce(requests, requestsAfter, lastId) ==
    \A id \in 1..lastId :
      /\ requestsAfter[id] = [requests[id] EXCEPT !.status = requestsAfter[id].status]
      /\ requests[id].status # "pending" => requestsAfter[id] = requests[id]

RequestsDecidedOnce ==
    [][ /\ DecidedOnce(joinRequests, joinRequests', nextRequestId - 1)
        /\ DecidedOnce(fundRequests, fundRequests', nextFundRequestId - 1) ]_vars

EventsOf(type) == {e \in events : e.type = type}

(* Ordering a sender's messages by seq also orders them by epoch, and a    *)
(* (sender, seq) pair names one message, also when the sender was removed  *)
(* and admitted again in between.                                          *)
MessagesFollowEpochs ==
    \A m, n \in EventsOf("AgentMessagePosted") : m.from = n.from =>
      /\ m.seq = n.seq => m = n
      /\ m.seq < n.seq => m.epoch <= n.epoch

(* While the swarm stays paused nothing but the treasury binding, the      *)
(* nonce its signed form consumes and the log of rekey requests can move.  *)
PauseFreezes ==
    [][ paused /\ paused' => /\ UNCHANGED <<currentEpoch, membership, funding, publishing>>
                             /\ \A e \in events' \ events : e.type = "RekeyRequested"
                             /\ \A s \in landed' \ landed : s.intent.op = "SetTreasury" ]_vars

(* SWARM_CONTRACT_SPEC.md: whenNotPaused guards "all other state-mutating  *)
(* flows".  setTreasury has no such modifier.                              *)
PauseGuardsEveryFlow ==
    [][ paused /\ paused' =>
          UNCHANGED <<currentEpoch, treasury, membership, funding, publishing, ownerNonce>> ]_vars

(* Of all intents the owner signed for one nonce at most one ever takes    *)
(* effect, whoever submits them and however often: clear-signing-spec.md,  *)
(* "each signature consumes exactly one nonce".                            *)
OneIntentPerNonce ==
    /\ \A s, t \in landed : s.nonce = t.nonce => s = t
    /\ \A n \in 0..(ownerNonce - 1) : \E s \in landed : s.nonce = n

(* A signed intent that takes effect does to the swarm what its signed     *)
(* fields say, even if the swarm changed in between: it admits or refuses  *)
(* the named requester and nobody else, removes the named member, binds    *)
(* the named treasury, moves between the two named epochs and logs the     *)
(* named content hash.  It says nothing of the reference logged beside the *)
(* hash: that one is not signed.                                           *)
DoesAsSigned(intent) ==
    CASE intent.op = "ApproveJoin"   -> Active' \ Active = {intent.requester}
      [] intent.op = "RejectJoin"    ->
           \E id \in RequestId : /\ joinRequests[id].requester = intent.requester
                                 /\ PendingJoin(id)
                                 /\ joinRequests'[id].status = "rejected"
                                 /\ Active' = Active
      [] intent.op = "RemoveMember"  -> Active \ Active' = {intent.member}
      [] intent.op = "SetTreasury"   -> treasury' = intent.treasury
      [] intent.op = "RotateEpoch"   ->
           /\ currentEpoch = intent.fromEpoch /\ currentEpoch' = intent.toEpoch
           /\ \E e \in events' \ events : e.type = "EpochRotated" /\ e.hash = intent.hash
      [] intent.op = "BackupRequest" -> intent.epoch = currentEpoch

SignedIntentsBind ==
    [][ \A s \in landed' \ landed : now <= s.deadline /\ DoesAsSigned(s.intent) ]_vars

(* The contract keeps what SwarmRegistry promises: seen through its roster,*)
(* version, epoch and rotation log every call is one registry operation or *)
(* none.                                                                   *)
Rotations == {[epoch |-> e.epoch, bundle |-> e.bundle, version |-> e.version] :
                e \in EventsOf("EpochRotated")}

Registry == INSTANCE SwarmRegistry
              WITH roster <- Roster, version <- membershipVersion,
                   epoch <- currentEpoch, rotations <- Rotations

RefinesRegistry == Registry!RegistrySpec
=============================================================================
