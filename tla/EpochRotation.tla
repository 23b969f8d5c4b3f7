--------------------------- MODULE EpochRotation ---------------------------
(***************************************************************************)
(* `soulvault epoch rotate' and `epoch decrypt-bundle-member'              *)
(* (packages/node/src/epoch-bundle.ts, epoch-key-store.ts) running against *)
(* the chain, which is SwarmRegistry.                                      *)
(*                                                                         *)
(* The command awaits one RPC after another, so each read is an action of  *)
(* its own and the roster may change in between.  A rotation transaction   *)
(* waits in the mempool; the command may be killed at any await, while the *)
(* key file it wrote and the transaction it sent stay.                     *)
(*                                                                         *)
(* A bundle is what the JSON file says (epoch, version, wrapped entries)   *)
(* together with the key inside the wrapping.  Its reference is its place  *)
(* in `bundles': 0G storage is content-addressed, so a reference never     *)
(* changes its meaning.                                                    *)
(***************************************************************************)
EXTENDS SwarmRegistry, FiniteSets, Sequences

CONSTANTS
    Owner,              \* the account that owns the swarm
    Operator,           \* machines on which the owner runs the command
    ExplicitEpoch,      \* values given with --new-epoch
    MaxVersion, MaxUploads, MaxFaults       \* bounds, for model checking only

ASSUME OperatorAssumption == ExplicitEpoch \subseteq Epoch
ASSUME UploadAssumption == MaxUploads \in Nat /\ Ref = 1..MaxUploads
ASSUME FaultAssumption == MaxFaults \in Nat

VARIABLES
    approvedLog, removedLog,    \* accounts in JoinApproved, in MemberRemoved logs
    rosterAt,                   \* rosterAt[v + 1] is the roster at version v
    bundles,                    \* uploaded bundles, in upload order
    keyStore,                   \* the epoch key files of each machine
    generated,                  \* number of epoch keys generated so far
    session,                    \* the running command of each operator machine
    mempool,                    \* rotateEpoch transactions sent, not mined
    faults                      \* crashes and failed uploads so far

logs    == <<approvedLog, removedLog, rosterAt>>
clients == <<bundles, keyStore, generated, session>>
vars    == <<registry, logs, clients, mempool, faults>>

Machine == Account \cup Operator    \* an account's agent has its own machine
NoKey   == 0
Key     == Nat \ {0}

Bundle == [epoch : Epoch, version : Nat, since : Nat, key : Key,
           entries : SUBSET (Account \X Pubkey)]

Step == {"idle", "removals", "members", "version", "key", "upload", "submit", "wait"}

(* What the command holds between two awaits; `since' is a ghost: the      *)
(* version at which it began to read.                                      *)
Session == [at : Step, since : Nat, unread : SUBSET Account, removed : SUBSET Account,
            entries : SUBSET (Account \X Pubkey), epoch : Epoch, version : Nat,
            key : Key \cup {NoKey}, bundle : Ref \cup {0}]

Idle == [at |-> "idle", since |-> 0, unread |-> {}, removed |-> {}, entries |-> {},
         epoch |-> 0, version |-> 0, key |-> NoKey, bundle |-> 0]

Transaction == [epoch : Epoch, bundle : Ref, version : Nat]

Init ==
    /\ RegistryInit
    /\ approvedLog = {} /\ removedLog = {} /\ rosterAt = <<{}>>
    /\ bundles = <<>>
    /\ keyStore = [m \in Machine |-> [e \in Epoch |-> NoKey]]
    /\ generated = 0
    /\ session = [m \in Operator |-> Idle]
    /\ mempool = {}
    /\ faults = 0

-----------------------------------------------------------------------------
(* The swarm changes under the command. *)

JoinApproved(a, k) ==
    /\ version < MaxVersion
    /\ Admit(a, k)
    /\ approvedLog' = approvedLog \cup {a}
    /\ rosterAt' = Append(rosterAt, roster')
    /\ UNCHANGED <<removedLog, clients, mempool, faults>>

MemberRemoved(a) ==
    /\ version < MaxVersion
    /\ Expel(a)
    /\ removedLog' = removedLog \cup {a}
    /\ rosterAt' = Append(rosterAt, roster')
    /\ UNCHANGED <<approvedLog, clients, mempool, faults>>

-----------------------------------------------------------------------------
(* generateEpochBundleJson and rotateEpochWithBundle on machine m *)

LastRotation == {r \in rotations : r.epoch = epoch}
RosterKeyed  == \E r \in LastRotation : r.version = version
At(m, step)  == session[m].at = step
Continue(m, s) == session' = [session EXCEPT ![m] = s]

(* The owner may run the command at any time; listSwarmMembers first asks  *)
(* for all JoinApproved logs.                                              *)
QueryApproved(m) ==
    /\ At(m, "idle")
    /\ Continue(m, [Idle EXCEPT !.at = "removals", !.unread = approvedLog, !.since = version])
    /\ UNCHANGED <<registry, logs, bundles, keyStore, generated, mempool, faults>>

QueryRemoved(m) ==
    /\ At(m, "removals")
    /\ Continue(m, [session[m] EXCEPT !.at = "members", !.removed = removedLog])
    /\ UNCHANGED <<registry, logs, bundles, keyStore, generated, mempool, faults>>

(* One getMember call of the Promise.all, in any order.  An account with a *)
(* MemberRemoved log is left out even if it is a member again.             *)
ReadMember(m, a) ==
    LET s == session[m] IN
    /\ At(m, "members")
    /\ a \in s.unread
    /\ Continue(m, [s EXCEPT !.unread = @ \ {a},
                             !.entries = @ \cup (IF a \in s.removed THEN {}
                                                 ELSE {a} \X KeyOf(a))])
    /\ UNCHANGED <<registry, logs, bundles, keyStore, generated, mempool, faults>>

NotAwaited(m) == session[m].unread \subseteq Account     \* mutant: Promise.all not awaited
AllRead(m)    == session[m].unread = {}

SameEpoch == epoch              \* mutant: off by one
NextEpoch == epoch + 1

ReadEpoch(m, e) ==
    /\ At(m, "members")
    /\ AllRead(m)
    /\ e = NextEpoch \/ e \in ExplicitEpoch
    /\ Continue(m, [session[m] EXCEPT !.at = "version", !.epoch = e])
    /\ UNCHANGED <<registry, logs, bundles, keyStore, generated, mempool, faults>>

ReadVersion(m) ==
    /\ At(m, "version")
    /\ Continue(m, [session[m] EXCEPT !.at = "key", !.version = version])
    /\ UNCHANGED <<registry, logs, bundles, keyStore, generated, mempool, faults>>

NeverStored(m, e) == keyStore[m][e] \notin {NoKey} \cup Key    \* mutant: key files are not reused
Stored(m, e)      == keyStore[m][e] # NoKey

(* A key already on disk for that epoch is used again, otherwise a new one *)
(* is generated and written before anything is published.                  *)
LoadKey(m) ==
    LET e == session[m].epoch IN
    /\ At(m, "key")
    /\ IF Stored(m, e)
       THEN /\ Continue(m, [session[m] EXCEPT !.at = "upload", !.key = keyStore[m][e]])
            /\ UNCHANGED <<keyStore, generated>>
       ELSE /\ generated' = generated + 1
            /\ keyStore' = [keyStore EXCEPT ![m][e] = generated + 1]
            /\ Continue(m, [session[m] EXCEPT !.at = "upload", !.key = generated + 1])
    /\ UNCHANGED <<registry, logs, bundles, mempool, faults>>

Upload(m) ==
    LET s == session[m] IN
    /\ At(m, "upload")
    /\ Len(bundles) < MaxUploads
    /\ bundles' = Append(bundles, [epoch |-> s.epoch, version |-> s.version, since |-> s.since,
                                   key |-> s.key, entries |-> s.entries])
    /\ Continue(m, [s EXCEPT !.at = "submit", !.bundle = Len(bundles) + 1])
    /\ UNCHANGED <<registry, logs, keyStore, generated, mempool, faults>>

(* The storage network took the bundle but named no root hash. *)
UploadUnnamed(m) ==
    /\ At(m, "upload")
    /\ faults < MaxFaults
    /\ faults' = faults + 1
    /\ Continue(m, [session[m] EXCEPT !.at = "submit", !.bundle = 0])
    /\ UNCHANGED <<registry, logs, bundles, keyStore, generated, mempool>>

HasRoot(s) == s.bundle # 0

LaterEpoch(tx) == tx.epoch > epoch      \* mutant: MembershipChanged not checked
Accepted(tx)   == tx.version = version /\ tx.epoch > epoch

(* ethers estimates gas first: a call that would revert is not sent. *)
Submit(m) ==
    LET s == session[m]
        tx == [epoch |-> s.epoch, bundle |-> s.bundle, version |-> s.version]
    IN  /\ At(m, "submit")
        /\ IF HasRoot(s) /\ Accepted(tx)
           THEN /\ mempool' = mempool \cup {tx}
                /\ Continue(m, [Idle EXCEPT !.at = "wait", !.bundle = s.bundle])
           ELSE UNCHANGED mempool /\ Continue(m, Idle)
        /\ UNCHANGED <<registry, logs, bundles, keyStore, generated, faults>>

Mine(tx) ==
    /\ mempool' = mempool \ {tx}
    /\ IF Accepted(tx) THEN Rotate(tx.epoch, tx.bundle) ELSE UNCHANGED registry
    /\ session' = [m \in Operator |->
                     IF At(m, "wait") /\ session[m].bundle = tx.bundle THEN Idle ELSE session[m]]
    /\ UNCHANGED <<logs, bundles, keyStore, generated, faults>>

(* The command is killed, or the upload fails and it throws. *)
Abort(m) ==
    /\ ~At(m, "idle")
    /\ faults < MaxFaults
    /\ faults' = faults + 1
    /\ Continue(m, Idle)
    /\ UNCHANGED <<registry, logs, bundles, keyStore, generated, mempool>>

(* decryptBundleForCurrentMember on the machine of agent a: the bundle of  *)
(* the latest EpochRotated log; its key is kept only if the machine has    *)
(* none for that epoch.                                                    *)
DecryptBundle(a) ==
    \E r \in LastRotation :
      /\ \E k \in Pubkey : <<a, k>> \in bundles[r.bundle].entries
      /\ ~Stored(a, r.epoch)
      /\ keyStore' = [keyStore EXCEPT ![a][r.epoch] = bundles[r.bundle].key]
      /\ UNCHANGED <<registry, logs, bundles, generated, session, mempool, faults>>

Command(m) ==
    \/ QueryApproved(m) \/ QueryRemoved(m)
    \/ \E a \in Account : ReadMember(m, a)
    \/ \E e \in Epoch : ReadEpoch(m, e)
    \/ ReadVersion(m) \/ LoadKey(m) \/ Upload(m) \/ Submit(m)

Next ==
    \/ \E a \in Account : \/ \E k \in Pubkey : JoinApproved(a, k)
                          \/ MemberRemoved(a)
                          \/ DecryptBundle(a)
    \/ \E m \in Operator : Command(m) \/ UploadUnnamed(m) \/ Abort(m)
    \/ \E tx \in mempool : Mine(tx)

Spec == Init /\ [][Next]_vars

RekeyDue == version > 0 /\ ~RosterKeyed

(* The owner runs the command again as long as the roster is not keyed     *)
(* (docs/architecture.md: "Owner retries with updated membership           *)
(* snapshot"), a running command continues, sent transactions are mined.   *)
FairSpec ==
    /\ Spec
    /\ \A m \in Operator : WF_vars((At(m, "idle") => RekeyDue) /\ Command(m))
    /\ WF_vars(\E tx \in mempool : Mine(tx))

-----------------------------------------------------------------------------
(* Properties *)

(* Chain, files and the running commands hold values of their types; a     *)
(* transaction always names an uploaded bundle.                            *)
TypeOK ==
    /\ RegistryTypeOK
    /\ approvedLog \subseteq Account /\ removedLog \subseteq Account
    /\ rosterAt \in Seq(SUBSET (Account \X Pubkey)) /\ Len(rosterAt) = version + 1
    /\ bundles \in Seq(Bundle)
    /\ keyStore \in [Machine -> [Epoch -> Key \cup {NoKey}]]
    /\ generated \in Nat
    /\ session \in [Operator -> Session]
    /\ mempool \subseteq Transaction
    /\ \A tx \in mempool : tx.bundle \in DOMAIN bundles
    /\ faults \in 0..MaxFaults

(* What the chain says of a rotation is what the bundle it points to says  *)
(* of itself, whatever changed between preparing and mining, and whichever *)
(* of several pending transactions is mined.                               *)
RotationMatchesBundle ==
    \A r \in rotations :
      bundles[r.bundle].epoch = r.epoch /\ bundles[r.bundle].version = r.version

(* With one operator machine, every key file kept for an epoch that has    *)
(* begun holds the key of that epoch's bundle: the operator wrote its file *)
(* before publishing, perhaps several crashes ago, and must not have       *)
(* overwritten or outlived it.  Backups are encrypted with that file.      *)
KeyStoreAgrees ==
    \A r \in rotations, m \in Machine :
      keyStore[m][r.epoch] \in {NoKey, bundles[r.bundle].key}

RosterIn(v) == rosterAt[v + 1]

(* The reads are not a snapshot, but the error is confined to the window   *)
(* of the command: an entry belongs to somebody who was a member, with     *)
(* that key, at some version of the window, and whoever was a member all   *)
(* along and has never been removed has an entry.                          *)
EntriesFromWindow ==
    \A i \in DOMAIN bundles : LET b == bundles[i] IN
      /\ \A entry \in b.entries : \E v \in b.since..b.version : entry \in RosterIn(v)
      /\ \A member \in Account \X Pubkey :
           /\ \A v \in b.since..b.version : member \in RosterIn(v)
           /\ \A v \in 1..b.since : member[1] \in {x[1] : x \in RosterIn(v - 1)}
                                      => member[1] \in {x[1] : x \in RosterIn(v)}
           => member \in b.entries

(* When the roster stops changing and commands stop failing, the current   *)
(* epoch ends up keyed for the current roster: crashes, lost races and     *)
(* leftover transactions or key files never wedge the rotation.            *)
RekeyCatchesUp == []<>(version = 0 \/ RosterKeyed)

-----------------------------------------------------------------------------
(* Statements of the documentation that the code does not keep *)

(* docs/architecture.md: the transaction reverts if membership changed     *)
(* since the bundle was prepared; so a rotated bundle would cover exactly  *)
(* the roster of its version.  The roster is read before the version.      *)
BundleCoversVersion ==
    \A r \in rotations : bundles[r.bundle].entries \subseteq RosterIn(r.version)

(* crypto.md: "wrapped K_epoch entries per active member".  A member that  *)
(* was removed once and admitted again gets none.                          *)
EntryPerActiveMember ==
    \A r \in rotations : LET b == bundles[r.bundle] IN
      b.since = b.version => RosterIn(b.version) \subseteq b.entries

(* commands.md: "Includes owner escrow entry in every bundle". *)
OwnerEscrowEntry ==
    \A i \in DOMAIN bundles : \E k \in Pubkey : <<Owner, k>> \in bundles[i].entries

(* docs/architecture.md: "On membership change (join/kick/manual rotate),  *)
(* owner CLI generates a new K_epoch+1": bundles made for two different    *)
(* rosters never wrap the same key.  A retry takes the stored key again.   *)
NewKeyPerRoster ==
    \A i, j \in DOMAIN bundles :
      bundles[i].key = bundles[j].key => bundles[i].version = bundles[j].version
=============================================================================
