----------------------------- MODULE AgentWatch -----------------------------
(***************************************************************************)
(* The machine of one agent: `swarm events watch --respond-backup', the    *)
(* backup it answers a request with, `backup push', and `msg post'         *)
(* (packages/node/src/swarm-contract.ts, backup-respond.ts, backup.ts,     *)
(* 0g.ts, apps/cli/src/commands/message.ts), against the swarm contract,   *)
(* which is SwarmRegistry with a log of events.                            *)
(*                                                                         *)
(* Every block has one transaction.  A step is what a command does up to   *)
(* its next await; commands on one machine share its files and may be      *)
(* killed at any await.  A ciphertext is its plaintext's age, its key and  *)
(* its nonce; 0G storage is content-addressed, so its root hash is the     *)
(* ciphertext itself.  The key of an epoch is named by the epoch.          *)
(***************************************************************************)
EXTENDS SwarmRegistry, FiniteSetsExt, Sequences

CONSTANTS
    Me, Peer,           \* the agent of this machine, another member
    Process, Watcher,   \* commands that may run on this machine at once; those that watch
    Treasury, None,     \* treasury contracts; the zero address
    Test,               \* TEST_K_EPOCH_HEX, the key of no epoch
    LookBack,           \* blocks a watcher goes back when it starts: 20
    MaxBlock, MaxSeq, MaxPush, MaxCrash     \* bounds, for model checking only

ASSUME AccountAssumption == {Me, Peer} \subseteq Account /\ Pubkey # {}
ASSUME NoneAssumption == None \notin Treasury \cup Account /\ Test \notin Epoch
ASSUME ProcessAssumption == Watcher \subseteq Process
ASSUME BlockAssumption == LookBack \in Nat /\ MaxBlock \in Nat /\ MaxCrash \in Nat

VARIABLES
    log,                \* log[b] is the event of block b
    treasury,           \* the treasury the swarm is bound to
    lastSeq,            \* _lastSenderSeq[Me]
    keys,               \* epochs whose key file this machine has
    artifact, sealed,   \* /tmp/soulvault-openclaw-backup.tar.gz and .tar.gz.enc
    uploaded,           \* ciphertexts in storage
    lastBackup,         \* last-backup.json
    nonces,             \* nonces drawn so far
    watcher, poster,    \* the running watch, and the running msg post, of a process
    printed, failed,    \* ghosts: blocks a watcher printed; requests it gave up
    crashes

chain  == <<registry, log, treasury, lastSeq>>
files  == <<keys, artifact, sealed, uploaded, lastBackup, nonces>>
ghosts == <<printed, failed, crashes>>
vars   == <<chain, files, watcher, poster, ghosts>>

Height == Len(log)

Cipher == [made : Nat, key : Epoch \cup {Test}, nonce : Nat]

(* MaxBlock bounds the transactions of others: what the agent's own        *)
(* commands send always finds room.                                        *)
Mine(event) == log' = Append(log, event)
Emit(event) == Height < MaxBlock /\ Mine(event)

BackupBlocks == {b \in 1..Height : log[b].type = "BackupRequested"}
MappingBlocks == {b \in 1..Height : log[b].type = "MemberFileMappingUpdated"}
MessageBlocks == {b \in 1..Height : log[b].type = "AgentMessagePosted"}

WatchStep == {"down", "poll", "treasury", "handle",
              "exec", "encrypt", "write", "upload", "map", "record"}
Down == [at |-> "down", start |-> 0, cursor |-> 0, latest |-> 0, todo |-> {},
         seal |-> None, locator |-> None]

PostStep == {"idle", "epoch", "seq", "post"}
Mode == {"public", "group", "dm"}
Idle == [at |-> "idle", mode |-> "public", key |-> None, epoch |-> 0, seq |-> 0]

Event ==
    [type : {"JoinApproved", "MemberRemoved", "TreasurySet"}]
      \cup [type : {"EpochRotated", "BackupRequested"}, epoch : Epoch]
      \cup [type : {"FundRequestApproved"}, treasury : Treasury]
      \cup [type : {"MemberFileMappingUpdated"}, epoch : Epoch, locator : Cipher,
            merkleRoot : Cipher, answers : Nat]
      \cup [type : {"AgentMessagePosted"}, epoch : Epoch, seq : Nat, mode : Mode,
            key : Epoch \cup {None, Peer}]

Watching == [at : WatchStep, start : Nat, cursor : Nat, latest : Nat, todo : SUBSET Nat,
             seal : Cipher \cup {None}, locator : Cipher \cup {None}]
Posting  == [at : PostStep, mode : Mode, key : Epoch \cup {None, Peer}, epoch : Epoch, seq : Nat]

TypeOK ==
    /\ RegistryTypeOK
    /\ log \in Seq(Event)
    /\ treasury \in Treasury \cup {None}
    /\ lastSeq \in Nat /\ nonces \in Nat
    /\ keys \subseteq Epoch
    /\ artifact \in Nat \cup {None} /\ sealed \in Cipher \cup {None}
    /\ uploaded \subseteq Cipher
    /\ lastBackup \in {None} \cup [by : {"watch", "push"}, manifest : Cipher, rootHash : Cipher]
    /\ watcher \in [Process -> Watching]
    /\ poster \in [Process -> Posting]
    /\ printed \in [Process -> Seq([block : Nat, whole : BOOLEAN])]
    /\ failed \subseteq Nat
    /\ crashes \in 0..MaxCrash

(* The swarm has admitted both members and not rotated yet.                *)
Init ==
    /\ roster = {<<a, CHOOSE k \in Pubkey : TRUE>> : a \in {Me, Peer}} /\ version = 2
    /\ epoch = 0 /\ rotations = {}
    /\ log = <<>> /\ treasury = None /\ lastSeq = 0
    /\ keys = {} /\ artifact = None /\ sealed = None /\ uploaded = {}
    /\ lastBackup = None /\ nonces = 0
    /\ watcher = [p \in Process |-> Down] /\ poster = [p \in Process |-> Idle]
    /\ printed = [p \in Process |-> <<>>] /\ failed = {} /\ crashes = 0

-----------------------------------------------------------------------------
(* The chain: what other parties send to it.                               *)

Member(a) == KeyOf(a) # {}

Join(a) ==
    /\ \E k \in Pubkey : Admit(a, k)
    /\ Emit([type |-> "JoinApproved"])
    /\ UNCHANGED <<treasury, lastSeq, files, watcher, poster, ghosts>>

RemoveMember(a) ==
    /\ Expel(a)
    /\ Emit([type |-> "MemberRemoved"])
    /\ UNCHANGED <<treasury, lastSeq, files, watcher, poster, ghosts>>

RotateEpoch(e) ==
    /\ \E r \in Ref : Rotate(e, r)
    /\ Emit([type |-> "EpochRotated", epoch |-> e])
    /\ UNCHANGED <<treasury, lastSeq, files, watcher, poster, ghosts>>

(* The command reads the epoch first; the contract takes the current one   *)
(* only, so a request that is mined names the epoch of its block.          *)
RequestBackup ==
    /\ Emit([type |-> "BackupRequested", epoch |-> epoch])
    /\ UNCHANGED <<registry, treasury, lastSeq, files, watcher, poster, ghosts>>

SetTreasury(t) ==
    /\ t # treasury
    /\ treasury' = t
    /\ Emit([type |-> "TreasurySet"])
    /\ UNCHANGED <<registry, lastSeq, files, watcher, poster, ghosts>>

(* One transaction: the swarm's FundRequestApproved, then FundsReleased.   *)
ApproveFundRequest ==
    /\ treasury # None
    /\ Emit([type |-> "FundRequestApproved", treasury |-> treasury])
    /\ UNCHANGED <<registry, treasury, lastSeq, files, watcher, poster, ghosts>>

(* `epoch decrypt-bundle-member' stores the key of the latest rotation.    *)
ImportKey ==
    /\ rotations # {} /\ epoch \notin keys
    /\ keys' = keys \cup {epoch}
    /\ UNCHANGED <<chain, artifact, sealed, uploaded, lastBackup, nonces,
                   watcher, poster, ghosts>>

-----------------------------------------------------------------------------
(* watchSwarmEvents, listRecentSwarmEvents                                 *)

Go(p, step) == watcher' = [watcher EXCEPT ![p].at = step]

Unclamped == Height - LookBack      \* mutant: no Math.max(0, ...)
DefaultStart == IF Height > LookBack THEN Height - LookBack ELSE 0

StartWatch(p, from) ==
    /\ watcher[p].at = "down"
    /\ watcher' = [watcher EXCEPT ![p] =
            [Down EXCEPT !.at = "poll", !.start = from, !.cursor = from]]
    /\ printed' = [printed EXCEPT ![p] = <<>>]
    /\ UNCHANGED <<chain, files, poster, failed, crashes>>

(* The blocks of a range in the order of the chain; the first is block 1.  *)
FirstOf(from) == IF from = 0 THEN 1 ELSE from
Span(from, to) == [i \in 1..(to + 1 - FirstOf(from)) |-> FirstOf(from) + i - 1]

AfterCursor(w) == Span(w.cursor + 1, w.latest)      \* mutant: misses the cursor's block
BlockRange(w) == Span(w.cursor, w.latest)

(* The head; the logs of the blocks up to it do not change any more.       *)
Poll(p) ==
    /\ watcher[p].at = "poll"
    /\ Height >= watcher[p].cursor
    /\ watcher' = [watcher EXCEPT ![p].latest = Height, ![p].at = "treasury"]
    /\ UNCHANGED <<chain, files, poster, ghosts>>

(* The treasury is read after the swarm's logs, and asked for its own of   *)
(* the same blocks: a payout is told whole if it is the one that paid.     *)
Told(b) == [block |-> b,
            whole |-> log[b].type = "FundRequestApproved" => log[b].treasury = treasury]

Handle(p) ==
    LET batch == BlockRange(watcher[p]) IN
    /\ watcher[p].at = "treasury"
    /\ printed' = [printed EXCEPT ![p] = @ \o [i \in DOMAIN batch |-> Told(batch[i])]]
    /\ watcher' = [watcher EXCEPT ![p].todo = Range(batch) \cap BackupBlocks, ![p].at = "handle"]
    /\ UNCHANGED <<chain, files, poster, failed, crashes>>

AfterHeight(w) == Height + 1        \* mutant: the head now, not the one scanned to
NextCursor(w) == w.latest + 1

BatchDone(p) ==
    /\ watcher[p].at = "handle" /\ watcher[p].todo = {}
    /\ watcher' = [watcher EXCEPT ![p].cursor = NextCursor(watcher[p]), ![p].at = "poll"]
    /\ UNCHANGED <<chain, files, poster, ghosts>>

(* --once, an interrupt, or an RPC error: nothing catches it.              *)
StopWatch(p) ==
    /\ watcher[p].at # "down"
    /\ crashes < MaxCrash /\ crashes' = crashes + 1
    /\ watcher' = [watcher EXCEPT ![p] = Down]
    /\ UNCHANGED <<chain, files, poster, printed, failed>>

-----------------------------------------------------------------------------
(* respondToBackupRequest, for each request of the batch in turn, the      *)
(* oldest first.                                                           *)

Answering(p) == Min(watcher[p].todo)
LatestEpoch(p) == epoch             \* mutant: the epoch now, not the one asked for
AskedEpoch(p) == log[Answering(p)].epoch

Finish(p) == watcher' = [watcher EXCEPT ![p].todo = @ \ {Answering(p)}, ![p].at = "handle"]

(* The watcher reports the failure and takes the next request.             *)
GiveUp(p) ==
    /\ Finish(p)
    /\ failed' = failed \cup {Answering(p)}
    /\ UNCHANGED <<chain, poster, printed, crashes>>

LeftOver == artifact                \* mutant: the old archive stays
Removed == None

BeginAnswer(p) ==
    /\ watcher[p].at = "handle" /\ watcher[p].todo # {}
    /\ \/ /\ AskedEpoch(p) \notin keys
          /\ GiveUp(p) /\ UNCHANGED files
       \/ /\ AskedEpoch(p) \in keys
          /\ artifact' = Removed
          /\ Go(p, "exec")
          /\ UNCHANGED <<chain, keys, sealed, uploaded, lastBackup, nonces, poster, ghosts>>

(* The backup command writes the archive, or ends without having done so;  *)
(* it may fail in either case.                                             *)
RunCommand(p) ==
    /\ watcher[p].at = "exec"
    /\ \/ artifact' = Height \/ UNCHANGED artifact
    /\ \/ artifact' # None /\ Go(p, "encrypt") /\ UNCHANGED <<poster, ghosts>> /\ UNCHANGED chain
       \/ GiveUp(p)
    /\ UNCHANGED <<keys, sealed, uploaded, lastBackup, nonces>>

Seal(made, key) == [made |-> made, key |-> key, nonce |-> nonces]

(* encryptArchiveWithKey reads the archive, and then writes its ciphertext *)
(* beside it, where another command's may be.                              *)
EncryptArchive(p) ==
    /\ watcher[p].at = "encrypt"
    /\ \/ /\ artifact = None            \* another command removed it
          /\ GiveUp(p) /\ UNCHANGED files
       \/ /\ artifact # None
          /\ nonces' = nonces + 1
          /\ watcher' = [watcher EXCEPT ![p].seal = Seal(artifact, AskedEpoch(p)),
                                        ![p].at = "write"]
          /\ UNCHANGED <<chain, keys, artifact, sealed, uploaded, lastBackup, poster, ghosts>>

WriteCipher(p) ==
    /\ watcher[p].at = "write"
    /\ sealed' = watcher[p].seal
    /\ Go(p, "upload")
    /\ UNCHANGED <<chain, keys, artifact, uploaded, lastBackup, nonces, poster, ghosts>>

UploadArchive(p) ==
    /\ watcher[p].at = "upload"
    /\ \/ GiveUp(p) /\ UNCHANGED files
       \/ /\ uploaded' = uploaded \cup {sealed}
          /\ watcher' = [watcher EXCEPT ![p].locator = sealed, ![p].at = "map"]
          /\ UNCHANGED <<chain, keys, artifact, sealed, lastBackup, nonces, poster, ghosts>>

(* Refused for an agent that is no member any more.  `answers' is a ghost. *)
UpdateMapping(p) ==
    LET w == watcher[p] IN
    /\ w.at = "map"
    /\ \/ /\ Member(Me)
          /\ Mine([type |-> "MemberFileMappingUpdated", epoch |-> AskedEpoch(p),
                   locator |-> w.locator, merkleRoot |-> w.seal, answers |-> Answering(p)])
          /\ Go(p, "record")
          /\ UNCHANGED <<registry, treasury, lastSeq, files, poster, ghosts>>
       \/ ~Member(Me) /\ GiveUp(p) /\ UNCHANGED files

RecordBackup(p) ==
    LET w == watcher[p] IN
    /\ w.at = "record"
    /\ lastBackup' = [by |-> "watch", manifest |-> w.seal, rootHash |-> w.locator]
    /\ Finish(p)
    /\ UNCHANGED <<chain, keys, artifact, sealed, uploaded, nonces, poster, ghosts>>

(* `backup push': an archive and a ciphertext of its own, the test key.    *)
PushBackup ==
    LET c == Seal(Height, Test) IN
    /\ Cardinality({u \in uploaded : u.key = Test}) < MaxPush
    /\ nonces' = nonces + 1
    /\ uploaded' = uploaded \cup {c}
    /\ lastBackup' = [by |-> "push", manifest |-> c, rootHash |-> c]
    /\ UNCHANGED <<chain, keys, artifact, sealed, watcher, poster, ghosts>>

(* `restore verify-latest' downloads what the record names and opens it    *)
(* with the test key.                                                      *)
VerifyLatest ==
    /\ lastBackup # None
    /\ lastBackup.rootHash \in uploaded
    /\ lastBackup.rootHash = lastBackup.manifest
    /\ lastBackup.rootHash.key = Test

-----------------------------------------------------------------------------
(* `msg post' and postMessageToSwarm                                       *)

Step(p, s) == poster' = [poster EXCEPT ![p] = s]
PostOnly == UNCHANGED <<chain, files, watcher, ghosts>>

(* A group message is sealed under the epoch read here, and uploaded.      *)
Compose(p) ==
    /\ poster[p].at = "idle" /\ lastSeq < MaxSeq
    /\ \/ Step(p, [Idle EXCEPT !.at = "epoch"])
       \/ epoch \in keys /\ Step(p, [Idle EXCEPT !.at = "epoch", !.mode = "group", !.key = epoch])
       \/ Member(Peer) /\ Step(p, [Idle EXCEPT !.at = "epoch", !.mode = "dm", !.key = Peer])
    /\ PostOnly

ReadPostEpoch(p) ==
    /\ poster[p].at = "epoch"
    /\ Step(p, [poster[p] EXCEPT !.epoch = epoch, !.at = "seq"])
    /\ PostOnly

ReadSeq(p) ==
    /\ poster[p].at = "seq"
    /\ Step(p, [poster[p] EXCEPT !.seq = lastSeq + 1, !.at = "post"])
    /\ PostOnly

(* The contract's postMessage; a refusal ends the command.                 *)
NotBefore(seq) == seq >= lastSeq    \* mutant: off by one
InSequence(seq) == seq > lastSeq

PostMessage(p) ==
    LET m == poster[p] IN
    /\ m.at = "post"
    /\ Step(p, Idle)
    /\ IF Member(Me) /\ m.epoch = epoch /\ InSequence(m.seq)
       THEN /\ lastSeq' = m.seq
            /\ Mine([type |-> "AgentMessagePosted", epoch |-> m.epoch, seq |-> m.seq,
                     mode |-> m.mode, key |-> m.key])
            /\ UNCHANGED <<registry, treasury>>
       ELSE UNCHANGED chain
    /\ UNCHANGED <<files, watcher, ghosts>>

StopPost(p) ==
    /\ poster[p].at # "idle"
    /\ crashes < MaxCrash /\ crashes' = crashes + 1
    /\ Step(p, Idle)
    /\ UNCHANGED <<chain, files, watcher, printed, failed>>

-----------------------------------------------------------------------------
Others ==
    \/ \E a \in {Me, Peer} : Join(a) \/ RemoveMember(a)
    \/ \E e \in Epoch : RotateEpoch(e)
    \/ RequestBackup
    \/ \E t \in Treasury \cup {None} : SetTreasury(t)
    \/ ApproveFundRequest

Watch(p) ==
    \/ Poll(p) \/ Handle(p) \/ BatchDone(p)
    \/ BeginAnswer(p) \/ RunCommand(p) \/ EncryptArchive(p) \/ WriteCipher(p)
    \/ UploadArchive(p) \/ UpdateMapping(p) \/ RecordBackup(p)

Post(p) == Compose(p) \/ ReadPostEpoch(p) \/ ReadSeq(p) \/ PostMessage(p)

Next ==
    \/ Others \/ ImportKey \/ PushBackup
    \/ \E p \in Process :
        \/ p \in Watcher /\ (StartWatch(p, DefaultStart) \/ StartWatch(p, 0))
        \/ Watch(p) \/ StopWatch(p) \/ Post(p) \/ StopPost(p)

Spec == Init /\ [][Next]_vars

(* A running command continues; nobody has to start one.                   *)
FairSpec == Spec /\ \A p \in Watcher : WF_vars(Watch(p))

-----------------------------------------------------------------------------
(* Properties *)

(* What a watcher printed since it started is every block from its first   *)
(* cursor up to the last one it scanned, in chain order, nothing twice and *)
(* nothing left out, whatever was mined while it answered requests         *)
(* (swarm-contract.ts, the cursor of watchSwarmEvents).                    *)
ScannedTo(w) == IF w.at \in {"poll", "treasury"} THEN w.cursor - 1 ELSE w.latest

WatchedInOrder ==
    \A p \in Watcher : watcher[p].at # "down" =>
        LET w == watcher[p] IN
        /\ ScannedTo(w) <= Height
        /\ [i \in DOMAIN printed[p] |-> printed[p][i].block] = Span(w.start, ScannedTo(w))

(* A file mapping on chain can be restored from: its locator is the        *)
(* ciphertext that its merkle root describes, it is in storage, and the    *)
(* key file of the epoch that the mapping names opens it                   *)
(* (backup-respond.ts, one response at a time on a machine).               *)
ArchivesOpen ==
    \A b \in MappingBlocks :
        LET m == log[b] IN
        /\ m.locator = m.merkleRoot /\ m.locator \in uploaded
        /\ m.locator.key = m.epoch /\ m.epoch \in keys

(* A request is answered with an archive made after it was asked for: an   *)
(* archive that an earlier response left behind is never published again,  *)
(* though the path is the same and the command may end without writing     *)
(* (backup-respond.ts, one response at a time on a machine).               *)
FreshArchive == \A b \in MappingBlocks : log[b].locator.made >= log[b].answers

(* The sequence numbers of a sender on chain are 1, 2, 3, ... in order,    *)
(* though every post reads the last number before it is sent and two may   *)
(* run at once (postMessageToSwarm; _lastSenderSeq of the contract).       *)
SequencesDense ==
    \A b \in MessageBlocks : log[b].seq = Cardinality({c \in MessageBlocks : c <= b})

(* Every request from a running watcher's first cursor on is in the end    *)
(* answered on chain or reported as failed, unless the watcher is stopped. *)
Served(b) == b \in failed \/ \E c \in MappingBlocks : log[c].answers = b

RequestsServed ==
    \A p \in Watcher :
        []<>(\/ watcher[p].at = "down"
            \/ \A b \in BackupBlocks : b >= watcher[p].start => Served(b))

(* docs/architecture.md:196: "`epoch` must equal `currentEpoch` at time of *)
(* posting - no cross-epoch message ambiguity" and :199 "Payloads are      *)
(* encrypted with current `K_epoch`".  msg post reads the epoch twice.     *)
NoCrossEpochMessage ==
    \A b \in MessageBlocks : log[b].mode = "group" => log[b].key = log[b].epoch

(* swarm-contract.ts:445: the pair FundRequestApproved, FundsReleased      *)
(* "need to render in the correct sequence".  The treasury asked is the    *)
(* one bound when the batch is read.                                       *)
PayoutsWhole == \A p \in Watcher : \A i \in DOMAIN printed[p] : printed[p][i].whole

(* apps/cli/src/commands/backup.ts:10: the archive is "encrypt[ed] with    *)
(* current K_epoch", and restore verify-latest reads the last record.      *)
LatestVerifies == lastBackup # None => VerifyLatest
=============================================================================
