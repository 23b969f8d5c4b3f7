# A TLA+ development of SoulVault

SoulVault keeps the memory of a swarm of agents recoverable and confidential.
An owner admits agents to a swarm contract, rotates an encryption key whenever
the roster changes, escrows keys against the loss of a machine, pays agents
from a treasury contract, and publishes redacted documents whose slots it
discloses one recipient at a time. This directory models the parts of that
system that keep state and meet each other: the contracts, the command-line
operations that run against them over several awaits, the machine of one agent,
the dashboard's event feed and what its pages make of it, the document flow,
and the names under which organizations and swarms are published.

Paths below are relative to `src/`. `PROJECT.json` maps every definition to the
lines it translates.

## 1. Inventory

| Component | State | Operations | Interacts with | What is hard |
|---|---|---|---|---|
| Swarm contract (`contracts/SoulVaultSwarm.sol`) | roster, join and fund requests, epoch, roster version, treasury, sequence numbers, owner nonce, pause | request / approve / reject / cancel join, remove, rotate epoch, fund requests, publish, post, pause, each owner decision also by signature | treasury (call in, call out), every client through calls and logs | decisions that race, signatures submitted late or twice, counters that must not drift, optimistic lock on the version |
| Treasury contract (`contracts/SoulVaultTreasury.sol`) | balance, owner nonce, re-entrancy lock | deposit, approve, reject, withdraw, each also by signature | marks the request in the swarm, then calls the recipient | a recipient that calls back, rebinds the swarm, or reverts |
| Epoch rotation (`packages/node/src/epoch-bundle.ts`, `epoch-key-store.ts`, `listSwarmMembers` of `swarm-contract.ts`) | key files per machine, the running command, uploaded bundles | epoch rotate, decrypt bundle | swarm contract by RPC, 0G storage | roster changes between awaits, kills, retries, two pending transactions |
| Recovery escrows (`recovery-escrow.ts`, `ring-backend.ts`) | ring file (seed, generation), header and body file per escrow | escrow, restore, sweep after a removal | the state directory, without locks | kills between files, a ring shared by agents, overlapping commands |
| Event feed (`apps/web/src/context/SoulVaultEventsProvider.tsx`, `lib/onchain/*`) | sources, events, status, live pollers with cursors, IndexedDB store | refresh, add source, replace organisation, start/stop live, scan, tick, hydrate | lagging RPC backends, hooks of every page | joined and superseded scans, cursors over reorganised block ranges, purge against late results |
| Documents (`contracts/SoulVaultDocumentRegistry.sol`, redact / grants / rehydrate pages, `document-rehydration.ts`) | publisher of record, event log, rehydration keys per wallet, sessions and archived runs per author | redact, publish, request, grant, rehydrate | the registry's log is the only channel between author and recipient | lost and replaced keys, two tabs, repeated and partial deliveries, re-encrypted texts |
| Watch loop, posting (`swarm-contract.ts`, `message.ts`) | a block cursor in memory, what was printed | watch, post, listing of events | swarm and treasury contracts, 0G storage | read-then-send races, replayed or skipped events, a treasury bound anew |
| Backup, restore (`backup-respond.ts`, `backup.ts`, `restore.ts`, `storage.ts`) | archive and ciphertext at one path, last backup record | respond, push, map on chain, restore | watch loop, 0G, key store | one step of several failing, leftovers of the response before |
| Profiles and ENS visibility (`swarm.ts`, `swarm-deploy.ts`, `ens.ts`, `create-flows.ts`, `ens-writes.ts`; `treasury.ts`, `organization.ts`, `ensv2*.ts`) | JSON profiles and archive, records of a name, the organization's list of labels, role grants | create, unpublish, delist, remove, list-sync, set-lane, the swarm wizard; grant, renew | ENS contracts, swarm contract | file, chain and ENS updated one after the other, two writers of one list, reads that fail |
| Registration of an organization (`ens-register.ts`, `ens-register-v2.ts`, `ens-edit.ts`, `wallet-tx.ts`) | nothing between two runs: the chain is asked | commit, wait, reveal; deploy registry and resolver, register, attach, write; repair | wallet, mempool, ENS contracts | refusals, time-outs with a transaction pending, reloads, clocks that differ |
| Page views (`lib/onchain/reducers.ts`, `scan-start.ts`, swarm and treasury pages, `treasury-contract.ts`) | none: a view is computed from the feed | reduce the log; approve, reject, cancel a row | feed, wallet, swarm and treasury contracts | folds over a stretch of the log, contracts read up to different blocks, rows that are old when the click is mined, numbers that repeat across swarms |
| Identity adapter, registry discovery, status, configuration, UI, Presidio worker, Speculos driver | small or none | - | - | pure I/O or display |

The last row is not modelled; of the ENS rows, role grants, renewal and the
treasury and organization profiles are not. Section 8 says what follows. What
makes each modelled component correct is listed under its name in section 4.

## 2. Modules and how they compose

```
SwarmRegistry          roster, version, epoch, rotations: what clients rely on
  ^ implemented by        ^ extended by
SoulVaultSwarm         EpochRotation        (commands over the registry)
FundFlow               swarms x treasuries x recipients with re-entrancy
RecoveryEscrow         files, ring and commands of one state directory
EventFeed              provider, watcher, store, RPC
DocumentGrants         registry log, authors, web and CLI recipients
AgentWatch             extends SwarmRegistry: watcher, backups, messages, storage
SwarmNames             names, lists, profile files, commands and wizard runs
OrgRegistration        ENS contracts, mempool, wizard runs of both lanes
DashboardViews         contracts that emit, reducers, the rows and buttons of two pages
```

`X_proofs` extends `X` with its theorems, for `EpochRotation`, `EventFeed`,
`DocumentGrants`, `AgentWatch`, `SwarmNames` and `DashboardViews`.
`Swarm_proofs` has those of `SoulVaultSwarm` and of `RecoveryEscrow`, and
`Organization_proofs` those of `FundFlow` and of `OrgRegistration`, whose
definitions are named apart (`EscrowInit`, `OrgSpec`) so that one module can
extend both. Section 7 is about them.

`MC*` modules hold what only model checking needs: foci, constraints and
symmetries. Where a run explores several parts of one component, a variable
`focus`, drawn at the start and then constant, selects the calls taken and the
lengths reached. It replaces one run per part: the state space is the union.
The constraint `Typed` asserts the type invariant of the module in every state
a run reaches; for the modules with proofs it is a theorem besides.

### SoulVaultSwarm, SwarmRegistry

Every external function is one action; its guard is the conjunction of the
function's `require`s and modifiers, the first parameter is `msg.sender`, and a
call that would revert is no step. A `...WithSig` function takes a signature
out of `signed`, which stands for everything the owner has ever signed and
somebody still holds; nothing removes a signature from it, so a submission may
come late, come twice or never. What a signature covers is the intent, and what
it does not cover the submitter chooses: of a rotation the two epochs and the
content hash are signed, while the bundle's reference and the expected version
are arguments of `RotateEpochWithSig` (`SoulVaultSwarm.sol:513-536`). Clients
download by the reference and never compare what they got with the hash
(`epoch-bundle.ts:147-150`, `:164-212`), so the comment that the signature binds
"the opaque bundle content" (`:525`) is true of the hash and of no more.
`events` keeps only the log entries whose
content no storage slot repeats. Free text and display timestamps are left out.
`membershipVersion` and `memberCount` are unbounded naturals in the model; the
type theorem shows that `memberCount` is not decremented below zero.

`SwarmRegistry` is the abstract promise: a roster, a version that counts its
changes, an epoch that only grows, rotations bound to the version they were
accepted for. `SoulVaultSwarm!Registry` instantiates it with a refinement
mapping (roster from the active members, rotations from the logged events) and
`RefinesRegistry` states that the contract implements it. `EpochRotation` then
runs on the registry, without requests, signatures and pauses in its way.

### FundFlow

The payout crosses two contracts and hands control to its recipient before the
call ends. `stack` holds the treasury calls in progress, each with the world to
return to if it reverts; only the top's recipient may act until it returns or
reverts. `world` is what a revert rolls back, ghosts included. Any account may
be a contract. All treasuries a swarm may be bound to are `SoulVaultTreasury`
contracts: the swarm believes the account it calls treasury
(`SoulVaultSwarm.sol:269`), so a foreign account bound by the owner could mark
a request approved without paying, and the accounting would mean nothing.

### EpochRotation

One action per await of `generateEpochBundleJson` and `rotateEpochWithBundle`:
the two log queries, each `getMember` of the `Promise.all` in any order, epoch,
version, key file, upload, submission. Approvals and removals happen between
any two of them. `Abort` kills the command and leaves key file and sent
transaction behind; `UploadUnnamed` is an upload that returns no root hash. A
submission whose gas estimation fails is not sent; one that was sent may revert
when mined. The command may be run at any time; `RekeyDue`, that the roster is
not keyed, is no guard of it and only says when fairness obliges the owner to.
Members decrypt the bundle of the latest rotation.

### RecoveryEscrow

A command reads the ring once and works from memory; it may be killed between
any two file operations. `torn` names the escrows between their two writes.
Bodies are their plaintext together with the key that opens them; a key is the
seed, the place of the file and the ring generation. The sweep's order is the
code's: read every escrow, rotate, rewrite. Writes of single files are atomic,
which `fs.writeFile` does not promise over power loss.

### EventFeed

Code between two awaits is one action and what a promise wakes runs before
anything else (`Woken`). Every contract emits one event per block, so an event
is a pair of source and block. An RPC backend may be behind by `Lag` blocks,
differently at each request. Calls of `runScan` are identified by `scanSeq`;
several may wait for one scan. A bound on the number of scans leaves room for
the refreshes already owed, so that a bound never looks like a lost wakeup. Two
hooks of one page that ask for live events (`dashboard/swarm/page.tsx:47` and
`:108`) give two pollers, as do two clicks: `StartLive` tests `stopRef` and
nothing else, as `SoulVaultEventsProvider.tsx:235` does. The deletion of a
deselected organization's events is asynchronous and may fail: `purging` holds
those that are outstanding, `DeletePersisted` carries one out, late or never. A
write of events to the store is one step that does not fail; the errors of
`persistEvents` that the provider swallows are left out.

### DocumentGrants

One document: its id depends on the text only, so every author that redacts
the same text meets in the same registry entry. Slot keys are named by the
redact run that made them, wrapped keys by the rehydration key that opens
them. `load` holds the promises of `loadOrCreateRehydrationKey`: reading the
store and writing it are separate steps, shared within one page and not
between tabs. A grant job delivers in one batch (web) or slot by slot (CLI),
and may be signed again, given up or cut off between two slots. Publishing
needs the session of a local redact run, as on the page.

### AgentWatch

The machine of one agent against `SwarmRegistry`, to which it adds a log with
one transaction per block, the bound treasury and the sender's sequence number.
`watchSwarmEvents` is poll, treasury logs, batch, answers in turn, next cursor;
every await is a step and nothing about the cursor survives `StopWatch`.
`respondToBackupRequest` removes the old archive, runs the backup command
(which may end without writing, or fail after it wrote), reads and seals the
archive, writes the ciphertext beside it, uploads, maps on chain and writes the
record. Reading and writing are two steps, so the ciphertexts of two watchers
may overwrite each other; that the file system refuses the ciphertext is left
out, as it ends the response like any other error. A watcher that is stopped
takes its backup command with it. A ciphertext is its plaintext's age, its key
and its nonce, and storage is content-addressed, so a root hash is the
ciphertext. `backup push` uses the fixed test key, as the code does. `msg post`
reads the epoch for the envelope, uploads, and `postMessageToSwarm` reads epoch
and sequence number again.

### SwarmNames

A run is the sequence of steps its command has left (`CreateProgram`,
`UnbindSteps`, ...), taken from the order in the code; each chain write, list
read, list write and file operation is a step. `Fail` throws at the current
step or kills the process, and `Caught` says which errors the command catches
and goes on after. `name[l]` has the records of a subdomain, `listed` the
organization's list. `ReadList` and `WriteList` are apart, so two writers can
lose an update: the ghost `clobbered` tells when, since `ens.ts:506` accepts it.
The CLI binds in ENSv1 only; the wizard writes in both lanes, and its failed
reads count as missing values (`misreads`). `CreateFor` is `swarm create
--contract`: nothing is deployed, and the profile and the name are for a swarm
that exists, whether or not another profile or name is for it. An address at
which there is no swarm, which the command does not check, is left out. A
command is started on a swarm only while none runs on it.

### OrgRegistration

Seven transactions at most, over a mempool. What a run has left to do is a set
of steps, reads and transactions, and it takes the one that comes first in
`Order`, which is the order of the code; a read may strike off later ones. A
transaction is estimated against the last block (`Prepare`) and sent when the
wallet agrees (`Submit`), which may be blocks later (`wallet-tx.ts:396-397`);
it waits behind those sent before, and is mined even when its run has ended
(`Orphaned`). What ENS accepts is `Can`, what it changes is `Applied`, external
both. Two clocks, the browser's and the last block's, matter to the age of a
commitment and to the end of a registration. `Missed` is a read whose error the
code takes for "there is nothing"; a failed read of `nameWrapper()` is one
(`ens-register.ts:339-347`): the run then skips the unwrapping, and `misled`
remembers it. Of the two reads of the resolver's slot either may fail, or both.
`clean` is a ghost: whether anything that is not the run's own doing came in
its way since it began. A run remembers nothing when it ends.

### DashboardViews

Three things meet: the storage of swarms and treasury, the log their calls
emit, and `ReduceSwarmState`, the fold of `reducers.ts`, written as a recursive
function over the places of the log that were read. The storage is that of
`SoulVaultSwarm` cut down to what the two pages show, with every event that the
fold reads. A page holds no state worth a variable: what it shows is the fold
of a recent stretch of the log (`Feed`), whose start is any block, since a scan
that cannot find the deployment starts in the middle (`scan-start.ts:103`), and
whose end may lag by a block per contract (`behind`), since each contract is
read by a request of its own. The invariants speak of all stretches at once.
`Click` takes a row that is shown now; `ClickMined` executes what the wallet
was given, with whatever has happened in between. A page that is open for long
needs no variable: the lapse between `Click` and `ClickMined` is as good as an
old row. The swarm page shows `ScopedState`, the fold of one swarm's events, and
falls back to `GlobalState`, that of all events, when no swarm is selected
(`swarm/page.tsx:161`). Rows that a page still shows of an organization that is
no longer selected are not modelled.

## 3. Runs

| Run | Question | Bounds and why they suffice |
|---|---|---|
| `swarm_members` | Do counters, roster, version, epochs and messages stay in step; is the registry implemented? | three accounts and three requests: a member that leaves and returns with another key while a second one joins; two epochs ahead so that one can be skipped; two sequence numbers. The counterexamples of the altered contracts need at most two requests |
| `swarm_signed` | Does a signature act once and as read; is a request decided once; what moves while paused? | two outstanding signatures of any kind over two nonces and two instants, two requests; and, with one of each thing, every call of the contract |
| `fund_flow` | Do money, status, locks and nonces agree at every point of nested calls? | two treasuries of one swarm with two requests, so one payout nests in another; two swarms with equally numbered requests under one treasury, two signatures |
| `epoch_rotation` | Does what is mined match what was uploaded, do key files agree with bundles, are entries confined to the window; does the current roster end up keyed? | two members, three changes, one kill or failed upload. "window": two keys per member, an epoch given by hand, two bundles, so a retry meets the leftovers of the first attempt; a command run on a keyed roster makes the second bundle at most. "rekey": a command only while the roster is not keyed, one key, and bounds on epochs and uploads so high that they are not met |
| `recovery_escrow` | Can every whole escrow be restored, is what was sealed before a rotation dead, does every sweep end? | two escrows of one agent, two archives, two removals, two crashes or lost headers: a second sweep finds the remains of the first |
| `event_feed` | Do overlapping scans and organization changes leave the right events, and settle; is everything the cursor has passed delivered? | two organizations, lag one, two blocks, a store of two events. "scans": four scans, one request refused or one deletion outstanding. "live": over one scan three, over two scans two, of pollers, refused requests and reloads |
| `docs_flow` | Who may grant, whom does a key reach, what can still be opened? | two authors; a web and a CLI recipient; up to three keys, five log entries, five redact runs over an archive of two; four foci, each taking one part further |
| `agent_watch` | Is every block told once and in order, every request answered or reported, every published archive fresh and openable; do sequence numbers have holes? | four blocks of other parties, a look-back of two, epochs up to two, one crash; "backup", "message" (two commands at once, two changes of the swarm in between) and "payout" (two treasuries) |
| `swarm_names` | Does what was published stay, does the wizard adopt, is what unpublish and delist say they retracted retracted? | "one": one session and one swarm label, two failures anywhere, four commands; "two": two sessions on two labels, three commands; "misread": one failed read of a wizard. Three contracts, two labels, with and without a treasury |
| `org_registration` | Does the chain refuse anything that a repeated run asks for; is a run that ends without an error complete? | "one": three runs, two faults and a failed read; "two": two tabs at once. An age of one, a term of three and five instants: a commitment matures, a registration ends, and the browser may be two ahead |
| `dashboard_views` | Is what the pages show so; does a click decide what it was made on? | "roster": one swarm, two accounts, three requests, so that a member leaves, returns and a second request overlaps, on the page of the swarm and on the fallback; "funds": two swarms under one treasury, one of them published, two requests with equal numbers, a rebinding. Twelve events; only a kick and an escrow publication share a block, since nothing else compares blocks |
| `epoch_stale_roster` | a comment that the code does not keep | the smallest instance that shows it; section 6 |

Deadlock is not checked: every component may rest when its bounds are used up
or when nobody calls it. Every property is checked against an altered
definition that must violate it (`mutants` in `PROJECT.json`): the altered
forms sit beside the originals and are marked as such.

## 4. Properties

`TypeOK` of each module is its type invariant, asserted in the runs by `Typed`
and stated as a property of none. The properties:

- swarm: `RosterLedger` (members and version are admissions minus and plus
  removals), `VersionNamesRoster` (a version names one
  roster for ever, the optimistic lock's ground), `RequestsDecidedOnce`,
  `MessagesFollowEpochs`, `PauseFreezes`, `OneIntentPerNonce`,
  `SignedIntentsBind` (what is signed is what happens; the reference and the
  expected version of a rotation are not signed), `RefinesRegistry`.
- payouts: `Accounted` (treasury balances are what was put in less what was
  withdrawn and what the swarms call approved), `OneIntentPerNonce`,
  `SignedTermsKept`, `DecidedForEver`.
- rotation: `RotationMatchesBundle`, `KeyStoreAgrees`, `EntriesFromWindow`,
  `RekeyFocusCatchesUp` (`RekeyCatchesUp` of the focus "rekey").
- escrows: `HeaderOpensBody`, `SweptRestores`, `RotationKills`,
  `SweepCompletes`.
- feed: `ReadyShowsSources`, `StoreFollowsSources`,
  `UnrefusedCursorCovers`, `ScansSettle`.
- documents: `RequestKeyKept`, `WebRecovers`, `RunKeysKept`.
- agent: `WatchedInOrder`, `ArchivesOpen`, `FreshArchive`, `SequencesDense`
  (two posts that read the same number cannot both be mined, and neither leaves
  a hole), `RequestsServed`.
- names: `PublishedStays`, `WizardAdopts`, `RetractionHonest` (when unpublish or
  delist makes a profile more private, the name has stopped resolving or the
  label is off the list; `swarm-unpublish.test.ts`: "a profile must never claim
  to be more private than it actually is"). Of every command the sentence is
  `ProfileHonest`, which `create --private --contract` breaks (`NamesAdopt`).
- registration: `ResumesCleanly` (`ens-register-v2.ts:458`, "Idempotent
  re-run"), `FinishedComplete`.
- pages: `SwarmPageTrue` (members, epochs, pending requests and the banner of
  kicks against the contract), `RowsTrue` (a row has the terms of a real
  request and is called decided only when one of its number is),
  `PaidAsShown` (a button decides the request whose terms its row showed).

Some of them hold only under a condition that the run or the definition makes
explicit. `HeaderOpensBody` and `RotationKills` hold for one command at a time,
`SweptRestores` for one agent besides. `KeyStoreAgrees` holds for one operator
machine, `ArchivesOpen` and `FreshArchive` for one watcher: of two that share
the archive's path, the slower may write the ciphertext of an old archive over
that of a fresh one, which the other then uploads. `RequestKeyKept` holds for
one client of a wallet, and `ReadyShowsSources` if every organization has a
contract. `WatchedInOrder` is about the blocks that one process was told of:
nothing remembers across a restart what was printed, and requests are then
answered again; `RequestsServed` is what the restart is held to.
`StoreFollowsSources` holds without live polling, and leaves out what a
deletion that is outstanding, or failed, has yet to take.
`UnrefusedCursorCovers` says of the live cursor what holds until a backend
refuses a range. `PublishedStays` and `RetractionHonest` promise nothing once a
list was written over another writer's change, and `PublishedStays` and
`WizardAdopts` nothing after a read whose error was taken for an empty value.
`ResumesCleanly` excuses a run that another one's transaction interfered with,
a chain more than the second's margin behind the browser, and a name left
wrapped; without the last it fails (`RegistrationWrapped`). `FinishedComplete`
lets a run of the first flow end with the name still wrapped if its read of
`nameWrapper()` failed, an error that the code catches and takes for "not
wrapped". `SwarmPageTrue` excuses the requests and keys of an account that
asked again while it had a request pending; of the fallback it speaks when one
swarm is published, since with several the events of all are mixed, as the
comment at `swarm/page.tsx:148-152` says. `PaidAsShown` is about organizations
that publish one swarm.

## 5. Fairness

- `EpochRotation!FairSpec`: a running command continues, a sent transaction is
  mined, and the owner runs the command again as long as the roster is not
  keyed (`RekeyDue`; it may be run at other times too, which nobody is obliged
  to) (docs/architecture.md: "Owner retries with updated membership snapshot").
  Joins, removals and faults are bounded and not fair. The run has no explicit
  epochs: an operator that repeats `--new-epoch` with an epoch that is over is
  refused for ever, and rightly.
- `RecoveryEscrow!FairSpec`: weak fairness of a running command, strong
  fairness of starting a sweep that is owed, since an escrow command may come
  first any number of times. Who runs the CLI decides that, not the code; it is
  the weakest assumption under which "every sweep ends" says something of the
  sweep.
- `AgentWatch!FairSpec`: a watcher that runs goes on; nobody has to start one,
  ask for a backup or mine. `RequestsServed` therefore excuses a watcher that
  was stopped.
- `EventFeed!FairSpec`: an RPC request is answered or refused (the client has
  timeouts) and timers fire. Nobody is obliged to refresh, switch or mine.

`SwarmNames` and `OrgRegistration` state safety only: every step waits for a
user who signs, so nothing in the code obliges a run to end.

## 6. Statements of the documentation that the code does not keep

One is a run with the expectation of a violation:

- `epoch_stale_roster` / `BundleCoversVersion`: the roster is read before the
  version that is to guard it (`epoch-bundle.ts:50-52`).

Further counterexamples can be reproduced with the configurations kept beside
the modules, `tlc -config X.cfg M.tla`; a star says that the property of the row
takes the place of the one the file names (under `PROPERTY` if it is about
steps: `ScansAppend`, `PrunesOldest`, `ArchiveKeeps`, `CliKeepsReading`):

| Configuration, module | Statement | What happens |
|---|---|---|
| `SwarmPauseClaim`, MCSoulVaultSwarm | `PauseGuardsEveryFlow` (contracts/SWARM_CONTRACT_SPEC.md:182) | `setTreasury` works on a paused swarm |
| `EpochRejoin`, MCEpochRotation | `EntryPerActiveMember` (`epoch-bundle.ts:81`) | a member removed once gets no entry after it is admitted again (`swarm-contract.ts:182`) |
| `EpochOwnerEntry`, MCEpochRotation | `OwnerEscrowEntry` (skills/soulvault/references/commands.md:572) | bundles have entries of active members only |
| `EpochKeyReuse`, MCEpochRotation | `NewKeyPerRoster` (docs/architecture.md:87) | the key file of a failed rotation is used for the next roster |
| `EscrowTwo` *, RecoveryEscrow | `SweptRestores` (docs/epoch-key-ring-spec.md:116) | the sweep of a second agent rotates the ring the first was sealed under |
| `EscrowTwo`, RecoveryEscrow | `RotationKills` (`ring-backend.ts:94`) | two overlapping sweeps write the same generation |
| `FeedFree`, MCEventFeed | `StoreExact` (`event-store.ts:220`) | a tick in progress when the organisation changes puts events of the old one back into the store |
| `FeedFree` *, MCEventFeed | `NothingPolls` (docs/dashboard-ui/002-placeholders.md:48) | a poller stopped while it starts goes on |
| `FeedFree` *, MCEventFeed | `OrgSliceExact` (`org-event-sources-bridge.tsx:14`) | a joined scan of the previous organisation is shown |
| `FeedEmptyOrg`, MCEventFeed | `ReadyShowsSources` (`org-event-sources-bridge.tsx:36`) | a change to an organization without contracts lets a refresh accept a joined scan of as many contracts of the one before (`SoulVaultEventsProvider.tsx:208`) |
| `FeedFree` *, MCEventFeed | `ScansAppend` (`SoulVaultEventsProvider.tsx:150`) | a scan's result replaces what live polling delivered |
| `FeedFree` *, MCEventFeed | `PrunesOldest` (`event-store.ts:134`) | the store drops by contract address first |
| `DocsTwoTabs`, MCDocumentGrants | `RequestKeyKept` (`rehydrate/page.tsx:123`) | two tabs make two keys, the request binds the one overwritten |
| `FeedFree` *, MCEventFeed | `CursorCovers` (`watcher.ts:261`) | after a backend lagged, the cursor skips the block that was to be asked for again (`watcher.ts:264-267`) |
| `DocsCli`, MCDocumentGrants | `CliRecovers` | after a rehydration key was replaced, the grants to the old key make the CLI refuse the document |
| `AgentMessages`, MCAgentWatch | `NoCrossEpochMessage` (docs/architecture.md:196, :199) | a rotation between sealing and posting puts a message under an epoch whose key does not open it |
| `WatchRebind`, MCAgentWatch | `PayoutsWhole` (`swarm-contract.ts:445`) | the treasury asked for its logs is the one bound now, not the one that paid |
| `BackupVerify`, MCAgentWatch | `LatestVerifies` (`commands/backup.ts:10`) | the record of a response names an archive under the epoch's key, `restore verify-latest` opens with the test key |
| `NamesList`, MCSwarmNames | `OnlyOwnLabel` (`ens-writes.ts:473`) | a failed look-up of an organization's resolver reads as an empty list, and the list written back has one label (`ens-writes.ts:479`) |
| `ViewsTwoSwarms`, MCDashboardViews | `PaidAsShown` ("The swarm bound to this treasury", `treasury/page.tsx:134`) | rows of every watched swarm share one table, keyed by number, and every decision goes to the first published swarm: the owner approves another swarm's request of that number |
| `ViewsOverlap`, MCDashboardViews | `PendingAwaits` | an approval strikes off the first request of the account whatever its id (`reducers.ts:255`): of two requests the approved one stays on the page, with the key of the other one on the member |
| `NamesAdopt`, MCSwarmNames | `ProfileHonest` (`swarm-unpublish.test.ts`, of every command) | `create --private --contract` of the swarm that the label already publishes makes the profile private and takes nothing back (`swarm.ts:294-300`); as the new profile has no name, a later `unpublish` takes nothing back either |
| `NamesList` *, MCSwarmNames | `SemiPrivateUnlisted` (`swarm.ts:23`) | a swarm created again as semi-private stays on the list |
| `NamesList` *, MCSwarmNames | `ArchiveKeeps` (`swarm.ts:385`) | the archive of a slug is overwritten by the next swarm of that name |
| `RegistrationWrapped`, MCOrgRegistration | `ResumesWrapped` | a run that ends between register and unwrap leaves a name owned by the wrapper, which every later run takes for somebody else's (`ens-register.ts:428`) |
| `DocsCli` *, MCDocumentGrants | `CliKeepsReading` (`packages/protocol/src/rehydration.ts:11`) | a slot delivered twice makes the CLI refuse the document |

## 7. Proofs

Each theorem holds for every value of the constants that the named assumptions
of the module it is about admit: any number of accounts, swarms, operators,
labels, blocks. Where TLC draws a bound, the theorem has the bound as a constant
natural. Nine theorems have a hypothesis beyond the assumptions, stated in the
theorem. Each is needed: TLC finds a counterexample without it, for
`SweptRestores`, `ReadyShowsSources`, `RequestKeyKept` and `PaidAsShown` with a
configuration of section 6, for the others with a second
operator (`EpochRotation.cfg`), watcher (`AgentWatch.cfg`) or command
(`RecoveryEscrow.cfg`).

| Module | Theorems | Hypothesis |
|---|---|---|
| `Swarm_proofs`, the contract | `TypeCorrect`; `RosterLedgerHolds`, `AdmittedAsRequestedHolds`, `VersionNamesRosterHolds`, `OneIntentPerNonceHolds`, `SignedIntentsBindHolds`, `RequestsDecidedOnceHolds`, `MessagesFollowEpochsHolds`, `PauseFreezesHolds`; the refinement `SwarmImplementsRegistry` | none |
| `Organization_proofs`, the treasury | `FlowTypeCorrect`, `OneIntentPerNonceHolds`, `SignedTermsKeptHolds`, `DecidedForEverHolds`, `AccountedHolds` | none |
| `EpochRotation_proofs` | `RotationTypeCorrect`, `RotationMatchesBundleHolds`, `EntriesFromWindowHolds` | none |
| | `KeyStoreAgreesHolds` | one operator machine |
| `Swarm_proofs`, the escrows | `EscrowTypeCorrect` | none |
| | `HeaderOpensBodyHolds`, `RotationKillsHolds` | one command at a time |
| | `SweptRestoresHolds` | one command at a time, one agent |
| `EventFeed_proofs` | `FeedTypeCorrect`, `StoreFollowsSourcesHolds`, `UnrefusedCursorCoversHolds` | none |
| | `ReadyShowsSourcesHolds` | every organization has a contract |
| `DocumentGrants_proofs` | `DocumentTypeCorrect`, `RunKeysKeptHolds`, `WebRecoversHolds` | none |
| | `RequestKeyKeptHolds` | one client per wallet |
| `AgentWatch_proofs` | `WatchTypeCorrect`, `WatchedInOrderHolds`, `SequencesDenseHolds` | none |
| | `FreshArchiveHolds`, `ArchivesOpenHolds` | one watcher on the machine |
| `SwarmNames_proofs` | `NamesTypeCorrect`, `WizardAdoptsHolds`, `PublishedStaysHolds`, `RetractionHonestHolds` | none |
| `Organization_proofs`, the name | `RegistrationTyped`, `RunsResumeCleanly`, `FinishedRunsComplete` | none |
| `DashboardViews_proofs` | `ViewsTyped`, `RowsAlwaysTrue`, `SwarmPagesAlwaysTrue` | none |
| | `ButtonsDecideWhatTheyShow` | one published swarm |

No invariant among them is inductive as the runs state it. What each proof
carries along, and why:

- **Swarm contract.** `memberCount' \in Nat` needs that a member who is removed
  was counted, which is `RosterLedger`, which needs the types. `LedgerInv` is
  their conjunction with what the ledger needs besides: ids that have not been
  given out are still pending and belong to nobody, so an approval is always
  the first. `MembershipStep` reduces the thirty-odd actions to the five that
  touch the roster. `NonceInv` says of `landed` that nonces below the current
  one were consumed once each and none above it. `LogInv` holds what
  `MessagesFollowEpochs` needs of the log: no message of a later epoch than the
  current one, and `lastSenderSeq` the greatest number logged, kept across a
  removal. The refinement goes action by action: an approval is `Admit`, a
  removal `Expel`, a rotation `Rotate`, direct or signed, the rest stutters.
- **Payouts.** Every statement about `world` is made of each world on the stack
  too, since a revert brings one back. `FlowInv` adds `Keeps(u, v)`, a preorder
  between an earlier world and a later one: requests are only added and
  decided, nonces only grow. It holds from each frame to all above it, so that
  popping a frame needs no history. `BooksInv` is the accounting equation in all
  those worlds; its sums are cardinalities of sets of counted units, so that one
  summand's change is a lemma on cardinalities (`TotalChanges`) and no induction
  over swarms or treasuries is needed.
- **Rotation.** `RotationInv`: what is in flight (the session after its upload,
  the mempool, the chain) names an uploaded bundle that says the same epoch and
  version. `KeyInv`: bundles and the files on other machines have the key of
  the operator's file. `WindowInv`: the history of rosters explains both logs
  (`HistoryInv`), and what a command has read so far is right about the window
  from its first query to now, or to its version once it has read one
  (`ReadInv`).
- **Escrows.** `RingInv` ties a command's memory to the ring file, `SealedInv`
  the stamps of bodies to the one seed, `PairInv` the two files of an escrow
  outside `torn`. `SweptInv` follows a sweep from file to file: what stands and
  is not yet rewritten is still to be read, or carried in memory. A kill drops
  the memory, and the sweep is then owed.
- **Feed.** `FlightInv`: the scan in flight is the newest begun and everyone who
  waits waits for it. `NewestInv`: the last call's scan took the present
  sources. `CursorInv`: per poller, block and contract, everything below the
  cursor was handed over, as long as nothing was refused. For
  `ReadyShowsSources`, `SharedInv` says that a scan in flight which includes a
  dropped contract has a waiter that will refresh again. It rests on comparing
  counts (`count < sourcesRef.current.length`,
  `SoulVaultEventsProvider.tsx:208`), and the hypothesis came out of the
  attempt to prove it: `FeedEmptyOrg` is the counterexample without it.
- **Documents.** `RunKeysKept` follows from counting: the archive holds the
  latest runs of its author in order, so a missing one has `RunCap` later ones
  in the archive and one in the session. `KeyInv`: a key as young as the last
  loss of its wallet is the stored one, and a client that found the store empty
  is alone with it. `GrantInv`: what a job has delivered is the newest grant of
  those slots, which needs that only the author of record appends grants.
- **Agent.** `WindowInv` gives for each step of the loop the printed prefix as
  a function of first block, cursor and batch. `FreshInv` and `OpenInv` carry
  the stage that a response has reached (removed, made, sealed, written,
  uploaded), the second with the key file it was sealed under. `SequenceInv`:
  the last number is the number of messages, and a command that waits to post
  holds at most the next one.
- **Names.** `NamesInv` says for each run what the steps it still has to take
  imply: a step that is not among them any more was done, or was caught
  (`Program`, `RunOf`, `DoneOf`, `ListOf`). `ApartInv` keeps labels and
  contracts of two runs apart, which is what makes each step of one a frame
  condition of the other. `WizOf` and `PubOf` are the two properties in that
  form. `RetractionHonest` is about the step that saves a profile, and needs of
  the state before it what the command has behind it (`Retracts`: the label is
  off the list, the address records are gone), and that a profile without a name
  is private already, so that a relabelling of it changes nothing
  (`UnnamedOf`).
- **Registration.** `Relies` says what a run stands on, given the steps that it
  has `Ahead` of it: a step that is no longer ahead has taken effect, or was
  found done. Its own transaction counts as taken when it is mined, not when
  the receipt is read. Part of this lasts whatever others do (a registry, a
  resolver, a pointer, a name the wallet holds, the run's own commitment, which
  nobody else can write as `ApartInv` and `PoolInv` keep secrets apart), and it
  suffices for what `FinishedComplete` says of every run. The rest holds of a
  `clean` run: that what is still ahead is not yet there, and what is behind is
  there still. Then `Accepted` gives that the chain takes what it asks for,
  given the clocks; `Owned` keeps that true of the transaction while it waits,
  since anything that could change it (another's transaction, the end of a
  registration) makes the run unclean. One lemma for each action follows
  (`CheckSound`, `SubmitSound`, `MineSound`, ...).
- **Views.** `LogInv` says how the log accounts for the storage: a request has
  one place where it was made and, once closed, one where it was closed; an
  account's last admission or removal says whether it is a member and since
  when; the last rotation and binding are the present ones; every decision
  logged is the one stored. Each call appends one event, or the swarm's and
  then the treasury's (`Grown`), and `LogStep` goes call by call. What a page
  shows is a fold of such a log. `Fold` unfolds `ReduceSwarmState` by one
  place, for any set of places, and `UpTo` is the induction over them: it is
  stated of a set, not of a predicate, and proved from the well-foundedness of
  the naturals. `RowsShown`, `PageShown` and the like are what the view is
  after n places; `Stretch` says which places a page has read. An account whose
  requests do not overlap has at most one pending in the view, so an approval
  strikes off the right one; that is where overlapping accounts have to be
  excused. The fallback of the swarm page is the same view when one swarm is
  published, since events of the treasury change no field that the page shows
  (`GlobalFolded`, `AppliedSame`). `ButtonsDecideWhatTheyShow` needs only that
  what a row showed is never changed afterwards.

Only model-checked:

- Liveness, which the prover does not treat: `RekeyFocusCatchesUp`,
  `SweepCompletes`, `RequestsServed`, `ScansSettle`. `EventFeed_proofs` has the
  safety part of `ScansSettle` that concerns the bound on scans: there is room
  left for every refresh owed (`FeedTypeCorrect`).

Every safety property that a passing run checks is stated by a theorem.

## 8. Plan, and what is not modelled

1. `EnsGrants`: role bitmaps granted to agents, renewal by epoch, revocation
   (`ensv2-grants.ts`, `epoch-ens-renewal.ts`, `ensv2-agent-bridge.ts`); the
   abstract access-control list as the specification they implement.
2. The agents page: `reduceAgentState` over the identity registry, and
   `orgMemberWallets`, which counts whoever once asked to join.
3. Treasury profiles and the organization's list of treasuries, which repeat
   the pattern of `SwarmNames` with another record.

Not modelled within the modelled components: the World attestation gate, the
anchoring check and external slots of documents; the Ledger backend of the key
ring; the decoding of logs; `--force` of list-sync, the pointer to the active
swarm, chain ids as values; the end of an ENSv2 subname, prices, the maximal
age of a commitment and rival registrants; the Ledger channel of the dashboard
with its fallbacks; the requests for epoch keys on the swarm page, which are
never struck off, and the latest manifest; the report of `removeMemberSwarm`,
which reads a function its ABI does not have (`swarm-contract.ts:155`) and so
fails after a removal that took place; the commands that send one transaction
and print its receipt.

Not planned: hardware sessions, encodings, display, the generated site under
`apps/web/out`, the language model behind the Presidio worker, the Speculos
driver. They keep no state that another part reads, or have no source here to
read it from.
