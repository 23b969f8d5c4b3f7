----------------------------- MODULE SwarmNames -----------------------------
(***************************************************************************)
(* What an organization publishes about its swarms, and who writes it:     *)
(* the commands `swarm create | unpublish | remove | list-sync | set-lane' *)
(* of the CLI (packages/node/src/swarm.ts, swarm-deploy.ts, ens.ts) and    *)
(* the swarm wizard of the dashboard (apps/web/src/lib/create-flows.ts,    *)
(* ens-writes.ts).                                                         *)
(*                                                                         *)
(* A swarm is published in two places, written one transaction at a time:  *)
(* the records of its name, and the organization's list of labels, which   *)
(* is read, changed and written back whole.  The CLI keeps a profile file  *)
(* besides.  A run is a list of steps that are left to do; every step is   *)
(* one transaction, one read or one file operation, and a run may be       *)
(* refused, fail or be killed at each of them and be started again.        *)
(***************************************************************************)
EXTENDS Naturals, Sequences, FiniteSets

CONSTANTS
    Label,          \* labels of swarms below the organization's name
    Swarm,          \* addresses that SoulVaultSwarm contracts are deployed to
    Treasury,       \* treasuries to deploy a swarm with, the zero address among them
    None, Here,     \* no value; the one chain, owner and resolver
    Operator,       \* sessions that may run a command at the same time
    MaxRuns, MaxFaults, MaxMisreads     \* bounds, for model checking only

ASSUME ValueAssumption == None \notin Swarm \cup {Here} /\ Here \notin Swarm
ASSUME BoundAssumption == {MaxRuns, MaxFaults, MaxMisreads} \subseteq Nat

VARIABLES
    lane,           \* which ENS the organization is registered in: "v1" or "v2"
    treasury,       \* treasury[c] is what swarm c was deployed with
    name,           \* name[l] are the records of a label's name
    listed,         \* labels in the soulvault.swarms record
    profile,        \* ~/.soulvault/swarms/<slug>.json
    archive,        \* ~/.soulvault/swarms/.archived/<slug>.json
    run,            \* what each session is doing
    published,      \* ghost: the swarm that a finished command left published
    clobbered,      \* ghost: a list was written over one that the writer never read
    runs, faults, misreads

ens   == <<name, listed>>
files == <<profile, archive>>
count == <<runs, faults, misreads>>
vars  == <<lane, treasury, ens, files, run, published, clobbered, count>>

Deployed == DOMAIN treasury

Key == {"subnode", "addr", "chainId", "contract"}
Value(key, c) == IF key \in {"addr", "contract"} THEN c ELSE Here
Unset == [key \in Key |-> None]

(* What the two address records say of a name, and whether it resolves.    *)
Claimed(l) == {name[l].addr, name[l].contract} \ {None}
Resolves(l, c) == c \in Claimed(l) /\ (lane = "v1" => name[l].subnode = Here)

Visibility == {"public", "semi-private", "private"}
Profile == [visibility : Visibility, contract : Swarm, named : BOOLEAN]

Command == {"create", "unpublish", "delist", "remove", "sync", "lane", "wizard"}
Idle == [op |-> "none", label |-> None, contract |-> None, visibility |-> "public",
         list |-> {}, stale |-> FALSE, expects |-> None, whole |-> TRUE, todo |-> <<>>]

TypeOK ==
    /\ lane \in {"v1", "v2"}
    /\ Deployed \subseteq Swarm /\ \A c \in Deployed : treasury[c] \in Treasury
    /\ \A l \in Label : DOMAIN name[l] = Key /\ Claimed(l) \subseteq Deployed
    /\ listed \subseteq Label
    /\ \A l \in Label : {profile[l], archive[l]} \subseteq Profile \cup {None}
    /\ \A p \in Operator : run[p].op \in Command \cup {"none"} /\ run[p].list \subseteq Label
    /\ published \in [Label -> Swarm \cup {None}]

Init ==
    /\ lane \in {"v1", "v2"}
    /\ treasury = [c \in {} |-> None]
    /\ name = [l \in Label |-> Unset] /\ listed = {}
    /\ profile = [l \in Label |-> None] /\ archive = [l \in Label |-> None]
    /\ run = [p \in Operator |-> Idle]
    /\ published = [l \in Label |-> None] /\ clobbered = FALSE
    /\ runs = 0 /\ faults = 0 /\ misreads = 0

-----------------------------------------------------------------------------
(* The programs.                                                           *)

ListSteps   == <<"readList", "writeList">>
BindSteps   == <<"set subnode", "set addr", "set chainId", "set contract">>
UnbindSteps == <<"clear addr", "clear chainId", "clear contract", "clear subnode">>

When(condition, steps) == IF condition THEN steps ELSE <<>>
StepsOf(steps) == {steps[i] : i \in DOMAIN steps}

(* createSwarmProfile, after planSwarmEns.  With --contract the swarm is   *)
(* one that was deployed before, and nothing is deployed.                  *)
CreateProgram(visibility, given) ==
    When(~given, <<"deploy">>) \o When(visibility # "private", BindSteps)
        \o When(visibility = "public", ListSteps) \o <<"save">>

(* unpublishSwarm, in its two modes; a swarm without a name is relabelled. *)
UnpublishProgram(named) == When(named, ListSteps \o UnbindSteps) \o <<"save">>
DelistProgram(named) == When(named, ListSteps) \o <<"save">>

RemoveProgram(named, cleanup) ==
    When(named, ListSteps) \o When(named /\ cleanup, UnbindSteps) \o <<"archive", "unfile">>

(* setSwarmLane with --ens; it catches an error, and ends.                 *)
LaneProgram == <<"set chainId", "set contract">>

WizardProgram == <<"probe", "deploy">> \o BindSteps \o ListSteps \o <<"check">>

(* The errors that a command catches, and goes on after: those of the      *)
(* list, when creating or removing, and of the names, when removing.       *)
CaughtAll(op) == {StepsOf(ListSteps), StepsOf(UnbindSteps)}     \* mutant: so do all commands
Caught(op) ==
    CASE op = "create" -> {StepsOf(ListSteps)}
      [] op = "remove" -> {StepsOf(ListSteps), StepsOf(UnbindSteps)}
      [] OTHER -> {}

\* The run goes on after the last step of the block that failed.
Rescued(r) ==
    LET block == UNION {b \in Caught(r.op) : Head(r.todo) \in b}
        left  == {i \in DOMAIN r.todo : r.todo[i] \in block}
        last  == CHOOSE i \in left : \A j \in left : j <= i
    IN When(block # {}, SubSeq(r.todo, last + 1, Len(r.todo)))

-----------------------------------------------------------------------------
(* Runs *)

At(p, step) == run[p].todo # <<>> /\ Head(run[p].todo) = step
Advance(p) == run' = [run EXCEPT ![p].todo = Tail(@)]
Running(l) == \E p \in Operator : run[p].todo # <<>> /\ run[p].label = l

(* One command at a time on a swarm; others may run on other swarms.       *)
Begin(p, r) ==
    /\ run[p].todo = <<>> /\ ~Running(r.label)
    /\ runs < MaxRuns /\ runs' = runs + 1
    /\ run' = [run EXCEPT ![p] = r]
    /\ published' = [published EXCEPT ![r.label] = None]
    /\ UNCHANGED <<lane, treasury, ens, files, clobbered, faults, misreads>>

Order(op, l, visibility, todo) ==
    [Idle EXCEPT !.op = op, !.label = l, !.visibility = visibility, !.todo = todo]

(* The treasury is given, or read from the organization's name.            *)
Create(p) ==
    \E l \in Label, t \in Treasury :
        \/ \E v \in Visibility :
             Begin(p, [Order("create", l, v, CreateProgram(v, FALSE)) EXCEPT !.expects = t])
        \/ Begin(p, [Order("wizard", l, "public", WizardProgram) EXCEPT !.expects = t])

(* create --contract: the profile and the name are for a swarm that exists,*)
(* also for one that a name or a profile is for already.                   *)
CreateFor(p) ==
    \E l \in Label, v \in Visibility, c \in Deployed :
        Begin(p, [Order("create", l, v, CreateProgram(v, TRUE)) EXCEPT !.contract = c])

Known(l) == profile[l] # None

Unpublish(p) ==
    \E l \in Label : Known(l) /\ LET named == profile[l].named IN
        \/ Begin(p, Order("unpublish", l, "private", UnpublishProgram(named)))
        \/ Begin(p, Order("delist", l, IF named THEN "semi-private" ELSE "private",
                          DelistProgram(named)))

Remove(p) ==
    \E l \in Label, cleanup \in BOOLEAN :
        /\ Known(l)
        /\ Begin(p, Order("remove", l, "public", RemoveProgram(profile[l].named, cleanup)))

SyncList(p) ==
    \E l \in Label :
        /\ Known(l) /\ profile[l].named /\ profile[l].visibility = "public"
        /\ Begin(p, Order("sync", l, "public", ListSteps))

SetLane(p) ==
    \E l \in Label :
        /\ Known(l) /\ profile[l].named
        /\ Begin(p, [Order("lane", l, "public", LaneProgram)
                        EXCEPT !.contract = profile[l].contract])

(* A refusal in the wallet, an RPC error, a revert.                        *)
Throw(p) == run' = [run EXCEPT ![p].todo = Rescued(run[p]), ![p].whole = FALSE]

Fail(p) ==
    /\ run[p].todo # <<>>
    /\ faults < MaxFaults /\ faults' = faults + 1
    /\ \/ Throw(p) \/ run' = [run EXCEPT ![p].todo = <<>>]      \* or the process is killed
    /\ UNCHANGED <<lane, treasury, ens, files, published, clobbered, runs, misreads>>

-----------------------------------------------------------------------------
(* Deploying and adopting a swarm                                          *)

Fresh == Swarm \ Deployed

Deploy(p) ==
    /\ At(p, "deploy")
    /\ \E c \in Fresh :
        /\ treasury' = [d \in Deployed \cup {c} |->
                            IF d = c THEN run[p].expects ELSE treasury[d]]
        /\ run' = [run EXCEPT ![p].contract = c, ![p].todo = Tail(@)]
    /\ UNCHANGED <<lane, ens, files, published, clobbered, count>>

(* findExistingSwarmDeployment: the first of the two address records at    *)
(* which a swarm answers.  A read that fails is a record that is missing.  *)
AddrOnly(l) == {name[l].addr} \ {None}             \* mutant: ignores the text record
Candidates(l) == IF name[l].addr # None THEN {name[l].addr} ELSE Claimed(l)

Adopt(p, c) ==
    IF treasury[c] = run[p].expects
    THEN run' = [run EXCEPT ![p].contract = c, ![p].todo = Tail(Tail(@))]
    ELSE Throw(p)

Probe(p) ==
    LET l == run[p].label IN
    /\ At(p, "probe")
    /\ \/ /\ \/ \E c \in Candidates(l) : Adopt(p, c)
             \/ Candidates(l) = {} /\ Advance(p)
          /\ UNCHANGED misreads
       \/ /\ misreads < MaxMisreads /\ misreads' = misreads + 1
          /\ \/ \E c \in Claimed(l) : Adopt(p, c)
             \/ Advance(p)
    /\ UNCHANGED <<lane, treasury, ens, files, published, clobbered, runs, faults>>

-----------------------------------------------------------------------------
(* The records of a name                                                   *)

FromCli(p) == run[p].op # "wizard"

(* The CLI binds and releases names in ENSv1 only.  There a record is      *)
(* writable if the node is owned, and the owner of the organization makes  *)
(* and releases nodes.                                                     *)
May(p, key) ==
    IF lane = "v2" THEN run[p].op \in {"wizard", "lane"}
    ELSE key = "subnode" \/ name[run[p].label].subnode = Here

Record(p, step, key, value) ==
    /\ At(p, step)
    /\ IF May(p, key)
       THEN name' = [name EXCEPT ![run[p].label][key] = value] /\ Advance(p)
       ELSE Throw(p) /\ UNCHANGED name
    /\ UNCHANGED <<lane, treasury, listed, files, published, clobbered, count>>

(* The wizard skips a write that changes nothing.                          *)
Bind(p) ==
    \/ Record(p, "set subnode", "subnode", Value("subnode", run[p].contract))
    \/ Record(p, "set addr", "addr", Value("addr", run[p].contract))
    \/ Record(p, "set chainId", "chainId", Value("chainId", run[p].contract))
    \/ Record(p, "set contract", "contract", Value("contract", run[p].contract))

Unbind(p) ==
    \/ Record(p, "clear addr", "addr", None)
    \/ Record(p, "clear chainId", "chainId", None)
    \/ Record(p, "clear contract", "contract", None)
    \/ Record(p, "clear subnode", "subnode", None)

-----------------------------------------------------------------------------
(* The list of labels: addSwarmToOrgList, removeSwarmFromOrgList           *)

Adds(p) == run[p].op \in {"create", "wizard", "sync"}

(* In the dashboard, a failed look-up of an ENSv2 organization's resolver  *)
(* falls back to the public resolver, where the list is empty.             *)
ListRead(p) ==
    {listed} \cup
        IF lane = "v2" /\ ~FromCli(p) /\ misreads < MaxMisreads THEN {{}} ELSE {}

ReadList(p) ==
    LET l == run[p].label IN
    /\ At(p, "readList")
    /\ \E list \in ListRead(p) :
        /\ misreads' = IF list = listed THEN misreads ELSE misreads + 1
        /\ run' = [run EXCEPT ![p].list = list, ![p].stale = FALSE,
                ![p].todo = IF Adds(p) = (l \in list) THEN Tail(Tail(@)) ELSE Tail(@)]
    /\ UNCHANGED <<lane, treasury, ens, files, published, clobbered, runs, faults>>

JustOwn(p) == IF Adds(p) THEN {run[p].label} ELSE {}     \* mutant: forgets the others
NewList(p) == IF Adds(p) THEN run[p].list \cup {run[p].label} ELSE run[p].list \ {run[p].label}

WriteList(p) ==
    /\ At(p, "writeList")
    /\ listed' = NewList(p)
    /\ clobbered' = (clobbered \/ run[p].stale)
    /\ run' = [q \in Operator |-> IF q = p THEN [run[p] EXCEPT !.todo = Tail(@)]
                                  ELSE [run[q] EXCEPT !.stale = run[q].todo # <<>>]]
    /\ UNCHANGED <<lane, treasury, name, files, published, count>>

-----------------------------------------------------------------------------
(* The end of a run                                                        *)

Publish(p) ==
    published' = IF run[p].whole /\ run[p].visibility = "public"
                 THEN [published EXCEPT ![run[p].label] = run[p].contract] ELSE published

(* The profile of a new swarm overwrites that of its slug; the others      *)
(* patch the file.                                                         *)
Saved(p) ==
    LET r == run[p] IN
    IF r.op = "create"
    THEN [visibility |-> r.visibility, contract |-> r.contract, named |-> r.visibility # "private"]
    ELSE [profile[r.label] EXCEPT !.visibility = r.visibility,
                                  !.named = @ /\ r.visibility # "private"]

Save(p) ==
    /\ At(p, "save")
    /\ profile' = [profile EXCEPT ![run[p].label] = Saved(p)]
    /\ IF run[p].op = "create" THEN Publish(p) ELSE UNCHANGED published
    /\ Advance(p)
    /\ UNCHANGED <<lane, treasury, ens, archive, clobbered, count>>

(* archiveSwarmProfile: the copy, then the removal.                        *)
Archive(p) ==
    LET l == run[p].label IN
    /\ \/ At(p, "archive") /\ archive' = [archive EXCEPT ![l] = profile[l]] /\ UNCHANGED profile
       \/ At(p, "unfile") /\ profile' = [profile EXCEPT ![l] = None] /\ UNCHANGED archive
    /\ Advance(p)
    /\ UNCHANGED <<lane, treasury, ens, published, clobbered, count>>

(* The wizard reads back what its swarm is bound to.                       *)
Check(p) ==
    /\ At(p, "check")
    /\ IF treasury[run[p].contract] = run[p].expects
       THEN Publish(p) /\ Advance(p)
       ELSE Throw(p) /\ UNCHANGED published
    /\ UNCHANGED <<lane, treasury, ens, files, clobbered, count>>

Next ==
    \E p \in Operator :
        \/ Create(p) \/ CreateFor(p) \/ Unpublish(p) \/ Remove(p) \/ SyncList(p) \/ SetLane(p)
        \/ Fail(p)
        \/ Probe(p) \/ Deploy(p) \/ Bind(p) \/ Unbind(p)
        \/ ReadList(p) \/ WriteList(p)
        \/ Save(p) \/ Archive(p) \/ Check(p)

Spec == Init /\ [][Next]_vars

-----------------------------------------------------------------------------
(* Properties.  A list that is written over another writer's change loses  *)
(* it: ens.ts says so, and the first two promise nothing after that.       *)

(* "A profile must never claim to be more private than it actually is"     *)
(* (swarm-unpublish.test.ts): when unpublish or delist changes a profile,  *)
(* the name has stopped resolving, or the label is off the list, whatever  *)
(* failed on the way and whatever was retried.  They change nothing of a   *)
(* profile that has no name.                                               *)
Honest(l) ==
    LET p == profile[l] IN
    /\ p.visibility = "private" => ~Resolves(l, p.contract)
    /\ p.visibility # "public" => ~(l \in listed /\ Resolves(l, p.contract))

RetractionHonest ==
    [][\A p \in Operator :
        LET l == run[p].label IN
        (/\ At(p, "save") /\ run[p].op \in {"unpublish", "delist"}
         /\ profile'[l] # profile[l])
            => clobbered \/ Honest(l)']_vars

(* The same of every command that changes a profile and keeps its swarm.   *)
(* `create --private --contract' does not keep it: it publishes nothing,   *)
(* and takes nothing back of what an earlier run published for that swarm. *)
ProfileHonest ==
    [][\A l \in Label :
        (/\ profile[l] # None /\ profile'[l] # None
         /\ profile'[l].contract = profile[l].contract /\ profile'[l] # profile[l])
            => clobbered \/ Honest(l)']_vars

(* What a command that finished without an error published stays so, until *)
(* a command is started on that swarm: its name resolves to it, by both    *)
(* records, and its label is on the list, whatever runs on other swarms    *)
(* (createSwarmProfile; runSwarmCreate, whose reads did not fail).         *)
PublishedStays ==
    \A l \in Label : published[l] # None =>
        /\ name[l] = [key \in Key |-> Value(key, published[l])]
        /\ l \in listed \/ clobbered \/ misreads > 0

(* create-flows.ts:253: "adopt it - never re-deploy".  A wizard run is for *)
(* the swarm that the name already claims, if it claims one, however the   *)
(* earlier runs ended, as long as the reads of its probe did not fail.     *)
WizardAdopts ==
    \A p \in Operator :
        (run[p].op = "wizard" /\ run[p].contract # None /\ run[p].todo # <<>> /\ misreads = 0)
            => LET l == run[p].label IN Claimed(l) = {} \/ run[p].contract \in Claimed(l)

(* ens-writes.ts:451: "reading the wrong resolver would drop existing      *)
(* labels on the next append": a label leaves the list when its own swarm  *)
(* is retracted.                                                           *)
OnlyOwnLabel ==
    [][\A l \in listed \ listed' :
        clobbered' \/ \E p \in Operator : run[p].label = l /\ ~Adds(p)]_vars

(* swarm.ts:23: a semi-private swarm's "label is kept out of the org's     *)
(* list".                                                                  *)
SemiPrivateUnlisted ==
    \A l \in Label :
        (Known(l) /\ ~Running(l) /\ profile[l].visibility = "semi-private")
            => l \notin listed \/ name[l].addr # profile[l].contract

(* swarm.ts:385: the archive "preserves recovery: the contract address ... *)
(* stay[s] on disk".                                                       *)
ArchiveKeeps ==
    [][\A l \in Label : archive[l] # None => archive'[l] = archive[l]]_vars
=============================================================================
