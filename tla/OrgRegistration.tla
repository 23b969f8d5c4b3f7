--------------------------- MODULE OrgRegistration ---------------------------
(***************************************************************************)
(* Registering the name of an organization in the dashboard, in either     *)
(* ENS: commit, wait and reveal (apps/web/src/lib/ens-register.ts), or     *)
(* the organization's own ENSv2 registry and resolver (ens-register-v2.ts, *)
(* with the repair of its pointer in ens-edit.ts), over the transactions   *)
(* of wallet-tx.ts.                                                        *)
(*                                                                         *)
(* A run asks for up to seven transactions and remembers nothing when it   *)
(* ends: the next run finds out from the chain what is left to do.  A      *)
(* transaction is estimated against the last block, waits in the mempool   *)
(* behind those sent before, and is mined, or refused by the chain, even   *)
(* if nobody is waiting for its receipt any more.                          *)
(***************************************************************************)
EXTENDS Integers, SequencesExt

CONSTANTS
    Tab,            \* pages of the dashboard, with one wallet
    DisplayName,    \* names that an organization may be given
    None,
    Wraps,          \* whether the controller's registrations may come wrapped
    MinAge,         \* age at which a commitment may be revealed
    Term,           \* for how long an ENSv2 name is registered
    MaxTime, MaxLag, MaxRuns, MaxFaults, MaxMisreads    \* bounds, for model checking only

ASSUME NameAssumption == None \notin DisplayName \cup Tab \cup {"wallet", "wrapper"}
ASSUME WrapAssumption == Wraps \subseteq BOOLEAN /\ Wraps # {}
ASSUME TimeAssumption == {MinAge, Term} \subseteq Nat \ {0}
ASSUME BoundAssumption == {MaxTime, MaxLag, MaxRuns, MaxFaults, MaxMisreads} \subseteq Nat

VARIABLES
    lane,           \* which flow the wizard offers: "v1" or "v2"
    wraps,          \* whether the controller of this network wraps
    chain,          \* what is on chain about the name
    now, wall,      \* the time of the last block, and of the browser
    pool,           \* transactions waiting to be mined, in the order of their nonces
    run,            \* what each tab is doing
    runs, faults, misreads

setting == <<lane, wraps>>
time  == <<now, wall>>
count == <<runs, faults, misreads>>
orgVars  == <<setting, chain, time, pool, run, count>>

(* holder owns the node in the ENSv1 registry; commits has the time of     *)
(* each commitment, by the run whose secret it hides.  registry, proxy and *)
(* attached are the contracts of the ENSv2 lane and the link between them. *)
Blank == [holder |-> None, commits |-> <<>>, registry |-> FALSE, until |-> 0,
          proxy |-> FALSE, attached |-> FALSE, pointer |-> FALSE, title |-> None]

Kind == {"commit", "reveal", "unwrap", "class", "title",
         "registry", "register", "proxy", "attach", "pointer", "metadata"}

Idle == [op |-> "none", title |-> None, secret |-> 0, wake |-> 0, until |-> 0,
         fresh |-> FALSE, misled |-> FALSE, todo |-> {}, sent |-> "no", end |-> "no",
         clean |-> TRUE]

(* The steps of the three flows: reads, and kinds of transactions.         *)
RegisterV1 == {"check", "commit", "sleep", "reveal", "wrapper", "unwrap", "class",
               "title"}

RegisterV2 == {"probe", "registry", "verify", "register", "slot", "proxy", "attach",
               "mirror", "pointer", "records", "metadata"}

Repair == {"locate", "mirror", "pointer"}

(* Each flow takes its steps in this order.                                *)
Order == <<"check", "commit", "sleep", "reveal", "wrapper", "unwrap", "class", "title",
           "probe", "registry", "verify", "register", "slot", "proxy", "attach",
           "locate", "mirror", "pointer", "records", "metadata">>

Place == [step \in ToSet(Order) |-> CHOOSE i \in DOMAIN Order : Order[i] = step]

Program(op) == IF op = "repair" THEN Repair
               ELSE IF lane = "v1" THEN RegisterV1 ELSE RegisterV2

State(secrets) ==
         [holder : {None, "wallet", "wrapper"}, commits : [secrets -> Nat],
          registry : BOOLEAN, until : Nat, proxy : BOOLEAN, attached : BOOLEAN,
          pointer : BOOLEAN, title : DisplayName \cup {None}]

Transaction == [kind : Kind, by : Tab \cup {None}, secret : 1..MaxRuns, title : DisplayName,
                until : Nat]

Run == [op : {"none", "register", "repair"}, title : DisplayName \cup {None},
        secret : 0..MaxRuns, wake : Nat, until : Nat, fresh : BOOLEAN,
        misled : BOOLEAN, todo : SUBSET ToSet(Order),
        sent : {"no", "ready", "pending", "success", "reverted"},
        end : {"no", "done", "refused", "stopped"}, clean : BOOLEAN]

(* What is left to do is a part of the program of the run, which begins    *)
(* when there is something left.                                           *)
OrgTypeOK ==
    /\ lane \in {"v1", "v2"} /\ wraps \in Wraps
    /\ DOMAIN chain.commits \subseteq 1..MaxRuns /\ chain \in State(DOMAIN chain.commits)
    /\ now \in 0..wall /\ wall \in 0..MaxTime
    /\ pool \in Seq(Transaction)
    /\ run \in [Tab -> Run]
    /\ \A t \in Tab : run[t].todo # {} => /\ run[t].todo \subseteq Program(run[t].op)
                                         /\ run[t].end = "no" /\ run[t].title # None
    /\ runs \in 0..MaxRuns /\ faults \in 0..MaxFaults /\ misreads \in 0..MaxMisreads

OrgInit ==
    /\ lane \in {"v1", "v2"} /\ wraps \in Wraps
    /\ chain = Blank
    /\ now = 0 /\ wall = 0
    /\ pool = <<>>
    /\ run = [t \in Tab |-> Idle]
    /\ runs = 0 /\ faults = 0 /\ misreads = 0

-----------------------------------------------------------------------------
(* The chain *)

Registered(c) == c.until > now
Aged(c, secret) == secret \in DOMAIN c.commits /\ now >= c.commits[secret] + MinAge

Can(tx, c) ==
    CASE tx.kind = "commit"   -> TRUE
      [] tx.kind = "reveal"   -> c.holder = None /\ Aged(c, tx.secret)
      [] tx.kind = "unwrap"   -> c.holder = "wrapper"
      [] tx.kind \in {"class", "title"} -> c.holder = "wallet"
      [] tx.kind = "registry" -> ~c.registry
      [] tx.kind = "register" -> c.registry /\ ~Registered(c) /\ tx.until > now
      [] tx.kind = "proxy"    -> ~c.proxy
      [] tx.kind = "attach"   -> Registered(c)
      [] tx.kind \in {"pointer", "metadata"} -> c.proxy

Applied(tx, c) ==
    CASE tx.kind = "commit"   -> [c EXCEPT !.commits =
                                    [s \in DOMAIN @ \cup {tx.secret} |->
                                        IF s = tx.secret THEN now ELSE @[s]]]
      [] tx.kind = "reveal"   -> [c EXCEPT !.holder = IF wraps THEN "wrapper" ELSE "wallet"]
      [] tx.kind = "unwrap"   -> [c EXCEPT !.holder = "wallet"]
      [] tx.kind = "class"    -> c
      [] tx.kind = "registry" -> [c EXCEPT !.registry = TRUE]
      [] tx.kind = "register" -> [c EXCEPT !.until = tx.until, !.attached = FALSE]
      [] tx.kind = "proxy"    -> [c EXCEPT !.proxy = TRUE]
      [] tx.kind = "attach"   -> [c EXCEPT !.attached = TRUE]
      [] tx.kind = "pointer"  -> [c EXCEPT !.pointer = TRUE]
      [] tx.kind \in {"title", "metadata"} -> [c EXCEPT !.title = tx.title]

(* What befalls a run that is not its own doing.                           *)
Disturbed(r) == IF r.todo = {} THEN r ELSE [r EXCEPT !.clean = FALSE]

Mine ==
    LET tx == Head(pool) IN
    /\ pool # <<>> /\ pool' = Tail(pool)
    /\ chain' = IF Can(tx, chain) THEN Applied(tx, chain) ELSE chain
    /\ run' = [t \in Tab |->
                IF t = tx.by
                THEN [run[t] EXCEPT !.sent = IF Can(tx, chain) THEN "success" ELSE "reverted"]
                ELSE Disturbed(run[t])]
    /\ UNCHANGED <<setting, time, count>>

(* Time passes in the browser, and a block brings the chain up to date.    *)
WallTick ==
    /\ wall < MaxTime /\ wall - now < MaxLag
    /\ wall' = wall + 1
    /\ UNCHANGED <<setting, chain, now, pool, run, count>>

(* A registration ends, or one that is estimated or in the mempool would   *)
(* have.                                                                   *)
Expires ==
    \/ Registered(chain) /\ chain.until <= wall
    \/ \E i \in DOMAIN pool : pool[i].kind = "register" /\ pool[i].until <= wall
    \/ \E t \in Tab : run[t].until \in 1..wall

Block ==
    /\ now < wall /\ now' = wall
    /\ run' = [t \in Tab |-> IF Expires THEN Disturbed(run[t]) ELSE run[t]]
    /\ UNCHANGED <<setting, chain, wall, pool, count>>

-----------------------------------------------------------------------------
(* Runs *)

Busy(t) == run[t].todo # {}

(* The first step that is left.                                            *)
Due(r, step) == step \in r.todo /\ \A other \in r.todo : Place[step] <= Place[other]

At(t, step) == Due(run[t], step)

(* The steps that are left once this one is taken, and those in done are   *)
(* found to be done.                                                       *)
After(r, done) == {step \in r.todo : ~Due(r, step)} \ done

Ended(r, how) == [r EXCEPT !.todo = {}, !.sent = "no", !.end = how, !.secret = 0, !.wake = 0,
                           !.until = 0]
Left(r, todo) == IF todo = {} THEN Ended(r, "done")
                 ELSE [r EXCEPT !.todo = todo, !.sent = "no", !.until = 0]

(* An error ends a run, except one in the metadata of a name that the run  *)
(* itself has registered.                                                  *)
Error(r, how) ==
    IF r.fresh /\ (Due(r, "class") \/ Due(r, "title"))
    THEN Ended(r, "done") ELSE Ended(r, how)

Becomes(t, r) == run' = [run EXCEPT ![t] = r]

(* Transactions of a run that has ended stay in the mempool.               *)
Orphaned(t) == [i \in DOMAIN pool |-> IF pool[i].by = t THEN [pool[i] EXCEPT !.by = None] ELSE pool[i]]

Begin(t) ==
    /\ ~Busy(t) /\ runs < MaxRuns /\ runs' = runs + 1
    /\ \E title \in DisplayName, op \in {"register", "repair"} :
        /\ op = "repair" => lane = "v2"
        /\ Becomes(t, [Idle EXCEPT !.op = op, !.title = title, !.secret = runs',
                !.todo = Program(op), !.clean = pool = <<>>])
    /\ UNCHANGED <<setting, chain, time, pool, faults, misreads>>

(* A refusal in the wallet, a read that throws, a receipt that does not    *)
(* come in time; or the page is closed.                                    *)
Fail(t) ==
    /\ Busy(t)
    /\ faults < MaxFaults /\ faults' = faults + 1
    /\ Becomes(t, Error(run[t], "stopped")) \/ Becomes(t, Ended(run[t], "stopped"))
    /\ pool' = Orphaned(t)
    /\ UNCHANGED <<setting, chain, time, runs, misreads>>

-----------------------------------------------------------------------------
(* Transactions: prepareAppTx, signAndBroadcast, waitForReceipt            *)

(* The call is made up and estimated, and sent once the wallet agrees; the *)
(* term of a registration is that of when it was made up.                  *)
Tx(t, r, kind) == [kind |-> kind, by |-> t, secret |-> r.secret, title |-> r.title,
                   until |-> r.until]

Made(t, kind) == [run[t] EXCEPT !.sent = "ready",
                                !.until = IF kind = "register" THEN wall + Term ELSE 0]

Prepare(t, kind) ==
    /\ At(t, kind) /\ run[t].sent = "no"
    /\ Becomes(t, IF Can(Tx(t, Made(t, kind), kind), chain)
                  THEN Made(t, kind) ELSE Error(run[t], "refused"))
    /\ UNCHANGED <<setting, chain, time, pool, count>>

Submit(t, kind) ==
    /\ At(t, kind) /\ run[t].sent = "ready"
    /\ pool' = Append(pool, Tx(t, run[t], kind))
    /\ Becomes(t, [run[t] EXCEPT !.sent = "pending", !.until = 0])
    /\ UNCHANGED <<setting, chain, time, count>>

Receipt(t) ==
    /\ Busy(t)
    /\ \/ /\ run[t].sent = "success"
          /\ Becomes(t, Left([run[t] EXCEPT !.fresh = @ \/ At(t, "reveal")],
                             After(run[t], {})))
       \/ run[t].sent = "reverted" /\ Becomes(t, Error(run[t], "refused"))
    /\ UNCHANGED <<setting, chain, time, pool, count>>

-----------------------------------------------------------------------------
(* Reads *)

(* A read whose error the code takes for "there is nothing".               *)
Missed(t, r) ==
    /\ misreads < MaxMisreads /\ misreads' = misreads + 1
    /\ Becomes(t, r)

Read(t, step, r) == At(t, step) /\ Becomes(t, r) /\ UNCHANGED misreads

Found(t, done) == Left(run[t], After(run[t], done))

(* registerOrganizationEns: is the name ours, free, or somebody's?         *)
Check(t) ==
    /\ \/ /\ chain.holder = "wallet"
          /\ Read(t, "check", Left(run[t], {"class", "title"}))
       \/ /\ chain.holder = None
          /\ Read(t, "check", Found(t, {}))
       \/ chain.holder = "wrapper" /\ Read(t, "check", Ended(run[t], "refused"))
    /\ UNCHANGED <<setting, chain, time, pool, runs, faults>>

(* unwrapIfWrapped: does the controller name a wrapper?  An error of that  *)
(* read is caught, and counts as a no.                                     *)
Wrapped(t) ==
    /\ \/ Read(t, "wrapper", Found(t, IF wraps THEN {} ELSE {"unwrap"}))
       \/ At(t, "wrapper") /\ Missed(t, [Found(t, {"unwrap"}) EXCEPT !.misled = TRUE])
    /\ UNCHANGED <<setting, chain, time, pool, runs, faults>>

(* sleepCommitmentMaturation: a second longer than the age, by the         *)
(* browser's clock.                                                        *)
Margin == 1

Sleep(t) ==
    /\ At(t, "sleep")
    /\ \/ run[t].wake = 0 /\ Becomes(t, [run[t] EXCEPT !.wake = wall + MinAge + Margin])
       \/ run[t].wake # 0 /\ wall >= run[t].wake /\ Becomes(t, Found(t, {}))
    /\ UNCHANGED <<setting, chain, time, pool, count>>

(* Is there a registry at the address where this wallet would deploy one,  *)
(* and is the name in it?                                                  *)
DoneWhenRegistered(c) ==       \* mutant: an empty registry is not recognised
    IF c.until > wall THEN {"registry", "register"} ELSE {}
Done(c) ==
    IF ~c.registry THEN {}
    ELSE {"registry"} \cup (IF c.until > wall THEN {"register"} ELSE {})

Probe(t) ==
    /\ \/ Read(t, "probe", Found(t, Done(chain)))
       \/ At(t, "probe") /\ Missed(t, Disturbed(Found(t, {})))
    /\ UNCHANGED <<setting, chain, time, pool, runs, faults>>

Verify(t) ==
    /\ Read(t, "verify", IF chain.registry THEN Found(t, {}) ELSE Ended(run[t], "refused"))
    /\ UNCHANGED <<setting, chain, time, pool, runs, faults>>

(* Is a resolver attached to the name, or only deployed?                   *)
ReadyWhenDeployed(c) ==        \* mutant: a deployed resolver counts as attached
    IF c.proxy THEN {"proxy", "attach"} ELSE {}
Ready(c) ==
    IF c.attached /\ c.until # 0 THEN {"proxy", "attach"}
    ELSE IF c.proxy THEN {"proxy"} ELSE {}

Slot(t) ==
    /\ \/ Read(t, "slot", Found(t, Ready(chain)))
       \/ At(t, "slot") /\ chain.attached /\ Missed(t, Found(t, {"proxy"}))
       \/ At(t, "slot") /\ Missed(t, Disturbed(Found(t, {})))
    /\ UNCHANGED <<setting, chain, time, pool, runs, faults>>

(* The two records are written only if they differ.                        *)
Differs(t) ==
    /\ \/ Read(t, "mirror", Found(t, IF chain.pointer THEN {"pointer"} ELSE {}))
       \/ At(t, "mirror") /\ Missed(t, Found(t, {}))
       \/ Read(t, "records", Found(t, IF chain.title = run[t].title THEN {"metadata"} ELSE {}))
       \/ At(t, "records") /\ Missed(t, Found(t, {}))
    /\ UNCHANGED <<setting, chain, time, pool, runs, faults>>

(* resolveEnsV2OrgRecord, for the repair of the pointer.                   *)
Locate(t) ==
    /\ Read(t, "locate", IF Registered(chain) /\ chain.attached
                         THEN Found(t, {}) ELSE Ended(run[t], "stopped"))
    /\ UNCHANGED <<setting, chain, time, pool, runs, faults>>

OrgNext ==
    \/ Mine \/ WallTick \/ Block
    \/ \E t \in Tab :
        \/ Begin(t) \/ Fail(t)
        \/ \E kind \in Kind : Prepare(t, kind) \/ Submit(t, kind)
        \/ Receipt(t)
        \/ Check(t) \/ Sleep(t) \/ Wrapped(t)
        \/ Probe(t) \/ Verify(t) \/ Slot(t) \/ Differs(t) \/ Locate(t)

OrgSpec == OrgInit /\ [][OrgNext]_orgVars

-----------------------------------------------------------------------------
(* Properties *)

(* ens-register-v2.ts:458, "Idempotent re-run": whatever earlier runs left *)
(* behind, when they were refused, timed out or closed with a transaction  *)
(* still pending, the chain refuses nothing that a run asks for.  What may *)
(* come in its way: another run's transaction, a registry that it could    *)
(* not read, the end of the registration, and a chain that is further      *)
(* behind the browser than the second that it waits longer; and a name     *)
(* that was left wrapped, which the next property is about.                *)
Behind == wall - now > Margin \/ (Registered(chain) /\ chain.until <= wall)

Refused(t) == Busy(t) /\ run'[t].end = "refused"

ResumesCleanly ==
    [][\A t \in Tab :
        Refused(t) => ~run[t].clean \/ Behind \/ chain.holder = "wrapper"]_orgVars

(* The same without that exception: a run of the first flow that ended     *)
(* between registering and unwrapping can be repeated like the others.     *)
ResumesWrapped ==
    [][\A t \in Tab : Refused(t) => ~run[t].clean \/ Behind]_orgVars

(* A run that ends without an error leaves an organization that can be     *)
(* found: the name is held by the wallet, or a resolver attached and the   *)
(* pointer there, and the records carry the name that it was given, if no  *)
(* other run came in between.  In the first flow, a run that has just      *)
(* registered the name does not promise the records; and one that was told *)
(* of no wrapper, because the error of asking was caught, may end with the *)
(* name still wrapped.                                                     *)
Complete(t) ==
    LET r == run[t] IN
    IF lane = "v1"
    THEN /\ chain.holder = "wallet" \/ (r.misled /\ chain.holder = "wrapper")
         /\ r.fresh \/ ~r.clean \/ chain.title = r.title
    ELSE /\ chain.registry /\ chain.proxy /\ chain.pointer
         /\ r.clean => chain.attached /\ (r.op = "register" => chain.title = r.title)

FinishedComplete ==
    [][\A t \in Tab : (Busy(t) /\ ~Busy(t)' /\ run'[t].end = "done") => Complete(t)']_orgVars
=============================================================================
