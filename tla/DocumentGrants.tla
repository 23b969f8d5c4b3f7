--------------------------- MODULE DocumentGrants ---------------------------
(***************************************************************************)
(* One redacted document of SoulVaultDocumentRegistry.sol and the clients   *)
(* around it: authors that redact, publish and grant slot keys (the Redact  *)
(* and Grants pages, "document grant"), recipients that keep a rehydration  *)
(* key, request and rehydrate (the Rehydrate page, "document                *)
(* request-rehydrate" and "document rehydrate").                            *)
(*                                                                          *)
(* The registry's event log is the only channel between them.  A slot key   *)
(* is named by the redact run that made it, a wrapped key by the            *)
(* rehydration key that opens it; a rehydration key is a number, in the     *)
(* order of creation.                                                       *)
(***************************************************************************)
EXTENDS Naturals, Sequences, FiniteSets, SequencesExt

CONSTANTS
  Authors,     \* accounts that redact this document (its id depends on the text only)
  Slots,       \* its slots
  WebTabs,     \* open Rehydrate pages
  CliShells,   \* places where a recipient runs the CLI, one command at a time
  WalletOf,    \* the recipient wallet of each of them
  RunCap,      \* MAX_ARCHIVED_RUNS of document-session.ts
  MaxRuns, MaxKeys, MaxLosses, MaxLog   \* bounds of the exploration

Clients    == WebTabs \cup CliShells
Recipients == {WalletOf[c] : c \in Clients}
None       == "none"

ASSUME DocAssumption ==
  /\ RunCap \in Nat \ {0}
  /\ MaxRuns \in Nat /\ MaxKeys \in Nat /\ MaxLosses \in Nat /\ MaxLog \in Nat
  /\ WebTabs \cap CliShells = {}
  /\ None \notin Authors
  /\ IsFiniteSet(Slots)

VARIABLES
  author,     \* _publicationAuthor[docHash]
  log,        \* events of the registry for the document, oldest first
  stored,     \* recipient -> the key in its browser storage or key file, 0 if none
  keys,       \* every rehydration key ever made: its owner and the losses before it
  losses,     \* recipient -> times its storage was lost or its key replaced on purpose
  load,       \* client -> the promises of loadOrCreateRehydrationKey it holds
  made,       \* redact runs in order: who ran each
  session,    \* author -> its newest run (the saved session), 0 if none
  archive,    \* author -> archived runs, newest first
  job,        \* author -> the grant it is delivering
  answered    \* recipient -> the last grant job delivered to it whole, None once another begins

chainVars == <<author, log>>
keyVars   == <<stored, keys, losses>>
runVars   == <<made, session, archive>>
vars      == <<author, log, stored, keys, losses, load, made, session, archive, job, answered>>

-----------------------------------------------------------------------------
(* The registry's log. *)

Published(a)          == [kind |-> "published", by |-> a]
Requested(r, k)       == [kind |-> "requested", by |-> r, key |-> k]
Granted(a, r, s, k, n) == [kind |-> "granted", by |-> a, to |-> r, slot |-> s, key |-> k, run |-> n]

At(kind) == {i \in 1..Len(log) : log[i].kind = kind}
Newest(I) == CHOOSE i \in I : \A j \in I : j <= i

RequestsOf(r)  == {i \in At("requested") : log[i].by = r}
GrantsTo(r)    == {i \in At("granted") : log[i].to = r}

\* the key an author wraps to: that of the recipient's newest request
RequestedKey(r) == log[Newest(RequestsOf(r))].key

\* grantSlotKey and grantSlotKeys revert for anyone but the author of record
MayGrant(a) == author = a
MayPublish(a) == author \in {None, a}

-----------------------------------------------------------------------------
(* Rehydration keys.  A web tab holds the promise of its mount effect        *)
(* ("page") and that of its request handler ("ask"); a CLI command uses the  *)
(* one or the other and is gone when it ends.                                *)

Promises == {"page", "ask"}
NoLoad   == [st |-> "none", key |-> 0]
Missing  == [st |-> "missing", key |-> 0]       \* the store was read and held no key
Joined   == [st |-> "joined", key |-> 0]        \* the page's promise is shared
Ready(k) == [st |-> "ready", key |-> k]

Idle(c, p) == load[c][p] = NoLoad

\* the promise a holder waits for: the shared one or its own
Awaited(c, p) == IF load[c][p] = Joined THEN load[c]["page"] ELSE load[c][p]

OwnLoad(c, p) == FALSE                                     \* mutant

\* loadRehydrationKeyFor: one load per wallet and tab
SharesLoad(c, p) == c \in WebTabs /\ p = "ask" /\ ~Idle(c, "page")

MayLoad(c, p) ==
  /\ Idle(c, p)
  /\ c \in WebTabs => (p = "page" \/ ~Idle(c, "page"))
  /\ c \in CliShells => \A q \in Promises : Idle(c, q)

ReadStore(r) == IF stored[r] = 0 THEN Missing ELSE Ready(stored[r])

Load(c, p) ==
  /\ MayLoad(c, p)
  /\ load' = [load EXCEPT ![c][p] =
                IF SharesLoad(c, p) THEN Joined ELSE ReadStore(WalletOf[c])]
  /\ UNCHANGED <<chainVars, keyVars, runVars, job, answered>>

\* request-rehydrate --replace-key and rehydration-key --replace-key do not read the store
ReplaceKey(c, p) ==
  /\ c \in CliShells /\ MayLoad(c, p)
  /\ losses[WalletOf[c]] < MaxLosses
  /\ losses' = [losses EXCEPT ![WalletOf[c]] = @ + 1]
  /\ load' = [load EXCEPT ![c][p] = Missing]
  /\ UNCHANGED <<chainVars, stored, keys, runVars, job, answered>>

\* a fresh private key is written to the store
CreateKey(c, p) ==
  LET r == WalletOf[c] IN
  /\ load[c][p] = Missing
  /\ Len(keys) < MaxKeys
  /\ keys' = Append(keys, [owner |-> r, gen |-> losses[r]])
  /\ stored' = [stored EXCEPT ![r] = Len(keys) + 1]
  /\ load' = [load EXCEPT ![c][p] = Ready(Len(keys) + 1)]
  /\ UNCHANGED <<chainVars, losses, runVars, job, answered>>

\* requestRehydration is mined: the transaction binds the wallet to the key
Request(c) ==
  /\ Awaited(c, "ask").st = "ready"
  /\ author # None
  /\ Len(log) < MaxLog
  /\ log' = Append(log, Requested(WalletOf[c], Awaited(c, "ask").key))
  /\ load' = [load EXCEPT ![c]["ask"] = NoLoad]
  /\ UNCHANGED <<author, keyVars, runVars, job, answered>>

\* the transaction is refused by the signer or reverts; the key stays as it is
RequestFails(c) ==
  /\ Awaited(c, "ask").st = "ready"
  /\ load' = [load EXCEPT ![c]["ask"] = NoLoad]
  /\ UNCHANGED <<chainVars, keyVars, runVars, job, answered>>

\* the tab is closed or reloaded, the command ends or is interrupted
Close(c) ==
  /\ \E p \in Promises : ~Idle(c, p)
  /\ load' = [load EXCEPT ![c] = [p \in Promises |-> NoLoad]]
  /\ UNCHANGED <<chainVars, keyVars, runVars, job, answered>>

\* external: the browser's storage or the key file is lost
LoseKey(r) ==
  /\ stored[r] # 0 /\ losses[r] < MaxLosses
  /\ stored' = [stored EXCEPT ![r] = 0]
  /\ losses' = [losses EXCEPT ![r] = @ + 1]
  /\ UNCHANGED <<chainVars, keys, load, runVars, job, answered>>

-----------------------------------------------------------------------------
(* Authors: redaction, publication, grants. *)

RunsBy(a)  == {n \in 1..Len(made) : made[n] = a}
HeldRuns(a) == ({session[a]} \ {0}) \cup Range(archive[a])

ArchivedLast(a) ==                                         \* mutant
  IF session[a] = 0 \/ Len(archive[a]) = RunCap THEN archive[a] ELSE Append(archive[a], session[a])

\* the session that a new run replaces goes to the head of the archive, which is cut at its cap
Archived(a) ==
  IF session[a] = 0 THEN archive[a]
  ELSE LET all == <<session[a]>> \o archive[a]
       IN  SubSeq(all, 1, IF Len(all) < RunCap THEN Len(all) ELSE RunCap)

\* redaction of the same text: the same document id, fresh slot keys
Redact(a) ==
  LET n == Len(made) + 1 IN
  /\ n <= MaxRuns
  /\ made' = Append(made, a)
  /\ archive' = [archive EXCEPT ![a] = Archived(a)]
  /\ session' = [session EXCEPT ![a] = n]
  /\ UNCHANGED <<chainVars, keyVars, load, job, answered>>

\* publishDocument is mined
Publish(a) ==
  /\ session[a] # 0
  /\ MayPublish(a)
  /\ Len(log) < MaxLog
  /\ author' = a
  /\ log' = Append(log, Published(a))
  /\ UNCHANGED <<keyVars, load, runVars, job, answered>>

NoAnswer == [key |-> 0, run |-> 0, slots |-> {}]
NoJob == [to |-> None, key |-> 0, run |-> 0, slots |-> {}, left |-> {}]
Wrap(r, k, n, S) == [to |-> r, key |-> k, run |-> n, slots |-> S, left |-> S]

\* the keys of a held run are wrapped to the recipient's newest request
GrantToRequest(a, r) ==
  /\ job[a] = NoJob
  /\ RequestsOf(r) # {}
  /\ \E n \in HeldRuns(a), S \in (SUBSET Slots) \ {{}} :
       job' = [job EXCEPT ![a] = Wrap(r, RequestedKey(r), n, S)]
  /\ UNCHANGED <<chainVars, keyVars, load, runVars, answered>>

\* the recipient's key was pasted: sent by any channel, or in an attestation
GrantToPastedKey(a, r) ==
  /\ job[a] = NoJob
  /\ \E k \in 1..Len(keys), n \in HeldRuns(a), S \in (SUBSET Slots) \ {{}} :
       /\ keys[k].owner = r
       /\ job' = [job EXCEPT ![a] = Wrap(r, k, n, S)]
  /\ UNCHANGED <<chainVars, keyVars, load, runVars, answered>>

\* one transaction for the slots of D is mined
Deliver(a, D) ==
  LET j == job[a]
      whole == D = j.left
      events == [i \in 1..Cardinality(D) |-> Granted(a, j.to, SetToSeq(D)[i], j.key, j.run)]
  IN
  /\ MayGrant(a)
  /\ Len(log) + Cardinality(D) <= MaxLog
  /\ log' = log \o events
  /\ job' = [job EXCEPT ![a] = IF whole THEN NoJob ELSE [j EXCEPT !.left = @ \ D]]
  /\ answered' = [answered EXCEPT ![j.to] =
                    IF whole THEN [key |-> j.key, run |-> j.run, slots |-> j.slots] ELSE NoAnswer]
  /\ UNCHANGED <<author, keyVars, load, runVars>>

\* grantSlotKeys: every slot in one transaction
DeliverBatch(a) == job[a] # NoJob /\ job[a].left = job[a].slots /\ Deliver(a, job[a].slots)

\* grantSlotKey: one transaction per slot
DeliverSlot(a) == \E s \in job[a].left : Deliver(a, {s})

\* after a refused transaction the wizard still offers to sign: it starts over
Resign(a) ==
  /\ job[a].left # job[a].slots
  /\ job' = [job EXCEPT ![a].left = job[a].slots]
  /\ UNCHANGED <<chainVars, keyVars, load, runVars, answered>>

\* the wizard is cancelled, the command ends with an error
GiveUp(a) ==
  /\ job[a] # NoJob
  /\ job' = [job EXCEPT ![a] = NoJob]
  /\ UNCHANGED <<chainVars, keyVars, load, runVars, answered>>

-----------------------------------------------------------------------------
(* Rehydration: what a recipient with its stored key reads in the bundle of  *)
(* run n.                                                                    *)

OldestPrevails(I) == CHOOSE i \in I : \A j \in I : i <= j  \* mutant

\* resolveActiveGrants: the newest grant of a slot wins; one slot at a time
Prevails(I) == Newest(I)

WebReads(r, n, s) ==
  LET I == {i \in GrantsTo(r) : log[i].slot = s} IN
  /\ stored[r] # 0 /\ I # {}
  /\ log[Prevails(I)].key = stored[r] /\ log[Prevails(I)].run = n

\* rehydrateFromChain: every grant is unwrapped, one failure or one duplicate fails them all
CliReads(r, n, s) ==
  /\ stored[r] # 0
  /\ \E i \in GrantsTo(r) : log[i].slot = s
  /\ \A i \in GrantsTo(r) : log[i].key = stored[r] /\ log[i].run = n
  /\ \A i, j \in GrantsTo(r) : log[i].slot = log[j].slot => i = j

-----------------------------------------------------------------------------
Init ==
  /\ author = None
  /\ log = <<>>
  /\ stored = [r \in Recipients |-> 0]
  /\ keys = <<>>
  /\ losses = [r \in Recipients |-> 0]
  /\ load = [c \in Clients |-> [p \in Promises |-> NoLoad]]
  /\ made = <<>>
  /\ session = [a \in Authors |-> 0]
  /\ archive = [a \in Authors |-> <<>>]
  /\ job = [a \in Authors |-> NoJob]
  /\ answered = [r \in Recipients |-> NoAnswer]

Next ==
  \/ \E c \in Clients, p \in Promises : Load(c, p) \/ ReplaceKey(c, p) \/ CreateKey(c, p)
  \/ \E c \in Clients : Request(c) \/ RequestFails(c) \/ Close(c)
  \/ \E r \in Recipients : LoseKey(r)
  \/ \E a \in Authors : Redact(a) \/ Publish(a)
  \/ \E a \in Authors, r \in Recipients : GrantToRequest(a, r) \/ GrantToPastedKey(a, r)
  \/ \E a \in Authors : DeliverBatch(a) \/ DeliverSlot(a) \/ Resign(a) \/ GiveUp(a)

Spec == Init /\ [][Next]_vars

-----------------------------------------------------------------------------
(* Properties. *)

Events ==
  [kind : {"published"}, by : Authors]
  \cup [kind : {"requested"}, by : Recipients, key : 1..Len(keys)]
  \cup [kind : {"granted"}, by : Authors, to : Recipients, slot : Slots,
        key : 1..Len(keys), run : 1..Len(made)]

\* Types: every key, run and event refers to something that exists, and a delivery
\* never has slots left that were not asked for.
TypeOK ==
  /\ author \in Authors \cup {None}
  /\ \A i \in 1..Len(log) : log[i] \in Events
  /\ stored \in [Recipients -> 0..Len(keys)]
  /\ \A k \in 1..Len(keys) : keys[k] \in [owner : Recipients, gen : 0..MaxLosses]
  /\ losses \in [Recipients -> 0..MaxLosses]
  /\ \A c \in Clients, p \in Promises :
       load[c][p] \in {NoLoad, Missing, Joined} \cup {Ready(k) : k \in 1..Len(keys)}
  /\ \A n \in 1..Len(made) : made[n] \in Authors
  /\ \A a \in Authors : HeldRuns(a) \subseteq RunsBy(a) /\ Len(archive[a]) <= RunCap
  /\ \A a \in Authors : job[a].left \subseteq job[a].slots

\* The keys of the newest runs stay grantable: re-encrypting the same text, which
\* reuses the document id, archives the previous run's keys and drops the oldest only.
RunKeysKept ==
  \A a \in Authors : \A n \in RunsBy(a) :
    Cardinality({m \in RunsBy(a) : m > n}) <= RunCap => n \in HeldRuns(a)

\* A request binds the key that stays in the recipient's storage: unless the storage
\* was lost since the key was made, grants to it open without another request
\* (rehydrate/page.tsx:121-123).
RequestKeyKept ==
  \A i \in At("requested") :
    LET k == log[i].key IN
    keys[k].gen = losses[log[i].by] => stored[log[i].by] = k

\* The web page's recovery from a lost key or a repeated delivery: when the last job
\* delivered to a recipient was wrapped to the key it now has, its slots open in that
\* run's bundle, whatever was granted before.
WebRecovers ==
  \A r \in Recipients :
    answered[r] # NoAnswer /\ answered[r].key = stored[r] =>
      \A s \in answered[r].slots : WebReads(r, answered[r].run, s)

\* The same of the CLI after a key was superseded, for a recipient whose stored key was
\* granted every slot once and from one run: "The old private key is never needed again"
\* (rehydration.ts:7).
CliRecovers ==
  \A r \in Recipients :
    LET mine == {i \in GrantsTo(r) : log[i].key = stored[r]} IN
    /\ answered[r] # NoAnswer /\ answered[r].key = stored[r]
    /\ \A i \in mine : log[i].run = answered[r].run
    /\ \A i, j \in mine : log[i].slot = log[j].slot => i = j
    => \A s \in answered[r].slots : CliReads(r, answered[r].run, s)

\* "A delivered READ grant is a permanent capability" (rehydration.ts:11): with the same
\* key and the same bundle, the CLI goes on reading a slot that it could read.
CliKeepsReading ==
  [][\A r \in Recipients : \A n \in 1..Len(made) : \A s \in Slots :
       CliReads(r, n, s) /\ stored'[r] = stored[r] => CliReads(r, n, s)']_vars
=============================================================================
