----------------------------- MODULE EventFeed -----------------------------
(***************************************************************************)
(* The dashboard's event feed: SoulVaultEventWatcher (lib/onchain/         *)
(* watcher.ts) as SoulVaultEventsProvider drives it: history scans that    *)
(* callers share, live pollers with a block cursor, the selected           *)
(* organisation's contracts replaced as a whole, and the events kept in    *)
(* IndexedDB across page loads.                                            *)
(*                                                                         *)
(* Every contract emits one event in every block, so an event is a source  *)
(* and a block.  A source is its address, a number, because IndexedDB      *)
(* orders by it.  Code between two awaits is one step; what a promise      *)
(* wakes runs before anything else does.                                   *)
(***************************************************************************)
EXTENDS Naturals, FiniteSets

CONSTANTS
  DocSources,    \* contracts discovered one at a time (document, identity)
  Orgs, OrgSources,  \* the swarm and treasury contracts of each organisation
  Lag,           \* how far behind the chain an RPC backend may be
  MaxPersisted,  \* MAX_PERSISTED_EVENTS; 0: the browser has no IndexedDB
  MaxHead, MaxScans, MaxPollers, MaxReloads, MaxFailures   \* bounds

OrgAll == UNION {OrgSources[o] : o \in Orgs}
Sources == DocSources \cup OrgAll

ASSUME FeedAssumption ==
  /\ Sources \subseteq Nat /\ IsFiniteSet(Sources)
  /\ OrgSources \in [Orgs -> SUBSET Sources]
  /\ DocSources \cap OrgAll = {}
  /\ {Lag, MaxPersisted, MaxHead, MaxScans, MaxPollers, MaxReloads,
      MaxFailures} \subseteq Nat

VARIABLES
  head,       \* the newest block
  sources,    \* watcher.sources
  events, status,          \* the provider's state
  isLive, stopRef,         \* the live switch, and the poller its stop function ends
  scanSeq, inFlight,       \* scanSeq.current, inFlightScanRef.current
  scan, call,              \* scanHistory() promises and runScan() calls, by seq
  poller, pollers,         \* watchLive() loops, and how many were started
  persisted, hydrated,     \* the IndexedDB store; whether it was merged in
  purging,                 \* the sets of contracts whose events are to be deleted from it
  reloads, failures

provider == <<events, status>>
live == <<isLive, stopRef, poller, pollers>>
scans == <<scanSeq, inFlight, scan, call>>
store == <<persisted, hydrated, purging, reloads>>
vars == <<head, sources, provider, live, scans, store, failures>>

Blocks == 1 .. MaxHead
Event == Sources \X Blocks
Seqs == 1 .. MaxScans
None == 0
Statuses == {"idle", "loading", "ready", "error"}

NoScan == [begun |-> FALSE, running |-> FALSE, snap |-> {}, floor |-> 0]
\* A call of runScan waits for scan "of", whose inFlight entry had "count"
\* sources, and hands its caller on to "then".
NoCall == [at |-> "none", of |-> None, count |-> 0, then |-> "none"]
NoPoller == [on |-> FALSE, at |-> "rest", cursor |-> None, snap |-> {},
             latest |-> 0, first |-> None, since |-> {}, handed |-> {}]

\* The block an RPC backend may report, asked when the chain was at "from".
Heads(from) == (IF from > Lag THEN from - Lag ELSE 0) .. head
EventsOf(s, lo, hi) == {<<s, b>> : b \in {b \in Blocks : lo <= b /\ b <= hi}}
EventsIn(snap, lo, hi) == UNION {EventsOf(s, lo, hi) : s \in snap}

-----------------------------------------------------------------------------
(* IndexedDB *)

\* The store after the batch is put and the excess is pruned in the order of
\* the index on "source".
PersistEvents(batch) ==
  LET all == persisted \cup batch
      excess == IF Cardinality(all) > MaxPersisted
                THEN Cardinality(all) - MaxPersisted ELSE 0
  IN {all \ gone : gone \in {g \in SUBSET all :
        /\ Cardinality(g) = excess
        /\ \A e \in g, k \in all \ g : e[1] <= k[1]}}

KeptEvents(gone)  == persisted                  \* mutant: nothing is deleted
OtherEvents(gone) == {e \in persisted : e[1] \notin gone}

-----------------------------------------------------------------------------
(* runScan *)

Waiting(c) == {d \in Seqs : call[d].of = c /\ call[d].at \in {"own", "join"}}
\* A continuation that runs before any other task.
Woken == \E c \in Seqs : call[c].at = "back" /\ call[c].then = "again"

\* Call c finds no scan under way and starts one, or joins it; the other calls
\* are as in "calls".
OwnScan(c, then, snap, calls) ==
  /\ inFlight = None
  /\ scan' = [scan EXCEPT ![c] = [begun |-> TRUE, running |-> TRUE, snap |-> snap,
                                   floor |-> head]]
  /\ inFlight' = c
  /\ call' = [calls EXCEPT ![c] = [at |-> "own", of |-> c,
                                   count |-> Cardinality(snap), then |-> then]]
JoinScan(c, then, calls) ==
  /\ inFlight # None
  /\ call' = [calls EXCEPT ![c] = [at |-> "join", of |-> inFlight,
                                   count |-> call[inFlight].count, then |-> then]]
  /\ UNCHANGED <<inFlight, scan>>
Attempt(c, then, snap, calls) ==
  OwnScan(c, then, snap, calls) \/ JoinScan(c, then, calls)

\* The bound leaves room for the refreshes that callers still owe.
Room(k) ==
  scanSeq + k + Cardinality({c \in Seqs : call[c].then = "again"}) <= MaxScans

\* runScan for a caller that goes on to "then", with "snap" registered.
RunScan(then, snap, calls) ==
  /\ scanSeq' = scanSeq + 1
  /\ status' = "loading"
  /\ Attempt(scanSeq + 1, then, snap, calls)

Returned(d) == [call[d] EXCEPT !.at = IF @ # "none" /\ call[d].then # "none"
                                      THEN "back" ELSE "none", !.of = None]
NotCleared(c) == inFlight           \* mutant: the reference is kept
Cleared(c) == IF inFlight = c THEN None ELSE inFlight

\* Only the newest call may show a result: its own, or a joined one whose
\* sources are as many as are registered now.
Newest(d) == d = scanSeq
AnyCount(d) == TRUE                \* mutant: the source count is not compared
SameSources(d) == call[d].count = Cardinality(sources)
Shows(d) == Newest(d) /\ (call[d].at = "own" \/ SameSources(d))
Pauses(d) == Newest(d) /\ call[d].at = "join" /\ ~SameSources(d)

ScanSettles(c) ==
  /\ ~Woken
  /\ scan[c].running
  /\ scan' = [scan EXCEPT ![c].running = FALSE]
  /\ inFlight' = Cleared(c)
  /\ call' = [d \in Seqs |-> IF d \notin Waiting(c) THEN call[d]
                             ELSE IF Pauses(d) THEN [call[d] EXCEPT !.at = "pause"]
                             ELSE Returned(d)]
  /\ \E got \in [scan[c].snap -> Heads(scan[c].floor)] :
       LET batch == UNION {EventsOf(s, 1, got[s]) : s \in scan[c].snap}
       IN IF \E d \in Waiting(c) : Shows(d)
          THEN /\ events' = batch
               /\ status' = "ready"
               /\ IF call[scanSeq].at = "own"
                  THEN persisted' \in PersistEvents(batch)
                  ELSE UNCHANGED persisted
          ELSE UNCHANGED <<provider, persisted>>
  /\ UNCHANGED <<head, sources, live, scanSeq, hydrated, purging, reloads, failures>>

ScanFails(c) ==
  /\ ~Woken
  /\ scan[c].running
  /\ failures < MaxFailures
  /\ failures' = failures + 1
  /\ scan' = [scan EXCEPT ![c].running = FALSE]
  /\ inFlight' = Cleared(c)
  /\ call' = [d \in Seqs |-> IF d \in Waiting(c) THEN Returned(d) ELSE call[d]]
  /\ status' = IF \E d \in Waiting(c) : Newest(d) THEN "error" ELSE status
  /\ UNCHANGED <<head, sources, events, live, scanSeq, store>>

\* 750 ms after a shared scan that missed a source.
PauseEnds(c) ==
  /\ ~Woken
  /\ call[c].at = "pause"
  /\ IF Newest(c) THEN Attempt(c, call[c].then, sources, call)
     ELSE call' = [call EXCEPT ![c] = Returned(c)] /\ UNCHANGED <<inFlight, scan>>
  /\ UNCHANGED <<head, sources, provider, live, scanSeq, store, failures>>

\* replaceOrgSources refreshes once more after addSources has returned.
RefreshAgain(c) ==
  /\ call[c].at = "back" /\ call[c].then = "again"
  /\ RunScan("none", sources, [call EXCEPT ![c] = NoCall])
  /\ UNCHANGED <<head, sources, events, live, store, failures>>

-----------------------------------------------------------------------------
(* Callers *)

Refresh ==
  /\ ~Woken /\ Room(1)
  /\ RunScan("none", sources, call)
  /\ UNCHANGED <<head, sources, events, live, store, failures>>

AddSource(s) ==
  /\ ~Woken /\ Room(1)
  /\ s \in DocSources \ sources
  /\ sources' = sources \cup {s}
  /\ RunScan("none", sources', call)
  /\ UNCHANGED <<head, events, live, store, failures>>

ReplaceOrgSources(o) ==
  LET removed == sources \cap OrgAll IN
  /\ ~Woken /\ Room(2)
  /\ sources' = (sources \ OrgAll) \cup OrgSources[o]
  /\ events' = {e \in events : e[1] \notin removed}
  /\ purging' = purging \cup ({removed} \ {{}})
  /\ poller' = [p \in DOMAIN poller |->
                 [poller[p] EXCEPT !.since = @ \ removed]]
  /\ IF OrgSources[o] # {}
     THEN RunScan(IF removed # {} THEN "again" ELSE "none", sources', call)
     ELSE removed # {} /\ RunScan("none", sources', call)
  /\ UNCHANGED <<head, isLive, stopRef, pollers, persisted, hydrated, reloads, failures>>

\* The page does not wait for the deletion; one whose transaction fails never
\* takes place, and nobody is told.
DeletePersisted(gone) ==
  /\ ~Woken
  /\ gone \in purging
  /\ persisted' = OtherEvents(gone)
  /\ purging' = purging \ {gone}
  /\ UNCHANGED <<head, sources, provider, live, scans, hydrated, reloads, failures>>

\* No stop function is kept: of a call that still scans there is none yet.
StartLive ==
  /\ ~Woken /\ Room(1)
  /\ stopRef = None /\ pollers < MaxPollers
  /\ isLive' = TRUE
  /\ RunScan("live", sources, call)
  /\ UNCHANGED <<head, sources, events, stopRef, poller, pollers, store, failures>>

Watch(from) ==
  poller' = [poller EXCEPT ![pollers + 1] =
              [NoPoller EXCEPT !.on = TRUE, !.cursor = from, !.first = from,
                               !.since = sources]]

\* The scan has returned: watch from the block after the latest, or, if that
\* cannot be read, from the head that the first tick reads.
WatchLive(c) ==
  /\ ~Woken
  /\ call[c].at = "back" /\ call[c].then = "live"
  /\ pollers < MaxPollers
  /\ call' = [call EXCEPT ![c] = NoCall]
  /\ pollers' = pollers + 1
  /\ stopRef' = pollers + 1
  /\ \/ \E h \in Heads(head) : Watch(h + 1) /\ UNCHANGED failures
     \/ failures < MaxFailures /\ failures' = failures + 1 /\ Watch(None)
  /\ UNCHANGED <<head, sources, provider, isLive, scanSeq, inFlight, scan, store>>

StopLive ==
  /\ ~Woken
  /\ isLive
  /\ isLive' = FALSE
  /\ stopRef' = None
  /\ poller' = IF stopRef = None THEN poller
               ELSE [poller EXCEPT ![stopRef].on = FALSE]
  /\ UNCHANGED <<head, sources, provider, pollers, scans, store, failures>>

-----------------------------------------------------------------------------
(* A poller's tick *)

\* A timer that still runs finds no tick under way and reads the head.
TickHead(p) ==
  /\ ~Woken
  /\ poller[p].on /\ poller[p].at = "rest"
  /\ \E h \in Heads(head) :
       LET unset == poller[p].cursor = None
       IN /\ unset \/ h >= poller[p].cursor
          /\ poller' = [poller EXCEPT ![p].at = "logs", ![p].latest = h,
                          ![p].snap = sources,
                          ![p].cursor = IF unset THEN h ELSE @,
                          ![p].first = IF unset THEN h ELSE @]
  /\ UNCHANGED <<head, sources, provider, isLive, stopRef, pollers, scans, store,
                 failures>>

LeapBlock(latest) == latest + 2     \* mutant: off by one
NextBlock(latest) == latest + 1
\* onEvents merges the batch into the feed and persists it.
Deliver(p, hi) ==
  LET batch == EventsIn(poller[p].snap, poller[p].cursor, hi)
  IN /\ events' = events \cup batch
     /\ persisted' \in PersistEvents(batch)
     /\ poller' = [poller EXCEPT ![p].at = "rest",
                                 ![p].cursor = NextBlock(poller[p].latest),
                                 ![p].handed = @ \cup batch]
     /\ UNCHANGED <<head, sources, status, isLive, stopRef, pollers, scans, hydrated,
                    purging, reloads, failures>>

TickDelivers(p) == ~Woken /\ poller[p].at = "logs" /\ Deliver(p, poller[p].latest)

\* The backend that answers has not seen "latest": ask again, one block less.
TickRetries(p) ==
  /\ ~Woken
  /\ poller[p].at = "logs"
  /\ failures < MaxFailures
  /\ failures' = failures + 1
  /\ poller' = [poller EXCEPT ![p].at = "retry", ![p].snap = sources]
  /\ UNCHANGED <<head, sources, provider, isLive, stopRef, pollers, scans, store>>

\* The retry's answer: the cursor is set back to "latest", and then moved past it.
RetryDelivers(p) == ~Woken /\ poller[p].at = "retry" /\ Deliver(p, poller[p].latest - 1)

\* The retry failed too: the tick ends with the cursor where it was.
TickFails(p) ==
  /\ ~Woken
  /\ poller[p].at = "retry"
  /\ failures < MaxFailures
  /\ failures' = failures + 1
  /\ poller' = [poller EXCEPT ![p].at = "rest"]
  /\ UNCHANGED <<head, sources, provider, isLive, stopRef, pollers, scans, store>>

-----------------------------------------------------------------------------
(* The chain, the page and the store *)

Mine ==
  /\ ~Woken
  /\ head < MaxHead
  /\ head' = head + 1
  /\ UNCHANGED <<sources, provider, live, scans, store, failures>>

\* The persisted events, once read, are merged into what is shown.
Hydrate ==
  /\ ~Woken
  /\ ~hydrated
  /\ hydrated' = TRUE
  /\ events' = events \cup persisted
  /\ UNCHANGED <<head, sources, status, live, scans, persisted, purging, reloads,
                 failures>>

NoScans == [c \in Seqs |-> NoScan]
NoCalls == [c \in Seqs |-> NoCall]
NoPollers == [p \in 1 .. MaxPollers |-> NoPoller]

\* The page is closed and opened: only the chain and the store survive.
Reload ==
  /\ ~Woken
  /\ reloads < MaxReloads
  /\ reloads' = reloads + 1
  /\ sources' = {} /\ events' = {} /\ status' = "idle"
  /\ isLive' = FALSE /\ stopRef' = None /\ poller' = NoPollers /\ pollers' = 0
  /\ scanSeq' = 0 /\ inFlight' = None /\ scan' = NoScans /\ call' = NoCalls
  /\ hydrated' = FALSE /\ purging' = {}
  /\ UNCHANGED <<head, persisted, failures>>

Init ==
  /\ head = 0 /\ sources = {} /\ events = {} /\ status = "idle"
  /\ isLive = FALSE /\ stopRef = None /\ poller = NoPollers /\ pollers = 0
  /\ scanSeq = 0 /\ inFlight = None /\ scan = NoScans /\ call = NoCalls
  /\ persisted = {} /\ hydrated = FALSE /\ purging = {}
  /\ reloads = 0 /\ failures = 0

Next ==
  \/ Refresh
  \/ \E s \in DocSources : AddSource(s)
  \/ \E o \in Orgs : ReplaceOrgSources(o)
  \/ \E c \in Seqs : ScanSettles(c) \/ ScanFails(c) \/ PauseEnds(c)
                     \/ RefreshAgain(c) \/ WatchLive(c)
  \/ StartLive \/ StopLive
  \/ \E p \in 1 .. MaxPollers : TickHead(p) \/ TickDelivers(p) \/ TickRetries(p)
                                \/ RetryDelivers(p) \/ TickFails(p)
  \/ \E gone \in purging : DeletePersisted(gone)
  \/ Mine \/ Hydrate \/ Reload

Spec == Init /\ [][Next]_vars

\* An RPC request is answered or refused, timers fire, and what a promise wakes
\* runs; nobody is obliged to refresh, switch or mine.
Proceed == \E c \in Seqs : ScanSettles(c) \/ ScanFails(c) \/ PauseEnds(c) \/ RefreshAgain(c)

FairSpec == Spec /\ WF_vars(Proceed)

-----------------------------------------------------------------------------
(* Properties *)

TypeOK ==
  /\ head \in 0 .. MaxHead /\ sources \subseteq Sources
  /\ events \subseteq Event /\ status \in Statuses
  /\ isLive \in BOOLEAN /\ stopRef \in 0 .. pollers
  /\ scanSeq \in 0 .. MaxScans /\ inFlight \in 0 .. scanSeq
  /\ \A c \in Seqs :
       /\ call[c].at \in {"none", "own", "join", "pause", "back"}
       /\ call[c].of \in 0 .. scanSeq
  /\ \A p \in 1 .. MaxPollers : poller[p].cursor \in 0 .. MaxHead + 1
  /\ persisted \subseteq Event /\ Cardinality(persisted) <= MaxPersisted
  /\ purging \subseteq SUBSET OrgAll

Idle == \A c \in Seqs : call[c].at = "none"

\* Once every runScan call has returned and the page says "ready", it shows
\* every event of every registered contract up to the block at which the last
\* scan began, as far as the backends had seen it: a scan that began before a
\* source was registered never has the last word.  Without a second refresh,
\* which only an organisation that has contracts brings, it may.
ReadyShowsSources ==
  (Idle /\ status = "ready") =>
    \E c \in Seqs :
      /\ scan[c].begun /\ ~\E d \in c + 1 .. MaxScans : scan[d].begun
      /\ \A s \in sources :
           EventsOf(s, 1, IF scan[c].floor > Lag THEN scan[c].floor - Lag ELSE 0)
             \subseteq events

\* What the watcher's cursor has passed has been handed to the page, for every
\* contract registered since the poller started.  (watcher.ts says so of the
\* block at which a backend lagged: "rewind the cursor to cover the boundary
\* block next tick".)
CursorCovers ==
  \A p \in 1 .. MaxPollers :
    poller[p].first # None /\ poller[p].first < poller[p].cursor =>
      EventsIn(poller[p].since, poller[p].first, poller[p].cursor - 1)
        \subseteq poller[p].handed

\* As long as no request was refused, the cursor covers what it has passed,
\* whatever the pollers, the backends behind the chain, the reloads and the
\* changes of organisation in between.
UnrefusedCursorCovers == failures = 0 => CursorCovers

\* The pipeline reflects exactly the selected organisation: with no scan
\* outstanding, nothing is shown of a contract that is not registered
\* (org-event-sources-bridge.tsx).
OrgSliceExact == Idle => \A e \in events : e[1] \in sources

\* The store keeps no event of a contract that this page has dropped, however
\* scans of the old organisation overlap with the change and whatever deletion
\* is late, unless it has not taken place (which may be never): as long as
\* nothing was polled.  A page just reloaded has registered nothing yet.
StoreFollowsSources ==
  reloads = 0 /\ pollers = 0 => \A e \in persisted : e[1] \in sources \cup UNION purging

\* The same when pollers run: the org slice of the cache must not leak the
\* previous organisation's events (event-store.ts).
StoreExact == reloads = 0 => \A e \in persisted : e[1] \in sources \cup UNION purging

\* With the Live switch off and no startLive call running, nothing polls.
NothingPolls ==
  ~isLive /\ (\A c \in Seqs : call[c].then # "live" \/ call[c].at = "none")
    => \A p \in 1 .. MaxPollers : ~poller[p].on

\* A scan appends to what the feed shows; only a change of organisation or a
\* reload takes events away.
ScansAppend ==
  [][(sources \subseteq sources' /\ reloads' = reloads) => events \subseteq events']_vars

\* The store gives up its oldest events, by block, when it is over its cap.
PrunesOldest ==
  [][\A e \in persisted \ persisted' : \A k \in persisted' :
        (e[1] \in sources' => e[2] <= k[2])]_vars

\* A page that shows "loading" comes to show a result or an error.
ScansSettle == (status = "loading") ~> (status # "loading")

=============================================================================
