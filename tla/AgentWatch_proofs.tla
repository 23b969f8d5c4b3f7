-------------------------- MODULE AgentWatch_proofs --------------------------
(***************************************************************************)
(* Theorems about the machine of one agent, for any number of commands     *)
(* that run on it at once, any history of the chain, and any interruption. *)
(***************************************************************************)
EXTENDS AgentWatch, FiniteSetTheorems, SequenceTheorems, WellFoundedInduction, TLAPS

-----------------------------------------------------------------------------
(* The oldest request of a batch.                                          *)

Less == {x \in Nat \X Nat : x[1] < x[2]}

LEMMA LessRelation == OpToRel(<, Nat) = Less
BY Zenon DEF OpToRel, Less

LEMMA Least ==
  ASSUME NEW S \in SUBSET Nat, S # {}
  PROVE  /\ Min(S) \in S
         /\ \A c \in S : Min(S) <= c
<1>1. IsWellFoundedOn(OpToRel(<, Nat), Nat)
  BY NatLessThanWellFounded
<1>2. IsWellFoundedOn(Less, Nat)
  BY <1>1, LessRelation
<1>3. PICK b \in S : \A c \in S : ~ (<<c, b>> \in Less)
  BY <1>2, WFMin
<1>4. ASSUME NEW c \in S PROVE b <= c
  <2>1. c \in Nat /\ b \in Nat /\ <<c, b>> \in Nat \X Nat
    OBVIOUS
  <2>2. ~ (<<c, b>>[1] < <<c, b>>[2])
    BY <1>3, <2>1 DEF Less
  <2> QED
    BY <2>1, <2>2
<1> QED
  BY <1>4 DEF Min

-----------------------------------------------------------------------------
(* Types.                                                                  *)

Busy == {"exec", "encrypt", "write", "upload", "map", "record"}

(* A response is to a request of the batch, and holds the ciphertext that  *)
(* the step it has reached uses.                                           *)
Coherent(p) ==
    LET w == watcher[p] IN
    /\ p \notin Watcher => w.at = "down"
    /\ w.todo \subseteq BackupBlocks
    /\ w.at \in Busy => w.todo # {}
    /\ w.at = "write" => w.seal \in Cipher
    /\ w.at = "upload" => sealed \in Cipher /\ w.seal \in Cipher
    /\ w.at \in {"map", "record"} => w.seal \in Cipher /\ w.locator \in Cipher

TypeInv == TypeOK /\ \A p \in Process : Coherent(p)

LEMMA RestTyped == Down \in Watching /\ Idle \in Posting
<1>1. /\ {} \in SUBSET Nat /\ None \in Cipher \cup {None}
      /\ "down" \in WatchStep /\ 0 \in Nat
  BY DEF WatchStep
<1>2. Down \in Watching
  BY <1>1 DEF Down, Watching
<1>3. Idle \in Posting
  BY EpochAssumption DEF Idle, Posting, PostStep, Mode
<1> QED
  BY <1>2, <1>3

LEMMA TypeInit == Init => TypeInv
<1> SUFFICES ASSUME Init PROVE TypeInv
  OBVIOUS
<1>1. RegistryTypeOK
  <2>1. PICK k \in Pubkey : k = CHOOSE x \in Pubkey : TRUE
    BY AccountAssumption
  <2>2. roster = {<<a, k>> : a \in {Me, Peer}}
    BY <2>1 DEF Init
  <2>3. roster \subseteq Account \X Pubkey
    BY <2>2, AccountAssumption
  <2>4. version = 2 /\ epoch = 0 /\ rotations = {}
    BY DEF Init
  <2> QED
    BY <2>3, <2>4, EpochAssumption DEF RegistryTypeOK
<1>2. Down \in Watching /\ Idle \in Posting
  BY RestTyped
<1>3. watcher \in [Process -> Watching] /\ poster \in [Process -> Posting]
  BY <1>2 DEF Init
<1>4. printed \in [Process -> Seq([block : Nat, whole : BOOLEAN])] /\ log \in Seq(Event)
  BY DEF Init
<1>5. crashes \in 0..MaxCrash
  BY BlockAssumption DEF Init
<1>6. \A p \in Process : Coherent(p)
  BY DEF Init, Coherent, Down, Busy
<1> QED
  BY <1>1, <1>3, <1>4, <1>5, <1>6 DEF Init, TypeInv, TypeOK

(* A block more: those before it stay as they are.                         *)
LEMMA Grows ==
  ASSUME TypeInv, NEW e \in Event, Mine(e)
  PROVE  /\ log' \in Seq(Event) /\ Height' = Height + 1 /\ Height \in Nat
         /\ \A b \in 1..Height : log'[b] = log[b]
         /\ log'[Height + 1] = e
         /\ BackupBlocks \subseteq BackupBlocks'
<1>1. log \in Seq(Event) /\ log' = Append(log, e) /\ Len(log) \in Nat
  BY DEF TypeInv, TypeOK, Mine
<1>2. /\ log' \in Seq(Event) /\ Len(log') = Len(log) + 1
      /\ \A b \in 1..Len(log) : log'[b] = log[b]
      /\ log'[Len(log) + 1] = e
  BY <1>1, AppendProperties
<1> QED
  BY <1>1, <1>2 DEF Height, BackupBlocks

(* The oldest open request is a block of the chain, a backup request.      *)
LEMMA Answered ==
  ASSUME TypeInv, NEW p \in Process, watcher[p].todo # {}
  PROVE  /\ Answering(p) \in watcher[p].todo
         /\ Answering(p) \in 1..Height
         /\ log[Answering(p)] \in Event
         /\ log[Answering(p)].type = "BackupRequested"
         /\ AskedEpoch(p) \in Epoch
<1>1. /\ watcher[p].todo \subseteq BackupBlocks /\ BackupBlocks \subseteq Nat
      /\ log \in Seq(Event) /\ Height \in Nat
  BY DEF TypeInv, TypeOK, Coherent, BackupBlocks, Height
<1>2. Answering(p) \in watcher[p].todo
  BY <1>1, Least DEF Answering
<1>3. Answering(p) \in 1..Height /\ log[Answering(p)].type = "BackupRequested"
  BY <1>1, <1>2 DEF BackupBlocks
<1>4. log[Answering(p)] \in Event
  BY <1>1, <1>3, ElementOfSeq DEF Height
<1>5. log[Answering(p)].epoch \in Epoch
  BY <1>3, <1>4 DEF Event
<1> QED
  BY <1>2, <1>3, <1>4, <1>5 DEF AskedEpoch

(* The registry's types, for the three operations of the chain.            *)
LEMMA TypeRegistry ==
  ASSUME RegistryTypeOK,
         \/ \E a \in Account, k \in Pubkey : Admit(a, k)
         \/ \E a \in Account : Expel(a)
         \/ \E e \in Epoch, b \in Ref : Rotate(e, b)
  PROVE  RegistryTypeOK'
BY DEF RegistryTypeOK, Admit, Expel, Rotate

(* What other parties send leaves the machine alone and adds a block.      *)
Foreign(e) == e.type \notin {"MemberFileMappingUpdated", "AgentMessagePosted"}

LEMMA OthersStep ==
  ASSUME TypeInv, Others
  PROVE  /\ UNCHANGED <<lastSeq, files, watcher, poster, ghosts>>
         /\ RegistryTypeOK' /\ treasury' \in Treasury \cup {None}
         /\ \E e \in Event : Foreign(e) /\ Mine(e)
<1>1. /\ RegistryTypeOK /\ treasury \in Treasury \cup {None} /\ epoch \in Epoch
  BY DEF TypeInv, TypeOK, RegistryTypeOK
<1>2. CASE \E a \in {Me, Peer} : Join(a) \/ RemoveMember(a)
  <2>1. /\ [type |-> "JoinApproved"] \in Event /\ Foreign([type |-> "JoinApproved"])
        /\ [type |-> "MemberRemoved"] \in Event /\ Foreign([type |-> "MemberRemoved"])
    BY DEF Event, Foreign
  <2> QED
    BY <1>1, <1>2, <2>1, TypeRegistry, AccountAssumption DEF Join, RemoveMember, Emit
<1>3. ASSUME NEW e \in Epoch, RotateEpoch(e)
      PROVE  /\ UNCHANGED <<lastSeq, files, watcher, poster, ghosts, treasury>>
             /\ RegistryTypeOK' /\ \E x \in Event : Foreign(x) /\ Mine(x)
  <2> DEFINE x == [type |-> "EpochRotated", epoch |-> e]
  <2>1. x \in Event /\ Foreign(x)
    BY DEF Event, Foreign
  <2>2. Mine(x)
    BY <1>3 DEF RotateEpoch, Emit
  <2> QED
    BY <1>1, <1>3, <2>1, <2>2, TypeRegistry DEF RotateEpoch
<1>4. CASE RequestBackup
  <2> DEFINE x == [type |-> "BackupRequested", epoch |-> epoch]
  <2>1. x \in Event /\ Foreign(x)
    BY <1>1 DEF Event, Foreign
  <2>2. Mine(x)
    BY <1>4 DEF RequestBackup, Emit
  <2> QED
    BY <1>1, <1>4, <2>1, <2>2 DEF RequestBackup, registry, RegistryTypeOK
<1>5. CASE \E t \in Treasury \cup {None} : SetTreasury(t)
  <2>1. [type |-> "TreasurySet"] \in Event /\ Foreign([type |-> "TreasurySet"])
    BY DEF Event, Foreign
  <2> QED
    BY <1>1, <1>5, <2>1 DEF SetTreasury, registry, RegistryTypeOK, Emit
<1>6. CASE ApproveFundRequest
  <2> DEFINE x == [type |-> "FundRequestApproved", treasury |-> treasury]
  <2>1. x \in Event /\ Foreign(x)
    BY <1>1, <1>6 DEF Event, Foreign, ApproveFundRequest
  <2>2. Mine(x)
    BY <1>6 DEF ApproveFundRequest, Emit
  <2> QED
    BY <1>1, <1>6, <2>1, <2>2 DEF ApproveFundRequest, registry, RegistryTypeOK
<1> QED
  BY <1>1, <1>2, <1>3, <1>4, <1>5, <1>6 DEF Others

(* A watcher is at another step, and is otherwise as before.               *)
LEMMA Gone ==
  ASSUME TypeInv, NEW p \in Process, NEW step \in WatchStep, Go(p, step)
  PROVE  /\ watcher' \in [Process -> Watching]
         /\ watcher'[p].at = step
         /\ watcher'[p].start = watcher[p].start
         /\ watcher'[p].cursor = watcher[p].cursor
         /\ watcher'[p].latest = watcher[p].latest
         /\ watcher'[p].todo = watcher[p].todo
         /\ watcher'[p].seal = watcher[p].seal
         /\ watcher'[p].locator = watcher[p].locator
         /\ \A q \in Process : q # p => watcher'[q] = watcher[q]
<1>1. watcher[p] \in Watching /\ watcher \in [Process -> Watching]
  BY DEF TypeInv, TypeOK
<1> DEFINE w == [watcher[p] EXCEPT !.at = step]
<1>2. /\ w \in Watching /\ w.at = step
      /\ w.start = watcher[p].start /\ w.cursor = watcher[p].cursor
      /\ w.latest = watcher[p].latest /\ w.todo = watcher[p].todo
      /\ w.seal = watcher[p].seal /\ w.locator = watcher[p].locator
  BY <1>1 DEF Watching
<1>3. watcher' = [watcher EXCEPT ![p] = w]
  BY DEF Go
<1> HIDE DEF w
<1> QED
  BY <1>1, <1>2, <1>3

(* A request is done with: the watcher takes the next one.                 *)
LEMMA Finished ==
  ASSUME TypeInv, NEW p \in Process, Finish(p)
  PROVE  /\ watcher' \in [Process -> Watching]
         /\ watcher'[p].at = "handle"
         /\ watcher'[p].start = watcher[p].start
         /\ watcher'[p].cursor = watcher[p].cursor
         /\ watcher'[p].latest = watcher[p].latest
         /\ watcher'[p].todo \subseteq watcher[p].todo
         /\ \A q \in Process : q # p => watcher'[q] = watcher[q]
<1>1. watcher[p] \in Watching /\ watcher \in [Process -> Watching]
  BY DEF TypeInv, TypeOK
<1> DEFINE w == [watcher[p] EXCEPT !.todo = @ \ {Answering(p)}, !.at = "handle"]
<1>2. /\ w \in Watching /\ w.at = "handle"
      /\ w.start = watcher[p].start /\ w.cursor = watcher[p].cursor
      /\ w.latest = watcher[p].latest /\ w.todo \subseteq watcher[p].todo
  BY <1>1 DEF Watching, WatchStep
<1>3. watcher' = [watcher EXCEPT ![p] = w]
  BY DEF Finish
<1> HIDE DEF w
<1> QED
  BY <1>1, <1>2, <1>3

(* The others stay coherent when one moves and the chain grows.            *)
LEMMA OthersCoherent ==
  ASSUME TypeInv, NEW p \in Process,
         UNCHANGED log \/ \E e \in Event : Mine(e),
         \A q \in Process : q # p => watcher'[q] = watcher[q],
         sealed \in Cipher => sealed' \in Cipher,
         Coherent(p)'
  PROVE  /\ \A q \in Process : Coherent(q)'
         /\ log' \in Seq(Event)
<1>1. BackupBlocks \subseteq BackupBlocks' /\ log' \in Seq(Event)
  BY Grows DEF BackupBlocks, Height, TypeInv, TypeOK
<1>2. ASSUME NEW q \in Process, q # p PROVE Coherent(q)'
  BY <1>1, <1>2 DEF TypeInv, Coherent
<1> QED
  BY <1>1, <1>2

LEMMA TypeQuiet ==
  ASSUME TypeInv, Others \/ ImportKey \/ PushBackup
  PROVE  TypeInv'
<1>1. CASE Others
  <2>1. PICK e \in Event : Mine(e)
    BY <1>1, OthersStep
  <2>2. log' \in Seq(Event) /\ BackupBlocks \subseteq BackupBlocks'
    BY <2>1, Grows
  <2>3. /\ UNCHANGED <<lastSeq, keys, artifact, sealed, uploaded, lastBackup, nonces,
                       watcher, poster, printed, failed, crashes>>
        /\ RegistryTypeOK' /\ treasury' \in Treasury \cup {None}
    BY <1>1, OthersStep DEF files, ghosts
  <2> QED
    BY <2>2, <2>3 DEF TypeInv, TypeOK, Coherent
<1>2. CASE ImportKey
  BY <1>2 DEF ImportKey, TypeInv, TypeOK, Coherent, BackupBlocks, Height, RegistryTypeOK,
              chain, registry, ghosts
<1>3. CASE PushBackup
  <2>1. /\ UNCHANGED <<roster, version, epoch, rotations, log, treasury, lastSeq, keys,
                       artifact, sealed, watcher, poster, printed, failed, crashes>>
        /\ nonces \in Nat /\ Height \in Nat /\ nonces' = nonces + 1
    BY <1>3 DEF PushBackup, chain, registry, ghosts, TypeInv, TypeOK, Height
  <2>2. Seal(Height, Test) \in Cipher
    BY <2>1 DEF Seal, Cipher
  <2>3. /\ uploaded' = uploaded \cup {Seal(Height, Test)}
        /\ lastBackup' = [by |-> "push", manifest |-> Seal(Height, Test),
                          rootHash |-> Seal(Height, Test)]
    BY <1>3 DEF PushBackup
  <2> HIDE DEF Seal
  <2>4. uploaded' \subseteq Cipher
    BY <2>2, <2>3 DEF TypeInv, TypeOK
  <2>5. lastBackup' \in {None} \cup [by : {"watch", "push"}, manifest : Cipher, rootHash : Cipher]
    BY <2>2, <2>3
  <2> QED
    BY <2>1, <2>4, <2>5 DEF TypeInv, TypeOK, RegistryTypeOK, Coherent, BackupBlocks, Height
<1> QED
  BY <1>1, <1>2, <1>3

FilesOK ==
    /\ nonces \in Nat /\ keys \subseteq Epoch
    /\ artifact \in Nat \cup {None} /\ sealed \in Cipher \cup {None}
    /\ uploaded \subseteq Cipher
    /\ lastBackup \in {None} \cup [by : {"watch", "push"}, manifest : Cipher, rootHash : Cipher]

GhostsOK ==
    /\ printed \in [Process -> Seq([block : Nat, whole : BOOLEAN])]
    /\ failed \subseteq Nat
    /\ crashes \in 0..MaxCrash

LEMMA TypeWatcher ==
  ASSUME TypeInv, NEW p \in Process,
         UNCHANGED <<registry, treasury, lastSeq, poster>>,
         UNCHANGED log \/ \E e \in Event : Mine(e),
         watcher' \in [Process -> Watching],
         \A q \in Process : q # p => watcher'[q] = watcher[q],
         sealed \in Cipher => sealed' \in Cipher,
         Coherent(p)', FilesOK', GhostsOK'
  PROVE  TypeInv'
<1>1. (\A q \in Process : Coherent(q)') /\ log' \in Seq(Event)
  BY OthersCoherent
<1> QED
  BY <1>1 DEF TypeInv, TypeOK, RegistryTypeOK, registry, FilesOK, GhostsOK

LEMMA Parts ==
  ASSUME TypeInv
  PROVE  /\ FilesOK /\ GhostsOK
         /\ UNCHANGED files => FilesOK'
         /\ UNCHANGED ghosts => GhostsOK'
         /\ UNCHANGED log => BackupBlocks' = BackupBlocks
BY DEF TypeInv, TypeOK, FilesOK, GhostsOK, files, ghosts, BackupBlocks, Height

(* The bookkeeping of a watcher: started, polling, printing, stopped.      *)
LEMMA SpanIndex ==
  ASSUME NEW from \in Nat, NEW to \in Nat
  PROVE  /\ Span(from, to) \in Seq(Nat)
         /\ DOMAIN Span(from, to) = 1..(to + 1 - FirstOf(from))
         /\ Len(Span(from, to)) = IF FirstOf(from) <= to THEN to + 1 - FirstOf(from) ELSE 0
         /\ \A i \in DOMAIN Span(from, to) :
              Span(from, to)[i] = FirstOf(from) + i - 1 /\ Span(from, to)[i] \in 1..to
<1> DEFINE n == to + 1 - FirstOf(from)
<1>1. FirstOf(from) \in Nat /\ FirstOf(from) >= 1 /\ n \in Int
  BY DEF FirstOf
<1> HIDE DEF n
<1>2. \A i \in 1..n : FirstOf(from) + i - 1 \in Nat /\ FirstOf(from) + i - 1 <= to
  BY <1>1 DEF n
<1> DEFINE k == IF FirstOf(from) <= to THEN n ELSE 0
<1>3. k \in Nat /\ 1..n = 1..k
  BY <1>1 DEF n
<1>4. Span(from, to) = [i \in 1..k |-> FirstOf(from) + i - 1]
  BY <1>3 DEF Span, n
<1> HIDE DEF k
<1>5. Span(from, to) \in [1..k -> Nat]
  BY <1>2, <1>3, <1>4
<1>6. Span(from, to) \in Seq(Nat) /\ Len(Span(from, to)) = k
  BY <1>3, <1>5, SeqDef, LenProperties
<1> QED
  BY <1>1, <1>2, <1>3, <1>4, <1>6 DEF n, k

LEMMA TypeStart ==
  ASSUME TypeInv, NEW p \in Watcher, StartWatch(p, DefaultStart) \/ StartWatch(p, 0)
  PROVE  TypeInv'
<1>1. p \in Process /\ watcher \in [Process -> Watching] /\ Height \in Nat
  BY ProcessAssumption DEF TypeInv, TypeOK, Height
<1>2. PICK from \in Nat : StartWatch(p, from)
  BY <1>1, BlockAssumption DEF DefaultStart
<1> DEFINE w == [Down EXCEPT !.at = "poll", !.start = from, !.cursor = from]
<1>3. Down \in Watching /\ Down.todo = {}
  BY RestTyped DEF Down
<1>4. w \in Watching /\ w.at = "poll" /\ w.todo = {}
  BY <1>3 DEF Watching, WatchStep
<1>6. watcher' = [watcher EXCEPT ![p] = w]
  BY <1>2 DEF StartWatch
<1> HIDE DEF w
<1>7. watcher' \in [Process -> Watching] /\ watcher'[p] = w
      /\ \A q \in Process : q # p => watcher'[q] = watcher[q]
  BY <1>1, <1>4, <1>6
<1>8. Coherent(p)'
  BY <1>1, <1>4, <1>7 DEF Coherent, Busy
<1>9. printed' \in [Process -> Seq([block : Nat, whole : BOOLEAN])]
  BY <1>1, <1>2, Parts DEF StartWatch, GhostsOK
<1>10. FilesOK' /\ GhostsOK'
  BY <1>2, <1>9, Parts DEF StartWatch, GhostsOK
<1> QED
  BY <1>1, <1>2, <1>7, <1>8, <1>10, TypeWatcher DEF StartWatch, chain, files

LEMMA TypeStop ==
  ASSUME TypeInv, NEW p \in Process, StopWatch(p)
  PROVE  TypeInv'
<1>1. watcher \in [Process -> Watching] /\ Down \in Watching
  BY RestTyped DEF TypeInv, TypeOK
<1>2. watcher' \in [Process -> Watching] /\ watcher'[p] = Down
      /\ \A q \in Process : q # p => watcher'[q] = watcher[q]
  BY <1>1 DEF StopWatch
<1>3. Coherent(p)'
  BY <1>2 DEF Coherent, Busy, Down
<1>4. FilesOK' /\ GhostsOK'
  BY Parts, BlockAssumption DEF StopWatch, GhostsOK
<1> QED
  BY <1>2, <1>3, <1>4, TypeWatcher DEF StopWatch, chain, files

(* A watcher scans the chain up to its head and prints what it finds.      *)
LEMMA TypeScan ==
  ASSUME TypeInv, NEW p \in Process, Poll(p) \/ Handle(p) \/ BatchDone(p)
  PROVE  TypeInv'
<1>1. /\ watcher[p] \in Watching /\ watcher \in [Process -> Watching]
      /\ Height \in Nat /\ Coherent(p)
  BY DEF TypeInv, TypeOK, Height
<1>2. CASE Poll(p)
  <2> DEFINE w == [watcher[p] EXCEPT !.latest = Height, !.at = "treasury"]
  <2>1. w \in Watching /\ w.at = "treasury" /\ w.todo = watcher[p].todo
    BY <1>1 DEF Watching, WatchStep
  <2>2. watcher' = [watcher EXCEPT ![p] = w] /\ watcher[p].at = "poll"
    BY <1>2 DEF Poll
  <2> HIDE DEF w
  <2>3. watcher' \in [Process -> Watching] /\ watcher'[p] = w
        /\ \A q \in Process : q # p => watcher'[q] = watcher[q]
    BY <1>1, <2>1, <2>2
  <2>4. UNCHANGED log /\ BackupBlocks' = BackupBlocks /\ FilesOK' /\ GhostsOK'
    BY <1>2, Parts DEF Poll, chain
  <2>5. Coherent(p)'
    BY <1>1, <2>1, <2>2, <2>3, <2>4 DEF Coherent, Busy
  <2> QED
    BY <1>2, <2>3, <2>4, <2>5, TypeWatcher DEF Poll, chain, files
<1>3. CASE Handle(p)
  <2> DEFINE batch == BlockRange(watcher[p])
             told == [i \in DOMAIN batch |-> Told(batch[i])]
             w == [watcher[p] EXCEPT !.todo = Range(batch) \cap BackupBlocks, !.at = "handle"]
  <2>1. batch \in Seq(Nat)
    BY <1>1, SpanIndex DEF BlockRange, Watching
  <2>2. told \in Seq([block : Nat, whole : BOOLEAN])
    <3>1. Len(batch) \in Nat /\ DOMAIN batch = 1..Len(batch) /\ batch \in [1..Len(batch) -> Nat]
      BY <2>1, LenProperties
    <3> HIDE DEF batch
    <3>2. \A i \in 1..Len(batch) : Told(batch[i]) \in [block : Nat, whole : BOOLEAN]
      BY <3>1 DEF Told
    <3> QED
      BY <3>1, <3>2, SeqDef
  <2>3. printed' = [printed EXCEPT ![p] = printed[p] \o told]
    BY <1>3 DEF Handle
  <2> HIDE DEF told
  <2>4. printed' \in [Process -> Seq([block : Nat, whole : BOOLEAN])]
    <3>1. printed \in [Process -> Seq([block : Nat, whole : BOOLEAN])]
      BY DEF TypeInv, TypeOK
    <3>2. printed[p] \o told \in Seq([block : Nat, whole : BOOLEAN])
      BY <2>2, <3>1, ConcatProperties
    <3> QED
      BY <2>3, <3>1, <3>2
  <2>5. BackupBlocks \in SUBSET Nat
    BY <1>1 DEF BackupBlocks
  <2>6. w \in Watching /\ w.at = "handle" /\ w.todo \subseteq BackupBlocks
    <3> DEFINE todo == Range(batch) \cap BackupBlocks
    <3>1. todo \in SUBSET Nat /\ todo \subseteq BackupBlocks
      BY <2>5
    <3>2. w = [watcher[p] EXCEPT !.todo = todo, !.at = "handle"]
      OBVIOUS
    <3> HIDE DEF todo, w
    <3> QED
      BY <1>1, <3>1, <3>2 DEF Watching, WatchStep
  <2>7. watcher' = [watcher EXCEPT ![p] = w] /\ watcher[p].at = "treasury"
    BY <1>3 DEF Handle
  <2> HIDE DEF w
  <2>8. watcher' \in [Process -> Watching] /\ watcher'[p] = w
        /\ \A q \in Process : q # p => watcher'[q] = watcher[q]
    BY <1>1, <2>6, <2>7
  <2>9. UNCHANGED log /\ BackupBlocks' = BackupBlocks /\ FilesOK' /\ GhostsOK'
    BY <1>3, <2>4, Parts DEF Handle, chain, GhostsOK
  <2>10. Coherent(p)'
    BY <1>1, <2>6, <2>7, <2>8, <2>9 DEF Coherent, Busy
  <2> QED
    BY <1>3, <2>8, <2>9, <2>10, TypeWatcher DEF Handle, chain, files
<1>4. CASE BatchDone(p)
  <2> DEFINE next == NextCursor(watcher[p])
             w == [watcher[p] EXCEPT !.cursor = next, !.at = "poll"]
  <2>1. w \in Watching /\ w.at = "poll" /\ w.todo = watcher[p].todo
    <3>1. next \in Nat
      BY <1>1 DEF Watching, NextCursor
    <3> HIDE DEF next
    <3> QED
      BY <1>1, <3>1 DEF Watching, WatchStep
  <2>2. watcher' = [watcher EXCEPT ![p] = w] /\ watcher[p].at = "handle"
    BY <1>4 DEF BatchDone
  <2> HIDE DEF w
  <2>3. watcher' \in [Process -> Watching] /\ watcher'[p] = w
        /\ \A q \in Process : q # p => watcher'[q] = watcher[q]
    BY <1>1, <2>1, <2>2
  <2>4. UNCHANGED log /\ BackupBlocks' = BackupBlocks /\ FilesOK' /\ GhostsOK'
    BY <1>4, Parts DEF BatchDone, chain
  <2>5. Coherent(p)'
    BY <1>1, <2>1, <2>2, <2>3, <2>4 DEF Coherent, Busy
  <2> QED
    BY <1>4, <2>3, <2>4, <2>5, TypeWatcher DEF BatchDone, chain, files
<1> QED
  BY <1>2, <1>3, <1>4

(* A response that fails leaves the machine's files as the step found them.*)
LEMMA TypeGiveUp ==
  ASSUME TypeInv, NEW p \in Process, GiveUp(p), watcher[p].todo # {}, watcher[p].at # "down",
         sealed' = sealed, FilesOK'
  PROVE  TypeInv'
<1>1. Answering(p) \in Nat
  BY Answered DEF TypeInv, TypeOK, Height
<1>2. GhostsOK'
  BY <1>1, Parts DEF GiveUp, GhostsOK
<1>3. UNCHANGED log /\ BackupBlocks' = BackupBlocks
  BY Parts DEF GiveUp, chain
<1>4. /\ watcher' \in [Process -> Watching]
      /\ watcher'[p].at = "handle" /\ watcher'[p].todo \subseteq watcher[p].todo
      /\ \A q \in Process : q # p => watcher'[q] = watcher[q]
  BY Finished DEF GiveUp
<1>5. Coherent(p)'
  BY <1>3, <1>4 DEF TypeInv, Coherent, Busy
<1> QED
  BY <1>2, <1>3, <1>4, <1>5, TypeWatcher DEF GiveUp, chain

LEMMA SealTyped ==
  ASSUME TypeInv, NEW made \in Nat, NEW key \in Epoch \cup {Test}
  PROVE  Seal(made, key) \in Cipher
BY DEF TypeInv, TypeOK, Seal, Cipher

LEMMA TypePrepare ==
  ASSUME TypeInv, NEW p \in Process, BeginAnswer(p) \/ RunCommand(p)
  PROVE  TypeInv'
<1>1. /\ watcher[p].todo # {} /\ watcher[p].at # "down" /\ watcher[p].at \in {"handle", "exec"}
      /\ p \in Watcher /\ FilesOK /\ Height \in Nat
  BY Parts DEF BeginAnswer, RunCommand, TypeInv, TypeOK, Coherent, Busy, Height
<1>2. sealed' = sealed /\ FilesOK'
  BY <1>1, Parts DEF BeginAnswer, RunCommand, FilesOK, files, Removed
<1>3. CASE GiveUp(p)
  BY <1>1, <1>2, <1>3, TypeGiveUp
<1>4. ASSUME NEW step \in {"exec", "encrypt"}, Go(p, step), UNCHANGED <<chain, poster, ghosts>>
      PROVE  TypeInv'
  <2>1. /\ watcher' \in [Process -> Watching]
        /\ watcher'[p].at = step /\ watcher'[p].todo = watcher[p].todo
        /\ \A q \in Process : q # p => watcher'[q] = watcher[q]
    BY <1>4, Gone DEF WatchStep
  <2>2. UNCHANGED log /\ BackupBlocks' = BackupBlocks /\ GhostsOK'
    BY <1>4, Parts DEF chain
  <2>3. Coherent(p)'
    BY <1>1, <2>1, <2>2 DEF Coherent, TypeInv
  <2> QED
    BY <1>2, <1>4, <2>1, <2>2, <2>3, TypeWatcher DEF chain
<1> QED
  BY <1>3, <1>4 DEF BeginAnswer, RunCommand

LEMMA TypeEncrypt ==
  ASSUME TypeInv, NEW p \in Process, EncryptArchive(p)
  PROVE  TypeInv'
<1>1. /\ watcher[p].todo # {} /\ watcher[p].at = "encrypt" /\ p \in Watcher /\ FilesOK
      /\ watcher[p].todo \subseteq BackupBlocks
      /\ watcher[p] \in Watching /\ watcher \in [Process -> Watching]
  BY Parts DEF EncryptArchive, TypeInv, TypeOK, Coherent, Busy
<1>2. CASE GiveUp(p) /\ UNCHANGED files
  BY <1>1, <1>2, TypeGiveUp, Parts DEF files
<1>3. CASE artifact # None /\ ~ (GiveUp(p) /\ UNCHANGED files)
  <2>1. /\ nonces' = nonces + 1
        /\ watcher' = [watcher EXCEPT ![p].seal = Seal(artifact, AskedEpoch(p)), ![p].at = "write"]
        /\ UNCHANGED <<chain, keys, artifact, sealed, uploaded, lastBackup, poster, ghosts>>
    BY <1>3 DEF EncryptArchive
  <2> DEFINE w(s) == [watcher[p] EXCEPT !.seal = s, !.at = "write"]
  <2>2. \A s \in Cipher : /\ w(s) \in Watching /\ w(s).at = "write" /\ w(s).seal = s
                          /\ w(s).todo = watcher[p].todo
    BY <1>1 DEF Watching, WatchStep
  <2>3. PICK s \in Cipher : watcher' = [watcher EXCEPT ![p] = w(s)]
    BY <1>1, <1>3, <2>1, Answered, SealTyped DEF FilesOK
  <2> HIDE DEF w
  <2>4. /\ watcher' \in [Process -> Watching] /\ watcher'[p] = w(s)
        /\ \A q \in Process : q # p => watcher'[q] = watcher[q]
    BY <1>1, <2>2, <2>3
  <2>5. UNCHANGED log /\ BackupBlocks' = BackupBlocks /\ GhostsOK'
    BY <2>1, Parts DEF chain
  <2>6. Coherent(p)'
    BY <1>1, <2>2, <2>4, <2>5 DEF Coherent
  <2>7. FilesOK'
    BY <1>1, <2>1 DEF FilesOK
  <2> QED
    BY <2>1, <2>4, <2>5, <2>6, <2>7, TypeWatcher DEF chain
<1> QED
  BY <1>2, <1>3 DEF EncryptArchive

LEMMA TypeWrite ==
  ASSUME TypeInv, NEW p \in Process, WriteCipher(p)
  PROVE  TypeInv'
<1>1. /\ watcher[p].todo # {} /\ watcher[p].at = "write" /\ p \in Watcher /\ FilesOK
      /\ watcher[p].todo \subseteq BackupBlocks /\ watcher[p].seal \in Cipher
  BY Parts DEF WriteCipher, TypeInv, TypeOK, Coherent, Busy
<1>2. /\ sealed' = watcher[p].seal /\ Go(p, "upload")
      /\ UNCHANGED <<chain, keys, artifact, uploaded, lastBackup, nonces, poster, ghosts>>
  BY DEF WriteCipher
<1>3. /\ watcher' \in [Process -> Watching]
      /\ watcher'[p].at = "upload" /\ watcher'[p].todo = watcher[p].todo
      /\ watcher'[p].seal = watcher[p].seal
      /\ \A q \in Process : q # p => watcher'[q] = watcher[q]
  BY <1>2, Gone DEF WatchStep
<1>4. UNCHANGED log /\ BackupBlocks' = BackupBlocks /\ GhostsOK' /\ FilesOK'
  BY <1>1, <1>2, Parts DEF chain, FilesOK
<1>5. sealed' \in Cipher /\ Coherent(p)'
  BY <1>1, <1>2, <1>3, <1>4 DEF Coherent
<1> QED
  BY <1>2, <1>3, <1>4, <1>5, TypeWatcher DEF chain

LEMMA TypeUpload ==
  ASSUME TypeInv, NEW p \in Process, UploadArchive(p)
  PROVE  TypeInv'
<1>1. /\ watcher[p].todo # {} /\ watcher[p].at = "upload" /\ p \in Watcher /\ FilesOK
      /\ watcher[p].todo \subseteq BackupBlocks
      /\ sealed \in Cipher /\ watcher[p].seal \in Cipher
      /\ watcher[p] \in Watching /\ watcher \in [Process -> Watching]
  BY Parts DEF UploadArchive, TypeInv, TypeOK, Coherent, Busy
<1>2. CASE GiveUp(p) /\ UNCHANGED files
  BY <1>1, <1>2, TypeGiveUp, Parts DEF files
<1>3. CASE ~ (GiveUp(p) /\ UNCHANGED files)
  <2> DEFINE w == [watcher[p] EXCEPT !.locator = sealed, !.at = "map"]
  <2>1. /\ uploaded' = uploaded \cup {sealed}
        /\ watcher' = [watcher EXCEPT ![p] = w]
        /\ UNCHANGED <<chain, keys, artifact, sealed, lastBackup, nonces, poster, ghosts>>
    BY <1>3 DEF UploadArchive
  <2>2. /\ w \in Watching /\ w.at = "map" /\ w.locator = sealed
        /\ w.seal = watcher[p].seal /\ w.todo = watcher[p].todo
    BY <1>1 DEF Watching, WatchStep
  <2> HIDE DEF w
  <2>3. /\ watcher' \in [Process -> Watching] /\ watcher'[p] = w
        /\ \A q \in Process : q # p => watcher'[q] = watcher[q]
    BY <1>1, <2>1, <2>2
  <2>4. UNCHANGED log /\ BackupBlocks' = BackupBlocks /\ GhostsOK' /\ FilesOK'
    BY <1>1, <2>1, Parts DEF chain, FilesOK
  <2>5. Coherent(p)'
    BY <1>1, <2>2, <2>3, <2>4 DEF Coherent
  <2> QED
    BY <2>1, <2>3, <2>4, <2>5, TypeWatcher DEF chain
<1> QED
  BY <1>2, <1>3 DEF UploadArchive

(* The event that a mapping leaves on chain.                               *)
Mapping(p) == [type |-> "MemberFileMappingUpdated", epoch |-> AskedEpoch(p),
               locator |-> watcher[p].locator, merkleRoot |-> watcher[p].seal,
               answers |-> Answering(p)]

LEMMA MappingTyped ==
  ASSUME TypeInv, NEW p \in Process, watcher[p].at = "map"
  PROVE  Mapping(p) \in Event
<1>1. /\ watcher[p].todo # {} /\ watcher[p].seal \in Cipher /\ watcher[p].locator \in Cipher
  BY DEF TypeInv, Coherent, Busy
<1>2. AskedEpoch(p) \in Epoch /\ Answering(p) \in Nat
  BY <1>1, Answered DEF TypeInv, TypeOK, Height
<1> QED
  BY <1>1, <1>2 DEF Mapping, Event

LEMMA TypePublish ==
  ASSUME TypeInv, NEW p \in Process, UpdateMapping(p) \/ RecordBackup(p)
  PROVE  TypeInv'
<1>1. /\ watcher[p].todo # {} /\ p \in Watcher /\ FilesOK
      /\ watcher[p].at # "down" /\ watcher[p].todo \subseteq BackupBlocks
      /\ watcher[p].seal \in Cipher /\ watcher[p].locator \in Cipher
      /\ watcher[p] \in Watching /\ watcher \in [Process -> Watching]
  BY Parts DEF UpdateMapping, RecordBackup, TypeInv, TypeOK, Coherent, Busy
<1>2. CASE GiveUp(p) /\ UNCHANGED files
  BY <1>1, <1>2, TypeGiveUp, Parts DEF files
<1>3. CASE UpdateMapping(p) /\ ~ (GiveUp(p) /\ UNCHANGED files)
  <2>1. /\ Mine(Mapping(p)) /\ Go(p, "record") /\ watcher[p].at = "map"
        /\ UNCHANGED <<registry, treasury, lastSeq, files, poster, ghosts>>
    BY <1>3 DEF UpdateMapping, Mapping
  <2>2. Mapping(p) \in Event
    BY <2>1, MappingTyped
  <2>3. BackupBlocks \subseteq BackupBlocks' /\ FilesOK' /\ GhostsOK'
    BY <2>1, <2>2, Grows, Parts
  <2>4. /\ watcher' \in [Process -> Watching]
        /\ watcher'[p].at = "record" /\ watcher'[p].todo = watcher[p].todo
        /\ watcher'[p].seal = watcher[p].seal /\ watcher'[p].locator = watcher[p].locator
        /\ \A q \in Process : q # p => watcher'[q] = watcher[q]
    BY <2>1, Gone DEF WatchStep
  <2>5. Coherent(p)'
    BY <1>1, <2>3, <2>4 DEF Coherent
  <2> QED
    BY <2>1, <2>2, <2>3, <2>4, <2>5, TypeWatcher DEF files
<1>4. CASE RecordBackup(p)
  <2>1. /\ lastBackup' = [by |-> "watch", manifest |-> watcher[p].seal,
                          rootHash |-> watcher[p].locator]
        /\ Finish(p)
        /\ UNCHANGED <<chain, keys, artifact, sealed, uploaded, nonces, poster, ghosts>>
    BY <1>4 DEF RecordBackup
  <2>2. FilesOK'
    BY <1>1, <2>1 DEF FilesOK
  <2>3. /\ watcher' \in [Process -> Watching]
        /\ watcher'[p].at = "handle" /\ watcher'[p].todo \subseteq watcher[p].todo
        /\ \A q \in Process : q # p => watcher'[q] = watcher[q]
    BY <2>1, Finished
  <2>4. UNCHANGED log /\ BackupBlocks' = BackupBlocks /\ GhostsOK'
    BY <2>1, Parts DEF chain
  <2>5. Coherent(p)'
    BY <1>1, <2>3, <2>4 DEF Coherent, Busy
  <2> QED
    BY <2>1, <2>2, <2>3, <2>4, <2>5, TypeWatcher DEF chain
<1> QED
  BY <1>2, <1>3, <1>4 DEF UpdateMapping

(* A message command moves; at most it adds its message to the chain.      *)
LEMMA TypePoster ==
  ASSUME TypeInv, NEW p \in Process, NEW m \in Posting, Step(p, m),
         UNCHANGED log \/ \E e \in Event : Mine(e),
         lastSeq' \in Nat, crashes' \in 0..MaxCrash,
         UNCHANGED <<registry, treasury, files, watcher, printed, failed>>
  PROVE  TypeInv'
<1>1. log' \in Seq(Event) /\ BackupBlocks \subseteq BackupBlocks'
  BY Grows DEF TypeInv, TypeOK, BackupBlocks, Height
<1>2. poster' \in [Process -> Posting]
  BY DEF Step, TypeInv, TypeOK
<1>3. UNCHANGED <<roster, version, epoch, rotations, treasury, keys, artifact, sealed,
                  uploaded, lastBackup, nonces, watcher, printed, failed>>
  BY DEF registry, files
<1> QED
  BY <1>1, <1>2, <1>3 DEF TypeInv, TypeOK, Coherent, RegistryTypeOK

Message(m) == [type |-> "AgentMessagePosted", epoch |-> m.epoch, seq |-> m.seq,
               mode |-> m.mode, key |-> m.key]

LEMMA MessageTyped ==
  ASSUME NEW m \in Posting
  PROVE  Message(m) \in Event
BY DEF Posting, Message, Event

LEMMA TypePost ==
  ASSUME TypeInv, NEW p \in Process, Post(p) \/ StopPost(p)
  PROVE  TypeInv'
<1>1. /\ poster[p] \in Posting /\ epoch \in Epoch /\ lastSeq \in Nat
      /\ Idle \in Posting /\ crashes \in 0..MaxCrash
  BY RestTyped DEF TypeInv, TypeOK, RegistryTypeOK
<1>2. CASE Compose(p)
  <2>1. PICK m \in Posting : Step(p, m)
    <3>1. \A k \in Epoch \cup {Peer} :
            /\ [Idle EXCEPT !.at = "epoch", !.mode = "group", !.key = k] \in Posting
            /\ [Idle EXCEPT !.at = "epoch", !.mode = "dm", !.key = k] \in Posting
            /\ [Idle EXCEPT !.at = "epoch"] \in Posting
      BY <1>1 DEF Posting, PostStep, Mode
    <3> QED
      BY <1>1, <1>2, <3>1 DEF Compose
  <2>2. PostOnly
    BY <1>2 DEF Compose
  <2> QED
    BY <1>1, <2>1, <2>2, TypePoster DEF PostOnly, chain, ghosts
<1>3. CASE ReadPostEpoch(p)
  <2>1. [poster[p] EXCEPT !.epoch = epoch, !.at = "seq"] \in Posting
    BY <1>1 DEF Posting, PostStep
  <2> QED
    BY <1>1, <1>3, <2>1, TypePoster DEF ReadPostEpoch, PostOnly, chain, ghosts
<1>4. CASE ReadSeq(p)
  <2>1. PICK n \in Nat : n = lastSeq + 1
    BY <1>1
  <2>2. [poster[p] EXCEPT !.seq = n, !.at = "post"] \in Posting
    BY <1>1 DEF Posting, PostStep
  <2>3. Step(p, [poster[p] EXCEPT !.seq = n, !.at = "post"]) /\ PostOnly
    BY <1>4, <2>1 DEF ReadSeq
  <2> QED
    BY <1>1, <2>2, <2>3, TypePoster DEF PostOnly, chain, ghosts
<1>5. CASE PostMessage(p)
  <2>1. Message(poster[p]) \in Event /\ poster[p].seq \in Nat
    BY <1>1, MessageTyped DEF Posting
  <2>2. /\ Step(p, Idle) /\ UNCHANGED <<files, watcher, ghosts>>
        /\ \/ /\ lastSeq' = poster[p].seq /\ Mine(Message(poster[p]))
              /\ UNCHANGED <<registry, treasury>>
           \/ UNCHANGED chain
    BY <1>5 DEF PostMessage, Message
  <2>3. UNCHANGED <<printed, failed, crashes>>
    BY <2>2 DEF ghosts
  <2>4. /\ UNCHANGED log \/ \E e \in Event : Mine(e)
        /\ lastSeq' \in Nat /\ UNCHANGED <<registry, treasury>>
    BY <1>1, <2>1, <2>2 DEF chain
  <2> QED
    BY <1>1, <2>2, <2>3, <2>4, TypePoster
<1>6. CASE StopPost(p)
  <2>1. crashes' \in 0..MaxCrash
    BY <1>1, <1>6, BlockAssumption DEF StopPost
  <2> QED
    BY <1>1, <1>6, <2>1, TypePoster DEF StopPost, chain
<1> QED
  BY <1>2, <1>3, <1>4, <1>5, <1>6 DEF Post

LEMMA TypeNext == TypeInv /\ [Next]_vars => TypeInv'
<1> SUFFICES ASSUME TypeInv, [Next]_vars PROVE TypeInv'
  OBVIOUS
<1>1. CASE UNCHANGED vars
  BY <1>1 DEF vars, chain, registry, files, ghosts, TypeInv, TypeOK, Coherent, RegistryTypeOK,
              BackupBlocks, Height
<1>2. CASE Next
  <2>1. CASE Others \/ ImportKey \/ PushBackup
    BY <2>1, TypeQuiet
  <2>2. ASSUME NEW p \in Process,
               \/ p \in Watcher /\ (StartWatch(p, DefaultStart) \/ StartWatch(p, 0))
               \/ Watch(p) \/ StopWatch(p) \/ Post(p) \/ StopPost(p)
        PROVE  TypeInv'
    BY <2>2, TypeStart, TypeStop, TypeScan, TypePrepare, TypeEncrypt, TypeWrite, TypeUpload, TypePublish,
       TypePost DEF Watch
  <2> QED
    BY <1>2, <2>1, <2>2 DEF Next
<1> QED
  BY <1>1, <1>2

(* Every state of the machine and of the chain is well formed.             *)
THEOREM WatchTypeCorrect == Spec => []TypeOK
<1>1. Spec => []TypeInv
  BY TypeInit, TypeNext, PTL DEF Spec
<1>2. TypeInv => TypeOK
  BY DEF TypeInv
<1> QED
  BY <1>1, <1>2, PTL

-----------------------------------------------------------------------------
(* What a step adds to the log.                                            *)

LEMMA LogGrows ==
  ASSUME TypeInv, NEW e \in Event, Mine(e)
  PROVE  /\ MappingBlocks' = IF e.type = "MemberFileMappingUpdated"
                             THEN MappingBlocks \cup {Height + 1} ELSE MappingBlocks
         /\ MessageBlocks' = IF e.type = "AgentMessagePosted"
                             THEN MessageBlocks \cup {Height + 1} ELSE MessageBlocks
         /\ \A b \in MappingBlocks \cup MessageBlocks : log'[b] = log[b]
         /\ Height + 1 \notin MappingBlocks \cup MessageBlocks
         /\ log'[Height + 1] = e
BY Grows DEF MappingBlocks, MessageBlocks

LEMMA LogSame ==
  ASSUME UNCHANGED log
  PROVE  MappingBlocks' = MappingBlocks /\ MessageBlocks' = MessageBlocks /\ Height' = Height
BY DEF MappingBlocks, MessageBlocks, Height

(* A mapping is published by UpdateMapping and by nothing else.            *)
Publishes(p) ==
    /\ watcher[p].at = "map" /\ Mine(Mapping(p)) /\ Go(p, "record")
    /\ UNCHANGED <<registry, treasury, lastSeq, files, poster, ghosts>>

LEMMA MappingStep ==
  ASSUME TypeInv, [Next]_vars
  PROVE  \/ /\ MappingBlocks' = MappingBlocks
            /\ \A b \in MappingBlocks : log'[b] = log[b]
         \/ \E p \in Process : Publishes(p)
<1> DEFINE Kept == /\ MappingBlocks' = MappingBlocks
                   /\ \A b \in MappingBlocks : log'[b] = log[b]
<1>1. UNCHANGED log => Kept
  BY LogSame
<1>2. CASE Others
  <2>1. PICK e \in Event : Foreign(e) /\ Mine(e)
    BY <1>2, OthersStep
  <2> QED
    BY <2>1, LogGrows DEF Foreign
<1>3. CASE UNCHANGED vars \/ ImportKey \/ PushBackup
  BY <1>1, <1>3 DEF vars, chain, ImportKey, PushBackup
<1>4. ASSUME NEW p \in Process, Post(p) \/ StopPost(p) PROVE Kept
  <2>1. UNCHANGED log \/ Mine(Message(poster[p]))
    BY <1>4 DEF Post, Compose, ReadPostEpoch, ReadSeq, PostMessage, StopPost, PostOnly, chain,
                Message
  <2>2. CASE Mine(Message(poster[p]))
    <3>1. Message(poster[p]) \in Event /\ Message(poster[p]).type = "AgentMessagePosted"
      BY MessageTyped DEF TypeInv, TypeOK, Message
    <3> QED
      BY <2>2, <3>1, LogGrows
  <2> QED
    BY <1>1, <2>1, <2>2
<1>5. ASSUME NEW p \in Process,
             \/ StartWatch(p, DefaultStart) \/ StartWatch(p, 0) \/ StopWatch(p) \/ Watch(p)
      PROVE  Kept \/ Publishes(p)
  <2>1. CASE UpdateMapping(p)
    <3>1. \/ Publishes(p)
          \/ GiveUp(p)
      BY <2>1 DEF UpdateMapping, Publishes, Mapping
    <3> QED
      BY <1>1, <3>1 DEF GiveUp, chain
  <2>2. CASE ~ UpdateMapping(p)
    <3>1. UNCHANGED log
      BY <1>5, <2>2 DEF StartWatch, StopWatch, Watch, Poll, Handle, BatchDone, BeginAnswer, GiveUp,
                        RunCommand, EncryptArchive, WriteCipher, UploadArchive, RecordBackup, chain
    <3> QED
      BY <1>1, <3>1
  <2> QED
    BY <2>1, <2>2
<1> QED
  BY <1>2, <1>3, <1>4, <1>5 DEF Next

-----------------------------------------------------------------------------
(* The archive that a response publishes is newer than its request, when   *)
(* nobody else on the machine writes to its files.                         *)

FreshOf(p) ==
    LET w == watcher[p] IN
    /\ w.at \in {"exec", "encrypt"} /\ artifact # None => artifact >= Answering(p)
    /\ w.at = "write" => w.seal.made >= Answering(p)
    /\ w.at = "upload" => sealed.made >= Answering(p)
    /\ w.at = "map" => w.locator.made >= Answering(p)

FreshInv == FreshArchive /\ \A p \in Process : FreshOf(p)

LEMMA FreshAnswer ==
  ASSUME TypeInv, FreshInv, NEW p \in Process, Watch(p), ~ GiveUp(p)
  PROVE  FreshOf(p)'
<1>1. /\ watcher[p] \in Watching /\ watcher \in [Process -> Watching] /\ FreshOf(p)
      /\ watcher[p].at \in Busy => watcher[p].todo # {}
  BY DEF FreshInv, TypeInv, TypeOK, Coherent
<1>2. CASE Poll(p) \/ Handle(p) \/ BatchDone(p)
  <2>1. watcher'[p].at \in {"poll", "treasury", "handle"}
    BY <1>1, <1>2 DEF Poll, Handle, BatchDone, Watching
  <2> QED
    BY <2>1 DEF FreshOf
<1>3. CASE BeginAnswer(p) \/ RunCommand(p)
  <2>1. /\ watcher[p].todo # {}
        /\ \/ watcher[p].at = "handle" /\ Go(p, "exec") /\ artifact' = None
           \/ watcher[p].at = "exec" /\ Go(p, "encrypt") /\ artifact' \in {artifact, Height}
    BY <1>1, <1>3 DEF BeginAnswer, RunCommand, Busy, Removed
  <2>2. watcher'[p].at \in {"exec", "encrypt"} /\ watcher'[p].todo = watcher[p].todo
    BY <2>1, Gone DEF WatchStep
  <2>3. /\ Answering(p)' = Answering(p) /\ Height >= Answering(p)
        /\ Answering(p) \in Nat /\ Height \in Nat
    BY <2>1, <2>2, Answered DEF Answering, TypeInv, TypeOK, Height
  <2> QED
    BY <1>1, <2>1, <2>2, <2>3 DEF FreshOf
<1>4. CASE EncryptArchive(p)
  <2>1. /\ artifact # None /\ watcher[p].at = "encrypt"
        /\ watcher' = [watcher EXCEPT ![p].seal = Seal(artifact, AskedEpoch(p)), ![p].at = "write"]
    BY <1>4 DEF EncryptArchive
  <2>2. /\ watcher'[p].at = "write" /\ watcher'[p].todo = watcher[p].todo
        /\ watcher'[p].seal.made = artifact
    BY <1>1, <2>1 DEF Watching, Seal
  <2> QED
    BY <1>1, <2>1, <2>2 DEF FreshOf, Answering
<1>5. CASE WriteCipher(p)
  <2>1. watcher[p].at = "write" /\ sealed' = watcher[p].seal /\ Go(p, "upload")
    BY <1>5 DEF WriteCipher
  <2>2. watcher'[p].at = "upload" /\ watcher'[p].todo = watcher[p].todo
    BY <2>1, Gone DEF WatchStep
  <2> QED
    BY <1>1, <2>1, <2>2 DEF FreshOf, Answering
<1>6. CASE UploadArchive(p)
  <2>1. /\ watcher[p].at = "upload"
        /\ watcher' = [watcher EXCEPT ![p].locator = sealed, ![p].at = "map"]
    BY <1>6 DEF UploadArchive
  <2>2. /\ watcher'[p].at = "map" /\ watcher'[p].todo = watcher[p].todo
        /\ watcher'[p].locator = sealed
    BY <1>1, <2>1 DEF Watching
  <2> QED
    BY <1>1, <2>1, <2>2 DEF FreshOf, Answering
<1>7. CASE UpdateMapping(p) \/ RecordBackup(p)
  <2>1. Go(p, "record") \/ Finish(p)
    BY <1>7 DEF UpdateMapping, RecordBackup
  <2>2. watcher'[p].at \in {"record", "handle"}
    BY <2>1, Gone, Finished DEF WatchStep
  <2> QED
    BY <2>2 DEF FreshOf
<1> QED
  BY <1>2, <1>3, <1>4, <1>5, <1>6, <1>7 DEF Watch

LEMMA FreshSteps ==
  ASSUME NEW op \in Process, Watcher = {op}, TypeInv, FreshInv, [Next]_vars
  PROVE  \A q \in Process : FreshOf(q)'
<1>1. \A q \in Process : q # op => FreshOf(q)'
  BY TypeNext DEF TypeInv, Coherent, FreshOf
<1>2. CASE UNCHANGED vars \/ Others \/ ImportKey \/ PushBackup
           \/ \E p \in Process : Post(p) \/ StopPost(p)
  <2>1. UNCHANGED <<watcher, artifact, sealed>>
    BY <1>2, OthersStep DEF vars, files, ImportKey, PushBackup, Post, Compose, ReadPostEpoch,
                            ReadSeq, PostMessage, StopPost, PostOnly
  <2> QED
    BY <2>1 DEF FreshInv, FreshOf, Answering
<1>3. ASSUME NEW p \in Process,
             \/ p \in Watcher /\ (StartWatch(p, DefaultStart) \/ StartWatch(p, 0))
             \/ StopWatch(p) \/ Watch(p)
      PROVE  FreshOf(p)'
  <2>1. watcher[p] \in Watching /\ watcher \in [Process -> Watching]
        /\ Down \in Watching /\ Down.at = "down"
    BY RestTyped DEF TypeInv, TypeOK, Down
  <2>2. CASE StartWatch(p, DefaultStart) \/ StartWatch(p, 0) \/ StopWatch(p)
    <3>1. watcher'[p].at \in {"poll", "down"}
      BY <2>1, <2>2 DEF StartWatch, StopWatch, Watching
    <3> QED
      BY <3>1 DEF FreshOf
  <2>3. CASE Watch(p) /\ GiveUp(p)
    BY <2>3, Finished DEF GiveUp, FreshOf
  <2>4. CASE Watch(p) /\ ~ GiveUp(p)
    BY <2>4, FreshAnswer
  <2> QED
    BY <1>3, <2>2, <2>3, <2>4
<1>4. ASSUME NEW p \in Process,
             \/ p \in Watcher /\ (StartWatch(p, DefaultStart) \/ StartWatch(p, 0))
             \/ StopWatch(p) \/ Watch(p)
      PROVE  p = op
  BY <1>4 DEF TypeInv, Coherent, StopWatch, Watch, Poll, Handle, BatchDone, BeginAnswer, RunCommand,
              EncryptArchive, WriteCipher, UploadArchive, UpdateMapping, RecordBackup
<1> QED
  BY <1>1, <1>2, <1>3, <1>4 DEF Next

LEMMA FreshPublished ==
  ASSUME TypeInv, FreshInv, [Next]_vars
  PROVE  FreshArchive'
<1>1. CASE /\ MappingBlocks' = MappingBlocks
           /\ \A b \in MappingBlocks : log'[b] = log[b]
  BY <1>1 DEF FreshInv, FreshArchive
<1>2. ASSUME NEW p \in Process, Publishes(p)
      PROVE  FreshArchive'
  <2>1. Mapping(p) \in Event /\ Mine(Mapping(p)) /\ watcher[p].at = "map" /\ FreshOf(p)
    BY <1>2, MappingTyped DEF Publishes, FreshInv
  <2>2. /\ MappingBlocks' \subseteq MappingBlocks \cup {Height + 1}
        /\ \A b \in MappingBlocks : log'[b] = log[b]
        /\ log'[Height + 1] = Mapping(p)
    BY <2>1, LogGrows
  <2>3. Mapping(p).locator.made >= Mapping(p).answers
    BY <2>1 DEF FreshOf, Mapping
  <2> QED
    BY <2>2, <2>3 DEF FreshInv, FreshArchive
<1> QED
  BY <1>1, <1>2, MappingStep

(* A request is answered with an archive made after it was asked for, when *)
(* one watcher of the machine answers (backup-respond.ts, the removal      *)
(* before the backup command).                                             *)
THEOREM FreshArchiveHolds ==
  ASSUME NEW op \in Process, Watcher = {op}
  PROVE  Spec => []FreshArchive
<1>1. Init => FreshInv
  BY DEF Init, FreshInv, FreshArchive, FreshOf, Down, MappingBlocks, Height
<1>2. TypeInv /\ FreshInv /\ [Next]_vars => FreshInv'
  BY FreshSteps, FreshPublished DEF FreshInv
<1>3. FreshInv => FreshArchive
  BY DEF FreshInv
<1> QED
  BY <1>1, <1>2, <1>3, TypeInit, TypeNext, PTL DEF Spec

-----------------------------------------------------------------------------
(* What is on chain can be opened: one response at a time on the machine.  *)

OpenOf(p) ==
    LET w == watcher[p] IN
    /\ w.at \in Busy => AskedEpoch(p) \in keys
    /\ w.at \in {"write", "upload"} => w.seal.key = AskedEpoch(p)
    /\ w.at = "upload" => sealed = w.seal
    /\ w.at = "map" => /\ w.locator = w.seal /\ w.locator \in uploaded
                       /\ w.seal.key = AskedEpoch(p)

OpenInv == ArchivesOpen /\ \A p \in Process : OpenOf(p)

LEMMA AskedKept ==
  ASSUME TypeInv, NEW p \in Process, watcher[p].todo # {}, watcher'[p].todo = watcher[p].todo,
         UNCHANGED log \/ \E e \in Event : Mine(e)
  PROVE  AskedEpoch(p)' = AskedEpoch(p)
<1>1. Answering(p)' = Answering(p) /\ Answering(p) \in 1..Height
  BY Answered DEF Answering
<1>2. \A b \in 1..Height : log'[b] = log[b]
  BY Grows
<1> QED
  BY <1>1, <1>2 DEF AskedEpoch

LEMMA OpenPublished ==
  ASSUME TypeInv, OpenInv, [Next]_vars, keys \subseteq keys', uploaded \subseteq uploaded'
  PROVE  ArchivesOpen'
<1>1. CASE /\ MappingBlocks' = MappingBlocks
           /\ \A b \in MappingBlocks : log'[b] = log[b]
  BY <1>1 DEF OpenInv, ArchivesOpen
<1>2. ASSUME NEW p \in Process, Publishes(p)
      PROVE  ArchivesOpen'
  <2>1. Mapping(p) \in Event /\ Mine(Mapping(p)) /\ watcher[p].at = "map" /\ OpenOf(p)
    BY <1>2, MappingTyped DEF Publishes, OpenInv
  <2>2. /\ MappingBlocks' \subseteq MappingBlocks \cup {Height + 1}
        /\ \A b \in MappingBlocks : log'[b] = log[b]
        /\ log'[Height + 1] = Mapping(p)
    BY <2>1, LogGrows
  <2>3. LET m == Mapping(p) IN
        /\ m.locator = m.merkleRoot /\ m.locator \in uploaded
        /\ m.locator.key = m.epoch /\ m.epoch \in keys
    BY <2>1 DEF OpenOf, Mapping, Busy
  <2> QED
    BY <2>2, <2>3 DEF OpenInv, ArchivesOpen
<1> QED
  BY <1>1, <1>2, MappingStep

LEMMA KeysGrow ==
  ASSUME TypeInv, [Next]_vars
  PROVE  keys \subseteq keys' /\ uploaded \subseteq uploaded'
<1>1. CASE Others \/ UNCHANGED vars \/ ImportKey \/ PushBackup
  BY <1>1, OthersStep DEF ImportKey, PushBackup, vars, files
<1>2. ASSUME NEW p \in Process,
             \/ StartWatch(p, DefaultStart) \/ StartWatch(p, 0)
             \/ Watch(p) \/ StopWatch(p) \/ Post(p) \/ StopPost(p)
      PROVE  keys \subseteq keys' /\ uploaded \subseteq uploaded'
  BY <1>2 DEF StartWatch, StopWatch, Watch, Poll, Handle, BatchDone, BeginAnswer, GiveUp,
              RunCommand, EncryptArchive, WriteCipher, UploadArchive, UpdateMapping, RecordBackup, files,
              Post, Compose, ReadPostEpoch, ReadSeq, PostMessage, StopPost, PostOnly
<1> QED
  BY <1>1, <1>2 DEF Next

(* A step that keeps the response where it is.                             *)
LEMMA OpenKept ==
  ASSUME TypeInv, OpenInv, NEW p \in Process, UNCHANGED <<watcher, sealed>>,
         keys \subseteq keys', uploaded \subseteq uploaded',
         UNCHANGED log \/ \E e \in Event : Mine(e)
  PROVE  OpenOf(p)'
<1>1. OpenOf(p) /\ (watcher[p].at \in Busy => watcher[p].todo # {})
  BY DEF OpenInv, TypeInv, Coherent
<1>2. watcher[p].at \in Busy => AskedEpoch(p)' = AskedEpoch(p)
  BY <1>1, AskedKept
<1> QED
  BY <1>1, <1>2 DEF OpenOf, Busy

LEMMA OpenAnswer ==
  ASSUME TypeInv, OpenInv, NEW p \in Process, Watch(p), ~ GiveUp(p)
  PROVE  OpenOf(p)'
<1>1. /\ watcher[p] \in Watching /\ watcher \in [Process -> Watching] /\ OpenOf(p)
      /\ watcher[p].at \in Busy => watcher[p].todo # {}
  BY DEF OpenInv, TypeInv, TypeOK, Coherent
<1>2. CASE Poll(p) \/ Handle(p) \/ BatchDone(p)
  <2>1. watcher'[p].at \in {"poll", "treasury", "handle"}
    BY <1>1, <1>2 DEF Poll, Handle, BatchDone, Watching
  <2> QED
    BY <2>1 DEF OpenOf, Busy
<1>3. CASE BeginAnswer(p) \/ RunCommand(p)
  <2>1. /\ watcher[p].todo # {} /\ AskedEpoch(p) \in keys /\ UNCHANGED <<log, keys>>
        /\ Go(p, "exec") \/ Go(p, "encrypt")
    BY <1>1, <1>3 DEF BeginAnswer, RunCommand, OpenOf, Busy, chain, files
  <2>2. watcher'[p].at \in {"exec", "encrypt"} /\ watcher'[p].todo = watcher[p].todo
    BY <2>1, Gone DEF WatchStep
  <2>3. AskedEpoch(p)' = AskedEpoch(p)
    BY <2>1, <2>2, AskedKept
  <2> QED
    BY <2>1, <2>2, <2>3 DEF OpenOf
<1>4. CASE EncryptArchive(p)
  <2>1. /\ watcher[p].todo # {} /\ AskedEpoch(p) \in keys /\ UNCHANGED <<log, keys>>
        /\ watcher' = [watcher EXCEPT ![p].seal = Seal(artifact, AskedEpoch(p)), ![p].at = "write"]
    BY <1>1, <1>4 DEF EncryptArchive, OpenOf, Busy, chain
  <2>2. /\ watcher'[p].at = "write" /\ watcher'[p].todo = watcher[p].todo
        /\ watcher'[p].seal.key = AskedEpoch(p)
    BY <1>1, <2>1 DEF Watching, Seal
  <2>3. AskedEpoch(p)' = AskedEpoch(p)
    BY <2>1, <2>2, AskedKept
  <2> QED
    BY <2>1, <2>2, <2>3 DEF OpenOf
<1>8. CASE WriteCipher(p)
  <2>1. /\ watcher[p].todo # {} /\ AskedEpoch(p) \in keys /\ UNCHANGED <<log, keys>>
        /\ watcher[p].seal.key = AskedEpoch(p) /\ sealed' = watcher[p].seal /\ Go(p, "upload")
    BY <1>1, <1>8 DEF WriteCipher, OpenOf, Busy, chain
  <2>2. /\ watcher'[p].at = "upload" /\ watcher'[p].todo = watcher[p].todo
        /\ watcher'[p].seal = watcher[p].seal
    BY <2>1, Gone DEF WatchStep
  <2>3. AskedEpoch(p)' = AskedEpoch(p)
    BY <2>1, <2>2, AskedKept
  <2> QED
    BY <2>1, <2>2, <2>3 DEF OpenOf
<1>5. CASE UploadArchive(p)
  <2>1. /\ watcher[p].todo # {} /\ AskedEpoch(p) \in keys /\ UNCHANGED <<log, keys>>
        /\ sealed = watcher[p].seal /\ watcher[p].seal.key = AskedEpoch(p)
        /\ uploaded' = uploaded \cup {sealed}
        /\ watcher' = [watcher EXCEPT ![p].locator = sealed, ![p].at = "map"]
    BY <1>1, <1>5 DEF UploadArchive, OpenOf, Busy, chain
  <2>2. /\ watcher'[p].at = "map" /\ watcher'[p].todo = watcher[p].todo
        /\ watcher'[p].locator = sealed /\ watcher'[p].seal = watcher[p].seal
    BY <1>1, <2>1 DEF Watching
  <2>3. AskedEpoch(p)' = AskedEpoch(p)
    BY <2>1, <2>2, AskedKept
  <2> QED
    BY <2>1, <2>2, <2>3 DEF OpenOf
<1>6. CASE UpdateMapping(p)
  <2>1. /\ watcher[p].todo # {} /\ AskedEpoch(p) \in keys /\ UNCHANGED keys
        /\ Mine(Mapping(p)) /\ Go(p, "record") /\ watcher[p].at = "map"
    BY <1>1, <1>6 DEF UpdateMapping, Mapping, OpenOf, Busy, files
  <2>2. watcher'[p].at = "record" /\ watcher'[p].todo = watcher[p].todo
    BY <2>1, Gone DEF WatchStep
  <2>3. AskedEpoch(p)' = AskedEpoch(p)
    BY <2>1, <2>2, AskedKept, MappingTyped
  <2> QED
    BY <2>1, <2>2, <2>3 DEF OpenOf
<1>7. CASE RecordBackup(p)
  BY <1>7, Finished DEF RecordBackup, OpenOf, Busy
<1> QED
  BY <1>2, <1>3, <1>4, <1>5, <1>6, <1>7, <1>8 DEF Watch

LEMMA OpenSteps ==
  ASSUME NEW op \in Process, Watcher = {op}, TypeInv, OpenInv, [Next]_vars
  PROVE  OpenInv'
<1>1. TypeInv' /\ keys \subseteq keys' /\ uploaded \subseteq uploaded'
  BY TypeNext, KeysGrow
<1>2. ArchivesOpen'
  BY <1>1, OpenPublished
<1>3. \A q \in Process : q # op => OpenOf(q)'
  BY <1>1 DEF TypeInv, Coherent, OpenOf, Busy
<1>4. CASE UNCHANGED vars \/ Others \/ ImportKey \/ PushBackup
           \/ \E p \in Process : Post(p) \/ StopPost(p)
  <2>1. UNCHANGED <<watcher, sealed>>
    BY <1>4, OthersStep DEF vars, files, ImportKey, PushBackup, Post, Compose, ReadPostEpoch,
                            ReadSeq, PostMessage, StopPost, PostOnly
  <2>2. UNCHANGED log \/ \E e \in Event : Mine(e)
    <3>1. \A p \in Process : Message(poster[p]) \in Event
      BY MessageTyped DEF TypeInv, TypeOK
    <3> QED
      BY <1>4, <3>1, OthersStep
         DEF vars, chain, ImportKey, PushBackup, Post, Compose, ReadPostEpoch, ReadSeq,
             PostMessage, Message, StopPost, PostOnly
  <2> QED
    BY <1>1, <1>2, <1>3, <2>1, <2>2, OpenKept DEF OpenInv
<1>5. ASSUME NEW p \in Process,
             \/ p \in Watcher /\ (StartWatch(p, DefaultStart) \/ StartWatch(p, 0))
             \/ StopWatch(p) \/ Watch(p)
      PROVE  OpenOf(p)'
  <2>1. watcher[p] \in Watching /\ watcher \in [Process -> Watching]
        /\ Down \in Watching /\ Down.at = "down"
    BY RestTyped DEF TypeInv, TypeOK, Down
  <2>2. CASE StartWatch(p, DefaultStart) \/ StartWatch(p, 0) \/ StopWatch(p)
    <3>1. watcher'[p].at \in {"poll", "down"}
      BY <2>1, <2>2 DEF StartWatch, StopWatch, Watching
    <3> QED
      BY <3>1 DEF OpenOf, Busy
  <2>3. CASE Watch(p) /\ GiveUp(p)
    BY <2>3, Finished DEF GiveUp, OpenOf, Busy
  <2>4. CASE Watch(p) /\ ~ GiveUp(p)
    BY <2>4, OpenAnswer
  <2> QED
    BY <1>5, <2>2, <2>3, <2>4
<1>6. ASSUME NEW p \in Process,
             \/ p \in Watcher /\ (StartWatch(p, DefaultStart) \/ StartWatch(p, 0))
             \/ StopWatch(p) \/ Watch(p)
      PROVE  p = op
  BY <1>6 DEF TypeInv, Coherent, StopWatch, Watch, Poll, Handle, BatchDone, BeginAnswer, RunCommand,
              EncryptArchive, WriteCipher, UploadArchive, UpdateMapping, RecordBackup
<1> QED
  BY <1>2, <1>3, <1>4, <1>5, <1>6 DEF Next, OpenInv

(* A file mapping on chain can be restored from, when one watcher of the   *)
(* machine answers: its locator is the ciphertext that its merkle root     *)
(* describes, it is in storage, and the key file of its epoch opens it     *)
(* (backup-respond.ts).                                                    *)
THEOREM ArchivesOpenHolds ==
  ASSUME NEW op \in Process, Watcher = {op}
  PROVE  Spec => []ArchivesOpen
<1>1. Init => OpenInv
  BY DEF Init, OpenInv, ArchivesOpen, OpenOf, Busy, Down, MappingBlocks, Height
<1>2. TypeInv /\ OpenInv /\ [Next]_vars => OpenInv'
  BY OpenSteps
<1>3. OpenInv => ArchivesOpen
  BY DEF OpenInv
<1> QED
  BY <1>1, <1>2, <1>3, TypeInit, TypeNext, PTL DEF Spec

-----------------------------------------------------------------------------
(* What a watcher prints.                                                  *)

(* A watcher started at block 0 has scanned nothing before its first batch.*)
Beginning(w) == w.cursor = 0 /\ w.at \in {"poll", "treasury"}

Printed(w) == IF Beginning(w) THEN 0 ELSE ScannedTo(w) + 1 - FirstOf(w.start)

WindowOf(p) ==
    LET w == watcher[p] IN
    w.at # "down" =>
      /\ w.start <= w.cursor /\ w.cursor <= Height + 1
      /\ w.at # "poll" => w.cursor <= w.latest /\ w.latest <= Height
      /\ Len(printed[p]) = Printed(w)
      /\ \A i \in 1..Len(printed[p]) : printed[p][i].block = FirstOf(w.start) + i - 1

WindowInv == \A p \in Process : WindowOf(p)

LEMMA WatchingNumbers ==
  ASSUME TypeInv, NEW p \in Process
  PROVE  /\ watcher[p] \in Watching /\ watcher \in [Process -> Watching] /\ Height \in Nat
         /\ watcher[p].start \in Nat /\ watcher[p].cursor \in Nat /\ watcher[p].latest \in Nat
         /\ FirstOf(watcher[p].start) \in Nat
         /\ printed[p] \in Seq([block : Nat, whole : BOOLEAN]) /\ Len(printed[p]) \in Nat
BY DEF TypeInv, TypeOK, Watching, Height, FirstOf

LEMMA HeightGrows ==
  ASSUME TypeInv, UNCHANGED log \/ \E e \in Event : Mine(e)
  PROVE  Height' >= Height /\ Height' \in Nat /\ Height \in Nat
BY Grows DEF Height, TypeInv, TypeOK

(* The chain grows under a watcher that stays where it is, or answers.     *)
LEMMA WindowKept ==
  ASSUME TypeInv, NEW p \in Process, WindowOf(p), Height' >= Height, Height' \in Nat,
         printed'[p] = printed[p],
         watcher'[p].start = watcher[p].start, watcher'[p].cursor = watcher[p].cursor,
         watcher'[p].latest = watcher[p].latest,
         \/ watcher'[p].at = watcher[p].at
         \/ /\ watcher[p].at \in Busy \cup {"handle"}
            /\ watcher'[p].at \in Busy \cup {"handle"}
  PROVE  WindowOf(p)'
<1>1. /\ Height \in Nat /\ watcher[p].cursor \in Nat /\ watcher[p].latest \in Nat
  BY WatchingNumbers
<1>2. /\ watcher'[p].at # "down" => watcher[p].at # "down"
      /\ watcher'[p].at # "poll" => watcher[p].at # "poll"
      /\ watcher'[p].at \in {"poll", "treasury"} <=> watcher[p].at \in {"poll", "treasury"}
  BY DEF Busy
<1>3. Printed(watcher[p])' = Printed(watcher[p])
  BY <1>2 DEF Printed, Beginning, ScannedTo, FirstOf
<1> QED
  BY <1>1, <1>2, <1>3 DEF WindowOf, FirstOf

LEMMA WindowStart ==
  ASSUME TypeInv, NEW p \in Process, StartWatch(p, DefaultStart) \/ StartWatch(p, 0)
  PROVE  WindowOf(p)'
<1>1. Height \in Nat /\ watcher \in [Process -> Watching] /\ printed \in [Process -> Seq([block : Nat, whole : BOOLEAN])]
  BY WatchingNumbers DEF TypeInv, TypeOK
<1>2. PICK from \in Nat : from <= Height /\ StartWatch(p, from)
  BY <1>1, BlockAssumption DEF DefaultStart
<1> DEFINE w == [Down EXCEPT !.at = "poll", !.start = from, !.cursor = from]
<1>3. w.at = "poll" /\ w.start = from /\ w.cursor = from
  BY RestTyped DEF Watching
<1>4. watcher' = [watcher EXCEPT ![p] = w] /\ printed' = [printed EXCEPT ![p] = <<>>]
      /\ Height' = Height
  BY <1>2 DEF StartWatch, chain, Height
<1> HIDE DEF w
<1>5. watcher'[p] = w /\ printed'[p] = <<>> /\ Len(printed'[p]) = 0
  BY <1>1, <1>4
<1>6. Printed(w) = 0
  BY <1>3 DEF Printed, Beginning, ScannedTo, FirstOf
<1> QED
  BY <1>1, <1>2, <1>3, <1>4, <1>5, <1>6 DEF WindowOf

LEMMA WindowScan ==
  ASSUME TypeInv, NEW p \in Process, WindowOf(p), Poll(p) \/ Handle(p) \/ BatchDone(p)
  PROVE  WindowOf(p)'
<1>1. /\ watcher[p] \in Watching /\ watcher \in [Process -> Watching] /\ Height \in Nat
      /\ watcher[p].start \in Nat /\ watcher[p].cursor \in Nat /\ watcher[p].latest \in Nat
      /\ FirstOf(watcher[p].start) \in Nat
      /\ printed[p] \in Seq([block : Nat, whole : BOOLEAN]) /\ Len(printed[p]) \in Nat
  BY WatchingNumbers
<1>2. CASE Poll(p)
  <2>1. /\ watcher[p].at = "poll" /\ watcher[p].cursor <= Height
        /\ watcher'[p].at = "treasury" /\ watcher'[p].latest = Height
        /\ watcher'[p].start = watcher[p].start /\ watcher'[p].cursor = watcher[p].cursor
        /\ printed' = printed /\ Height' = Height
    BY <1>1, <1>2 DEF Poll, Watching, ghosts, chain, Height
  <2>2. Printed(watcher'[p]) = Printed(watcher[p])
    BY <2>1 DEF Printed, Beginning, ScannedTo
  <2>3. printed'[p] = printed[p] /\ FirstOf(watcher'[p].start) = FirstOf(watcher[p].start)
    BY <2>1
  <2> QED
    BY <1>1, <2>1, <2>2, <2>3 DEF WindowOf
<1>3. CASE Handle(p)
  <2> DEFINE c == watcher[p].cursor
             to == watcher[p].latest
             batch == Span(c, to)
             told == [i \in DOMAIN batch |-> Told(batch[i])]
             first == FirstOf(watcher[p].start)
             n == Len(printed[p])
  <2>1. /\ watcher[p].at = "treasury" /\ watcher'[p].at = "handle"
        /\ watcher'[p].start = watcher[p].start /\ watcher'[p].cursor = c
        /\ watcher'[p].latest = to /\ Height' = Height
        /\ printed'[p] = printed[p] \o told
    <3>1. /\ watcher' = [watcher EXCEPT ![p].todo = Range(batch) \cap BackupBlocks,
                                       ![p].at = "handle"]
          /\ printed' = [printed EXCEPT ![p] = @ \o told]
          /\ watcher[p].at = "treasury" /\ UNCHANGED chain
      BY <1>3 DEF Handle, BlockRange
    <3> HIDE DEF told, batch
    <3> QED
      BY <1>1, <3>1 DEF Watching, chain, Height, TypeInv, TypeOK
  <2>2. /\ batch \in Seq(Nat) /\ DOMAIN batch = 1..(to + 1 - FirstOf(c))
        /\ Len(batch) = IF FirstOf(c) <= to THEN to + 1 - FirstOf(c) ELSE 0
        /\ \A i \in DOMAIN batch : batch[i] = FirstOf(c) + i - 1
    BY <1>1, SpanIndex
  <2>3. DOMAIN batch = 1..Len(batch) /\ Len(batch) \in Nat
    BY <2>2, LenProperties
  <2> HIDE DEF batch
  <2>4. told \in Seq([block : Nat, whole : BOOLEAN]) /\ Len(told) = Len(batch)
        /\ \A i \in 1..Len(batch) : told[i].block = FirstOf(c) + i - 1
    <3>1. \A i \in 1..Len(batch) : Told(batch[i]).block = batch[i]
      BY DEF Told
    <3>2. \A i \in 1..Len(batch) : Told(batch[i]) \in [block : Nat, whole : BOOLEAN]
      BY <2>2, <2>3, ElementOfSeq DEF Told
    <3>3. told \in [1..Len(batch) -> [block : Nat, whole : BOOLEAN]]
      BY <2>3, <3>2
    <3>4. told \in Seq([block : Nat, whole : BOOLEAN])
      BY <2>3, <3>3, SeqDef
    <3>5. Len(told) = Len(batch)
      BY <2>3, <3>3, <3>4, LenProperties
    <3> QED
      BY <2>2, <2>3, <3>1, <3>4, <3>5
  <2> HIDE DEF told
  <2>5. /\ Len(printed'[p]) = n + Len(batch)
        /\ \A i \in 1..(n + Len(batch)) :
             printed'[p][i] = IF i <= n THEN printed[p][i] ELSE told[i - n]
    <3>1. /\ Len(printed[p] \o told) = n + Len(told)
          /\ \A i \in 1..(n + Len(told)) :
               (printed[p] \o told)[i] = IF i <= n THEN printed[p][i] ELSE told[i - n]
      <4> DEFINE S == [block : Nat, whole : BOOLEAN]
      <4>1. printed[p] \in Seq(S) /\ told \in Seq(S)
        BY <1>1, <2>4
      <4> HIDE DEF S
      <4> QED
        BY <4>1, ConcatProperties
    <3> QED
      BY <2>1, <2>4, <3>1
  <2>6. /\ watcher[p].start <= c /\ c <= to /\ to <= Height
        /\ n = IF c = 0 THEN 0 ELSE c - first
        /\ \A i \in 1..n : printed[p][i].block = first + i - 1
    BY <1>1, <2>1 DEF WindowOf, Printed, Beginning, ScannedTo
  <2>7. /\ c \in Nat /\ to \in Nat /\ n \in Nat /\ first \in Nat
        /\ first = IF watcher[p].start = 0 THEN 1 ELSE watcher[p].start
        /\ FirstOf(c) = IF c = 0 THEN 1 ELSE c
        /\ watcher[p].start \in Nat
    BY <1>1 DEF FirstOf
  <2>8. Printed(watcher'[p]) = to + 1 - first
    BY <2>1 DEF Printed, Beginning, ScannedTo
  <2> HIDE DEF c, to, first, n
  <2>9. /\ n + Len(batch) = to + 1 - first
        /\ Len(batch) # 0 => first + n = FirstOf(c)
    <3>1. /\ watcher[p].start <= c /\ c <= to /\ (n = IF c = 0 THEN 0 ELSE c - first)
          /\ Len(batch) = IF FirstOf(c) <= to THEN to + 1 - FirstOf(c) ELSE 0
      BY <2>2, <2>6
    <3>2. CASE c = 0
      BY <2>7, <3>1, <3>2
    <3>3. CASE c # 0
      <4>1. c \in Nat /\ to \in Nat /\ first \in Nat /\ c <= to /\ FirstOf(c) = c
        BY <2>7, <3>1, <3>3
      <4>2. Len(batch) = to + 1 - c /\ n = c - first
        BY <3>1, <3>3, <4>1
      <4>3. (c - first) + (to + 1 - c) = to + 1 - first /\ first + (c - first) = c
        BY <4>1
      <4> QED
        BY <4>1, <4>2, <4>3
    <3> QED
      BY <3>2, <3>3
  <2>10. ASSUME NEW i \in 1..(n + Len(batch))
         PROVE  printed'[p][i].block = first + i - 1
    <3>1. CASE i <= n
      <4>1. i \in 1..n
        BY <2>3, <2>7, <3>1
      <4> QED
        BY <2>5, <2>6, <3>1, <4>1
    <3>2. CASE ~ (i <= n)
      <4>1. i - n \in 1..Len(batch) /\ Len(batch) # 0
        BY <2>3, <2>7, <3>2
      <4>2. printed'[p][i].block = FirstOf(c) + (i - n) - 1
        BY <2>4, <2>5, <3>2, <4>1
      <4>3. FirstOf(c) = first + n
        BY <2>9, <4>1
      <4> QED
        BY <2>7, <4>2, <4>3
    <3> QED
      BY <3>1, <3>2
  <2>11. \A i \in 1..Len(printed'[p]) : printed'[p][i].block = first + i - 1
    BY <2>5, <2>10
  <2>12. FirstOf(watcher'[p].start) = first /\ Len(printed'[p]) = Printed(watcher'[p])
    BY <2>1, <2>5, <2>8, <2>9 DEF first
  <2> QED
    BY <1>1, <2>1, <2>6, <2>7, <2>11, <2>12 DEF WindowOf
<1>4. CASE BatchDone(p)
  <2>1. /\ watcher[p].at = "handle" /\ watcher'[p].at = "poll"
        /\ watcher'[p].start = watcher[p].start
        /\ watcher'[p].cursor = watcher[p].latest + 1
        /\ printed' = printed /\ Height' = Height
    BY <1>1, <1>4 DEF BatchDone, NextCursor, Watching, ghosts, chain, Height
  <2>2. Printed(watcher'[p]) = Printed(watcher[p])
    BY <1>1, <2>1 DEF Printed, Beginning, ScannedTo
  <2>3. printed'[p] = printed[p] /\ FirstOf(watcher'[p].start) = FirstOf(watcher[p].start)
    BY <2>1
  <2> QED
    BY <1>1, <2>1, <2>2, <2>3 DEF WindowOf
<1> QED
  BY <1>2, <1>3, <1>4

LEMMA LogEither ==
  ASSUME TypeInv, [Next]_vars
  PROVE  UNCHANGED log \/ \E e \in Event : Mine(e)
<1>1. CASE Others
  BY <1>1, OthersStep
<1>2. CASE UNCHANGED vars \/ ImportKey \/ PushBackup
  BY <1>2 DEF vars, chain, ImportKey, PushBackup
<1>3. ASSUME NEW p \in Process, Post(p) \/ StopPost(p)
      PROVE  UNCHANGED log \/ \E e \in Event : Mine(e)
  <2>1. Message(poster[p]) \in Event
    BY MessageTyped DEF TypeInv, TypeOK
  <2> QED
    BY <1>3, <2>1 DEF Post, Compose, ReadPostEpoch, ReadSeq, PostMessage, StopPost, PostOnly, chain,
                      Message
<1>4. ASSUME NEW p \in Process,
             \/ StartWatch(p, DefaultStart) \/ StartWatch(p, 0) \/ StopWatch(p) \/ Watch(p)
      PROVE  UNCHANGED log \/ \E e \in Event : Mine(e)
  <2>1. CASE UpdateMapping(p)
    BY <2>1, MappingTyped DEF UpdateMapping, Mapping, GiveUp, chain
  <2>2. CASE ~ UpdateMapping(p)
    BY <1>4, <2>2 DEF StartWatch, StopWatch, Watch, Poll, Handle, BatchDone, BeginAnswer, GiveUp,
                      RunCommand, EncryptArchive, WriteCipher, UploadArchive, RecordBackup, chain
  <2> QED
    BY <2>1, <2>2
<1> QED
  BY <1>1, <1>2, <1>3, <1>4 DEF Next

(* A step of a response moves no cursor and prints nothing.                *)
LEMMA AnswerStep ==
  ASSUME TypeInv, NEW p \in Process,
         \/ BeginAnswer(p) \/ RunCommand(p) \/ EncryptArchive(p) \/ WriteCipher(p)
         \/ UploadArchive(p) \/ UpdateMapping(p) \/ RecordBackup(p)
  PROVE  /\ printed' = printed
         /\ watcher'[p].start = watcher[p].start
         /\ watcher'[p].cursor = watcher[p].cursor
         /\ watcher'[p].latest = watcher[p].latest
         /\ watcher[p].at \in Busy \cup {"handle"}
         /\ watcher'[p].at \in Busy \cup {"handle"}
         /\ \A q \in Process : q # p => watcher'[q] = watcher[q]
<1>1. watcher[p].at \in Busy \cup {"handle"}
  BY DEF Busy, BeginAnswer, RunCommand, EncryptArchive, WriteCipher, UploadArchive, UpdateMapping,
         RecordBackup
<1>2. CASE GiveUp(p) \/ Finish(p)
  <2>1. printed' = printed
    BY <1>2 DEF GiveUp, BeginAnswer, RunCommand, EncryptArchive, WriteCipher, UploadArchive,
                UpdateMapping, RecordBackup, ghosts
  <2> QED
    BY <1>1, <1>2, <2>1, Finished DEF GiveUp
<1>3. CASE \E step \in {"exec", "encrypt", "upload", "record"} : Go(p, step)
  <2>1. printed' = printed
    BY DEF GiveUp, BeginAnswer, RunCommand, EncryptArchive, WriteCipher, UploadArchive,
           UpdateMapping, RecordBackup, ghosts
  <2> QED
    BY <1>1, <1>3, <2>1, Gone DEF WatchStep, Busy
<1>4. CASE ~ GiveUp(p) /\ EncryptArchive(p)
  BY <1>1, <1>4 DEF EncryptArchive, Busy, TypeInv, TypeOK, Watching, ghosts
<1>5. CASE ~ GiveUp(p) /\ UploadArchive(p)
  BY <1>1, <1>5 DEF UploadArchive, Busy, TypeInv, TypeOK, Watching, ghosts
<1> QED
  BY <1>2, <1>3, <1>4, <1>5 DEF BeginAnswer, RunCommand, WriteCipher, UpdateMapping, RecordBackup

LEMMA WindowNext == TypeInv /\ WindowInv /\ [Next]_vars => WindowInv'
<1> SUFFICES ASSUME TypeInv, WindowInv, [Next]_vars PROVE WindowInv'
  OBVIOUS
<1>1. Height' >= Height /\ Height' \in Nat
  BY LogEither, HeightGrows
<1>2. ASSUME NEW q \in Process, watcher'[q] = watcher[q], printed'[q] = printed[q]
      PROVE  WindowOf(q)'
  BY <1>1, <1>2, WindowKept DEF WindowInv
<1>3. CASE UNCHANGED vars \/ Others \/ ImportKey \/ PushBackup
           \/ \E p \in Process : Post(p) \/ StopPost(p)
  <2>1. UNCHANGED <<watcher, printed>>
    BY <1>3, OthersStep DEF vars, ghosts, ImportKey, PushBackup, Post, Compose, ReadPostEpoch,
                            ReadSeq, PostMessage, StopPost, PostOnly
  <2> QED
    BY <1>2, <2>1 DEF WindowInv
<1>4. ASSUME NEW p \in Process,
             \/ StartWatch(p, DefaultStart) \/ StartWatch(p, 0) \/ StopWatch(p)
             \/ Poll(p) \/ Handle(p) \/ BatchDone(p)
      PROVE  WindowInv'
  <2>1. /\ watcher \in [Process -> Watching]
        /\ printed \in [Process -> Seq([block : Nat, whole : BOOLEAN])]
    BY DEF TypeInv, TypeOK
  <2>2. \A q \in Process : q # p => watcher'[q] = watcher[q] /\ printed'[q] = printed[q]
    BY <1>4, <2>1 DEF StartWatch, StopWatch, Poll, Handle, BatchDone, ghosts
  <2>3. CASE StopWatch(p)
    <3>1. watcher'[p].at = "down"
      BY <2>1, <2>3 DEF StopWatch, Down
    <3>2. WindowOf(p)'
      BY <3>1 DEF WindowOf
    <3> QED
      BY <1>2, <2>2, <3>2 DEF WindowInv
  <2>4. CASE ~ StopWatch(p)
    <3>1. WindowOf(p)'
      BY <1>4, <2>4, WindowStart, WindowScan DEF WindowInv
    <3> QED
      BY <1>2, <2>2, <3>1 DEF WindowInv
  <2> QED
    BY <2>3, <2>4
<1>5. ASSUME NEW p \in Process,
             \/ BeginAnswer(p) \/ RunCommand(p) \/ EncryptArchive(p) \/ WriteCipher(p)
             \/ UploadArchive(p) \/ UpdateMapping(p) \/ RecordBackup(p)
      PROVE  WindowInv'
  <2>1. WindowOf(p)'
    BY <1>1, <1>5, AnswerStep, WindowKept DEF WindowInv
  <2> QED
    BY <1>2, <1>5, <2>1, AnswerStep DEF WindowInv
<1> QED
  BY <1>3, <1>4, <1>5 DEF Next, Watch

LEMMA WindowShows ==
  ASSUME TypeInv, WindowInv
  PROVE  WatchedInOrder
<1> SUFFICES ASSUME NEW p \in Process, watcher[p].at # "down"
             PROVE  /\ ScannedTo(watcher[p]) <= Height
                    /\ [i \in DOMAIN printed[p] |-> printed[p][i].block]
                         = Span(watcher[p].start, ScannedTo(watcher[p]))
  BY ProcessAssumption DEF WatchedInOrder
<1> DEFINE first == FirstOf(watcher[p].start)
           to == ScannedTo(watcher[p])
           n == Len(printed[p])
<1>1. /\ watcher[p].start \in Nat /\ watcher[p].cursor \in Nat /\ watcher[p].latest \in Nat
      /\ Height \in Nat /\ n \in Nat /\ DOMAIN printed[p] = 1..n
  BY WatchingNumbers, LenProperties
<1>2. /\ watcher[p].start <= watcher[p].cursor /\ watcher[p].cursor <= Height + 1
      /\ watcher[p].at # "poll" => watcher[p].cursor <= watcher[p].latest /\ watcher[p].latest <= Height
      /\ n = Printed(watcher[p])
      /\ \A i \in 1..n : printed[p][i].block = first + i - 1
  BY DEF WindowInv, WindowOf
<1>3. to \in Int /\ to <= Height /\ first \in Nat
  BY <1>1, <1>2 DEF ScannedTo, FirstOf
<1>4. 1..n = 1..(to + 1 - first)
  <2>1. CASE Beginning(watcher[p])
    <3>1. to = 0 - 1 /\ n = 0 /\ first = 1
      BY <1>1, <1>2, <2>1 DEF Beginning, Printed, ScannedTo, FirstOf
    <3> HIDE DEF to, n, first
    <3> QED
      BY <3>1
  <2>2. CASE ~ Beginning(watcher[p])
    <3>1. n = to + 1 - first
      BY <1>2, <2>2 DEF Printed
    <3> QED
      BY <3>1
  <2> QED
    BY <2>1, <2>2
<1>5. Span(watcher[p].start, to) = [i \in 1..n |-> first + i - 1]
  BY <1>4 DEF Span
<1> QED
  BY <1>1, <1>2, <1>3, <1>5

(* What a watcher printed since it started is every block from its first   *)
(* cursor up to the last one it scanned, in chain order, nothing twice and *)
(* nothing left out (swarm-contract.ts, the cursor of watchSwarmEvents).   *)
THEOREM WatchedInOrderHolds == Spec => []WatchedInOrder
<1>1. Init => WindowInv
  BY DEF Init, WindowInv, WindowOf, Down
<1>2. TypeInv /\ WindowInv => WatchedInOrder
  BY WindowShows
<1> QED
  BY <1>1, <1>2, WindowNext, TypeInit, TypeNext, PTL DEF Spec

-----------------------------------------------------------------------------
(* The sequence numbers of messages.                                       *)

UpTo(b) == {c \in MessageBlocks : c <= b}

(* A command that is about to post read the last number some time ago.     *)
SequenceInv ==
    /\ SequencesDense
    /\ lastSeq = Cardinality(MessageBlocks)
    /\ \A p \in Process : poster[p].at = "post" => poster[p].seq <= lastSeq + 1

LEMMA MessagesFinite ==
  ASSUME TypeInv
  PROVE  /\ IsFiniteSet(MessageBlocks) /\ Cardinality(MessageBlocks) \in Nat
         /\ Height \in Nat /\ MessageBlocks \subseteq 1..Height
<1>1. Height \in Nat /\ MessageBlocks \subseteq 1..Height
  BY DEF TypeInv, TypeOK, Height, MessageBlocks
<1>2. IsFiniteSet(1..Height)
  BY <1>1, FS_Interval
<1> QED
  BY <1>1, <1>2, FS_Subset, FS_CardinalityType

(* The chain takes the number after the last one, or nothing.              *)
Delivers(p) ==
    LET m == poster[p] IN
    /\ m.at = "post" /\ InSequence(m.seq) /\ lastSeq' = m.seq /\ Mine(Message(m))
    /\ Step(p, Idle)

LEMMA SequenceDelivered ==
  ASSUME TypeInv, SequenceInv, NEW p \in Process, Delivers(p)
  PROVE  SequenceInv'
<1> DEFINE m == poster[p]
<1>0. PICK h \in Nat : h = Height + 1
  BY MessagesFinite
<1>1. m \in Posting /\ m.seq \in Nat /\ lastSeq \in Nat /\ poster \in [Process -> Posting]
  BY DEF TypeInv, TypeOK, Posting
<1>2. /\ m.at = "post" /\ m.seq > lastSeq /\ lastSeq' = m.seq
      /\ poster' = [poster EXCEPT ![p] = Idle]
      /\ Mine(Message(m)) /\ Message(m) \in Event /\ Message(m).type = "AgentMessagePosted"
      /\ Message(m).seq = m.seq
  BY <1>1, MessageTyped DEF Delivers, InSequence, Step, Message
<1>3. lastSeq' = lastSeq + 1
  BY <1>1, <1>2 DEF SequenceInv
<1>4. /\ MessageBlocks' = MessageBlocks \cup {h} /\ h \notin MessageBlocks
      /\ \A b \in MessageBlocks : log'[b] = log[b]
      /\ log'[h].seq = m.seq
  BY <1>0, <1>2, LogGrows
<1>5. /\ Height \in Nat /\ MessageBlocks \subseteq 1..Height /\ IsFiniteSet(MessageBlocks)
  BY MessagesFinite
<1>6. Cardinality(MessageBlocks') = lastSeq + 1
  BY <1>4, <1>5, FS_AddElement DEF SequenceInv
<1>7. UpTo(h)' = MessageBlocks' /\ \A b \in MessageBlocks : UpTo(b)' = UpTo(b)
  <2>1. \A b \in MessageBlocks : b \in Nat /\ b < h
    BY <1>0, <1>5
  <2>2. UpTo(h)' = MessageBlocks'
    BY <1>4, <2>1 DEF UpTo
  <2>3. ASSUME NEW b \in MessageBlocks PROVE UpTo(b)' = UpTo(b)
    <3>1. b \in Nat /\ ~ (h <= b)
      BY <2>1
    <3>2. UpTo(b)' = {c \in MessageBlocks' : c <= b}
      BY DEF UpTo
    <3>3. {c \in MessageBlocks \cup {h} : c <= b} = {c \in MessageBlocks : c <= b}
      BY <3>1
    <3> QED
      BY <1>4, <3>2, <3>3 DEF UpTo
  <2> QED
    BY <2>2, <2>3
<1>8. \A b \in MessageBlocks' : log'[b].seq = Cardinality(UpTo(b)')
  <2>1. \A b \in MessageBlocks : log[b].seq = Cardinality(UpTo(b))
    BY DEF SequenceInv, SequencesDense, UpTo
  <2>2. log'[h].seq = Cardinality(UpTo(h)')
    BY <1>2, <1>3, <1>4, <1>6, <1>7
  <2> QED
    BY <1>4, <1>7, <2>1, <2>2
<1>9. SequencesDense'
  BY <1>8 DEF SequencesDense, UpTo
<1>10. \A q \in Process : poster'[q].at = "post" => poster'[q].seq <= lastSeq' + 1
  <2> SUFFICES ASSUME NEW q \in Process, poster'[q].at = "post"
               PROVE  poster'[q].seq <= lastSeq' + 1
    OBVIOUS
  <2>1. q # p
    BY <1>1, <1>2 DEF Idle
  <2>2. poster'[q] = poster[q] /\ poster[q].seq \in Nat
    BY <1>1, <1>2, <2>1 DEF Posting
  <2> QED
    BY <1>1, <1>3, <2>2 DEF SequenceInv
<1> QED
  BY <1>3, <1>6, <1>9, <1>10 DEF SequenceInv

LEMMA SequenceKept ==
  ASSUME TypeInv, SequenceInv, MessageBlocks' = MessageBlocks, UNCHANGED lastSeq,
         \A b \in MessageBlocks : log'[b] = log[b],
         \A p \in Process : poster'[p].at = "post" =>
            poster'[p] = poster[p] \/ poster'[p].seq <= lastSeq + 1
  PROVE  SequenceInv'
<1>1. SequencesDense'
  BY DEF SequenceInv, SequencesDense
<1>2. \A p \in Process : poster'[p].at = "post" => poster'[p].seq <= lastSeq' + 1
  BY DEF SequenceInv
<1> QED
  BY <1>1, <1>2 DEF SequenceInv

LEMMA SequenceNext == TypeInv /\ SequenceInv /\ [Next]_vars => SequenceInv'
<1> SUFFICES ASSUME TypeInv, SequenceInv, [Next]_vars PROVE SequenceInv'
  OBVIOUS
<1>0. /\ poster \in [Process -> Posting] /\ Idle \in Posting /\ Idle.at = "idle" /\ lastSeq \in Nat
  BY RestTyped DEF TypeInv, TypeOK, Idle
<1>1. ASSUME UNCHANGED <<lastSeq, poster>>,
             UNCHANGED log \/ \E e \in Event : Mine(e) /\ e.type # "AgentMessagePosted"
      PROVE  SequenceInv'
  <2>1. MessageBlocks' = MessageBlocks /\ \A b \in MessageBlocks : log'[b] = log[b]
    BY <1>1, LogGrows, LogSame
  <2> QED
    BY <1>1, <2>1, SequenceKept
<1>2. CASE UNCHANGED vars \/ Others \/ ImportKey \/ PushBackup
  BY <1>1, <1>2, OthersStep DEF vars, chain, ImportKey, PushBackup, Foreign
<1>3. ASSUME NEW p \in Process,
             \/ StartWatch(p, DefaultStart) \/ StartWatch(p, 0) \/ StopWatch(p) \/ Watch(p)
      PROVE  SequenceInv'
  <2>1. CASE UpdateMapping(p)
    <3>1. Mapping(p).type # "AgentMessagePosted"
      BY DEF Mapping
    <3>2. /\ UNCHANGED <<lastSeq, poster>>
          /\ UNCHANGED log \/ (Mine(Mapping(p)) /\ watcher[p].at = "map")
      BY <2>1 DEF UpdateMapping, Mapping, GiveUp, chain
    <3> QED
      BY <1>1, <3>1, <3>2, MappingTyped
  <2>2. CASE ~ UpdateMapping(p)
    <3>1. UNCHANGED <<log, lastSeq, poster>>
      BY <1>3, <2>2 DEF StartWatch, StopWatch, Watch, Poll, Handle, BatchDone, BeginAnswer, GiveUp,
                        RunCommand, EncryptArchive, WriteCipher, UploadArchive, RecordBackup, chain
    <3> QED
      BY <1>1, <3>1
  <2> QED
    BY <2>1, <2>2
<1>4. ASSUME NEW p \in Process, PostMessage(p)
      PROVE  SequenceInv'
  <2>1. Delivers(p) \/ (UNCHANGED chain /\ Step(p, Idle))
    BY <1>4 DEF PostMessage, Delivers, Message
  <2>2. CASE UNCHANGED chain /\ Step(p, Idle)
    <3>1. /\ UNCHANGED <<log, lastSeq>>
          /\ \A q \in Process : poster'[q].at = "post" => poster'[q] = poster[q]
      BY <1>0, <2>2 DEF chain, Step
    <3> QED
      BY <3>1, LogSame, SequenceKept
  <2> QED
    BY <2>1, <2>2, SequenceDelivered
<1>5. ASSUME NEW p \in Process,
             Compose(p) \/ ReadPostEpoch(p) \/ ReadSeq(p) \/ StopPost(p)
      PROVE  SequenceInv'
  <2>1. /\ UNCHANGED <<log, lastSeq>>
        /\ \A q \in Process : q # p => poster'[q] = poster[q]
    BY <1>0, <1>5 DEF Compose, ReadPostEpoch, ReadSeq, StopPost, PostOnly, Step, chain
  <2>2. poster'[p].at = "post" => poster'[p].seq <= lastSeq + 1
    <3>1. CASE Compose(p)
      <4>1. poster'[p].at = "epoch"
        BY <1>0, <3>1 DEF Compose, Step, Posting
      <4> QED
        BY <4>1
    <3>2. CASE ReadPostEpoch(p)
      BY <1>0, <3>2 DEF ReadPostEpoch, Step, Posting
    <3>3. CASE ReadSeq(p)
      <4>1. PICK n \in Nat : n = lastSeq + 1
        BY <1>0
      <4>2. poster'[p] = [poster[p] EXCEPT !.seq = n, !.at = "post"] /\ poster[p] \in Posting
        BY <1>0, <3>3, <4>1 DEF ReadSeq, Step
      <4>3. poster'[p].seq = n
        BY <4>2 DEF Posting
      <4> QED
        BY <1>0, <4>1, <4>3
    <3>4. CASE StopPost(p)
      BY <1>0, <3>4 DEF StopPost, Step
    <3> QED
      BY <1>5, <3>1, <3>2, <3>3, <3>4
  <2> QED
    BY <2>1, <2>2, LogSame, SequenceKept
<1> QED
  BY <1>2, <1>3, <1>4, <1>5 DEF Next, Post

(* The sequence numbers of a sender on chain are 1, 2, 3, ... in order,    *)
(* though any number of posts read the last number before they are sent    *)
(* (postMessageToSwarm; _lastSenderSeq of the contract).                   *)
THEOREM SequencesDenseHolds == Spec => []SequencesDense
<1>1. Init => SequenceInv
  <2> SUFFICES ASSUME Init PROVE SequenceInv
    OBVIOUS
  <2>1. MessageBlocks = {} /\ lastSeq = 0 /\ \A p \in Process : poster[p] = Idle
    BY DEF Init, MessageBlocks, Height
  <2> QED
    BY <2>1, FS_EmptySet DEF SequenceInv, SequencesDense, Idle
<1>2. SequenceInv => SequencesDense
  BY DEF SequenceInv
<1> QED
  BY <1>1, <1>2, SequenceNext, TypeInit, TypeNext, PTL DEF Spec
=============================================================================
