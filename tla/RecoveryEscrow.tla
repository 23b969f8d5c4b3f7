--------------------------- MODULE RecoveryEscrow ---------------------------
(***************************************************************************)
(* `soulvault recovery escrow | restore | sweep' on the local key ring     *)
(* (packages/node/src/recovery-escrow.ts, ring-backend.ts).                *)
(*                                                                         *)
(* Everything lives in one state directory: the ring file (a seed and a    *)
(* generation, shared by all agents) and, per agent and epoch, a header    *)
(* file and a body file.  Nothing locks the directory.  A command reads    *)
(* the ring once, when it opens it, and works from memory; it may be       *)
(* killed between any two file operations.  A file is written atomically.  *)
(*                                                                         *)
(* A body is its plaintext together with the key that sealed it.  A key is *)
(* derived from the seed, the key name (the place of the file) and the     *)
(* generation, and AES-GCM opens under no other key.                       *)
(***************************************************************************)
EXTENDS Integers, FiniteSets, FiniteSetsExt

CONSTANTS
    Agent, EscrowEpoch, Archive,    \* agents, epochs and files to escrow
    NoFile,
    Proc,                           \* commands that may run at the same time
    MaxKick, MaxFault               \* bounds, for model checking only

VARIABLES
    ring,           \* ring-local/state.json; seed 0 is "no such file"
    header, body,   \* the two files of each escrow
    session,        \* the memory of each running command
    owed,           \* agents whose sweep has not completed since the last removal
    rotated,        \* ghost: ring rotations so far
    torn,           \* ghost: escrows with a new header and not yet its body
    kicks, faults   \* bounded: members removed; crashes and lost files

files == <<header, body, torn>>
escrowVars == <<ring, files, session, owed, rotated, kicks, faults>>

Escrow == Agent \X EscrowEpoch
Header == [generation : Nat, payload : Archive]
Body   == [seed : Nat, generation : Nat, payload : Archive, stamp : Nat]

ASSUME EscrowAssumption ==
    /\ Agent # {} /\ EscrowEpoch \subseteq Nat /\ IsFiniteSet(EscrowEpoch)
    /\ NoFile \notin Header \cup Body
    /\ MaxKick \in Nat /\ MaxFault \in Nat

Step == {"idle", "open", "create", "list", "read", "decrypt", "header", "body"}

Session == [at : Step, sweep : BOOLEAN, agent : Agent, seed : Nat, generation : Nat,
            from : Nat, todo : SUBSET EscrowEpoch, found : Header \cup {NoFile},
            pending : SUBSET (EscrowEpoch \X Archive)]

Idle == [at |-> "idle", sweep |-> FALSE, agent |-> CHOOSE a \in Agent : TRUE, seed |-> 0,
         generation |-> 0, from |-> 0, todo |-> {}, found |-> NoFile, pending |-> {}]

EscrowInit ==
    /\ ring = [seed |-> 0, generation |-> 0]
    /\ header = [x \in Escrow |-> NoFile]
    /\ body = [x \in Escrow |-> NoFile]
    /\ session = [p \in Proc |-> Idle]
    /\ owed = {} /\ rotated = 0 /\ torn = {} /\ kicks = 0 /\ faults = 0

At(p, step) == session[p].at = step
Continue(p, s) == session' = [session EXCEPT ![p] = s]

HasDirectory(a) == \E e \in EscrowEpoch : <<a, e>> \in torn \/ header[a, e] # NoFile
                                                            \/ body[a, e] # NoFile

Opens(b, seed, generation) == b.seed = seed /\ b.generation = generation

-----------------------------------------------------------------------------
(* Opening the ring *)

StartEscrow(p, a, e, x) ==
    /\ At(p, "idle")
    /\ Continue(p, [Idle EXCEPT !.at = "open", !.agent = a, !.pending = {<<e, x>>}])
    /\ UNCHANGED <<ring, files, owed, rotated, kicks, faults>>

(* After a removal the owner sweeps every agent, until the sweep completes. *)
StartSweep(p, a) ==
    /\ At(p, "idle")
    /\ a \in owed
    /\ Continue(p, [Idle EXCEPT !.at = "open", !.sweep = TRUE, !.agent = a])
    /\ UNCHANGED <<ring, files, owed, rotated, kicks, faults>>

OpenRing(p) ==
    LET s == session[p] IN
    /\ At(p, "open")
    /\ Continue(p,
         IF ring.seed = 0 THEN [s EXCEPT !.at = "create"]
         ELSE [s EXCEPT !.at = IF s.sweep THEN "list" ELSE "header",
                        !.seed = ring.seed, !.generation = ring.generation,
                        !.from = ring.generation])
    /\ UNCHANGED <<ring, files, owed, rotated, kicks, faults>>

(* Another command may have created the file since; it is overwritten. *)
CreateRing(p) ==
    LET s == session[p] IN
    /\ At(p, "create")
    /\ ring' = [seed |-> ring.seed + 1, generation |-> 0]
    /\ Continue(p, [s EXCEPT !.at = IF s.sweep THEN "list" ELSE "header",
                             !.seed = ring.seed + 1])
    /\ UNCHANGED <<files, owed, rotated, kicks, faults>>

-----------------------------------------------------------------------------
(* sweepAfterKick: read everything, rotate, write everything *)

(* It stops with an error when the agent has no escrow directory. *)
ListBodies(p) ==
    LET s == session[p] IN
    /\ At(p, "list")
    /\ Continue(p, IF HasDirectory(s.agent)
                   THEN [s EXCEPT !.at = "read",
                           !.todo = {e \in EscrowEpoch : body[s.agent, e] # NoFile}]
                   ELSE Idle)
    /\ owed' = IF HasDirectory(s.agent) THEN owed ELSE owed \ {s.agent}
    /\ UNCHANGED <<ring, files, rotated, kicks, faults>>

Lost(h)      == h = NoFile

GiveUp(s, e)   == IF e \in s.todo THEN Idle ELSE s     \* mutant: a lost header is an error
PassOver(s, e) == [s EXCEPT !.todo = @ \ {e}]

(* An escrow without its header is passed over. *)
ReadHeader(p) ==
    LET s == session[p]
        e == Min(s.todo)
        h == header[s.agent, e]
    IN  /\ At(p, "read")
        /\ s.todo # {}
        /\ Continue(p, IF Lost(h) THEN PassOver(s, e)
                                  ELSE [s EXCEPT !.at = "decrypt", !.found = h])
        /\ UNCHANGED <<ring, files, owed, rotated, kicks, faults>>

OpenedGeneration(s) == s.from               \* mutant: the header's generation is ignored
CarryGeneration(s)  == s.found.generation

(* A body that does not open under its header's generation is dropped. *)
ReadBody(p) ==
    LET s == session[p]
        e == Min(s.todo)
        b == body[s.agent, e]
    IN  /\ At(p, "decrypt")
        /\ Continue(p, [s EXCEPT !.at = "read", !.found = NoFile, !.todo = @ \ {e},
                          !.pending = IF Opens(b, s.seed, CarryGeneration(s))
                                      THEN @ \cup {<<e, b.payload>>} ELSE @])
        /\ UNCHANGED <<ring, files, owed, rotated, kicks, faults>>

OldGeneration(s) == s.generation            \* mutant: the new generation stays in memory
NewGeneration(s) == s.generation + 1

Finish(p) == /\ Continue(p, Idle)
             /\ owed' = IF session[p].sweep THEN owed \ {session[p].agent} ELSE owed

(* rotate() takes the generation from memory and the seed from the file. *)
Rotate(p) ==
    LET s == session[p] IN
    /\ At(p, "read")
    /\ s.todo = {}
    /\ ring' = [ring EXCEPT !.generation = NewGeneration(s)]
    /\ rotated' = rotated + 1
    /\ IF s.pending = {} THEN Finish(p)
       ELSE /\ Continue(p, [s EXCEPT !.at = "header", !.generation = @ + 1])
            /\ UNCHANGED owed
    /\ UNCHANGED <<files, kicks, faults>>

-----------------------------------------------------------------------------
(* writeRecoveryEscrow: for `escrow', and for each survivor of a sweep *)

FirstGeneration(s) == s.from                \* mutant: the header names the generation opened
SealGeneration(s)  == s.generation

NextPending(s) == CHOOSE w \in s.pending : \A v \in s.pending : w[1] <= v[1]

WriteHeader(p) ==
    LET s == session[p]
        w == NextPending(s)
        x == <<s.agent, w[1]>>
    IN  /\ At(p, "header")
        /\ header' = [header EXCEPT ![x] = [generation |-> SealGeneration(s), payload |-> w[2]]]
        /\ torn' = torn \cup {x}
        /\ Continue(p, [s EXCEPT !.at = "body"])
        /\ UNCHANGED <<ring, body, owed, rotated, kicks, faults>>

WriteBody(p) ==
    LET s == session[p]
        w == NextPending(s)
        x == <<s.agent, w[1]>>
    IN  /\ At(p, "body")
        /\ body' = [body EXCEPT ![x] = [seed |-> s.seed, generation |-> s.generation,
                                        payload |-> w[2], stamp |-> rotated]]
        /\ torn' = torn \ {x}
        /\ IF s.pending = {w} THEN Finish(p)
           ELSE /\ Continue(p, [s EXCEPT !.at = "header", !.pending = @ \ {w}])
                /\ UNCHANGED owed
        /\ UNCHANGED <<ring, header, rotated, kicks, faults>>

-----------------------------------------------------------------------------
(* The world around the commands *)

Kick ==
    /\ kicks < MaxKick
    /\ kicks' = kicks + 1
    /\ owed' = Agent
    /\ UNCHANGED <<ring, files, session, rotated, faults>>

Crash(p) ==
    /\ ~At(p, "idle")
    /\ faults < MaxFault
    /\ faults' = faults + 1
    /\ Continue(p, Idle)
    /\ UNCHANGED <<ring, files, owed, rotated, kicks>>

LoseHeader(x) ==
    /\ header[x] # NoFile
    /\ x \notin torn
    /\ faults < MaxFault
    /\ faults' = faults + 1
    /\ header' = [header EXCEPT ![x] = NoFile]
    /\ UNCHANGED <<ring, body, torn, session, owed, rotated, kicks>>

Working(p) ==
    \/ OpenRing(p) \/ CreateRing(p) \/ ListBodies(p) \/ ReadHeader(p) \/ ReadBody(p)
    \/ Rotate(p) \/ WriteHeader(p) \/ WriteBody(p)

EscrowNext ==
    \/ \E p \in Proc :
         \/ \E a \in Agent : \/ StartSweep(p, a)
                             \/ \E e \in EscrowEpoch, x \in Archive : StartEscrow(p, a, e, x)
         \/ Working(p)
         \/ Crash(p)
    \/ Kick
    \/ \E x \in Escrow : LoseHeader(x)

EscrowSpec == EscrowInit /\ [][EscrowNext]_escrowVars

(* A command that has started runs on, and an owner who has a sweep to do  *)
(* does start one, however often another command comes first.              *)
FairSpec ==
    /\ EscrowSpec
    /\ \A p \in Proc : /\ WF_escrowVars(Working(p))
                       /\ \A a \in Agent : SF_escrowVars(StartSweep(p, a))

-----------------------------------------------------------------------------
(* restore reads and changes nothing *)

FastRestores(x) ==
    /\ header[x] # NoFile /\ body[x] # NoFile
    /\ Opens(body[x], ring.seed, ring.generation)
    /\ body[x].payload = header[x].payload

-----------------------------------------------------------------------------
(* Properties *)

(* Files and memory hold values of their types; a sweep decrypts only with *)
(* a header in hand, and only a body that exists.                          *)
EscrowTypeOK ==
    /\ ring \in [seed : Nat, generation : Nat]
    /\ header \in [Escrow -> Header \cup {NoFile}]
    /\ body \in [Escrow -> Body \cup {NoFile}]
    /\ session \in [Proc -> Session]
    /\ \A p \in Proc : At(p, "decrypt") =>
         /\ session[p].found \in Header
         /\ \A e \in session[p].todo : body[session[p].agent, e] # NoFile
    /\ owed \subseteq Agent
    /\ torn \subseteq Escrow
    /\ rotated \in Nat /\ kicks \in 0..MaxKick /\ faults \in 0..MaxFault

(* When commands run one at a time: header and body of an escrow agree,    *)
(* and the body opens with the generation its header names.  So whatever   *)
(* was rotated or killed before, the next sweep can carry it; only a       *)
(* command killed between the two writes of one escrow can lose it.        *)
HeaderOpensBody ==
    \A x \in Escrow \ torn : header[x] # NoFile =>
      /\ body[x] # NoFile
      /\ Opens(body[x], ring.seed, header[x].generation)
      /\ body[x].payload = header[x].payload

(* docs/epoch-key-ring-spec.md, section 6: a sweep "decrypts all active    *)
(* escrows and republishes them": once the sweeps owed for a removal are   *)
(* done, every escrow with its two files is restored by the fast path.     *)
(* True for one agent per state directory, however many sweeps were killed *)
(* on the way.  With two agents the sweep of the second rotates the ring   *)
(* away from under the first.                                              *)
SweptRestores ==
    owed = {} => \A x \in Escrow \ torn : header[x] # NoFile => FastRestores(x)

(* ring-backend.ts: "pre-rotation ciphertext dies".  No body sealed before *)
(* a rotation opens under the ring after it.  True when commands run one   *)
(* at a time; two overlapping sweeps write the same generation twice.      *)
RotationKills ==
    \A x \in Escrow : body[x] # NoFile /\ body[x].stamp < rotated
                        => ~Opens(body[x], ring.seed, ring.generation)

(* Every sweep owed is completed in the end, over crashes, lost headers,   *)
(* torn escrows and bodies that no longer open.                            *)
SweepCompletes == \A a \in Agent : a \in owed ~> a \notin owed
=============================================================================
