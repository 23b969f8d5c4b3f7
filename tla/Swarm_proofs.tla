----------------------------- MODULE Swarm_proofs -----------------------------
(***************************************************************************)
(* Theorems about the recovery escrows of a state directory, for any       *)
(* number of epochs and archives, and any crashes, kicks and lost files;   *)
(* and about the swarm contract, for every set of accounts, keys and       *)
(* references and every bound.                                             *)
(***************************************************************************)
EXTENDS RecoveryEscrow, SoulVaultSwarm, FiniteSetTheorems, WellFoundedInduction, TLAPS

-----------------------------------------------------------------------------
(* The least epoch of a set, and what is written next.                     *)

Less == {x \in Nat \X Nat : x[1] < x[2]}

LEMMA LessRelation == OpToRel(<, Nat) = Less
BY Zenon DEF OpToRel, Less

LEMMA Least ==
  ASSUME NEW S \in SUBSET Nat, S # {}
  PROVE  \E b \in S : \A c \in S : b <= c
<1>1. IsWellFoundedOn(OpToRel(<, Nat), Nat)
  BY NatLessThanWellFounded
<1>2. IsWellFoundedOn(Less, Nat)
  BY <1>1, LessRelation
<1>3. PICK b \in S : \A c \in S : ~ (<<c, b>> \in Less)
  BY <1>2, WFMin
<1>4. ASSUME NEW c \in S PROVE b <= c
  <2>1. c \in Nat /\ b \in Nat /\ <<c, b>> \in Nat \X Nat
    OBVIOUS
  <2>2. ~ (<<c, b>>[1] < <<c, b>>[2])
    BY <1>3, <2>1 DEF Less
  <2> QED
    BY <2>1, <2>2
<1> QED
  BY <1>4

LEMMA Leading ==
  ASSUME NEW s \in Session
  PROVE  /\ s.todo # {} => Min(s.todo) \in s.todo
         /\ s.pending # {} => /\ NextPending(s) \in s.pending
                              /\ NextPending(s)[1] \in EscrowEpoch
                              /\ NextPending(s)[2] \in Archive
<1>1. /\ s.todo \subseteq EscrowEpoch /\ s.pending \subseteq EscrowEpoch \X Archive
      /\ EscrowEpoch \subseteq Nat
  BY EscrowAssumption DEF Session
<1>2. ASSUME s.todo # {} PROVE Min(s.todo) \in s.todo
  <2>1. \E b \in s.todo : \A c \in s.todo : b <= c
    BY <1>1, <1>2, Least
  <2> QED
    BY <2>1 DEF Min
<1>3. ASSUME s.pending # {} PROVE NextPending(s) \in s.pending
  <2> DEFINE S == {w[1] : w \in s.pending}
  <2>1. S \in SUBSET Nat /\ S # {}
    BY <1>1, <1>3
  <2>2. PICK b \in S : \A c \in S : b <= c
    BY <2>1, Least
  <2>3. PICK w \in s.pending : b = w[1]
    BY <2>2
  <2>4. \A v \in s.pending : w[1] <= v[1]
    BY <2>2, <2>3
  <2> QED
    BY <2>4 DEF NextPending
<1> QED
  BY <1>1, <1>2, <1>3

-----------------------------------------------------------------------------
(* The invariants.                                                         *)

(* A session is well formed: what it is about to write, read or open is    *)
(* there.                                                                  *)
Own(s, bodies) ==
    /\ s.at = "decrypt" => s.found \in Header /\ s.todo # {}
    /\ s.at \in {"read", "decrypt"} => \A e \in s.todo : bodies[s.agent, e] # NoFile
    /\ s.at \in {"open", "create"} => s.generation = 0 /\ (s.sweep \/ s.pending # {})
    /\ s.at \in {"list", "read", "decrypt"} => s.sweep
    /\ s.at \in {"header", "body"} => s.pending # {}

TypeInv == EscrowTypeOK /\ \A p \in Proc : Own(session[p], body)

(* Alone, the command that has opened the ring knows the ring, and every   *)
(* rotation has moved the generation by one.                               *)
RingInv(p) ==
    LET s == session[p] IN
    /\ ring.generation = rotated
    /\ ring.seed = 0 => rotated = 0
    /\ s.at = "create" => ring.seed = 0
    /\ s.at \in {"list", "read", "decrypt", "header", "body"} =>
         /\ ring.seed # 0
         /\ s.seed = ring.seed /\ s.generation = ring.generation

(* Bodies are sealed under the only seed there has been.                   *)
SealedInv ==
    \A x \in Escrow : body[x] # NoFile =>
      /\ ring.seed # 0 /\ body[x].seed = ring.seed
      /\ body[x].stamp = body[x].generation /\ body[x].generation <= rotated

Place(s) == <<s.agent, NextPending(s)[1]>>

Standing(x) == x \notin torn /\ header[x] # NoFile

(* The two files of an escrow agree, between their two writes apart.       *)
PairInv(p) ==
    /\ \A x \in Escrow : Standing(x) =>
         /\ body[x] # NoFile
         /\ body[x].generation = header[x].generation
         /\ body[x].payload = header[x].payload
    /\ At(p, "body") =>
         LET s == session[p] IN
         /\ Place(s) \in torn
         /\ header[Place(s)] = [generation |-> s.generation, payload |-> NextPending(s)[2]]

Fresh(x) == header[x].generation = ring.generation

Carried(s) == {w[1] : w \in s.pending}

(* The only agent: an escrow is fresh, or a sweep is owed; and a sweep     *)
(* that runs holds, or has still to read, all that is not fresh.           *)
SweptInv(p, a) ==
    LET s == session[p] IN
    /\ owed = {} => \A e \in EscrowEpoch : Standing(<<a, e>>) => Fresh(<<a, e>>)
    /\ s.sweep /\ s.at # "idle" => owed # {}
    /\ s.at \in {"read", "decrypt"} =>
         \A e \in EscrowEpoch : Standing(<<a, e>>) => e \in s.todo \cup Carried(s)
    /\ s.at = "decrypt" => header[a, Min(s.todo)] \in {s.found, NoFile}
    /\ s.sweep /\ s.at \in {"header", "body"} =>
         \A e \in EscrowEpoch : Standing(<<a, e>>) => e \in Carried(s) \/ Fresh(<<a, e>>)

-----------------------------------------------------------------------------
(* What each step does to the session that takes it, and to nothing else.  *)

Moves(p, t) == t \in Session /\ session' = [session EXCEPT ![p] = t]

LEMMA IdleTyped ==
  /\ Idle \in Session /\ Idle.at = "idle" /\ Idle.sweep = FALSE /\ Idle.generation = 0
  /\ Idle.todo = {} /\ Idle.pending = {} /\ Own(Idle, body)
<1>1. PICK a \in Agent : a = CHOOSE c \in Agent : TRUE
  BY EscrowAssumption
<1> QED
  BY <1>1 DEF Idle, Session, Step, Own

LEMMA StartStep ==
  ASSUME TypeInv, NEW p \in Proc,
         NEW a \in Agent, StartSweep(p, a) \/ \E e \in EscrowEpoch, x \in Archive : StartEscrow(p, a, e, x)
  PROVE  /\ \E t \in Session :
              /\ Moves(p, t) /\ Own(t, body) /\ t.at = "open"
              /\ t.sweep => owed # {}
         /\ UNCHANGED <<ring, files, owed, rotated, kicks, faults>>
<1>1. CASE StartSweep(p, a)
  <2> DEFINE t == [Idle EXCEPT !.at = "open", !.sweep = TRUE, !.agent = a]
  <2>1. session' = [session EXCEPT ![p] = t] /\ a \in owed
        /\ UNCHANGED <<ring, files, owed, rotated, kicks, faults>>
    BY <1>1 DEF StartSweep, Continue
  <2>2. /\ t \in Session /\ t.at = "open" /\ t.sweep = TRUE /\ t.generation = 0
    BY IdleTyped DEF Session, Step
  <2> HIDE DEF t
  <2>3. Own(t, body)
    BY <2>2 DEF Own
  <2> QED
    BY <2>1, <2>2, <2>3 DEF Moves
<1>2. ASSUME NEW e \in EscrowEpoch, NEW x \in Archive, StartEscrow(p, a, e, x)
      PROVE  /\ \E t \in Session :
                  /\ Moves(p, t) /\ Own(t, body) /\ t.at = "open"
                  /\ t.sweep => owed # {}
             /\ UNCHANGED <<ring, files, owed, rotated, kicks, faults>>
  <2> DEFINE w == {<<e, x>>}
             t == [Idle EXCEPT !.at = "open", !.agent = a, !.pending = w]
  <2>0. w \in SUBSET (EscrowEpoch \X Archive) /\ w # {}
    OBVIOUS
  <2>1. session' = [session EXCEPT ![p] = t]
        /\ UNCHANGED <<ring, files, owed, rotated, kicks, faults>>
    BY <1>2 DEF StartEscrow, Continue
  <2> HIDE DEF w
  <2>2. /\ t \in Session /\ t.at = "open" /\ t.sweep = FALSE /\ t.generation = 0
        /\ t.pending # {}
    BY <2>0, IdleTyped DEF Session, Step
  <2> HIDE DEF t
  <2>3. Own(t, body)
    BY <2>2 DEF Own
  <2> QED
    BY <2>1, <2>2, <2>3 DEF Moves
<1> QED
  BY <1>1, <1>2

LEMMA OpenStep ==
  ASSUME TypeInv, NEW p \in Proc, OpenRing(p)
  PROVE  /\ \E t \in Session :
              /\ Moves(p, t) /\ Own(t, body)
              /\ t.sweep = session[p].sweep
              /\ \/ t.at = "create" /\ ring.seed = 0
                 \/ /\ t.at = IF t.sweep THEN "list" ELSE "header"
                    /\ ring.seed # 0
                    /\ t.seed = ring.seed /\ t.generation = ring.generation
         /\ At(p, "open")
         /\ UNCHANGED <<ring, files, owed, rotated, kicks, faults>>
<1> DEFINE s == session[p]
<1>1. s \in Session /\ s.at = "open" /\ Own(s, body)
      /\ s.generation = 0 /\ (s.sweep \/ s.pending # {}) /\ s.sweep \in BOOLEAN
      /\ ring.seed \in Nat /\ ring.generation \in Nat
  BY DEF TypeInv, EscrowTypeOK, OpenRing, At, Own, Session
<1>2. UNCHANGED <<ring, files, owed, rotated, kicks, faults>>
  BY DEF OpenRing
<1>3. CASE ring.seed = 0
  <2> DEFINE t == [s EXCEPT !.at = "create"]
  <2>1. session' = [session EXCEPT ![p] = t]
    BY <1>3 DEF OpenRing, Continue
  <2> HIDE DEF s
  <2>2. /\ t \in Session /\ t.at = "create" /\ t.sweep = s.sweep
        /\ t.generation = s.generation /\ t.pending = s.pending
    BY <1>1 DEF Session, Step
  <2> HIDE DEF t
  <2>3. Own(t, body)
    BY <1>1, <2>2 DEF Own
  <2> QED
    BY <1>1, <1>2, <1>3, <2>1, <2>2, <2>3 DEF Moves, At, s
<1>4. CASE ring.seed # 0
  <2> DEFINE t == [s EXCEPT !.at = IF s.sweep THEN "list" ELSE "header",
                            !.seed = ring.seed, !.generation = ring.generation,
                            !.from = ring.generation]
  <2>1. session' = [session EXCEPT ![p] = t]
    BY <1>4 DEF OpenRing, Continue
  <2> HIDE DEF s
  <2>2. /\ t \in Session /\ t.at = (IF s.sweep THEN "list" ELSE "header") /\ t.sweep = s.sweep
        /\ t.pending = s.pending /\ t.seed = ring.seed /\ t.generation = ring.generation
    BY <1>1 DEF Session, Step
  <2> HIDE DEF t
  <2>3. Own(t, body)
    BY <1>1, <2>2 DEF Own
  <2> QED
    BY <1>1, <1>2, <1>4, <2>1, <2>2, <2>3 DEF Moves, At, s
<1> QED
  BY <1>3, <1>4

LEMMA CreateStep ==
  ASSUME TypeInv, NEW p \in Proc, CreateRing(p)
  PROVE  /\ \E t \in Session :
              /\ Moves(p, t) /\ Own(t, body)
              /\ t.sweep = session[p].sweep
              /\ t.at = IF t.sweep THEN "list" ELSE "header"
              /\ t.seed = ring'.seed /\ t.generation = ring'.generation
         /\ ring' \in [seed : Nat, generation : Nat]
         /\ ring'.seed = ring.seed + 1 /\ ring'.generation = 0
         /\ At(p, "create")
         /\ UNCHANGED <<files, owed, rotated, kicks, faults>>
<1> DEFINE s == session[p]
<1>1. s \in Session /\ s.at = "create" /\ Own(s, body)
      /\ s.generation = 0 /\ (s.sweep \/ s.pending # {}) /\ s.sweep \in BOOLEAN
      /\ ring.seed \in Nat
  BY DEF TypeInv, EscrowTypeOK, CreateRing, At, Own, Session
<1>2. PICK n \in Nat : n = ring.seed + 1
  BY <1>1
<1>3. ring' = [seed |-> n, generation |-> 0] /\ UNCHANGED <<files, owed, rotated, kicks, faults>>
  BY <1>2 DEF CreateRing
<1> DEFINE t == [s EXCEPT !.at = IF s.sweep THEN "list" ELSE "header", !.seed = n]
<1>4. session' = [session EXCEPT ![p] = t]
  BY <1>2 DEF CreateRing, Continue
<1> HIDE DEF s
<1>5. /\ t \in Session /\ t.at = (IF s.sweep THEN "list" ELSE "header") /\ t.sweep = s.sweep
      /\ t.pending = s.pending /\ t.seed = n /\ t.generation = s.generation
  BY <1>1 DEF Session, Step
<1> HIDE DEF t
<1>6. Own(t, body)
  BY <1>1, <1>5 DEF Own
<1> QED
  BY <1>1, <1>2, <1>3, <1>4, <1>5, <1>6 DEF Moves, At, s

LEMMA ListStep ==
  ASSUME TypeInv, NEW p \in Proc, ListBodies(p)
  PROVE  /\ \E t \in Session :
              /\ Moves(p, t) /\ Own(t, body)
              /\ \/ /\ t.at = "read" /\ t.sweep = session[p].sweep
                    /\ t.seed = session[p].seed /\ t.generation = session[p].generation
                    /\ t.todo = {e \in EscrowEpoch : body[session[p].agent, e] # NoFile}
                    /\ owed' = owed
                 \/ /\ t.at = "idle" /\ ~t.sweep
                    /\ \A e \in EscrowEpoch : header[session[p].agent, e] = NoFile
                    /\ owed' = owed \ {session[p].agent}
         /\ At(p, "list")
         /\ UNCHANGED <<ring, files, rotated, kicks, faults>>
<1> DEFINE s == session[p]
<1>1. s \in Session /\ s.at = "list" /\ s.sweep
  BY DEF TypeInv, EscrowTypeOK, ListBodies, At, Own
<1>2. UNCHANGED <<ring, files, rotated, kicks, faults>>
  BY DEF ListBodies
<1>3. CASE HasDirectory(s.agent)
  <2> DEFINE l == {e \in EscrowEpoch : body[s.agent, e] # NoFile}
             t == [s EXCEPT !.at = "read", !.todo = l]
  <2>1. session' = [session EXCEPT ![p] = t] /\ owed' = owed
    BY <1>3 DEF ListBodies, Continue
  <2>2. l \in SUBSET EscrowEpoch /\ \A e \in l : body[s.agent, e] # NoFile
    OBVIOUS
  <2> HIDE DEF s, l
  <2>3. /\ t \in Session /\ t.at = "read" /\ t.sweep = s.sweep /\ t.todo = l /\ t.agent = s.agent
        /\ t.seed = s.seed /\ t.generation = s.generation
    BY <1>1, <2>2 DEF Session, Step
  <2> HIDE DEF t
  <2>4. Own(t, body)
    BY <1>1, <2>2, <2>3 DEF Own
  <2> QED
    BY <1>1, <1>2, <2>1, <2>3, <2>4 DEF Moves, At, s, l
<1>4. CASE ~HasDirectory(s.agent)
  <2>1. session' = [session EXCEPT ![p] = Idle] /\ owed' = owed \ {s.agent}
    BY <1>4 DEF ListBodies, Continue
  <2>2. \A e \in EscrowEpoch : header[s.agent, e] = NoFile
    BY <1>4 DEF HasDirectory
  <2> QED
    BY <1>1, <1>2, <2>1, <2>2, IdleTyped DEF Moves, At
<1> QED
  BY <1>3, <1>4

LEMMA HeaderReadStep ==
  ASSUME TypeInv, NEW p \in Proc, ReadHeader(p)
  PROVE  LET s == session[p]  h == header[s.agent, Min(s.todo)] IN
         /\ \E t \in Session :
              /\ Moves(p, t) /\ Own(t, body)
              /\ t.sweep = s.sweep /\ t.seed = s.seed /\ t.generation = s.generation
              /\ t.pending = s.pending
              /\ \/ t.at = "read" /\ h = NoFile /\ t.todo = s.todo \ {Min(s.todo)}
                 \/ t.at = "decrypt" /\ t.found = h /\ t.todo = s.todo
         /\ At(p, "read")
         /\ Min(s.todo) \in s.todo /\ Min(s.todo) \in EscrowEpoch
         /\ UNCHANGED <<ring, files, owed, rotated, kicks, faults>>
<1> DEFINE s == session[p]
<1>1. s \in Session /\ s.at = "read" /\ s.todo # {} /\ s.sweep
      /\ \A c \in s.todo : body[s.agent, c] # NoFile
  BY DEF TypeInv, EscrowTypeOK, ReadHeader, At, Own
<1>2. UNCHANGED <<ring, files, owed, rotated, kicks, faults>>
  BY DEF ReadHeader
<1>3. PICK e \in EscrowEpoch : e = Min(s.todo) /\ e \in s.todo
  BY <1>1, Leading DEF Session
<1>4. PICK h \in Header \cup {NoFile} : h = header[s.agent, e]
  <2>1. <<s.agent, e>> \in Escrow
    BY <1>1, <1>3 DEF Session, Escrow
  <2> QED
    BY <2>1 DEF TypeInv, EscrowTypeOK
<1>5. CASE h = NoFile
  <2> DEFINE t == [s EXCEPT !.todo = @ \ {e}]
  <2>1. session' = [session EXCEPT ![p] = t]
    BY <1>3, <1>4, <1>5 DEF ReadHeader, Continue, Lost, PassOver
  <2> HIDE DEF s
  <2>2. /\ t \in Session /\ t.at = "read" /\ t.sweep = s.sweep /\ t.agent = s.agent
        /\ t.seed = s.seed /\ t.generation = s.generation /\ t.pending = s.pending
        /\ t.todo = s.todo \ {e}
    BY <1>1 DEF Session
  <2> HIDE DEF t
  <2>3. Own(t, body)
    BY <1>1, <2>2 DEF Own
  <2> QED
    BY <1>1, <1>2, <1>3, <1>4, <1>5, <2>1, <2>2, <2>3 DEF Moves, At, s
<1>6. CASE h # NoFile
  <2> DEFINE t == [s EXCEPT !.at = "decrypt", !.found = h]
  <2>1. session' = [session EXCEPT ![p] = t]
    BY <1>3, <1>4, <1>6 DEF ReadHeader, Continue, Lost
  <2> HIDE DEF s
  <2>2. /\ t \in Session /\ t.at = "decrypt" /\ t.sweep = s.sweep /\ t.agent = s.agent
        /\ t.seed = s.seed /\ t.generation = s.generation /\ t.pending = s.pending
        /\ t.todo = s.todo /\ t.found = h
    BY <1>1 DEF Session, Step
  <2> HIDE DEF t
  <2>3. Own(t, body)
    BY <1>1, <1>6, <2>2 DEF Own
  <2> QED
    BY <1>1, <1>2, <1>3, <1>4, <1>6, <2>1, <2>2, <2>3 DEF Moves, At, s
<1> QED
  BY <1>5, <1>6

LEMMA BodyReadStep ==
  ASSUME TypeInv, NEW p \in Proc, ReadBody(p)
  PROVE  LET s == session[p]  e == Min(s.todo)  b == body[s.agent, e] IN
         /\ \E t \in Session :
              /\ Moves(p, t) /\ Own(t, body)
              /\ t.at = "read" /\ t.sweep = s.sweep
              /\ t.seed = s.seed /\ t.generation = s.generation
              /\ t.todo = s.todo \ {e}
              /\ Carried(s) \subseteq Carried(t)
              /\ Opens(b, s.seed, s.found.generation) => e \in Carried(t)
         /\ At(p, "decrypt")
         /\ e \in s.todo /\ e \in EscrowEpoch
         /\ UNCHANGED <<ring, files, owed, rotated, kicks, faults>>
<1> DEFINE s == session[p]
<1>1. s \in Session /\ s.at = "decrypt" /\ s.todo # {} /\ s.sweep
      /\ \A c \in s.todo : body[s.agent, c] # NoFile
  BY DEF TypeInv, EscrowTypeOK, ReadBody, At, Own
<1>2. UNCHANGED <<ring, files, owed, rotated, kicks, faults>>
  BY DEF ReadBody
<1>3. PICK e \in EscrowEpoch : e = Min(s.todo) /\ e \in s.todo
  BY <1>1, Leading DEF Session
<1>4. PICK b \in Body : b = body[s.agent, e]
  <2>1. <<s.agent, e>> \in Escrow
    BY <1>1, <1>3 DEF Session, Escrow
  <2> QED
    BY <1>1, <1>3, <2>1 DEF TypeInv, EscrowTypeOK
<1> DEFINE pend == IF Opens(b, s.seed, s.found.generation)
                   THEN s.pending \cup {<<e, b.payload>>} ELSE s.pending
           t == [s EXCEPT !.at = "read", !.found = NoFile, !.todo = @ \ {e}, !.pending = pend]
<1>5. session' = [session EXCEPT ![p] = t]
  BY <1>3, <1>4 DEF ReadBody, Continue, CarryGeneration
<1>6. pend \in SUBSET (EscrowEpoch \X Archive)
  <2>1. s.pending \in SUBSET (EscrowEpoch \X Archive)
    BY <1>1 DEF Session
  <2>2. b.payload \in Archive
    BY DEF Body
  <2>3. {<<e, b.payload>>} \in SUBSET (EscrowEpoch \X Archive)
    BY <2>2
  <2> HIDE DEF s
  <2> QED
    BY <2>1, <2>3
<1>7. /\ s.pending \subseteq pend
      /\ Opens(b, s.seed, s.found.generation) => <<e, b.payload>> \in pend
  OBVIOUS
<1> HIDE DEF s, pend
<1>8. /\ t \in Session /\ t.at = "read" /\ t.sweep = s.sweep /\ t.agent = s.agent
      /\ t.seed = s.seed /\ t.generation = s.generation
      /\ t.todo = s.todo \ {e} /\ t.pending = pend
  BY <1>1, <1>6 DEF Session, Step
<1> HIDE DEF t
<1>9. Own(t, body)
  BY <1>1, <1>8 DEF Own
<1>10. /\ Carried(s) \subseteq Carried(t)
       /\ Opens(b, s.seed, s.found.generation) => e \in Carried(t)
  BY <1>7, <1>8 DEF Carried
<1> QED
  BY <1>1, <1>2, <1>3, <1>4, <1>5, <1>8, <1>9, <1>10 DEF Moves, At, s

LEMMA RotateStep ==
  ASSUME TypeInv, NEW p \in Proc, Rotate(p)
  PROVE  LET s == session[p] IN
         /\ \E t \in Session :
              /\ Moves(p, t) /\ Own(t, body)
              /\ \/ /\ t.at = "idle" /\ ~t.sweep /\ s.pending = {}
                    /\ owed' = owed \ {s.agent}
                 \/ /\ t.at = "header" /\ t.sweep = s.sweep
                    /\ t.seed = s.seed /\ t.generation = s.generation + 1
                    /\ t.pending = s.pending
                    /\ owed' = owed
         /\ At(p, "read") /\ s.todo = {} /\ s.generation \in Nat
         /\ ring' \in [seed : Nat, generation : Nat]
         /\ ring'.seed = ring.seed /\ ring'.generation = s.generation + 1
         /\ rotated' = rotated + 1
         /\ UNCHANGED <<files, kicks, faults>>
<1> DEFINE s == session[p]
<1>1. s \in Session /\ s.at = "read" /\ s.todo = {} /\ s.sweep /\ s.generation \in Nat
      /\ ring \in [seed : Nat, generation : Nat]
  BY DEF TypeInv, EscrowTypeOK, Rotate, At, Own, Session
<1>2. PICK n \in Nat : n = s.generation + 1
  BY <1>1
<1>3. /\ ring' = [ring EXCEPT !.generation = n] /\ rotated' = rotated + 1
      /\ UNCHANGED <<files, kicks, faults>>
  BY <1>2 DEF Rotate, NewGeneration
<1>4. ring' \in [seed : Nat, generation : Nat] /\ ring'.seed = ring.seed /\ ring'.generation = n
  BY <1>1, <1>3
<1>5. CASE s.pending = {}
  <2>1. session' = [session EXCEPT ![p] = Idle] /\ owed' = owed \ {s.agent}
    BY <1>1, <1>5 DEF Rotate, Finish, Continue
  <2> QED
    BY <1>1, <1>2, <1>3, <1>4, <1>5, <2>1, IdleTyped DEF Moves, At
<1>6. CASE s.pending # {}
  <2> DEFINE t == [s EXCEPT !.at = "header", !.generation = n]
  <2>1. session' = [session EXCEPT ![p] = t] /\ owed' = owed
    BY <1>2, <1>6 DEF Rotate, Continue
  <2> HIDE DEF s
  <2>2. /\ t \in Session /\ t.at = "header" /\ t.sweep = s.sweep /\ t.agent = s.agent
        /\ t.seed = s.seed /\ t.generation = n /\ t.pending = s.pending
    BY <1>1 DEF Session, Step
  <2> HIDE DEF t
  <2>3. Own(t, body)
    BY <1>6, <2>2 DEF Own
  <2> QED
    BY <1>1, <1>2, <1>3, <1>4, <1>6, <2>1, <2>2, <2>3 DEF Moves, At, s
<1> QED
  BY <1>5, <1>6

(* Where the next file goes, and what goes there.                          *)
LEMMA PlaceTyped ==
  ASSUME NEW s \in Session, s.pending # {}
  PROVE  /\ Place(s) \in Escrow /\ Place(s) = <<s.agent, NextPending(s)[1]>>
         /\ s.agent \in Agent /\ s.generation \in Nat /\ s.seed \in Nat
         /\ NextPending(s) \in s.pending /\ NextPending(s)[2] \in Archive
         /\ NextPending(s)[1] \in EscrowEpoch /\ NextPending(s)[1] \in Carried(s)
BY Leading DEF Session, Escrow, Place, Carried

LEMMA HeaderStep ==
  ASSUME TypeInv, NEW p \in Proc, WriteHeader(p)
  PROVE  LET s == session[p] IN
         /\ \E t \in Session :
              /\ Moves(p, t) /\ Own(t, body)
              /\ t.at = "body" /\ t.sweep = s.sweep /\ t.agent = s.agent
              /\ t.seed = s.seed /\ t.generation = s.generation /\ t.pending = s.pending
         /\ At(p, "header") /\ s \in Session /\ s.pending # {}
         /\ \E h \in Header : /\ header' = [header EXCEPT ![Place(s)] = h]
                              /\ h = [generation |-> s.generation, payload |-> NextPending(s)[2]]
         /\ torn' = torn \cup {Place(s)}
         /\ UNCHANGED <<ring, body, owed, rotated, kicks, faults>>
<1> DEFINE s == session[p]
<1>1. s \in Session /\ s.at = "header" /\ s.pending # {}
  BY DEF TypeInv, EscrowTypeOK, WriteHeader, At, Own
<1> DEFINE h == [generation |-> s.generation, payload |-> NextPending(s)[2]]
<1>2. h \in Header
  BY <1>1, PlaceTyped DEF Header
<1>3. header' = [header EXCEPT ![Place(s)] = h] /\ torn' = torn \cup {Place(s)}
  BY DEF WriteHeader, Place, SealGeneration
<1> DEFINE t == [s EXCEPT !.at = "body"]
<1>4. session' = [session EXCEPT ![p] = t] /\ UNCHANGED <<ring, body, owed, rotated, kicks, faults>>
  BY DEF WriteHeader, Continue
<1> HIDE DEF s
<1>5. /\ t \in Session /\ t.at = "body" /\ t.sweep = s.sweep /\ t.agent = s.agent
      /\ t.seed = s.seed /\ t.generation = s.generation /\ t.pending = s.pending
  BY <1>1 DEF Session, Step
<1> HIDE DEF t
<1>6. Own(t, body)
  BY <1>1, <1>5 DEF Own
<1> QED
  BY <1>1, <1>2, <1>3, <1>4, <1>5, <1>6 DEF Moves, At, s

LEMMA BodyStep ==
  ASSUME TypeInv, NEW p \in Proc, WriteBody(p)
  PROVE  LET s == session[p]  w == NextPending(s) IN
         /\ \E t \in Session :
              /\ Moves(p, t) /\ Own(t, body)
              /\ \/ /\ t.at = "idle" /\ ~t.sweep /\ s.pending = {w}
                    /\ owed' = IF s.sweep THEN owed \ {s.agent} ELSE owed
                 \/ /\ t.at = "header" /\ t.sweep = s.sweep
                    /\ t.seed = s.seed /\ t.generation = s.generation
                    /\ t.pending = s.pending \ {w}
                    /\ owed' = owed
         /\ At(p, "body") /\ s \in Session /\ s.pending # {}
         /\ \E b \in Body : /\ body' = [body EXCEPT ![Place(s)] = b]
                            /\ b.seed = s.seed /\ b.generation = s.generation
                            /\ b.payload = w[2] /\ b.stamp = rotated
         /\ torn' = torn \ {Place(s)}
         /\ UNCHANGED <<ring, header, rotated, kicks, faults>>
<1> DEFINE s == session[p]
           w == NextPending(s)
<1>1. s \in Session /\ s.at = "body" /\ s.pending # {} /\ rotated \in Nat
  BY DEF TypeInv, EscrowTypeOK, WriteBody, At, Own
<1> DEFINE b == [seed |-> s.seed, generation |-> s.generation, payload |-> w[2], stamp |-> rotated]
<1>2. b \in Body
  BY <1>1, PlaceTyped DEF Body
<1>3. /\ body' = [body EXCEPT ![Place(s)] = b] /\ torn' = torn \ {Place(s)}
      /\ UNCHANGED <<ring, header, rotated, kicks, faults>>
  BY DEF WriteBody, Place
<1>4. b.seed = s.seed /\ b.generation = s.generation /\ b.payload = w[2] /\ b.stamp = rotated
  OBVIOUS
<1>5. CASE s.pending = {w}
  <2>1. /\ session' = [session EXCEPT ![p] = Idle]
        /\ owed' = IF s.sweep THEN owed \ {s.agent} ELSE owed
    BY <1>5 DEF WriteBody, Finish, Continue
  <2> HIDE DEF b, w, s
  <2> QED
    BY <1>1, <1>2, <1>3, <1>4, <1>5, <2>1, IdleTyped DEF Moves, At, s, w
<1>6. CASE s.pending # {w}
  <2> DEFINE rest == s.pending \ {w}
             t == [s EXCEPT !.at = "header", !.pending = rest]
  <2>1. session' = [session EXCEPT ![p] = t] /\ owed' = owed
    BY <1>6 DEF WriteBody, Continue
  <2>2. rest \in SUBSET (EscrowEpoch \X Archive) /\ rest # {}
    BY <1>1, <1>6 DEF Session
  <2> HIDE DEF s, b, rest
  <2>3. /\ t \in Session /\ t.at = "header" /\ t.sweep = s.sweep /\ t.agent = s.agent
        /\ t.seed = s.seed /\ t.generation = s.generation /\ t.pending = rest
    BY <1>1, <2>2 DEF Session, Step
  <2> HIDE DEF t
  <2>4. Own(t, body)
    BY <2>2, <2>3 DEF Own
  <2> QED
    BY <1>1, <1>2, <1>3, <1>4, <1>6, <2>1, <2>3, <2>4 DEF Moves, At, s, rest
<1> QED
  BY <1>5, <1>6

-----------------------------------------------------------------------------
(* Types.                                                                  *)

LEMMA OwnGrows ==
  ASSUME NEW s \in Session, NEW v, NEW w, Own(s, v),
         \A x \in Escrow : v[x] # NoFile => w[x] # NoFile
  PROVE  Own(s, w)
<1>1. \A e \in s.todo : <<s.agent, e>> \in Escrow
  BY DEF Session, Escrow
<1> QED
  BY <1>1 DEF Own

LEMMA TypeStep ==
  ASSUME TypeInv, NEW p \in Proc, NEW t \in Session, Moves(p, t), Own(t, body),
         ring' \in [seed : Nat, generation : Nat],
         header' \in [Escrow -> Header \cup {NoFile}],
         body' \in [Escrow -> Body \cup {NoFile}],
         \A x \in Escrow : body[x] # NoFile => body'[x] # NoFile,
         owed' \subseteq Agent, torn' \subseteq Escrow, rotated' \in Nat,
         kicks' \in 0..MaxKick, faults' \in 0..MaxFault
  PROVE  TypeInv'
<1>1. /\ session' \in [Proc -> Session] /\ session'[p] = t
      /\ \A q \in Proc : q # p => session'[q] = session[q]
  BY DEF TypeInv, EscrowTypeOK, Moves
<1>2. ASSUME NEW q \in Proc PROVE session'[q] \in Session /\ Own(session'[q], body')
  <2>1. CASE q = p
    BY <1>1, <2>1, OwnGrows
  <2>2. CASE q # p
    <3>1. session[q] \in Session /\ Own(session[q], body)
      BY DEF TypeInv, EscrowTypeOK
    <3> QED
      BY <1>1, <2>2, <3>1, OwnGrows
  <2> QED
    BY <2>1, <2>2
<1>3. \A q \in Proc : At(q, "decrypt")' =>
        /\ session'[q].found \in Header
        /\ \A e \in session'[q].todo : body'[session'[q].agent, e] # NoFile
  BY <1>2 DEF Own, At
<1>4. EscrowTypeOK'
  BY <1>1, <1>3 DEF EscrowTypeOK
<1> QED
  BY <1>2, <1>4 DEF TypeInv

LEMMA EscrowTypeInit == EscrowInit => TypeInv
<1> SUFFICES ASSUME EscrowInit PROVE TypeInv
  OBVIOUS
<1>1. \A q \in Proc : session[q] = Idle
  BY DEF EscrowInit
<1>2. session \in [Proc -> Session]
  BY IdleTyped DEF EscrowInit
<1>3. \A q \in Proc : Own(session[q], body) /\ ~At(q, "decrypt")
  BY <1>1, IdleTyped DEF At, Own
<1>4. EscrowTypeOK
  <2>1. kicks \in 0..MaxKick /\ faults \in 0..MaxFault
    BY EscrowAssumption DEF EscrowInit
  <2>2. /\ header \in [Escrow -> Header \cup {NoFile}]
        /\ body \in [Escrow -> Body \cup {NoFile}]
    BY DEF EscrowInit
  <2>3. ring \in [seed : Nat, generation : Nat] /\ rotated \in Nat
    BY DEF EscrowInit
  <2>4. owed \subseteq Agent /\ torn \subseteq Escrow
    BY DEF EscrowInit
  <2> QED
    BY <1>2, <1>3, <2>1, <2>2, <2>3, <2>4 DEF EscrowTypeOK
<1> QED
  BY <1>3, <1>4 DEF TypeInv

LEMMA EscrowTypeNext == TypeInv /\ [EscrowNext]_escrowVars => TypeInv'
<1> SUFFICES ASSUME TypeInv, [EscrowNext]_escrowVars PROVE TypeInv'
  OBVIOUS
<1> USE DEF files
<1>1. /\ ring \in [seed : Nat, generation : Nat]
      /\ header \in [Escrow -> Header \cup {NoFile}] /\ body \in [Escrow -> Body \cup {NoFile}]
      /\ session \in [Proc -> Session]
      /\ owed \subseteq Agent /\ torn \subseteq Escrow /\ rotated \in Nat
      /\ kicks \in 0..MaxKick /\ faults \in 0..MaxFault
      /\ \A x \in Escrow : body[x] # NoFile => body[x] # NoFile
  BY DEF TypeInv, EscrowTypeOK
<1>2. ASSUME NEW p \in Proc, NEW a \in Agent,
             StartSweep(p, a) \/ \E e \in EscrowEpoch, x \in Archive : StartEscrow(p, a, e, x)
      PROVE  TypeInv'
  BY <1>1, <1>2, StartStep, TypeStep
<1>3. ASSUME NEW p \in Proc, OpenRing(p) PROVE TypeInv'
  BY <1>1, <1>3, OpenStep, TypeStep
<1>4. ASSUME NEW p \in Proc, CreateRing(p) PROVE TypeInv'
  BY <1>1, <1>4, CreateStep, TypeStep
<1>5. ASSUME NEW p \in Proc, ListBodies(p) PROVE TypeInv'
  <2>1. PICK t \in Session : Moves(p, t) /\ Own(t, body) /\ owed' \subseteq Agent
    BY <1>1, <1>5, ListStep
  <2>2. UNCHANGED <<ring, files, rotated, kicks, faults>>
    BY <1>5, ListStep
  <2> QED
    BY <1>1, <2>1, <2>2, TypeStep
<1>6. ASSUME NEW p \in Proc, ReadHeader(p) PROVE TypeInv'
  BY <1>1, <1>6, HeaderReadStep, TypeStep
<1>7. ASSUME NEW p \in Proc, ReadBody(p) PROVE TypeInv'
  BY <1>1, <1>7, BodyReadStep, TypeStep
<1>8. ASSUME NEW p \in Proc, Rotate(p) PROVE TypeInv'
  <2>1. PICK t \in Session : Moves(p, t) /\ Own(t, body) /\ owed' \subseteq Agent
    BY <1>1, <1>8, RotateStep
  <2>2. /\ ring' \in [seed : Nat, generation : Nat] /\ rotated' \in Nat
        /\ UNCHANGED <<files, kicks, faults>>
    BY <1>1, <1>8, RotateStep
  <2> QED
    BY <1>1, <2>1, <2>2, TypeStep
<1>9. ASSUME NEW p \in Proc, WriteHeader(p) PROVE TypeInv'
  <2>1. PICK t \in Session : Moves(p, t) /\ Own(t, body)
    BY <1>9, HeaderStep
  <2>2. Place(session[p]) \in Escrow
    BY <1>9, HeaderStep, PlaceTyped
  <2>3. header' \in [Escrow -> Header \cup {NoFile}] /\ torn' \subseteq Escrow
    BY <1>1, <1>9, <2>2, HeaderStep
  <2>4. UNCHANGED <<ring, body, owed, rotated, kicks, faults>>
    BY <1>9, HeaderStep
  <2> QED
    BY <1>1, <2>1, <2>3, <2>4, TypeStep
<1>10. ASSUME NEW p \in Proc, WriteBody(p) PROVE TypeInv'
  <2>1. PICK t \in Session : Moves(p, t) /\ Own(t, body) /\ owed' \subseteq Agent
    BY <1>1, <1>10, BodyStep
  <2>2. PICK x \in Escrow, b \in Body : body' = [body EXCEPT ![x] = b] /\ torn' = torn \ {x}
    BY <1>10, BodyStep, PlaceTyped
  <2>3. /\ body' \in [Escrow -> Body \cup {NoFile}] /\ torn' \subseteq Escrow
        /\ \A y \in Escrow : body[y] # NoFile => body'[y] # NoFile
    BY <1>1, <2>2, EscrowAssumption
  <2>4. UNCHANGED <<ring, header, rotated, kicks, faults>>
    BY <1>10, BodyStep
  <2> QED
    BY <1>1, <2>1, <2>3, <2>4, TypeStep
<1>11. ASSUME NEW p \in Proc, Crash(p) PROVE TypeInv'
  <2>1. Moves(p, Idle) /\ UNCHANGED <<ring, files, owed, rotated, kicks>>
    BY <1>11, IdleTyped DEF Crash, Continue, Moves
  <2>2. faults' \in 0..MaxFault
    BY <1>1, <1>11, EscrowAssumption DEF Crash
  <2> QED
    BY <1>1, <2>1, <2>2, IdleTyped, TypeStep
<1>12. ASSUME Kick PROVE TypeInv'
  <2>1. kicks' \in 0..MaxKick
    BY <1>1, <1>12, EscrowAssumption DEF Kick
  <2>2. owed' = Agent /\ UNCHANGED <<ring, files, session, rotated, faults>>
    BY <1>12 DEF Kick
  <2> QED
    BY <2>1, <2>2 DEF TypeInv, EscrowTypeOK, At, Own
<1>13. ASSUME NEW x \in Escrow, LoseHeader(x) PROVE TypeInv'
  <2>1. faults' \in 0..MaxFault
    BY <1>1, <1>13, EscrowAssumption DEF LoseHeader
  <2>2. /\ header' \in [Escrow -> Header \cup {NoFile}]
        /\ UNCHANGED <<ring, body, torn, session, owed, rotated, kicks>>
    BY <1>1, <1>13 DEF LoseHeader
  <2> QED
    BY <2>1, <2>2 DEF TypeInv, EscrowTypeOK, At, Own
<1>14. CASE UNCHANGED escrowVars
  BY <1>14 DEF escrowVars, TypeInv, EscrowTypeOK, At, Own
<1> QED
  BY <1>2, <1>3, <1>4, <1>5, <1>6, <1>7, <1>8, <1>9, <1>10, <1>11, <1>12, <1>13, <1>14
  DEF EscrowNext, Working

(* The files, the ring and the memory of the commands stay of their types, *)
(* and no command opens a body that is not there, with any number of       *)
(* commands at work at once.                                               *)
THEOREM EscrowTypeCorrect == EscrowSpec => []EscrowTypeOK
<1>1. TypeInv => EscrowTypeOK
  BY DEF TypeInv
<1> QED
  BY <1>1, EscrowTypeInit, EscrowTypeNext, PTL DEF EscrowSpec

-----------------------------------------------------------------------------
(* One command at a time.                                                  *)

AloneInv(p) == RingInv(p) /\ SealedInv /\ PairInv(p)

LEMMA MovesTo ==
  ASSUME TypeInv, NEW p \in Proc, NEW t, Moves(p, t)
  PROVE  session'[p] = t
BY DEF TypeInv, EscrowTypeOK, Moves

(* A step that touches no file.                                            *)
LEMMA QuietStep ==
  ASSUME NEW p, AloneInv(p), NEW t, session'[p] = t,
         UNCHANGED <<ring, files, rotated>>,
         t.at # "body",
         t.at = "create" => ring.seed = 0,
         t.at \in {"list", "read", "decrypt", "header"} =>
           ring.seed # 0 /\ t.seed = ring.seed /\ t.generation = ring.generation
  PROVE  AloneInv(p)'
<1>1. RingInv(p)'
  BY DEF AloneInv, RingInv
<1>2. SealedInv'
  BY DEF AloneInv, SealedInv, files
<1>3. PairInv(p)'
  BY DEF AloneInv, PairInv, Standing, At, files
<1> QED
  BY <1>1, <1>2, <1>3 DEF AloneInv

LEMMA AloneInit ==
  ASSUME NEW p \in Proc, EscrowInit
  PROVE  AloneInv(p)
<1>1. session[p].at = "idle"
  BY IdleTyped DEF EscrowInit
<1>2. RingInv(p) /\ SealedInv /\ PairInv(p)
  BY <1>1 DEF EscrowInit, RingInv, SealedInv, PairInv, Standing, At
<1> QED
  BY <1>2 DEF AloneInv

LEMMA CreateAlone ==
  ASSUME TypeInv, NEW p \in Proc, AloneInv(p), CreateRing(p)
  PROVE  AloneInv(p)'
<1>1. PICK t \in Session : /\ Moves(p, t)
                           /\ t.at = IF t.sweep THEN "list" ELSE "header"
                           /\ t.seed = ring'.seed /\ t.generation = ring'.generation
  BY CreateStep
<1>2. /\ session'[p] = t /\ At(p, "create") /\ t.at \in {"list", "header"}
      /\ ring'.seed = ring.seed + 1 /\ ring'.generation = 0 /\ UNCHANGED <<files, rotated>>
  BY <1>1, CreateStep, MovesTo
<1>3. ring.seed = 0 /\ rotated = 0 /\ ring'.seed # 0
  BY <1>2 DEF AloneInv, RingInv, At
<1>4. \A x \in Escrow : body[x] = NoFile
  BY <1>3 DEF AloneInv, SealedInv
<1>5. RingInv(p)'
  BY <1>1, <1>2, <1>3 DEF RingInv
<1>6. SealedInv'
  BY <1>2, <1>4 DEF SealedInv, files
<1>7. PairInv(p)'
  BY <1>2 DEF AloneInv, PairInv, Standing, At, files
<1> QED
  BY <1>5, <1>6, <1>7 DEF AloneInv

LEMMA RotateAlone ==
  ASSUME TypeInv, NEW p \in Proc, AloneInv(p), Rotate(p)
  PROVE  AloneInv(p)'
<1> DEFINE s == session[p]
<1>1. PICK t \in Session :
        /\ Moves(p, t)
        /\ \/ t.at = "idle"
           \/ t.at = "header" /\ t.seed = s.seed /\ t.generation = s.generation + 1
  BY RotateStep
<1>2. /\ session'[p] = t /\ At(p, "read") /\ ring'.seed = ring.seed
      /\ ring'.generation = s.generation + 1 /\ rotated' = rotated + 1 /\ UNCHANGED files
  BY <1>1, RotateStep, MovesTo
<1>3. /\ ring.generation = rotated /\ rotated \in Nat
      /\ ring.seed # 0 /\ s.seed = ring.seed /\ s.generation = rotated
  BY <1>2 DEF AloneInv, RingInv, At, TypeInv, EscrowTypeOK
<1>4. RingInv(p)'
  BY <1>1, <1>2, <1>3 DEF RingInv
<1>5. SealedInv'
  <2> SUFFICES ASSUME NEW x \in Escrow, body[x] # NoFile
               PROVE  /\ ring'.seed # 0 /\ body[x].seed = ring'.seed
                      /\ body[x].stamp = body[x].generation /\ body[x].generation <= rotated'
    BY <1>2 DEF SealedInv, files
  <2>1. body[x] \in Body
    BY DEF TypeInv, EscrowTypeOK
  <2>2. /\ body[x].seed = ring.seed /\ body[x].stamp = body[x].generation
        /\ body[x].generation <= rotated
    BY DEF AloneInv, SealedInv
  <2>3. PICK g \in Nat : g = body[x].generation
    BY <2>1 DEF Body
  <2>4. body[x].generation <= rotated'
    BY <1>2, <1>3, <2>2, <2>3
  <2> QED
    BY <1>2, <1>3, <2>2, <2>4
<1>6. PairInv(p)'
  BY <1>1, <1>2 DEF AloneInv, PairInv, Standing, At, files
<1> QED
  BY <1>4, <1>5, <1>6 DEF AloneInv

LEMMA HeaderAlone ==
  ASSUME TypeInv, NEW p \in Proc, AloneInv(p), WriteHeader(p)
  PROVE  AloneInv(p)'
<1> DEFINE s == session[p]
<1>1. PICK t \in Session :
        /\ Moves(p, t) /\ t.at = "body" /\ t.agent = s.agent
        /\ t.seed = s.seed /\ t.generation = s.generation /\ t.pending = s.pending
  BY HeaderStep
<1>2. PICK x \in Escrow, h \in Header :
        /\ x = Place(s) /\ header' = [header EXCEPT ![x] = h] /\ torn' = torn \cup {x}
        /\ h = [generation |-> s.generation, payload |-> NextPending(s)[2]]
  BY HeaderStep, PlaceTyped
<1>3. session'[p] = t /\ At(p, "header") /\ UNCHANGED <<ring, body, rotated>>
  BY <1>1, HeaderStep, MovesTo
<1>4. Place(t) = x /\ NextPending(t) = NextPending(s)
  BY <1>1, <1>2 DEF Place, NextPending
<1>5. header'[x] = h /\ \A y \in Escrow : y # x => header'[y] = header[y]
  BY <1>2 DEF TypeInv, EscrowTypeOK
<1>6. RingInv(p)'
  BY <1>1, <1>3 DEF AloneInv, RingInv, At
<1>7. SealedInv'
  BY <1>3 DEF AloneInv, SealedInv
<1>8. PairInv(p)'
  <2>1. \A y \in Escrow : Standing(y)' => Standing(y) /\ header'[y] = header[y]
    BY <1>2, <1>5 DEF Standing
  <2>2. Place(t) \in torn' /\ header'[Place(t)] = [generation |-> t.generation, payload |-> NextPending(t)[2]]
    BY <1>1, <1>2, <1>4, <1>5
  <2>3. \A y \in Escrow : Standing(y)' =>
          /\ body'[y] # NoFile
          /\ body'[y].generation = header'[y].generation
          /\ body'[y].payload = header'[y].payload
    BY <1>3, <2>1 DEF AloneInv, PairInv
  <2>4. (LET u == session[p] IN
          /\ Place(u) \in torn
          /\ header[Place(u)] = [generation |-> u.generation, payload |-> NextPending(u)[2]])'
    BY <1>3, <2>2 DEF Place, NextPending
  <2> QED
    BY <2>3, <2>4 DEF PairInv
<1> QED
  BY <1>6, <1>7, <1>8 DEF AloneInv

LEMMA BodyAlone ==
  ASSUME TypeInv, NEW p \in Proc, AloneInv(p), WriteBody(p)
  PROVE  AloneInv(p)'
<1> DEFINE s == session[p]
<1>1. PICK t \in Session :
        /\ Moves(p, t)
        /\ \/ t.at = "idle"
           \/ t.at = "header" /\ t.seed = s.seed /\ t.generation = s.generation
  BY BodyStep
<1>2. PICK x \in Escrow, b \in Body :
        /\ x = Place(s) /\ body' = [body EXCEPT ![x] = b] /\ torn' = torn \ {x}
        /\ b.seed = s.seed /\ b.generation = s.generation
        /\ b.payload = NextPending(s)[2] /\ b.stamp = rotated
  BY BodyStep, PlaceTyped
<1>3. session'[p] = t /\ At(p, "body") /\ UNCHANGED <<ring, header, rotated>>
  BY <1>1, BodyStep, MovesTo
<1>4. body'[x] = b /\ \A y \in Escrow : y # x => body'[y] = body[y]
  BY <1>2 DEF TypeInv, EscrowTypeOK
<1>5. /\ ring.generation = rotated /\ rotated \in Nat
      /\ ring.seed # 0 /\ s.seed = ring.seed /\ s.generation = ring.generation
  BY <1>3 DEF AloneInv, RingInv, At, TypeInv, EscrowTypeOK
<1>6. header[x] = [generation |-> s.generation, payload |-> NextPending(s)[2]]
  BY <1>2, <1>3 DEF AloneInv, PairInv
<1>7. b # NoFile
  BY EscrowAssumption
<1> HIDE DEF s
<1>8. RingInv(p)'
  BY <1>1, <1>3, <1>5 DEF AloneInv, RingInv
<1>9. SealedInv'
  <2>1. \A y \in Escrow : y # x /\ body'[y] # NoFile =>
          /\ ring'.seed # 0 /\ body'[y].seed = ring'.seed
          /\ body'[y].stamp = body'[y].generation /\ body'[y].generation <= rotated'
    BY <1>3, <1>4 DEF AloneInv, SealedInv
  <2>2. b.seed = ring'.seed /\ ring'.seed # 0 /\ b.stamp = b.generation /\ b.generation <= rotated'
    BY <1>2, <1>3, <1>5
  <2> QED
    BY <1>4, <2>1, <2>2 DEF SealedInv
<1>10. PairInv(p)'
  <2>1. \A y \in Escrow : y # x /\ Standing(y)' => Standing(y)
    BY <1>2, <1>3 DEF Standing
  <2>2. header[x].generation = s.generation /\ header[x].payload = NextPending(s)[2]
    BY <1>6
  <2>3. \A y \in Escrow : Standing(y)' =>
          /\ body'[y] # NoFile
          /\ body'[y].generation = header'[y].generation
          /\ body'[y].payload = header'[y].payload
    BY <1>2, <1>3, <1>4, <1>7, <2>1, <2>2 DEF AloneInv, PairInv
  <2>4. ~At(p, "body")'
    BY <1>1, <1>3 DEF At
  <2> QED
    BY <2>3, <2>4 DEF PairInv
<1> QED
  BY <1>8, <1>9, <1>10 DEF AloneInv

LEMMA AloneNext ==
  ASSUME NEW op, Proc = {op}, TypeInv, AloneInv(op), [EscrowNext]_escrowVars
  PROVE  AloneInv(op)'
<1> DEFINE s == session[op]
<1>0. op \in Proc
  OBVIOUS
<1>1. ASSUME NEW a \in Agent,
             StartSweep(op, a) \/ \E e \in EscrowEpoch, x \in Archive : StartEscrow(op, a, e, x)
      PROVE  AloneInv(op)'
  BY <1>0, <1>1, StartStep, MovesTo, QuietStep
<1>2. ASSUME OpenRing(op) PROVE AloneInv(op)'
  <2>1. PICK t \in Session :
          /\ Moves(op, t)
          /\ \/ t.at = "create" /\ ring.seed = 0
             \/ /\ t.at = IF t.sweep THEN "list" ELSE "header"
                /\ ring.seed # 0
                /\ t.seed = ring.seed /\ t.generation = ring.generation
    BY <1>0, <1>2, OpenStep
  <2>2. UNCHANGED <<ring, files, rotated>> /\ session'[op] = t
    BY <1>0, <1>2, <2>1, OpenStep, MovesTo
  <2>3. t.at \in {"create", "list", "header"}
    BY <2>1
  <2> QED
    BY <2>1, <2>2, <2>3, QuietStep
<1>3. ASSUME ListBodies(op) PROVE AloneInv(op)'
  <2>1. PICK t \in Session :
          /\ Moves(op, t)
          /\ \/ t.at = "read" /\ t.seed = s.seed /\ t.generation = s.generation
             \/ t.at = "idle"
    BY <1>0, <1>3, ListStep
  <2>2. UNCHANGED <<ring, files, rotated>> /\ session'[op] = t /\ At(op, "list")
    BY <1>0, <1>3, <2>1, ListStep, MovesTo
  <2>3. ring.seed # 0 /\ s.seed = ring.seed /\ s.generation = ring.generation
    BY <2>2 DEF AloneInv, RingInv, At
  <2> QED
    BY <2>1, <2>2, <2>3, QuietStep
<1>4. ASSUME ReadHeader(op) PROVE AloneInv(op)'
  <2>1. PICK t \in Session :
          /\ Moves(op, t) /\ t.at \in {"read", "decrypt"}
          /\ t.seed = s.seed /\ t.generation = s.generation
    BY <1>0, <1>4, HeaderReadStep
  <2>2. UNCHANGED <<ring, files, rotated>> /\ session'[op] = t /\ At(op, "read")
    BY <1>0, <1>4, <2>1, HeaderReadStep, MovesTo
  <2>3. ring.seed # 0 /\ s.seed = ring.seed /\ s.generation = ring.generation
    BY <2>2 DEF AloneInv, RingInv, At
  <2> QED
    BY <2>1, <2>2, <2>3, QuietStep
<1>5. ASSUME ReadBody(op) PROVE AloneInv(op)'
  <2>1. PICK t \in Session :
          /\ Moves(op, t) /\ t.at = "read" /\ t.seed = s.seed /\ t.generation = s.generation
    BY <1>0, <1>5, BodyReadStep
  <2>2. UNCHANGED <<ring, files, rotated>> /\ session'[op] = t /\ At(op, "decrypt")
    BY <1>0, <1>5, <2>1, BodyReadStep, MovesTo
  <2>3. ring.seed # 0 /\ s.seed = ring.seed /\ s.generation = ring.generation
    BY <2>2 DEF AloneInv, RingInv, At
  <2> QED
    BY <2>1, <2>2, <2>3, QuietStep
<1>6. ASSUME Crash(op) PROVE AloneInv(op)'
  <2>1. session'[op] = Idle /\ UNCHANGED <<ring, files, rotated>>
    BY <1>0, <1>6 DEF Crash, Continue, TypeInv, EscrowTypeOK
  <2> QED
    BY <2>1, IdleTyped, QuietStep
<1>7. ASSUME Kick PROVE AloneInv(op)'
  BY <1>7 DEF Kick, AloneInv, RingInv, SealedInv, PairInv, Standing, At, files
<1>8. ASSUME NEW x \in Escrow, LoseHeader(x) PROVE AloneInv(op)'
  <2>1. /\ header' = [header EXCEPT ![x] = NoFile] /\ x \notin torn
        /\ UNCHANGED <<ring, body, torn, session, rotated>>
    BY <1>8 DEF LoseHeader
  <2>2. header'[x] = NoFile /\ \A y \in Escrow : y # x => header'[y] = header[y]
    BY <2>1 DEF TypeInv, EscrowTypeOK
  <2>3. RingInv(op)' /\ SealedInv'
    BY <2>1 DEF AloneInv, RingInv, SealedInv
  <2>4. PairInv(op)'
    <3>1. \A y \in Escrow : Standing(y)' => Standing(y) /\ header'[y] = header[y]
      BY <2>1, <2>2 DEF Standing
    <3>2. At(op, "body") => Place(s) # x /\ Place(s) \in Escrow
      <4>1. At(op, "body") => s \in Session /\ s.pending # {}
        BY <1>0 DEF TypeInv, EscrowTypeOK, Own, At
      <4> QED
        BY <2>1, <4>1, PlaceTyped DEF AloneInv, PairInv
    <3> QED
      BY <2>1, <2>2, <3>1, <3>2 DEF AloneInv, PairInv, At
  <2> QED
    BY <2>3, <2>4 DEF AloneInv
<1>9. CASE UNCHANGED escrowVars
  BY <1>9 DEF escrowVars, AloneInv, RingInv, SealedInv, PairInv, Standing, At, files
<1> QED
  BY <1>0, <1>1, <1>2, <1>3, <1>4, <1>5, <1>6, <1>7, <1>8, <1>9,
     CreateAlone, RotateAlone, HeaderAlone, BodyAlone DEF EscrowNext, Working

(* Whatever was rotated, killed or lost before, one command at a time      *)
(* leaves a header only where its body opens with the generation that it   *)
(* names.                                                                  *)
THEOREM HeaderOpensBodyHolds ==
  ASSUME NEW op, Proc = {op}
  PROVE  EscrowSpec => []HeaderOpensBody
<1>1. EscrowInit => AloneInv(op)
  BY AloneInit
<1>2. TypeInv /\ AloneInv(op) /\ [EscrowNext]_escrowVars => AloneInv(op)'
  BY AloneNext
<1>3. AloneInv(op) => HeaderOpensBody
  BY DEF AloneInv, SealedInv, PairInv, Standing, HeaderOpensBody, Opens
<1> QED
  BY <1>1, <1>2, <1>3, EscrowTypeInit, EscrowTypeNext, PTL DEF EscrowSpec

(* No body that was sealed before a rotation opens under the ring after    *)
(* it, when commands run one at a time (ring-backend.ts).                  *)
THEOREM RotationKillsHolds ==
  ASSUME NEW op, Proc = {op}
  PROVE  EscrowSpec => []RotationKills
<1>1. EscrowInit => AloneInv(op)
  BY AloneInit
<1>2. TypeInv /\ AloneInv(op) /\ [EscrowNext]_escrowVars => AloneInv(op)'
  BY AloneNext
<1>3. TypeInv /\ AloneInv(op) => RotationKills
  <2> SUFFICES ASSUME TypeInv, AloneInv(op), NEW x \in Escrow, body[x] # NoFile,
                      body[x].stamp < rotated, Opens(body[x], ring.seed, ring.generation)
               PROVE  FALSE
    BY DEF RotationKills
  <2>1. rotated \in Nat /\ ring.generation = rotated /\ body[x].stamp = body[x].generation
    BY DEF TypeInv, EscrowTypeOK, AloneInv, RingInv, SealedInv
  <2> QED
    BY <2>1 DEF Opens
<1> QED
  BY <1>1, <1>2, <1>3, EscrowTypeInit, EscrowTypeNext, PTL DEF EscrowSpec

-----------------------------------------------------------------------------
(* One agent in the state directory.                                       *)

LEMMA SweptNext ==
  ASSUME NEW op, Proc = {op}, NEW a, Agent = {a},
         TypeInv, AloneInv(op), SweptInv(op, a), [EscrowNext]_escrowVars
  PROVE  SweptInv(op, a)'
<1> DEFINE s == session[op]
<1>0. /\ op \in Proc /\ s \in Session /\ s.agent = a /\ Own(s, body)
      /\ \A e \in EscrowEpoch : <<a, e>> \in Escrow
  BY DEF TypeInv, EscrowTypeOK, Session, Escrow
<1>1. ASSUME NEW c \in Agent,
             StartSweep(op, c) \/ \E e \in EscrowEpoch, x \in Archive : StartEscrow(op, c, e, x)
      PROVE  SweptInv(op, a)'
  <2>1. PICK t \in Session : Moves(op, t) /\ t.at = "open" /\ (t.sweep => owed # {})
    BY <1>0, <1>1, StartStep
  <2>2. UNCHANGED <<ring, files, owed>> /\ session'[op] = t
    BY <1>0, <1>1, <2>1, StartStep, MovesTo
  <2> QED
    BY <2>1, <2>2 DEF SweptInv, Standing, Fresh, files
<1>2. ASSUME OpenRing(op) PROVE SweptInv(op, a)'
  <2>1. PICK t \in Session :
          /\ Moves(op, t) /\ t.sweep = s.sweep
          /\ t.at \in {"create", "list"} \/ (t.at = "header" /\ ~t.sweep)
    BY <1>0, <1>2, OpenStep
  <2>2. UNCHANGED <<ring, files, owed>> /\ session'[op] = t /\ s.at = "open"
    BY <1>0, <1>2, <2>1, OpenStep, MovesTo DEF At
  <2> QED
    BY <2>1, <2>2 DEF SweptInv, Standing, Fresh, files
<1>3. ASSUME CreateRing(op) PROVE SweptInv(op, a)'
  <2>1. PICK t \in Session :
          /\ Moves(op, t) /\ t.sweep = s.sweep
          /\ t.at = "list" \/ (t.at = "header" /\ ~t.sweep)
    BY <1>0, <1>3, CreateStep
  <2>2. UNCHANGED <<files, owed>> /\ session'[op] = t /\ s.at = "create" /\ ring'.generation = 0
    BY <1>0, <1>3, <2>1, CreateStep, MovesTo DEF At
  <2>3. ring.generation = 0
    BY <2>2 DEF AloneInv, RingInv
  <2> QED
    BY <2>1, <2>2, <2>3 DEF SweptInv, Standing, Fresh, files
<1>4. ASSUME ListBodies(op) PROVE SweptInv(op, a)'
  <2>1. UNCHANGED <<ring, files>> /\ s.at = "list" /\ s.sweep
    BY <1>0, <1>4, ListStep DEF At, Own
  <2>2. PICK t \in Session :
          /\ Moves(op, t)
          /\ \/ /\ t.at = "read"
                /\ t.todo = {e \in EscrowEpoch : body[a, e] # NoFile} /\ owed' = owed
             \/ /\ t.at = "idle" /\ owed' = owed \ {a}
                /\ \A e \in EscrowEpoch : header[a, e] = NoFile
    BY <1>0, <1>4, ListStep
  <2>3. session'[op] = t
    BY <1>0, <2>2, MovesTo
  <2>4. CASE t.at = "read"
    <3>1. \A e \in EscrowEpoch : Standing(<<a, e>>) => e \in t.todo
      BY <1>0, <2>2, <2>4 DEF AloneInv, PairInv
    <3>2. owed # {} /\ owed' = owed
      BY <2>1, <2>2, <2>4 DEF SweptInv
    <3> QED
      BY <2>1, <2>3, <2>4, <3>1, <3>2 DEF SweptInv, Standing, Fresh, files
  <2>5. CASE t.at = "idle"
    <3>1. \A e \in EscrowEpoch : ~Standing(<<a, e>>)
      BY <2>2, <2>5 DEF Standing
    <3> QED
      BY <2>1, <2>3, <2>5, <3>1 DEF SweptInv, Standing, Fresh, files
  <2> QED
    BY <2>2, <2>4, <2>5
<1>5. ASSUME ReadHeader(op) PROVE SweptInv(op, a)'
  <2> DEFINE m == Min(s.todo)
  <2>1. /\ UNCHANGED <<ring, files, owed>> /\ s.at = "read" /\ s.sweep
        /\ m \in s.todo /\ m \in EscrowEpoch
    BY <1>0, <1>5, HeaderReadStep DEF At, Own
  <2>2. PICK t \in Session :
          /\ Moves(op, t) /\ t.pending = s.pending
          /\ \/ t.at = "read" /\ header[a, m] = NoFile /\ t.todo = s.todo \ {m}
             \/ t.at = "decrypt" /\ t.found = header[a, m] /\ t.todo = s.todo
    BY <1>0, <1>5, HeaderReadStep
  <2>3. session'[op] = t
    BY <1>0, <2>2, MovesTo
  <2>4. Carried(t) = Carried(s) /\ owed # {}
    BY <2>1, <2>2 DEF Carried, SweptInv
  <2>5. \A e \in EscrowEpoch : Standing(<<a, e>>) => e \in s.todo \cup Carried(s)
    BY <2>1 DEF SweptInv
  <2>6. \A e \in EscrowEpoch : Standing(<<a, e>>) => e \in t.todo \cup Carried(t)
    BY <2>2, <2>4, <2>5 DEF Standing
  <2>7. t.at = "decrypt" => header[a, Min(t.todo)] = t.found
    BY <2>2
  <2>8. t.at \in {"read", "decrypt"}
    BY <2>2
  <2> QED
    BY <2>1, <2>3, <2>4, <2>6, <2>7, <2>8 DEF SweptInv, Standing, Fresh, files
<1>6. ASSUME ReadBody(op) PROVE SweptInv(op, a)'
  <2> DEFINE m == Min(s.todo)
             b == body[a, m]
  <2>1. /\ UNCHANGED <<ring, files, owed>> /\ s.at = "decrypt" /\ s.sweep
        /\ m \in s.todo /\ m \in EscrowEpoch
    BY <1>0, <1>6, BodyReadStep DEF At, Own
  <2>2. PICK t \in Session :
          /\ Moves(op, t) /\ t.at = "read" /\ t.todo = s.todo \ {m}
          /\ Carried(s) \subseteq Carried(t)
          /\ Opens(b, s.seed, s.found.generation) => m \in Carried(t)
    BY <1>0, <1>6, BodyReadStep
  <2>3. session'[op] = t /\ owed # {}
    BY <1>0, <2>1, <2>2, MovesTo DEF SweptInv
  <2>4. Standing(<<a, m>>) => m \in Carried(t)
    <3> SUFFICES ASSUME Standing(<<a, m>>) PROVE Opens(b, s.seed, s.found.generation)
      BY <2>2
    <3>1. header[a, m] = s.found
      BY <2>1 DEF SweptInv, Standing
    <3>2. b # NoFile /\ b.generation = s.found.generation
      BY <1>0, <2>1, <3>1 DEF AloneInv, PairInv
    <3>3. b.seed = ring.seed
      BY <1>0, <2>1, <3>2 DEF AloneInv, SealedInv
    <3>4. s.seed = ring.seed
      BY <2>1 DEF AloneInv, RingInv
    <3> QED
      BY <3>2, <3>3, <3>4 DEF Opens
  <2>5. \A e \in EscrowEpoch : Standing(<<a, e>>) => e \in t.todo \cup Carried(t)
    BY <2>1, <2>2, <2>4 DEF SweptInv
  <2> QED
    BY <2>1, <2>2, <2>3, <2>5 DEF SweptInv, Standing, Fresh, files
<1>7. ASSUME Rotate(op) PROVE SweptInv(op, a)'
  <2>1. UNCHANGED files /\ s.at = "read" /\ s.sweep /\ s.todo = {}
    BY <1>0, <1>7, RotateStep DEF At, Own
  <2>2. PICK t \in Session :
          /\ Moves(op, t)
          /\ \/ t.at = "idle" /\ s.pending = {} /\ owed' = owed \ {a}
             \/ t.at = "header" /\ t.pending = s.pending /\ owed' = owed
    BY <1>0, <1>7, RotateStep
  <2>3. session'[op] = t /\ owed # {}
    BY <1>0, <2>1, <2>2, MovesTo DEF SweptInv
  <2>4. \A e \in EscrowEpoch : Standing(<<a, e>>) => e \in Carried(s)
    BY <2>1 DEF SweptInv
  <2>5. CASE t.at = "idle"
    <3>1. \A e \in EscrowEpoch : ~Standing(<<a, e>>)
      BY <2>2, <2>4, <2>5 DEF Carried
    <3> QED
      BY <2>1, <2>3, <2>5, <3>1 DEF SweptInv, Standing, files
  <2>6. CASE t.at = "header"
    <3>1. \A e \in EscrowEpoch : Standing(<<a, e>>) => e \in Carried(t)
      BY <2>2, <2>4, <2>6 DEF Carried
    <3>2. owed' # {}
      BY <2>2, <2>3, <2>6
    <3> QED
      BY <2>1, <2>3, <2>6, <3>1, <3>2 DEF SweptInv, Standing, files
  <2> QED
    BY <2>2, <2>5, <2>6
<1>8. ASSUME WriteHeader(op) PROVE SweptInv(op, a)'
  <2>1. PICK t \in Session :
          /\ Moves(op, t) /\ t.at = "body" /\ t.sweep = s.sweep /\ t.pending = s.pending
    BY <1>0, <1>8, HeaderStep
  <2>2. PICK x \in Escrow, h \in Header : header' = [header EXCEPT ![x] = h] /\ torn' = torn \cup {x}
    BY <1>0, <1>8, HeaderStep, PlaceTyped
  <2>3. UNCHANGED <<ring, body, owed>> /\ session'[op] = t /\ s.at = "header"
    BY <1>0, <1>8, <2>1, HeaderStep, MovesTo DEF At
  <2>4. \A y \in Escrow : Standing(y)' => Standing(y) /\ header'[y] = header[y]
    BY <2>2 DEF Standing, TypeInv, EscrowTypeOK
  <2>5. \A e \in EscrowEpoch : Standing(<<a, e>>)' => Standing(<<a, e>>) /\ (Fresh(<<a, e>>)' <=> Fresh(<<a, e>>))
    BY <1>0, <2>3, <2>4 DEF Fresh
  <2>6. Carried(t) = Carried(s)
    BY <2>1 DEF Carried
  <2> QED
    BY <2>1, <2>3, <2>5, <2>6 DEF SweptInv, Carried
<1>9. ASSUME WriteBody(op) PROVE SweptInv(op, a)'
  <2> DEFINE w == NextPending(s)
  <2>0. s.pending # {} /\ s.at = "body"
    BY <1>0, <1>9, BodyStep DEF At
  <2> PICK m \in EscrowEpoch : m = w[1]
    BY <1>0, <2>0, PlaceTyped
  <2> DEFINE x == <<a, m>>
  <2>1. PICK t \in Session :
          /\ Moves(op, t)
          /\ \/ t.at = "idle" /\ s.pending = {w} /\ owed' = IF s.sweep THEN owed \ {a} ELSE owed
             \/ t.at = "header" /\ t.sweep = s.sweep /\ t.pending = s.pending \ {w} /\ owed' = owed
    BY <1>0, <1>9, BodyStep
  <2>2. /\ Place(s) = x /\ x \in Escrow /\ torn' = torn \ {x}
        /\ UNCHANGED <<ring, header>> /\ session'[op] = t
    BY <1>0, <1>9, <2>0, <2>1, BodyStep, PlaceTyped, MovesTo
  <2>3. header[x].generation = ring.generation
    BY <2>0, <2>2 DEF AloneInv, RingInv, PairInv, At
  <2>4. \A e \in EscrowEpoch : Standing(<<a, e>>)' =>
          e = m \/ (Standing(<<a, e>>) /\ (Fresh(<<a, e>>)' <=> Fresh(<<a, e>>)))
    BY <2>2 DEF Standing, Fresh
  <2>5. Fresh(<<a, m>>)'
    BY <2>2, <2>3 DEF Fresh
  <2>6. s.sweep => owed # {} /\ \A e \in EscrowEpoch : Standing(<<a, e>>) => e \in Carried(s) \/ Fresh(<<a, e>>)
    BY <2>0 DEF SweptInv
  <2> HIDE DEF s, w, x
  <2>7. s.sweep => \A e \in EscrowEpoch : Standing(<<a, e>>)' => e \in Carried(s) \ {m} \/ Fresh(<<a, e>>)'
    BY <2>4, <2>5, <2>6
  <2>8. owed = {} => \A e \in EscrowEpoch : Standing(<<a, e>>)' => Fresh(<<a, e>>)'
    BY <2>4, <2>5 DEF SweptInv
  <2>9. CASE t.at = "idle"
    <3>1. Carried(s) = {m}
      BY <2>1, <2>9 DEF Carried
    <3>2. owed' = {} => \A e \in EscrowEpoch : Standing(<<a, e>>)' => Fresh(<<a, e>>)'
      BY <2>1, <2>7, <2>8, <2>9, <3>1
    <3> QED
      BY <2>2, <2>9, <3>2 DEF SweptInv
  <2>10. CASE t.at = "header"
    <3>1. Carried(s) \ {m} \subseteq Carried(t)
      BY <2>1, <2>10 DEF Carried
    <3>2. owed' = owed /\ t.sweep = s.sweep
      BY <2>1, <2>10
    <3>3. t.sweep => owed' # {} /\ \A e \in EscrowEpoch : Standing(<<a, e>>)' => e \in Carried(t) \/ Fresh(<<a, e>>)'
      BY <2>6, <2>7, <3>1, <3>2
    <3> QED
      BY <2>2, <2>8, <2>10, <3>2, <3>3 DEF SweptInv, Carried
  <2> QED
    BY <2>1, <2>9, <2>10
<1>10. ASSUME Crash(op) PROVE SweptInv(op, a)'
  <2>1. session'[op] = Idle /\ UNCHANGED <<ring, files, owed>>
    BY <1>0, <1>10 DEF Crash, Continue, TypeInv, EscrowTypeOK
  <2> QED
    BY <2>1, IdleTyped DEF SweptInv, Standing, Fresh, files
<1>11. ASSUME Kick PROVE SweptInv(op, a)'
  <2>1. owed' # {} /\ UNCHANGED <<ring, files, session>>
    BY <1>11 DEF Kick
  <2> QED
    BY <2>1 DEF SweptInv, Standing, Fresh, files
<1>12. ASSUME NEW x \in Escrow, LoseHeader(x) PROVE SweptInv(op, a)'
  <2>1. header' = [header EXCEPT ![x] = NoFile] /\ UNCHANGED <<ring, torn, session, owed>>
    BY <1>12 DEF LoseHeader
  <2>2. \A e \in EscrowEpoch :
          /\ header'[a, e] \in {header[a, e], NoFile}
          /\ Standing(<<a, e>>)' => Standing(<<a, e>>) /\ (Fresh(<<a, e>>)' <=> Fresh(<<a, e>>))
    BY <1>0, <2>1 DEF Standing, Fresh, TypeInv, EscrowTypeOK
  <2>3. s.at = "decrypt" => Min(s.todo) \in EscrowEpoch
    BY <1>0, Leading DEF Own, Session
  <2> QED
    BY <2>1, <2>2, <2>3 DEF SweptInv
<1>13. CASE UNCHANGED escrowVars
  BY <1>13 DEF escrowVars, SweptInv, Standing, Fresh, files
<1> QED
  BY <1>0, <1>1, <1>2, <1>3, <1>4, <1>5, <1>6, <1>7, <1>8, <1>9, <1>10, <1>11, <1>12, <1>13
  DEF EscrowNext, Working

(* With one agent in the directory and one command at a time, an escrow    *)
(* that has its two files is restored by the fast path whenever no sweep   *)
(* is owed, however many sweeps were killed on the way                     *)
(* (docs/epoch-key-ring-spec.md, section 6).                               *)
THEOREM SweptRestoresHolds ==
  ASSUME NEW op, Proc = {op}, NEW a, Agent = {a}
  PROVE  EscrowSpec => []SweptRestores
<1>1. EscrowInit => AloneInv(op) /\ SweptInv(op, a)
  <2>1. EscrowInit => SweptInv(op, a)
    <3> SUFFICES ASSUME EscrowInit PROVE SweptInv(op, a)
      OBVIOUS
    <3>1. session[op] = Idle
      BY DEF EscrowInit
    <3>2. \A e \in EscrowEpoch : ~Standing(<<a, e>>)
      BY DEF EscrowInit, Standing, Escrow
    <3> QED
      BY <3>1, <3>2, IdleTyped DEF SweptInv
  <2> QED
    BY <2>1, AloneInit
<1>2. TypeInv /\ AloneInv(op) /\ SweptInv(op, a) /\ [EscrowNext]_escrowVars => AloneInv(op)' /\ SweptInv(op, a)'
  BY AloneNext, SweptNext
<1>3. AloneInv(op) /\ SweptInv(op, a) => SweptRestores
  <2> SUFFICES ASSUME AloneInv(op), SweptInv(op, a), owed = {},
                      NEW x \in Escrow \ torn, header[x] # NoFile
               PROVE  FastRestores(x)
    BY DEF SweptRestores
  <2>1. PICK e \in EscrowEpoch : x = <<a, e>>
    BY DEF Escrow
  <2>2. Standing(x) /\ Fresh(x)
    BY <2>1 DEF Standing, SweptInv
  <2>3. body[x] # NoFile /\ body[x].generation = header[x].generation /\ body[x].payload = header[x].payload
    BY <2>2 DEF AloneInv, PairInv
  <2>4. body[x].seed = ring.seed
    BY <2>3 DEF AloneInv, SealedInv
  <2> QED
    BY <2>2, <2>3, <2>4 DEF FastRestores, Opens, Fresh
<1> QED
  BY <1>1, <1>2, <1>3, EscrowTypeInit, EscrowTypeNext, PTL DEF EscrowSpec

-----------------------------------------------------------------------------
(* The contract. *)

USE DEF WhenNotPaused, OnlyOwner, IsActiveMember, NextVersion

LEMMA TypeInit == Init => TypeOK
<1> SUFFICES ASSUME Init PROVE TypeOK
    OBVIOUS
<1> USE AccountAssumption, ReferenceAssumption, AmountAssumption, BoundAssumption
<1>1. /\ NoMember \in Member /\ NoJoinRequest \in JoinRequest
      /\ NoFundRequest \in FundRequest /\ NoFileMapping \in FileMapping
  BY DEF NoMember, Member, NoJoinRequest, JoinRequest, NoFundRequest, FundRequest,
         NoFileMapping, FileMapping, Address, Status, Epoch
<1>2. /\ members \in [Account -> Member]
      /\ joinRequests \in [RequestId -> JoinRequest]
      /\ fundRequests \in [FundRequestId -> FundRequest]
      /\ memberFileMappings \in [Account -> FileMapping]
  BY <1>1 DEF Init
<1>3. /\ agentManifests \in [Account -> Ref \cup {NoRef}]
      /\ lastSenderSeq \in [Account -> Seq]
  BY DEF Init, Seq
<1>4. /\ paused \in BOOLEAN /\ currentEpoch \in Epoch /\ now \in Time
      /\ membershipVersion \in Nat /\ memberCount \in Nat /\ ownerNonce \in Nat
      /\ nextRequestId \in 1..(MaxRequestId + 1)
      /\ nextFundRequestId \in 1..(MaxFundRequestId + 1)
  <2>1. paused \in BOOLEAN
    BY Zenon DEF Init
  <2> QED
    BY <2>1 DEF Init, Epoch, Time
<1> QED
  BY <1>2, <1>3, <1>4 DEF Init, TypeOK


(* The membership calls type-check once the member count is known to stay  *)
(* a natural number, which takes LedgerStep below.                         *)
LEMMA TypeAdmit ==
  ASSUME TypeOK, NEW id \in RequestId, AdmitRequester(id)
  PROVE  /\ joinRequests[id].requester \in Account
         /\ members' \in [Account -> Member]
         /\ joinRequests' \in [RequestId -> JoinRequest]
<1>1. /\ joinRequests[id] \in JoinRequest
      /\ joinRequests[id].requester \in Account
  BY DEF TypeOK, JoinRequest, Address, AdmitRequester, PendingJoin
<1>2. [active |-> TRUE, pubkey |-> joinRequests[id].pubkey, joinedEpoch |-> currentEpoch] \in Member
  BY <1>1 DEF TypeOK, JoinRequest, Member
<1>3. members' \in [Account -> Member]
  BY <1>1, <1>2 DEF TypeOK, AdmitRequester
<1>4. joinRequests' \in [RequestId -> JoinRequest]
  BY <1>1 DEF TypeOK, AdmitRequester, ResolveJoin, JoinRequest, Status
<1> QED
  BY <1>1, <1>3, <1>4

(* Switching a member off keeps the record well typed. *)
LEMMA Inactive ==
  ASSUME NEW r \in Member
  PROVE  [r EXCEPT !.active = FALSE] \in Member
BY DEF Member

(* The internal functions that a direct and a signed call share.  The      *)
(* member count stays a natural number by LedgerStep below.                *)
SigningOK ==
    /\ ownerNonce \in Nat
    /\ now \in Time
    /\ signed \subseteq Signature
    /\ landed \subseteq Signature

LEMMA TypeShared ==
  ASSUME TypeOK, memberCount' \in Nat, SigningOK',
         \/ \E id \in RequestId : AdmitRequester(id) \/ RefuseRequester(id)
         \/ \E m \in Account : DropMember(m)
         \/ \E t \in Account : BindTreasury(t)
         \/ \E e \in Epoch, b \in Ref, h \in Hash, v \in Nat : AdvanceEpoch(e, b, h, v)
         \/ \E e \in Epoch : AskBackup(e)
  PROVE  TypeOK'
<1> USE DEF membership, funding, publishing, SigningOK
<1>1. ASSUME NEW id \in RequestId, AdmitRequester(id) PROVE TypeOK'
  <2>1. membershipVersion' \in Nat
    BY <1>1 DEF AdmitRequester, TypeOK
  <2> QED
    BY <1>1, <2>1, TypeAdmit DEF AdmitRequester, TypeOK
<1>2. ASSUME NEW id \in RequestId, RefuseRequester(id) PROVE TypeOK'
  BY <1>2 DEF RefuseRequester, ResolveJoin, TypeOK, JoinRequest, Status
<1>3. ASSUME NEW m \in Account, DropMember(m) PROVE TypeOK'
  <2>1. [members[m] EXCEPT !.active = FALSE] \in Member
    BY Inactive DEF TypeOK
  <2>2. membershipVersion' \in Nat /\ members' \in [Account -> Member]
    BY <1>3, <2>1 DEF DropMember, TypeOK
  <2>3. UNCHANGED <<joinRequests, nextRequestId, paused, currentEpoch, treasury, funding,
                    publishing, events>>
    BY <1>3 DEF DropMember
  <2> QED
    BY <2>2, <2>3 DEF TypeOK
<1>4. ASSUME NEW t \in Account, BindTreasury(t) PROVE TypeOK'
  BY <1>4 DEF BindTreasury, TypeOK, Address
<1>5. ASSUME NEW e \in Epoch, NEW b \in Ref, NEW h \in Hash, NEW v \in Nat, AdvanceEpoch(e, b, h, v)
      PROVE  TypeOK'
  <2>1. events' \subseteq Event
    BY <1>5 DEF AdvanceEpoch, Emit, Event, TypeOK
  <2> QED
    BY <1>5, <2>1 DEF AdvanceEpoch, TypeOK
<1>6. ASSUME NEW e \in Epoch, AskBackup(e) PROVE TypeOK'
  <2>1. events' \subseteq Event
    BY <1>6 DEF AskBackup, LogOnly, Emit, Event, TypeOK
  <2> QED
    BY <1>6, <2>1 DEF AskBackup, LogOnly, TypeOK
<1> QED
  BY <1>1, <1>2, <1>3, <1>4, <1>5, <1>6

LEMMA TypeSigningUnchanged ==
  ASSUME TypeOK, UNCHANGED signing
  PROVE  SigningOK'
BY DEF TypeOK, SigningOK, signing

LEMMA TypeMembership ==
  ASSUME TypeOK, NEW c \in Account, MembershipCalls(c), memberCount' \in Nat
  PROVE  TypeOK'
<1>1. ASSUME NEW k \in Pubkey, RequestJoin(c, k) PROVE TypeOK'
  BY <1>1, BoundAssumption
     DEF RequestJoin, TypeOK, JoinRequest, Address, Status, RequestId, funding, publishing, signing
<1>2. ASSUME NEW id \in RequestId, CancelJoin(c, id) PROVE TypeOK'
  BY <1>2 DEF CancelJoin, ResolveJoin, TypeOK, JoinRequest, Status, funding, publishing, signing
<1> QED
  BY <1>1, <1>2, TypeShared, TypeSigningUnchanged
     DEF MembershipCalls, ApproveJoin, RejectJoin, RemoveMember

LEMMA TypeFunding ==
  ASSUME TypeOK, NEW c \in Account, FundingCalls(c)
  PROVE  TypeOK'
<1> USE DEF membership, publishing, signing
<1>1. ASSUME NEW t \in Account, SetTreasury(c, t) PROVE TypeOK'
  BY <1>1 DEF SetTreasury, BindTreasury, TypeOK, Address, funding
<1>2. ASSUME NEW amount \in Amount, RequestFunds(c, amount) PROVE TypeOK'
  BY <1>2, BoundAssumption DEF RequestFunds, TypeOK, FundRequest, Address, Status, FundRequestId
<1>3. ASSUME NEW id \in FundRequestId, NEW status \in Status, ResolveFunds(id, status)
      PROVE  TypeOK'
  BY <1>3 DEF ResolveFunds, TypeOK, FundRequest
<1> QED
  BY <1>1, <1>2, <1>3
     DEF FundingCalls, CancelFundRequest, MarkFundRequestApproved, MarkFundRequestRejected, Status

(* A call that only logs keeps the types when what it logs is an event. *)
LEMMA TypeLog ==
  ASSUME TypeOK, NEW e \in Event, LogOnly(e), UNCHANGED signing
  PROVE  TypeOK'
<1>1. events' \subseteq Event
  BY DEF LogOnly, Emit, TypeOK
<1> QED
  BY <1>1 DEF LogOnly, TypeOK, membership, funding, publishing, signing

LEMMA TypeEpoch ==
  ASSUME TypeOK, NEW c \in Account, EpochCalls(c)
  PROVE  TypeOK'
<1>1. ASSUME NEW e \in Epoch, NEW b \in Ref, NEW h \in Hash, NEW v \in Version,
             RotateEpoch(c, e, b, h, v)
      PROVE  TypeOK'
  <2>1. v \in Nat /\ memberCount' \in Nat
    BY <1>1, BoundAssumption DEF Version, RotateEpoch, AdvanceEpoch, membership, TypeOK
  <2> QED
    BY <1>1, <2>1, TypeShared, TypeSigningUnchanged DEF RotateEpoch
<1>2. ASSUME NEW m \in Account, NEW b \in Ref, NEW e \in Epoch, NEW f \in Epoch,
             GrantHistoricalKeys(c, m, b, e, f)
      PROVE  TypeOK'
  BY <1>2, TypeLog DEF GrantHistoricalKeys, Event
<1>3. ASSUME NEW e \in Epoch, RequestBackup(c, e) PROVE TypeOK'
  BY <1>3, TypeLog DEF RequestBackup, AskBackup, Event
<1>4. ASSUME RequestEpochKey(c) PROVE TypeOK'
  <2>1. members[c].pubkey \in Pubkey \cup {NoPubkey} /\ currentEpoch \in Epoch
    BY DEF TypeOK, Member
  <2> QED
    BY <1>4, <2>1, TypeLog DEF RequestEpochKey, Event
<1>5. ASSUME RequestRekey(c) PROVE TypeOK'
  BY <1>5, TypeLog DEF RequestRekey, Event, TypeOK
<1> QED
  BY <1>1, <1>2, <1>3, <1>4, <1>5 DEF EpochCalls

LEMMA TypePublishing ==
  ASSUME TypeOK, NEW c \in Account, PublishingCalls(c)
  PROVE  TypeOK'
<1> USE DEF membership, funding, signing
<1>1. ASSUME NEW m \in Account, NEW r \in Ref, NEW e \in Epoch, UpdateMemberFileMapping(c, m, r, e)
      PROVE  TypeOK'
  BY <1>1 DEF UpdateMemberFileMapping, TypeOK, FileMapping
<1>2. ASSUME NEW n \in Seq, NEW e \in Epoch, PostMessage(c, n, e) PROVE TypeOK'
  <2>1. events' \subseteq Event
    BY <1>2 DEF PostMessage, Emit, Event, TypeOK
  <2> QED
    BY <1>2, <2>1 DEF PostMessage, TypeOK
<1>3. ASSUME NEW r \in Ref, UpdateAgentManifest(c, r) PROVE TypeOK'
  BY <1>3 DEF UpdateAgentManifest, TypeOK
<1> QED
  BY <1>1, <1>2, <1>3 DEF PublishingCalls

LEMMA TypePause ==
  ASSUME TypeOK, NEW c \in Account, PauseCalls(c)
  PROVE  TypeOK'
<1>1. paused' \in BOOLEAN
  BY Zenon DEF PauseCalls, Pause, Unpause, SetPaused
<1> QED
  BY <1>1 DEF PauseCalls, Pause, Unpause, SetPaused, TypeOK, membership, funding, publishing, signing

LEMMA TypeSigned ==
  ASSUME TypeOK, SignedCalls, memberCount' \in Nat
  PROVE  TypeOK'
<1>1. ASSUME NEW intent \in Intent, OwnerSigns(intent) PROVE TypeOK'
  <2>1. [intent |-> intent, nonce |-> ownerNonce, deadline |-> now + SigLifetime] \in Signature
    BY BoundAssumption DEF TypeOK, Signature, Time
  <2>2. signed' \subseteq Signature
    BY <1>1, <2>1 DEF OwnerSigns, TypeOK
  <2> QED
    BY <1>1, <2>2 DEF OwnerSigns, TypeOK, membership, funding, publishing
<1>2. ASSUME Tick PROVE TypeOK'
  BY <1>2, BoundAssumption DEF Tick, TypeOK, Time, membership, funding, publishing
<1>3. ASSUME NEW sig \in signed, CheckOwnerSig(sig) PROVE SigningOK' /\ sig.intent \in Intent
  BY <1>3 DEF CheckOwnerSig, SigningOK, TypeOK, Signature
<1>4. ASSUME NEW sig \in signed, ApproveJoinWithSig(sig) \/ RejectJoinWithSig(sig)
      PROVE  TypeOK'
  <2>1. CheckOwnerSig(sig) /\ sig.intent.op \in {"ApproveJoin", "RejectJoin"}
    BY <1>4 DEF ApproveJoinWithSig, RejectJoinWithSig, Signs
  <2>2. sig.intent.requestId \in RequestId
    BY <1>3, <2>1 DEF Intent
  <2> QED
    BY <1>3, <1>4, <2>1, <2>2, TypeShared DEF ApproveJoinWithSig, RejectJoinWithSig
<1>5. ASSUME NEW sig \in signed, RemoveMemberWithSig(sig) PROVE TypeOK'
  <2>1. CheckOwnerSig(sig) /\ sig.intent.op = "RemoveMember"
    BY <1>5 DEF RemoveMemberWithSig, Signs
  <2>2. sig.intent.member \in Account
    BY <1>3, <2>1 DEF Intent
  <2> QED
    BY <1>3, <1>5, <2>1, <2>2, TypeShared DEF RemoveMemberWithSig
<1>6. ASSUME NEW sig \in signed, SetTreasuryWithSig(sig) PROVE TypeOK'
  <2>1. CheckOwnerSig(sig) /\ sig.intent.op = "SetTreasury"
    BY <1>6 DEF SetTreasuryWithSig, Signs
  <2>2. sig.intent.treasury \in Account
    BY <1>3, <2>1 DEF Intent
  <2> QED
    BY <1>3, <1>6, <2>1, <2>2, TypeShared DEF SetTreasuryWithSig
<1>7. ASSUME NEW sig \in signed, NEW ref \in Ref, NEW v \in Version, RotateEpochWithSig(sig, ref, v)
      PROVE  TypeOK'
  <2>1. CheckOwnerSig(sig) /\ sig.intent.op = "RotateEpoch" /\ v \in Nat
    BY <1>7, BoundAssumption DEF RotateEpochWithSig, Signs, Version
  <2>2. sig.intent.toEpoch \in Epoch /\ sig.intent.hash \in Hash
    BY <1>3, <2>1 DEF Intent
  <2> QED
    BY <1>3, <1>7, <2>1, <2>2, TypeShared DEF RotateEpochWithSig
<1>8. ASSUME NEW sig \in signed, RequestBackupWithSig(sig) PROVE TypeOK'
  <2>1. CheckOwnerSig(sig) /\ sig.intent.op = "BackupRequest"
    BY <1>8 DEF RequestBackupWithSig, Signs
  <2>2. sig.intent.epoch \in Epoch
    BY <1>3, <2>1 DEF Intent
  <2> QED
    BY <1>3, <1>8, <2>1, <2>2, TypeShared DEF RequestBackupWithSig
<1> QED
  BY <1>1, <1>2, <1>4, <1>5, <1>6, <1>7, <1>8 DEF SignedCalls

LEMMA TypeNext ==
  ASSUME TypeOK, [Next]_vars, memberCount' \in Nat
  PROVE  TypeOK'
<1>1. CASE UNCHANGED vars
  BY <1>1 DEF vars, membership, funding, publishing, signing, TypeOK
<1> QED
  BY <1>1, TypeMembership, TypeFunding, TypeEpoch, TypePublishing, TypePause, TypeSigned DEF Next

-----------------------------------------------------------------------------
(* The membership state changes in four ways only, whichever call, direct  *)
(* or signed, brings the change about.                                     *)
Refused(id) ==
    /\ PendingJoin(id)
    /\ \E status \in {"rejected", "cancelled"} : ResolveJoin(id, status)
    /\ UNCHANGED <<members, nextRequestId, membershipVersion, memberCount>>

LEMMA MembershipStep ==
  ASSUME TypeOK, [Next]_vars
  PROVE  \/ \E c \in Account, k \in Pubkey : RequestJoin(c, k)
         \/ \E id \in RequestId : AdmitRequester(id)
         \/ \E id \in RequestId : Refused(id)
         \/ \E m \in Account : DropMember(m)
         \/ UNCHANGED membership
<1>1. CASE UNCHANGED vars
  BY <1>1 DEF vars
<1>2. ASSUME NEW c \in Account, MembershipCalls(c)
      PROVE  \/ \E k \in Pubkey : RequestJoin(c, k)
             \/ \E id \in RequestId : AdmitRequester(id) \/ Refused(id)
             \/ \E m \in Account : DropMember(m)
  BY <1>2 DEF MembershipCalls, ApproveJoin, RejectJoin, CancelJoin, RemoveMember,
              RefuseRequester, Refused
<1>3. ASSUME NEW c \in Account, FundingCalls(c) PROVE UNCHANGED membership
  BY <1>3 DEF FundingCalls, SetTreasury, BindTreasury, RequestFunds, CancelFundRequest,
              MarkFundRequestApproved, MarkFundRequestRejected, ResolveFunds
<1>4. ASSUME NEW c \in Account, EpochCalls(c) PROVE UNCHANGED membership
  BY <1>4 DEF EpochCalls, RotateEpoch, AdvanceEpoch, GrantHistoricalKeys, RequestBackup,
              AskBackup, RequestEpochKey, RequestRekey, LogOnly
<1>5. ASSUME NEW c \in Account, PublishingCalls(c) \/ PauseCalls(c) PROVE UNCHANGED membership
  BY <1>5 DEF PublishingCalls, UpdateMemberFileMapping, PostMessage, UpdateAgentManifest,
              PauseCalls, Pause, Unpause, SetPaused
<1>6. ASSUME NEW intent \in Intent, OwnerSigns(intent) PROVE UNCHANGED membership
  BY <1>6 DEF OwnerSigns
<1>7. ASSUME NEW sig \in signed, ApproveJoinWithSig(sig) \/ RejectJoinWithSig(sig)
      PROVE  \E id \in RequestId : AdmitRequester(id) \/ Refused(id)
  <2>1. sig.intent \in Intent /\ sig.intent.op \in {"ApproveJoin", "RejectJoin"}
    BY <1>7 DEF ApproveJoinWithSig, RejectJoinWithSig, Signs, TypeOK, Signature
  <2>2. sig.intent.requestId \in RequestId
    BY <2>1 DEF Intent
  <2> QED
    BY <1>7, <2>2 DEF ApproveJoinWithSig, RejectJoinWithSig, RefuseRequester, Refused
<1>8. ASSUME NEW sig \in signed, RemoveMemberWithSig(sig) PROVE \E m \in Account : DropMember(m)
  <2>1. sig.intent \in Intent /\ sig.intent.op = "RemoveMember"
    BY <1>8 DEF RemoveMemberWithSig, Signs, TypeOK, Signature
  <2>2. sig.intent.member \in Account
    BY <2>1 DEF Intent
  <2> QED
    BY <1>8, <2>2 DEF RemoveMemberWithSig
<1>9. ASSUME NEW sig \in signed,
             \/ SetTreasuryWithSig(sig)
             \/ \E b \in Ref, v \in Version : RotateEpochWithSig(sig, b, v)
             \/ RequestBackupWithSig(sig)
      PROVE  UNCHANGED membership
  BY <1>9 DEF SetTreasuryWithSig, BindTreasury, RotateEpochWithSig, AdvanceEpoch,
              RequestBackupWithSig, AskBackup, LogOnly
<1>10. ASSUME Tick PROVE UNCHANGED membership
  BY <1>10 DEF Tick
<1> QED
  BY <1>1, <1>2, <1>3, <1>4, <1>5, <1>6, <1>7, <1>8, <1>9, <1>10 DEF Next, SignedCalls

-----------------------------------------------------------------------------
(* The inductive invariant of membership.  RosterLedger is not inductive   *)
(* by itself: a request slot that has not been handed out must be blank,   *)
(* or overwriting it could lose an approval, and the set of members must   *)
(* be known to be finite (it is, whatever Account is: it grows one by one). *)
FreshRequests == \A id \in RequestId : id >= nextRequestId => joinRequests[id] = NoJoinRequest

LedgerInv ==
    /\ TypeOK
    /\ FreshRequests
    /\ IsFiniteSet(Active)
    /\ RosterLedger
    /\ AdmittedAsRequested

LEMMA ApprovedFinite == TypeOK => IsFiniteSet(Approved) /\ IsFiniteSet(Approved')
<1> SUFFICES ASSUME TypeOK PROVE IsFiniteSet(Approved) /\ IsFiniteSet(Approved')
    OBVIOUS
<1>1. IsFiniteSet(1..MaxRequestId)
  BY FS_Interval, BoundAssumption
<1>2. Approved \subseteq 1..MaxRequestId /\ Approved' \subseteq 1..MaxRequestId
  BY DEF Approved, RequestId
<1> QED
  BY <1>1, <1>2, FS_Subset

LEMMA LedgerInit == Init => LedgerInv
<1> SUFFICES ASSUME Init PROVE LedgerInv
    OBVIOUS
<1>1. Active = {} /\ Approved = {}
  BY DEF Init, Active, Approved, NoMember, NoJoinRequest
<1>2. FreshRequests
  BY DEF Init, FreshRequests
<1>3. Cardinality({}) = 0 /\ IsFiniteSet({})
  BY FS_EmptySet
<1> QED
  BY <1>1, <1>2, <1>3, TypeInit DEF Init, LedgerInv, RosterLedger, AdmittedAsRequested

LEMMA LedgerAdmit ==
  ASSUME LedgerInv, NEW id \in RequestId, AdmitRequester(id)
  PROVE  /\ FreshRequests' /\ IsFiniteSet(Active') /\ RosterLedger' /\ AdmittedAsRequested'
         /\ memberCount' \in Nat
<1> DEFINE r == joinRequests[id].requester
<1>1. /\ r \in Account /\ joinRequests' \in [RequestId -> JoinRequest]
      /\ TypeOK
  BY TypeAdmit DEF LedgerInv
<1>2. /\ joinRequests[id] \in JoinRequest
      /\ \A i \in RequestId : joinRequests'[i] =
           IF i = id THEN [joinRequests[id] EXCEPT !.status = "approved"] ELSE joinRequests[i]
  BY <1>1 DEF AdmitRequester, ResolveJoin, TypeOK
<1>3. /\ joinRequests'[id].status = "approved" /\ joinRequests'[id].requester = r
      /\ joinRequests'[id].pubkey = joinRequests[id].pubkey
  BY <1>2 DEF JoinRequest
<1>4. \A a \in Account : members'[a] =
        IF a = r THEN [active |-> TRUE, pubkey |-> joinRequests[id].pubkey,
                       joinedEpoch |-> currentEpoch]
        ELSE members[a]
  BY <1>1 DEF AdmitRequester, TypeOK
<1>5. Active' = Active \cup {r} /\ r \notin Active
  BY <1>1, <1>4 DEF Active, AdmitRequester
<1>6. Approved' = Approved \cup {id} /\ id \notin Approved
  BY <1>2, <1>3 DEF Approved, AdmitRequester, PendingJoin
<1>7. IsFiniteSet(Active') /\ Cardinality(Active') = Cardinality(Active) + 1
  BY <1>5, FS_AddElement DEF LedgerInv
<1>8. Cardinality(Approved') = Cardinality(Approved) + 1
  BY <1>1, <1>6, ApprovedFinite, FS_AddElement
<1>9. Cardinality(Approved) \in Nat /\ Cardinality(Active) \in Nat
  BY <1>1, ApprovedFinite, FS_CardinalityType DEF LedgerInv
<1>10. RosterLedger' /\ memberCount' \in Nat
  BY <1>1, <1>7, <1>8, <1>9 DEF LedgerInv, RosterLedger, AdmitRequester, TypeOK
<1>11. FreshRequests'
  BY <1>2 DEF LedgerInv, FreshRequests, AdmitRequester, PendingJoin, NoJoinRequest
<1>12. AdmittedAsRequested'
  <2> SUFFICES ASSUME NEW a \in Active'
               PROVE  \E i \in Approved' : /\ joinRequests'[i].requester = a
                                           /\ joinRequests'[i].pubkey = members'[a].pubkey
      BY DEF AdmittedAsRequested
  <2>1. CASE a = r
    BY <2>1, <1>1, <1>3, <1>4, <1>6
  <2>2. CASE a # r
    <3>1. PICK i \in Approved : /\ joinRequests[i].requester = a
                                /\ joinRequests[i].pubkey = members[a].pubkey
      BY <2>2, <1>5 DEF LedgerInv, AdmittedAsRequested
    <3> QED
      BY <2>2, <3>1, <1>2, <1>4, <1>5, <1>6 DEF Approved, Active
  <2> QED
    BY <2>1, <2>2
<1> QED
  BY <1>7, <1>10, <1>11, <1>12

LEMMA LedgerDrop ==
  ASSUME LedgerInv, NEW m \in Account, DropMember(m)
  PROVE  /\ FreshRequests' /\ IsFiniteSet(Active') /\ RosterLedger' /\ AdmittedAsRequested'
         /\ memberCount' \in Nat
<1>1. TypeOK /\ members[m] \in Member
  BY DEF LedgerInv, TypeOK
<1>2. /\ members'[m] = [members[m] EXCEPT !.active = FALSE]
      /\ \A a \in Account : a # m => members'[a] = members[a]
  BY <1>1 DEF DropMember, TypeOK
<1>3. ~members'[m].active /\ members'[m].pubkey = members[m].pubkey
  BY <1>1, <1>2, Zenon DEF Member
<1>4. Active' = Active \ {m} /\ m \in Active
  BY <1>2, <1>3 DEF Active, DropMember
<1>5. IsFiniteSet(Active') /\ Cardinality(Active') = Cardinality(Active) - 1
  BY <1>4, FS_RemoveElement DEF LedgerInv
<1>6. UNCHANGED <<joinRequests, nextRequestId>> /\ Approved' = Approved
  BY DEF DropMember, Approved
<1>7. Cardinality(Approved) \in Nat /\ Cardinality(Active') \in Nat /\ Cardinality(Active) \in Nat
  BY <1>1, <1>5, ApprovedFinite, FS_CardinalityType DEF LedgerInv
<1>8. RosterLedger' /\ memberCount' \in Nat
  BY <1>1, <1>5, <1>6, <1>7 DEF LedgerInv, RosterLedger, DropMember, TypeOK
<1>9. FreshRequests'
  BY <1>6 DEF LedgerInv, FreshRequests
<1>10. AdmittedAsRequested'
  BY <1>2, <1>4, <1>6 DEF LedgerInv, AdmittedAsRequested, Active
<1> QED
  BY <1>5, <1>8, <1>9, <1>10

LEMMA LedgerRequest ==
  ASSUME LedgerInv, NEW c \in Account, NEW k \in Pubkey, RequestJoin(c, k)
  PROVE  /\ FreshRequests' /\ IsFiniteSet(Active') /\ RosterLedger' /\ AdmittedAsRequested'
         /\ memberCount' \in Nat
<1>1. TypeOK /\ nextRequestId \in RequestId /\ NoJoinRequest.status = "pending"
  BY BoundAssumption DEF LedgerInv, TypeOK, RequestJoin, RequestId, NoJoinRequest
<1>2. \A id \in RequestId : joinRequests'[id] =
        IF id = nextRequestId THEN [requester |-> c, pubkey |-> k, status |-> "pending"]
        ELSE joinRequests[id]
  BY <1>1 DEF RequestJoin, TypeOK
<1>3. joinRequests[nextRequestId] = NoJoinRequest
  BY <1>1 DEF LedgerInv, FreshRequests, RequestId
<1>4. /\ Approved' = Approved /\ Active' = Active
      /\ \A id \in Approved : joinRequests'[id] = joinRequests[id]
      /\ UNCHANGED <<members, membershipVersion, memberCount>>
  BY <1>1, <1>2, <1>3 DEF Approved, Active, RequestJoin
<1>5. FreshRequests'
  BY <1>1, <1>2 DEF LedgerInv, FreshRequests, RequestJoin, RequestId, TypeOK
<1> QED
  BY <1>1, <1>4, <1>5 DEF LedgerInv, RosterLedger, AdmittedAsRequested, TypeOK

LEMMA LedgerRefused ==
  ASSUME LedgerInv, NEW id \in RequestId, Refused(id)
  PROVE  /\ FreshRequests' /\ IsFiniteSet(Active') /\ RosterLedger' /\ AdmittedAsRequested'
         /\ memberCount' \in Nat
<1>1. TypeOK /\ joinRequests[id] \in JoinRequest
  BY DEF LedgerInv, TypeOK
<1>2. PICK status \in {"rejected", "cancelled"} : \A i \in RequestId : joinRequests'[i] =
        IF i = id THEN [joinRequests[id] EXCEPT !.status = status] ELSE joinRequests[i]
  BY <1>1 DEF Refused, ResolveJoin, TypeOK
<1>3. joinRequests'[id].status = status /\ joinRequests[id].status = "pending"
  BY <1>1, <1>2 DEF JoinRequest, Refused, PendingJoin
<1>4. /\ Approved' = Approved /\ Active' = Active
      /\ \A i \in Approved : joinRequests'[i] = joinRequests[i]
      /\ UNCHANGED <<members, nextRequestId, membershipVersion, memberCount>>
  BY <1>2, <1>3 DEF Approved, Active, Refused
<1>5. FreshRequests'
  BY <1>2, <1>4 DEF LedgerInv, FreshRequests, Refused, PendingJoin, NoJoinRequest
<1> QED
  BY <1>1, <1>4, <1>5 DEF LedgerInv, RosterLedger, AdmittedAsRequested, TypeOK

LEMMA LedgerNext ==
  ASSUME LedgerInv, [Next]_vars
  PROVE  LedgerInv'
<1>1. /\ FreshRequests' /\ IsFiniteSet(Active') /\ RosterLedger' /\ AdmittedAsRequested'
      /\ memberCount' \in Nat
  <2>1. CASE UNCHANGED membership
    <3>1. Active' = Active /\ Approved' = Approved
      BY <2>1 DEF membership, Active, Approved
    <3> QED
      BY <2>1, <3>1
         DEF membership, LedgerInv, FreshRequests, RosterLedger, AdmittedAsRequested, TypeOK
  <2> QED
    BY <2>1, MembershipStep, LedgerRequest, LedgerAdmit, LedgerRefused, LedgerDrop DEF LedgerInv
<1> QED
  BY <1>1, TypeNext DEF LedgerInv

LEMMA LedgerAlways == Spec => []LedgerInv
  BY LedgerInit, LedgerNext, PTL DEF Spec

(* Whatever sequence of calls, direct or signed, is made, every slot keeps *)
(* its type; in particular memberCount never underflows.                   *)
THEOREM TypeCorrect == Spec => []TypeOK
  BY LedgerAlways, PTL DEF LedgerInv

(* memberCount and membershipVersion are exactly admissions minus removals *)
(* and admissions plus removals, for any number of accounts and requests.  *)
THEOREM RosterLedgerHolds == Spec => []RosterLedger
  BY LedgerAlways, PTL DEF LedgerInv

(* Nobody is a member without an approved request of its own for its key.  *)
THEOREM AdmittedAsRequestedHolds == Spec => []AdmittedAsRequested
  BY LedgerAlways, PTL DEF LedgerInv

(* A membershipVersion names one roster for ever.                          *)
THEOREM VersionNamesRosterHolds == Spec => VersionNamesRoster
<1>1. ASSUME LedgerInv, [Next]_vars
      PROVE  [ /\ membershipVersion' >= membershipVersion
               /\ membershipVersion' = membershipVersion => Roster' = Roster ]_vars
  <2>1. membershipVersion \in Nat
    BY <1>1 DEF LedgerInv, TypeOK
  <2>2. \/ members' = members /\ membershipVersion' = membershipVersion
        \/ membershipVersion' = membershipVersion + 1
    BY <1>1, MembershipStep
       DEF LedgerInv, membership, RequestJoin, AdmitRequester, Refused, DropMember
  <2>3. members' = members => Roster' = Roster
    BY DEF Roster, Active
  <2> QED
    BY <2>1, <2>2, <2>3
<1> QED
  BY <1>1, LedgerAlways, PTL DEF Spec, VersionNamesRoster

-----------------------------------------------------------------------------
(* Refinement of SwarmRegistry.  Its roster pairs accounts with real keys, *)
(* so the contract must never admit on a blank request.                    *)
KeyedRequests ==
    \A id \in RequestId : joinRequests[id].requester \in Account => joinRequests[id].pubkey \in Pubkey

RefinementInv == LedgerInv /\ KeyedRequests

LEMMA KeyedNext ==
  ASSUME RefinementInv, [Next]_vars
  PROVE  KeyedRequests'
<1>1. TypeOK /\ LedgerInv
  BY DEF RefinementInv, LedgerInv
<1>2. ASSUME NEW c \in Account, NEW k \in Pubkey, RequestJoin(c, k) PROVE KeyedRequests'
  BY <1>1, <1>2 DEF RefinementInv, KeyedRequests, RequestJoin, TypeOK
<1>3. ASSUME NEW id \in RequestId, NEW status \in Status, ResolveJoin(id, status)
      PROVE  KeyedRequests'
  BY <1>1, <1>3 DEF RefinementInv, KeyedRequests, ResolveJoin, TypeOK, JoinRequest
<1>4. ASSUME UNCHANGED joinRequests PROVE KeyedRequests'
  BY <1>4 DEF RefinementInv, KeyedRequests
<1> QED
  BY <1>1, <1>2, <1>3, <1>4, MembershipStep
     DEF AdmitRequester, Refused, DropMember, membership, Status

LEMMA RefinementAlways == Spec => []RefinementInv
<1>1. Init => RefinementInv
  BY LedgerInit, AccountAssumption DEF Init, RefinementInv, KeyedRequests, NoJoinRequest
<1>2. RefinementInv /\ [Next]_vars => RefinementInv'
  BY KeyedNext, LedgerNext DEF RefinementInv
<1> QED
  BY <1>1, <1>2, PTL DEF Spec

(* Active members are in the roster under exactly one key, a real one. *)
LEMMA RosterKeys ==
  ASSUME RefinementInv
  PROVE  /\ \A a \in Active : members[a].pubkey \in Pubkey
         /\ \A a \in Account : (Registry!KeyOf(a) = {}) <=> a \notin Active
<1>1. \A a \in Active : members[a].pubkey \in Pubkey
  BY DEF RefinementInv, KeyedRequests, LedgerInv, AdmittedAsRequested, Approved, Active
<1>2. \A a \in Account, k \in Pubkey : <<a, k>> \in Roster <=> a \in Active /\ k = members[a].pubkey
  BY DEF Roster
<1> QED
  BY <1>1, <1>2 DEF Registry!KeyOf

LEMMA AdmitRefines ==
  ASSUME RefinementInv, NEW id \in RequestId, AdmitRequester(id)
  PROVE  \E a \in Account, k \in Pubkey : Registry!Admit(a, k)
<1> DEFINE a == joinRequests[id].requester
           k == joinRequests[id].pubkey
<1>1. TypeOK /\ a \in Account /\ k \in Pubkey
  BY TypeAdmit DEF RefinementInv, LedgerInv, KeyedRequests
<1>2. /\ members'[a] = [active |-> TRUE, pubkey |-> k, joinedEpoch |-> currentEpoch]
      /\ \A b \in Account : b # a => members'[b] = members[b]
      /\ a \notin Active
  BY <1>1 DEF AdmitRequester, TypeOK, Active
<1>3. Active' = Active \cup {a}
  BY <1>1, <1>2 DEF Active
<1>4. Roster' = Roster \cup {<<a, k>>}
  BY <1>1, <1>2, <1>3 DEF Roster, Active
<1>5. Registry!KeyOf(a) = {}
  BY <1>1, <1>2, RosterKeys
<1>6. UNCHANGED <<currentEpoch, Rotations>>
  BY DEF AdmitRequester, Rotations, EventsOf
<1> QED
  BY <1>1, <1>4, <1>5, <1>6 DEF Registry!Admit, AdmitRequester

LEMMA DropRefines ==
  ASSUME RefinementInv, NEW m \in Account, DropMember(m)
  PROVE  Registry!Expel(m)
<1>1. TypeOK /\ members[m] \in Member /\ m \in Active
  BY DEF RefinementInv, LedgerInv, TypeOK, DropMember, Active
<1>2. /\ members'[m] = [members[m] EXCEPT !.active = FALSE]
      /\ \A a \in Account : a # m => members'[a] = members[a]
  BY <1>1 DEF DropMember, TypeOK
<1>3. ~members'[m].active
  BY <1>1, <1>2, Zenon DEF Member
<1>4. Active' = Active \ {m}
  BY <1>2, <1>3 DEF Active
<1>5. Roster' = Roster \ ({m} \X Pubkey)
  BY <1>1, <1>2, <1>4, RosterKeys DEF Roster, Active
<1>6. Registry!KeyOf(m) # {}
  BY <1>1, RosterKeys
<1>7. UNCHANGED <<currentEpoch, Rotations>>
  BY DEF DropMember, Rotations, EventsOf
<1> QED
  BY <1>5, <1>6, <1>7 DEF Registry!Expel, DropMember

(* The epoch and the log of rotations move together or not at all. *)
LEMMA EpochStep ==
  ASSUME TypeOK, [Next]_vars
  PROVE  \/ \E e \in Epoch, b \in Ref, h \in Hash, v \in Nat : AdvanceEpoch(e, b, h, v)
         \/ UNCHANGED <<currentEpoch, Rotations>>
<1>1. ASSUME UNCHANGED <<currentEpoch, events>> PROVE UNCHANGED <<currentEpoch, Rotations>>
  BY <1>1 DEF Rotations, EventsOf
<1>2. ASSUME NEW record, Emit(record), record.type # "EpochRotated", UNCHANGED currentEpoch
      PROVE  UNCHANGED <<currentEpoch, Rotations>>
  <2>1. EventsOf("EpochRotated")' = EventsOf("EpochRotated")
    BY <1>2 DEF Emit, EventsOf
  <2> QED
    BY <1>2, <2>1 DEF Rotations
<1>3. CASE UNCHANGED vars
  BY <1>1, <1>3 DEF vars
<1>4. ASSUME NEW c \in Account, MembershipCalls(c) \/ FundingCalls(c) \/ PauseCalls(c)
      PROVE  UNCHANGED <<currentEpoch, events>>
  BY <1>4 DEF MembershipCalls, RequestJoin, ApproveJoin, AdmitRequester, RejectJoin,
              RefuseRequester, CancelJoin, RemoveMember, DropMember, FundingCalls, SetTreasury,
              BindTreasury, RequestFunds, CancelFundRequest, MarkFundRequestApproved,
              MarkFundRequestRejected, ResolveFunds, PauseCalls, Pause, Unpause, SetPaused
<1>5. ASSUME NEW c \in Account, EpochCalls(c)
      PROVE  \/ \E e \in Epoch, b \in Ref, h \in Hash, v \in Nat : AdvanceEpoch(e, b, h, v)
             \/ UNCHANGED <<currentEpoch, Rotations>>
  <2>1. Version \subseteq Nat
    BY BoundAssumption DEF Version
  <2>2. ASSUME NEW e \in Epoch, NEW b \in Ref, NEW h \in Hash, NEW v \in Version,
               RotateEpoch(c, e, b, h, v)
        PROVE  AdvanceEpoch(e, b, h, v)
    BY <2>2 DEF RotateEpoch
  <2>3. ASSUME NEW m \in Account, NEW b \in Ref, NEW e \in Epoch, NEW f \in Epoch,
               GrantHistoricalKeys(c, m, b, e, f)
        PROVE  UNCHANGED <<currentEpoch, Rotations>>
    BY <1>2, <2>3 DEF GrantHistoricalKeys, LogOnly
  <2>4. ASSUME NEW e \in Epoch, RequestBackup(c, e) PROVE UNCHANGED <<currentEpoch, Rotations>>
    BY <1>2, <2>4 DEF RequestBackup, AskBackup, LogOnly
  <2>5. ASSUME RequestEpochKey(c) \/ RequestRekey(c) PROVE UNCHANGED <<currentEpoch, Rotations>>
    BY <1>2, <2>5 DEF RequestEpochKey, RequestRekey, LogOnly
  <2> QED
    BY <1>5, <2>1, <2>2, <2>3, <2>4, <2>5 DEF EpochCalls
<1>6. ASSUME NEW c \in Account, PublishingCalls(c)
      PROVE  UNCHANGED <<currentEpoch, Rotations>>
  <2>1. ASSUME NEW n \in Seq, NEW e \in Epoch, PostMessage(c, n, e)
        PROVE  UNCHANGED <<currentEpoch, Rotations>>
    BY <1>2, <2>1 DEF PostMessage
  <2> QED
    BY <1>1, <1>6, <2>1 DEF PublishingCalls, UpdateMemberFileMapping, UpdateAgentManifest
<1>7. ASSUME NEW sig \in signed, NEW ref \in Ref, NEW v \in Version, RotateEpochWithSig(sig, ref, v)
      PROVE  \E e \in Epoch, b \in Ref, h \in Hash, w \in Nat : AdvanceEpoch(e, b, h, w)
  <2>1. sig.intent \in Intent /\ sig.intent.op = "RotateEpoch" /\ v \in Nat
    BY <1>7, BoundAssumption DEF RotateEpochWithSig, Signs, TypeOK, Signature, Version
  <2>2. sig.intent.toEpoch \in Epoch /\ sig.intent.hash \in Hash
    BY <2>1 DEF Intent
  <2> QED
    BY <1>7, <2>1, <2>2 DEF RotateEpochWithSig
<1>8. ASSUME NEW sig \in signed, RequestBackupWithSig(sig)
      PROVE  UNCHANGED <<currentEpoch, Rotations>>
  BY <1>2, <1>8 DEF RequestBackupWithSig, AskBackup, LogOnly
<1>9. ASSUME NEW sig \in signed,
             \/ ApproveJoinWithSig(sig) \/ RejectJoinWithSig(sig)
             \/ RemoveMemberWithSig(sig) \/ SetTreasuryWithSig(sig)
      PROVE  UNCHANGED <<currentEpoch, events>>
  BY <1>9 DEF ApproveJoinWithSig, AdmitRequester, RejectJoinWithSig, RefuseRequester,
              RemoveMemberWithSig, DropMember, SetTreasuryWithSig, BindTreasury
<1>10. ASSUME NEW intent \in Intent, OwnerSigns(intent) PROVE UNCHANGED <<currentEpoch, events>>
  BY <1>10 DEF OwnerSigns
<1>11. ASSUME Tick PROVE UNCHANGED <<currentEpoch, events>>
  BY <1>11 DEF Tick
<1> QED
  BY <1>1, <1>3, <1>4, <1>5, <1>6, <1>7, <1>8, <1>9, <1>10, <1>11 DEF Next, SignedCalls

LEMMA AdvanceRefines ==
  ASSUME NEW e \in Epoch, NEW b \in Ref, NEW h \in Hash, NEW v \in Nat, AdvanceEpoch(e, b, h, v)
  PROVE  Registry!Rotate(e, b)
<1>1. EventsOf("EpochRotated")' = EventsOf("EpochRotated") \cup
        {[type |-> "EpochRotated", epoch |-> e, bundle |-> b, hash |-> h,
          version |-> membershipVersion]}
  BY DEF AdvanceEpoch, Emit, EventsOf
<1>2. Rotations' = Rotations \cup {[epoch |-> e, bundle |-> b, version |-> membershipVersion]}
  <2> DEFINE new == [type |-> "EpochRotated", epoch |-> e, bundle |-> b, hash |-> h,
                     version |-> membershipVersion]
  <2>1. new.epoch = e /\ new.bundle = b /\ new.version = membershipVersion
    OBVIOUS
  <2>2. EventsOf("EpochRotated")' = EventsOf("EpochRotated") \cup {new}
    BY <1>1
  <2> HIDE DEF new
  <2> QED
    BY <2>1, <2>2 DEF Rotations
<1>3. Roster' = Roster /\ membershipVersion' = membershipVersion
  BY DEF AdvanceEpoch, membership, Roster, Active
<1> QED
  BY <1>2, <1>3 DEF Registry!Rotate, AdvanceEpoch, Later

(* Seen through roster, version, epoch and rotation log, the contract does *)
(* what SwarmRegistry says and nothing else: clients may rely on that.     *)
THEOREM SwarmImplementsRegistry == Spec => RefinesRegistry
<1>1. Init => Registry!RegistryInit
  <2> SUFFICES ASSUME Init PROVE Registry!RegistryInit
      OBVIOUS
  <2>1. Active = {} /\ EventsOf("EpochRotated") = {}
    BY DEF Init, Active, NoMember, EventsOf
  <2> QED
    BY <2>1 DEF Init, Registry!RegistryInit, Roster, Rotations
<1>2. ASSUME RefinementInv, [Next]_vars
      PROVE  [Registry!RegistryNext]_(Registry!registry)
  <2>1. TypeOK
    BY <1>2 DEF RefinementInv, LedgerInv
  <2>2. CASE \E e \in Epoch, b \in Ref, h \in Hash, v \in Nat : AdvanceEpoch(e, b, h, v)
    BY <2>2, AdvanceRefines DEF Registry!RegistryNext
  <2>3. CASE UNCHANGED <<currentEpoch, Rotations>>
    <3>1. ASSUME UNCHANGED <<members, membershipVersion>>
          PROVE  UNCHANGED Registry!registry
      BY <2>3, <3>1 DEF Registry!registry, Roster, Active
    <3>2. ASSUME NEW id \in RequestId, AdmitRequester(id)
          PROVE  Registry!RegistryNext
      BY <1>2, <3>2, AdmitRefines DEF Registry!RegistryNext
    <3>3. ASSUME NEW m \in Account, DropMember(m)
          PROVE  Registry!RegistryNext
      BY <1>2, <3>3, DropRefines DEF Registry!RegistryNext
    <3> QED
      BY <1>2, <2>1, <3>1, <3>2, <3>3, MembershipStep DEF RequestJoin, Refused, membership
  <2> QED
    BY <1>2, <2>1, <2>2, <2>3, EpochStep
<1> QED
  BY <1>1, <1>2, RefinementAlways, PTL DEF Spec, RefinesRegistry, Registry!RegistrySpec

-----------------------------------------------------------------------------
(* Signed intents.  Whatever a step does, it consumes one signature under  *)
(* the contract's check or leaves nonce and consumed signatures alone.     *)
LEMMA SigningStep ==
  ASSUME TypeOK, [Next]_vars
  PROVE  \/ \E sig \in signed : CheckOwnerSig(sig)
         \/ UNCHANGED <<ownerNonce, landed>>
<1>1. CASE UNCHANGED vars
  BY <1>1 DEF vars, signing
<1>2. ASSUME NEW c \in Account, MembershipCalls(c) \/ FundingCalls(c)
      PROVE  UNCHANGED <<ownerNonce, landed>>
  BY <1>2 DEF signing, MembershipCalls, RequestJoin, ApproveJoin, RejectJoin, CancelJoin,
              RemoveMember, FundingCalls, SetTreasury, RequestFunds, CancelFundRequest,
              MarkFundRequestApproved, MarkFundRequestRejected, ResolveFunds
<1>3. ASSUME NEW c \in Account, EpochCalls(c) \/ PublishingCalls(c) \/ PauseCalls(c)
      PROVE  UNCHANGED <<ownerNonce, landed>>
  BY <1>3 DEF signing, EpochCalls, RotateEpoch, GrantHistoricalKeys, RequestBackup,
              RequestEpochKey, RequestRekey, PublishingCalls, UpdateMemberFileMapping,
              PostMessage, UpdateAgentManifest, PauseCalls, Pause, Unpause, SetPaused
<1>4. ASSUME SignedCalls
      PROVE  \/ \E sig \in signed : CheckOwnerSig(sig)
             \/ UNCHANGED <<ownerNonce, landed>>
  BY <1>4 DEF SignedCalls, OwnerSigns, Tick, ApproveJoinWithSig, RejectJoinWithSig,
              RemoveMemberWithSig, SetTreasuryWithSig, RotateEpochWithSig, RequestBackupWithSig
<1> QED
  BY <1>1, <1>2, <1>3, <1>4 DEF Next

(* OneIntentPerNonce needs no more than that no consumed signature names a *)
(* nonce the contract has not reached.                                     *)
NonceInv ==
    /\ TypeOK
    /\ \A s \in landed : s.nonce < ownerNonce
    /\ OneIntentPerNonce

LEMMA NonceNext ==
  ASSUME NonceInv, TypeOK', [Next]_vars
  PROVE  NonceInv'
<1>1. TypeOK
  BY DEF NonceInv
<1>2. CASE UNCHANGED <<ownerNonce, landed>>
  BY <1>2 DEF NonceInv, OneIntentPerNonce
<1>3. ASSUME NEW sig \in signed, CheckOwnerSig(sig) PROVE NonceInv'
  <2>1. /\ sig.nonce = ownerNonce /\ ownerNonce \in Nat
        /\ ownerNonce' = ownerNonce + 1
        /\ landed' = landed \cup {sig}
    BY <1>1, <1>3 DEF CheckOwnerSig, TypeOK
  <2>2. \A s \in landed : s.nonce \in Nat /\ s.nonce < ownerNonce
    BY <1>1 DEF NonceInv, TypeOK, Signature
  <2>3. \A s \in landed' : s.nonce < ownerNonce'
    BY <2>1, <2>2
  <2>4. \A s, t \in landed' : s.nonce = t.nonce => s = t
    BY <2>1, <2>2 DEF NonceInv, OneIntentPerNonce
  <2>5. \A n \in 0..(ownerNonce' - 1) : \E s \in landed' : s.nonce = n
    <3> SUFFICES ASSUME NEW n \in 0..(ownerNonce' - 1) PROVE \E s \in landed' : s.nonce = n
        OBVIOUS
    <3>1. CASE n = ownerNonce
      BY <2>1, <3>1
    <3>2. CASE n # ownerNonce
      <4>1. n \in 0..(ownerNonce - 1)
        BY <2>1, <3>2
      <4> QED
        BY <2>1, <4>1 DEF NonceInv, OneIntentPerNonce
    <3> QED
      BY <3>1, <3>2
  <2> QED
    BY <2>3, <2>4, <2>5 DEF NonceInv, OneIntentPerNonce
<1> QED
  BY <1>1, <1>2, <1>3, SigningStep

(* Each nonce the contract has passed was consumed by exactly one of the   *)
(* intents signed for it, however many were signed, resubmitted or raced.  *)
THEOREM OneIntentPerNonceHolds == Spec => []OneIntentPerNonce
<1>1. Init => NonceInv
  BY TypeInit DEF Init, NonceInv, OneIntentPerNonce
<1>2. NonceInv /\ TypeOK' /\ [Next]_vars => NonceInv'
  BY NonceNext
<1>3. NonceInv => OneIntentPerNonce
  BY DEF NonceInv
<1> QED
  BY <1>1, <1>2, <1>3, TypeCorrect, PTL DEF Spec

-----------------------------------------------------------------------------
(* The log.  Three kinds of step touch the epoch, a message counter or the *)
(* events that carry either.                                               *)
Quiet == \A e \in events' \ events : e.type \notin {"EpochRotated", "AgentMessagePosted"}

LEMMA LogStep ==
  ASSUME TypeOK, [Next]_vars
  PROVE  \/ \E e \in Epoch, b \in Ref, h \in Hash, v \in Nat : AdvanceEpoch(e, b, h, v)
         \/ \E c \in Account, n \in Seq, e \in Epoch : PostMessage(c, n, e)
         \/ /\ UNCHANGED <<currentEpoch, lastSenderSeq>>
            /\ events \subseteq events'
            /\ Quiet
<1> DEFINE Still == UNCHANGED <<currentEpoch, lastSenderSeq>> /\ events \subseteq events' /\ Quiet
<1>1. ASSUME UNCHANGED <<currentEpoch, lastSenderSeq, events>> PROVE Still
  BY <1>1 DEF Quiet
<1>2. ASSUME NEW record, LogOnly(record), record.type \notin {"EpochRotated", "AgentMessagePosted"}
      PROVE  Still
  BY <1>2 DEF LogOnly, Emit, Quiet, publishing
<1> HIDE DEF Still
<1>3. CASE UNCHANGED vars
  BY <1>1, <1>3 DEF Still, vars, publishing
<1>4. ASSUME NEW c \in Account, MembershipCalls(c) \/ FundingCalls(c) \/ PauseCalls(c)
      PROVE  UNCHANGED <<currentEpoch, lastSenderSeq, events>>
  BY <1>4 DEF MembershipCalls, RequestJoin, ApproveJoin, AdmitRequester, RejectJoin,
              RefuseRequester, CancelJoin, RemoveMember, DropMember, FundingCalls, SetTreasury,
              BindTreasury, RequestFunds, CancelFundRequest, MarkFundRequestApproved,
              MarkFundRequestRejected, ResolveFunds, PauseCalls, Pause, Unpause, SetPaused,
              publishing
<1>5. ASSUME NEW c \in Account, EpochCalls(c)
      PROVE  Still \/ \E e \in Epoch, b \in Ref, h \in Hash, v \in Nat : AdvanceEpoch(e, b, h, v)
  <2>1. Version \subseteq Nat
    BY BoundAssumption DEF Version
  <2>2. ASSUME NEW e \in Epoch, NEW b \in Ref, NEW h \in Hash, NEW v \in Version,
               RotateEpoch(c, e, b, h, v)
        PROVE  AdvanceEpoch(e, b, h, v)
    BY <2>2 DEF RotateEpoch
  <2>3. ASSUME NEW m \in Account, NEW b \in Ref, NEW e \in Epoch, NEW f \in Epoch,
               GrantHistoricalKeys(c, m, b, e, f)
        PROVE  Still
    BY <1>2, <2>3 DEF GrantHistoricalKeys
  <2>4. ASSUME NEW e \in Epoch, RequestBackup(c, e) PROVE Still
    BY <1>2, <2>4 DEF RequestBackup, AskBackup
  <2>5. ASSUME RequestEpochKey(c) \/ RequestRekey(c) PROVE Still
    BY <1>2, <2>5 DEF RequestEpochKey, RequestRekey
  <2> QED
    BY <1>5, <2>1, <2>2, <2>3, <2>4, <2>5 DEF EpochCalls
<1>6. ASSUME NEW c \in Account, PublishingCalls(c)
      PROVE  Still \/ \E n \in Seq, e \in Epoch : PostMessage(c, n, e)
  BY <1>1, <1>6 DEF PublishingCalls, UpdateMemberFileMapping, UpdateAgentManifest
<1>7. ASSUME NEW sig \in signed, NEW ref \in Ref, NEW v \in Version, RotateEpochWithSig(sig, ref, v)
      PROVE  \E e \in Epoch, b \in Ref, h \in Hash, w \in Nat : AdvanceEpoch(e, b, h, w)
  <2>1. sig.intent \in Intent /\ sig.intent.op = "RotateEpoch" /\ v \in Nat
    BY <1>7, BoundAssumption DEF RotateEpochWithSig, Signs, TypeOK, Signature, Version
  <2>2. sig.intent.toEpoch \in Epoch /\ sig.intent.hash \in Hash
    BY <2>1 DEF Intent
  <2> QED
    BY <1>7, <2>1, <2>2 DEF RotateEpochWithSig
<1>8. ASSUME NEW sig \in signed, RequestBackupWithSig(sig) PROVE Still
  BY <1>2, <1>8 DEF RequestBackupWithSig, AskBackup
<1>9. ASSUME NEW sig \in signed,
             \/ ApproveJoinWithSig(sig) \/ RejectJoinWithSig(sig)
             \/ RemoveMemberWithSig(sig) \/ SetTreasuryWithSig(sig)
      PROVE  UNCHANGED <<currentEpoch, lastSenderSeq, events>>
  BY <1>9 DEF ApproveJoinWithSig, AdmitRequester, RejectJoinWithSig, RefuseRequester,
              RemoveMemberWithSig, DropMember, SetTreasuryWithSig, BindTreasury, publishing
<1>10. ASSUME NEW intent \in Intent, OwnerSigns(intent)
       PROVE  UNCHANGED <<currentEpoch, lastSenderSeq, events>>
  BY <1>10 DEF OwnerSigns, publishing
<1>11. ASSUME Tick PROVE UNCHANGED <<currentEpoch, lastSenderSeq, events>>
  BY <1>11 DEF Tick, publishing
<1> QED
  BY <1>1, <1>3, <1>4, <1>5, <1>6, <1>7, <1>8, <1>9, <1>10, <1>11 DEF Next, SignedCalls, Still

(* What the log holds is past: no message is ahead of its sender's counter *)
(* or of the epoch, and no rotation is ahead of the epoch.  Counter and    *)
(* epoch outlive a removal, so a member admitted again cannot fall behind. *)
LogInv ==
    /\ TypeOK
    /\ \A m \in EventsOf("AgentMessagePosted") :
         m.seq <= lastSenderSeq[m.from] /\ m.epoch <= currentEpoch
    /\ \A e \in EventsOf("EpochRotated") : e.epoch <= currentEpoch
    /\ MessagesFollowEpochs

(* The records of the two kinds of event the invariant speaks of.          *)
LEMMA LoggedTypes ==
  ASSUME TypeOK
  PROVE  /\ \A m \in EventsOf("AgentMessagePosted") :
              m.from \in Account /\ m.seq \in Seq /\ m.epoch \in Epoch
         /\ \A e \in EventsOf("EpochRotated") : e.epoch \in Epoch /\ e.bundle \in Ref
BY DEF TypeOK, EventsOf, Event

LEMMA LogAdvance ==
  ASSUME LogInv, TypeOK', NEW e \in Epoch, NEW b \in Ref, NEW h \in Hash, NEW v \in Nat,
         AdvanceEpoch(e, b, h, v)
  PROVE  LogInv'
<1> DEFINE new == [type |-> "EpochRotated", epoch |-> e, bundle |-> b, hash |-> h,
                   version |-> membershipVersion]
<1>1. /\ TypeOK /\ currentEpoch \in Int /\ e \in Int /\ e > currentEpoch /\ currentEpoch' = e
      /\ lastSenderSeq' = lastSenderSeq /\ events' = events \cup {new}
  BY DEF LogInv, TypeOK, AdvanceEpoch, Later, Emit, publishing, Epoch
<1>2. /\ EventsOf("AgentMessagePosted")' = EventsOf("AgentMessagePosted")
      /\ EventsOf("EpochRotated")' = EventsOf("EpochRotated") \cup {new}
  BY <1>1 DEF EventsOf
<1>3. /\ \A m \in EventsOf("AgentMessagePosted") : m.epoch \in Int
      /\ \A r \in EventsOf("EpochRotated") : r.epoch \in Int
  BY <1>1, LoggedTypes DEF Epoch
<1>4. \A m \in EventsOf("AgentMessagePosted")' :
        m.seq <= lastSenderSeq'[m.from] /\ m.epoch <= currentEpoch'
  BY <1>1, <1>2, <1>3 DEF LogInv
<1>5. \A r \in EventsOf("EpochRotated")' : r.epoch <= currentEpoch'
  BY <1>1, <1>2, <1>3 DEF LogInv
<1>6. MessagesFollowEpochs'
  BY <1>2 DEF LogInv, MessagesFollowEpochs
<1> QED
  BY <1>4, <1>5, <1>6 DEF LogInv

LEMMA LogMessage ==
  ASSUME LogInv, TypeOK', NEW c \in Account, NEW n \in Seq, NEW e \in Epoch, PostMessage(c, n, e)
  PROVE  LogInv'
<1> DEFINE new == [type |-> "AgentMessagePosted", from |-> c, seq |-> n, epoch |-> e]
<1>1. /\ TypeOK /\ currentEpoch \in Int /\ e = currentEpoch /\ currentEpoch' = currentEpoch
      /\ n \in Int /\ n > lastSenderSeq[c] /\ events' = events \cup {new}
      /\ lastSenderSeq' = [lastSenderSeq EXCEPT ![c] = n]
      /\ \A a \in Account : lastSenderSeq[a] \in Int
  BY DEF LogInv, TypeOK, PostMessage, SeqUnused, Emit, Epoch, Seq
<1>2. /\ EventsOf("AgentMessagePosted")' = EventsOf("AgentMessagePosted") \cup {new}
      /\ EventsOf("EpochRotated")' = EventsOf("EpochRotated")
  BY <1>1 DEF EventsOf
<1>3. \A m \in EventsOf("AgentMessagePosted") :
        /\ m.from \in Account /\ m.seq \in Int /\ m.epoch \in Int
        /\ m.seq <= lastSenderSeq[m.from] /\ m.epoch <= currentEpoch
  BY <1>1, LoggedTypes DEF LogInv, Epoch, Seq
<1>4. lastSenderSeq'[c] = n /\ \A a \in Account : lastSenderSeq'[a] >= lastSenderSeq[a]
  BY <1>1 DEF LogInv, TypeOK
<1>5. new.from = c /\ new.seq = n /\ new.epoch = e
  OBVIOUS
<1>6. \A m \in EventsOf("AgentMessagePosted") : m.from = c => m.seq < n
  BY <1>1, <1>3
<1> HIDE DEF new
<1>7. \A m \in EventsOf("AgentMessagePosted")' :
        m.seq <= lastSenderSeq'[m.from] /\ m.epoch <= currentEpoch'
  <2>1. ASSUME NEW m \in EventsOf("AgentMessagePosted")
        PROVE  m.seq <= lastSenderSeq'[m.from]
    <3>1. lastSenderSeq[m.from] \in Int /\ lastSenderSeq'[m.from] \in Int
      BY <1>1, <1>3 DEF TypeOK, Seq
    <3> QED
      BY <1>3, <1>4, <2>1, <3>1
  <2> QED
    BY <1>1, <1>2, <1>3, <1>4, <1>5, <2>1
<1>8. MessagesFollowEpochs'
  <2> SUFFICES ASSUME NEW m \in EventsOf("AgentMessagePosted")',
                      NEW k \in EventsOf("AgentMessagePosted")', m.from = k.from
               PROVE  (m.seq = k.seq => m = k) /\ (m.seq < k.seq => m.epoch <= k.epoch)
      BY DEF MessagesFollowEpochs
  <2>1. CASE m \in EventsOf("AgentMessagePosted") /\ k \in EventsOf("AgentMessagePosted")
    BY <2>1 DEF LogInv, MessagesFollowEpochs
  <2>2. CASE m = new \/ k = new
    BY <1>1, <1>2, <1>3, <1>5, <1>6, <2>2
  <2> QED
    BY <1>2, <2>1, <2>2
<1>9. \A r \in EventsOf("EpochRotated")' : r.epoch <= currentEpoch'
  BY <1>1, <1>2 DEF LogInv
<1> QED
  BY <1>7, <1>8, <1>9 DEF LogInv

LEMMA LogNext ==
  ASSUME LogInv, TypeOK', [Next]_vars
  PROVE  LogInv'
<1>1. TypeOK
  BY DEF LogInv
<1>2. ASSUME UNCHANGED <<currentEpoch, lastSenderSeq>>, events \subseteq events', Quiet
      PROVE  LogInv'
  <2>1. /\ EventsOf("AgentMessagePosted")' = EventsOf("AgentMessagePosted")
        /\ EventsOf("EpochRotated")' = EventsOf("EpochRotated")
    BY <1>2 DEF EventsOf, Quiet
  <2> QED
    BY <1>2, <2>1 DEF LogInv, MessagesFollowEpochs
<1> QED
  BY <1>1, <1>2, LogStep, LogAdvance, LogMessage

LEMMA LogAlways == Spec => []LogInv
<1>1. Init => LogInv
  BY TypeInit DEF Init, LogInv, EventsOf, MessagesFollowEpochs
<1>2. LogInv /\ TypeOK' /\ [Next]_vars => LogInv'
  BY LogNext
<1> QED
  BY <1>1, <1>2, TypeCorrect, PTL DEF Spec

(* A sender's messages, sorted by seq, are sorted by epoch, and no two of  *)
(* them share a seq, through any number of removals and readmissions.      *)
THEOREM MessagesFollowEpochsHolds == Spec => []MessagesFollowEpochs
<1>1. LogInv => MessagesFollowEpochs
  BY DEF LogInv
<1> QED
  BY <1>1, LogAlways, PTL

(* A signature a step adds to `landed' is the one the step consumed.       *)
LEMMA Consumed ==
  ASSUME NEW sig, CheckOwnerSig(sig), NEW s \in landed' \ landed
  PROVE  s = sig /\ now <= s.deadline
BY DEF CheckOwnerSig

LEMMA AdmitsRequester ==
  ASSUME TypeOK, NEW id \in RequestId, AdmitRequester(id)
  PROVE  Active' \ Active = {joinRequests[id].requester}
<1> DEFINE a == joinRequests[id].requester
<1>1. a \in Account
  BY TypeAdmit
<1>2. /\ members'[a] = [active |-> TRUE, pubkey |-> joinRequests[id].pubkey,
                        joinedEpoch |-> currentEpoch]
      /\ \A b \in Account : b # a => members'[b] = members[b]
      /\ a \notin Active
  BY <1>1 DEF AdmitRequester, TypeOK, Active
<1> QED
  BY <1>1, <1>2 DEF Active

LEMMA DropsMember ==
  ASSUME TypeOK, NEW m \in Account, DropMember(m)
  PROVE  Active \ Active' = {m}
<1>1. members[m] \in Member /\ m \in Active
  BY DEF TypeOK, DropMember, Active
<1>2. /\ members'[m] = [members[m] EXCEPT !.active = FALSE]
      /\ \A a \in Account : a # m => members'[a] = members[a]
  BY DEF TypeOK, DropMember
<1>3. ~members'[m].active
  BY <1>1, <1>2, Zenon DEF Member
<1> QED
  BY <1>1, <1>2, <1>3 DEF Active

(* A rotation adds an event of its own: no earlier one carries its epoch.  *)
LEMMA RotationLogged ==
  ASSUME LogInv, NEW e \in Epoch, NEW b \in Ref, NEW h \in Hash, NEW v \in Nat,
         AdvanceEpoch(e, b, h, v)
  PROVE  \E r \in events' \ events : r.type = "EpochRotated" /\ r.hash = h
<1> DEFINE new == [type |-> "EpochRotated", epoch |-> e, bundle |-> b, hash |-> h,
                   version |-> membershipVersion]
<1>1. TypeOK /\ e > currentEpoch /\ e \in Int /\ currentEpoch \in Int
  BY DEF LogInv, TypeOK, AdvanceEpoch, Later, Epoch
<1>2. new \notin events
  <2>1. ASSUME new \in events PROVE new.epoch <= currentEpoch
    BY <2>1 DEF LogInv, EventsOf
  <2> QED
    BY <1>1, <2>1
<1> QED
  BY <1>2 DEF AdvanceEpoch, Emit

LEMMA BindsAsSigned ==
  ASSUME LogInv, [Next]_vars, NEW s \in landed' \ landed
  PROVE  now <= s.deadline /\ DoesAsSigned(s.intent)
<1>1. TypeOK /\ signed \subseteq Signature
  BY DEF LogInv, TypeOK
<1>2. PICK sig \in signed :
        \/ ApproveJoinWithSig(sig)
        \/ RejectJoinWithSig(sig)
        \/ RemoveMemberWithSig(sig)
        \/ SetTreasuryWithSig(sig)
        \/ \E b \in Ref, v \in Version : RotateEpochWithSig(sig, b, v)
        \/ RequestBackupWithSig(sig)
  <2>1. landed' # landed
    OBVIOUS
  <2>2. ASSUME NEW c \in Account, MembershipCalls(c) \/ FundingCalls(c)
        PROVE  UNCHANGED landed
    BY <2>2 DEF signing, MembershipCalls, RequestJoin, ApproveJoin, RejectJoin, CancelJoin,
                RemoveMember, FundingCalls, SetTreasury, RequestFunds, CancelFundRequest,
                MarkFundRequestApproved, MarkFundRequestRejected, ResolveFunds
  <2>3. ASSUME NEW c \in Account, EpochCalls(c) \/ PublishingCalls(c) \/ PauseCalls(c)
        PROVE  UNCHANGED landed
    BY <2>3 DEF signing, EpochCalls, RotateEpoch, GrantHistoricalKeys, RequestBackup,
                RequestEpochKey, RequestRekey, PublishingCalls, UpdateMemberFileMapping,
                PostMessage, UpdateAgentManifest, PauseCalls, Pause, Unpause, SetPaused
  <2>4. ~UNCHANGED vars
    BY <2>1 DEF vars, signing
  <2>5. SignedCalls
    BY <2>1, <2>2, <2>3, <2>4 DEF Next
  <2>6. ~Tick /\ ~\E intent \in Intent : OwnerSigns(intent)
    BY <2>1 DEF Tick, OwnerSigns
  <2> QED
    BY <2>5, <2>6 DEF SignedCalls
<1>3. CheckOwnerSig(sig)
  BY <1>2 DEF ApproveJoinWithSig, RejectJoinWithSig, RemoveMemberWithSig, SetTreasuryWithSig,
              RotateEpochWithSig, RequestBackupWithSig
<1>4. s = sig /\ now <= s.deadline
  BY <1>3, Consumed
<1>5. sig.intent \in Intent
  BY <1>1 DEF Signature
<1>6. CASE ApproveJoinWithSig(sig)
  <2>1. sig.intent.op = "ApproveJoin" /\ sig.intent.requestId \in RequestId
    BY <1>5, <1>6 DEF ApproveJoinWithSig, Signs, Intent
  <2>2. Active' \ Active = {sig.intent.requester}
    BY <1>1, <1>6, <2>1, AdmitsRequester DEF ApproveJoinWithSig, NamedRequester
  <2> QED
    BY <1>4, <2>1, <2>2 DEF DoesAsSigned
<1>7. CASE RejectJoinWithSig(sig)
  <2> DEFINE id == sig.intent.requestId
  <2>1. sig.intent.op = "RejectJoin" /\ id \in RequestId
    BY <1>5, <1>7 DEF RejectJoinWithSig, Signs, Intent
  <2>2. /\ PendingJoin(id) /\ joinRequests[id].requester = sig.intent.requester
        /\ joinRequests'[id] = [joinRequests[id] EXCEPT !.status = "rejected"]
        /\ members' = members
    BY <1>1, <1>7, <2>1 DEF RejectJoinWithSig, RefuseRequester, ResolveJoin, NamedRequester, TypeOK
  <2>3. joinRequests'[id].status = "rejected" /\ Active' = Active
    BY <1>1, <2>1, <2>2 DEF TypeOK, JoinRequest, Active
  <2> QED
    BY <1>4, <2>1, <2>2, <2>3 DEF DoesAsSigned
<1>8. CASE RemoveMemberWithSig(sig)
  <2>1. sig.intent.op = "RemoveMember" /\ sig.intent.member \in Account
    BY <1>5, <1>8 DEF RemoveMemberWithSig, Signs, Intent
  <2>2. Active \ Active' = {sig.intent.member}
    BY <1>1, <1>8, <2>1, DropsMember DEF RemoveMemberWithSig
  <2> QED
    BY <1>4, <2>1, <2>2 DEF DoesAsSigned
<1>9. CASE SetTreasuryWithSig(sig)
  BY <1>4, <1>9 DEF SetTreasuryWithSig, Signs, BindTreasury, DoesAsSigned
<1>10. ASSUME NEW ref \in Ref, NEW v \in Version, RotateEpochWithSig(sig, ref, v)
       PROVE  now <= s.deadline /\ DoesAsSigned(s.intent)
  <2>1. /\ sig.intent.op = "RotateEpoch" /\ sig.intent.toEpoch \in Epoch
        /\ sig.intent.hash \in Hash /\ v \in Nat
    BY <1>5, <1>10, BoundAssumption DEF RotateEpochWithSig, Signs, Intent, Version
  <2>2. AdvanceEpoch(sig.intent.toEpoch, ref, sig.intent.hash, v)
    BY <1>10 DEF RotateEpochWithSig
  <2>3. \E r \in events' \ events : r.type = "EpochRotated" /\ r.hash = sig.intent.hash
    BY <2>1, <2>2, RotationLogged
  <2>4. currentEpoch = sig.intent.fromEpoch /\ currentEpoch' = sig.intent.toEpoch
    BY <1>10 DEF RotateEpochWithSig, AdvanceEpoch
  <2> QED
    BY <1>4, <2>1, <2>3, <2>4 DEF DoesAsSigned
<1>11. CASE RequestBackupWithSig(sig)
  BY <1>4, <1>11 DEF RequestBackupWithSig, Signs, AskBackup, DoesAsSigned
<1> QED
  BY <1>2, <1>6, <1>7, <1>8, <1>9, <1>10, <1>11

(* A signed intent that lands is not late and does what its signed fields  *)
(* say, whatever happened to the swarm between the signing and the landing:*)
(* a rotation moves between the signed epochs and logs the signed content  *)
(* hash, with a reference and a version the submitter chose.               *)
THEOREM SignedIntentsBindHolds == Spec => SignedIntentsBind
<1>1. ASSUME LogInv, [Next]_vars
      PROVE  [\A s \in landed' \ landed : now <= s.deadline /\ DoesAsSigned(s.intent)]_vars
  BY <1>1, BindsAsSigned
<1> QED
  BY <1>1, LogAlways, PTL DEF Spec, SignedIntentsBind

-----------------------------------------------------------------------------
(* Requests.  The fund requests change in two ways only.                   *)
LEMMA FundingStep ==
  ASSUME TypeOK, [Next]_vars
  PROVE  \/ \E c \in Account, amount \in Amount : RequestFunds(c, amount)
         \/ \E id \in FundRequestId, status \in Status : ResolveFunds(id, status)
         \/ UNCHANGED funding
<1>1. CASE UNCHANGED vars
  BY <1>1 DEF vars
<1>2. ASSUME NEW c \in Account, MembershipCalls(c) PROVE UNCHANGED funding
  BY <1>2 DEF MembershipCalls, RequestJoin, ApproveJoin, AdmitRequester, RejectJoin,
              RefuseRequester, CancelJoin, RemoveMember, DropMember
<1>3. ASSUME NEW c \in Account, FundingCalls(c)
      PROVE  \/ \E amount \in Amount : RequestFunds(c, amount)
             \/ \E id \in FundRequestId, status \in Status : ResolveFunds(id, status)
             \/ UNCHANGED funding
  <2>1. {"approved", "rejected", "cancelled"} \subseteq Status
    BY DEF Status
  <2> QED
    BY <1>3, <2>1 DEF FundingCalls, SetTreasury, BindTreasury, CancelFundRequest,
                      MarkFundRequestApproved, MarkFundRequestRejected
<1>4. ASSUME NEW c \in Account, EpochCalls(c) PROVE UNCHANGED funding
  BY <1>4 DEF EpochCalls, RotateEpoch, AdvanceEpoch, GrantHistoricalKeys, RequestBackup,
              AskBackup, RequestEpochKey, RequestRekey, LogOnly
<1>5. ASSUME NEW c \in Account, PublishingCalls(c) \/ PauseCalls(c) PROVE UNCHANGED funding
  BY <1>5 DEF PublishingCalls, UpdateMemberFileMapping, PostMessage, UpdateAgentManifest,
              PauseCalls, Pause, Unpause, SetPaused
<1>6. ASSUME SignedCalls PROVE UNCHANGED funding
  BY <1>6 DEF SignedCalls, OwnerSigns, Tick, ApproveJoinWithSig, AdmitRequester,
              RejectJoinWithSig, RefuseRequester, RemoveMemberWithSig, DropMember,
              SetTreasuryWithSig, BindTreasury, RotateEpochWithSig, AdvanceEpoch,
              RequestBackupWithSig, AskBackup, LogOnly
<1> QED
  BY <1>1, <1>2, <1>3, <1>4, <1>5, <1>6 DEF Next

LEMMA JoinsDecidedOnce ==
  ASSUME TypeOK, [Next]_vars
  PROVE  DecidedOnce(joinRequests, joinRequests', nextRequestId - 1)
<1>1. /\ nextRequestId \in Nat
      /\ \A id \in 1..(nextRequestId - 1) :
           id \in RequestId /\ joinRequests[id] \in JoinRequest /\ id # nextRequestId
  BY BoundAssumption DEF TypeOK, RequestId
<1>2. \A r \in JoinRequest : r = [r EXCEPT !.status = r.status]
  BY DEF JoinRequest
<1>3. ASSUME \A id \in 1..(nextRequestId - 1) : joinRequests'[id] = joinRequests[id]
      PROVE  DecidedOnce(joinRequests, joinRequests', nextRequestId - 1)
  BY <1>1, <1>2, <1>3 DEF DecidedOnce
<1>4. ASSUME NEW c \in Account, NEW k \in Pubkey, RequestJoin(c, k)
      PROVE  \A id \in 1..(nextRequestId - 1) : joinRequests'[id] = joinRequests[id]
  BY <1>1, <1>4 DEF RequestJoin, TypeOK
<1>5. ASSUME NEW i \in RequestId, NEW status, PendingJoin(i), ResolveJoin(i, status)
      PROVE  DecidedOnce(joinRequests, joinRequests', nextRequestId - 1)
  <2>1. \A id \in RequestId : joinRequests'[id] =
          IF id = i THEN [joinRequests[i] EXCEPT !.status = status] ELSE joinRequests[id]
    BY <1>5 DEF ResolveJoin, TypeOK
  <2>2. joinRequests[i] \in JoinRequest /\ joinRequests[i].status = "pending"
    BY <1>5 DEF TypeOK, PendingJoin
  <2>3. joinRequests'[i] = [joinRequests[i] EXCEPT !.status = joinRequests'[i].status]
    BY <2>1, <2>2 DEF JoinRequest
  <2> QED
    BY <1>1, <1>2, <2>1, <2>2, <2>3 DEF DecidedOnce
<1> QED
  BY <1>3, <1>4, <1>5, MembershipStep DEF AdmitRequester, Refused, DropMember, membership

LEMMA FundsDecidedOnce ==
  ASSUME TypeOK, [Next]_vars
  PROVE  DecidedOnce(fundRequests, fundRequests', nextFundRequestId - 1)
<1>1. /\ nextFundRequestId \in Nat
      /\ \A id \in 1..(nextFundRequestId - 1) :
           id \in FundRequestId /\ fundRequests[id] \in FundRequest /\ id # nextFundRequestId
  BY BoundAssumption DEF TypeOK, FundRequestId
<1>2. \A r \in FundRequest : r = [r EXCEPT !.status = r.status]
  BY DEF FundRequest
<1>3. ASSUME \A id \in 1..(nextFundRequestId - 1) : fundRequests'[id] = fundRequests[id]
      PROVE  DecidedOnce(fundRequests, fundRequests', nextFundRequestId - 1)
  BY <1>1, <1>2, <1>3 DEF DecidedOnce
<1>4. ASSUME NEW c \in Account, NEW amount \in Amount, RequestFunds(c, amount)
      PROVE  \A id \in 1..(nextFundRequestId - 1) : fundRequests'[id] = fundRequests[id]
  BY <1>1, <1>4 DEF RequestFunds, TypeOK
<1>5. ASSUME NEW i \in FundRequestId, NEW status \in Status, ResolveFunds(i, status)
      PROVE  DecidedOnce(fundRequests, fundRequests', nextFundRequestId - 1)
  <2>1. \A id \in FundRequestId : fundRequests'[id] =
          IF id = i THEN [fundRequests[i] EXCEPT !.status = status] ELSE fundRequests[id]
    BY <1>5 DEF ResolveFunds, TypeOK
  <2>2. fundRequests[i] \in FundRequest /\ fundRequests[i].status = "pending"
    BY <1>5 DEF TypeOK, ResolveFunds, PendingFunds
  <2>3. fundRequests'[i] = [fundRequests[i] EXCEPT !.status = fundRequests'[i].status]
    BY <2>1, <2>2 DEF FundRequest
  <2> QED
    BY <1>1, <1>2, <2>1, <2>2, <2>3 DEF DecidedOnce
<1> QED
  BY <1>3, <1>4, <1>5, FundingStep DEF funding

(* A request keeps its requester, key and amount for ever and is decided   *)
(* once: direct call, signed call, requester and treasury race for it.     *)
THEOREM RequestsDecidedOnceHolds == Spec => RequestsDecidedOnce
<1>1. ASSUME TypeOK, [Next]_vars
      PROVE  [ /\ DecidedOnce(joinRequests, joinRequests', nextRequestId - 1)
               /\ DecidedOnce(fundRequests, fundRequests', nextFundRequestId - 1) ]_vars
  BY <1>1, JoinsDecidedOnce, FundsDecidedOnce
<1> QED
  BY <1>1, TypeCorrect, PTL DEF Spec, RequestsDecidedOnce

-----------------------------------------------------------------------------
(* The pause. *)
Frozen ==
    /\ UNCHANGED <<currentEpoch, membership, funding, publishing>>
    /\ \A e \in events' \ events : e.type = "RekeyRequested"
    /\ \A s \in landed' \ landed : s.intent.op = "SetTreasury"

(* Nothing that is frozen moves in a paused swarm, direct or signed; the   *)
(* treasury, the nonce its signature takes and rekey requests still may.   *)
THEOREM PauseFreezesHolds == Spec => PauseFreezes
<1>1. ASSUME paused, [Next]_vars PROVE Frozen
  <2> USE <1>1 DEF signing
  <2>1. CASE UNCHANGED vars
    BY <2>1 DEF vars, Frozen
  <2>2. ASSUME NEW c \in Account, MembershipCalls(c) PROVE FALSE
    BY <2>2 DEF MembershipCalls, RequestJoin, ApproveJoin, RejectJoin, CancelJoin, RemoveMember
  <2>3. ASSUME NEW c \in Account, FundingCalls(c) PROVE Frozen
    BY <2>3 DEF FundingCalls, SetTreasury, BindTreasury, RequestFunds, CancelFundRequest,
                MarkFundRequestApproved, MarkFundRequestRejected, ResolveFunds, Frozen
  <2>4. ASSUME NEW c \in Account, EpochCalls(c) PROVE Frozen
    <3>1. RequestRekey(c)
      BY <2>4 DEF EpochCalls, RotateEpoch, GrantHistoricalKeys, RequestBackup, RequestEpochKey
    <3> QED
      BY <3>1 DEF RequestRekey, LogOnly, Emit, Frozen
  <2>5. ASSUME NEW c \in Account, PublishingCalls(c) PROVE FALSE
    BY <2>5 DEF PublishingCalls, UpdateMemberFileMapping, PostMessage, UpdateAgentManifest
  <2>6. ASSUME NEW c \in Account, PauseCalls(c) PROVE Frozen
    BY <2>6 DEF PauseCalls, Pause, Unpause, SetPaused, Frozen
  <2>7. ASSUME SignedCalls PROVE Frozen
    <3>1. \/ \E intent \in Intent : OwnerSigns(intent)
          \/ Tick
          \/ \E sig \in signed : SetTreasuryWithSig(sig)
      BY <2>7 DEF SignedCalls, ApproveJoinWithSig, RejectJoinWithSig, RemoveMemberWithSig,
                  RotateEpochWithSig, RequestBackupWithSig
    <3> QED
      BY <3>1 DEF OwnerSigns, Tick, SetTreasuryWithSig, Signs, CheckOwnerSig, BindTreasury, Frozen
  <2> QED
    BY <2>1, <2>2, <2>3, <2>4, <2>5, <2>6, <2>7 DEF Next
<1>2. [Next]_vars => [paused /\ paused' => Frozen]_vars
  BY <1>1
<1> QED
  BY <1>2, PTL DEF Spec, PauseFreezes, Frozen

=============================================================================
