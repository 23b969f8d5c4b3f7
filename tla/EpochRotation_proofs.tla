------------------------ MODULE EpochRotation_proofs ------------------------
(***************************************************************************)
(* Theorems about epoch rotation for any number of accounts, keys, operator*)
(* machines, versions, uploads and faults.                                 *)
(***************************************************************************)
EXTENDS EpochRotation, SequenceTheorems, TLAPS

(* The command holds a key when it uploads, and a reference it holds is    *)
(* one that was given out.                                                 *)
SessionInv ==
    \A m \in Operator :
      /\ session[m].at = "upload" => session[m].key \in Key
      /\ session[m].bundle \in {0} \cup DOMAIN bundles

TypeInv == TypeOK /\ SessionInv

LEMMA IdleTyped ==
  /\ Idle \in Session
  /\ \A since \in Nat, unread \in SUBSET Account :
       [Idle EXCEPT !.at = "removals", !.unread = unread, !.since = since] \in Session
  /\ \A b \in Ref \cup {0} : [Idle EXCEPT !.at = "wait", !.bundle = b] \in Session
BY EpochAssumption DEF Idle, Session, Step, NoKey, Key

LEMMA TypeInit == Init => TypeInv
<1> SUFFICES ASSUME Init PROVE TypeInv
    OBVIOUS
<1>1. session \in [Operator -> Session] /\ \A m \in Operator : session[m] = Idle
  BY IdleTyped DEF Init
<1>2. keyStore \in [Machine -> [Epoch -> Key \cup {NoKey}]]
  BY DEF Init
<1>3. rosterAt \in Seq(SUBSET (Account \X Pubkey)) /\ Len(rosterAt) = version + 1
  BY DEF Init, RegistryInit
<1>4. bundles \in Seq(Bundle)
  BY DEF Init
<1>5. RegistryTypeOK /\ faults \in 0..MaxFaults
  BY EpochAssumption, FaultAssumption DEF Init, RegistryInit, RegistryTypeOK
<1>6. SessionInv
  BY <1>1 DEF SessionInv, Idle
<1> QED
  BY <1>1, <1>2, <1>3, <1>4, <1>5, <1>6 DEF Init, TypeInv, TypeOK

(* The registry's types, for the three operations the clients run against. *)
LEMMA TypeRegistry ==
  ASSUME RegistryTypeOK,
         \/ \E a \in Account, k \in Pubkey : Admit(a, k)
         \/ \E a \in Account : Expel(a)
         \/ \E e \in Epoch, b \in Ref : Rotate(e, b)
  PROVE  RegistryTypeOK'
BY DEF RegistryTypeOK, Admit, Expel, Rotate

LEMMA TypeChain ==
  ASSUME TypeInv, NEW a \in Account, (\E k \in Pubkey : JoinApproved(a, k)) \/ MemberRemoved(a)
  PROVE  TypeInv'
<1>1. RegistryTypeOK' /\ version' = version + 1
  BY TypeRegistry DEF TypeInv, TypeOK, JoinApproved, MemberRemoved, Admit, Expel
<1>2. /\ rosterAt' \in Seq(SUBSET (Account \X Pubkey)) /\ Len(rosterAt') = Len(rosterAt) + 1
  <2>1. roster' \in SUBSET (Account \X Pubkey)
    BY <1>1 DEF RegistryTypeOK
  <2>2. rosterAt' = Append(rosterAt, roster') /\ rosterAt \in Seq(SUBSET (Account \X Pubkey))
    BY DEF TypeInv, TypeOK, JoinApproved, MemberRemoved
  <2> QED
    BY <2>1, <2>2, AppendProperties
<1> QED
  BY <1>1, <1>2 DEF TypeInv, TypeOK, SessionInv, RegistryTypeOK, JoinApproved, MemberRemoved, clients

(* A step that moves one command and nothing else that is typed here.      *)
LEMMA TypeSession ==
  ASSUME TypeInv, NEW m \in Operator, NEW s \in Session, Continue(m, s),
         s.at # "upload", s.bundle \in {0} \cup DOMAIN bundles,
         UNCHANGED <<registry, logs, bundles, keyStore, generated, mempool>>,
         faults' \in 0..MaxFaults
  PROVE  TypeInv'
BY DEF TypeInv, TypeOK, SessionInv, RegistryTypeOK, Continue, registry, logs

LEMMA TypeReads ==
  ASSUME TypeInv, NEW m \in Operator,
         \/ QueryApproved(m) \/ QueryRemoved(m)
         \/ \E a \in Account : ReadMember(m, a)
         \/ \E e \in Epoch : ReadEpoch(m, e)
         \/ ReadVersion(m)
  PROVE  TypeInv'
<1>1. /\ session[m] \in Session /\ faults \in 0..MaxFaults /\ version \in Nat
      /\ approvedLog \subseteq Account /\ removedLog \subseteq Account
      /\ session[m].bundle \in {0} \cup DOMAIN bundles
  BY DEF TypeInv, TypeOK, SessionInv, RegistryTypeOK
<1>2. CASE QueryApproved(m)
  <2> DEFINE s == [Idle EXCEPT !.at = "removals", !.unread = approvedLog, !.since = version]
  <2>1. s \in Session /\ s.at = "removals" /\ s.bundle = 0
    BY <1>1, IdleTyped DEF Idle
  <2> QED
    BY <1>1, <1>2, <2>1, TypeSession DEF QueryApproved
<1>3. CASE QueryRemoved(m)
  <2> DEFINE s == [session[m] EXCEPT !.at = "members", !.removed = removedLog]
  <2>1. s \in Session /\ s.at = "members" /\ s.bundle = session[m].bundle
    BY <1>1 DEF Session, Step
  <2> QED
    BY <1>1, <1>3, <2>1, TypeSession DEF QueryRemoved
<1>4. ASSUME NEW a \in Account, ReadMember(m, a) PROVE TypeInv'
  <2> DEFINE new == IF a \in session[m].removed THEN {} ELSE {a} \X KeyOf(a)
             s == [session[m] EXCEPT !.unread = @ \ {a}, !.entries = @ \cup new]
  <2>1. new \subseteq Account \X Pubkey
    BY DEF KeyOf
  <2> HIDE DEF new
  <2>2. s \in Session /\ s.at = session[m].at /\ s.bundle = session[m].bundle
    BY <1>1, <2>1 DEF Session
  <2>3. Continue(m, s) /\ session[m].at = "members"
    BY <1>4 DEF ReadMember, At, new
  <2> QED
    BY <1>1, <1>4, <2>2, <2>3, TypeSession DEF ReadMember
<1>5. ASSUME NEW e \in Epoch, ReadEpoch(m, e) PROVE TypeInv'
  <2> DEFINE s == [session[m] EXCEPT !.at = "version", !.epoch = e]
  <2>1. s \in Session /\ s.at = "version" /\ s.bundle = session[m].bundle
    BY <1>1 DEF Session, Step
  <2> QED
    BY <1>1, <1>5, <2>1, TypeSession DEF ReadEpoch
<1>6. CASE ReadVersion(m)
  <2> DEFINE s == [session[m] EXCEPT !.at = "key", !.version = version]
  <2>1. s \in Session /\ s.at = "key" /\ s.bundle = session[m].bundle
    BY <1>1 DEF Session, Step
  <2> QED
    BY <1>1, <1>6, <2>1, TypeSession DEF ReadVersion
<1> QED
  BY <1>2, <1>3, <1>4, <1>5, <1>6

LEMMA TypeLoadKey ==
  ASSUME TypeInv, NEW m \in Operator, LoadKey(m)
  PROVE  TypeInv'
<1> DEFINE e == session[m].epoch
           key == IF Stored(m, e) THEN keyStore[m][e] ELSE generated + 1
           s == [session[m] EXCEPT !.at = "upload", !.key = key]
<1>1. /\ session[m] \in Session /\ e \in Epoch /\ m \in Machine /\ generated \in Nat
      /\ keyStore[m][e] \in Key \cup {NoKey}
  BY DEF TypeInv, TypeOK, Session, Machine
<1>2. key \in Key
  BY <1>1 DEF Stored, Key, NoKey
<1>3. Continue(m, s)
  BY DEF LoadKey
<1> HIDE DEF key
<1>4. s \in Session /\ s.at = "upload" /\ s.key = key /\ s.bundle = session[m].bundle
  BY <1>1, <1>2 DEF Session, Step
<1>5. session' \in [Operator -> Session] /\ SessionInv'
  BY <1>2, <1>3, <1>4 DEF LoadKey, Continue, TypeInv, TypeOK, SessionInv
<1>6. keyStore' \in [Machine -> [Epoch -> Key \cup {NoKey}]] /\ generated' \in Nat
  BY <1>1 DEF LoadKey, TypeInv, TypeOK, Key
<1> QED
  BY <1>5, <1>6 DEF LoadKey, TypeInv, TypeOK, RegistryTypeOK, registry, logs

LEMMA TypeUpload ==
  ASSUME TypeInv, NEW m \in Operator, Upload(m)
  PROVE  TypeInv'
<1> DEFINE s == session[m]
           b == [epoch |-> s.epoch, version |-> s.version, since |-> s.since,
                 key |-> s.key, entries |-> s.entries]
           t == [s EXCEPT !.at = "submit", !.bundle = Len(bundles) + 1]
<1>1. s \in Session /\ s.key \in Key /\ bundles \in Seq(Bundle)
  BY DEF Upload, At, TypeInv, TypeOK, SessionInv
<1>2. b \in Bundle
  BY <1>1 DEF Session, Bundle
<1>3. /\ bundles' \in Seq(Bundle) /\ Len(bundles') = Len(bundles) + 1
      /\ DOMAIN bundles \subseteq DOMAIN bundles' /\ Len(bundles) + 1 \in DOMAIN bundles'
  BY <1>1, <1>2 DEF Upload
<1>4. Len(bundles) + 1 \in Ref
  BY <1>1, UploadAssumption DEF Upload
<1>5. t \in Session /\ t.at = "submit" /\ t.bundle = Len(bundles) + 1
  BY <1>1, <1>4 DEF Session, Step
<1>6. session' \in [Operator -> Session] /\ SessionInv'
  BY <1>3, <1>5 DEF Upload, Continue, TypeInv, TypeOK, SessionInv
<1> QED
  BY <1>3, <1>6 DEF Upload, TypeInv, TypeOK, RegistryTypeOK, registry, logs

LEMMA TypeSubmit ==
  ASSUME TypeInv, NEW m \in Operator, Submit(m)
  PROVE  TypeInv'
<1> DEFINE s == session[m]
           tx == [epoch |-> s.epoch, bundle |-> s.bundle, version |-> s.version]
           w == [Idle EXCEPT !.at = "wait", !.bundle = s.bundle]
<1>1. s \in Session /\ s.bundle \in {0} \cup DOMAIN bundles
  BY DEF TypeInv, TypeOK, SessionInv
<1>2. HasRoot(s) => tx \in Transaction /\ tx.bundle \in DOMAIN bundles
  BY <1>1 DEF HasRoot, Transaction, Session
<1>3. /\ w \in Session /\ w.at = "wait" /\ w.bundle = s.bundle
      /\ Idle \in Session /\ Idle.at = "idle" /\ Idle.bundle = 0
  BY <1>1, IdleTyped DEF Session, Idle
<1>4. session' \in [Operator -> Session] /\ SessionInv'
  <2>1. Continue(m, w) \/ Continue(m, Idle)
    BY DEF Submit
  <2> QED
    BY <1>1, <1>3, <2>1 DEF Submit, Continue, TypeInv, TypeOK, SessionInv
<1>5. mempool' \subseteq Transaction /\ \A x \in mempool' : x.bundle \in DOMAIN bundles
  BY <1>2 DEF Submit, TypeInv, TypeOK
<1> QED
  BY <1>4, <1>5 DEF Submit, TypeInv, TypeOK, RegistryTypeOK, registry, logs

LEMMA TypeMine ==
  ASSUME TypeInv, NEW tx \in mempool, Mine(tx)
  PROVE  TypeInv'
<1>1. tx.epoch \in Epoch /\ tx.bundle \in Ref
  BY DEF TypeInv, TypeOK, Transaction
<1>2. RegistryTypeOK' /\ version' = version
  BY <1>1, TypeRegistry DEF Mine, TypeInv, TypeOK, RegistryTypeOK, registry, Rotate
<1>3. \A m \in Operator : session'[m] \in {Idle, session[m]}
  BY DEF Mine
<1>4. session' \in [Operator -> Session]
  <2>1. session' = [m \in Operator |->
                      IF At(m, "wait") /\ session[m].bundle = tx.bundle THEN Idle ELSE session[m]]
    BY DEF Mine
  <2> QED
    BY <2>1, IdleTyped DEF TypeInv, TypeOK
<1>5. SessionInv'
  BY <1>3 DEF Mine, TypeInv, SessionInv, Idle
<1> QED
  BY <1>2, <1>4, <1>5 DEF Mine, TypeInv, TypeOK, logs

LEMMA TypeFaults ==
  ASSUME TypeInv, NEW m \in Operator, UploadUnnamed(m) \/ Abort(m)
  PROVE  TypeInv'
<1>1. session[m] \in Session /\ faults' \in 0..MaxFaults
  BY FaultAssumption DEF TypeInv, TypeOK, UploadUnnamed, Abort
<1>2. CASE UploadUnnamed(m)
  <2> DEFINE s == [session[m] EXCEPT !.at = "submit", !.bundle = 0]
  <2>1. s \in Session /\ s.at = "submit" /\ s.bundle = 0
    BY <1>1 DEF Session, Step
  <2> QED
    BY <1>1, <1>2, <2>1, TypeSession DEF UploadUnnamed
<1>3. CASE Abort(m)
  <2>1. Idle \in Session /\ Idle.at = "idle" /\ Idle.bundle = 0
    BY IdleTyped DEF Idle
  <2> QED
    BY <1>1, <1>3, <2>1, TypeSession DEF Abort
<1> QED
  BY <1>2, <1>3

LEMMA TypeDecrypt ==
  ASSUME TypeInv, \A r \in rotations : r.bundle \in DOMAIN bundles,
         NEW a \in Account, DecryptBundle(a)
  PROVE  TypeInv'
<1>1. PICK r \in LastRotation :
        keyStore' = [keyStore EXCEPT ![a][r.epoch] = bundles[r.bundle].key]
  BY DEF DecryptBundle
<1>2. bundles[r.bundle] \in Bundle
  BY DEF TypeInv, TypeOK, LastRotation
<1>3. keyStore' \in [Machine -> [Epoch -> Key \cup {NoKey}]]
  BY <1>1, <1>2 DEF TypeInv, TypeOK, Bundle
<1> QED
  BY <1>3 DEF DecryptBundle, TypeInv, TypeOK, SessionInv, RegistryTypeOK, registry, logs

-----------------------------------------------------------------------------
(* Bundle i exists and says of itself that it is for epoch e and version v. *)
Says(i, e, v) == i \in DOMAIN bundles /\ bundles[i].epoch = e /\ bundles[i].version = v

(* RotationMatchesBundle is kept because it already holds of what is under *)
(* way: of every transaction in the mempool and every command about to     *)
(* submit one.                                                             *)
RotationInv ==
    /\ TypeInv
    /\ \A r \in rotations : Says(r.bundle, r.epoch, r.version)
    /\ \A tx \in mempool : Says(tx.bundle, tx.epoch, tx.version)
    /\ \A m \in Operator : At(m, "submit") /\ HasRoot(session[m]) =>
         Says(session[m].bundle, session[m].epoch, session[m].version)

LEMMA TypeNext ==
  ASSUME RotationInv, [Next]_vars
  PROVE  TypeInv'
<1>1. TypeInv /\ \A r \in rotations : r.bundle \in DOMAIN bundles
  BY DEF RotationInv, Says
<1>2. CASE UNCHANGED vars
  BY <1>1, <1>2 DEF vars, registry, logs, clients, TypeInv, TypeOK, SessionInv, RegistryTypeOK
<1> QED
  BY <1>1, <1>2, TypeChain, TypeReads, TypeLoadKey, TypeUpload, TypeSubmit, TypeMine, TypeFaults,
     TypeDecrypt DEF Next, Command

(* A command that does not come to "submit" leaves the invariant alone.    *)
LEMMA RotationSession ==
  ASSUME RotationInv, TypeInv', UNCHANGED <<rotations, bundles, mempool>>,
         \A m \in Operator : session'[m].at = "submit" /\ HasRoot(session'[m]) =>
           session'[m] = session[m]
  PROVE  RotationInv'
BY DEF RotationInv, Says, At, HasRoot

(* What appending does to the indices of a sequence. *)
LEMMA Grows ==
  ASSUME NEW S, NEW seq \in Seq(S), NEW x \in S
  PROVE  /\ \A i \in DOMAIN seq : i \in DOMAIN Append(seq, x) /\ Append(seq, x)[i] = seq[i]
         /\ DOMAIN Append(seq, x) = DOMAIN seq \cup {Len(seq) + 1}
         /\ Append(seq, x)[Len(seq) + 1] = x
         /\ Append(seq, x) \in Seq(S) /\ Len(Append(seq, x)) = Len(seq) + 1
<1>1. /\ Append(seq, x) \in Seq(S) /\ Len(Append(seq, x)) = Len(seq) + 1
      /\ \A i \in 1..Len(seq) : Append(seq, x)[i] = seq[i]
      /\ Append(seq, x)[Len(seq) + 1] = x
  BY AppendProperties
<1>2. Len(seq) \in Nat /\ DOMAIN seq = 1..Len(seq) /\ DOMAIN Append(seq, x) = 1..(Len(seq) + 1)
  BY <1>1, LenProperties
<1> QED
  BY <1>1, <1>2

LEMMA RotationUpload ==
  ASSUME RotationInv, TypeInv', NEW m \in Operator, Upload(m)
  PROVE  RotationInv'
<1> DEFINE s == session[m]
           b == [epoch |-> s.epoch, version |-> s.version, since |-> s.since,
                 key |-> s.key, entries |-> s.entries]
           t == [s EXCEPT !.at = "submit", !.bundle = Len(bundles) + 1]
<1>1. s \in Session /\ bundles \in Seq(Bundle) /\ session \in [Operator -> Session]
  BY DEF RotationInv, TypeInv, TypeOK
<1>2. b \in Bundle
  BY DEF RotationInv, TypeInv, TypeOK, SessionInv, Upload, At, Session, Bundle
<1>3. /\ bundles' = Append(bundles, b) /\ session' = [session EXCEPT ![m] = t]
      /\ UNCHANGED <<rotations, mempool>>
  BY DEF Upload, Continue, registry
<1>4. t.bundle = Len(bundles) + 1 /\ t.epoch = s.epoch /\ t.version = s.version
  BY <1>1 DEF Session
<1> HIDE DEF b, t
<1>5. /\ \A i \in DOMAIN bundles : i \in DOMAIN bundles' /\ bundles'[i] = bundles[i]
      /\ Len(bundles) + 1 \in DOMAIN bundles' /\ bundles'[Len(bundles) + 1] = b
  BY <1>1, <1>2, <1>3, Grows
<1>7. b.epoch = s.epoch /\ b.version = s.version
  BY DEF b
<1>8. ASSUME NEW i, NEW e, NEW v, Says(i, e, v) PROVE Says(i, e, v)'
  BY <1>5, <1>8 DEF Says
<1>9. ASSUME NEW o \in Operator, session'[o].at = "submit", HasRoot(session'[o])
      PROVE  /\ session'[o].bundle \in DOMAIN bundles'
             /\ bundles'[session'[o].bundle].epoch = session'[o].epoch
             /\ bundles'[session'[o].bundle].version = session'[o].version
  <2>1. CASE o = m
    <3>1. session'[o] = t
      BY <1>1, <1>3, <2>1
    <3> QED
      BY <1>4, <1>5, <1>7, <3>1
  <2>2. CASE o # m
    <3>1. session'[o] = session[o]
      BY <1>1, <1>3, <2>2
    <3>2. Says(session[o].bundle, session[o].epoch, session[o].version)
      BY <1>9, <3>1 DEF RotationInv, At
    <3> QED
      BY <1>5, <3>1, <3>2 DEF Says
  <2> QED
    BY <2>1, <2>2
<1> QED
  BY <1>3, <1>8, <1>9 DEF RotationInv, At, HasRoot, Says

LEMMA RotationNext ==
  ASSUME RotationInv, [Next]_vars
  PROVE  RotationInv'
<1>1. TypeInv' /\ session \in [Operator -> Session] /\ \A m \in Operator : session[m] \in Session
  BY TypeNext DEF RotationInv, TypeInv, TypeOK
<1>2. CASE UNCHANGED vars
  BY <1>1, <1>2, RotationSession DEF vars, registry, clients
<1>3. ASSUME NEW a \in Account,
             (\E k \in Pubkey : JoinApproved(a, k)) \/ MemberRemoved(a) \/ DecryptBundle(a)
      PROVE  RotationInv'
  BY <1>1, <1>3, RotationSession
     DEF JoinApproved, MemberRemoved, Admit, Expel, DecryptBundle, clients, registry
<1>4. ASSUME NEW m \in Operator,
             \/ QueryApproved(m) \/ QueryRemoved(m)
             \/ \E a \in Account : ReadMember(m, a)
             \/ \E e \in Epoch : ReadEpoch(m, e)
             \/ ReadVersion(m) \/ LoadKey(m) \/ UploadUnnamed(m) \/ Abort(m)
      PROVE  RotationInv'
  <2>1. /\ UNCHANGED <<rotations, bundles, mempool>>
        /\ \E s : Continue(m, s) /\ (s.at = "submit" => s.bundle = 0)
    <3>1. UNCHANGED <<rotations, bundles, mempool>>
      BY <1>4 DEF QueryApproved, QueryRemoved, ReadMember, ReadEpoch, ReadVersion, LoadKey,
                  UploadUnnamed, Abort, registry
    <3>2. CASE QueryApproved(m) \/ Abort(m)
      <4>1. /\ [Idle EXCEPT !.at = "removals", !.unread = approvedLog, !.since = version].at
                 = "removals"
            /\ Idle.at = "idle"
        BY DEF Idle
      <4> QED
        BY <3>1, <3>2, <4>1 DEF QueryApproved, Abort
    <3>3. ASSUME QueryRemoved(m) \/ (\E e \in Epoch : ReadEpoch(m, e)) \/ ReadVersion(m)
          PROVE  \E s : Continue(m, s) /\ s.at # "submit"
      <4>1. /\ \A r : [session[m] EXCEPT !.at = "members", !.removed = r].at = "members"
            /\ \A e : [session[m] EXCEPT !.at = "version", !.epoch = e].at = "version"
            /\ \A v : [session[m] EXCEPT !.at = "key", !.version = v].at = "key"
        BY <1>1 DEF Session
      <4> QED
        BY <3>3, <4>1 DEF QueryRemoved, ReadEpoch, ReadVersion
    <3>4. ASSUME LoadKey(m) \/ UploadUnnamed(m)
          PROVE  \E s : Continue(m, s) /\ (s.at = "submit" => s.bundle = 0)
      <4>1. /\ \A k : [session[m] EXCEPT !.at = "upload", !.key = k].at = "upload"
            /\ [session[m] EXCEPT !.at = "submit", !.bundle = 0].bundle = 0
        BY <1>1 DEF Session
      <4> QED
        BY <3>4, <4>1 DEF LoadKey, UploadUnnamed
    <3>5. ASSUME NEW a \in Account, ReadMember(m, a)
          PROVE  \E s : Continue(m, s) /\ s.at = "members"
      <4>1. session[m].at = "members"
        BY <3>5 DEF ReadMember, At
      <4> DEFINE s == [session[m] EXCEPT !.unread = @ \ {a},
                         !.entries = @ \cup (IF a \in session[m].removed THEN {} ELSE {a} \X KeyOf(a))]
      <4>2. s.at = session[m].at
        BY <1>1 DEF Session
      <4>3. Continue(m, s)
        BY <3>5 DEF ReadMember
      <4> QED
        BY <4>1, <4>2, <4>3
    <3> QED
      BY <1>4, <3>1, <3>2, <3>3, <3>4, <3>5
  <2> QED
    BY <1>1, <2>1, RotationSession DEF Continue, HasRoot
<1>5. ASSUME NEW m \in Operator, Upload(m) PROVE RotationInv'
  BY <1>1, <1>5, RotationUpload
<1>6. ASSUME NEW m \in Operator, Submit(m) PROVE RotationInv'
  <2> DEFINE s == session[m]
             tx == [epoch |-> s.epoch, bundle |-> s.bundle, version |-> s.version]
  <2>1. /\ UNCHANGED <<rotations, bundles>>
        /\ \/ mempool' = mempool
           \/ mempool' = mempool \cup {tx} /\ Says(tx.bundle, tx.epoch, tx.version)
    BY <1>6 DEF Submit, registry, RotationInv
  <2>2. session'[m].at # "submit" /\ \A o \in Operator \ {m} : session'[o] = session[o]
    <3>1. Idle.at # "submit" /\ [Idle EXCEPT !.at = "wait", !.bundle = s.bundle].at # "submit"
      BY DEF Idle
    <3> QED
      BY <1>1, <1>6, <3>1 DEF Submit, Continue
  <2> QED
    BY <1>1, <2>1, <2>2 DEF RotationInv, Says, At, HasRoot
<1>7. ASSUME NEW tx \in mempool, Mine(tx) PROVE RotationInv'
  <2>1. /\ UNCHANGED bundles
        /\ mempool' \subseteq mempool
        /\ \/ rotations' = rotations
           \/ /\ rotations' = rotations \cup
                   {[epoch |-> tx.epoch, bundle |-> tx.bundle, version |-> version]}
              /\ tx.version = version
    BY <1>7 DEF Mine, Accepted, Rotate, registry
  <2>2. \A m \in Operator : session'[m] = session[m] \/ session'[m].at = "idle"
    BY <1>7 DEF Mine, Idle
  <2>3. \A r \in rotations' : Says(r.bundle, r.epoch, r.version)
    BY <2>1 DEF RotationInv
  <2> QED
    BY <1>1, <2>1, <2>2, <2>3 DEF RotationInv, Says, At, HasRoot
<1> QED
  BY <1>2, <1>3, <1>4, <1>5, <1>6, <1>7 DEF Next, Command

LEMMA RotationAlways == Spec => []RotationInv
<1>1. Init => RotationInv
  BY TypeInit DEF Init, RegistryInit, RotationInv, At, Idle
<1>2. RotationInv /\ [Next]_vars => RotationInv'
  BY RotationNext
<1> QED
  BY <1>1, <1>2, PTL DEF Spec

(* Chain, key files, mempool and the running commands of every machine     *)
(* keep their types, and no transaction or log names a bundle that was     *)
(* never uploaded.                                                         *)
THEOREM RotationTypeCorrect == Spec => []TypeOK
<1>1. RotationInv => TypeOK
  BY DEF RotationInv, TypeInv
<1> QED
  BY <1>1, RotationAlways, PTL

(* Any rotation on chain points to a bundle made for its epoch and version, *)
(* with any number of operator machines, pending transactions and crashes. *)
THEOREM RotationMatchesBundleHolds == Spec => []RotationMatchesBundle
<1>1. RotationInv => RotationMatchesBundle
  BY DEF RotationInv, RotationMatchesBundle, Says
<1> QED
  BY <1>1, RotationAlways, PTL

-----------------------------------------------------------------------------
(* With one operator machine `op', its file for an epoch is written before *)
(* any bundle with that key exists and is never replaced, so every bundle  *)
(* ever made for the epoch, mined or not, wraps the key in that file, and  *)
(* no other machine holds another one.                                     *)
KeyInv(op) ==
    /\ \A i \in DOMAIN bundles : keyStore[op][bundles[i].epoch] = bundles[i].key
    /\ \A m \in Machine, e \in Epoch : keyStore[m][e] \in {NoKey, keyStore[op][e]}
    /\ At(op, "upload") => keyStore[op][session[op].epoch] = session[op].key

LEMMA BundleTyped ==
  ASSUME TypeInv
  PROVE  \A i \in DOMAIN bundles :
           /\ i \in 1..Len(bundles) /\ bundles[i] \in Bundle
           /\ bundles[i].epoch \in Epoch /\ bundles[i].version \in Nat /\ bundles[i].since \in Nat
           /\ bundles[i].key \in Key /\ bundles[i].key # NoKey
           /\ bundles[i].entries \subseteq Account \X Pubkey
<1>1. bundles \in Seq(Bundle)
  BY DEF TypeInv, TypeOK
<1>2. \A i \in DOMAIN bundles : i \in 1..Len(bundles) /\ bundles[i] \in Bundle
  BY <1>1, ElementOfSeq, LenProperties
<1> QED
  BY <1>2 DEF Bundle, Key, NoKey

(* Where a session step may lead when it neither uploads nor loads a key.  *)
LEMMA KeySession ==
  ASSUME NEW op \in Operator, KeyInv(op), UNCHANGED <<bundles, keyStore>>,
         session'[op].at = "upload" => session'[op] = session[op]
  PROVE  KeyInv(op)'
BY DEF KeyInv, At

LEMMA KeyLoad ==
  ASSUME NEW op \in Operator, RotationInv, KeyInv(op), LoadKey(op)
  PROVE  KeyInv(op)'
<1> DEFINE e == session[op].epoch
           key == IF Stored(op, e) THEN keyStore[op][e] ELSE generated + 1
           s == [session[op] EXCEPT !.at = "upload", !.key = key]
<1>1. /\ session[op] \in Session /\ e \in Epoch /\ op \in Machine
      /\ session \in [Operator -> Session]
      /\ keyStore \in [Machine -> [Epoch -> Key \cup {NoKey}]]
      /\ bundles \in Seq(Bundle)
  BY DEF RotationInv, TypeInv, TypeOK, Session, Machine
<1>2. /\ Continue(op, s)
      /\ keyStore' = IF Stored(op, e) THEN keyStore
                     ELSE [keyStore EXCEPT ![op][e] = generated + 1]
  BY DEF LoadKey
<1>3. /\ session'[op] = s /\ s.epoch = e /\ s.key = key
      /\ keyStore'[op][e] = key
      /\ \A m \in Machine, f \in Epoch : m # op \/ f # e => keyStore'[m][f] = keyStore[m][f]
  <2>1. keyStore'[op][e] = key
    BY <1>2, <1>1
  <2>2. \A m \in Machine, f \in Epoch : m # op \/ f # e => keyStore'[m][f] = keyStore[m][f]
    BY <1>2, <1>1
  <2> HIDE DEF key
  <2> QED
    BY <1>2, <1>1, <2>1, <2>2 DEF Continue, Session
<1>4. \A i \in DOMAIN bundles : bundles[i].epoch \in Epoch /\ bundles[i].key # NoKey
  BY BundleTyped DEF RotationInv
<1>5. \A f \in Epoch : keyStore[op][f] # NoKey => keyStore'[op][f] = keyStore[op][f]
  BY <1>1, <1>3 DEF Stored
<1>6. \A i \in DOMAIN bundles : keyStore'[op][bundles[i].epoch] = bundles[i].key
  BY <1>4, <1>5 DEF KeyInv
<1>7. \A m \in Machine, f \in Epoch : keyStore'[m][f] \in {NoKey, keyStore'[op][f]}
  BY <1>1, <1>3, <1>5 DEF KeyInv
<1>8. bundles' = bundles
  BY DEF LoadKey
<1>9. keyStore'[op][session'[op].epoch] = session'[op].key
  BY <1>3
<1> QED
  BY <1>6, <1>7, <1>8, <1>9 DEF KeyInv

LEMMA KeyUpload ==
  ASSUME NEW op \in Operator, RotationInv, KeyInv(op), Upload(op)
  PROVE  KeyInv(op)'
<1> DEFINE s == session[op]
           b == [epoch |-> s.epoch, version |-> s.version, since |-> s.since,
                 key |-> s.key, entries |-> s.entries]
           t == [s EXCEPT !.at = "submit", !.bundle = Len(bundles) + 1]
<1>1. /\ s \in Session /\ session \in [Operator -> Session] /\ bundles \in Seq(Bundle)
      /\ b \in Bundle
  BY DEF RotationInv, TypeInv, TypeOK, SessionInv, Upload, At, Session, Bundle
<1>2. /\ bundles' = Append(bundles, b) /\ session' = [session EXCEPT ![op] = t]
      /\ UNCHANGED keyStore /\ At(op, "upload")
  BY DEF Upload, Continue
<1>3. session'[op].at = "submit" /\ b.epoch = s.epoch /\ b.key = s.key
  BY <1>1, <1>2 DEF Session
<1> HIDE DEF b, t
<1>4. \A i \in DOMAIN bundles' : keyStore[op][bundles'[i].epoch] = bundles'[i].key
  BY <1>1, <1>2, <1>3, Grows DEF KeyInv
<1> QED
  BY <1>2, <1>3, <1>4 DEF KeyInv, At

LEMMA KeyDecrypt ==
  ASSUME NEW op \in Operator, RotationInv, KeyInv(op), NEW a \in Account, DecryptBundle(a)
  PROVE  KeyInv(op)'
<1>1. PICK r \in LastRotation :
        /\ ~Stored(a, r.epoch)
        /\ keyStore' = [keyStore EXCEPT ![a][r.epoch] = bundles[r.bundle].key]
  BY DEF DecryptBundle
<1>2. /\ r \in rotations /\ r.epoch \in Epoch /\ a \in Machine /\ op \in Machine
      /\ keyStore \in [Machine -> [Epoch -> Key \cup {NoKey}]]
      /\ bundles \in Seq(Bundle)
  BY DEF RotationInv, TypeInv, TypeOK, RegistryTypeOK, LastRotation, Machine
<1>3. /\ r.bundle \in DOMAIN bundles /\ bundles[r.bundle].epoch = r.epoch
      /\ bundles[r.bundle].key \in Key
  BY <1>2, BundleTyped DEF RotationInv, Says
<1>4. keyStore[op][r.epoch] = bundles[r.bundle].key
  BY <1>3 DEF KeyInv
<1>5. a # op
  BY <1>1, <1>3, <1>4 DEF Stored, Key, NoKey
<1>6. \A m \in Machine, f \in Epoch : keyStore'[m][f] =
        IF m = a /\ f = r.epoch THEN keyStore[op][f] ELSE keyStore[m][f]
  BY <1>1, <1>2, <1>4
<1>7. \A f \in Epoch : keyStore'[op][f] = keyStore[op][f]
  BY <1>2, <1>5, <1>6
<1>8. \A m \in Machine, f \in Epoch : keyStore'[m][f] \in {NoKey, keyStore'[op][f]}
  BY <1>2, <1>6, <1>7 DEF KeyInv
<1>9. /\ UNCHANGED <<bundles, session>>
      /\ \A i \in DOMAIN bundles : bundles[i].epoch \in Epoch
      /\ session[op].epoch \in Epoch
  BY <1>2, BundleTyped DEF DecryptBundle, RotationInv, TypeInv, TypeOK, Session
<1> QED
  BY <1>7, <1>8, <1>9 DEF KeyInv, At

LEMMA KeyNext ==
  ASSUME NEW op, Operator = {op}, RotationInv, KeyInv(op), [Next]_vars
  PROVE  KeyInv(op)'
<1>1. op \in Operator /\ session \in [Operator -> Session] /\ session[op] \in Session
  BY DEF RotationInv, TypeInv, TypeOK
<1>2. CASE UNCHANGED vars
  BY <1>1, <1>2, KeySession DEF vars, clients
<1>3. ASSUME NEW a \in Account, (\E k \in Pubkey : JoinApproved(a, k)) \/ MemberRemoved(a)
      PROVE  KeyInv(op)'
  BY <1>1, <1>3, KeySession DEF JoinApproved, MemberRemoved, clients
<1>4. ASSUME QueryApproved(op) \/ Abort(op) PROVE KeyInv(op)'
  <2>1. /\ [Idle EXCEPT !.at = "removals", !.unread = approvedLog, !.since = version].at # "upload"
        /\ Idle.at # "upload"
    BY DEF Idle
  <2> QED
    BY <1>1, <1>4, <2>1, KeySession DEF QueryApproved, Abort, Continue
<1>5. ASSUME \/ QueryRemoved(op) \/ \E e \in Epoch : ReadEpoch(op, e)
             \/ ReadVersion(op) \/ UploadUnnamed(op)
      PROVE  KeyInv(op)'
  <2>1. /\ \A r : [session[op] EXCEPT !.at = "members", !.removed = r].at # "upload"
        /\ \A e : [session[op] EXCEPT !.at = "version", !.epoch = e].at # "upload"
        /\ \A v : [session[op] EXCEPT !.at = "key", !.version = v].at # "upload"
        /\ [session[op] EXCEPT !.at = "submit", !.bundle = 0].at # "upload"
    BY <1>1 DEF Session
  <2> QED
    <3>1. session'[op].at # "upload"
      BY <1>1, <1>5, <2>1 DEF QueryRemoved, ReadEpoch, ReadVersion, UploadUnnamed, Continue
    <3>2. UNCHANGED <<bundles, keyStore>>
      BY <1>5 DEF QueryRemoved, ReadEpoch, ReadVersion, UploadUnnamed
    <3> QED
      BY <1>1, <3>1, <3>2, KeySession
<1>6. ASSUME NEW a \in Account, ReadMember(op, a) PROVE KeyInv(op)'
  <2> DEFINE s == [session[op] EXCEPT !.unread = @ \ {a},
                     !.entries = @ \cup (IF a \in session[op].removed THEN {} ELSE {a} \X KeyOf(a))]
  <2>1. s.at = session[op].at
    BY <1>1 DEF Session
  <2>2. session' = [session EXCEPT ![op] = s] /\ session[op].at = "members"
    BY <1>6 DEF ReadMember, Continue, At
  <2> HIDE DEF s
  <2>3. session'[op] = s
    BY <1>1, <2>2
  <2> QED
    BY <1>1, <1>6, <2>1, <2>2, <2>3, KeySession DEF ReadMember
<1>7. ASSUME Submit(op) PROVE KeyInv(op)'
  <2>1. Idle.at # "upload" /\ [Idle EXCEPT !.at = "wait", !.bundle = session[op].bundle].at # "upload"
    BY DEF Idle
  <2> QED
    BY <1>1, <1>7, <2>1, KeySession DEF Submit, Continue
<1>8. ASSUME NEW tx \in mempool, Mine(tx) PROVE KeyInv(op)'
  <2>1. session'[op] = session[op] \/ session'[op].at = "idle"
    BY <1>1, <1>8 DEF Mine, Idle
  <2> QED
    BY <1>1, <1>8, <2>1, KeySession DEF Mine
<1> QED
  BY <1>1, <1>2, <1>3, <1>4, <1>5, <1>6, <1>7, <1>8, KeyLoad, KeyUpload, KeyDecrypt
     DEF Next, Command

(* If the owner uses one machine, no key file ever contradicts a bundle of *)
(* its epoch on chain: not after crashes between key file and transaction, *)
(* not with stale transactions still pending, not on any member's machine. *)
THEOREM KeyStoreAgreesHolds ==
  ASSUME NEW op, Operator = {op}
  PROVE  Spec => []KeyStoreAgrees
<1>1. Init => KeyInv(op)
  BY DEF Init, KeyInv, At, Idle, Machine, NoKey
<1>2. RotationInv /\ KeyInv(op) /\ [Next]_vars => KeyInv(op)'
  BY KeyNext
<1>3. ASSUME RotationInv, KeyInv(op) PROVE KeyStoreAgrees
  <2> SUFFICES ASSUME NEW r \in rotations, NEW m \in Machine
               PROVE  keyStore[m][r.epoch] \in {NoKey, bundles[r.bundle].key}
      BY DEF KeyStoreAgrees
  <2>1. r.epoch \in Epoch /\ Says(r.bundle, r.epoch, r.version)
    BY <1>3 DEF RotationInv, TypeInv, TypeOK, RegistryTypeOK
  <2> QED
    BY <1>3, <2>1 DEF KeyInv, Says
<1>4. RotationInv /\ KeyInv(op) => KeyStoreAgrees
  BY <1>3
<1> QED
  BY <1>1, <1>2, <1>4, RotationAlways, PTL DEF Spec

-----------------------------------------------------------------------------
(* The window of a bundle.  H is the history of rosters, H[v + 1] the one  *)
(* at version v; it is only ever appended to.                              *)
Names(H, v)       == {x[1] : x \in H[v + 1]}
Departed(H, a, v) == a \in Names(H, v - 1) /\ a \notin Names(H, v)

(* What a command has read is explained by the versions from the one it    *)
(* started at up to `upto': entries were members then, accounts left out   *)
(* had departed by then, and a member throughout is entered, left out, or  *)
(* still to be read.                                                       *)
Reads(H, s, upto) ==
    /\ s.since <= upto /\ upto < Len(H)
    /\ \A entry \in s.entries : \E v \in s.since..upto : entry \in H[v + 1]
    /\ \A a \in s.removed : \E v \in 1..upto : Departed(H, a, v)
    /\ \A x \in Account \X Pubkey :
         (\A v \in s.since..upto : x \in H[v + 1])
           => x[1] \in s.unread \cup s.removed \/ x \in s.entries

(* The logs lag behind nothing: every member has a JoinApproved log, every *)
(* account in a MemberRemoved log departed at some version.                *)
HistoryInv ==
    /\ roster = rosterAt[version + 1]
    /\ \A x \in roster : x[1] \in approvedLog
    /\ \A a \in removedLog : \E v \in 1..version : Departed(rosterAt, a, v)

(* The window is open until the version is read and closed from then on.   *)
ReadInv ==
    \A m \in Operator : LET s == session[m] IN
      /\ s.at \in {"removals", "members", "version"} => Reads(rosterAt, s, version)
      /\ s.at \in {"key", "upload"} => Reads(rosterAt, s, s.version)
      /\ s.at = "removals" => s.removed = {}
      /\ s.at \in {"version", "key", "upload"} => s.unread = {}

EntriesOf(H, b) ==
    /\ b.since <= b.version /\ b.version < Len(H)
    /\ \A entry \in b.entries : \E v \in b.since..b.version : entry \in H[v + 1]
    /\ \A x \in Account \X Pubkey :
         /\ \A v \in b.since..b.version : x \in H[v + 1]
         /\ \A v \in 1..b.since : x[1] \in Names(H, v - 1) => x[1] \in Names(H, v)
         => x \in b.entries

WindowInv == HistoryInv /\ ReadInv /\ \A i \in DOMAIN bundles : EntriesOf(rosterAt, bundles[i])

History == Seq(SUBSET (Account \X Pubkey))

(* A grown history says the same of the past. *)
LEMMA PastStays ==
  ASSUME NEW H \in History, NEW R \in SUBSET (Account \X Pubkey), NEW upto \in Nat, upto < Len(H)
  PROVE  /\ \A v \in 0..upto : Append(H, R)[v + 1] = H[v + 1] /\ Names(Append(H, R), v) = Names(H, v)
         /\ \A a : \A v \in 1..upto : Departed(Append(H, R), a, v) <=> Departed(H, a, v)
<1>1. \A v \in 0..upto : Append(H, R)[v + 1] = H[v + 1]
  BY AppendProperties, LenProperties DEF History
<1>2. \A v \in 0..upto : Names(Append(H, R), v) = Names(H, v)
  BY <1>1 DEF Names
<1>3. \A a : \A v \in 1..upto : Departed(Append(H, R), a, v) <=> Departed(H, a, v)
  <2> SUFFICES ASSUME NEW a, NEW v \in 1..upto
               PROVE  Departed(Append(H, R), a, v) <=> Departed(H, a, v)
      OBVIOUS
  <2>1. v \in 0..upto /\ v - 1 \in 0..upto
    OBVIOUS
  <2> QED
    BY <1>2, <2>1 DEF Departed
<1> QED
  BY <1>1, <1>2, <1>3

LEMMA ReadsStay ==
  ASSUME NEW H \in History, NEW R \in SUBSET (Account \X Pubkey), NEW upto \in Nat,
         NEW s \in Session, Reads(H, s, upto)
  PROVE  /\ Reads(Append(H, R), s, upto)
         /\ upto + 1 = Len(H) => Reads(Append(H, R), s, upto + 1)
<1> DEFINE G == Append(H, R)
<1>1. /\ s.since \in Nat /\ s.since <= upto /\ upto < Len(H) /\ Len(G) = Len(H) + 1
      /\ Len(H) \in Nat
  BY AppendProperties, LenProperties DEF Reads, Session, History
<1>2. /\ \A v \in 0..upto : G[v + 1] = H[v + 1]
      /\ \A a : \A v \in 1..upto : Departed(G, a, v) <=> Departed(H, a, v)
  BY <1>1, PastStays
<1> HIDE DEF G
<1>3. \A v \in s.since..upto : v \in 0..upto
  BY <1>1
<1>4. \A entry \in s.entries : \E v \in s.since..upto : entry \in G[v + 1]
  BY <1>2, <1>3 DEF Reads
<1>5. \A a \in s.removed : \E v \in 1..upto : Departed(G, a, v)
  BY <1>2 DEF Reads
<1>6. \A x \in Account \X Pubkey :
        (\A v \in s.since..upto : x \in G[v + 1])
          => x[1] \in s.unread \cup s.removed \/ x \in s.entries
  BY <1>2, <1>3 DEF Reads
<1>7. Reads(G, s, upto)
  BY <1>1, <1>4, <1>5, <1>6 DEF Reads
<1>8. ASSUME upto + 1 = Len(H) PROVE Reads(G, s, upto + 1)
  <2>1. (s.since..upto) \subseteq (s.since..(upto + 1)) /\ (1..upto) \subseteq (1..(upto + 1))
    BY <1>1
  <2> QED
    BY <1>1, <1>4, <1>5, <1>6, <1>8, <2>1 DEF Reads
<1> QED
  BY <1>7, <1>8 DEF G

LEMMA EntriesStay ==
  ASSUME NEW H \in History, NEW R \in SUBSET (Account \X Pubkey), NEW b \in Bundle, EntriesOf(H, b)
  PROVE  EntriesOf(Append(H, R), b)
<1> DEFINE G == Append(H, R)
<1>1. /\ b.since \in Nat /\ b.version \in Nat /\ b.since <= b.version /\ b.version < Len(H)
      /\ Len(G) = Len(H) + 1 /\ Len(H) \in Nat
  BY AppendProperties, LenProperties DEF EntriesOf, Bundle, History
<1>2. \A v \in 0..b.version : G[v + 1] = H[v + 1] /\ Names(G, v) = Names(H, v)
  BY <1>1, PastStays
<1> HIDE DEF G
<1>3. /\ \A v \in b.since..b.version : v \in 0..b.version
      /\ \A v \in 1..b.since : v \in 0..b.version /\ v - 1 \in 0..b.version
  BY <1>1
<1>4. \A entry \in b.entries : \E v \in b.since..b.version : entry \in G[v + 1]
  BY <1>2, <1>3 DEF EntriesOf
<1>5. ASSUME NEW x \in Account \X Pubkey,
             \A v \in b.since..b.version : x \in G[v + 1],
             \A v \in 1..b.since : x[1] \in Names(G, v - 1) => x[1] \in Names(G, v)
      PROVE  x \in b.entries
  <2>1. \A v \in b.since..b.version : x \in H[v + 1]
    BY <1>2, <1>3, <1>5
  <2>2. \A v \in 1..b.since : x[1] \in Names(H, v - 1) => x[1] \in Names(H, v)
    BY <1>2, <1>3, <1>5
  <2> QED
    BY <2>1, <2>2 DEF EntriesOf
<1> QED
  BY <1>1, <1>4, <1>5 DEF EntriesOf, G

(* What a command has read when it uploads makes a bundle of its window: a *)
(* member throughout that was left out departed before the window opened.  *)
LEMMA ReadsToEntries ==
  ASSUME NEW H \in History, NEW s \in Session, Reads(H, s, s.version), s.unread = {},
         NEW b \in Bundle, b.since = s.since, b.version = s.version, b.entries = s.entries
  PROVE  EntriesOf(H, b)
<1>1. s.since \in Nat /\ s.version \in Nat /\ s.since <= s.version
  BY DEF Session, Reads
<1>2. ASSUME NEW x \in Account \X Pubkey,
             \A v \in s.since..s.version : x \in H[v + 1],
             \A v \in 1..s.since : x[1] \in Names(H, v - 1) => x[1] \in Names(H, v)
      PROVE  x \in s.entries
  <2>1. x[1] \in s.removed \/ x \in s.entries
    BY <1>2 DEF Reads
  <2>2. ASSUME NEW v \in 1..s.version, Departed(H, x[1], v) PROVE FALSE
    <3>1. CASE v <= s.since
      BY <1>1, <1>2, <2>2, <3>1 DEF Departed
    <3>2. CASE v > s.since
      <4>1. x \in H[v + 1]
        BY <1>1, <1>2, <3>2
      <4>2. x[1] \in Names(H, v)
        BY <4>1 DEF Names
      <4> QED
        BY <2>2, <4>2 DEF Departed
    <3> QED
      BY <1>1, <3>1, <3>2
  <2> QED
    BY <2>1, <2>2 DEF Reads
<1> QED
  BY <1>2 DEF Reads, EntriesOf

LEMMA WindowTypes ==
  ASSUME RotationInv
  PROVE  /\ rosterAt \in History /\ Len(rosterAt) = version + 1 /\ version \in Nat
         /\ roster \subseteq Account \X Pubkey
         /\ approvedLog \subseteq Account /\ removedLog \subseteq Account
         /\ session \in [Operator -> Session] /\ \A m \in Operator : session[m] \in Session
         /\ bundles \in Seq(Bundle) /\ \A i \in DOMAIN bundles : bundles[i] \in Bundle
<1>1. TypeInv
  BY DEF RotationInv
<1> QED
  BY <1>1, BundleTyped DEF TypeInv, TypeOK, RegistryTypeOK, History

(* A join or a removal appends the new roster to the history.              *)
LEMMA WindowChain ==
  ASSUME RotationInv, RotationInv', WindowInv, NEW a \in Account,
         (\E k \in Pubkey : JoinApproved(a, k)) \/ MemberRemoved(a)
  PROVE  WindowInv'
<1>1. /\ rosterAt \in History /\ Len(rosterAt) = version + 1 /\ version \in Nat
      /\ roster \subseteq Account \X Pubkey /\ roster' \in SUBSET (Account \X Pubkey)
      /\ \A m \in Operator : session[m] \in Session
      /\ \A i \in DOMAIN bundles : bundles[i] \in Bundle
  BY WindowTypes DEF RotationInv, TypeInv, TypeOK, RegistryTypeOK
<1>2. /\ version' = version + 1 /\ rosterAt' = Append(rosterAt, roster')
      /\ UNCHANGED <<session, bundles>>
  BY DEF JoinApproved, MemberRemoved, Admit, Expel, clients
<1>3. /\ rosterAt'[version' + 1] = roster' /\ rosterAt'[version + 1] = roster
      /\ Names(rosterAt', version') = {x[1] : x \in roster'}
      /\ Names(rosterAt', version) = {x[1] : x \in roster}
  BY <1>1, <1>2, AppendProperties DEF WindowInv, HistoryInv, History, Names
<1>4. \A c \in removedLog : \E v \in 1..version' : Departed(rosterAt', c, v)
  <2> SUFFICES ASSUME NEW c \in removedLog PROVE \E v \in 1..version' : Departed(rosterAt', c, v)
      OBVIOUS
  <2>1. PICK v \in 1..version : Departed(rosterAt, c, v)
    BY DEF WindowInv, HistoryInv
  <2>2. Departed(rosterAt', c, v)
    BY <1>1, <1>2, <2>1, PastStays
  <2> QED
    BY <1>1, <1>2, <2>2
<1>5. HistoryInv'
  <2>1. ASSUME NEW k \in Pubkey, JoinApproved(a, k) PROVE HistoryInv'
    <3>1. roster' = roster \cup {<<a, k>>} /\ approvedLog' = approvedLog \cup {a}
      BY <2>1 DEF JoinApproved, Admit
    <3>2. removedLog' = removedLog
      BY <2>1 DEF JoinApproved
    <3> QED
      BY <1>3, <1>4, <3>1, <3>2 DEF WindowInv, HistoryInv
  <2>2. ASSUME MemberRemoved(a) PROVE HistoryInv'
    <3>1. /\ roster' = roster \ ({a} \X Pubkey) /\ removedLog' = removedLog \cup {a}
          /\ approvedLog' = approvedLog /\ \E k \in Pubkey : <<a, k>> \in roster
      BY <2>2 DEF MemberRemoved, Expel, KeyOf
    <3>2. a \in Names(rosterAt', version) /\ a \notin Names(rosterAt', version')
      BY <1>1, <1>3, <3>1
    <3>3. Departed(rosterAt', a, version') /\ version' \in 1..version'
      BY <1>1, <1>2, <3>2 DEF Departed
    <3> QED
      BY <1>3, <1>4, <3>1, <3>3 DEF WindowInv, HistoryInv
  <2> QED
    BY <2>1, <2>2
<1>6. ReadInv'
  <2> SUFFICES ASSUME NEW m \in Operator
               PROVE  /\ session[m].at \in {"removals", "members", "version"} =>
                           Reads(rosterAt', session[m], version')
                      /\ session[m].at \in {"key", "upload"} =>
                           Reads(rosterAt', session[m], session[m].version)
      BY <1>2 DEF WindowInv, ReadInv
  <2>1. session[m].version \in Nat
    BY <1>1 DEF Session
  <2> QED
    BY <1>1, <1>2, <2>1, ReadsStay DEF WindowInv, ReadInv
<1>7. \A i \in DOMAIN bundles : EntriesOf(rosterAt', bundles[i])
  BY <1>1, <1>2, EntriesStay DEF WindowInv
<1> QED
  BY <1>2, <1>5, <1>6, <1>7 DEF WindowInv

(* What a session must satisfy on its own, for a step that moves only it. *)
SessionReads(s) ==
    /\ s.at \in {"removals", "members", "version"} => Reads(rosterAt, s, version)
    /\ s.at \in {"key", "upload"} => Reads(rosterAt, s, s.version)
    /\ s.at = "removals" => s.removed = {}
    /\ s.at \in {"version", "key", "upload"} => s.unread = {}

LEMMA WindowSession ==
  ASSUME WindowInv, UNCHANGED <<roster, version, logs, bundles>>,
         \A m \in Operator : session'[m] = session[m] \/ SessionReads(session'[m])
  PROVE  WindowInv'
BY DEF WindowInv, HistoryInv, ReadInv, SessionReads, logs

LEMMA WindowReads ==
  ASSUME RotationInv, WindowInv, NEW m \in Operator,
         \/ QueryApproved(m) \/ QueryRemoved(m)
         \/ \E a \in Account : ReadMember(m, a)
         \/ \E e \in Epoch : ReadEpoch(m, e)
         \/ ReadVersion(m) \/ LoadKey(m)
  PROVE  \E s : Continue(m, s) /\ SessionReads(s)
<1> DEFINE s == session[m]
<1>1. /\ rosterAt \in History /\ Len(rosterAt) = version + 1 /\ version \in Nat
      /\ roster \subseteq Account \X Pubkey /\ roster = rosterAt[version + 1]
      /\ s \in Session /\ s.since \in Nat /\ s.version \in Nat
      /\ SessionReads(s)
  BY WindowTypes DEF WindowInv, HistoryInv, ReadInv, Session, SessionReads
<1>2. CASE QueryApproved(m)
  <2> DEFINE t == [Idle EXCEPT !.at = "removals", !.unread = approvedLog, !.since = version]
  <2>1. /\ t.at = "removals" /\ t.unread = approvedLog /\ t.since = version
        /\ t.removed = {} /\ t.entries = {} /\ Continue(m, t)
    BY <1>2 DEF QueryApproved, Idle
  <2> HIDE DEF t
  <2>2. \A x \in Account \X Pubkey :
          (\A v \in t.since..version : x \in rosterAt[v + 1]) => x[1] \in t.unread
    BY <1>1, <2>1 DEF WindowInv, HistoryInv
  <2>3. Reads(rosterAt, t, version)
    BY <1>1, <2>1, <2>2 DEF Reads
  <2> QED
    BY <2>1, <2>3 DEF SessionReads
<1>3. CASE QueryRemoved(m)
  <2> DEFINE t == [s EXCEPT !.at = "members", !.removed = removedLog]
  <2>1. /\ t.at = "members" /\ t.unread = s.unread /\ t.since = s.since
        /\ t.removed = removedLog /\ t.entries = s.entries
        /\ Continue(m, t) /\ s.at = "removals"
    BY <1>1, <1>3 DEF QueryRemoved, At, Session
  <2> HIDE DEF t
  <2>2. Reads(rosterAt, s, version) /\ s.removed = {}
    BY <1>1, <2>1 DEF SessionReads
  <2>3. Reads(rosterAt, t, version)
    BY <2>1, <2>2 DEF Reads, WindowInv, HistoryInv
  <2> QED
    BY <2>1, <2>3 DEF SessionReads
<1>4. ASSUME NEW a \in Account, ReadMember(m, a) PROVE \E t : Continue(m, t) /\ SessionReads(t)
  <2> DEFINE new == IF a \in s.removed THEN {} ELSE {a} \X KeyOf(a)
             t == [s EXCEPT !.unread = @ \ {a}, !.entries = @ \cup new]
  <2>1. /\ t.at = "members" /\ t.unread = s.unread \ {a} /\ t.since = s.since
        /\ t.removed = s.removed /\ t.entries = s.entries \cup new
        /\ Continue(m, t) /\ s.at = "members"
    BY <1>1, <1>4 DEF ReadMember, At, Session
  <2>2. /\ new \subseteq roster
        /\ \A x \in roster : x[1] = a => a \in s.removed \/ x \in new
    BY <1>1 DEF KeyOf
  <2> HIDE DEF t, new
  <2>3. Reads(rosterAt, s, version)
    BY <1>1, <2>1 DEF SessionReads
  <2>4. s.since <= version /\ version \in s.since..version
    BY <1>1, <2>3 DEF Reads
  <2>5. \A entry \in t.entries : \E v \in t.since..version : entry \in rosterAt[v + 1]
    BY <1>1, <2>1, <2>2, <2>3, <2>4 DEF Reads
  <2>6. \A x \in Account \X Pubkey :
          (\A v \in t.since..version : x \in rosterAt[v + 1])
            => x[1] \in t.unread \cup t.removed \/ x \in t.entries
    BY <1>1, <2>1, <2>2, <2>3, <2>4 DEF Reads
  <2>7. Reads(rosterAt, t, version)
    BY <2>1, <2>3, <2>5, <2>6 DEF Reads
  <2> QED
    BY <2>1, <2>7 DEF SessionReads
<1>5. ASSUME NEW e \in Epoch, ReadEpoch(m, e) PROVE \E t : Continue(m, t) /\ SessionReads(t)
  <2> DEFINE t == [s EXCEPT !.at = "version", !.epoch = e]
  <2>1. /\ t.at = "version" /\ t.unread = s.unread /\ t.since = s.since
        /\ t.removed = s.removed /\ t.entries = s.entries
        /\ Continue(m, t) /\ s.at = "members" /\ s.unread = {}
    BY <1>1, <1>5 DEF ReadEpoch, At, AllRead, Session
  <2> HIDE DEF t
  <2>2. Reads(rosterAt, t, version)
    BY <1>1, <2>1 DEF SessionReads, Reads
  <2> QED
    BY <2>1, <2>2 DEF SessionReads
<1>6. CASE ReadVersion(m)
  <2> DEFINE t == [s EXCEPT !.at = "key", !.version = version]
  <2>1. /\ t.at = "key" /\ t.unread = s.unread /\ t.since = s.since
        /\ t.removed = s.removed /\ t.entries = s.entries /\ t.version = version
        /\ Continue(m, t) /\ s.at = "version"
    BY <1>1, <1>6 DEF ReadVersion, At, Session
  <2> HIDE DEF t
  <2>2. Reads(rosterAt, t, version)
    BY <1>1, <2>1 DEF SessionReads, Reads
  <2> QED
    BY <1>1, <2>1, <2>2 DEF SessionReads
<1>7. CASE LoadKey(m)
  <2>1. PICK k : Continue(m, [s EXCEPT !.at = "upload", !.key = k])
    BY <1>7 DEF LoadKey
  <2> DEFINE t == [s EXCEPT !.at = "upload", !.key = k]
  <2>2. /\ t.at = "upload" /\ t.unread = s.unread /\ t.since = s.since
        /\ t.removed = s.removed /\ t.entries = s.entries /\ t.version = s.version
        /\ Continue(m, t) /\ s.at = "key"
    BY <1>1, <1>7, <2>1 DEF LoadKey, At, Session
  <2> HIDE DEF t
  <2>3. Reads(rosterAt, t, t.version)
    BY <1>1, <2>2 DEF SessionReads, Reads
  <2> QED
    BY <1>1, <2>2, <2>3 DEF SessionReads
<1> QED
  BY <1>2, <1>3, <1>4, <1>5, <1>6, <1>7

LEMMA WindowUpload ==
  ASSUME RotationInv, WindowInv, NEW m \in Operator, Upload(m)
  PROVE  WindowInv'
<1> DEFINE s == session[m]
           b == [epoch |-> s.epoch, version |-> s.version, since |-> s.since,
                 key |-> s.key, entries |-> s.entries]
           t == [s EXCEPT !.at = "submit", !.bundle = Len(bundles) + 1]
<1>1. /\ s \in Session /\ session \in [Operator -> Session] /\ bundles \in Seq(Bundle)
      /\ rosterAt \in History
  BY WindowTypes
<1>2. b \in Bundle /\ b.since = s.since /\ b.version = s.version /\ b.entries = s.entries
  BY <1>1 DEF RotationInv, TypeInv, TypeOK, SessionInv, Upload, At, Session, Bundle
<1>3. /\ bundles' = Append(bundles, b) /\ Continue(m, t)
      /\ UNCHANGED <<roster, version, logs>> /\ s.at = "upload"
  BY DEF Upload, registry, At
<1>4. t.at = "submit"
  BY <1>1 DEF Session
<1> HIDE DEF b, t
<1>5. EntriesOf(rosterAt, b)
  BY <1>1, <1>2, <1>3, ReadsToEntries DEF WindowInv, ReadInv
<1>6. \A i \in DOMAIN bundles' : EntriesOf(rosterAt, bundles'[i])
  BY <1>1, <1>2, <1>3, <1>5, Grows DEF WindowInv
<1>7. ReadInv'
  BY <1>1, <1>3, <1>4 DEF WindowInv, ReadInv, Continue, logs
<1> QED
  BY <1>3, <1>6, <1>7 DEF WindowInv, HistoryInv, logs

LEMMA WindowNext ==
  ASSUME RotationInv, RotationInv', WindowInv, [Next]_vars
  PROVE  WindowInv'
<1>1. session \in [Operator -> Session] /\ \A m \in Operator : session[m] \in Session
  BY WindowTypes
<1>2. ASSUME NEW s, s.at \in {"idle", "submit", "wait"} PROVE SessionReads(s)
  BY <1>2 DEF SessionReads
<1>3. CASE UNCHANGED vars
  BY <1>3, WindowSession DEF vars, registry, clients
<1>4. ASSUME NEW m \in Operator, NEW s, Continue(m, s), SessionReads(s),
             UNCHANGED <<roster, version, logs, bundles>>
      PROVE  WindowInv'
  BY <1>1, <1>4, WindowSession DEF Continue
<1>5. ASSUME NEW m \in Operator,
             \/ QueryApproved(m) \/ QueryRemoved(m)
             \/ \E a \in Account : ReadMember(m, a)
             \/ \E e \in Epoch : ReadEpoch(m, e)
             \/ ReadVersion(m) \/ LoadKey(m)
      PROVE  WindowInv'
  <2>1. UNCHANGED <<roster, version, logs, bundles>>
    BY <1>5 DEF QueryApproved, QueryRemoved, ReadMember, ReadEpoch, ReadVersion, LoadKey, registry
  <2> QED
    BY <1>4, <1>5, <2>1, WindowReads
<1>6. ASSUME NEW m \in Operator, Submit(m) \/ UploadUnnamed(m) \/ Abort(m) PROVE WindowInv'
  <2>1. /\ Idle.at = "idle" /\ [Idle EXCEPT !.at = "wait", !.bundle = session[m].bundle].at = "wait"
        /\ [session[m] EXCEPT !.at = "submit", !.bundle = 0].at = "submit"
    BY <1>1 DEF Idle, Session
  <2>2. \E s : Continue(m, s) /\ s.at \in {"idle", "submit", "wait"}
    BY <1>6, <2>1 DEF Submit, UploadUnnamed, Abort
  <2>3. UNCHANGED <<roster, version, logs, bundles>>
    BY <1>6 DEF Submit, UploadUnnamed, Abort, registry
  <2> QED
    BY <1>2, <1>4, <2>2, <2>3
<1>7. ASSUME NEW tx \in mempool, Mine(tx) PROVE WindowInv'
  <2>1. \A m \in Operator : session'[m] = session[m] \/ session'[m].at = "idle"
    BY <1>7 DEF Mine, Idle
  <2>2. UNCHANGED <<roster, version, logs, bundles>>
    BY <1>7 DEF Mine, Rotate, registry
  <2> QED
    BY <1>2, <2>1, <2>2, WindowSession
<1>8. ASSUME NEW a \in Account, DecryptBundle(a) PROVE WindowInv'
  BY <1>8, WindowSession DEF DecryptBundle, registry
<1> QED
  BY <1>3, <1>5, <1>6, <1>7, <1>8, WindowChain, WindowUpload DEF Next, Command

(* However joins, removals and the reads of several commands interleave,   *)
(* each entry of a bundle was a member in the bundle's window, and a       *)
(* member throughout the window who was never removed is in the bundle.    *)
THEOREM EntriesFromWindowHolds == Spec => []EntriesFromWindow
<1>1. Init => WindowInv
  BY DEF Init, RegistryInit, WindowInv, HistoryInv, ReadInv, Idle
<1>2. RotationInv /\ RotationInv' /\ WindowInv /\ [Next]_vars => WindowInv'
  BY WindowNext
<1>3. WindowInv => EntriesFromWindow
  BY DEF WindowInv, EntriesOf, EntriesFromWindow, RosterIn, Names
<1> QED
  BY <1>1, <1>2, <1>3, RotationAlways, PTL DEF Spec
=============================================================================
