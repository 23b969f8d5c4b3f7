-------------------------- MODULE SwarmNames_proofs --------------------------
(***************************************************************************)
(* Theorems about what an organization publishes, for any labels,          *)
(* contracts, treasuries, sessions at the same time, failures and reads    *)
(* that fail.                                                              *)
(***************************************************************************)
EXTENDS SwarmNames, FiniteSetTheorems, SequenceTheorems, WellFoundedInduction, TLAPS

-----------------------------------------------------------------------------
(* Programs: what a run has left to do is the rest of one of them.         *)

Steps == {"probe", "deploy", "set subnode", "set addr", "set chainId", "set contract",
          "clear addr", "clear chainId", "clear contract", "clear subnode",
          "readList", "writeList", "check", "save", "archive", "unfile"}

\* The order of the steps of a run: what precedes what, what comes first or last.
Ordered(s, i) ==
    /\ s[i] = "readList" => i < Len(s) /\ s[i + 1] = "writeList"
    /\ s[i] = "writeList" /\ i > 1 => s[i - 1] = "readList"
    /\ s[i] = "probe" => i = 1 /\ Len(s) > 1 /\ s[2] = "deploy"
    /\ s[i] = "deploy" => i = 1 \/ (i = 2 /\ s[1] = "probe")
    /\ s[i] \in {"save", "check"} => i = Len(s)
InOrder(s) == s \in Seq(Steps) /\ \A i \in 1..Len(s) : Ordered(s, i)

SetStep == [subnode |-> "set subnode", addr |-> "set addr", chainId |-> "set chainId",
            contract |-> "set contract"]

\* Nothing is written before the swarm of the run is known.
Publication == StepsOf(BindSteps) \cup StepsOf(ListSteps)
Ahead(s) == StepsOf(s) \cap {"probe", "deploy"} # {} => Publication \subseteq StepsOf(s)

LEMMA Elements ==
    ASSUME NEW s \in Seq(Steps)
    PROVE  /\ Len(s) \in Nat /\ DOMAIN s = 1..Len(s)
           /\ \A i \in 1..Len(s) : s[i] \in Steps
           /\ \A x : x \in StepsOf(s) <=> \E i \in 1..Len(s) : s[i] = x
           /\ s # <<>> => Len(s) > 0 /\ Head(s) = s[1]
           /\ s = <<>> => Len(s) = 0
<1>1. Len(s) \in Nat /\ DOMAIN s = 1..Len(s) /\ \A i \in 1..Len(s) : s[i] \in Steps
  BY LenProperties
<1>2. s # <<>> => Len(s) > 0 /\ Head(s) = s[1]
  BY EmptySeq
<1> QED  BY <1>1, <1>2 DEF StepsOf

LEMMA Joined ==
    ASSUME NEW s, NEW t, InOrder(s), InOrder(t),
           StepsOf(s) \cap {"save", "check"} = {},
           StepsOf(t) \cap {"probe", "deploy"} = {}, t # <<>> => t[1] # "writeList"
    PROVE  InOrder(s \o t) /\ StepsOf(s \o t) = StepsOf(s) \cup StepsOf(t)
<1> DEFINE u == s \o t
<1>1. s \in Seq(Steps) /\ t \in Seq(Steps)
  BY DEF InOrder, Ordered
<1>2. /\ Len(s) \in Nat /\ Len(t) \in Nat
      /\ \A i \in 1..Len(s) : s[i] \notin {"save", "check"}
      /\ \A i \in 1..Len(t) : t[i] \notin {"probe", "deploy"}
      /\ t = <<>> => Len(t) = 0
  BY <1>1, Elements
<1>3. /\ u \in Seq(Steps) /\ Len(u) = Len(s) + Len(t)
      /\ \A i \in 1..Len(s) : u[i] = s[i]
      /\ \A i \in Len(s) + 1..Len(u) : u[i] = t[i - Len(s)] /\ i - Len(s) \in 1..Len(t)
  BY <1>1, <1>2, ConcatProperties
<1> HIDE DEF u
<1>4. ASSUME NEW i \in 1..Len(u)
      PROVE  /\ u[i] = "readList" => i < Len(u) /\ u[i + 1] = "writeList"
             /\ u[i] = "writeList" /\ i > 1 => u[i - 1] = "readList"
             /\ u[i] = "probe" => i = 1 /\ Len(u) > 1 /\ u[2] = "deploy"
             /\ u[i] = "deploy" => i = 1 \/ (i = 2 /\ u[1] = "probe")
             /\ u[i] \in {"save", "check"} => i = Len(u)
  <2>1. CASE i <= Len(s)
    <3>1. i \in 1..Len(s) /\ u[i] = s[i]
      BY <1>2, <1>3, <1>4, <2>1
    <3>2. u[i] = "readList" => i < Len(u) /\ u[i + 1] = "writeList"
      BY <1>2, <1>3, <3>1 DEF InOrder, Ordered
    <3>3. ASSUME u[i] = "writeList", i > 1 PROVE u[i - 1] = "readList"
      <4>1. i - 1 \in 1..Len(s)
        BY <1>2, <3>1, <3>3
      <4>2. s[i] = "writeList" => s[i - 1] = "readList"
        BY <3>1, <3>3 DEF InOrder, Ordered
      <4> QED  BY <1>3, <3>1, <3>3, <4>1, <4>2
    <3>4. u[i] = "probe" => i = 1 /\ Len(u) > 1 /\ u[2] = "deploy"
      BY <1>2, <1>3, <3>1 DEF InOrder, Ordered
    <3>5. u[i] = "deploy" => i = 1 \/ (i = 2 /\ u[1] = "probe")
      BY <1>2, <1>3, <3>1 DEF InOrder, Ordered
    <3> QED  BY <1>2, <3>1, <3>2, <3>3, <3>4, <3>5
  <2>2. CASE i > Len(s)
    <3>1. PICK k \in 1..Len(t) : k = i - Len(s) /\ u[i] = t[k]
      BY <1>2, <1>3, <1>4, <2>2
    <3>2. ASSUME u[i] = "readList" PROVE i < Len(u) /\ u[i + 1] = "writeList"
      <4>1. k < Len(t) /\ t[k + 1] = "writeList"
        BY <3>1, <3>2 DEF InOrder, Ordered
      <4>2. i + 1 \in Len(s) + 1..Len(u) /\ (i + 1) - Len(s) = k + 1
        BY <1>2, <1>3, <1>4, <3>1, <4>1
      <4> QED  BY <1>2, <1>3, <4>1, <4>2
    <3>3. ASSUME u[i] = "writeList", i > 1 PROVE u[i - 1] = "readList"
      <4>1. k > 1
        <5>1. k # 1
          <6>1. t # <<>>
            BY <1>2, <3>1
          <6> QED  BY <3>1, <3>3, <6>1
        <5> QED  BY <1>2, <3>1, <5>1
      <4>2. t[k - 1] = "readList"
        BY <3>1, <3>3, <4>1 DEF InOrder, Ordered
      <4>3. i - 1 \in Len(s) + 1..Len(u) /\ (i - 1) - Len(s) = k - 1
        BY <1>2, <1>3, <1>4, <3>1, <4>1
      <4> QED  BY <1>2, <1>3, <4>2, <4>3
    <3>4. ASSUME u[i] \in {"save", "check"} PROVE i = Len(u)
      <4>1. k = Len(t)
        BY <3>1, <3>4 DEF InOrder, Ordered
      <4> QED  BY <1>2, <1>3, <1>4, <3>1, <4>1
    <3>5. u[i] \notin {"probe", "deploy"}
      BY <1>2, <3>1
    <3> QED  BY <3>2, <3>3, <3>4, <3>5
  <2> QED  BY <2>1, <2>2, <1>2, <1>4
<1>5. InOrder(u)
  BY <1>3, <1>4 DEF InOrder, Ordered
<1>6. StepsOf(u) = StepsOf(s) \cup StepsOf(t)
  <2>1. ASSUME NEW x \in StepsOf(u) PROVE x \in StepsOf(s) \cup StepsOf(t)
    <3>1. PICK i \in 1..Len(u) : u[i] = x
      BY <1>3, <2>1, Elements
    <3>2. CASE i <= Len(s)
      <4>1. i \in 1..Len(s) /\ s[i] = x
        BY <1>2, <1>3, <3>1, <3>2
      <4> QED  BY <1>1, <4>1, Elements
    <3>3. CASE ~(i <= Len(s))
      <4>1. i - Len(s) \in 1..Len(t) /\ t[i - Len(s)] = x
        BY <1>2, <1>3, <3>1, <3>3
      <4>2. x \in StepsOf(t)
        BY <1>1, <4>1, Elements
      <4> QED  BY <4>2
    <3> QED  BY <3>2, <3>3
  <2>2. ASSUME NEW x \in StepsOf(s) PROVE x \in StepsOf(u)
    <3>1. PICK i \in 1..Len(s) : s[i] = x
      BY <1>1, <2>2, Elements
    <3>2. i \in 1..Len(u) /\ u[i] = x
      BY <1>2, <1>3, <3>1
    <3> QED  BY <1>3, <3>2, Elements
  <2>3. ASSUME NEW x \in StepsOf(t) PROVE x \in StepsOf(u)
    <3>1. PICK i \in 1..Len(t) : t[i] = x
      BY <1>1, <2>3, Elements
    <3>2. /\ i + Len(s) \in 1..Len(u) /\ i + Len(s) \in Len(s) + 1..Len(u)
          /\ (i + Len(s)) - Len(s) = i
      BY <1>2, <1>3
    <3>3. u[i + Len(s)] = x
      BY <1>3, <3>1, <3>2
    <3> QED  BY <1>3, <3>2, <3>3, Elements
  <2> QED  BY <2>1, <2>2, <2>3
<1> QED  BY <1>5, <1>6 DEF u

\* The blocks that the programs are put together from.
LEMMA Single ==
    ASSUME NEW x \in Steps \ {"readList", "writeList", "probe"}
    PROVE  InOrder(<<x>>) /\ StepsOf(<<x>>) = {x}
<1>1. PICK s : s = <<x>>
  OBVIOUS
<1>2. s \in Seq(Steps) /\ Len(s) = 1 /\ s[1] = x
  BY <1>1
<1>3. StepsOf(s) = {x}
  BY <1>2, Elements
<1>4. InOrder(s)
  BY <1>2 DEF InOrder, Ordered
<1> QED  BY <1>1, <1>3, <1>4

LEMMA Pair ==
    ASSUME NEW x \in Steps, NEW y \in Steps,
           \/ x = "readList" /\ y = "writeList"
           \/ x = "probe" /\ y = "deploy"
           \/ {x, y} \cap {"readList", "writeList", "probe", "deploy", "save", "check"} = {}
    PROVE  InOrder(<<x, y>>) /\ StepsOf(<<x, y>>) = {x, y} /\ <<x, y>>[1] = x
<1>1. PICK s : s = <<x, y>>
  OBVIOUS
<1>2. s \in Seq(Steps) /\ Len(s) = 2 /\ s[1] = x /\ s[2] = y
  BY <1>1
<1>3. \A i \in 1..2 : i = 1 \/ i = 2
  OBVIOUS
<1>4. StepsOf(s) = {x, y}
  BY <1>2, <1>3, Elements
<1>5. Ordered(s, 1) /\ Ordered(s, 2)
  <2>1. CASE x = "readList" /\ y = "writeList"
    BY <1>2, <2>1 DEF Ordered
  <2>2. CASE x = "probe" /\ y = "deploy"
    BY <1>2, <2>2 DEF Ordered
  <2>3. CASE {x, y} \cap {"readList", "writeList", "probe", "deploy", "save", "check"} = {}
    BY <1>2, <2>3 DEF Ordered
  <2> QED  BY <2>1, <2>2, <2>3
<1>6. InOrder(s)
  <2>1. \A i \in 1..Len(s) : Ordered(s, i)
    BY <1>2, <1>3, <1>5
  <2> QED  BY <1>2, <2>1 DEF InOrder
<1> QED  BY <1>1, <1>2, <1>4, <1>6

LEMMA Four ==
    ASSUME NEW x \in Steps, NEW y \in Steps, NEW z \in Steps, NEW w \in Steps,
           {x, y, z, w} \cap {"readList", "writeList", "probe", "deploy", "save", "check"} = {}
    PROVE  /\ InOrder(<<x, y, z, w>>) /\ StepsOf(<<x, y, z, w>>) = {x, y, z, w}
           /\ <<x, y, z, w>>[1] = x
<1>1. PICK s : s = <<x, y, z, w>>
  OBVIOUS
<1>2. s \in Seq(Steps) /\ Len(s) = 4 /\ s[1] = x /\ s[2] = y /\ s[3] = z /\ s[4] = w
  <2>1. s \in Seq(Steps)
    BY <1>1
  <2>2. Len(s) = 4
    BY <1>1
  <2>3. s[1] = x /\ s[2] = y
    BY <1>1
  <2>4. s[3] = z /\ s[4] = w
    BY <1>1
  <2> QED  BY <2>1, <2>2, <2>3, <2>4
<1>3. \A i \in 1..4 : i = 1 \/ i = 2 \/ i = 3 \/ i = 4
  OBVIOUS
<1>4. StepsOf(s) = {x, y, z, w}
  <2>1. s \in Seq(Steps) /\ Len(s) = 4
    BY <1>2
  <2>2. \A v : v \in StepsOf(s) <=> \E i \in 1..Len(s) : s[i] = v
    BY <2>1, Elements
  <2>3. \A v : v \in StepsOf(s) <=> \E i \in 1..4 : s[i] = v
    BY <2>1, <2>2
  <2> QED  BY <1>2, <1>3, <2>3
<1>5. \A i \in 1..Len(s) :
        s[i] \notin {"readList", "writeList", "probe", "deploy", "save", "check"}
  BY <1>2, <1>3
<1>6. InOrder(s)
  BY <1>2, <1>5 DEF InOrder, Ordered
<1> QED  BY <1>1, <1>2, <1>4, <1>6

LEMMA Blocks ==
    /\ InOrder(<<>>) /\ StepsOf(<<>>) = {}
    /\ InOrder(ListSteps) /\ StepsOf(ListSteps) = {"readList", "writeList"}
    /\ ListSteps[1] = "readList"
    /\ InOrder(BindSteps) /\ BindSteps[1] = "set subnode"
    /\ StepsOf(BindSteps) = {"set subnode", "set addr", "set chainId", "set contract"}
    /\ InOrder(UnbindSteps) /\ UnbindSteps[1] = "clear addr"
    /\ StepsOf(UnbindSteps) = {"clear addr", "clear chainId", "clear contract", "clear subnode"}
<1>1. InOrder(<<>>)
  BY DEF InOrder
<1>2. StepsOf(<<>>) = {}
  BY DEF StepsOf
<1>3. /\ {"readList", "writeList"} \subseteq Steps
      /\ {"set subnode", "set addr", "set chainId", "set contract"} \subseteq Steps
      /\ {"clear addr", "clear chainId", "clear contract", "clear subnode"} \subseteq Steps
  BY DEF Steps
<1>4. /\ InOrder(ListSteps) /\ StepsOf(ListSteps) = {"readList", "writeList"}
      /\ ListSteps[1] = "readList"
  BY <1>3, Pair DEF ListSteps
<1>5. /\ InOrder(BindSteps) /\ BindSteps[1] = "set subnode"
      /\ StepsOf(BindSteps) = {"set subnode", "set addr", "set chainId", "set contract"}
  <2>1. PICK x, y, z, w :
            x = "set subnode" /\ y = "set addr" /\ z = "set chainId" /\ w = "set contract"
    OBVIOUS
  <2>2. /\ x \in Steps /\ y \in Steps /\ z \in Steps /\ w \in Steps
        /\ {x, y, z, w} \cap {"readList", "writeList", "probe", "deploy", "save", "check"} = {}
    BY <2>1 DEF Steps
  <2>3. /\ InOrder(<<x, y, z, w>>) /\ <<x, y, z, w>>[1] = x
        /\ StepsOf(<<x, y, z, w>>) = {x, y, z, w}
    BY <2>2, Four
  <2>4. BindSteps = <<x, y, z, w>>
    BY <2>1 DEF BindSteps
  <2> QED  BY <2>1, <2>3, <2>4, Zenon
<1>6. /\ InOrder(UnbindSteps) /\ UnbindSteps[1] = "clear addr"
      /\ StepsOf(UnbindSteps) = {"clear addr", "clear chainId", "clear contract", "clear subnode"}
  <2>1. PICK x, y, z, w :
            x = "clear addr" /\ y = "clear chainId" /\ z = "clear contract" /\ w = "clear subnode"
    OBVIOUS
  <2>2. /\ x \in Steps /\ y \in Steps /\ z \in Steps /\ w \in Steps
        /\ {x, y, z, w} \cap {"readList", "writeList", "probe", "deploy", "save", "check"} = {}
    BY <2>1 DEF Steps
  <2>3. /\ InOrder(<<x, y, z, w>>) /\ <<x, y, z, w>>[1] = x
        /\ StepsOf(<<x, y, z, w>>) = {x, y, z, w}
    BY <2>2, Four
  <2>4. UnbindSteps = <<x, y, z, w>>
    BY <2>1 DEF UnbindSteps
  <2> QED  BY <2>1, <2>3, <2>4, Zenon
<1> QED  BY <1>1, <1>2, <1>4, <1>5, <1>6
-----------------------------------------------------------------------------
(* What is left after some steps.                                          *)

Rest(t, s, k) ==
    /\ t \in Seq(Steps) /\ Len(t) = Len(s) - k
    /\ \A i \in 1..Len(t) : t[i] = s[i + k]

LEMMA RestInOrder ==
    ASSUME NEW s, NEW t, NEW k \in Nat, InOrder(s), Rest(t, s, k)
    PROVE  /\ InOrder(t) /\ StepsOf(t) \subseteq StepsOf(s)
           /\ \A x \in StepsOf(s) : x \in StepsOf(t) \/ \E i \in 1..k : s[i] = x
           /\ t # <<>> => k + 1 \in 1..Len(s) /\ Head(t) = s[k + 1]
<1>1. s \in Seq(Steps) /\ Len(s) \in Nat /\ t \in Seq(Steps) /\ Len(t) \in Nat
  BY Elements DEF InOrder, Rest
<1>2. Len(t) = Len(s) - k /\ \A i \in 1..Len(t) : t[i] = s[i + k]
  BY DEF Rest
<1>3. \A i \in 1..Len(t) : i + k \in 1..Len(s)
  BY <1>1, <1>2
<1>4. ASSUME NEW i \in 1..Len(t) PROVE Ordered(t, i)
  <2>1. t[i] = s[i + k] /\ i + k \in 1..Len(s) /\ Ordered(s, i + k)
    BY <1>2, <1>3 DEF InOrder
  <2>2. ASSUME t[i] = "readList" PROVE i < Len(t) /\ t[i + 1] = "writeList"
    <3>1. i + k < Len(s) /\ s[(i + k) + 1] = "writeList"
      BY <2>1, <2>2 DEF Ordered
    <3>2. i + 1 \in 1..Len(t) /\ (i + 1) + k = (i + k) + 1
      BY <1>1, <1>2, <3>1
    <3> QED  BY <1>1, <1>2, <3>1, <3>2
  <2>3. ASSUME t[i] = "writeList", i > 1 PROVE t[i - 1] = "readList"
    <3>1. s[(i + k) - 1] = "readList"
      BY <2>1, <2>3 DEF Ordered
    <3>2. i - 1 \in 1..Len(t) /\ (i - 1) + k = (i + k) - 1
      BY <1>1, <2>3
    <3> QED  BY <1>2, <3>1, <3>2
  <2>4. ASSUME t[i] = "probe" PROVE i = 1 /\ Len(t) > 1 /\ t[2] = "deploy"
    <3>1. i + k = 1 /\ Len(s) > 1 /\ s[2] = "deploy"
      BY <2>1, <2>4 DEF Ordered
    <3>2. i = 1 /\ k = 0 /\ Len(t) > 1
      BY <1>1, <1>2, <3>1
    <3>3. t[2] = s[2 + 0]
      BY <1>1, <1>2, <3>2
    <3> QED  BY <3>1, <3>2, <3>3
  <2>5. ASSUME t[i] = "deploy" PROVE i = 1 \/ (i = 2 /\ t[1] = "probe")
    <3>1. i + k = 1 \/ (i + k = 2 /\ s[1] = "probe")
      BY <2>1, <2>5 DEF Ordered
    <3>2. i # 1 => i = 2 /\ k = 0 /\ t[1] = s[1 + 0] /\ s[1] = "probe"
      BY <1>1, <1>2, <3>1
    <3> QED  BY <3>2
  <2>6. ASSUME t[i] \in {"save", "check"} PROVE i = Len(t)
    <3>1. i + k = Len(s)
      BY <2>1, <2>6 DEF Ordered
    <3>2. i \in Nat /\ Len(t) = Len(s) - k
      BY <1>1, <1>2
    <3> QED  BY <1>1, <3>1, <3>2
  <2> QED  BY <2>2, <2>3, <2>4, <2>5, <2>6 DEF Ordered
<1>5. InOrder(t)
  BY <1>1, <1>4 DEF InOrder
<1>6. ASSUME NEW x \in StepsOf(t) PROVE x \in StepsOf(s)
  <2>1. PICK i \in 1..Len(t) : t[i] = x
    BY <1>1, <1>6, Elements
  <2>2. i + k \in 1..Len(s) /\ s[i + k] = x
    BY <1>2, <1>3, <2>1
  <2> QED  BY <1>1, <2>2, Elements
<1>7. ASSUME NEW x \in StepsOf(s) PROVE x \in StepsOf(t) \/ \E i \in 1..k : s[i] = x
  <2>1. PICK i \in 1..Len(s) : s[i] = x
    BY <1>1, <1>7, Elements
  <2>2. CASE i <= k
    BY <2>1, <2>2
  <2>3. CASE ~(i <= k)
    <3>1. i - k \in 1..Len(t) /\ (i - k) + k = i
      BY <1>1, <1>2, <2>3
    <3>2. t[i - k] = x
      BY <1>2, <2>1, <3>1
    <3> QED  BY <1>1, <3>1, <3>2, Elements
  <2> QED  BY <2>2, <2>3
<1>8. t # <<>> => k + 1 \in 1..Len(s) /\ Head(t) = s[k + 1]
  <2>1. t # <<>> => Len(t) > 0 /\ Head(t) = t[1]
    BY <1>1, Elements
  <2>2. t # <<>> => t[1] = s[1 + k] /\ 1 + k = k + 1 /\ k + 1 \in 1..Len(s)
    BY <1>1, <1>2, <2>1
  <2> QED  BY <2>1, <2>2
<1> QED  BY <1>5, <1>6, <1>7, <1>8

\* After one step.
LEMMA OneStep ==
    ASSUME NEW s, InOrder(s), s # <<>>
    PROVE  /\ InOrder(Tail(s))
           /\ StepsOf(Tail(s)) \subseteq StepsOf(s)
           /\ StepsOf(s) \subseteq StepsOf(Tail(s)) \cup {Head(s)}
           /\ Ahead(s) => Ahead(Tail(s))
           /\ Head(s) \in {"save", "check"} => Tail(s) = <<>>
           /\ Head(s) = "readList" => Tail(s) # <<>> /\ Head(Tail(s)) = "writeList"
           /\ Head(s) = "probe" => Tail(s) # <<>> /\ Head(Tail(s)) = "deploy"
           /\ Tail(s) # <<>> /\ Head(Tail(s)) = "writeList" => Head(s) = "readList"
           /\ Tail(s) # <<>> /\ Head(Tail(s)) = "deploy" => Head(s) = "probe"
           /\ Head(s) \in StepsOf(s) /\ "probe" \notin StepsOf(Tail(s))
           /\ "deploy" \in StepsOf(Tail(s)) => Head(s) = "probe"
<1> DEFINE t == Tail(s)
<1>1. s \in Seq(Steps) /\ Len(s) \in Nat /\ Len(s) > 0 /\ Head(s) = s[1] /\ Ordered(s, 1)
  BY Elements DEF InOrder
<1>2. /\ t \in Seq(Steps) /\ Len(t) = Len(s) - 1
      /\ \A i \in 1..Len(t) : t[i] = s[i + 1]
  BY <1>1, HeadTailProperties
<1> HIDE DEF t
<1>3. Rest(t, s, 1)
  BY <1>2 DEF Rest
<1>4. /\ InOrder(t) /\ StepsOf(t) \subseteq StepsOf(s)
      /\ \A x \in StepsOf(s) : x \in StepsOf(t) \/ \E i \in 1..1 : s[i] = x
      /\ t # <<>> => 2 \in 1..Len(s) /\ Head(t) = s[2]
  BY <1>3, RestInOrder
<1>5. StepsOf(s) \subseteq StepsOf(t) \cup {Head(s)}
  BY <1>1, <1>4
<1>6. /\ Head(s) \in {"save", "check"} => t = <<>>
      /\ Head(s) = "readList" => t # <<>> /\ Head(t) = "writeList"
      /\ Head(s) = "probe" => t # <<>> /\ Head(t) = "deploy"
  <2>1. /\ Head(s) \in {"save", "check"} => Len(s) = 1
        /\ Head(s) = "readList" => Len(s) > 1 /\ s[2] = "writeList"
        /\ Head(s) = "probe" => Len(s) > 1 /\ s[2] = "deploy"
    BY <1>1 DEF Ordered
  <2>2. Len(s) > 1 => t # <<>>
    BY <1>1, <1>2, Elements
  <2>3. Len(s) = 1 => t = <<>>
    BY <1>2, Elements
  <2> QED  BY <1>4, <2>1, <2>2, <2>3
<1>7. 2 \in 1..Len(s) => Ordered(s, 2)
  BY DEF InOrder
<1>8. t # <<>> => /\ Head(t) = "writeList" => Head(s) = "readList"
                  /\ Head(t) = "deploy" => Head(s) = "probe"
  BY <1>1, <1>4, <1>7 DEF Ordered
<1>9. Head(s) \in StepsOf(s)
  BY <1>1, Elements
<1>10. "probe" \notin StepsOf(t) /\ ("deploy" \in StepsOf(t) => Head(s) = "probe")
  <2>1. ASSUME NEW i \in 1..Len(t)
        PROVE  t[i] # "probe" /\ (t[i] = "deploy" => Head(s) = "probe")
    <3>1. i + 1 \in 1..Len(s) /\ t[i] = s[i + 1] /\ Ordered(s, i + 1) /\ i + 1 # 1
      BY <1>1, <1>2 DEF InOrder
    <3> QED  BY <1>1, <3>1 DEF Ordered
  <2> QED  BY <1>2, <2>1, Elements
<1>11. Ahead(s) => Ahead(t)
  <2>1. Publication \cap {"probe", "deploy"} = {}
    BY Blocks DEF Publication
  <2>2. SUFFICES ASSUME Ahead(s), StepsOf(t) \cap {"probe", "deploy"} # {}
                 PROVE  Publication \subseteq StepsOf(t)
    BY DEF Ahead
  <2>3. Head(s) = "probe"
    BY <1>10, <2>2
  <2>4. Publication \subseteq StepsOf(s)
    BY <1>9, <2>2, <2>3 DEF Ahead
  <2> QED  BY <1>5, <2>1, <2>3, <2>4
<1> QED  BY <1>4, <1>5, <1>6, <1>8, <1>9, <1>10, <1>11 DEF t
\* After two steps that belong together.
LEMMA TwoSteps ==
    ASSUME NEW s, InOrder(s), s # <<>>, Head(s) \in {"readList", "probe"}
    PROVE  /\ InOrder(Tail(Tail(s)))
           /\ StepsOf(Tail(Tail(s))) \subseteq StepsOf(s)
           /\ \A x \in StepsOf(s) : \/ x \in StepsOf(Tail(Tail(s))) \/ x = Head(s)
                                    \/ Head(s) = "readList" /\ x = "writeList"
                                    \/ Head(s) = "probe" /\ x = "deploy"
           /\ Ahead(s) => Ahead(Tail(Tail(s)))
           /\ Tail(Tail(s)) # <<>> => Head(Tail(Tail(s))) \notin {"writeList", "deploy"}
           /\ Head(s) \in StepsOf(s) /\ {"probe", "deploy"} \cap StepsOf(Tail(Tail(s))) = {}
<1> DEFINE t == Tail(s)
           u == Tail(t)
<1>1. /\ InOrder(t) /\ StepsOf(t) \subseteq StepsOf(s)
      /\ StepsOf(s) \subseteq StepsOf(t) \cup {Head(s)} /\ (Ahead(s) => Ahead(t))
      /\ t # <<>> /\ (Head(s) = "readList" => Head(t) = "writeList")
      /\ (Head(s) = "probe" => Head(t) = "deploy") /\ Head(s) \in StepsOf(s)
  BY OneStep
<1> HIDE DEF t
<1>2. /\ InOrder(u) /\ StepsOf(u) \subseteq StepsOf(t)
      /\ StepsOf(t) \subseteq StepsOf(u) \cup {Head(t)} /\ (Ahead(t) => Ahead(u))
      /\ u # <<>> /\ Head(u) = "writeList" => Head(t) = "readList"
      /\ u # <<>> /\ Head(u) = "deploy" => Head(t) = "probe"
      /\ "probe" \notin StepsOf(u) /\ ("deploy" \in StepsOf(u) => Head(t) = "probe")
  BY <1>1, OneStep
<1> HIDE DEF u
<1> QED  BY <1>1, <1>2 DEF t, u

LEMMA Greatest ==
    ASSUME NEW n \in Nat, NEW T \in SUBSET (1..n), T # {}
    PROVE  \E i \in T : \A j \in T : j <= i
<1> DEFINE U == {n - i : i \in T}
           R == OpToRel(<, Nat)
<1>1. U \subseteq Nat /\ U # {}
  <2>1. \A i \in T : n - i \in Nat
    OBVIOUS
  <2>2. PICK i \in T : TRUE
    OBVIOUS
  <2> QED  BY <2>1, <2>2
<1>2. \E x \in U : \A y \in U : <<y, x>> \notin R
  <2>1. IsWellFoundedOn(R, Nat)
    BY NatLessThanWellFounded
  <2> HIDE DEF R, U
  <2> QED  BY <1>1, <2>1, WFMin
<1>3. PICK x \in U : \A y \in U : <<y, x>> \notin R
  BY <1>2
<1>4. \A y \in U : ~(y < x)
  BY <1>1, <1>3 DEF OpToRel
<1>5. PICK i \in T : x = n - i
  BY <1>3
<1>6. \A j \in T : ~(n - j < n - i)
  BY <1>4, <1>5
<1> QED  BY <1>6
\* A run whose step failed goes on after the block of that step, or ends.
LEMMA RescuedRun ==
    ASSUME NEW r, InOrder(r.todo), r.todo # <<>>
    PROVE  /\ InOrder(Rescued(r)) /\ StepsOf(Rescued(r)) \subseteq StepsOf(r.todo)
           /\ r.op \notin {"create", "remove"} => Rescued(r) = <<>>
           /\ Rescued(r) # <<>> => /\ Head(r.todo) \notin {"deploy", "probe"}
                                   /\ Head(Rescued(r)) # "writeList"
           /\ {"probe", "deploy"} \cap StepsOf(Rescued(r)) = {}
<1> DEFINE s == r.todo
           block == UNION {b \in Caught(r.op) : Head(s) \in b}
           left == {i \in DOMAIN s : s[i] \in block}
           last == CHOOSE i \in left : \A j \in left : j <= i
           t == SubSeq(s, last + 1, Len(s))
<1>1. /\ s \in Seq(Steps) /\ Len(s) \in Nat /\ Len(s) > 0 /\ DOMAIN s = 1..Len(s)
      /\ Head(s) = s[1] /\ \A i \in 1..Len(s) : Ordered(s, i)
  BY Elements DEF InOrder
<1>2. /\ Caught(r.op) \subseteq {StepsOf(ListSteps), StepsOf(UnbindSteps)}
      /\ r.op \notin {"create", "remove"} => Caught(r.op) = {}
  BY DEF Caught
<1>3. Rescued(r) = IF block # {} THEN t ELSE <<>>
  BY DEF Rescued, When
<1>4. CASE block = {}
  <2>1. Rescued(r) = <<>>
    BY <1>3, <1>4
  <2> QED  BY <2>1, Blocks
<1>5. CASE block # {}
  <2>1. /\ r.op \in {"create", "remove"} /\ Head(s) \in block
        /\ block \in {StepsOf(ListSteps), StepsOf(UnbindSteps)}
    <3>1. PICK b \in Caught(r.op) : Head(s) \in b
      BY <1>5
    <3>2. \A c \in Caught(r.op) : Head(s) \in c => c = b
      <4>1. StepsOf(ListSteps) \cap StepsOf(UnbindSteps) = {}
        BY Blocks
      <4> QED  BY <1>2, <3>1, <4>1
    <3>3. block = b
      BY <3>1, <3>2
    <3> QED  BY <1>2, <3>1, <3>3
  <2> HIDE DEF block
  <2>2. last \in 1..Len(s) /\ s[last] \in block /\ \A j \in left : j <= last
    <3>1. left \in SUBSET (1..Len(s)) /\ 1 \in left
      BY <1>1, <2>1
    <3>2. \E i \in left : \A j \in left : j <= i
      BY <1>1, <3>1, Greatest
    <3>3. last \in left /\ \A j \in left : j <= last
      BY <3>2
    <3>4. \A i \in left : i \in 1..Len(s) /\ s[i] \in block
      BY <1>1
    <3> HIDE DEF left, last
    <3> QED  BY <3>3, <3>4
  <2>3. \A i \in 1..Len(s) : i > last => s[i] \notin block
    <3>1. \A j \in 1..Len(s) : s[j] \in block => j \in left
      BY <1>1
    <3> HIDE DEF left, last
    <3> QED  BY <1>1, <2>2, <3>1
  <2> HIDE DEF left, last
  <2>4. Rest(t, s, last)
    <3>1. \A i \in last + 1..Len(s) : s[i] \in Steps
      BY <1>1, <2>2, Elements
    <3>2. /\ t \in Seq(Steps)
          /\ Len(t) = IF last + 1 <= Len(s) THEN Len(s) - (last + 1) + 1 ELSE 0
          /\ \A i \in 1..Len(s) - (last + 1) + 1 : t[i] = s[(last + 1) + i - 1]
      BY <1>1, <2>2, <3>1, SubSeqProperties
    <3>3. Len(t) = Len(s) - last
      BY <1>1, <2>2, <3>2
    <3>4. ASSUME NEW i \in 1..Len(t) PROVE t[i] = s[i + last]
      <4>1. i \in 1..Len(s) - (last + 1) + 1 /\ (last + 1) + i - 1 = i + last
        BY <1>1, <2>2, <3>3
      <4> QED  BY <3>2, <4>1
    <3> QED  BY <3>2, <3>3, <3>4 DEF Rest
  <2> HIDE DEF t
  <2>5. /\ InOrder(t) /\ StepsOf(t) \subseteq StepsOf(s)
        /\ t # <<>> => last + 1 \in 1..Len(s) /\ Head(t) = s[last + 1]
    BY <1>1, <2>2, <2>4, RestInOrder
  <2>6. t # <<>> => Head(t) # "writeList"
    <3>1. SUFFICES ASSUME t # <<>>, Head(t) = "writeList" PROVE FALSE
      OBVIOUS
    <3>2. last + 1 \in 1..Len(s) /\ s[last + 1] = "writeList" /\ s[last + 1] \notin block
      BY <2>2, <2>3, <2>5, <3>1
    <3>3. s[last] = "readList"
      BY <1>1, <2>2, <3>2 DEF Ordered
    <3> QED  BY <2>1, <2>2, <3>2, <3>3, Blocks
  <2>7. Head(s) \notin {"probe", "deploy"}
    BY <2>1, Blocks
  <2>8. {"probe", "deploy"} \cap StepsOf(t) = {}
    <3>1. ASSUME NEW i \in 1..Len(t) PROVE t[i] \notin {"probe", "deploy"}
      <4>1. i + last \in 1..Len(s) /\ i + last # 1 /\ t[i] = s[i + last] /\ Ordered(s, i + last)
        BY <1>1, <2>2, <2>4 DEF Rest
      <4>2. s[1] # "probe"
        BY <1>1, <2>7
      <4> QED  BY <4>1, <4>2 DEF Ordered
    <3> QED  BY <2>4, <3>1, Elements DEF Rest
  <2> QED  BY <1>3, <1>5, <2>1, <2>5, <2>6, <2>7, <2>8
<1> QED  BY <1>4, <1>5
-----------------------------------------------------------------------------
(* The inductive invariant.                                                *)

RunSet == [op : Command \cup {"none"}, label : Label \cup {None},
           contract : Swarm \cup {None}, visibility : Visibility, list : SUBSET Label,
           stale : BOOLEAN, expects : Treasury \cup {None}, whole : BOOLEAN, todo : Seq(Steps)]

TypeInv ==
    /\ TypeOK
    /\ name \in [Label -> [Key -> Swarm \cup {None, Here}]]
    /\ profile \in [Label -> Profile \cup {None}]
    /\ archive \in [Label -> Profile \cup {None}]
    /\ run \in [Operator -> RunSet]
    /\ misreads \in Nat /\ clobbered \in BOOLEAN

Active(p) == run[p].todo # <<>>
Publishing(r) == r.op = "wizard" \/ (r.op = "create" /\ r.visibility = "public")
Undoing == StepsOf(UnbindSteps) \cup {"archive", "unfile"}

\* What the steps that are left say of the command.
Program(r) ==
    /\ InOrder(r.todo) /\ r.op \in Command /\ r.label \in Label
    /\ r.whole /\ Publishing(r) => Ahead(r.todo)
    /\ r.op \in {"create", "wizard"} => StepsOf(r.todo) \cap Undoing = {}
    /\ StepsOf(r.todo) \cap {"probe", "check"} # {} => r.op = "wizard"
    /\ "deploy" \in StepsOf(r.todo) => r.op \in {"create", "wizard"} /\ r.expects \in Treasury
    /\ "save" \in StepsOf(r.todo) => r.op \in {"create", "unpublish", "delist"}
    /\ StepsOf(r.todo) \cap {"archive", "unfile"} # {} => r.op = "remove"
    /\ StepsOf(r.todo) \cap StepsOf(BindSteps) # {} =>
         r.op \in {"create", "wizard", "lane"} /\ (r.op = "create" => r.visibility # "private")
    /\ r.op = "unpublish" => r.visibility = "private"
    /\ r.op = "create" /\ r.contract = None => "deploy" \in StepsOf(r.todo)

\* A swarm that a run is about exists, and so does the profile that it patches.
RunOf(p) ==
    Active(p) =>
        /\ Program(run[p])
        /\ run[p].contract \in Deployed \cup {None}
        /\ run[p].op \in {"unpublish", "delist"} => profile[run[p].label] # None

\* One run at a time on a swarm.
ApartInv ==
    \A p, q \in Operator : p # q /\ Active(p) /\ Active(q) => run[p].label # run[q].label

\* A list about to be written is the one that is recorded, unless it is known to be stale.
ListOf(p) ==
    (Active(p) /\ Head(run[p].todo) = "writeList" /\ ~run[p].stale)
        => run[p].list \subseteq listed /\ (run[p].list = listed \/ misreads > 0)

\* What a publishing run has behind it is in effect.
OnList(l) == l \in listed \/ clobbered \/ misreads > 0
DoneOf(p) ==
    (Active(p) /\ run[p].whole /\ Publishing(run[p])) =>
        LET r == run[p] IN
        /\ \A key \in Key :
             SetStep[key] \notin StepsOf(r.todo) => name[r.label][key] = Value(key, r.contract)
        /\ "writeList" \notin StepsOf(r.todo) => OnList(r.label)

PubOf(l) ==
    published[l] # None =>
        /\ ~Running(l) /\ OnList(l)
        /\ name[l] = [key \in Key |-> Value(key, published[l])]

\* A wizard deploys only for a name that claims nothing.
WizOf(p) ==
    (Active(p) /\ run[p].op = "wizard" /\ misreads = 0) =>
        LET r == run[p] IN
        /\ Head(r.todo) = "deploy" => Claimed(r.label) = {}
        /\ r.contract # None => Claimed(r.label) = {} \/ r.contract \in Claimed(r.label)

ProfInv == \A l \in Label : profile[l] # None => profile[l].contract \in Deployed

\* A profile without a name is a private one.
UnnamedOf(l) == profile[l] # None /\ ~profile[l].named => profile[l].visibility = "private"

\* What a retracting run has behind it is in effect.
Off(l) == l \notin listed \/ clobbered
ClearStep == [addr |-> "clear addr", contract |-> "clear contract"]

Retracts(r) ==
    LET f == profile[r.label] IN
    /\ r.op \in {"unpublish", "delist"} /\ f.named =>
         ("writeList" \notin StepsOf(r.todo) => Off(r.label))
    /\ r.op = "unpublish" /\ f.named =>
         \A key \in {"addr", "contract"} :
             ClearStep[key] \notin StepsOf(r.todo) => name[r.label][key] = None
    /\ r.op = "delist" => r.visibility = IF f.named THEN "semi-private" ELSE "private"
    /\ r.op = "lane" => f # None /\ f.named

RetractOf(p) == Active(p) => Retracts(run[p])

NamesInv ==
    /\ TypeInv /\ ApartInv /\ ProfInv
    /\ \A p \in Operator : RunOf(p) /\ ListOf(p) /\ DoneOf(p) /\ WizOf(p) /\ RetractOf(p)
    /\ \A l \in Label : PubOf(l) /\ UnnamedOf(l)

\* A step that goes on with the run of session p.
SameRun(r, q) ==
    /\ q.op = r.op /\ q.label = r.label /\ q.visibility = r.visibility
    /\ q.expects = r.expects

Onward(r, q) ==
    /\ SameRun(r, q) /\ InOrder(q.todo) /\ StepsOf(q.todo) \subseteq StepsOf(r.todo)
    /\ q.whole => r.whole /\ (Ahead(r.todo) => Ahead(q.todo))
    /\ q.op = "create" /\ q.contract = None /\ q.todo # <<>>
          => r.contract = None /\ ("deploy" \in StepsOf(r.todo) => "deploy" \in StepsOf(q.todo))

LEMMA Continues ==
    ASSUME NEW r, NEW q, Program(r), Onward(r, q), q.todo # <<>>
    PROVE  Program(q)
BY DEF Program, Onward, SameRun, Publishing

Moves(p) ==
    /\ Active(p) /\ run' \in [Operator -> RunSet]
    /\ Onward(run[p], run'[p])
    /\ \A q \in Operator \ {p} :
         /\ SameRun(run[q], run'[q]) /\ run'[q].contract = run[q].contract
         /\ run'[q].whole = run[q].whole
         /\ run'[q].todo = run[q].todo /\ run'[q].list = run[q].list

\* What it leaves alone: everything of the other swarms.
Elsewhere(p) ==
    LET l == run[p].label IN
    /\ \A m \in Label \ {l} :
         /\ name'[m] = name[m] /\ profile'[m] = profile[m] /\ published'[m] = published[m]
         /\ (OnList(m) => OnList(m)') /\ (Off(m) => Off(m)')
    /\ \A q \in Operator \ {p} : ~run'[q].stale /\ Active(q) => ~run[q].stale /\ listed' = listed
    /\ Deployed \subseteq Deployed' /\ (misreads' = 0 => misreads = 0)

\* What remains to be shown of it.
Own(p) ==
    LET l == run[p].label IN
    /\ TypeInv' /\ ProfInv'
    /\ run'[p].contract \in Deployed' \cup {None}
    /\ Active(p)' /\ run[p].op \in {"unpublish", "delist"} => profile'[l] # None
    /\ ListOf(p)' /\ DoneOf(p)' /\ WizOf(p)' /\ RetractOf(p)'
    /\ \A m \in {l} : UnnamedOf(m)'
    /\ \A m \in {l} : published'[m] # None =>
         ~Active(p)' /\ OnList(m)' /\ name'[m] = [key \in Key |-> Value(key, published'[m])]

LEMMA Onwards ==
    ASSUME NamesInv, NEW p \in Operator, Moves(p), Elsewhere(p), Own(p)
    PROVE  NamesInv'
<1> DEFINE l == run[p].label
<1>1. /\ run \in [Operator -> RunSet] /\ run' \in [Operator -> RunSet]
      /\ misreads \in Nat /\ misreads' \in Nat
  BY DEF NamesInv, TypeInv, Moves, Own
<1>2. RunOf(p) /\ Active(p) /\ l \in Label
  BY DEF NamesInv, Moves, RunOf, Program
<1>3. \A q \in Operator : Active(q)' => Active(q) /\ run'[q].label = run[q].label
  <2>1. \A q \in Operator \ {p} : run'[q].todo = run[q].todo /\ run'[q].label = run[q].label
    BY DEF Moves, SameRun
  <2>2. Active(p) /\ run'[p].label = run[p].label
    BY DEF Moves, Onward, SameRun
  <2> QED  BY <2>1, <2>2 DEF Active
<1>4. ApartInv'
  BY <1>3 DEF NamesInv, ApartInv
<1>5. \A m \in Label : Running(m)' => Running(m)
  BY <1>3 DEF Running, Active
<1>6. RunOf(p)' /\ ListOf(p)' /\ DoneOf(p)' /\ WizOf(p)' /\ RetractOf(p)'
  <2>1. Active(p)' => Program(run'[p])
    BY <1>2, Continues DEF RunOf, Moves, Active
  <2>2. run'[p].op = run[p].op /\ run'[p].label = l
    BY DEF Moves, Onward, SameRun
  <2> QED  BY <2>1, <2>2 DEF Own, RunOf
<1>7. ASSUME NEW q \in Operator \ {p}
      PROVE  RunOf(q)' /\ ListOf(q)' /\ DoneOf(q)' /\ WizOf(q)' /\ RetractOf(q)'
  <2>1. /\ RunOf(q) /\ ListOf(q) /\ DoneOf(q) /\ WizOf(q) /\ RetractOf(q)
        /\ Active(q) => run[q].label \in Label \ {l}
    BY <1>2 DEF NamesInv, ApartInv, RunOf, Program
  <2>2. /\ run'[q].op = run[q].op /\ run'[q].label = run[q].label
        /\ run'[q].visibility = run[q].visibility /\ run'[q].expects = run[q].expects
        /\ run'[q].contract = run[q].contract /\ run'[q].whole = run[q].whole
        /\ run'[q].todo = run[q].todo /\ run'[q].list = run[q].list
    BY <1>7 DEF Moves, SameRun
  <2>3. Active(q)' => Active(q)
    BY <1>3
  <2>4. Active(q) => \E m \in Label :
          /\ m = run[q].label /\ m = run'[q].label
          /\ name'[m] = name[m] /\ profile'[m] = profile[m] /\ (OnList(m) => OnList(m)')
          /\ (Off(m) => Off(m)')
    BY <2>1, <2>2 DEF Elsewhere
  <2>5. Deployed \subseteq Deployed' /\ (misreads' = 0 => misreads = 0)
    BY DEF Elsewhere
  <2>6. RunOf(q)'
    <3>1. Active(q)' => Program(run'[q])
      BY <2>1, <2>2, <2>3 DEF RunOf, Program, Publishing
    <3> QED  BY <2>1, <2>2, <2>3, <2>4, <2>5, <3>1 DEF RunOf
  <2>7. ListOf(q)'
    <3>1. ~run'[q].stale /\ Active(q) => ~run[q].stale /\ listed' = listed
      BY DEF Elsewhere
    <3>2. misreads > 0 => misreads' > 0
      BY <1>1, <2>5
    <3> QED  BY <2>1, <2>2, <2>3, <3>1, <3>2 DEF ListOf
  <2>8. DoneOf(q)'
    BY <2>1, <2>2, <2>3, <2>4 DEF DoneOf, Publishing
  <2>9. WizOf(q)'
    BY <2>1, <2>2, <2>3, <2>4, <2>5 DEF WizOf, Claimed
  <2>10. RetractOf(q)'
    BY <2>1, <2>2, <2>3, <2>4 DEF RetractOf, Retracts, Claimed
  <2> QED  BY <2>6, <2>7, <2>8, <2>9, <2>10
<1>8. ASSUME NEW m \in Label PROVE PubOf(m)'
  <2>1. CASE m = l
    <3>1. published'[m] # None =>
            ~Active(p)' /\ OnList(m)' /\ name'[m] = [key \in Key |-> Value(key, published'[m])]
      BY <2>1 DEF Own
    <3>2. ASSUME ~Active(p)' PROVE ~Running(m)'
      <4>1. ASSUME NEW q \in Operator, Active(q)', run'[q].label = m PROVE FALSE
        <5>1. q # p /\ Active(q) /\ run[q].label = l
          BY <1>3, <2>1, <3>2, <4>1
        <5> QED  BY <1>2, <5>1 DEF NamesInv, ApartInv
      <4> QED  BY <4>1 DEF Running, Active
    <3> QED  BY <3>1, <3>2 DEF PubOf
  <2>2. CASE m # l
    <3>1. /\ name'[m] = name[m] /\ published'[m] = published[m] /\ (OnList(m) => OnList(m)')
      BY <2>2 DEF Elsewhere
    <3>2. PubOf(m) /\ (Running(m)' => Running(m))
      BY <1>5 DEF NamesInv
    <3> QED  BY <3>1, <3>2 DEF PubOf
  <2> QED  BY <2>1, <2>2
<1>9. ASSUME NEW m \in Label PROVE UnnamedOf(m)'
  <2>1. m # l => name'[m] = name[m] /\ profile'[m] = profile[m] /\ UnnamedOf(m)
    BY DEF Elsewhere, NamesInv
  <2>2. m = l => UnnamedOf(m)'
    BY DEF Own
  <2> QED  BY <2>1, <2>2 DEF UnnamedOf, Claimed
<1> QED
  <2>1. TypeInv' /\ ProfInv'
    BY DEF Own
  <2> QED  BY <2>1, <1>4, <1>6, <1>7, <1>8, <1>9 DEF NamesInv
-----------------------------------------------------------------------------
(* The steps of a run.                                                     *)

\* What the steps share that leave the others alone.
Alone(p) == \A q \in Operator \ {p} : run'[q] = run[q]

LEMMA AloneMoves ==
    ASSUME NEW p \in Operator, Active(p), run' \in [Operator -> RunSet], Alone(p),
           Onward(run[p], run'[p])
    PROVE  Moves(p)
BY DEF Moves, Alone, SameRun

LEMMA Advanced ==
    ASSUME NamesInv, NEW p \in Operator, Active(p), Advance(p),
           Head(run[p].todo) # "deploy"
    PROVE  /\ Moves(p) /\ Alone(p) /\ run'[p].todo = Tail(run[p].todo)
           /\ run'[p].contract = run[p].contract /\ run'[p].whole = run[p].whole
           /\ run'[p].op = run[p].op /\ run'[p].label = run[p].label
           /\ run'[p].visibility = run[p].visibility
           /\ Head(run[p].todo) # "readList" => ListOf(p)'
           /\ Head(run[p].todo) # "probe" /\ Active(p)' => Head(run'[p].todo) # "deploy"
<1> DEFINE r == run[p]
<1>1. /\ run \in [Operator -> RunSet] /\ r \in RunSet /\ Program(r)
      /\ InOrder(r.todo) /\ r.todo # <<>>
  BY DEF NamesInv, TypeInv, RunOf, Active, Program
<1>2. /\ InOrder(Tail(r.todo)) /\ StepsOf(Tail(r.todo)) \subseteq StepsOf(r.todo)
      /\ StepsOf(r.todo) \subseteq StepsOf(Tail(r.todo)) \cup {Head(r.todo)}
      /\ Ahead(r.todo) => Ahead(Tail(r.todo))
      /\ Tail(r.todo) # <<>> /\ Head(Tail(r.todo)) = "writeList" => Head(r.todo) = "readList"
      /\ Tail(r.todo) # <<>> /\ Head(Tail(r.todo)) = "deploy" => Head(r.todo) = "probe"
  BY <1>1, OneStep
<1>3. PICK t : t = Tail(r.todo)
  OBVIOUS
<1>4. t \in Seq(Steps)
  BY <1>2, <1>3 DEF InOrder
<1>5. run' = [run EXCEPT ![p].todo = t]
  BY <1>3 DEF Advance
<1>6. run' \in [Operator -> RunSet] /\ Alone(p)
  BY <1>1, <1>4, <1>5 DEF RunSet, Alone
<1>7. /\ run'[p].todo = t /\ run'[p].op = r.op /\ run'[p].label = r.label
      /\ run'[p].visibility = r.visibility /\ run'[p].expects = r.expects
      /\ run'[p].contract = r.contract /\ run'[p].whole = r.whole
  BY <1>1, <1>5 DEF RunSet
<1>8. Onward(r, run'[p])
  <2>1. "deploy" \in StepsOf(r.todo) => "deploy" \in StepsOf(t)
    BY <1>2, <1>3
  <2> QED  BY <1>2, <1>3, <1>7, <2>1 DEF Onward, SameRun
<1>9. Moves(p)
  BY <1>6, <1>8, AloneMoves
<1> QED  BY <1>2, <1>3, <1>6, <1>7, <1>9 DEF ListOf, Active

LEMMA Thrown ==
    ASSUME NamesInv, NEW p \in Operator, Active(p), Throw(p)
    PROVE  /\ Moves(p) /\ Alone(p) /\ ListOf(p)' /\ DoneOf(p)' /\ WizOf(p)'
           /\ run'[p].contract = run[p].contract
           /\ run'[p].op \notin {"create", "remove"} => ~Active(p)'
<1> DEFINE r == run[p]
<1>1. /\ run \in [Operator -> RunSet] /\ r \in RunSet /\ Program(r)
      /\ InOrder(r.todo) /\ r.todo # <<>>
  BY DEF NamesInv, TypeInv, RunOf, Active, Program
<1>2. PICK t : t = Rescued(r)
  OBVIOUS
<1>3. /\ InOrder(t) /\ StepsOf(t) \subseteq StepsOf(r.todo)
      /\ r.op \notin {"create", "remove"} => t = <<>>
      /\ t # <<>> => Head(r.todo) \notin {"deploy", "probe"} /\ Head(t) # "writeList"
      /\ {"probe", "deploy"} \cap StepsOf(t) = {}
  BY <1>1, <1>2, RescuedRun
<1>4. t \in Seq(Steps)
  BY <1>3 DEF InOrder
<1>5. run' = [run EXCEPT ![p].todo = t, ![p].whole = FALSE]
  BY <1>2 DEF Throw
<1>6. run' \in [Operator -> RunSet] /\ Alone(p)
  BY <1>1, <1>4, <1>5 DEF RunSet, Alone
<1>7. /\ run'[p].todo = t /\ run'[p].op = r.op /\ run'[p].label = r.label
      /\ run'[p].visibility = r.visibility /\ run'[p].expects = r.expects
      /\ run'[p].contract = r.contract /\ run'[p].whole = FALSE
  BY <1>1, <1>5 DEF RunSet
<1>8. t # <<>> => "deploy" \notin StepsOf(r.todo)
  BY <1>1, <1>3, OneStep
<1>9. Onward(r, run'[p])
  <2>1. t # <<>> /\ r.op = "create" => r.contract # None
    BY <1>1, <1>8 DEF Program
  <2> QED  BY <1>3, <1>7, <2>1 DEF Onward, SameRun
<1>10. Moves(p)
  BY <1>6, <1>9, AloneMoves
<1>11. ListOf(p)' /\ DoneOf(p)' /\ WizOf(p)'
  BY <1>3, <1>7 DEF ListOf, DoneOf, WizOf, Active
<1> QED  BY <1>3, <1>6, <1>7, <1>10, <1>11 DEF Active
LEMMA ThrownRetracts ==
    ASSUME NamesInv, NEW p \in Operator, Active(p), Throw(p), UNCHANGED <<name, profile>>
    PROVE  RetractOf(p)'
<1>1. /\ Moves(p) /\ run'[p].contract = run[p].contract
      /\ run'[p].op \notin {"create", "remove"} => ~Active(p)'
  BY Thrown
<1>2. RetractOf(p) /\ SameRun(run[p], run'[p])
  BY <1>1 DEF NamesInv, Moves, Onward
<1> QED  BY <1>1, <1>2 DEF RetractOf, Retracts, SameRun

\* A step that changes the run alone.
LEMMA Quiet ==
    ASSUME NamesInv, NEW p \in Operator, Moves(p), Alone(p),
           UNCHANGED <<lane, treasury, ens, files, published, clobbered, misreads>>
    PROVE  /\ Elsewhere(p) /\ TypeInv' /\ ProfInv'
           /\ \A m \in {run[p].label} : published'[m] = None /\ UnnamedOf(m)'
           /\ (Active(p)' /\ run[p].op \in {"unpublish", "delist"})
                => profile'[run[p].label] # None
<1> USE DEF ens, files
<1>1. TypeInv /\ ProfInv /\ RunOf(p) /\ Active(p) /\ run' \in [Operator -> RunSet]
  BY DEF NamesInv, Moves
<1>2. Elsewhere(p)
  <2>1. \A m \in Label : (OnList(m) => OnList(m)') /\ (Off(m) => Off(m)')
    BY DEF OnList, Off
  <2>2. Deployed' = Deployed
    BY DEF Deployed
  <2> QED  BY <2>1, <2>2 DEF Elsewhere, Alone
<1>3. TypeInv'
  <2>1. TypeOK'
    <3>1. \A q \in Operator : run'[q].op \in Command \cup {"none"} /\ run'[q].list \subseteq Label
      BY <1>1 DEF RunSet
    <3> QED  BY <1>1, <3>1 DEF TypeInv, TypeOK, Deployed, Claimed
  <2> QED  BY <1>1, <2>1 DEF TypeInv
<1>4. ProfInv'
  BY <1>1 DEF ProfInv, Deployed
<1>5. \A m \in {run[p].label} : published'[m] = None /\ UnnamedOf(m)'
  <2>1. run[p].label \in Label
    BY <1>1 DEF RunOf, Program
  <2>2. \A m \in {run[p].label} : published'[m] = None
    BY <1>1, <2>1 DEF NamesInv, PubOf, Running, Active
  <2>3. \A m \in {run[p].label} : UnnamedOf(m)'
    BY <2>1 DEF NamesInv, UnnamedOf, Claimed
  <2> QED  BY <2>2, <2>3
<1>6. (Active(p)' /\ run[p].op \in {"unpublish", "delist"}) => profile'[run[p].label] # None
  BY <1>1 DEF RunOf
<1> QED  BY <1>2, <1>3, <1>4, <1>5, <1>6

LEMMA FailStep ==
    ASSUME NamesInv, NEW p \in Operator, Fail(p)
    PROVE  NamesInv'
<1>1. /\ Active(p) /\ RunOf(p) /\ run \in [Operator -> RunSet]
      /\ UNCHANGED <<lane, treasury, ens, files, published, clobbered, misreads>>
  BY DEF Fail, Active, NamesInv, TypeInv
<1>2. CASE Throw(p)
  <2>1. /\ Moves(p) /\ Alone(p) /\ ListOf(p)' /\ DoneOf(p)' /\ WizOf(p)'
        /\ run'[p].contract = run[p].contract
    BY <1>1, <1>2, Thrown
  <2>2. run'[p].contract \in Deployed' \cup {None}
    BY <1>1, <2>1 DEF RunOf, Deployed
  <2>3. RetractOf(p)'
    BY <1>1, <1>2, ThrownRetracts DEF ens, files
  <2> QED  BY <1>1, <2>1, <2>2, <2>3, Quiet, Onwards DEF Own
<1>3. CASE run' = [run EXCEPT ![p].todo = <<>>]
  <2>1. PICK t : t = <<>>
    OBVIOUS
  <2>2. InOrder(t) /\ StepsOf(t) = {} /\ t \in Seq(Steps)
    BY <2>1, Blocks DEF InOrder
  <2>3. /\ run' \in [Operator -> RunSet] /\ Alone(p)
        /\ run'[p].todo = t /\ SameRun(run[p], run'[p])
        /\ run'[p].contract = run[p].contract /\ run'[p].whole = run[p].whole
    <3>1. run' = [run EXCEPT ![p].todo = t]
      BY <1>3, <2>1
    <3>2. PICK r \in RunSet : r = run[p]
      BY <1>1
    <3>3. [r EXCEPT !.todo = t] \in RunSet
      BY <2>2, <3>2 DEF RunSet
    <3>4. run' = [run EXCEPT ![p] = [r EXCEPT !.todo = t]]
      BY <3>1, <3>2
    <3>5. run' \in [Operator -> RunSet] /\ Alone(p)
      BY <1>1, <3>3, <3>4 DEF Alone
    <3>6. /\ run'[p].todo = t /\ SameRun(run[p], run'[p])
          /\ run'[p].contract = run[p].contract /\ run'[p].whole = run[p].whole
      BY <1>1, <3>1 DEF RunSet, SameRun
    <3> QED  BY <3>6, <3>5
  <2>4. Onward(run[p], run'[p])
    BY <2>1, <2>2, <2>3 DEF Onward, Ahead
  <2>5. Moves(p)
    BY <1>1, <2>3, <2>4, AloneMoves
  <2>6. ~Active(p)'
    BY <2>1, <2>3 DEF Active
  <2>7. ListOf(p)' /\ DoneOf(p)' /\ WizOf(p)' /\ RetractOf(p)'
    BY <2>6 DEF ListOf, DoneOf, WizOf, RetractOf
  <2>8. run'[p].contract \in Deployed' \cup {None}
    BY <1>1, <2>3 DEF RunOf, Deployed
  <2> QED  BY <1>1, <2>3, <2>5, <2>7, <2>8, Quiet, Onwards DEF Own
<1> QED  BY <1>2, <1>3 DEF Fail
LEMMA PublicationSteps ==
    /\ Publication \cap {"probe", "deploy"} = {} /\ "writeList" \in Publication
    /\ \A key \in Key : SetStep[key] \in Publication
<1>1. Publication = {"set subnode", "set addr", "set chainId", "set contract",
                     "readList", "writeList"}
  BY Blocks DEF Publication
<1>2. /\ SetStep["subnode"] = "set subnode" /\ SetStep["addr"] = "set addr"
      /\ SetStep["chainId"] = "set chainId" /\ SetStep["contract"] = "set contract"
  BY DEF SetStep
<1>3. Publication \cap {"probe", "deploy"} = {} /\ "writeList" \in Publication
  BY <1>1
<1>4. \A key \in Key : SetStep[key] \in Publication
  BY <1>1, <1>2 DEF Key
<1> QED  BY <1>3, <1>4

LEMMA ProbeStep ==
    ASSUME NamesInv, NEW p \in Operator, Probe(p)
    PROVE  NamesInv'
<1> DEFINE r == run[p]
           l == run[p].label
<1>1. /\ Active(p) /\ RunOf(p) /\ DoneOf(p) /\ WizOf(p) /\ run \in [Operator -> RunSet]
      /\ r \in RunSet /\ Program(r) /\ InOrder(r.todo) /\ r.todo # <<>> /\ l \in Label
      /\ Head(r.todo) = "probe" /\ TypeInv
  BY DEF Probe, At, Active, NamesInv, TypeInv, RunOf, Program
<1>2. r.op = "wizard" /\ Publishing(r)
  <2>1. "probe" \in StepsOf(r.todo)
    BY <1>1, OneStep
  <2> QED  BY <1>1, <2>1 DEF Program, Publishing
<1>3. UNCHANGED <<lane, treasury, ens, files, published, clobbered>>
  BY DEF Probe
<1>4. /\ misreads' \in Nat /\ (misreads' # misreads => misreads' > 0)
      /\ misreads' = 0 => misreads = 0
  BY <1>1 DEF Probe, TypeInv
<1>5. /\ Candidates(l) \subseteq Claimed(l) /\ Claimed(l) \subseteq Deployed
      /\ Candidates(l) = {} => Claimed(l) = {}
  BY <1>1 DEF Candidates, Claimed, TypeInv, TypeOK
<1>6. \/ \E c \in Claimed(l) : Adopt(p, c)
      \/ Advance(p) /\ (misreads' = 0 => Claimed(l) = {})
  BY <1>1, <1>4, <1>5 DEF Probe, TypeInv
<1>7. \A m \in Label : Claimed(m)' = Claimed(m)
  BY <1>3 DEF Claimed, ens
<1>8. /\ Moves(p) /\ Alone(p) /\ ListOf(p)' /\ DoneOf(p)' /\ WizOf(p)' /\ RetractOf(p)'
      /\ run'[p].contract \in Deployed \cup {None}
  <2>1. CASE Throw(p)
    <3>1. Moves(p) /\ Alone(p) /\ ListOf(p)' /\ run'[p].contract = run[p].contract
      BY <1>1, <2>1, Thrown
    <3>2. DoneOf(p)' /\ WizOf(p)'
      BY <1>1, <2>1, Thrown
    <3>3. RetractOf(p)'
      BY <1>1, <1>3, <2>1, ThrownRetracts DEF ens, files
    <3> QED  BY <1>1, <3>1, <3>2, <3>3 DEF RunOf
  <2>2. CASE Advance(p) /\ (misreads' = 0 => Claimed(l) = {})
    <3>1. /\ Moves(p) /\ Alone(p) /\ run'[p].todo = Tail(r.todo) /\ ListOf(p)'
          /\ run'[p].contract = r.contract /\ run'[p].whole = r.whole
          /\ run'[p].op = r.op /\ run'[p].label = l
          /\ run'[p].visibility = run[p].visibility
      BY <1>1, <2>2, Advanced
    <3>2. WizOf(p)'
      BY <1>7, <2>2, <1>1, <3>1 DEF WizOf
    <3>3. DoneOf(p)'
      <4>1. r.whole => Ahead(Tail(r.todo)) /\ "deploy" \in StepsOf(Tail(r.todo))
        <5>1. Tail(r.todo) # <<>> /\ Head(Tail(r.todo)) = "deploy" /\ InOrder(Tail(r.todo))
              /\ (Ahead(r.todo) => Ahead(Tail(r.todo)))
          BY <1>1, OneStep
        <5>2. "deploy" \in StepsOf(Tail(r.todo))
          BY <5>1, OneStep
        <5> QED  BY <1>1, <1>2, <5>1, <5>2 DEF Program
      <4>2. r.whole => Publication \subseteq StepsOf(run'[p].todo)
        BY <3>1, <4>1 DEF Ahead
      <4>3. "writeList" \in Publication /\ \A key \in Key : SetStep[key] \in Publication
        BY PublicationSteps
      <4> QED  BY <3>1, <4>2, <4>3 DEF DoneOf
    <3>4. RetractOf(p)'
      BY <1>2, <3>1 DEF RetractOf, Retracts
    <3> QED  BY <1>1, <3>1, <3>2, <3>3, <3>4 DEF RunOf
  <2>3. ASSUME NEW c \in Claimed(l),
               run' = [run EXCEPT ![p].contract = c, ![p].todo = Tail(Tail(@))]
        PROVE  /\ Moves(p) /\ Alone(p) /\ ListOf(p)' /\ DoneOf(p)' /\ WizOf(p)'
               /\ RetractOf(p)' /\ run'[p].contract \in Deployed \cup {None}
    <3>1. PICK t : t = Tail(Tail(r.todo))
      OBVIOUS
    <3>2. /\ InOrder(t) /\ StepsOf(t) \subseteq StepsOf(r.todo)
          /\ \A x \in StepsOf(r.todo) : x \in StepsOf(t) \/ x \in {"probe", "deploy"}
          /\ Ahead(r.todo) => Ahead(t)
          /\ t # <<>> => Head(t) \notin {"writeList", "deploy"}
          /\ "probe" \in StepsOf(r.todo)
      BY <1>1, <3>1, TwoSteps
    <3>3. t \in Seq(Steps) /\ c \in Swarm /\ c # None
      BY <1>1, <1>5, <3>2 DEF InOrder, TypeInv, TypeOK, Claimed
    <3>4. run' = [run EXCEPT ![p].contract = c, ![p].todo = t]
      BY <2>3, <3>1
    <3>5. /\ run' \in [Operator -> RunSet] /\ Alone(p)
          /\ run'[p].todo = t /\ SameRun(r, run'[p]) /\ run'[p].contract = c
          /\ run'[p].whole = r.whole
      BY <1>1, <3>3, <3>4 DEF RunSet, Alone, SameRun
    <3>6. Moves(p)
      BY <1>1, <3>2, <3>3, <3>5, AloneMoves DEF Onward
    <3>7. ListOf(p)' /\ WizOf(p)'
      BY <1>7, <1>1, <3>2, <3>5 DEF ListOf, WizOf, SameRun, Active
    <3>8. DoneOf(p)'
      <4>1. /\ Publication \cap {"probe", "deploy"} = {} /\ "writeList" \in Publication
            /\ \A key \in Key : SetStep[key] \in Publication
        BY PublicationSteps
      <4>2. r.whole => Publication \subseteq StepsOf(r.todo)
        BY <1>1, <1>2, <3>2 DEF Program, Ahead
      <4>3. r.whole => Publication \subseteq StepsOf(t)
        BY <3>2, <4>1, <4>2
      <4> QED  BY <3>5, <4>1, <4>3 DEF DoneOf, SameRun
    <3>9. RetractOf(p)'
      BY <1>2, <3>5 DEF RetractOf, Retracts, SameRun
    <3> QED  BY <1>5, <3>5, <3>6, <3>7, <3>8, <3>9
  <2> QED  BY <1>6, <2>1, <2>2, <2>3 DEF Adopt
<1>9. NamesInv'
  <2>1. Elsewhere(p)
    <3>1. \A m \in Label : (OnList(m) => OnList(m)') /\ (Off(m) => Off(m)')
      BY <1>1, <1>3, <1>4 DEF OnList, Off, ens, TypeInv
    <3>2. Deployed' = Deployed
      BY <1>3 DEF Deployed
    <3> QED  BY <1>3, <1>4, <1>8, <3>1, <3>2 DEF Elsewhere, Alone, ens, files
  <2>2. TypeInv' /\ ProfInv'
    <3>1. \A q \in Operator : run'[q].op \in Command \cup {"none"} /\ run'[q].list \subseteq Label
      BY <1>8 DEF RunSet, Moves
    <3>2. TypeOK'
      BY <1>1, <1>3, <3>1 DEF TypeInv, TypeOK, Deployed, Claimed, ens, files
    <3> QED  BY <1>1, <1>3, <1>4, <1>8, <3>2
             DEF TypeInv, ens, files, Moves, NamesInv, ProfInv, Deployed
  <2>3. \A m \in {l} : published'[m] = None /\ UnnamedOf(m)'
    <3>1. PubOf(l) /\ UnnamedOf(l)
      BY <1>1 DEF NamesInv
    <3> QED  BY <1>1, <1>3, <1>7, <3>1 DEF PubOf, Running, Active, UnnamedOf, files
  <2>4. Deployed' = Deployed
    BY <1>3 DEF Deployed
  <2>5. Own(p)
    BY <1>2, <1>8, <2>2, <2>3, <2>4 DEF Own
  <2> QED  BY <1>8, <2>1, <2>5, Onwards
<1> QED  BY <1>9
LEMMA DeployStep ==
    ASSUME NamesInv, NEW p \in Operator, Deploy(p)
    PROVE  NamesInv'
<1> DEFINE r == run[p]
           l == run[p].label
<1>1. /\ Active(p) /\ RunOf(p) /\ WizOf(p) /\ run \in [Operator -> RunSet]
      /\ r \in RunSet /\ Program(r) /\ InOrder(r.todo) /\ r.todo # <<>> /\ l \in Label
      /\ Head(r.todo) = "deploy" /\ TypeInv
  BY DEF Deploy, At, Active, NamesInv, TypeInv, RunOf, Program
<1>2. UNCHANGED <<lane, ens, files, published, clobbered, misreads>>
  BY DEF Deploy, count
<1>3. PICK c \in Fresh :
        /\ treasury' = [d \in Deployed \cup {c} |->
                            IF d = c THEN run[p].expects ELSE treasury[d]]
        /\ run' = [run EXCEPT ![p].contract = c, ![p].todo = Tail(@)]
  BY DEF Deploy
<1>4. c \in Swarm \ Deployed /\ c # None /\ Deployed' = Deployed \cup {c}
  BY <1>3, ValueAssumption DEF Fresh, Deployed
<1>5. PICK t : t = Tail(r.todo)
  OBVIOUS
<1>6. /\ InOrder(t) /\ StepsOf(t) \subseteq StepsOf(r.todo)
      /\ StepsOf(r.todo) \subseteq StepsOf(t) \cup {"deploy"}
      /\ Ahead(r.todo) => Ahead(t)
      /\ t # <<>> => Head(t) \notin {"writeList", "deploy"}
      /\ "deploy" \in StepsOf(r.todo)
  BY <1>1, <1>5, OneStep
<1>7. t \in Seq(Steps) /\ r.op \in {"create", "wizard"} /\ r.expects \in Treasury
  BY <1>1, <1>6 DEF InOrder, Program
<1>8. run' = [run EXCEPT ![p].contract = c, ![p].todo = t]
  BY <1>3, <1>5
<1>9. /\ run' \in [Operator -> RunSet] /\ Alone(p)
      /\ run'[p].todo = t /\ SameRun(r, run'[p]) /\ run'[p].contract = c
      /\ run'[p].whole = r.whole
  BY <1>1, <1>4, <1>7, <1>8 DEF RunSet, Alone, SameRun
<1>10. Moves(p)
  BY <1>1, <1>4, <1>6, <1>9, AloneMoves DEF Onward
<1>11. ListOf(p)'
  BY <1>6, <1>9 DEF ListOf, Active
<1>12. DoneOf(p)'
  <2>1. r.whole /\ Publishing(r) => Publication \subseteq StepsOf(r.todo)
    BY <1>1, <1>6 DEF Program, Ahead
  <2>2. r.whole /\ Publishing(r) => Publication \subseteq StepsOf(t)
    BY <1>6, <2>1, PublicationSteps
  <2>3. Publishing(run'[p]) => Publishing(r)
    BY <1>9 DEF Publishing, SameRun
  <2> QED  BY <1>9, <2>2, <2>3, PublicationSteps DEF DoneOf
<1>13. WizOf(p)'
  <2>1. \A m \in Label : Claimed(m)' = Claimed(m)
    BY <1>2 DEF Claimed, ens
  <2> QED  BY <1>1, <1>2, <1>6, <1>9, <2>1 DEF WizOf, SameRun
<1>14. Elsewhere(p)
  <2>1. \A m \in Label : (OnList(m) => OnList(m)') /\ (Off(m) => Off(m)')
    BY <1>2 DEF OnList, Off, ens
  <2> QED  BY <1>2, <1>4, <1>9, <2>1 DEF Elsewhere, Alone, ens, files
<1>15. TypeInv' /\ ProfInv'
  <2>1. \A q \in Operator : run'[q].op \in Command \cup {"none"} /\ run'[q].list \subseteq Label
    BY <1>9 DEF RunSet
  <2>2. \A d \in Deployed' : treasury'[d] \in Treasury
    BY <1>1, <1>3, <1>4, <1>7 DEF TypeInv, TypeOK
  <2>3. Deployed' \subseteq Swarm /\ \A m \in Label : Claimed(m)' \subseteq Deployed'
    BY <1>1, <1>2, <1>4 DEF TypeInv, TypeOK, Claimed, ens
  <2>4. TypeOK'
    BY <1>1, <1>2, <2>1, <2>2, <2>3 DEF TypeInv, TypeOK, ens, files
  <2>5. ProfInv'
    BY <1>2, <1>4 DEF NamesInv, ProfInv, files
  <2> QED  BY <1>1, <1>2, <1>9, <2>4, <2>5 DEF TypeInv, ens, files
<1>16. Own(p)
  <2>1. \A m \in {l} : published'[m] = None /\ UnnamedOf(m)'
    <3>1. PubOf(l) /\ UnnamedOf(l)
      BY <1>1 DEF NamesInv
    <3> QED  BY <1>1, <1>2, <3>1 DEF PubOf, Running, Active, UnnamedOf, Claimed, ens, files
  <2>2. RetractOf(p)'
    BY <1>7, <1>9 DEF RetractOf, Retracts, SameRun
  <2> QED  BY <1>4, <1>7, <1>9, <1>11, <1>12, <1>13, <1>15, <2>1, <2>2 DEF Own
<1> QED  BY <1>10, <1>14, <1>16, Onwards

\* Writing a record of the name: the rest of the step is the same for all.
LEMMA RecordStep ==
    ASSUME NamesInv, NEW p \in Operator, NEW step, NEW key \in Key, NEW value,
           Record(p, step, key, value), step \notin {"deploy", "probe", "readList", "writeList"},
           value \in Swarm \cup {None, Here},
           key \in {"addr", "contract"} => value \in Deployed \cup {None},
           \/ /\ value = Value(key, run[p].contract) /\ step \in StepsOf(BindSteps)
              /\ \A k \in Key : SetStep[k] = step <=> k = key
           \/ /\ value = None /\ step \in StepsOf(UnbindSteps)
              /\ \A k \in {"addr", "contract"} : ClearStep[k] = step <=> k = key
    PROVE  NamesInv'
<1> DEFINE r == run[p]
           l == run[p].label
<1>1. /\ Active(p) /\ RunOf(p) /\ DoneOf(p) /\ WizOf(p) /\ run \in [Operator -> RunSet]
      /\ r \in RunSet /\ Program(r) /\ InOrder(r.todo) /\ r.todo # <<>> /\ l \in Label
      /\ Head(r.todo) = step /\ TypeInv
  BY DEF Record, At, Active, NamesInv, TypeInv, RunOf, Program
<1>2. UNCHANGED <<lane, treasury, listed, files, published, clobbered, misreads>>
  BY DEF Record, count
<1>3. CASE Throw(p) /\ UNCHANGED name
  <2>1. /\ Moves(p) /\ Alone(p) /\ ListOf(p)' /\ DoneOf(p)' /\ WizOf(p)'
        /\ run'[p].contract = run[p].contract
    BY <1>1, <1>3, Thrown
  <2>2. run'[p].contract \in Deployed' \cup {None}
    BY <1>1, <1>2, <2>1 DEF RunOf, Deployed
  <2>3. UNCHANGED <<lane, treasury, ens, files, published, clobbered, misreads>>
    BY <1>2, <1>3 DEF ens
  <2>4. RetractOf(p)'
    BY <1>1, <1>3, <2>3, ThrownRetracts DEF files
  <2> QED  BY <2>1, <2>2, <2>3, <2>4, Quiet, Onwards DEF Own
<1>4. CASE name' = [name EXCEPT ![l][key] = value] /\ Advance(p)
  <2>1. /\ Moves(p) /\ Alone(p) /\ run'[p].todo = Tail(r.todo) /\ ListOf(p)'
        /\ run'[p].contract = r.contract /\ run'[p].whole = r.whole
        /\ run'[p].op = r.op /\ run'[p].label = l
        /\ run'[p].visibility = r.visibility
        /\ Active(p)' => Head(run'[p].todo) # "deploy"
    BY <1>1, <1>4, Advanced
  <2>2. /\ name \in [Label -> [Key -> Swarm \cup {None, Here}]]
        /\ name' \in [Label -> [Key -> Swarm \cup {None, Here}]]
        /\ \A m \in Label \ {l} : name'[m] = name[m]
        /\ \A k \in Key : name'[l][k] = IF k = key THEN value ELSE name[l][k]
    BY <1>1, <1>4 DEF TypeInv
  <2>3. StepsOf(r.todo) \subseteq StepsOf(Tail(r.todo)) \cup {step} /\ step \in StepsOf(r.todo)
    BY <1>1, OneStep
  <2>4. Deployed' = Deployed /\ \A m \in Label : OnList(m)' = OnList(m) /\ Off(m)' = Off(m)
    BY <1>2 DEF Deployed, OnList, Off
  <2>5. r.op \in {"create", "wizard"} =>
            /\ value = Value(key, r.contract)
            /\ \A k \in Key : SetStep[k] = step <=> k = key
    BY <1>1, <2>3 DEF Program, Undoing
  <2>6. DoneOf(p)'
    <3>1. SUFFICES ASSUME Active(p)', r.whole, Publishing(r)
                   PROVE  /\ \A k \in Key : SetStep[k] \notin StepsOf(run'[p].todo) =>
                                name'[l][k] = Value(k, r.contract)
                          /\ "writeList" \notin StepsOf(run'[p].todo) => OnList(l)
      BY <1>1, <2>1, <2>4 DEF DoneOf, Publishing
    <3>2. /\ \A k \in Key : SetStep[k] \notin StepsOf(r.todo) => name[l][k] = Value(k, r.contract)
          /\ "writeList" \notin StepsOf(r.todo) => OnList(l)
          /\ r.op \in {"create", "wizard"}
      BY <1>1, <3>1 DEF DoneOf, Publishing
    <3>3. ASSUME NEW k \in Key, SetStep[k] \notin StepsOf(run'[p].todo)
          PROVE  name'[l][k] = Value(k, r.contract)
      <4>1. SetStep[k] \notin StepsOf(r.todo) \/ SetStep[k] = step
        BY <2>1, <2>3, <3>3
      <4> QED  BY <2>2, <2>5, <3>2, <4>1
    <3>4. "writeList" \notin StepsOf(run'[p].todo) => OnList(l)
      BY <2>1, <2>3, <3>2
    <3> QED  BY <3>3, <3>4
  <2>7. {"addr", "contract"} \subseteq Key
    BY DEF Key
  <2>8. \A m \in Label : Claimed(m)' \subseteq Deployed
    <3>1. \A m \in Label : {name[m].addr, name[m].contract} \subseteq Deployed \cup {None}
      BY <1>1 DEF TypeInv, TypeOK, Claimed
    <3>2. \A m \in Label : {name'[m].addr, name'[m].contract} \subseteq Deployed \cup {None}
      BY <1>1, <2>2, <2>7, <3>1
    <3> QED  BY <3>2 DEF Claimed
  <2>9. WizOf(p)'
    <3>1. SUFFICES ASSUME r.op = "wizard", misreads = 0, r.contract # None
                   PROVE  \E m \in {l} : Claimed(m)' = {} \/ r.contract \in Claimed(m)'
      BY <1>2, <2>1 DEF WizOf
    <3>2. Claimed(l) = {} \/ r.contract \in Claimed(l)
      BY <1>1, <3>1 DEF WizOf
    <3>3. value = Value(key, r.contract)
      BY <2>5, <3>1
    <3>4. CASE key \in {"addr", "contract"}
      <4>1. name'[l][key] = r.contract
        BY <2>2, <3>3, <3>4 DEF Value
      <4> QED  BY <3>1, <3>4, <4>1 DEF Claimed
    <3>5. CASE key \notin {"addr", "contract"}
      <4>1. name'[l].addr = name[l].addr /\ name'[l].contract = name[l].contract
        BY <2>2, <2>7, <3>5
      <4> QED  BY <3>2, <4>1 DEF Claimed
    <3> QED  BY <3>4, <3>5
  <2>10. Elsewhere(p)
    BY <1>2, <2>1, <2>2, <2>4 DEF Elsewhere, Alone, files
  <2>11. /\ step \in StepsOf(BindSteps) =>
              /\ r.op \in {"create", "wizard", "lane"}
              /\ r.op = "create" => r.visibility # "private"
              /\ value = Value(key, r.contract)
         /\ step \notin StepsOf(BindSteps) =>
              /\ r.op \notin {"create", "wizard"} /\ value = None
              /\ \A k \in {"addr", "contract"} : ClearStep[k] = step <=> k = key
    <3>1. StepsOf(BindSteps) \cap StepsOf(UnbindSteps) = {}
      BY Blocks
    <3>2. CASE step \in StepsOf(BindSteps)
      <4>1. StepsOf(r.todo) \cap StepsOf(BindSteps) # {}
        BY <2>3, <3>2
      <4> QED  BY <1>1, <3>1, <3>2, <4>1 DEF Program
    <3>3. CASE step \notin StepsOf(BindSteps)
      <4>1. StepsOf(r.todo) \cap Undoing # {}
        BY <2>3, <3>3 DEF Undoing
      <4> QED  BY <1>1, <3>3, <4>1 DEF Program
    <3> QED  BY <3>2, <3>3
  <2>12. RetractOf(p) /\ UnnamedOf(l) /\ profile' = profile /\ run'[p].op = r.op
         /\ run'[p].contract = r.contract
    BY <1>1, <1>2, <2>1 DEF NamesInv, files
  <2>13. UnnamedOf(l)'
    BY <2>1, <2>12 DEF UnnamedOf
  <2>14. RetractOf(p)'
    <3>1. Retracts(run[p])'
      <4>1. r.op = "unpublish" /\ profile[l].named =>
              \A k \in {"addr", "contract"} :
                 ClearStep[k] \notin StepsOf(run'[p].todo) => name'[l][k] = None
        <5>1. SUFFICES ASSUME r.op = "unpublish", profile[l].named,
                              NEW k \in {"addr", "contract"},
                              ClearStep[k] \notin StepsOf(run'[p].todo)
                       PROVE  name'[l][k] = None
          OBVIOUS
        <5>2. ClearStep[k] \notin StepsOf(r.todo) => name[l][k] = None
          BY <1>1, <2>12, <5>1 DEF RetractOf, Retracts
        <5>3. ClearStep[k] = step => k = key
          BY <2>11, <5>1
        <5>4. value = None
          BY <2>11, <5>1
        <5>5. name'[l][k] = IF k = key THEN None ELSE name[l][k]
          BY <2>2, <2>7, <5>4
        <5> QED  BY <2>1, <2>3, <5>1, <5>2, <5>3, <5>5
      <4>2. step # "writeList"
        OBVIOUS
      <4>3. "writeList" \in StepsOf(r.todo) => "writeList" \in StepsOf(run'[p].todo)
        BY <2>1, <2>3, <4>2
      <4> QED  BY <1>1, <2>1, <2>4, <2>12, <4>1, <4>3 DEF RetractOf, Retracts
    <3> QED  BY <3>1 DEF RetractOf
  <2>15. TypeInv' /\ ProfInv'
    <3>1. \A q \in Operator : run'[q].op \in Command \cup {"none"} /\ run'[q].list \subseteq Label
      BY <2>1 DEF RunSet, Moves
    <3>2. \A m \in Label : DOMAIN name'[m] = Key
      BY <2>2
    <3>3. TypeOK'
      BY <1>1, <1>2, <2>4, <2>8, <3>1, <3>2 DEF TypeInv, TypeOK, files
    <3> QED  BY <1>1, <1>2, <2>1, <2>2, <2>4, <3>3 DEF TypeInv, files, Moves, NamesInv, ProfInv
  <2>16. Own(p)
    <3>1. \A m \in {l} : published'[m] = None /\ UnnamedOf(m)'
      <4>1. \A m \in {l} : published'[m] = None
        BY <1>1, <1>2 DEF NamesInv, PubOf, Running, Active
      <4>2. \A m \in {l} : UnnamedOf(m)'
        BY <2>1, <2>13
      <4> QED  BY <4>1, <4>2
    <3>2. Active(p)' /\ r.op \in {"unpublish", "delist"} => profile'[l] # None
      BY <1>1, <1>2 DEF RunOf, files
    <3>3. run'[p].contract \in Deployed' \cup {None}
      BY <1>1, <2>1, <2>4 DEF RunOf
    <3> QED  BY <2>1, <2>6, <2>9, <2>15, <2>14, <3>1, <3>2, <3>3 DEF Own
  <2> QED  BY <2>1, <2>10, <2>16, Onwards
<1> QED  BY <1>3, <1>4 DEF Record

LEMMA BindStep ==
    ASSUME NamesInv, NEW p \in Operator, Bind(p) \/ Unbind(p)
    PROVE  NamesInv'
<1>1. \A c \in Swarm \cup {None} : \A key \in Key : Value(key, c) \in Swarm \cup {None, Here}
  BY DEF Value
<1>2. /\ SetStep["subnode"] = "set subnode" /\ SetStep["addr"] = "set addr"
      /\ SetStep["chainId"] = "set chainId" /\ SetStep["contract"] = "set contract"
      /\ Key = {"subnode", "addr", "chainId", "contract"}
  BY DEF SetStep, Key
<1>3. \A key \in Key : \A k \in Key : SetStep[k] = SetStep[key] <=> k = key
  BY <1>2
<1>4. run[p].todo # <<>> => run[p].contract \in Swarm \cup {None}
                            /\ run[p].contract \in Deployed \cup {None}
  BY DEF NamesInv, RunOf, Active, TypeInv, TypeOK
<1>5. ASSUME NEW key \in Key, Record(p, SetStep[key], key, Value(key, run[p].contract))
      PROVE  NamesInv'
  <2>1. run[p].todo # <<>>
    BY <1>5 DEF Record, At
  <2>2. SetStep[key] \notin {"deploy", "probe", "readList", "writeList"}
    BY <1>2
  <2>3. key \in {"addr", "contract"} => Value(key, run[p].contract) = run[p].contract
    BY DEF Value
  <2>4. PICK step, value : step = SetStep[key] /\ value = Value(key, run[p].contract)
    OBVIOUS
  <2>5. /\ Record(p, step, key, value) /\ step \notin {"deploy", "probe", "readList", "writeList"}
        /\ value \in Swarm \cup {None, Here}
        /\ key \in {"addr", "contract"} => value \in Deployed \cup {None}
        /\ \A k \in Key : SetStep[k] = step <=> k = key
        /\ step \in StepsOf(BindSteps)
    <3>1. step \in StepsOf(BindSteps)
      BY <1>2, <2>4, Blocks
    <3>2. \A k \in Key : SetStep[k] = step <=> k = key
      BY <1>3, <2>4
    <3>3. /\ value \in Swarm \cup {None, Here}
          /\ key \in {"addr", "contract"} => value \in Deployed \cup {None}
      BY <1>1, <1>4, <2>1, <2>3, <2>4
    <3> QED  BY <1>5, <2>2, <2>4, <3>1, <3>2, <3>3
  <2> QED  BY <2>4, <2>5, RecordStep
<1>6. ASSUME NEW key \in Key, NEW step \in StepsOf(UnbindSteps), Record(p, step, key, None),
             step = "clear addr" <=> key = "addr",
             step = "clear contract" <=> key = "contract"
      PROVE  NamesInv'
  <2>1. step \notin {"deploy", "probe", "readList", "writeList"}
    BY Blocks
  <2>2. ClearStep["addr"] = "clear addr" /\ ClearStep["contract"] = "clear contract"
    BY DEF ClearStep
  <2>3. \A k \in {"addr", "contract"} : ClearStep[k] = step <=> k = key
    BY <1>6, <2>2
  <2> QED  BY <1>6, <2>1, <2>3, RecordStep
<1>7. Bind(p) => \E key \in Key : Record(p, SetStep[key], key, Value(key, run[p].contract))
  BY <1>2 DEF Bind
<1>8. Unbind(p) => \E key \in Key, step \in StepsOf(UnbindSteps) :
                     /\ Record(p, step, key, None)
                     /\ step = "clear addr" <=> key = "addr"
                     /\ step = "clear contract" <=> key = "contract"
  BY <1>2, Blocks DEF Unbind
<1> QED  BY <1>5, <1>6, <1>7, <1>8

LEMMA ReadListStep ==
    ASSUME NamesInv, NEW p \in Operator, ReadList(p)
    PROVE  NamesInv'
<1> DEFINE r == run[p]
           l == run[p].label
<1>1. /\ Active(p) /\ RunOf(p) /\ DoneOf(p) /\ WizOf(p) /\ run \in [Operator -> RunSet]
      /\ r \in RunSet /\ Program(r) /\ InOrder(r.todo) /\ r.todo # <<>> /\ l \in Label
      /\ Head(r.todo) = "readList" /\ TypeInv
  BY DEF ReadList, At, Active, NamesInv, TypeInv, RunOf, Program
<1>2. UNCHANGED <<lane, treasury, ens, files, published, clobbered>>
  BY DEF ReadList
<1>3. PICK list \in ListRead(p) :
        /\ misreads' = IF list = listed THEN misreads ELSE misreads + 1
        /\ run' = [run EXCEPT ![p].list = list, ![p].stale = FALSE,
                ![p].todo = IF Adds(p) = (l \in list) THEN Tail(Tail(@)) ELSE Tail(@)]
  BY DEF ReadList
<1>4. PICK t : t = IF Adds(p) = (l \in list) THEN Tail(Tail(r.todo)) ELSE Tail(r.todo)
  OBVIOUS
<1>5. /\ list \subseteq Label /\ misreads \in Nat /\ misreads' \in Nat
      /\ list \subseteq listed /\ (list = listed \/ (misreads' > 0 /\ ~FromCli(p)))
      /\ misreads' = 0 => misreads = 0
      /\ misreads > 0 => misreads' > 0
  BY <1>1, <1>3 DEF ListRead, TypeInv, TypeOK
<1>6. /\ InOrder(t) /\ StepsOf(t) \subseteq StepsOf(r.todo)
      /\ \A x \in StepsOf(r.todo) : x \in StepsOf(t) \/ x \in {"readList", "writeList"}
      /\ Ahead(r.todo) => Ahead(t)
      /\ t # <<>> => Head(t) # "deploy"
  BY <1>1, <1>4, OneStep, TwoSteps
<1>7. t \in Seq(Steps)
  BY <1>6 DEF InOrder
<1>8. run' = [run EXCEPT ![p].list = list, ![p].stale = FALSE, ![p].todo = t]
  BY <1>3, <1>4
<1>9. /\ run' \in [Operator -> RunSet] /\ Alone(p)
      /\ run'[p].todo = t /\ SameRun(r, run'[p]) /\ run'[p].contract = r.contract
      /\ run'[p].whole = r.whole /\ run'[p].list = list
  BY <1>1, <1>5, <1>7, <1>8 DEF RunSet, Alone, SameRun
<1>10. Moves(p)
  <2>1. "deploy" \in StepsOf(r.todo) => "deploy" \in StepsOf(t)
    BY <1>6
  <2> QED  BY <1>1, <1>6, <1>9, <2>1, AloneMoves DEF Onward
<1>11. ListOf(p)'
  <2>1. listed' = listed
    BY <1>2 DEF ens
  <2> QED  BY <1>5, <1>9, <2>1 DEF ListOf
<1>12. /\ Deployed' = Deployed
       /\ \A m \in Label : (OnList(m) => OnList(m)') /\ (Off(m) => Off(m)')
  BY <1>2, <1>5 DEF Deployed, OnList, Off, ens
<1>13. DoneOf(p)'
  <2>1. SUFFICES ASSUME Active(p)', r.whole, Publishing(r)
                 PROVE  /\ \A k \in Key : SetStep[k] \notin StepsOf(t) =>
                              name[l][k] = Value(k, r.contract)
                        /\ "writeList" \notin StepsOf(t) => \A m \in {l} : OnList(m)'
    BY <1>2, <1>9 DEF DoneOf, Publishing, SameRun, ens
  <2>2. /\ \A k \in Key : SetStep[k] \notin StepsOf(r.todo) => name[l][k] = Value(k, r.contract)
        /\ "writeList" \notin StepsOf(r.todo) => OnList(l)
    BY <1>1, <2>1 DEF DoneOf
  <2>3. \A k \in Key : SetStep[k] \notin {"readList", "writeList"}
    <3>1. /\ SetStep["subnode"] = "set subnode" /\ SetStep["addr"] = "set addr"
          /\ SetStep["chainId"] = "set chainId" /\ SetStep["contract"] = "set contract"
      BY DEF SetStep
    <3> QED  BY <3>1 DEF Key
  <2>4. ASSUME "writeList" \in StepsOf(r.todo), "writeList" \notin StepsOf(t)
        PROVE  \A m \in {l} : OnList(m)'
    <3>1. Adds(p)
      BY <2>1 DEF Adds, Publishing
    <3>2. Head(Tail(r.todo)) = "writeList" /\ Tail(r.todo) # <<>> /\ InOrder(Tail(r.todo))
      BY <1>1, OneStep
    <3>3. "writeList" \in StepsOf(Tail(r.todo))
      BY <3>2, OneStep
    <3>4. l \in list
      BY <1>4, <2>4, <3>1, <3>3
    <3> QED  BY <1>2, <1>5, <3>4 DEF OnList, ens
  <2> QED  BY <1>1, <1>6, <1>12, <2>2, <2>3, <2>4
<1>14. WizOf(p)'
  <2>1. \A m \in Label : Claimed(m)' = Claimed(m)
    BY <1>2 DEF Claimed, ens
  <2> QED  BY <1>1, <1>5, <1>6, <1>9, <2>1 DEF WizOf, SameRun, Active
<1>15. Elsewhere(p)
  BY <1>2, <1>5, <1>9, <1>12 DEF Elsewhere, Alone, ens, files
<1>16. RetractOf(p)'
  <2>1. /\ UNCHANGED <<name, profile>> /\ RetractOf(p) /\ run'[p].op = r.op /\ run'[p].label = l
        /\ run'[p].visibility = r.visibility
    BY <1>2, <1>9 DEF NamesInv, ens, files, SameRun
  <2>3. r.op \in {"unpublish", "delist"} =>
          ("writeList" \notin StepsOf(t) => \A m \in {l} : Off(m)')
    <3>1. SUFFICES ASSUME r.op \in {"unpublish", "delist"}, "writeList" \notin StepsOf(t)
                   PROVE  l \notin listed'
      BY <2>1 DEF Off
    <3>2. ~Adds(p) /\ FromCli(p)
      BY <3>1 DEF Adds, FromCli
    <3>3. Head(Tail(r.todo)) = "writeList" /\ Tail(r.todo) # <<>> /\ InOrder(Tail(r.todo))
      BY <1>1, OneStep
    <3>4. "writeList" \in StepsOf(Tail(r.todo))
      BY <3>3, OneStep
    <3>5. l \notin list
      BY <1>4, <3>1, <3>2, <3>4
    <3> QED  BY <1>2, <1>5, <3>2, <3>5 DEF ens
  <2>4. \A key \in {"addr", "contract"} :
          ClearStep[key] \notin StepsOf(t) => ClearStep[key] \notin StepsOf(r.todo)
    <3>1. ClearStep["addr"] = "clear addr" /\ ClearStep["contract"] = "clear contract"
      BY DEF ClearStep
    <3> QED  BY <1>6, <3>1
  <2>5. Retracts(run[p])'
    BY <1>1, <1>9, <2>1, <2>3, <2>4 DEF RetractOf, Retracts
  <2> QED  BY <2>5 DEF RetractOf
<1>17. TypeInv' /\ ProfInv'
  <2>1. \A q \in Operator : run'[q].op \in Command \cup {"none"} /\ run'[q].list \subseteq Label
    BY <1>9 DEF RunSet
  <2>2. TypeOK'
    BY <1>1, <1>2, <2>1 DEF TypeInv, TypeOK, Deployed, Claimed, ens, files
  <2> QED  BY <1>1, <1>2, <1>5, <1>9, <1>12, <2>2 DEF TypeInv, ens, files, NamesInv, ProfInv
<1>18. Own(p)
  <2>1. \A m \in {l} : published'[m] = None /\ UnnamedOf(m)'
    <3>1. PubOf(l) /\ UnnamedOf(l)
      BY <1>1 DEF NamesInv
    <3> QED  BY <1>1, <1>2, <3>1 DEF PubOf, Running, Active, UnnamedOf, Claimed, ens, files
  <2>2. Active(p)' /\ r.op \in {"unpublish", "delist"} => profile'[l] # None
    BY <1>1, <1>2 DEF RunOf, files
  <2>3. run'[p].contract \in Deployed' \cup {None}
    BY <1>1, <1>9, <1>12 DEF RunOf
  <2> QED  BY <1>11, <1>13, <1>14, <1>17, <1>16, <2>1, <2>2, <2>3 DEF Own
<1> QED  BY <1>10, <1>15, <1>18, Onwards

LEMMA WriteListStep ==
    ASSUME NamesInv, NEW p \in Operator, WriteList(p)
    PROVE  NamesInv'
<1> DEFINE r == run[p]
           l == run[p].label
<1>1. /\ Active(p) /\ RunOf(p) /\ ListOf(p) /\ DoneOf(p) /\ WizOf(p)
      /\ run \in [Operator -> RunSet] /\ r \in RunSet /\ Program(r) /\ InOrder(r.todo)
      /\ r.todo # <<>> /\ l \in Label /\ Head(r.todo) = "writeList" /\ TypeInv
  BY DEF WriteList, At, Active, NamesInv, TypeInv, RunOf, Program
<1>2. UNCHANGED <<lane, treasury, name, files, published, misreads>>
  BY DEF WriteList, count
<1>3. /\ listed' = NewList(p) /\ clobbered' = (clobbered \/ r.stale)
      /\ run' = [q \in Operator |-> IF q = p THEN [run[p] EXCEPT !.todo = Tail(@)]
                                    ELSE [run[q] EXCEPT !.stale = run[q].todo # <<>>]]
  BY DEF WriteList
<1>4. PICK t : t = Tail(r.todo)
  OBVIOUS
<1>5. /\ InOrder(t) /\ StepsOf(t) \subseteq StepsOf(r.todo)
      /\ StepsOf(r.todo) \subseteq StepsOf(t) \cup {"writeList"}
      /\ Ahead(r.todo) => Ahead(t)
      /\ t # <<>> => Head(t) # "deploy" /\ Head(t) # "writeList"
  BY <1>1, <1>4, OneStep
<1>6. t \in Seq(Steps)
  BY <1>5 DEF InOrder
<1>7. PICK r2 : r2 = [r EXCEPT !.todo = t]
  OBVIOUS
<1>8. /\ r2 \in RunSet /\ r2.todo = t /\ SameRun(r, r2) /\ r2.contract = r.contract
      /\ r2.whole = r.whole
  BY <1>1, <1>6, <1>7 DEF RunSet, SameRun
<1>9. run'[p] = r2
  BY <1>3, <1>4, <1>7
<1>10. ASSUME NEW q \in Operator \ {p}
       PROVE  /\ run'[q] \in RunSet /\ SameRun(run[q], run'[q])
              /\ run'[q].contract = run[q].contract /\ run'[q].whole = run[q].whole
              /\ run'[q].todo = run[q].todo /\ run'[q].list = run[q].list
              /\ ~run'[q].stale => ~Active(q)
  <2>1. PICK stale \in BOOLEAN : stale = (run[q].todo # <<>>)
    OBVIOUS
  <2>2. run'[q] = [run[q] EXCEPT !.stale = stale]
    BY <1>3, <2>1
  <2>3. /\ run'[q] \in RunSet /\ SameRun(run[q], run'[q])
        /\ run'[q].contract = run[q].contract /\ run'[q].whole = run[q].whole
        /\ run'[q].todo = run[q].todo /\ run'[q].list = run[q].list
        /\ run'[q].stale = stale
    BY <1>1, <2>2 DEF RunSet, SameRun
  <2>4. ~run'[q].stale => ~Active(q)
    BY <2>1, <2>3 DEF Active
  <2> QED  BY <2>3, <2>4
<1>11. run' \in [Operator -> RunSet]
  <2>1. \A q \in Operator : run'[q] \in RunSet
    BY <1>8, <1>9, <1>10
  <2> QED  BY <1>3, <2>1
<1>12. Moves(p)
  <2>1. "deploy" \in StepsOf(r.todo) => "deploy" \in StepsOf(t)
    BY <1>5
  <2>2. Onward(r, run'[p])
    BY <1>5, <1>8, <1>9, <2>1 DEF Onward
  <2> QED  BY <1>1, <1>10, <1>11, <2>2 DEF Moves
<1>13. /\ Deployed' = Deployed /\ listed' \subseteq Label
       /\ \A m \in Label \ {l} : (OnList(m) => OnList(m)') /\ (Off(m) => Off(m)')
       /\ Adds(p) <=> l \in listed'
  <2>1. listed' \subseteq Label
    BY <1>1, <1>3 DEF NewList, RunSet
  <2>2. ASSUME NEW m \in Label \ {l}, OnList(m) PROVE OnList(m)'
    <3>1. CASE r.stale \/ clobbered \/ misreads > 0
      BY <1>2, <1>3, <3>1 DEF OnList
    <3>2. CASE ~(r.stale \/ clobbered \/ misreads > 0)
      <4>1. r.list = listed /\ m \in listed
        BY <1>1, <2>2, <3>2 DEF ListOf, OnList
      <4>2. m \in listed'
        BY <1>3, <4>1 DEF NewList
      <4> QED  BY <4>2 DEF OnList
    <3> QED  BY <3>1, <3>2
  <2>3. Adds(p) <=> l \in listed'
    BY <1>3 DEF NewList
  <2>4. ASSUME NEW m \in Label \ {l}, Off(m) PROVE Off(m)'
    <3>1. CASE r.stale \/ clobbered
      BY <1>3, <3>1 DEF Off
    <3>2. CASE ~(r.stale \/ clobbered)
      <4>1. r.list \subseteq listed /\ m \notin listed
        BY <1>1, <2>4, <3>2 DEF ListOf, Off
      <4>2. m \notin listed'
        BY <1>3, <4>1 DEF NewList
      <4> QED  BY <4>2 DEF Off
    <3> QED  BY <3>1, <3>2
  <2> QED  BY <1>2, <2>1, <2>2, <2>3, <2>4 DEF Deployed
<1>14. ListOf(p)'
  BY <1>5, <1>8, <1>9 DEF ListOf, Active
<1>15. DoneOf(p)'
  <2>1. SUFFICES ASSUME Active(p)', r.whole, Publishing(r)
                 PROVE  /\ \A k \in Key : SetStep[k] \notin StepsOf(t) =>
                              name[l][k] = Value(k, r.contract)
                        /\ \A m \in {l} : OnList(m)'
    BY <1>2, <1>8, <1>9 DEF DoneOf, Publishing, SameRun
  <2>2. \A k \in Key : SetStep[k] \notin StepsOf(r.todo) => name[l][k] = Value(k, r.contract)
    BY <1>1, <2>1 DEF DoneOf
  <2>3. \A k \in Key : SetStep[k] # "writeList"
    <3>1. /\ SetStep["subnode"] = "set subnode" /\ SetStep["addr"] = "set addr"
          /\ SetStep["chainId"] = "set chainId" /\ SetStep["contract"] = "set contract"
      BY DEF SetStep
    <3> QED  BY <3>1 DEF Key
  <2>4. Adds(p)
    BY <2>1 DEF Adds, Publishing
  <2> QED  BY <1>5, <1>13, <2>2, <2>3, <2>4 DEF OnList
<1>16. WizOf(p)'
  <2>1. \A m \in Label : Claimed(m)' = Claimed(m)
    BY <1>2 DEF Claimed
  <2> QED  BY <1>1, <1>2, <1>5, <1>8, <1>9, <2>1 DEF WizOf, SameRun, Active
<1>17. Elsewhere(p)
  BY <1>2, <1>10, <1>13 DEF Elsewhere, files
<1>18. RetractOf(p)'
  <2>1. /\ UNCHANGED <<name, profile>> /\ RetractOf(p) /\ run'[p].op = r.op /\ run'[p].label = l
        /\ run'[p].visibility = r.visibility
    BY <1>2, <1>8, <1>9 DEF NamesInv, files, SameRun
  <2>3. r.op \in {"unpublish", "delist"} => \A m \in {l} : Off(m)'
    BY <1>13 DEF Off, Adds
  <2>4. \A key \in {"addr", "contract"} :
          ClearStep[key] \notin StepsOf(t) => ClearStep[key] \notin StepsOf(r.todo)
    <3>1. ClearStep["addr"] = "clear addr" /\ ClearStep["contract"] = "clear contract"
      BY DEF ClearStep
    <3> QED  BY <1>5, <3>1
  <2>5. Retracts(run[p])'
    BY <1>1, <1>8, <1>9, <2>1, <2>3, <2>4 DEF RetractOf, Retracts
  <2> QED  BY <2>5 DEF RetractOf
<1>19. TypeInv' /\ ProfInv'
  <2>1. \A q \in Operator : run'[q].op \in Command \cup {"none"} /\ run'[q].list \subseteq Label
    BY <1>11 DEF RunSet
  <2>2. TypeOK'
    BY <1>1, <1>2, <1>13, <2>1 DEF TypeInv, TypeOK, Claimed, files
  <2>3. clobbered' \in BOOLEAN
    BY <1>1, <1>3 DEF TypeInv, RunSet
  <2> QED  BY <1>1, <1>2, <1>11, <1>13, <2>2, <2>3 DEF TypeInv, files, NamesInv, ProfInv
<1>20. Own(p)
  <2>1. \A m \in {l} : published'[m] = None /\ UnnamedOf(m)'
    <3>1. PubOf(l) /\ UnnamedOf(l)
      BY <1>1 DEF NamesInv
    <3> QED  BY <1>1, <1>2, <3>1 DEF PubOf, Running, Active, UnnamedOf, Claimed, files
  <2>2. Active(p)' /\ r.op \in {"unpublish", "delist"} => profile'[l] # None
    BY <1>1, <1>2 DEF RunOf, files
  <2>3. run'[p].contract \in Deployed' \cup {None}
    BY <1>1, <1>8, <1>9, <1>13 DEF RunOf
  <2> QED  BY <1>14, <1>15, <1>16, <1>19, <1>18, <2>1, <2>2, <2>3 DEF Own
<1> QED  BY <1>12, <1>17, <1>20, Onwards

\* The steps that end a run: the profile, the archive and the reading back.
LEMMA EndStep ==
    ASSUME NamesInv, NEW p \in Operator, Active(p), Advance(p),
           Head(run[p].todo) \in {"save", "check", "archive", "unfile"},
           UNCHANGED <<lane, treasury, ens, clobbered, misreads>>,
           profile' \in [Label -> Profile \cup {None}],
           archive' \in [Label -> Profile \cup {None}],
           \A m \in Label \ {run[p].label} : profile'[m] = profile[m],
           \A m \in {run[p].label} : profile'[m] # None =>
               /\ profile'[m].contract \in Deployed
               /\ ~profile'[m].named => profile'[m].visibility = "private",
           Head(run[p].todo) = "archive" => UNCHANGED profile,
           \/ UNCHANGED published
           \/ Head(run[p].todo) \in {"save", "check"} /\ Publishing(run[p]) /\ Publish(p)
              /\ run[p].visibility = "public"
    PROVE  NamesInv'
<1> DEFINE r == run[p]
           l == run[p].label
<1>1. /\ RunOf(p) /\ DoneOf(p) /\ TypeInv /\ r \in RunSet /\ Program(r) /\ InOrder(r.todo)
      /\ r.todo # <<>> /\ l \in Label
  BY DEF NamesInv, TypeInv, RunOf, Program, Active
<1>2. /\ Moves(p) /\ Alone(p) /\ run'[p].todo = Tail(r.todo)
      /\ run'[p].contract = r.contract /\ run'[p].whole = r.whole
      /\ run'[p].op = r.op /\ run'[p].label = l
      /\ run'[p].visibility = r.visibility /\ ListOf(p)'
  BY Advanced
<1>3. /\ Head(r.todo) \in StepsOf(r.todo)
      /\ Head(r.todo) \in {"save", "check"} => Tail(r.todo) = <<>>
  BY <1>1, OneStep
<1>4. Active(p)' => Head(r.todo) \in {"archive", "unfile"} /\ r.op = "remove"
  BY <1>1, <1>2, <1>3 DEF Active, Program
<1>5. DoneOf(p)' /\ WizOf(p)' /\ RetractOf(p)'
  BY <1>2, <1>4 DEF DoneOf, WizOf, Publishing, RetractOf, Retracts
<1>6. Deployed' = Deployed /\ \A m \in Label : OnList(m)' = OnList(m) /\ Off(m)' = Off(m)
  BY DEF Deployed, OnList, Off, ens
<1>7. /\ published' \in [Label -> Swarm \cup {None}]
      /\ \A m \in Label \ {l} : published'[m] = published[m]
  <2>1. published \in [Label -> Swarm \cup {None}] /\ r.contract \in Swarm \cup {None}
    BY <1>1 DEF TypeInv, TypeOK, RunSet
  <2> QED  BY <2>1 DEF Publish
<1>8. ASSUME NEW m \in {l}, published'[m] # None
      PROVE  ~Active(p)' /\ OnList(m)' /\ name'[m] = [key \in Key |-> Value(key, published'[m])]
  <2>1. published[m] = None
    BY <1>1 DEF NamesInv, PubOf, Running, Active
  <2>2. /\ Head(r.todo) \in {"save", "check"} /\ Publishing(r) /\ r.whole
        /\ published'[m] = r.contract
    BY <1>1, <1>8, <2>1 DEF Publish, TypeInv, TypeOK
  <2>3. StepsOf(r.todo) = {Head(r.todo)} /\ ~Active(p)'
    <3>1. StepsOf(r.todo) \subseteq StepsOf(Tail(r.todo)) \cup {Head(r.todo)}
      BY <1>1, OneStep
    <3>2. Tail(r.todo) = <<>> /\ StepsOf(<<>>) = {}
      BY <1>3, <2>2, Blocks
    <3> QED  BY <1>2, <1>3, <3>1, <3>2 DEF Active
  <2>4. /\ \A k \in Key : SetStep[k] \notin {"save", "check"}
    <3>1. /\ SetStep["subnode"] = "set subnode" /\ SetStep["addr"] = "set addr"
          /\ SetStep["chainId"] = "set chainId" /\ SetStep["contract"] = "set contract"
      BY DEF SetStep
    <3> QED  BY <3>1 DEF Key
  <2>5. OnList(m) /\ \A k \in Key : name[m][k] = Value(k, r.contract)
    BY <1>1, <2>2, <2>3, <2>4 DEF DoneOf
  <2>6. name[m] = [key \in Key |-> name[m][key]]
    BY <1>1 DEF TypeInv
  <2>7. name'[m] = [key \in Key |-> Value(key, published'[m])]
    BY <2>2, <2>5, <2>6 DEF ens
  <2> QED  BY <1>1, <1>6, <2>3, <2>5, <2>7
<1>9. Elsewhere(p)
  BY <1>2, <1>6, <1>7 DEF Elsewhere, Alone, ens
<1>10. TypeInv' /\ ProfInv'
  <2>1. run' \in [Operator -> RunSet]
    BY <1>2 DEF Moves
  <2>2. \A q \in Operator : run'[q].op \in Command \cup {"none"} /\ run'[q].list \subseteq Label
    BY <2>1 DEF RunSet
  <2>3. \A m \in Label : {profile'[m], archive'[m]} \subseteq Profile \cup {None}
    OBVIOUS
  <2>4. TypeOK'
    BY <1>1, <1>6, <1>7, <2>2, <2>3 DEF TypeInv, TypeOK, Claimed, ens
  <2>5. ProfInv'
    BY <1>6 DEF NamesInv, ProfInv
  <2> QED  BY <1>1, <2>1, <2>4, <2>5 DEF TypeInv, ens
<1>11. Own(p)
  <2>1. Active(p)' /\ r.op \in {"unpublish", "delist"} => profile'[l] # None
    BY <1>4
  <2>2. run'[p].contract \in Deployed' \cup {None}
    BY <1>1, <1>2, <1>6 DEF RunOf
  <2>3. \A m \in {l} : UnnamedOf(m)'
    BY DEF UnnamedOf, Claimed, ens
  <2> QED  BY <1>2, <1>5, <1>8, <1>10, <2>1, <2>2, <2>3 DEF Own
<1> QED  BY <1>2, <1>9, <1>11, Onwards

LEMMA SaveStep ==
    ASSUME NamesInv, NEW p \in Operator, Save(p)
    PROVE  NamesInv'
<1> DEFINE r == run[p]
           l == run[p].label
<1>1. /\ Active(p) /\ RunOf(p) /\ TypeInv /\ ProfInv /\ r \in RunSet /\ Program(r)
      /\ InOrder(r.todo) /\ r.todo # <<>> /\ l \in Label /\ Head(r.todo) = "save" /\ Advance(p)
  BY DEF Save, At, Active, NamesInv, TypeInv, RunOf, Program
<1>2. /\ UNCHANGED <<lane, treasury, ens, archive, clobbered, misreads>>
      /\ profile' = [profile EXCEPT ![l] = Saved(p)]
      /\ UNCHANGED published \/ (r.op = "create" /\ Publish(p))
  BY DEF Save, count
<1>3. /\ r.op \in {"create", "unpublish", "delist"}
      /\ r.op = "create" => r.contract # None
      /\ r.op # "create" => profile[l] # None
  <2>1. StepsOf(r.todo) \subseteq {"save"} /\ "save" \in StepsOf(r.todo)
    <3>1. /\ Tail(r.todo) = <<>> /\ "save" \in StepsOf(r.todo)
          /\ StepsOf(r.todo) \subseteq StepsOf(Tail(r.todo)) \cup {"save"}
      BY <1>1, OneStep
    <3> QED  BY <3>1, Blocks
  <2> QED  BY <1>1, <2>1 DEF Program, RunOf
<1>4. profile \in [Label -> Profile \cup {None}] /\ archive \in [Label -> Profile \cup {None}]
  BY <1>1 DEF TypeInv
<1>5. PICK f : f = Saved(p)
  OBVIOUS
<1>6. StepsOf(r.todo) = {"save"} /\ RetractOf(p) /\ UnnamedOf(l)
  <2>1. /\ Tail(r.todo) = <<>> /\ "save" \in StepsOf(r.todo)
        /\ StepsOf(r.todo) \subseteq StepsOf(Tail(r.todo)) \cup {"save"}
    BY <1>1, OneStep
  <2> QED  BY <1>1, <2>1, Blocks DEF NamesInv
<1>7. /\ f \in Profile /\ f.contract \in Deployed
      /\ ~f.named => f.visibility = "private"
  <2>1. CASE r.op = "create"
    <3>1. r.contract \in Deployed /\ r.contract \in Swarm /\ r.visibility \in Visibility
      BY <1>1, <1>3, <2>1 DEF RunOf, RunSet
    <3>2. f = [visibility |-> r.visibility, contract |-> r.contract,
               named |-> r.visibility # "private"]
      BY <1>5, <2>1 DEF Saved
    <3>3. (r.visibility # "private") \in BOOLEAN
      OBVIOUS
    <3> QED  BY <3>1, <3>2, <3>3 DEF Profile
  <2>2. CASE r.op # "create"
    <3>1. PICK old \in Profile : old = profile[l]
      BY <1>1, <1>3, <1>4, <2>2
    <3>2. old.contract \in Deployed /\ r.visibility \in Visibility
      BY <1>1, <1>3, <2>2, <3>1 DEF ProfInv, RunSet
    <3>3. f = [old EXCEPT !.visibility = r.visibility,
                          !.named = @ /\ r.visibility # "private"]
      BY <1>5, <2>2, <3>1 DEF Saved
    <3>4. PICK named \in BOOLEAN : named = (old.named /\ r.visibility # "private")
      OBVIOUS
    <3>5. f = [old EXCEPT !.visibility = r.visibility, !.named = named]
      BY <3>1, <3>3, <3>4 DEF Profile
    <3>6. f.contract = old.contract /\ f.named = named /\ f \in Profile
      BY <3>1, <3>2, <3>5 DEF Profile
    <3>7. ~named => f.visibility = "private"
      <4>1. CASE r.visibility = "private"
        BY <3>1, <3>5, <4>1 DEF Profile
      <4>2. CASE r.visibility # "private"
        <5>1. r.op = "delist" /\ (old.named => r.visibility = "semi-private")
          BY <1>1, <1>3, <1>6, <2>2, <3>1, <4>2 DEF RetractOf, Retracts, Program
        <5>2. old.named
          BY <1>1, <1>3, <1>6, <3>1, <4>2, <5>1 DEF RetractOf, Retracts
        <5> QED  BY <3>4, <4>2, <5>2
      <4> QED  BY <4>1, <4>2
    <3> QED  BY <3>2, <3>6, <3>7
  <2> QED  BY <2>1, <2>2
<1>8. /\ profile' \in [Label -> Profile \cup {None}] /\ archive' \in [Label -> Profile \cup {None}]
      /\ \A m \in Label \ {l} : profile'[m] = profile[m]
      /\ profile'[l] = f
  BY <1>1, <1>2, <1>4, <1>5, <1>7
<1>9. Publishing(r) => r.op = "create" /\ r.visibility = "public"
  BY <1>3 DEF Publishing
<1>10. \/ UNCHANGED published
       \/ Publishing(r) /\ Publish(p) /\ r.visibility = "public"
  BY <1>2 DEF Publish, Publishing
<1> QED  BY <1>1, <1>2, <1>7, <1>8, <1>10, EndStep

LEMMA ArchiveStep ==
    ASSUME NamesInv, NEW p \in Operator, Archive(p)
    PROVE  NamesInv'
<1> DEFINE l == run[p].label
<1>1. /\ Active(p) /\ TypeInv /\ ProfInv /\ l \in Label /\ Advance(p)
      /\ Head(run[p].todo) \in {"archive", "unfile"}
  BY DEF Archive, At, Active, NamesInv, TypeInv, RunOf, Program
<1>2. profile \in [Label -> Profile \cup {None}] /\ archive \in [Label -> Profile \cup {None}]
  BY <1>1 DEF TypeInv
<1>3. /\ UNCHANGED <<lane, treasury, ens, clobbered, misreads, published>>
      /\ \/ Head(run[p].todo) = "archive" /\ archive' = [archive EXCEPT ![l] = profile[l]]
            /\ UNCHANGED profile
         \/ Head(run[p].todo) = "unfile" /\ profile' = [profile EXCEPT ![l] = None]
            /\ UNCHANGED archive
  BY DEF Archive, At, count
<1>4. /\ profile' \in [Label -> Profile \cup {None}] /\ archive' \in [Label -> Profile \cup {None}]
      /\ \A m \in Label \ {l} : profile'[m] = profile[m]
      /\ \A m \in {l} : profile'[m] # None =>
           /\ profile'[m].contract \in Deployed
           /\ ~profile'[m].named => profile'[m].visibility = "private"
      /\ Head(run[p].todo) = "archive" => UNCHANGED profile
  BY <1>1, <1>2, <1>3 DEF ProfInv, NamesInv, UnnamedOf
<1> QED  BY <1>1, <1>3, <1>4, EndStep

LEMMA CheckStep ==
    ASSUME NamesInv, NEW p \in Operator, Check(p)
    PROVE  NamesInv'
<1> DEFINE r == run[p]
           l == run[p].label
<1>1. /\ Active(p) /\ RunOf(p) /\ TypeInv /\ ProfInv /\ r \in RunSet /\ Program(r)
      /\ InOrder(r.todo) /\ r.todo # <<>> /\ l \in Label /\ Head(r.todo) = "check"
  BY DEF Check, At, Active, NamesInv, TypeInv, RunOf, Program
<1>2. UNCHANGED <<lane, treasury, ens, files, clobbered, misreads>>
  BY DEF Check, count
<1>3. CASE Publish(p) /\ Advance(p)
  <2>1. Publishing(r)
    BY <1>1, OneStep DEF Program, Publishing
  <2>2. UNCHANGED published \/ (Publishing(r) /\ Publish(p) /\ r.visibility = "public")
    BY <1>3, <2>1 DEF Publish
  <2>3. /\ profile' = profile /\ archive' = archive
        /\ profile \in [Label -> Profile \cup {None}] /\ archive \in [Label -> Profile \cup {None}]
        /\ \A m \in {l} : profile'[m] # None =>
             /\ profile'[m].contract \in Deployed
             /\ ~profile'[m].named => profile'[m].visibility = "private"
    BY <1>1, <1>2 DEF TypeInv, files, ProfInv, NamesInv, UnnamedOf
  <2> QED  BY <1>1, <1>2, <1>3, <2>2, <2>3, EndStep
<1>4. CASE Throw(p) /\ UNCHANGED published
  <2>1. /\ Moves(p) /\ Alone(p) /\ ListOf(p)' /\ DoneOf(p)' /\ WizOf(p)'
        /\ run'[p].contract = run[p].contract
    BY <1>1, <1>4, Thrown
  <2>2. run'[p].contract \in Deployed' \cup {None}
    BY <1>1, <1>2, <2>1 DEF RunOf, Deployed
  <2>3. RetractOf(p)'
    BY <1>1, <1>2, <1>4, ThrownRetracts DEF ens, files
  <2> QED  BY <1>2, <1>4, <2>1, <2>2, <2>3, Quiet, Onwards DEF Own
<1> QED  BY <1>3, <1>4 DEF Check

-----------------------------------------------------------------------------
(* The beginning of a run.                                                 *)

LEMMA BeginStep ==
    ASSUME NamesInv, NEW p \in Operator, NEW r \in RunSet, Begin(p, r), Program(r),
           r.todo # <<>>, Head(r.todo) \notin {"writeList", "deploy"} \/ r.op = "create",
           Head(r.todo) # "writeList",
           Publishing(r) => Publication \subseteq StepsOf(r.todo),
           r.contract \in Deployed \cup {None},
           r.op = "wizard" => r.contract = None,
           r.op \in {"unpublish", "delist"} => profile[r.label] # None, Retracts(r)
    PROVE  NamesInv'
<1>1. /\ ~Active(p) /\ TypeInv /\ run' = [run EXCEPT ![p] = r] /\ r.label \in Label
      /\ published' = [published EXCEPT ![r.label] = None]
      /\ UNCHANGED <<lane, treasury, ens, files, clobbered, misreads>>
  BY DEF Begin, Active, NamesInv, Program
<1>2. ~Running(r.label)
  BY DEF Begin
<1>3. /\ run \in [Operator -> RunSet] /\ run' \in [Operator -> RunSet] /\ run'[p] = r
      /\ \A q \in Operator \ {p} : run'[q] = run[q]
  BY <1>1 DEF TypeInv
<1>4. /\ Deployed' = Deployed
      /\ \A m \in Label : /\ OnList(m)' = OnList(m) /\ Off(m)' = Off(m)
                          /\ Claimed(m)' = Claimed(m)
  BY <1>1 DEF Deployed, OnList, Off, Claimed, ens
<1>5. \A q \in Operator \ {p} : (Active(q)' <=> Active(q)) /\ (Active(q) => run[q].label # r.label)
  BY <1>2, <1>3 DEF Active, Running
<1>6. ApartInv'
  BY <1>3, <1>5 DEF NamesInv, ApartInv
<1>7. ASSUME NEW q \in Operator \ {p}
      PROVE  RunOf(q)' /\ ListOf(q)' /\ DoneOf(q)' /\ WizOf(q)' /\ RetractOf(q)'
  <2>1. /\ RunOf(q) /\ ListOf(q) /\ DoneOf(q) /\ WizOf(q) /\ RetractOf(q) /\ run'[q] = run[q]
        /\ Active(q)' <=> Active(q)
    BY <1>3, <1>5 DEF NamesInv
  <2>2. Active(q) => run[q].label \in Label
    BY <2>1 DEF RunOf, Program
  <2>3. RunOf(q)'
    BY <1>1, <1>4, <2>1 DEF RunOf, files
  <2>4. ListOf(q)'
    BY <1>1, <2>1 DEF ListOf, ens
  <2>5. DoneOf(q)'
    BY <1>1, <1>4, <2>1, <2>2 DEF DoneOf, ens
  <2>6. WizOf(q)'
    BY <1>1, <1>4, <2>1, <2>2 DEF WizOf
  <2>7. RetractOf(q)'
    BY <1>1, <1>4, <2>1, <2>2 DEF RetractOf, Retracts, ens, files
  <2> QED  BY <2>3, <2>4, <2>5, <2>6, <2>7
<1>8. RunOf(p)' /\ ListOf(p)' /\ DoneOf(p)' /\ WizOf(p)' /\ RetractOf(p)'
  <2>1. RunOf(p)'
    BY <1>1, <1>3, <1>4 DEF RunOf, files
  <2>2. ListOf(p)'
    BY <1>3 DEF ListOf
  <2>3. DoneOf(p)'
    BY <1>3, PublicationSteps DEF DoneOf
  <2>4. WizOf(p)'
    BY <1>3 DEF WizOf
  <2>5. RetractOf(p)'
    BY <1>1, <1>3, <1>4 DEF RetractOf, Retracts, ens, files
  <2> QED  BY <2>1, <2>2, <2>3, <2>4, <2>5
<1>9. ASSUME NEW m \in Label PROVE PubOf(m)'
  <2>1. published \in [Label -> Swarm \cup {None}]
    BY <1>1 DEF TypeInv, TypeOK
  <2>2. CASE m = r.label
    BY <1>1, <2>1, <2>2 DEF PubOf
  <2>3. CASE m # r.label
    <3>1. published'[m] = published[m] /\ PubOf(m) /\ name' = name
      BY <1>1, <2>1, <2>3 DEF NamesInv, ens
    <3>2. Running(m)' => Running(m)
      BY <1>3, <2>3 DEF Running
    <3> QED  BY <1>4, <3>1, <3>2 DEF PubOf
  <2> QED  BY <2>2, <2>3
<1>10. TypeInv' /\ ProfInv'
  <2>1. \A q \in Operator : run'[q].op \in Command \cup {"none"} /\ run'[q].list \subseteq Label
    BY <1>3 DEF RunSet
  <2>2. published' \in [Label -> Swarm \cup {None}]
    BY <1>1 DEF TypeInv, TypeOK
  <2>3. TypeOK'
    BY <1>1, <1>4, <2>1, <2>2 DEF TypeInv, TypeOK, ens, files
  <2> QED  BY <1>1, <1>3, <1>4, <2>3 DEF TypeInv, ens, files, NamesInv, ProfInv
<1>11. \A m \in Label : UnnamedOf(m)'
  BY <1>1, <1>4 DEF NamesInv, UnnamedOf, files
<1> QED  BY <1>6, <1>7, <1>8, <1>9, <1>10, <1>11 DEF NamesInv

LEMMA HeadJoined ==
    ASSUME NEW s \in Seq(Steps), NEW t \in Seq(Steps), s # <<>>
    PROVE  s \o t # <<>> /\ Head(s \o t) = Head(s)
<1> DEFINE u == s \o t
<1>1. Len(s) \in Nat /\ Len(s) > 0 /\ Head(s) = s[1] /\ Len(t) \in Nat
  BY Elements
<1>2. u \in Seq(Steps) /\ Len(u) = Len(s) + Len(t) /\ \A i \in 1..Len(s) : u[i] = s[i]
  BY ConcatProperties
<1> HIDE DEF u
<1>3. u # <<>> /\ Head(u) = u[1]
  BY <1>1, <1>2, Elements
<1>4. u[1] = s[1]
  BY <1>1, <1>2
<1> QED  BY <1>1, <1>3, <1>4 DEF u

\* A program is put together from blocks: what it may do, and how it begins.
Block(s, steps) ==
    /\ InOrder(s) /\ StepsOf(s) = steps /\ (s # <<>> => s[1] # "writeList")

LEMMA Chain ==
    ASSUME NEW s, NEW t, NEW a, NEW b, Block(s, a), Block(t, b),
           a \cap {"save", "check"} = {}, b \cap {"probe", "deploy"} = {}
    PROVE  /\ Block(s \o t, a \cup b)
           /\ s # <<>> => s \o t # <<>> /\ Head(s \o t) = Head(s)
           /\ t # <<>> => s \o t # <<>>
<1>1. InOrder(s \o t) /\ StepsOf(s \o t) = a \cup b
  BY Joined DEF Block
<1>2. s \in Seq(Steps) /\ t \in Seq(Steps) /\ s \o t \in Seq(Steps)
  BY <1>1 DEF InOrder, Block
<1>3. CASE s = <<>>
  BY <1>1, <1>2, <1>3, ConcatEmptySeq DEF Block
<1>4. CASE s # <<>>
  <2>1. s \o t # <<>> /\ Head(s \o t) = Head(s)
    BY <1>2, <1>4, HeadJoined
  <2>2. Head(s \o t) = (s \o t)[1] /\ Head(s) = s[1]
    BY <1>2, <1>4, <2>1, Elements
  <2> QED  BY <1>1, <1>4, <2>1, <2>2 DEF Block
<1> QED  BY <1>3, <1>4

LEMMA Optional ==
    ASSUME NEW condition, NEW s, NEW a, Block(s, a)
    PROVE  Block(When(condition, s), IF condition THEN a ELSE {})
<1>1. CASE condition
  BY <1>1 DEF When
<1>2. CASE ~condition
  BY <1>2, Blocks DEF When, Block
<1> QED  BY <1>1, <1>2

LEMMA Singles ==
    /\ InOrder(<<"deploy">>) /\ StepsOf(<<"deploy">>) = {"deploy"}
    /\ InOrder(<<"save">>) /\ StepsOf(<<"save">>) = {"save"} /\ <<"save">>[1] = "save"
    /\ InOrder(<<"check">>) /\ StepsOf(<<"check">>) = {"check"} /\ <<"check">>[1] = "check"
    /\ InOrder(<<"probe", "deploy">>) /\ StepsOf(<<"probe", "deploy">>) = {"probe", "deploy"}
    /\ InOrder(<<"archive", "unfile">>)
    /\ StepsOf(<<"archive", "unfile">>) = {"archive", "unfile"}
    /\ <<"archive", "unfile">>[1] = "archive"
    /\ InOrder(LaneProgram) /\ StepsOf(LaneProgram) = {"set chainId", "set contract"}
    /\ LaneProgram[1] = "set chainId"
<1>1. /\ {"deploy", "save", "check"} \subseteq Steps \ {"readList", "writeList", "probe"}
      /\ {"probe", "deploy", "archive", "unfile", "set chainId", "set contract"} \subseteq Steps
  BY DEF Steps
<1>2. InOrder(<<"deploy">>) /\ StepsOf(<<"deploy">>) = {"deploy"}
  BY <1>1, Single
<1>3. InOrder(<<"save">>) /\ StepsOf(<<"save">>) = {"save"} /\ <<"save">>[1] = "save"
  BY <1>1, Single
<1>4. InOrder(<<"check">>) /\ StepsOf(<<"check">>) = {"check"} /\ <<"check">>[1] = "check"
  BY <1>1, Single
<1>5. InOrder(<<"probe", "deploy">>) /\ StepsOf(<<"probe", "deploy">>) = {"probe", "deploy"}
  BY <1>1, Pair
<1>6. /\ InOrder(<<"archive", "unfile">>)
      /\ StepsOf(<<"archive", "unfile">>) = {"archive", "unfile"}
      /\ <<"archive", "unfile">>[1] = "archive"
  BY <1>1, Pair
<1>7. /\ InOrder(LaneProgram) /\ StepsOf(LaneProgram) = {"set chainId", "set contract"}
      /\ LaneProgram[1] = "set chainId"
  BY <1>1, Pair DEF LaneProgram
<1> QED  BY <1>2, <1>3, <1>4, <1>5, <1>6, <1>7

LEMMA BlocksAre ==
    /\ Block(ListSteps, {"readList", "writeList"})
    /\ Block(BindSteps, {"set subnode", "set addr", "set chainId", "set contract"})
    /\ Block(UnbindSteps, {"clear addr", "clear chainId", "clear contract", "clear subnode"})
    /\ Block(<<"save">>, {"save"}) /\ Block(<<"check">>, {"check"})
    /\ Block(<<"archive", "unfile">>, {"archive", "unfile"})
    /\ Block(LaneProgram, {"set chainId", "set contract"})
    /\ Block(<<"deploy">>, {"deploy"}) /\ Block(<<"probe", "deploy">>, {"probe", "deploy"})
<1>1. /\ Block(ListSteps, {"readList", "writeList"})
      /\ Block(BindSteps, {"set subnode", "set addr", "set chainId", "set contract"})
      /\ Block(UnbindSteps, {"clear addr", "clear chainId", "clear contract", "clear subnode"})
  BY Blocks DEF Block
<1>2. /\ Block(<<"save">>, {"save"}) /\ Block(<<"check">>, {"check"})
      /\ Block(<<"archive", "unfile">>, {"archive", "unfile"})
      /\ Block(LaneProgram, {"set chainId", "set contract"})
  BY Singles DEF Block
<1>3. Block(<<"deploy">>, {"deploy"}) /\ Block(<<"probe", "deploy">>, {"probe", "deploy"})
  <2>1. <<"deploy">>[1] = "deploy" /\ <<"probe", "deploy">>[1] = "probe"
    OBVIOUS
  <2> QED  BY <2>1, Singles DEF Block
<1> QED  BY <1>1, <1>2, <1>3

LEMMA CreateProgramIs ==
    ASSUME NEW v \in Visibility, NEW given \in BOOLEAN
    PROVE  LET u == CreateProgram(v, given)
           IN  /\ InOrder(u) /\ u # <<>> /\ Head(u) # "writeList"
               /\ StepsOf(u) \subseteq {"deploy", "save"} \cup Publication
               /\ "deploy" \in StepsOf(u) <=> ~given
               /\ v = "public" => Publication \subseteq StepsOf(u)
               /\ v = "private" => StepsOf(u) \subseteq {"deploy", "save"}
<1>1. PICK bind : bind = IF v # "private" THEN StepsOf(BindSteps) ELSE {}
  OBVIOUS
<1>2. PICK list : list = IF v = "public" THEN StepsOf(ListSteps) ELSE {}
  OBVIOUS
<1>3. PICK b : b = When(v # "private", BindSteps)
  OBVIOUS
<1>4. PICK c : c = When(v = "public", ListSteps)
  OBVIOUS
<1>5. PICK d, e, new : /\ d = When(~given, <<"deploy">>) /\ e = <<"save">>
                       /\ new = IF ~given THEN {"deploy"} ELSE {}
  OBVIOUS
<1>6. Block(b, bind) /\ Block(c, list) /\ Block(d, new) /\ Block(e, {"save"})
  <2>1. Block(BindSteps, StepsOf(BindSteps)) /\ Block(ListSteps, StepsOf(ListSteps))
    BY BlocksAre DEF Block
  <2>2. Block(b, bind)
    BY <1>1, <1>3, <2>1, Optional
  <2>3. Block(c, list)
    BY <1>2, <1>4, <2>1, Optional
  <2>4. Block(<<"deploy">>, {"deploy"}) /\ Block(e, {"save"})
    BY <1>5, BlocksAre
  <2>5. Block(d, new)
    BY <1>5, <2>4, Optional
  <2> QED  BY <2>2, <2>3, <2>4, <2>5
<1>7. bind \cup list \subseteq Publication
  BY <1>1, <1>2 DEF Publication
<1>8. (bind \cup list) \cap {"save", "check", "probe", "deploy"} = {}
  BY <1>1, <1>2, Blocks
<1>9. new \subseteq {"deploy"} /\ ("deploy" \in new <=> ~given)
  BY <1>5
<1>10. PICK f, fs : f = d \o b /\ fs = new \cup bind
  OBVIOUS
<1>11. Block(f, fs)
  <2>1. new \cap {"save", "check"} = {} /\ bind \cap {"probe", "deploy"} = {}
    BY <1>8, <1>9
  <2> QED  BY <1>6, <1>10, <2>1, Chain
<1>12. PICK g, gs : g = f \o c /\ gs = fs \cup list
  OBVIOUS
<1>13. Block(g, gs)
  <2>1. fs \cap {"save", "check"} = {} /\ list \cap {"probe", "deploy"} = {}
    BY <1>8, <1>9, <1>10
  <2> QED  BY <1>6, <1>11, <1>12, <2>1, Chain
<1>14. PICK u : u = g \o e
  OBVIOUS
<1>15. Block(u, gs \cup {"save"}) /\ u # <<>>
  <2>1. gs \cap {"save", "check"} = {} /\ {"save"} \cap {"probe", "deploy"} = {}
    BY <1>8, <1>9, <1>10, <1>12
  <2>2. e # <<>>
    BY <1>5
  <2> QED  BY <1>6, <1>13, <1>14, <2>1, <2>2, Chain
<1>16. InOrder(u) /\ StepsOf(u) = gs \cup {"save"} /\ Head(u) # "writeList"
  <2>1. u \in Seq(Steps) /\ u[1] # "writeList"
    BY <1>15 DEF Block, InOrder
  <2> QED  BY <1>15, <2>1, Elements DEF Block
<1>17. CreateProgram(v, given) = u
  BY <1>3, <1>4, <1>5, <1>10, <1>12, <1>14 DEF CreateProgram
<1>18. v = "public" => Publication \subseteq gs
  BY <1>1, <1>2, <1>10, <1>12 DEF Publication
<1>19. v = "private" => gs = new
  BY <1>1, <1>2, <1>10, <1>12
<1>20. gs \subseteq {"deploy"} \cup Publication /\ ("deploy" \in gs <=> ~given)
  BY <1>7, <1>8, <1>9, <1>10, <1>12
<1> QED  BY <1>9, <1>15, <1>16, <1>17, <1>18, <1>19, <1>20

LEMMA WizardProgramIs ==
    /\ InOrder(WizardProgram) /\ WizardProgram # <<>> /\ Head(WizardProgram) = "probe"
    /\ StepsOf(WizardProgram) = {"probe", "deploy", "check"} \cup Publication
<1>1. PICK d, e : d = <<"probe", "deploy">> /\ e = <<"check">>
  OBVIOUS
<1>2. PICK bind, list : bind = StepsOf(BindSteps) /\ list = StepsOf(ListSteps)
  OBVIOUS
<1>3. /\ Block(d, {"probe", "deploy"}) /\ Block(e, {"check"})
      /\ Block(BindSteps, bind) /\ Block(ListSteps, list)
  BY <1>1, <1>2, BlocksAre DEF Block
<1>4. (bind \cup list) \cap {"save", "check", "probe", "deploy"} = {}
  BY <1>2, Blocks
<1>5. d # <<>> /\ Head(d) = "probe"
  BY <1>1
<1>6. PICK f, fs : f = d \o BindSteps /\ fs = {"probe", "deploy"} \cup bind
  OBVIOUS
<1>7. Block(f, fs) /\ f # <<>> /\ Head(f) = "probe"
  <2>1. {"probe", "deploy"} \cap {"save", "check"} = {} /\ bind \cap {"probe", "deploy"} = {}
    BY <1>4
  <2> QED  BY <1>3, <1>5, <1>6, <2>1, Chain
<1>8. PICK g, gs : g = f \o ListSteps /\ gs = fs \cup list
  OBVIOUS
<1>9. Block(g, gs) /\ g # <<>> /\ Head(g) = "probe"
  <2>1. fs \cap {"save", "check"} = {} /\ list \cap {"probe", "deploy"} = {}
    BY <1>4, <1>6
  <2> QED  BY <1>3, <1>7, <1>8, <2>1, Chain
<1>10. Block(g \o e, gs \cup {"check"}) /\ g \o e # <<>> /\ Head(g \o e) = "probe"
  <2>1. gs \cap {"save", "check"} = {} /\ {"check"} \cap {"probe", "deploy"} = {}
    BY <1>4, <1>6, <1>8
  <2> QED  BY <1>3, <1>9, <2>1, Chain
<1>11. WizardProgram = g \o e
  BY <1>1, <1>6, <1>8 DEF WizardProgram
<1> QED  BY <1>2, <1>6, <1>8, <1>10, <1>11 DEF Block, Publication

Retracting == StepsOf(ListSteps) \cup StepsOf(UnbindSteps) \cup {"save"}

LEMMA OtherPrograms ==
    ASSUME NEW named \in BOOLEAN, NEW cleanup \in BOOLEAN
    PROVE  /\ \E steps \in SUBSET Retracting :
                /\ Block(UnpublishProgram(named), steps) /\ UnpublishProgram(named) # <<>>
                /\ named => {"writeList", "clear addr", "clear contract"} \subseteq steps
           /\ \E steps \in SUBSET Retracting :
                /\ Block(DelistProgram(named), steps) /\ DelistProgram(named) # <<>>
                /\ named => "writeList" \in steps
           /\ \E steps \in SUBSET ((Retracting \ {"save"}) \cup {"archive", "unfile"}) :
                Block(RemoveProgram(named, cleanup), steps) /\ RemoveProgram(named, cleanup) # <<>>
<1>1. PICK lists, unbinds : /\ lists = {"readList", "writeList"}
                            /\ unbinds = {"clear addr", "clear chainId",
                                            "clear contract", "clear subnode"}
  OBVIOUS
<1>2. Block(ListSteps, lists) /\ Block(UnbindSteps, unbinds)
  BY <1>1, BlocksAre
<1>3. PICK s, t : s = <<"save">> /\ t = <<"archive", "unfile">>
  OBVIOUS
<1>4. Block(s, {"save"}) /\ Block(t, {"archive", "unfile"})
  BY <1>3, BlocksAre
<1>5. s # <<>> /\ t # <<>>
  BY <1>3
<1>6. /\ (lists \cup unbinds) \cap {"save", "check", "probe", "deploy", "unfile"} = {}
      /\ Retracting = lists \cup unbinds \cup {"save"}
  BY <1>1, Blocks DEF Retracting
<1>7. PICK a, as : a = When(named, ListSteps) /\ as = IF named THEN lists ELSE {}
  OBVIOUS
<1>8. Block(a, as) /\ as \subseteq lists
  BY <1>2, <1>7, Optional
<1>9. /\ Block(DelistProgram(named), as \cup {"save"}) /\ DelistProgram(named) # <<>>
  <2>1. as \cap {"save", "check"} = {} /\ {"save"} \cap {"probe", "deploy"} = {}
    BY <1>6, <1>8
  <2>2. Block(a \o s, as \cup {"save"}) /\ a \o s # <<>>
    BY <1>4, <1>5, <1>8, <2>1, Chain
  <2> QED  BY <1>3, <1>7, <2>2 DEF DelistProgram
<1>10. PICK b, bs : b = When(named, ListSteps \o UnbindSteps)
                    /\ bs = IF named THEN lists \cup unbinds ELSE {}
  OBVIOUS
<1>11. Block(b, bs) /\ bs \subseteq lists \cup unbinds
  <2>1. lists \cap {"save", "check"} = {} /\ unbinds \cap {"probe", "deploy"} = {}
    BY <1>6
  <2>2. Block(ListSteps \o UnbindSteps, lists \cup unbinds)
    BY <1>2, <2>1, Chain
  <2> QED  BY <1>10, <2>2, Optional
<1>12. Block(UnpublishProgram(named), bs \cup {"save"}) /\ UnpublishProgram(named) # <<>>
  <2>1. bs \cap {"save", "check"} = {} /\ {"save"} \cap {"probe", "deploy"} = {}
    BY <1>6, <1>11
  <2>2. Block(b \o s, bs \cup {"save"}) /\ b \o s # <<>>
    BY <1>4, <1>5, <1>11, <2>1, Chain
  <2> QED  BY <1>3, <1>10, <2>2 DEF UnpublishProgram
<1>13. PICK c, cs : c = When(named /\ cleanup, UnbindSteps)
                    /\ cs = IF named /\ cleanup THEN unbinds ELSE {}
  OBVIOUS
<1>14. Block(c, cs) /\ cs \subseteq unbinds
  BY <1>2, <1>13, Optional
<1>15. PICK d, ds : d = a \o c /\ ds = as \cup cs
  OBVIOUS
<1>16. Block(d, ds)
  <2>1. as \cap {"save", "check"} = {} /\ cs \cap {"probe", "deploy"} = {}
    BY <1>6, <1>8, <1>14
  <2> QED  BY <1>8, <1>14, <1>15, <2>1, Chain
<1>17. /\ Block(RemoveProgram(named, cleanup), ds \cup {"archive", "unfile"})
       /\ RemoveProgram(named, cleanup) # <<>>
  <2>1. ds \cap {"save", "check"} = {} /\ {"archive", "unfile"} \cap {"probe", "deploy"} = {}
    BY <1>6, <1>8, <1>14, <1>15
  <2>2. Block(d \o t, ds \cup {"archive", "unfile"}) /\ d \o t # <<>>
    BY <1>4, <1>5, <1>16, <2>1, Chain
  <2> QED  BY <1>3, <1>7, <1>13, <1>15, <2>2 DEF RemoveProgram
<1>18. /\ as \cup {"save"} \in SUBSET Retracting
       /\ bs \cup {"save"} \in SUBSET Retracting
       /\ ds \cup {"archive", "unfile"}
            \in SUBSET ((Retracting \ {"save"}) \cup {"archive", "unfile"})
       /\ named => "writeList" \in as /\ {"writeList", "clear addr", "clear contract"} \subseteq bs
  BY <1>1, <1>6, <1>7, <1>8, <1>10, <1>11, <1>14, <1>15
<1> QED  BY <1>9, <1>12, <1>17, <1>18

\* What a command on a swarm that has a profile is to do.
Plans(op, l, v, steps) ==
    LET f == profile[l] IN
    /\ steps \cap {"probe", "check", "deploy"} = {}
    /\ "save" \in steps => op \in {"unpublish", "delist"}
    /\ steps \cap {"archive", "unfile"} # {} => op = "remove"
    /\ steps \cap StepsOf(BindSteps) # {} => op = "lane"
    /\ op \in {"unpublish", "delist"} => f # None /\ (f.named => "writeList" \in steps)
    /\ op = "unpublish" =>
         v = "private" /\ (f.named => {"clear addr", "clear contract"} \subseteq steps)
    /\ op = "delist" => v = IF f.named THEN "semi-private" ELSE "private"
    /\ op = "lane" => f # None /\ f.named

LEMMA OtherBegins ==
    ASSUME NamesInv, NEW p \in Operator, NEW r \in RunSet, Begin(p, r),
           r.op \in Command \ {"create", "wizard"}, r.label \in Label, r.todo # <<>>,
           NEW steps, Block(r.todo, steps), Plans(r.op, r.label, r.visibility, steps),
           r.contract \in Deployed \cup {None}
    PROVE  NamesInv'
<1>1. /\ InOrder(r.todo) /\ StepsOf(r.todo) = steps /\ Head(r.todo) = r.todo[1]
      /\ r.todo[1] # "writeList"
  BY Elements DEF Block, InOrder
<1>2. Head(r.todo) \in steps
  BY <1>1, OneStep
<1>3. StepsOf(r.todo) \cap {"probe", "check"} = {} /\ "deploy" \notin StepsOf(r.todo)
  BY <1>1 DEF Plans
<1>4. Program(r)
  BY <1>1, <1>3 DEF Program, Publishing, Plans
<1>5. Head(r.todo) \notin {"writeList", "deploy"} /\ ~Publishing(r)
  BY <1>1, <1>2 DEF Publishing, Plans
<1>6. Retracts(r)
  <2>1. ClearStep["addr"] = "clear addr" /\ ClearStep["contract"] = "clear contract"
    BY DEF ClearStep
  <2> QED  BY <1>1, <2>1 DEF Retracts, Plans
<1>7. r.op \in {"unpublish", "delist"} => profile[r.label] # None
  BY DEF Plans
<1> QED  BY <1>4, <1>5, <1>6, <1>7, BeginStep
LEMMA IdleRun ==
    /\ Idle \in RunSet /\ Idle.contract = None /\ Idle.expects = None /\ Idle.whole = TRUE
    /\ Idle.todo = <<>>
<1>1. <<>> \in Seq(Steps) /\ "public" \in Visibility
  BY Blocks DEF InOrder, Visibility
<1>2. /\ "none" \in Command \cup {"none"}
      /\ None \in Label \cup {None} /\ None \in Swarm \cup {None}
      /\ None \in Treasury \cup {None} /\ {} \in SUBSET Label
  OBVIOUS
<1> QED  BY <1>1, <1>2 DEF Idle, RunSet

Ordering(r, op, l, v, todo) ==
    /\ r \in RunSet /\ r.op = op /\ r.label = l /\ r.visibility = v /\ r.todo = todo
    /\ r.contract = None /\ r.expects = None /\ r.whole = TRUE

LEMMA Orders ==
    ASSUME NEW op \in Command, NEW l \in Label, NEW v \in Visibility, NEW todo \in Seq(Steps)
    PROVE  Ordering(Order(op, l, v, todo), op, l, v, todo)
<1>1. PICK i \in RunSet : i = Idle /\ i.contract = None /\ i.expects = None /\ i.whole = TRUE
  BY IdleRun
<1>2. PICK r : r = [i EXCEPT !.op = op, !.label = l, !.visibility = v, !.todo = todo]
  OBVIOUS
<1>3. Order(op, l, v, todo) = r
  BY <1>1, <1>2 DEF Order
<1>4. Ordering(r, op, l, v, todo)
  BY <1>1, <1>2 DEF RunSet, Ordering
<1> QED  BY <1>3, <1>4

\* With a swarm to deploy, or for one that was.
LEMMA CreateBegins ==
    ASSUME NamesInv, NEW p \in Operator, NEW l \in Label, NEW v \in Visibility,
           NEW given \in BOOLEAN, NEW r \in RunSet, Begin(p, r),
           r.op = "create", r.label = l, r.visibility = v, r.whole = TRUE,
           r.todo = CreateProgram(v, given), r.contract \in Deployed \cup {None},
           given => r.contract # None, ~given => r.expects \in Treasury
    PROVE  NamesInv'
<1>1. PICK todo : todo = CreateProgram(v, given)
  OBVIOUS
<1>2. /\ InOrder(todo) /\ todo # <<>> /\ Head(todo) # "writeList"
      /\ StepsOf(todo) \subseteq {"deploy", "save"} \cup Publication
      /\ "deploy" \in StepsOf(todo) <=> ~given
      /\ v = "public" => Publication \subseteq StepsOf(todo)
      /\ v = "private" => StepsOf(todo) \subseteq {"deploy", "save"}
  BY <1>1, CreateProgramIs
<1>3. /\ StepsOf(todo) \cap Undoing = {} /\ StepsOf(todo) \cap {"probe", "check"} = {}
      /\ StepsOf(todo) \cap {"archive", "unfile"} = {}
      /\ v = "private" => StepsOf(todo) \cap StepsOf(BindSteps) = {}
  BY <1>2, Blocks DEF Undoing, Publication
<1>4. "create" \in Command /\ r.todo = todo
  BY <1>1 DEF Command
<1>5. Program(r)
  BY <1>2, <1>3, <1>4 DEF Program, Publishing, Ahead
<1>6. Publishing(r) => Publication \subseteq StepsOf(r.todo)
  BY <1>2, <1>4 DEF Publishing
<1>7. Retracts(r)
  BY DEF Retracts
<1> QED  BY <1>2, <1>4, <1>5, <1>6, <1>7, BeginStep

LEMMA CreateStep ==
    ASSUME NamesInv, NEW p \in Operator, Create(p)
    PROVE  NamesInv'
<1>1. PICK l \in Label, t \in Treasury :
        \/ \E v \in Visibility :
             Begin(p, [Order("create", l, v, CreateProgram(v, FALSE)) EXCEPT !.expects = t])
        \/ Begin(p, [Order("wizard", l, "public", WizardProgram) EXCEPT !.expects = t])
  BY DEF Create
<1>2. {"create", "wizard"} \subseteq Command /\ "public" \in Visibility
  BY DEF Command, Visibility
<1>3. ASSUME NEW v \in Visibility,
             Begin(p, [Order("create", l, v, CreateProgram(v, FALSE)) EXCEPT !.expects = t])
      PROVE  NamesInv'
  <2>1. PICK todo : todo = CreateProgram(v, FALSE)
    OBVIOUS
  <2>2. todo \in Seq(Steps)
    BY <2>1, CreateProgramIs DEF InOrder
  <2>3. PICK q : q = Order("create", l, v, todo)
    OBVIOUS
  <2>4. Ordering(q, "create", l, v, todo)
    BY <1>2, <2>2, <2>3, Orders
  <2>5. PICK r : r = [q EXCEPT !.expects = t]
    OBVIOUS
  <2>6. /\ r \in RunSet /\ r.op = "create" /\ r.label = l /\ r.visibility = v
        /\ r.todo = todo /\ r.expects = t /\ r.contract = None /\ r.whole = TRUE
    BY <2>4, <2>5 DEF RunSet, Ordering
  <2>7. Begin(p, r)
    BY <1>3, <2>1, <2>3, <2>5
  <2> QED  BY <2>1, <2>6, <2>7, CreateBegins
<1>4. ASSUME Begin(p, [Order("wizard", l, "public", WizardProgram) EXCEPT !.expects = t])
      PROVE  NamesInv'
  <2>1. PICK todo : todo = WizardProgram
    OBVIOUS
  <2>2. /\ InOrder(todo) /\ todo # <<>> /\ Head(todo) = "probe"
        /\ StepsOf(todo) = {"probe", "deploy", "check"} \cup Publication
    BY <2>1, WizardProgramIs
  <2>3. PICK q : q = Order("wizard", l, "public", todo)
    OBVIOUS
  <2>4. /\ q \in RunSet /\ q.op = "wizard" /\ q.label = l /\ q.visibility = "public"
        /\ q.todo = todo /\ q.contract = None /\ q.whole = TRUE
    <3>1. "wizard" \in Command /\ "public" \in Visibility /\ todo \in Seq(Steps)
      BY <1>2, <2>2 DEF InOrder
    <3>2. Ordering(q, "wizard", l, "public", todo)
      BY <2>3, <3>1, Orders
    <3> QED  BY <3>2 DEF Ordering
  <2>5. PICK r : /\ r \in RunSet /\ r.op = "wizard" /\ r.label = l /\ r.visibility = "public"
                 /\ r.todo = todo /\ r.expects = t /\ r.contract = None /\ r.whole = TRUE
                 /\ Begin(p, r)
    <3>1. PICK r : r = [q EXCEPT !.expects = t]
      OBVIOUS
    <3>2. /\ r \in RunSet /\ r.op = "wizard" /\ r.label = l /\ r.visibility = "public"
          /\ r.todo = todo /\ r.expects = t /\ r.contract = None /\ r.whole = TRUE
      BY <2>4, <3>1 DEF RunSet
    <3>3. Begin(p, r)
      BY <1>4, <2>1, <2>3, <3>1
    <3> QED  BY <3>2, <3>3
  <2>6. /\ StepsOf(todo) \cap Undoing = {} /\ "save" \notin StepsOf(todo)
        /\ StepsOf(todo) \cap {"archive", "unfile"} = {}
    BY <2>2, Blocks DEF Undoing, Publication
  <2>7. Program(r)
    BY <1>2, <2>2, <2>5, <2>6 DEF Program, Publishing, Ahead
  <2>8. Publishing(r) => Publication \subseteq StepsOf(r.todo)
    BY <2>2, <2>5
  <2>9. Retracts(r)
    BY <2>5 DEF Retracts
  <2> QED  BY <2>2, <2>5, <2>7, <2>8, <2>9, BeginStep
<1> QED  BY <1>1, <1>3, <1>4

LEMMA CreateForStep ==
    ASSUME NamesInv, NEW p \in Operator, CreateFor(p)
    PROVE  NamesInv'
<1>1. PICK l \in Label, v \in Visibility, c \in Deployed :
        Begin(p, [Order("create", l, v, CreateProgram(v, TRUE)) EXCEPT !.contract = c])
  BY DEF CreateFor
<1>2. PICK todo : todo = CreateProgram(v, TRUE)
  OBVIOUS
<1>3. todo \in Seq(Steps) /\ "create" \in Command
  BY <1>2, CreateProgramIs DEF InOrder, Command
<1>4. c \in Swarm /\ c # None
  BY ValueAssumption DEF NamesInv, TypeInv, TypeOK
<1>5. PICK q : q = Order("create", l, v, todo)
  OBVIOUS
<1>6. Ordering(q, "create", l, v, todo)
  BY <1>3, <1>5, Orders
<1>7. PICK r : r = [q EXCEPT !.contract = c]
  OBVIOUS
<1>8. /\ r \in RunSet /\ r.op = "create" /\ r.label = l /\ r.visibility = v
      /\ r.todo = todo /\ r.contract = c /\ r.whole = TRUE
  BY <1>4, <1>6, <1>7 DEF RunSet, Ordering
<1>9. Begin(p, r)
  BY <1>1, <1>2, <1>5, <1>7
<1> QED  BY <1>2, <1>4, <1>8, <1>9, CreateBegins

\* The other commands begin alike.
LEMMA OtherOrder ==
    ASSUME NamesInv, NEW p \in Operator, NEW op \in Command \ {"create", "wizard"},
           NEW l \in Label, NEW v \in Visibility, NEW todo, todo # <<>>,
           NEW steps, Block(todo, steps), Plans(op, l, v, steps),
           Begin(p, Order(op, l, v, todo))
    PROVE  NamesInv'
<1>1. PICK r : r = Order(op, l, v, todo)
  OBVIOUS
<1>2. todo \in Seq(Steps)
  BY DEF Block, InOrder
<1>3. /\ r \in RunSet /\ r.op = op /\ r.label = l /\ r.visibility = v /\ r.todo = todo
      /\ r.contract = None
  <2>1. Ordering(r, op, l, v, todo)
    BY <1>1, <1>2, Orders
  <2> QED  BY <2>1 DEF Ordering
<1> QED  BY <1>1, <1>3, OtherBegins

LEMMA OtherSteps ==
    ASSUME NamesInv, NEW p \in Operator,
           Unpublish(p) \/ Remove(p) \/ SyncList(p) \/ SetLane(p)
    PROVE  NamesInv'
<1>1. /\ {"unpublish", "delist", "remove", "sync", "lane"} \subseteq Command \ {"create", "wizard"}
      /\ Visibility = {"public", "private", "semi-private"}
  BY DEF Command, Visibility
<1>2. \A l \in Label : Known(l) =>
        /\ profile[l] \in Profile /\ profile[l].named \in BOOLEAN
        /\ profile[l].contract \in Deployed
  BY DEF NamesInv, TypeInv, ProfInv, Known, Profile
<1>3. Retracting = {"readList", "writeList", "save",
                    "clear addr", "clear chainId", "clear contract", "clear subnode"}
      /\ StepsOf(BindSteps) = {"set subnode", "set addr", "set chainId", "set contract"}
  BY Blocks DEF Retracting
<1>4. CASE Unpublish(p)
  <2>1. PICK l \in Label : Known(l) /\ LET named == profile[l].named IN
        \/ Begin(p, Order("unpublish", l, "private", UnpublishProgram(named)))
        \/ Begin(p, Order("delist", l, IF named THEN "semi-private" ELSE "private",
                          DelistProgram(named)))
    BY <1>4 DEF Unpublish
  <2>2. PICK named \in BOOLEAN : named = profile[l].named
    BY <1>2, <2>1
  <2>3. CASE Begin(p, Order("unpublish", l, "private", UnpublishProgram(named)))
    <3>1. PICK steps \in SUBSET Retracting :
            /\ Block(UnpublishProgram(named), steps) /\ UnpublishProgram(named) # <<>>
            /\ named => {"writeList", "clear addr", "clear contract"} \subseteq steps
      BY OtherPrograms
    <3>2. Plans("unpublish", l, "private", steps)
      BY <1>3, <2>1, <2>2, <3>1 DEF Plans, Known
    <3> QED  BY <1>1, <2>1, <2>3, <3>1, <3>2, OtherOrder
  <2>4. CASE Begin(p, Order("delist", l, IF named THEN "semi-private" ELSE "private",
                            DelistProgram(named)))
    <3>1. PICK steps \in SUBSET Retracting :
            /\ Block(DelistProgram(named), steps) /\ DelistProgram(named) # <<>>
            /\ named => "writeList" \in steps
      BY OtherPrograms
    <3>2. PICK v \in Visibility : v = IF named THEN "semi-private" ELSE "private"
      BY <1>1
    <3>3. Plans("delist", l, v, steps)
      BY <1>3, <2>1, <2>2, <3>1, <3>2 DEF Plans, Known
    <3> QED  BY <1>1, <2>1, <2>4, <3>1, <3>2, <3>3, OtherOrder
  <2> QED  BY <2>1, <2>2, <2>3, <2>4
<1>5. CASE Remove(p)
  <2>1. PICK l \in Label, cleanup \in BOOLEAN :
        /\ Known(l)
        /\ Begin(p, Order("remove", l, "public", RemoveProgram(profile[l].named, cleanup)))
    BY <1>5 DEF Remove
  <2>2. PICK named \in BOOLEAN : named = profile[l].named
    BY <1>2, <2>1
  <2>3. PICK steps \in SUBSET ((Retracting \ {"save"}) \cup {"archive", "unfile"}) :
          Block(RemoveProgram(named, cleanup), steps) /\ RemoveProgram(named, cleanup) # <<>>
    BY OtherPrograms
  <2>4. Plans("remove", l, "public", steps)
    BY <1>3, <2>3 DEF Plans
  <2> QED  BY <1>1, <2>1, <2>2, <2>3, <2>4, OtherOrder
<1>6. CASE SyncList(p)
  <2>1. PICK l \in Label : Begin(p, Order("sync", l, "public", ListSteps))
    BY <1>6 DEF SyncList
  <2>2. Block(ListSteps, {"readList", "writeList"}) /\ ListSteps # <<>>
    BY BlocksAre DEF ListSteps
  <2>3. Plans("sync", l, "public", {"readList", "writeList"})
    BY Blocks DEF Plans
  <2> QED  BY <1>1, <2>1, <2>2, <2>3, OtherOrder
<1>7. CASE SetLane(p)
  <2>1. PICK l \in Label :
          /\ Known(l) /\ profile[l].named
          /\ Begin(p, [Order("lane", l, "public", LaneProgram)
                          EXCEPT !.contract = profile[l].contract])
    BY <1>7 DEF SetLane
  <2>2. PICK c \in Deployed : c = profile[l].contract
    BY <1>2, <2>1
  <2>3. Block(LaneProgram, {"set chainId", "set contract"}) /\ LaneProgram # <<>>
    BY BlocksAre DEF LaneProgram
  <2>4. PICK q : q = Order("lane", l, "public", LaneProgram)
    OBVIOUS
  <2>5. /\ q \in RunSet /\ q.op = "lane" /\ q.label = l /\ q.todo = LaneProgram
    <3>1. LaneProgram \in Seq(Steps) /\ "lane" \in Command /\ "public" \in Visibility
      BY <1>1, <2>3 DEF Block, InOrder
    <3>2. Ordering(q, "lane", l, "public", LaneProgram)
      BY <2>4, <3>1, Orders
    <3> QED  BY <3>2 DEF Ordering
  <2>6. PICK r : r = [q EXCEPT !.contract = c]
    OBVIOUS
  <2>7. /\ r \in RunSet /\ r.op = "lane" /\ r.label = l /\ r.todo = LaneProgram
        /\ r.contract = c
    <3>1. c \in Swarm \cup {None}
      BY <2>2 DEF NamesInv, TypeInv, TypeOK
    <3> QED  BY <2>5, <2>6, <3>1 DEF RunSet
  <2>8. Begin(p, r)
    BY <2>1, <2>2, <2>4, <2>6
  <2>9. Plans("lane", l, r.visibility, {"set chainId", "set contract"})
    BY <2>1 DEF Plans, Known
  <2> QED  BY <1>1, <2>2, <2>3, <2>7, <2>8, <2>9, OtherBegins
<1> QED  BY <1>4, <1>5, <1>6, <1>7

-----------------------------------------------------------------------------
(* Theorems.                                                               *)

LEMMA NamesInit == Init => NamesInv
<1> SUFFICES ASSUME Init PROVE NamesInv
  OBVIOUS
<1>1. \A p \in Operator : run[p] = Idle /\ ~Active(p)
  BY DEF Init, Idle, Active
<1>2. Idle \in RunSet
  <2>1. InOrder(<<>>) /\ "public" \in Visibility
    BY Blocks DEF Visibility
  <2> QED  BY <2>1 DEF Idle, RunSet, InOrder
<1>3. Unset \in [Key -> Swarm \cup {None, Here}] /\ Unset.addr = None /\ Unset.contract = None
  BY DEF Unset, Key
<1>4. Deployed = {}
  BY DEF Init, Deployed
<1>5. \A l \in Label : name[l] = Unset /\ Claimed(l) = {}
  BY <1>3 DEF Init, Claimed
<1>6. TypeOK
  <2>1. \A l \in Label : DOMAIN name[l] = Key /\ Claimed(l) \subseteq Deployed
    BY <1>3, <1>5
  <2>2. \A p \in Operator : run[p].op \in Command \cup {"none"} /\ run[p].list \subseteq Label
    BY <1>1 DEF Idle
  <2> QED  BY <1>4, <2>1, <2>2 DEF Init, TypeOK
<1>7. TypeInv
  BY <1>2, <1>3, <1>6 DEF Init, TypeInv
<1>8. \A l \in Label : PubOf(l)
  BY DEF Init, PubOf
<1>9. ProfInv /\ ApartInv
  BY <1>1 DEF Init, ProfInv, ApartInv
<1>10. \A p \in Operator : RunOf(p) /\ ListOf(p) /\ DoneOf(p) /\ WizOf(p) /\ RetractOf(p)
  BY <1>1 DEF RunOf, ListOf, DoneOf, WizOf, RetractOf
<1>11. \A l \in Label : UnnamedOf(l)
  BY DEF Init, UnnamedOf
<1> QED  BY <1>7, <1>8, <1>9, <1>10, <1>11 DEF NamesInv

LEMMA NamesNext == NamesInv /\ [Next]_vars => NamesInv'
<1> SUFFICES ASSUME NamesInv, [Next]_vars PROVE NamesInv'
  OBVIOUS
<1>1. CASE Next
  <2>1. PICK p \in Operator :
        \/ Create(p) \/ CreateFor(p) \/ Unpublish(p) \/ Remove(p) \/ SyncList(p) \/ SetLane(p)
        \/ Fail(p)
        \/ Probe(p) \/ Deploy(p) \/ Bind(p) \/ Unbind(p)
        \/ ReadList(p) \/ WriteList(p)
        \/ Save(p) \/ Archive(p) \/ Check(p)
    BY <1>1 DEF Next
  <2> QED  BY <2>1, CreateStep, CreateForStep, OtherSteps, FailStep, ProbeStep, DeployStep, BindStep,
              ReadListStep, WriteListStep, SaveStep, ArchiveStep, CheckStep
<1>2. CASE UNCHANGED vars
  <2>1. UNCHANGED <<lane, treasury, name, listed, profile, archive, run, published, clobbered,
                    misreads>>
    BY <1>2 DEF vars, ens, files, count
  <2>2. /\ Deployed' = Deployed
        /\ \A l \in Label : Claimed(l)' = Claimed(l) /\ OnList(l)' = OnList(l)
    BY <2>1 DEF Deployed, Claimed, OnList
  <2>3. TypeInv' /\ ApartInv' /\ ProfInv'
    BY <2>1, <2>2 DEF NamesInv, TypeInv, TypeOK, ApartInv, ProfInv, Active
  <2>4. ASSUME NEW p \in Operator
        PROVE  RunOf(p)' /\ ListOf(p)' /\ DoneOf(p)' /\ WizOf(p)' /\ RetractOf(p)'
    <3>1. RunOf(p) /\ ListOf(p) /\ DoneOf(p) /\ WizOf(p) /\ RetractOf(p)
      BY DEF NamesInv
    <3>2. RunOf(p)' /\ ListOf(p)' /\ DoneOf(p)' /\ WizOf(p)'
      BY <2>1, <3>1 DEF RunOf, ListOf, DoneOf, WizOf, Active, Deployed, Claimed, OnList
    <3>3. RetractOf(p)'
      BY <2>1, <3>1 DEF RetractOf, Retracts, Active, Claimed, Off
    <3> QED  BY <3>2, <3>3
  <2>5. ASSUME NEW l \in Label PROVE PubOf(l)' /\ UnnamedOf(l)'
    <3>1. PubOf(l) /\ UnnamedOf(l)
      BY DEF NamesInv
    <3> QED  BY <2>1, <3>1 DEF PubOf, Running, OnList, UnnamedOf, Claimed
  <2> QED  BY <2>3, <2>4, <2>5 DEF NamesInv
<1> QED  BY <1>1, <1>2

LEMMA NamesInvariant == Spec => []NamesInv
BY NamesInit, NamesNext, PTL DEF Spec

\* A step that changes the profile of a swarm that a session is retracting is the
\* end of that session's run.
LEMMA RetractionStep ==
    ASSUME NamesInv, Next, NEW p \in Operator, At(p, "save"),
           run[p].op \in {"unpublish", "delist"},
           profile'[run[p].label] # profile[run[p].label], ~clobbered
    PROVE  Honest(run[p].label)'
<1> DEFINE r == run[p]
           l == run[p].label
<1>1. /\ Active(p) /\ RunOf(p) /\ RetractOf(p) /\ r \in RunSet /\ Program(r) /\ UnnamedOf(l)
      /\ InOrder(r.todo) /\ r.todo # <<>> /\ Head(r.todo) = "save" /\ l \in Label
      /\ profile \in [Label -> Profile \cup {None}] /\ profile[l] # None
  BY DEF At, Active, NamesInv, TypeInv, RunOf, Program
<1>2. PICK q \in Operator : Active(q) /\ run[q].label = l /\ (Save(q) \/ Archive(q))
  <2>1. PICK q \in Operator :
        \/ Create(q) \/ CreateFor(q) \/ Unpublish(q) \/ Remove(q) \/ SyncList(q) \/ SetLane(q)
        \/ Fail(q)
        \/ Probe(q) \/ Deploy(q) \/ Bind(q) \/ Unbind(q)
        \/ ReadList(q) \/ WriteList(q)
        \/ Save(q) \/ Archive(q) \/ Check(q)
    BY DEF Next
  <2>2. Create(q) \/ CreateFor(q) \/ Unpublish(q) \/ Remove(q) \/ SyncList(q) \/ SetLane(q)
             => profile' = profile
    BY DEF Create, CreateFor, Unpublish, Remove, SyncList, SetLane, Begin, files
  <2>3. /\ Fail(q) \/ Probe(q) \/ Deploy(q) \/ ReadList(q) \/ WriteList(q) \/ Check(q)
             => profile' = profile
        /\ Bind(q) \/ Unbind(q) => profile' = profile
    BY DEF Fail, Probe, Deploy, ReadList, WriteList, Check, Bind, Unbind, Record, files
  <2>4. Save(q) \/ Archive(q) =>
             Active(q) /\ \A m \in Label \ {run[q].label} : profile'[m] = profile[m]
    BY <1>1 DEF Save, Archive, At, Active
  <2> QED  BY <1>1, <2>1, <2>2, <2>3, <2>4
<1>3. q = p
  BY <1>1, <1>2 DEF NamesInv, ApartInv
<1>4. /\ profile' = [profile EXCEPT ![l] = Saved(p)]
      /\ UNCHANGED <<lane, name, listed>>
  BY <1>1, <1>2, <1>3 DEF Save, Archive, At, ens
<1>5. StepsOf(r.todo) = {"save"}
  <2>1. /\ Tail(r.todo) = <<>> /\ "save" \in StepsOf(r.todo)
        /\ StepsOf(r.todo) \subseteq StepsOf(Tail(r.todo)) \cup {"save"}
    BY <1>1, OneStep
  <2> QED  BY <2>1, Blocks
<1>6. PICK f \in Profile : f = profile[l]
  BY <1>1
<1>7. PICK named \in BOOLEAN : named = (f.named /\ r.visibility # "private")
  OBVIOUS
<1>8. profile'[l] = [f EXCEPT !.visibility = r.visibility, !.named = named]
  <2>1. Saved(p) = [f EXCEPT !.visibility = r.visibility, !.named = @ /\ r.visibility # "private"]
    BY <1>6 DEF Saved
  <2>2. Saved(p) = [f EXCEPT !.visibility = r.visibility, !.named = named]
    BY <1>6, <1>7, <2>1 DEF Profile
  <2> QED  BY <1>1, <1>4, <2>2
<1>9. profile'[l].visibility = r.visibility /\ profile'[l].contract = f.contract
  BY <1>6, <1>8 DEF Profile
<1>10. f.named
  <2>1. SUFFICES ASSUME ~f.named PROVE FALSE
    OBVIOUS
  <2>2. f.visibility = "private" /\ r.visibility = "private"
    BY <1>1, <1>6, <2>1 DEF UnnamedOf, RetractOf, Retracts, Program
  <2>3. PICK g \in Profile : g = profile'[l]
    BY <1>6, <1>8, <2>2 DEF Profile, Visibility
  <2>4. /\ f = [visibility |-> f.visibility, contract |-> f.contract, named |-> f.named]
        /\ g = [visibility |-> g.visibility, contract |-> g.contract, named |-> g.named]
    BY <1>6, <2>3 DEF Profile
  <2>5. g.visibility = f.visibility /\ g.contract = f.contract /\ g.named = named
    BY <1>6, <1>8, <2>2, <2>3 DEF Profile
  <2>6. named = f.named
    BY <1>6, <1>7, <2>1 DEF Profile
  <2> QED  BY <1>6, <2>3, <2>4, <2>5, <2>6
<1>11. l \notin listed
  BY <1>1, <1>5, <1>6, <1>10 DEF RetractOf, Retracts, Off
<1>12. ASSUME r.visibility = "private" PROVE Claimed(l) = {}
  <2>1. r.op = "unpublish"
    BY <1>1, <1>6, <1>10, <1>12 DEF RetractOf, Retracts
  <2>2. ClearStep["addr"] # "save" /\ ClearStep["contract"] # "save"
    BY DEF ClearStep
  <2>3. name[l].addr = None /\ name[l].contract = None
    BY <1>1, <1>5, <1>6, <1>10, <2>1, <2>2 DEF RetractOf, Retracts
  <2> QED  BY <2>3 DEF Claimed
<1>13. PICK m : m = l
  OBVIOUS
<1>14. run'[p].label = m
  BY <1>2, <1>3, <1>13, Advanced, <1>1 DEF Save, Archive
<1>15. r.visibility = "private" => ~Resolves(m, profile[m].contract)'
  BY <1>4, <1>12, <1>13 DEF Resolves, Claimed
<1> QED  BY <1>4, <1>9, <1>11, <1>13, <1>14, <1>15 DEF Honest

\* Records, profiles and the list are what the code takes them for; every swarm
\* that a name claims was deployed (createSwarmProfile, runSwarmCreate).
THEOREM NamesTypeCorrect == Spec => []TypeOK
<1>1. NamesInv => TypeOK
  BY DEF NamesInv, TypeInv
<1> QED  BY <1>1, NamesInvariant, PTL

\* create-flows.ts:253, "adopt it - never re-deploy": a wizard whose reads did
\* not fail is always for the swarm that its name claims, if it claims one,
\* whatever runs failed, were killed or were started again before.
THEOREM WizardAdoptsHolds == Spec => []WizardAdopts
<1>1. NamesInv => WizardAdopts
  BY DEF NamesInv, WizOf, WizardAdopts, Active
<1> QED  BY <1>1, NamesInvariant, PTL

\* What a finished command published stays resolvable, by both records, and
\* listed, until a command starts on that swarm, whatever other sessions do on
\* other swarms at the same time (createSwarmProfile, runSwarmCreate).
THEOREM PublishedStaysHolds == Spec => []PublishedStays
<1>1. NamesInv => PublishedStays
  BY DEF NamesInv, PubOf, OnList, PublishedStays
<1> QED  BY <1>1, NamesInvariant, PTL

\* swarm-unpublish.test.ts, "a profile must never claim to be more private than
\* it actually is": when unpublish or delist changes a profile, the name has
\* stopped resolving or the label is off the list, whatever failed, was killed
\* or retried before, whatever create --contract adopted, and whatever other
\* sessions publish meanwhile, unless somebody wrote the list over another
\* writer's change.
THEOREM RetractionHonestHolds == Spec => RetractionHonest
<1>1. ASSUME NamesInv, [Next]_vars
      PROVE  [\A p \in Operator :
                LET l == run[p].label IN
                (/\ At(p, "save") /\ run[p].op \in {"unpublish", "delist"}
                 /\ profile'[l] # profile[l])
                    => clobbered \/ Honest(l)']_vars
  <2>1. CASE Next
    BY <1>1, <2>1, RetractionStep
  <2>2. CASE UNCHANGED vars
    BY <2>2
  <2> QED  BY <1>1, <2>1, <2>2
<1> QED  BY <1>1, NamesInvariant, PTL DEF Spec, RetractionHonest
=============================================================================
