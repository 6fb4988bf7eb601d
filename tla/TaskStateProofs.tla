-------------------------- MODULE TaskStateProofs --------------------------
(***************************************************************************)
(* Proofs about TaskState, for any requests, threads, routes and tasks,    *)
(* any first tasks and any bounds on what is created and lost.             *)
(*                                                                         *)
(* What a request leaves follows from what it still has to do.  PlansInv   *)
(* says which rounds follow each other in requests of which kind, and what *)
(* a request holds between two steps of a round (Midway); it holds however *)
(* requests overlap and wherever a crash cuts them off.  FilesInv says     *)
(* that every tasks.json is well formed: the one on disk, the ones about   *)
(* to be written and the ones in checkpoints, and that every task a        *)
(* request holds is one it could have read.                                *)
(*                                                                         *)
(* The rest is about requests that nobody disturbs.  SettleInv: how far a  *)
(* snapshot, an opening or a loading that runs alone has put right what it *)
(* found, whatever that was.  AloneInv: as long as no two requests have    *)
(* overlapped, the project shows the current task and its thread before    *)
(* every round, but for what the rounds to come will show or repair        *)
(* (AtRest), and a step within a round is on the way there (Drafting,      *)
(* Syncing).  Two rounds that show a thread must therefore name the same   *)
(* one (Linked), and a tool that has found a thread shown has nothing      *)
(* before its end that shows another (Tooling).                            *)
(*                                                                         *)
(* First what the operators of the module do to lists of tasks and         *)
(* threads; then what each kind of round writes; then one lemma per        *)
(* action.                                                                 *)
(***************************************************************************)
EXTENDS TaskState, FiniteSetTheorems, SequenceTheorems, WellFoundedInduction, TLAPS

-----------------------------------------------------------------------------
(* Numbers, positions and what is chosen by position.                      *)

\* A set of numbers that is not empty has a least one.
LEMMA Least ==
  ASSUME NEW T, T \subseteq Nat, T # {}
  PROVE  \E x \in T : \A y \in T : x <= y
<1> DEFINE R == OpToRel(<, Nat)
<1>1. IsWellFoundedOn(R, Nat)
  BY NatLessThanWellFounded
<1> HIDE DEF R
<1>2. PICK x \in T : \A y \in T : ~(<<y, x>> \in R)
  BY <1>1, WFMin
<1>3. ASSUME NEW y \in T PROVE x <= y
  <2>1. x \in Nat /\ y \in Nat
    OBVIOUS
  <2>2. ~(y < x)
    <3> SUFFICES ASSUME y < x PROVE FALSE
      OBVIOUS
    <3>1. <<y, x>> \in Nat \X Nat
      BY <2>1
    <3>2. <<y, x>>[1] < <<y, x>>[2]
      OBVIOUS
    <3> QED
      BY <1>2, <3>1, <3>2 DEF R, OpToRel
  <2> QED
    BY <2>1, <2>2
<1> QED
  BY <1>3

\* Induction over the numbers, for a property given by the set of those that
\* have it.
LEMMA Induction ==
  ASSUME NEW S, 0 \in S, \A n \in Nat : n \in S => n + 1 \in S
  PROVE  \A n \in Nat : n \in S
<1> SUFFICES ASSUME NEW k \in Nat, k \notin S PROVE FALSE
  OBVIOUS
<1> DEFINE T == {n \in Nat : n \notin S}
<1>1. PICK x \in T : \A y \in T : x <= y
  <2>1. T \subseteq Nat /\ T # {}
    OBVIOUS
  <2> HIDE DEF T
  <2> QED
    BY <2>1, Least
<1>2. x \in Nat /\ x # 0 /\ x - 1 \in Nat
  BY <1>1
<1>3. x - 1 \in S
  BY <1>1, <1>2
<1>4. (x - 1) + 1 \in S
  BY <1>2, <1>3
<1> QED
  BY <1>1, <1>2, <1>4

-----------------------------------------------------------------------------
\* Each of a finite set of positions is the n-th for one n.
LEMMA Numbering ==
  ASSUME NEW S, S \subseteq Nat \ {0}, IsFiniteSet(S),
         NEW m \in Nat, S = {j \in S : j <= m}
  PROVE  \A n \in 1 .. Cardinality(S) : \E i \in S : Cardinality({j \in S : j <= i}) = n
<1>0. \A j \in S : j \in Nat /\ j # 0
  OBVIOUS
<1> DEFINE Upto(k) == {j \in S : j <= k}
           Good(k) == \A n \in 1 .. Cardinality(Upto(k)) :
                         \E i \in Upto(k) : Cardinality(Upto(i)) = n
           G == {k \in Nat : Good(k)}
<1>1. \A k \in Nat : IsFiniteSet(Upto(k)) /\ Cardinality(Upto(k)) \in Nat
  <2> TAKE k \in Nat
  <2>1. Upto(k) \subseteq S
    OBVIOUS
  <2> QED
    BY <2>1, FS_Subset, FS_CardinalityType
<1>2. 0 \in G
  <2>0. \A j \in S : ~(j <= 0)
    BY <1>0
  <2>1. Upto(0) = {}
    BY <2>0
  <2> HIDE DEF Upto
  <2>2. Cardinality(Upto(0)) = 0
    BY <2>1, FS_EmptySet
  <2> QED
    BY <2>2
<1>3. ASSUME NEW k \in Nat, k \in G PROVE k + 1 \in G
  <2>1. CASE k + 1 \notin S
    <3>1. \A j \in S : j <= k + 1 <=> j <= k
      BY <1>0, <2>1
    <3>2. Upto(k + 1) = Upto(k)
      BY <3>1
    <3> QED
      BY <1>3, <3>2
  <2>2. CASE k + 1 \in S
    <3>0. \A j \in S : j <= k + 1 <=> j <= k \/ j = k + 1
      BY <1>0
    <3>1. Upto(k + 1) = Upto(k) \cup {k + 1} /\ k + 1 \notin Upto(k)
      <4>1. Upto(k + 1) = Upto(k) \cup {k + 1}
        BY <2>2, <3>0
      <4>2. ~(k + 1 <= k)
        OBVIOUS
      <4> QED
        BY <4>1, <4>2
    <3>2. Cardinality(Upto(k + 1)) = Cardinality(Upto(k)) + 1
      <4> HIDE DEF Upto
      <4> QED
        BY <1>1, <3>1, FS_AddElement
    <3>3. ASSUME NEW n \in 1 .. Cardinality(Upto(k + 1))
          PROVE  \E i \in Upto(k + 1) : Cardinality(Upto(i)) = n
      <4>1. CASE n = Cardinality(Upto(k + 1))
        <5>1. k + 1 \in Upto(k + 1)
          BY <2>2
        <5> QED
          BY <4>1, <5>1
      <4>2. CASE n # Cardinality(Upto(k + 1))
        <5>1. n \in 1 .. Cardinality(Upto(k))
          <6> HIDE DEF Upto
          <6> QED
            BY <1>1, <3>2, <4>2
        <5>2. PICK i \in Upto(k) : Cardinality(Upto(i)) = n
          BY <1>3, <5>1
        <5>3. i \in Upto(k + 1)
          BY <3>1
        <5> QED
          BY <5>2, <5>3
      <4> QED
        BY <4>1, <4>2
    <3> QED
      BY <3>3
  <2> QED
    BY <2>1, <2>2
<1>4. m \in G
  <2> HIDE DEF G
  <2>1. \A k \in Nat : k \in G => k + 1 \in G
    BY <1>3
  <2> QED
    BY <1>2, <2>1, Induction
<1>5. Upto(m) = S
  OBVIOUS
<1> QED
  BY <1>4, <1>5

\* The n-th of a finite set of positions, and every one is some n-th.
LEMMA NthOf ==
  ASSUME NEW S, S \subseteq Nat \ {0}, IsFiniteSet(S)
  PROVE  /\ Cardinality(S) \in Nat
         /\ \A n \in 1 .. Cardinality(S) : Nth(S, n) \in S
         /\ \A n, k \in 1 .. Cardinality(S) : n < k => Nth(S, n) < Nth(S, k)
         /\ \A i \in S : \E n \in 1 .. Cardinality(S) : Nth(S, n) = i
<1> DEFINE Upto(k) == {j \in S : j <= k}
           count(k) == Cardinality(Upto(k))
<1>0. Cardinality(S) \in Nat
  BY FS_CardinalityType
<1>1. \A k \in Nat : IsFiniteSet(Upto(k)) /\ count(k) \in Nat
  <2> TAKE k \in Nat
  <2>1. Upto(k) \subseteq S
    OBVIOUS
  <2> QED
    BY <2>1, FS_Subset, FS_CardinalityType
<1>2. ASSUME NEW i \in S, NEW k \in S, i < k PROVE count(i) < count(k)
  <2>1. i \in Nat /\ k \in Nat
    OBVIOUS
  <2>2. Upto(i) \cup {k} \subseteq Upto(k) /\ k \notin Upto(i)
    <3>1. \A j \in S : j \in Nat
      OBVIOUS
    <3>2. \A j \in S : j <= i => j <= k
      BY <1>2, <2>1, <3>1
    <3>3. k <= k /\ ~(k <= i)
      BY <1>2, <2>1
    <3> QED
      BY <3>2, <3>3
  <2> HIDE DEF Upto
  <2>3. Cardinality(Upto(i) \cup {k}) = Cardinality(Upto(i)) + 1
    BY <1>1, <2>1, <2>2, FS_AddElement
  <2>4. Cardinality(Upto(i) \cup {k}) <= Cardinality(Upto(k))
    BY <1>1, <2>1, <2>2, FS_Subset
  <2> QED
    BY <1>1, <2>1, <2>3, <2>4
<1>3. ASSUME NEW i \in S PROVE count(i) \in 1 .. Cardinality(S)
  <2>1. i \in Nat /\ i \in Upto(i) /\ Upto(i) \subseteq S
    OBVIOUS
  <2>2. count(i) <= Cardinality(S)
    BY <2>1, FS_Subset
  <2>3. count(i) # 0
    <3> HIDE DEF Upto
    <3> QED
      BY <1>1, <2>1, FS_EmptySet
  <2> QED
    BY <1>0, <1>1, <2>1, <2>2, <2>3
<1>4. \E m \in Nat : \A i \in S : i <= m
  <2> DEFINE B == {k \in Nat : \A T \in SUBSET S : Cardinality(T) = k => \E m \in Nat : \A i \in T : i <= m}
  <2>1. 0 \in B
    <3> SUFFICES ASSUME NEW T \in SUBSET S, Cardinality(T) = 0
                 PROVE  \E m \in Nat : \A i \in T : i <= m
      OBVIOUS
    <3>1. T = {}
      BY FS_Subset, FS_EmptySet
    <3> QED
      BY <3>1
  <2>2. ASSUME NEW k \in Nat, k \in B PROVE k + 1 \in B
    <3> SUFFICES ASSUME NEW T \in SUBSET S, Cardinality(T) = k + 1
                 PROVE  \E m \in Nat : \A i \in T : i <= m
      OBVIOUS
    <3>1. IsFiniteSet(T)
      BY FS_Subset
    <3>2. PICK x : x \in T
      BY FS_EmptySet
    <3>0. Cardinality(T \ {x}) = Cardinality(T) - 1
      BY <3>1, <3>2, FS_RemoveElement
    <3>3. T \ {x} \in SUBSET S /\ Cardinality(T \ {x}) = k
      <4>1. Cardinality(T \ {x}) = k + 1 - 1
        BY <3>0
      <4>2. k + 1 - 1 = k
        OBVIOUS
      <4> QED
        BY <4>1, <4>2
    <3>4. PICK m \in Nat : \A i \in T \ {x} : i <= m
      BY <2>2, <3>3
    <3>5. x \in Nat
      BY <3>2
    <3>6. CASE x <= m
      BY <3>4, <3>6
    <3>7. CASE m < x
      <4>1. \A i \in T : i \in Nat
        OBVIOUS
      <4> QED
        BY <3>4, <3>5, <3>7, <4>1
    <3> QED
      BY <3>5, <3>6, <3>7
  <2>3. Cardinality(S) \in B
    <3> HIDE DEF B
    <3>1. \A k \in Nat : k \in B => k + 1 \in B
      BY <2>2
    <3> QED
      BY <1>0, <2>1, <3>1, Induction
  <2> QED
    BY <2>3
<1>5. PICK m \in Nat : \A i \in S : i <= m
  BY <1>4
<1>6. Upto(m) = S
  BY <1>5
<1>7. \A n \in 1 .. Cardinality(S) : \E i \in S : count(i) = n
  BY <1>6, Numbering
<1>8. \A n \in 1 .. Cardinality(S) : Nth(S, n) \in S /\ count(Nth(S, n)) = n
  BY <1>7 DEF Nth
<1>9. ASSUME NEW n \in 1 .. Cardinality(S), NEW k \in 1 .. Cardinality(S), n < k
      PROVE  Nth(S, n) < Nth(S, k)
  <2> DEFINE a == Nth(S, n)
             b == Nth(S, k)
  <2>1. a \in S /\ b \in S /\ count(a) = n /\ count(b) = k
    BY <1>8
  <2> HIDE DEF a, b, count
  <2>2. a \in Nat /\ b \in Nat
    BY <2>1
  <2>3. ~(b < a) /\ a # b
    BY <1>0, <1>2, <1>9, <2>1
  <2>4. a < b
    BY <2>2, <2>3
  <2> QED
    BY <2>4 DEF a, b
<1>10. ASSUME NEW i \in S PROVE \E n \in 1 .. Cardinality(S) : Nth(S, n) = i
  <2> DEFINE n == count(i)
             a == Nth(S, n)
  <2>1. n \in 1 .. Cardinality(S)
    BY <1>3
  <2>2. a \in S /\ count(a) = n
    BY <1>8, <2>1
  <2> HIDE DEF a, count
  <2>3. a \in Nat /\ i \in Nat
    BY <2>2
  <2>4. ~(a < i) /\ ~(i < a)
    BY <1>2, <2>1, <2>2, <1>0
  <2>5. a = i
    BY <2>3, <2>4
  <2> QED
    BY <2>1, <2>5 DEF a
<1> QED
  BY <1>0, <1>8, <1>9, <1>10

\* What a sequence made of some elements of another holds.
LEMMA ChosenOf ==
  ASSUME NEW E, NEW s \in Seq(E), NEW S, S \subseteq DOMAIN s
  PROVE  /\ Chosen(s, S) \in Seq(E) /\ DOMAIN Chosen(s, S) = 1 .. Cardinality(S)
         /\ \A n \in DOMAIN Chosen(s, S) : Nth(S, n) \in S /\ Chosen(s, S)[n] = s[Nth(S, n)]
         /\ \A i \in S : \E n \in DOMAIN Chosen(s, S) : Nth(S, n) = i /\ Chosen(s, S)[n] = s[i]
         /\ \A n, k \in DOMAIN Chosen(s, S) : n < k => Nth(S, n) < Nth(S, k)
<1>1. DOMAIN s = 1 .. Len(s) /\ Len(s) \in Nat
  BY LenProperties
<1>2. S \subseteq Nat \ {0}
  BY <1>1
<1>3. IsFiniteSet(S)
  <2>1. IsFiniteSet(1 .. Len(s))
    BY <1>1, FS_Interval
  <2> QED
    BY <1>1, <2>1, FS_Subset
<1>4. /\ Cardinality(S) \in Nat
      /\ \A n \in 1 .. Cardinality(S) : Nth(S, n) \in S
      /\ \A n, k \in 1 .. Cardinality(S) : n < k => Nth(S, n) < Nth(S, k)
      /\ \A i \in S : \E n \in 1 .. Cardinality(S) : Nth(S, n) = i
  BY <1>2, <1>3, NthOf
<1>5. DOMAIN Chosen(s, S) = 1 .. Cardinality(S)
  BY DEF Chosen
<1>6. \A n \in 1 .. Cardinality(S) : Chosen(s, S)[n] = s[Nth(S, n)] /\ s[Nth(S, n)] \in E
  <2> TAKE n \in 1 .. Cardinality(S)
  <2>1. Nth(S, n) \in DOMAIN s
    BY <1>4
  <2> QED
    BY <2>1, <1>1 DEF Chosen
<1>7. Chosen(s, S) \in [1 .. Cardinality(S) -> E]
  BY <1>6 DEF Chosen
<1>8. Chosen(s, S) \in Seq(E)
  BY <1>4, <1>7, SeqDef
<1> QED
  BY <1>4, <1>5, <1>6, <1>8


\* The elements of a sequence.
LEMMA InSequence ==
  ASSUME NEW S, NEW s \in Seq(S)
  PROVE  /\ Len(s) \in Nat /\ DOMAIN s = 1 .. Len(s)
         /\ \A i \in DOMAIN s : s[i] \in S
         /\ ToSet(s) = {s[i] : i \in DOMAIN s}
BY LenProperties, ElementOfSeq DEF ToSet

\* Both parts of a sequence that is put together.
JoinOf(r, s, t) ==
  /\ Len(r) = Len(s) + Len(t)
  /\ DOMAIN r = 1 .. Len(s) + Len(t)
  /\ \A i \in 1 .. Len(s) : r[i] = s[i]
  /\ \A i \in 1 .. Len(t) : r[Len(s) + i] = t[i]
  /\ \A i \in 1 .. Len(s) + Len(t) :
        i \in 1 .. Len(s) \/ \E j \in 1 .. Len(t) : i = Len(s) + j

LEMMA Joined ==
  ASSUME NEW S, NEW s \in Seq(S), NEW t \in Seq(S)
  PROVE  s \o t \in Seq(S) /\ JoinOf(s \o t, s, t)
<1>1. Len(s) \in Nat /\ Len(t) \in Nat
  BY LenProperties
<1>2. s \o t \in Seq(S) /\ Len(s \o t) = Len(s) + Len(t)
  BY ConcatProperties
<1>3. DOMAIN (s \o t) = 1 .. Len(s) + Len(t)
  BY <1>2, LenProperties
<1>4. ASSUME NEW i \in 1 .. Len(s) PROVE (s \o t)[i] = s[i]
  BY <1>1, ConcatProperties
<1>5. ASSUME NEW i \in 1 .. Len(t) PROVE (s \o t)[Len(s) + i] = t[i]
  <2>1. Len(s) + i \in 1 .. Len(s) + Len(t) /\ ~(Len(s) + i <= Len(s)) /\ Len(s) + i - Len(s) = i
    BY <1>1
  <2> QED
    BY <2>1, ConcatProperties
<1>6. ASSUME NEW i \in 1 .. Len(s) + Len(t), i \notin 1 .. Len(s)
      PROVE  \E j \in 1 .. Len(t) : i = Len(s) + j
  <2>1. i - Len(s) \in 1 .. Len(t) /\ i = Len(s) + (i - Len(s))
    BY <1>1, <1>6
  <2> QED
    BY <2>1
<1> QED
  BY <1>2, <1>3, <1>4, <1>5, <1>6 DEF JoinOf

-----------------------------------------------------------------------------
(* Sequences as the sets of what they hold.                                *)

Held(s) == {s[i] : i \in DOMAIN s}

LEMMA HeldOf ==
  ASSUME NEW S, NEW s \in Seq(S)
  PROVE  /\ Held(s) \subseteq S
         /\ \A x \in Held(s) : \E i \in DOMAIN s : s[i] = x
         /\ \A i \in DOMAIN s : s[i] \in Held(s)
         /\ s = <<>> <=> Held(s) = {}
<1>1. Len(s) \in Nat /\ DOMAIN s = 1 .. Len(s) /\ \A i \in DOMAIN s : s[i] \in S
  BY InSequence
<1>2. s = <<>> <=> Held(s) = {}
  <2>1. ASSUME s = <<>> PROVE Held(s) = {}
    BY <2>1, <1>1 DEF Held
  <2>2. ASSUME s # <<>> PROVE Held(s) # {}
    <3>1. Len(s) # 0
      BY <2>2, EmptySeq
    <3>2. 1 \in DOMAIN s
      BY <1>1, <3>1
    <3> QED
      BY <3>2 DEF Held
  <2> QED
    BY <2>1, <2>2
<1> QED
  BY <1>1, <1>2 DEF Held

LEMMA HeldChosen ==
  ASSUME NEW E, NEW s \in Seq(E), NEW S, S \subseteq DOMAIN s
  PROVE  Chosen(s, S) \in Seq(E) /\ Held(Chosen(s, S)) = {s[i] : i \in S}
<1> DEFINE c == Chosen(s, S)
<1>1. /\ c \in Seq(E)
      /\ \A n \in DOMAIN c : Nth(S, n) \in S /\ c[n] = s[Nth(S, n)]
      /\ \A i \in S : \E n \in DOMAIN c : Nth(S, n) = i /\ c[n] = s[i]
  BY ChosenOf
<1> HIDE DEF c
<1>2. \A x \in Held(c) : x \in {s[i] : i \in S}
  BY <1>1 DEF Held
<1>3. \A i \in S : s[i] \in Held(c)
  BY <1>1 DEF Held
<1>4. c \in Seq(E) /\ Held(c) = {s[i] : i \in S}
  BY <1>1, <1>2, <1>3
<1> QED
  BY <1>4 DEF c

\* All of a sequence is the sequence.
LEMMA ChosenAll ==
  ASSUME NEW E, NEW s \in Seq(E)
  PROVE  Chosen(s, DOMAIN s) = s
<1>1. Len(s) \in Nat /\ DOMAIN s = 1 .. Len(s)
  BY InSequence
<1>2. IsFiniteSet(DOMAIN s) /\ Cardinality(DOMAIN s) = Len(s)
  <2>1. IsFiniteSet(1 .. Len(s)) /\ Cardinality(1 .. Len(s)) = IF 1 > Len(s) THEN 0 ELSE Len(s) - 1 + 1
    BY <1>1, FS_Interval
  <2> QED
    BY <1>1, <2>1
<1>3. \A n \in 1 .. Len(s) : Nth(DOMAIN s, n) = n
  <2> TAKE n \in 1 .. Len(s)
  <2>1. \A i \in DOMAIN s : Cardinality({j \in DOMAIN s : j <= i}) = i
    <3> TAKE i \in DOMAIN s
    <3>1. {j \in DOMAIN s : j <= i} = 1 .. i
      BY <1>1
    <3>2. i \in Int /\ 1 \in Int /\ ~(1 > i) /\ i - 1 + 1 = i
      BY <1>1
    <3>3. Cardinality(1 .. i) = i
      BY <3>2, FS_Interval
    <3> QED
      BY <3>1, <3>3
  <2> DEFINE P(i) == Cardinality({j \in DOMAIN s : j <= i}) = n
  <2>2. n \in DOMAIN s /\ P(n) /\ \A i \in DOMAIN s : P(i) => i = n
    BY <1>1, <2>1
  <2>3. Nth(DOMAIN s, n) \in DOMAIN s /\ P(Nth(DOMAIN s, n))
    BY <2>2 DEF Nth
  <2> HIDE DEF P
  <2> QED
    BY <2>2, <2>3
<1>4. Chosen(s, DOMAIN s) = [n \in 1 .. Len(s) |-> s[n]]
  BY <1>2, <1>3 DEF Chosen
<1>5. s = [n \in 1 .. Len(s) |-> s[n]]
  BY <1>1
<1> QED
  BY <1>4, <1>5

\* A sequence of one element.
LEMMA Single ==
  ASSUME NEW S, NEW x \in S
  PROVE  <<x>> \in Seq(S) /\ Len(<<x>>) = 1 /\ Held(<<x>>) = {x}
<1>1. <<x>> \in Seq(S) /\ Len(<<x>>) = 1 /\ <<x>>[1] = x /\ DOMAIN <<x>> = 1 .. 1
  OBVIOUS
<1>2. \A i \in DOMAIN <<x>> : i = 1
  BY <1>1
<1>3. Held(<<x>>) = {x}
  BY <1>1, <1>2 DEF Held
<1> QED
  BY <1>1, <1>3

LEMMA HeldJoined ==
  ASSUME NEW S, NEW s \in Seq(S), NEW t \in Seq(S)
  PROVE  s \o t \in Seq(S) /\ Held(s \o t) = Held(s) \cup Held(t)
<1> DEFINE r == s \o t
<1>1. r \in Seq(S) /\ JoinOf(r, s, t)
  BY Joined
<1>2. Len(s) \in Nat /\ DOMAIN s = 1 .. Len(s) /\ Len(t) \in Nat /\ DOMAIN t = 1 .. Len(t)
  BY InSequence
<1> HIDE DEF r
<1>3. \A x \in Held(r) : x \in Held(s) \cup Held(t)
  <2> SUFFICES ASSUME NEW i \in DOMAIN r PROVE r[i] \in Held(s) \cup Held(t)
    BY DEF Held
  <2>1. CASE i \in 1 .. Len(s)
    BY <1>1, <1>2, <2>1 DEF JoinOf, Held
  <2>2. CASE \E j \in 1 .. Len(t) : i = Len(s) + j
    BY <1>1, <1>2, <2>2 DEF JoinOf, Held
  <2> QED
    BY <1>1, <2>1, <2>2 DEF JoinOf
<1>4. \A x \in Held(s) : x \in Held(r)
  <2> SUFFICES ASSUME NEW i \in 1 .. Len(s) PROVE s[i] \in Held(r)
    BY <1>2 DEF Held
  <2>1. r[i] = s[i] /\ i \in DOMAIN r
    BY <1>1, <1>2 DEF JoinOf
  <2> QED
    BY <2>1 DEF Held
<1>5. \A x \in Held(t) : x \in Held(r)
  <2> SUFFICES ASSUME NEW i \in 1 .. Len(t) PROVE t[i] \in Held(r)
    BY <1>2 DEF Held
  <2>1. r[Len(s) + i] = t[i] /\ Len(s) + i \in DOMAIN r
    BY <1>1, <1>2 DEF JoinOf
  <2> QED
    BY <2>1 DEF Held
<1>6. r \in Seq(S) /\ Held(r) = Held(s) \cup Held(t)
  BY <1>1, <1>3, <1>4, <1>5
<1> QED
  BY <1>6 DEF r

-----------------------------------------------------------------------------
(* Tasks.                                                                  *)

LEMMA EarliestOf ==
  ASSUME NEW at, at \subseteq Nat, at # {}
  PROVE  Earliest(at) \in at /\ \A j \in at : Earliest(at) <= j
<1>1. \E i \in at : \A j \in at : i <= j
  BY Least
<1> QED
  BY <1>1 DEF Earliest

LEMMA FirstIs ==
  ASSUME NEW S, NEW s \in Seq(S), NEW at, at \subseteq DOMAIN s, None \notin S
  PROVE  /\ at = {} => FirstOf(s, at) = None
         /\ at # {} => FirstOf(s, at) \in S /\ \E i \in at : FirstOf(s, at) = s[i]
<1>1. DOMAIN s \subseteq Nat /\ \A i \in DOMAIN s : s[i] \in S
  BY InSequence
<1>2. at # {} => Earliest(at) \in at
  BY <1>1, EarliestOf
<1> QED
  BY <1>1, <1>2 DEF FirstOf

\* Tasks with ids of their own.
Distinct(tasks) == \A i, j \in DOMAIN tasks : tasks[i].id = tasks[j].id => i = j

LEMMA IdsAre ==
  ASSUME NEW tasks PROVE Ids(tasks) = {t.id : t \in Held(tasks)}
<1>1. \A x \in Ids(tasks) : x \in {t.id : t \in Held(tasks)}
  BY DEF Ids, Held
<1>2. \A t \in Held(tasks) : t.id \in Ids(tasks)
  BY DEF Ids, Held
<1> QED
  BY <1>1, <1>2

LEMMA ThreadIdsAre ==
  ASSUME NEW entries PROVE ThreadIds(entries) = {e.thread : e \in Held(entries)}
<1>1. \A x \in ThreadIds(entries) : x \in {e.thread : e \in Held(entries)}
  BY DEF ThreadIds, Held
<1>2. \A e \in Held(entries) : e.thread \in ThreadIds(entries)
  BY DEF ThreadIds, Held
<1> QED
  BY <1>1, <1>2

LEMMA FindIs ==
  ASSUME NEW tasks \in Seq(Tasks), NEW id
  PROVE  /\ id \notin Ids(tasks) <=> FindTask(tasks, id) = None
         /\ FindTask(tasks, id) # None =>
               FindTask(tasks, id) \in Held(tasks) /\ FindTask(tasks, id) \in Tasks
               /\ FindTask(tasks, id).id = id
<1> DEFINE at == {i \in DOMAIN tasks : tasks[i].id = id}
           t == FindTask(tasks, id)
<1>1. at = {} => t = None
  BY DEF FindTask, FirstOf
<1>2. at # {} => t \in Tasks /\ \E i \in at : t = tasks[i]
  <2>1. at \subseteq DOMAIN tasks /\ None \notin Tasks
    BY TaskAssumption
  <2> HIDE DEF at
  <2>2. at # {} => FirstOf(tasks, at) \in Tasks /\ \E i \in at : FirstOf(tasks, at) = tasks[i]
    BY <2>1, FirstIs
  <2> QED
    BY <2>2 DEF FindTask, at
<1> HIDE DEF t
<1>3. at = {} <=> id \notin Ids(tasks)
  BY DEF Ids
<1>4. None \notin Tasks
  BY TaskAssumption
<1>5. /\ id \notin Ids(tasks) <=> t = None
      /\ t # None => t \in Held(tasks) /\ t \in Tasks /\ t.id = id
  BY <1>1, <1>2, <1>3, <1>4 DEF Held
<1> QED
  BY <1>5 DEF t

\* Among tasks with ids of their own a task is found by its id.
LEMMA FindHeld ==
  ASSUME NEW tasks \in Seq(Tasks), Distinct(tasks), NEW t \in Held(tasks)
  PROVE  FindTask(tasks, t.id) = t
<1>1. PICK i \in DOMAIN tasks : t = tasks[i]
  BY DEF Held
<1>2. t.id \in Ids(tasks)
  BY <1>1 DEF Ids
<1>3. PICK j \in DOMAIN tasks : tasks[j] = FindTask(tasks, t.id) /\ tasks[j].id = t.id
  BY <1>2, FindIs DEF Held
<1>4. i = j
  BY <1>1, <1>3 DEF Distinct
<1> QED
  BY <1>1, <1>3, <1>4

LEMMA ReplaceIs ==
  ASSUME NEW tasks \in Seq(Tasks), NEW t \in Tasks
  PROVE  /\ ReplaceTask(tasks, t) \in Seq(Tasks)
         /\ Held(ReplaceTask(tasks, t)) = {t} \cup {x \in Held(tasks) : x.id # t.id}
         /\ Distinct(tasks) => Distinct(ReplaceTask(tasks, t))
<1> DEFINE at == {i \in DOMAIN tasks : tasks[i].id # t.id}
           rest == Chosen(tasks, at)
           all == <<t>> \o rest
<1>1. rest \in Seq(Tasks) /\ Held(rest) = {tasks[i] : i \in at}
  BY HeldChosen
<1>2. <<t>> \in Seq(Tasks) /\ Len(<<t>>) = 1 /\ Held(<<t>>) = {t}
  BY Single
<1>3. all \in Seq(Tasks) /\ Held(all) = {t} \cup Held(rest)
  <2> DEFINE one == <<t>>
  <2>1. rest \in Seq(Tasks) /\ one \in Seq(Tasks) /\ Held(one) = {t}
    BY <1>1, <1>2
  <2> HIDE DEF rest, one
  <2>2. one \o rest \in Seq(Tasks) /\ Held(one \o rest) = Held(one) \cup Held(rest)
    BY <2>1, HeldJoined
  <2>3. one \o rest \in Seq(Tasks) /\ Held(one \o rest) = {t} \cup Held(rest)
    BY <2>1, <2>2
  <2> QED
    BY <2>3 DEF one
<1>4. Held(rest) = {x \in Held(tasks) : x.id # t.id}
  <2> HIDE DEF rest
  <2>1. \A x \in Held(rest) : x \in Held(tasks) /\ x.id # t.id
    BY <1>1 DEF Held
  <2>2. \A x \in Held(tasks) : x.id # t.id => x \in Held(rest)
    BY <1>1 DEF Held
  <2> QED
    BY <2>1, <2>2
<1>5. ASSUME Distinct(tasks) PROVE Distinct(all)
  <2>1. /\ \A n \in DOMAIN rest : Nth(at, n) \in at /\ rest[n] = tasks[Nth(at, n)]
        /\ \A n, k \in DOMAIN rest : n < k => Nth(at, n) < Nth(at, k)
    BY ChosenOf
  <2>2. Len(rest) \in Nat /\ DOMAIN rest = 1 .. Len(rest)
    BY <1>1, InSequence
  <2>3. \A n, k \in DOMAIN rest : rest[n].id = rest[k].id => n = k
    <3>1. ASSUME NEW n \in DOMAIN rest, NEW k \in DOMAIN rest, n < k
          PROVE  rest[n].id # rest[k].id
      <4>1. Nth(at, n) < Nth(at, k) /\ Nth(at, n) \in DOMAIN tasks /\ Nth(at, k) \in DOMAIN tasks
            /\ rest[n] = tasks[Nth(at, n)] /\ rest[k] = tasks[Nth(at, k)]
        BY <2>1, <3>1
      <4>2. \A i \in DOMAIN tasks : i \in Nat
        BY InSequence
      <4> HIDE DEF rest
      <4>3. Nth(at, n) # Nth(at, k)
        BY <4>1, <4>2
      <4> QED
        BY <4>1, <4>3, <1>5 DEF Distinct
    <3> HIDE DEF rest
    <3> QED
      <4> SUFFICES ASSUME NEW n \in DOMAIN rest, NEW k \in DOMAIN rest, rest[n].id = rest[k].id
                   PROVE  n = k
        OBVIOUS
      <4>1. n \in Nat /\ k \in Nat
        BY <2>2
      <4>2. ~(n < k) /\ ~(k < n)
        BY <3>1
      <4> QED
        BY <4>1, <4>2
  <2> HIDE DEF rest
  <2>4. JoinOf(all, <<t>>, rest)
    BY <1>1, <1>2, Joined
  <2>5. \A i \in DOMAIN all :
            \/ i = 1 /\ all[i] = t
            \/ \E n \in DOMAIN rest : i = n + 1 /\ all[i] = rest[n] /\ rest[n].id # t.id
    <3> TAKE i \in DOMAIN all
    <3>1. CASE i \in 1 .. 1
      BY <1>2, <2>4, <3>1 DEF JoinOf
    <3>2. ASSUME NEW n \in 1 .. Len(rest), i = 1 + n
          PROVE  i = n + 1 /\ all[i] = rest[n] /\ rest[n].id # t.id
      <4>1. all[1 + n] = rest[n]
        BY <1>2, <2>4 DEF JoinOf
      <4>2. rest[n] \in Held(rest)
        BY <2>2 DEF Held
      <4> QED
        BY <2>2, <3>2, <4>1, <4>2, <1>4
    <3>3. i \in 1 .. 1 \/ \E n \in 1 .. Len(rest) : i = 1 + n
      BY <1>2, <2>2, <2>4 DEF JoinOf
    <3> QED
      BY <2>2, <3>1, <3>2, <3>3
  <2> HIDE DEF all
  <2>6. ASSUME NEW i \in DOMAIN all, NEW j \in DOMAIN all, all[i].id = all[j].id
        PROVE  i = j
    BY <2>2, <2>3, <2>5, <2>6
  <2> QED
    BY <2>6 DEF Distinct
<1> QED
  BY <1>3, <1>4, <1>5 DEF ReplaceTask

\* At most one live and one missing thread per route.
Pruned(entries) == \A j, k \in DOMAIN entries : SameRoute(entries[j], entries[k]) => j = k

LEMMA PruneIs ==
  ASSUME NEW entries \in Seq(Entries)
  PROVE  /\ Prune(entries) \in Seq(Entries) /\ Pruned(Prune(entries))
         /\ Held(Prune(entries)) \subseteq Held(entries)
         /\ entries # <<>> => Prune(entries) # <<>>
         /\ Pruned(entries) => Prune(entries) = entries
<1> DEFINE D == DOMAIN entries
           at == {i \in D : \A j \in D : SameRoute(entries[j], entries[i]) => i <= j}
           p == Chosen(entries, at)
<1>1. D \subseteq Nat /\ \A i \in D : i \in Nat /\ entries[i] \in Entries
  BY InSequence
<1>2. p \in Seq(Entries) /\ Held(p) = {entries[i] : i \in at}
  BY HeldChosen
<1>3. /\ \A n \in DOMAIN p : Nth(at, n) \in at /\ p[n] = entries[Nth(at, n)]
      /\ \A n, k \in DOMAIN p : n < k => Nth(at, n) < Nth(at, k)
  BY ChosenOf
<1>4. ASSUME NEW n \in DOMAIN p, NEW k \in DOMAIN p, n < k PROVE ~SameRoute(p[n], p[k])
  <2> DEFINE a == Nth(at, n)
             b == Nth(at, k)
  <2>1. a \in at /\ b \in at /\ a < b /\ p[n] = entries[a] /\ p[k] = entries[b]
    BY <1>3, <1>4
  <2> HIDE DEF p, a, b
  <2>2. a \in Nat /\ b \in Nat /\ a \in D
    BY <1>1, <2>1
  <2>3. SameRoute(entries[a], entries[b]) => b <= a
    BY <2>1, <2>2
  <2> QED
    BY <2>1, <2>2, <2>3
<1>5. Pruned(p)
  <2> HIDE DEF p
  <2>1. \A n \in DOMAIN p : n \in Nat
    BY <1>2, InSequence
  <2> SUFFICES ASSUME NEW n \in DOMAIN p, NEW k \in DOMAIN p, SameRoute(p[n], p[k]) PROVE n = k
    BY DEF Pruned
  <2>2. SameRoute(p[k], p[n])
    BY DEF SameRoute
  <2>3. ~(n < k) /\ ~(k < n) /\ n \in Nat /\ k \in Nat
    BY <1>4, <2>1, <2>2
  <2> QED
    BY <2>3
<1>6. Held(p) \subseteq Held(entries)
  <2> HIDE DEF p
  <2> QED
    BY <1>2 DEF Held
<1>7. ASSUME entries # <<>> PROVE p # <<>>
  <2>1. D # {}
    BY <1>7, HeldOf DEF Held
  <2>2. PICK i \in D : \A j \in D : i <= j
    BY <1>1, <2>1, Least
  <2>3. i \in at
    BY <2>2
  <2>4. entries[i] \in Held(p)
    BY <1>2, <2>3
  <2> HIDE DEF p
  <2> QED
    BY <1>2, <2>4, HeldOf
<1>8. ASSUME Pruned(entries) PROVE p = entries
  <2>1. \A i \in D : i \in at
    BY <1>1, <1>8 DEF Pruned
  <2>2. at = D
    BY <2>1
  <2> HIDE DEF at, D
  <2>3. p = Chosen(entries, DOMAIN entries)
    BY <2>2 DEF D
  <2> QED
    BY <2>3, ChosenAll
<1> QED
  BY <1>2, <1>5, <1>6, <1>7, <1>8 DEF Prune

LEMMA WithoutIs ==
  ASSUME NEW entries \in Seq(Entries), NEW gone
  PROVE  /\ Without(entries, gone) \in Seq(Entries)
         /\ Held(Without(entries, gone)) = {e \in Held(entries) : e.thread \notin gone}
<1> DEFINE at == {i \in DOMAIN entries : entries[i].thread \notin gone}
           w == Chosen(entries, at)
<1>1. w \in Seq(Entries) /\ Held(w) = {entries[i] : i \in at}
  BY HeldChosen
<1> HIDE DEF w
<1>2. \A e \in Held(w) : e \in Held(entries) /\ e.thread \notin gone
  BY <1>1 DEF Held
<1>3. \A e \in Held(entries) : e.thread \notin gone => e \in Held(w)
  BY <1>1 DEF Held
<1>4. w \in Seq(Entries) /\ Held(w) = {e \in Held(entries) : e.thread \notin gone}
  BY <1>1, <1>2, <1>3
<1> QED
  BY <1>4 DEF w, Without

\* The thread shown is one of the task, and a live one if it has one: such a
\* task is left as it is when it is normalised.
Shows(t) ==
    IF t.threads = <<>> THEN t.active = None
    ELSE \E e \in Held(t.threads) :
             /\ e.thread = t.active
             /\ e.missing => \A x \in Held(t.threads) : x.missing

Normal(t) == Pruned(t.threads) /\ Shows(t)

LEMMA PickIs ==
  ASSUME NEW t \in Tasks, NEW among \in Seq(Entries), NEW p \in Maybe(Threads)
  PROVE  /\ Pick(t, among, p) \in Maybe(Threads)
         /\ among # <<>> => \E e \in Held(among) : e.thread = Pick(t, among, p)
         /\ among = <<>> => Pick(t, among, p) = None
         /\ (\E e \in Held(among) : e.thread = t.active) => Pick(t, among, p) = t.active
<1>1. Held(among) \subseteq Entries /\ ThreadIds(among) = {e.thread : e \in Held(among)}
      /\ (among = <<>> <=> Held(among) = {})
  BY HeldOf, ThreadIdsAre
<1>2. among # <<>> => among[1] \in Held(among)
  <2>1. DOMAIN among = 1 .. Len(among) /\ Len(among) \in Nat
    BY InSequence
  <2>2. among # <<>> => Len(among) # 0
    BY EmptySeq
  <2>3. among # <<>> => 1 \in DOMAIN among
    BY <2>1, <2>2
  <2> QED
    BY <2>3 DEF Held
<1>3. t.active \in Maybe(Threads) /\ \A e \in Entries : e.thread \in Threads
  BY DEF Tasks, Entries
<1>4. CASE t.active \in ThreadIds(among)
  BY <1>1, <1>3, <1>4 DEF Pick, Maybe
<1>5. CASE t.active \notin ThreadIds(among) /\ p \in ThreadIds(among)
  BY <1>1, <1>3, <1>5 DEF Pick, Maybe
<1>6. CASE t.active \notin ThreadIds(among) /\ p \notin ThreadIds(among)
  BY <1>1, <1>2, <1>3, <1>6 DEF Pick, Maybe
<1> QED
  BY <1>4, <1>5, <1>6

LEMMA NormalizeIs ==
  ASSUME NEW t \in Tasks, NEW p \in Maybe(Threads)
  PROVE  /\ Normalize(t, p) \in Tasks /\ Normalize(t, p).id = t.id
         /\ Normal(Normalize(t, p))
         /\ Held(Normalize(t, p).threads) \subseteq Held(t.threads)
         /\ Pruned(t.threads) => Normalize(t, p).threads = t.threads
         /\ Normal(t) => Normalize(t, p) = t
<1> DEFINE es == Prune(t.threads)
           at == {i \in DOMAIN es : ~es[i].missing}
           alive == Chosen(es, at)
           among == IF alive # <<>> THEN alive ELSE es
           act == Pick(t, among, p)
           n == Normalize(t, p)
<1>1. t.threads \in Seq(Entries) /\ t.id \in TaskIds /\ t.active \in Maybe(Threads)
      /\ t = [id |-> t.id, threads |-> t.threads, active |-> t.active]
  BY DEF Tasks
<1>2. /\ es \in Seq(Entries) /\ Pruned(es) /\ Held(es) \subseteq Held(t.threads)
      /\ t.threads # <<>> => es # <<>>
      /\ Pruned(t.threads) => es = t.threads
  BY <1>1, PruneIs
<1>3. n = [t EXCEPT !.threads = es, !.active = act]
  BY DEF Normalize, Preferred
<1> HIDE DEF es
<1>4. alive \in Seq(Entries) /\ Held(alive) = {es[i] : i \in at}
  BY <1>2, HeldChosen
<1>5. Held(alive) = {e \in Held(es) : ~e.missing}
  <2> HIDE DEF alive
  <2>1. \A e \in Held(alive) : e \in Held(es) /\ ~e.missing
    BY <1>4 DEF Held
  <2>2. \A e \in Held(es) : ~e.missing => e \in Held(alive)
    BY <1>4 DEF Held
  <2> QED
    BY <2>1, <2>2
<1>6. (alive = <<>> <=> Held(alive) = {}) /\ (es = <<>> <=> Held(es) = {})
  BY <1>2, <1>4, HeldOf
<1> HIDE DEF alive
<1>7. among \in Seq(Entries) /\ Held(among) \subseteq Held(es) /\ (among = <<>> <=> es = <<>>)
  BY <1>2, <1>4, <1>5, <1>6
<1> HIDE DEF among
<1>8. /\ act \in Maybe(Threads)
      /\ among # <<>> => \E e \in Held(among) : e.thread = act
      /\ among = <<>> => act = None
      /\ (\E e \in Held(among) : e.thread = t.active) => act = t.active
  BY <1>7, PickIs
<1> HIDE DEF act, n
<1>9. n.id = t.id /\ n.threads = es /\ n.active = act /\ n \in Tasks
      /\ n = [id |-> t.id, threads |-> es, active |-> act]
  BY <1>1, <1>2, <1>3, <1>8 DEF Tasks
<1>10. Shows(n)
  <2>1. CASE es = <<>>
    BY <2>1, <1>7, <1>8, <1>9 DEF Shows
  <2>2. CASE es # <<>>
    <3>1. PICK e \in Held(among) : e.thread = act
      BY <2>2, <1>7, <1>8
    <3>2. e \in Held(es)
      BY <1>7
    <3>3. e.missing => \A x \in Held(es) : x.missing
      BY <1>5, <1>6 DEF among
    <3> QED
      BY <2>2, <3>1, <3>2, <3>3, <1>9 DEF Shows
  <2> QED
    BY <2>1, <2>2
<1>11. ASSUME Normal(t) PROVE n = t
  <2>1. es = t.threads
    BY <1>2, <1>11 DEF Normal
  <2>2. act = t.active
    <3>1. CASE es = <<>>
      BY <3>1, <2>1, <1>7, <1>8, <1>11 DEF Normal, Shows
    <3>2. CASE es # <<>>
      <4>1. PICK e \in Held(es) : e.thread = t.active
                /\ (e.missing => \A x \in Held(es) : x.missing)
        BY <3>2, <2>1, <1>11 DEF Normal, Shows
      <4>2. e \in Held(among)
        BY <4>1, <1>5, <1>6 DEF among
      <4> QED
        BY <4>1, <4>2, <1>8
    <3> QED
      BY <3>1, <3>2
  <2> QED
    BY <2>1, <2>2, <1>1, <1>9
<1>12. /\ n \in Tasks /\ n.id = t.id /\ Normal(n)
       /\ Held(n.threads) \subseteq Held(t.threads)
       /\ Pruned(t.threads) => n.threads = t.threads
       /\ Normal(t) => n = t
  BY <1>2, <1>9, <1>10, <1>11 DEF Normal
<1> QED
  BY <1>12 DEF n

LEMMA BindIs ==
  ASSUME NEW t \in Tasks, NEW th \in Threads
  PROVE  /\ Bind(t, th) \in Tasks /\ Bind(t, th).id = t.id /\ Bind(t, th).active = th
         /\ Pruned(Bind(t, th).threads)
         /\ ThreadIds(Bind(t, th).threads) \subseteq ThreadIds(t.threads) \cup {th}
<1> DEFINE rest == Without(t.threads, {th})
           one == <<Entry(th)>>
           all == one \o rest
           b == Bind(t, th)
<1>1. t.threads \in Seq(Entries) /\ t.id \in TaskIds
      /\ t = [id |-> t.id, threads |-> t.threads, active |-> t.active]
  BY DEF Tasks
<1>2. rest \in Seq(Entries) /\ Held(rest) \subseteq Held(t.threads)
  BY <1>1, WithoutIs
<1>3. one \in Seq(Entries) /\ Held(one) = {Entry(th)}
  BY Single DEF Entry, Entries
<1>4. b = [t EXCEPT !.threads = Prune(all), !.active = th]
  BY DEF Bind
<1> HIDE DEF rest, one
<1>5. all \in Seq(Entries) /\ Held(all) = {Entry(th)} \cup Held(rest)
  BY <1>2, <1>3, HeldJoined
<1> HIDE DEF all
<1>6. Prune(all) \in Seq(Entries) /\ Pruned(Prune(all)) /\ Held(Prune(all)) \subseteq Held(all)
  BY <1>5, PruneIs
<1> HIDE DEF b
<1>7. b \in Tasks /\ b.id = t.id /\ b.active = th /\ b.threads = Prune(all)
  BY <1>1, <1>4, <1>6 DEF Tasks, Maybe
<1>8. ThreadIds(b.threads) \subseteq ThreadIds(t.threads) \cup {th}
  BY <1>2, <1>5, <1>6, <1>7, ThreadIdsAre DEF Entry
<1> QED
  BY <1>6, <1>7, <1>8 DEF b

LEMMA MarkMissingIs ==
  ASSUME NEW t \in Tasks, NEW th \in Threads
  PROVE  /\ MarkMissing(t, th) \in Tasks /\ MarkMissing(t, th).id = t.id
         /\ Pruned(MarkMissing(t, th).threads)
         /\ ThreadIds(MarkMissing(t, th).threads) \subseteq ThreadIds(t.threads)
<1> DEFINE es == t.threads
           marked == [i \in DOMAIN es |-> IF es[i].thread = th
                                          THEN [es[i] EXCEPT !.missing = TRUE] ELSE es[i]]
           act == IF t.active = th THEN None ELSE t.active
           b == MarkMissing(t, th)
<1>1. es \in Seq(Entries) /\ t.id \in TaskIds /\ t.active \in Maybe(Threads)
      /\ t = [id |-> t.id, threads |-> es, active |-> t.active]
  BY DEF Tasks
<1>2. DOMAIN es = 1 .. Len(es) /\ Len(es) \in Nat /\ \A i \in DOMAIN es : es[i] \in Entries
  BY <1>1, InSequence
<1>3. \A i \in DOMAIN es : marked[i] \in Entries /\ marked[i].thread = es[i].thread
  BY <1>2 DEF Entries
<1>4. marked \in [1 .. Len(es) -> Entries]
  BY <1>2, <1>3
<1>5. marked \in Seq(Entries)
  BY <1>2, <1>4, SeqDef
<1>6. ThreadIds(marked) \subseteq ThreadIds(es)
  BY <1>3 DEF ThreadIds
<1>7. b = [t EXCEPT !.threads = Prune(marked), !.active = act]
  BY DEF MarkMissing
<1> HIDE DEF marked, es
<1>8. Prune(marked) \in Seq(Entries) /\ Pruned(Prune(marked)) /\ Held(Prune(marked)) \subseteq Held(marked)
  BY <1>5, PruneIs
<1> HIDE DEF b
<1>9. b \in Tasks /\ b.id = t.id /\ b.threads = Prune(marked)
  BY <1>1, <1>7, <1>8 DEF Tasks, Maybe
<1>10. ThreadIds(b.threads) \subseteq ThreadIds(t.threads)
  BY <1>6, <1>8, <1>9, ThreadIdsAre DEF es
<1> QED
  BY <1>8, <1>9, <1>10 DEF b

LEMMA DisownIs ==
  ASSUME NEW t \in Tasks, NEW o \in Tasks, NEW p \in Maybe(Threads)
  PROVE  /\ Disown(t, o, p) \in Tasks /\ Disown(t, o, p).id = t.id
         /\ t.id = o.id => Disown(t, o, p) = t
         /\ Pruned(t.threads) => Pruned(Disown(t, o, p).threads)
         /\ ThreadIds(Disown(t, o, p).threads) \subseteq ThreadIds(t.threads)
         /\ t.id # o.id =>
                ThreadIds(Disown(t, o, p).threads) \cap ThreadIds(o.threads) = {}
<1> DEFINE own == ThreadIds(o.threads)
           free == t.id = o.id \/ (ThreadIds(t.threads) \cup {t.active}) \cap own = {}
           rest == Without(t.threads, own)
           left == [t EXCEPT !.threads = rest,
                             !.active = IF t.active \in own THEN None ELSE t.active]
           d == Disown(t, o, p)
<1>1. CASE free
  <2>1. d = t
    BY <1>1 DEF Disown
  <2> QED
    BY <1>1, <2>1
<1>2. CASE ~free
  <2>1. t.threads \in Seq(Entries) /\ t.id \in TaskIds /\ t.active \in Maybe(Threads)
        /\ t = [id |-> t.id, threads |-> t.threads, active |-> t.active]
    BY DEF Tasks
  <2>2. rest \in Seq(Entries) /\ Held(rest) = {e \in Held(t.threads) : e.thread \notin own}
    BY <2>1, WithoutIs
  <2>3. d = Normalize(left, p)
    BY <1>2 DEF Disown
  <2> HIDE DEF rest, own
  <2>4. left \in Tasks /\ left.id = t.id /\ left.threads = rest
    BY <2>1, <2>2 DEF Tasks, Maybe
  <2> HIDE DEF left, d
  <2>5. d \in Tasks /\ d.id = t.id /\ Pruned(d.threads) /\ Held(d.threads) \subseteq Held(rest)
    BY <2>3, <2>4, NormalizeIs DEF Normal
  <2>6. ThreadIds(d.threads) \subseteq ThreadIds(t.threads) /\ ThreadIds(d.threads) \cap own = {}
    BY <2>2, <2>5, ThreadIdsAre
  <2> QED
    BY <1>2, <2>5, <2>6 DEF d, own
<1> QED
  BY <1>1, <1>2

LEMMA OwnIs ==
  ASSUME NEW tasks \in Seq(Tasks), NEW o \in Tasks, NEW p \in Maybe(Threads)
  PROVE  /\ Own(tasks, o, p) \in Seq(Tasks)
         /\ Held(Own(tasks, o, p)) = {Disown(t, o, p) : t \in Held(tasks)}
         /\ Distinct(tasks) => Distinct(Own(tasks, o, p))
<1> DEFINE w == Own(tasks, o, p)
<1>1. DOMAIN tasks = 1 .. Len(tasks) /\ Len(tasks) \in Nat /\ \A i \in DOMAIN tasks : tasks[i] \in Tasks
  BY InSequence
<1>2. w = [i \in DOMAIN tasks |-> Disown(tasks[i], o, p)]
  BY DEF Own
<1>3. \A i \in DOMAIN tasks : Disown(tasks[i], o, p) \in Tasks /\ Disown(tasks[i], o, p).id = tasks[i].id
  BY <1>1, DisownIs
<1> HIDE DEF w
<1>4. w \in [1 .. Len(tasks) -> Tasks]
  BY <1>1, <1>2, <1>3
<1>5. w \in Seq(Tasks)
  BY <1>1, <1>4, SeqDef
<1>6. Held(w) = {Disown(t, o, p) : t \in Held(tasks)}
  BY <1>2 DEF Held
<1>7. Distinct(tasks) => Distinct(w)
  BY <1>2, <1>3 DEF Distinct
<1> QED
  BY <1>5, <1>6, <1>7 DEF w

-----------------------------------------------------------------------------
(* What is written to tasks.json.                                          *)

\* A list of tasks with ids of their own, all created before, the current one
\* among them, each with at most one live and one missing thread per route.
Whole(d, n) ==
    /\ Distinct(d.tasks)
    /\ d.current \in Ids(d.tasks)
    /\ \A t \in Held(d.tasks) : Pruned(t.threads)
    /\ Ids(d.tasks) \subseteq 1 .. n

Current(d) == FindTask(d.tasks, d.current)

\* No thread belongs to two tasks.
One(tasks) ==
    \A s, t \in Held(tasks) : ThreadIds(s.threads) \cap ThreadIds(t.threads) # {} => s = t

\* The tasks are still there and have their threads.
Keeps(before, after) ==
    \A s \in Held(before) : \E t \in Held(after) : t.id = s.id /\ t.threads = s.threads

LEMMA CurrentIs ==
  ASSUME NEW d \in TaskFiles, NEW n \in Nat, Whole(d, n)
  PROVE  /\ Current(d) \in Tasks /\ Current(d) \in Held(d.tasks) /\ Current(d).id = d.current
         /\ Current(d) # None /\ Pruned(Current(d).threads) /\ d.current \in 1 .. n
         /\ d.tasks \in Seq(Tasks) /\ d.current \in TaskIds
<1>1. d.tasks \in Seq(Tasks) /\ d.current \in TaskIds
  BY DEF TaskFiles
<1>2. Current(d) # None
  BY <1>1, FindIs DEF Whole, Current
<1> QED
  BY <1>1, <1>2, FindIs DEF Whole, Current

\* A task is put back, first and as the current one.
LEMMA PutBack ==
  ASSUME NEW d \in TaskFiles, NEW n \in Nat, Whole(d, n),
         NEW t \in Tasks, t.id \in 1 .. n, Pruned(t.threads)
  PROVE  LET f == TaskFile(t, ReplaceTask(d.tasks, t)) IN
         /\ f \in TaskFiles /\ Whole(f, n) /\ Current(f) = t /\ f.current = t.id
         /\ Ids(f.tasks) = Ids(d.tasks) \cup {t.id}
         /\ One(d.tasks) /\ (\E x \in Held(d.tasks) :
                x.id = t.id /\ ThreadIds(t.threads) \subseteq ThreadIds(x.threads))
                => One(f.tasks)
         /\ (\E x \in Held(d.tasks) : x.id = t.id /\ x.threads = t.threads)
                => Keeps(d.tasks, f.tasks)
<1> DEFINE R == ReplaceTask(d.tasks, t)
           f == TaskFile(t, R)
<1>0. d.tasks \in Seq(Tasks) /\ Held(d.tasks) \subseteq Tasks
  BY HeldOf DEF TaskFiles
<1>1. R \in Seq(Tasks) /\ Held(R) = {t} \cup {x \in Held(d.tasks) : x.id # t.id} /\ Distinct(R)
  BY <1>0, ReplaceIs DEF Whole
<1>2. f.tasks = R /\ f.current = t.id /\ f = [current |-> t.id, tasks |-> R] /\ t.id \in TaskIds
  BY DEF TaskFile, Tasks
<1> HIDE DEF R, f
<1>3. f \in TaskFiles
  BY <1>1, <1>2 DEF TaskFiles
<1>4. Ids(R) = Ids(d.tasks) \cup {t.id}
  BY <1>1, IdsAre
<1>5. Whole(f, n)
  <2>1. \A x \in Held(R) : Pruned(x.threads)
    BY <1>1 DEF Whole
  <2>2. Ids(R) \subseteq 1 .. n
    BY <1>4 DEF Whole
  <2> QED
    BY <1>1, <1>2, <1>4, <2>1, <2>2 DEF Whole
<1>6. Current(f) = t
  BY <1>1, <1>2, FindHeld DEF Current
<1>7. ASSUME One(d.tasks), NEW x \in Held(d.tasks), x.id = t.id,
             ThreadIds(t.threads) \subseteq ThreadIds(x.threads)
      PROVE  One(R)
  <2> SUFFICES ASSUME NEW s \in Held(R), NEW u \in Held(R),
                      ThreadIds(s.threads) \cap ThreadIds(u.threads) # {}
               PROVE  s = u
    BY DEF One
  <2> DEFINE old(y) == IF y = t THEN x ELSE y
  <2>1. old(s) \in Held(d.tasks) /\ old(u) \in Held(d.tasks)
        /\ ThreadIds(s.threads) \subseteq ThreadIds(old(s).threads)
        /\ ThreadIds(u.threads) \subseteq ThreadIds(old(u).threads)
    BY <1>1, <1>7
  <2>2. old(s) = old(u)
    BY <2>1, <1>7 DEF One
  <2> QED
    BY <1>1, <1>7, <2>2
<1>8. ASSUME NEW x \in Held(d.tasks), x.id = t.id, x.threads = t.threads
      PROVE  Keeps(d.tasks, R)
  <2> SUFFICES ASSUME NEW s \in Held(d.tasks)
               PROVE  \E y \in Held(R) : y.id = s.id /\ y.threads = s.threads
    BY DEF Keeps
  <2>1. CASE s.id = t.id
    <3>1. FindTask(d.tasks, s.id) = s /\ FindTask(d.tasks, x.id) = x
      BY <1>0, FindHeld DEF Whole
    <3>2. s = x
      BY <2>1, <1>8, <3>1
    <3> QED
      BY <3>2, <1>8, <1>1
  <2>2. CASE s.id # t.id
    BY <2>2, <1>1
  <2> QED
    BY <2>1, <2>2
<1>9. /\ f \in TaskFiles /\ Whole(f, n) /\ Current(f) = t /\ f.current = t.id
      /\ Ids(f.tasks) = Ids(d.tasks) \cup {t.id}
      /\ One(d.tasks) /\ (\E x \in Held(d.tasks) :
                x.id = t.id /\ ThreadIds(t.threads) \subseteq ThreadIds(x.threads))
                => One(f.tasks)
      /\ (\E x \in Held(d.tasks) : x.id = t.id /\ x.threads = t.threads)
                => Keeps(d.tasks, f.tasks)
  BY <1>2, <1>3, <1>4, <1>5, <1>6, <1>7, <1>8
<1> QED
  BY <1>9 DEF f, R

\* The same, and its threads leave the other tasks.
LEMMA PutOwned ==
  ASSUME NEW d \in TaskFiles, NEW n \in Nat, Whole(d, n), NEW p \in Maybe(Threads),
         NEW t \in Tasks, t.id \in 1 .. n, Pruned(t.threads)
  PROVE  LET f == TaskFile(t, Own(ReplaceTask(d.tasks, t), t, p)) IN
         /\ f \in TaskFiles /\ Whole(f, n) /\ Current(f) = t /\ f.current = t.id
         /\ Ids(f.tasks) = Ids(d.tasks) \cup {t.id}
         /\ One(d.tasks) => One(f.tasks)
<1> DEFINE R == ReplaceTask(d.tasks, t)
           W == Own(R, t, p)
           f == TaskFile(t, W)
<1>0. d.tasks \in Seq(Tasks) /\ Held(d.tasks) \subseteq Tasks
  BY HeldOf DEF TaskFiles
<1>1. R \in Seq(Tasks) /\ Held(R) = {t} \cup {x \in Held(d.tasks) : x.id # t.id} /\ Distinct(R)
  BY <1>0, ReplaceIs DEF Whole
<1> HIDE DEF R
<1>2. W \in Seq(Tasks) /\ Held(W) = {Disown(x, t, p) : x \in Held(R)} /\ Distinct(W)
  BY <1>1, OwnIs
<1>3. f.tasks = W /\ f.current = t.id /\ f = [current |-> t.id, tasks |-> W] /\ t.id \in TaskIds
  BY DEF TaskFile, Tasks
<1> HIDE DEF W, f
<1>4. f \in TaskFiles
  BY <1>2, <1>3 DEF TaskFiles
<1>5. \A x \in Held(R) : x \in Tasks /\ Pruned(x.threads)
  BY <1>0, <1>1 DEF Whole
<1>6. \A x \in Held(R) :
         /\ Disown(x, t, p).id = x.id
         /\ x.id = t.id => Disown(x, t, p) = x
         /\ Pruned(Disown(x, t, p).threads)
         /\ ThreadIds(Disown(x, t, p).threads) \subseteq ThreadIds(x.threads)
         /\ x.id # t.id => ThreadIds(Disown(x, t, p).threads) \cap ThreadIds(t.threads) = {}
  BY <1>5, DisownIs
<1>7. Ids(R) = Ids(d.tasks) \cup {t.id}
  BY <1>1, IdsAre
<1>8. Ids(W) = Ids(R)
  <2>1. Ids(W) = {y.id : y \in Held(W)} /\ Ids(R) = {y.id : y \in Held(R)}
    BY IdsAre
  <2>2. \A y \in Held(W) : y.id \in Ids(R)
    <3> SUFFICES ASSUME NEW x \in Held(R) PROVE Disown(x, t, p).id \in Ids(R)
      BY <1>2
    <3> QED
      BY <2>1, <1>6
  <2>3. \A x \in Held(R) : x.id \in Ids(W)
    <3> TAKE x \in Held(R)
    <3>1. Disown(x, t, p) \in Held(W)
      BY <1>2
    <3>2. Disown(x, t, p).id = x.id
      BY <1>6
    <3> QED
      BY <2>1, <3>1, <3>2
  <2> QED
    BY <2>1, <2>2, <2>3
<1>9. t \in Held(W)
  BY <1>1, <1>2, <1>6
<1>10. Whole(f, n)
  <2>1. \A x \in Held(W) : Pruned(x.threads)
    BY <1>2, <1>6
  <2>2. Ids(W) \subseteq 1 .. n
    BY <1>7, <1>8 DEF Whole
  <2> QED
    BY <1>2, <1>3, <1>7, <1>8, <2>1, <2>2 DEF Whole
<1>11. Current(f) = t
  BY <1>2, <1>3, <1>9, FindHeld DEF Current
<1>12. ASSUME One(d.tasks) PROVE One(W)
  <2> SUFFICES ASSUME NEW x \in Held(R), NEW y \in Held(R),
                      ThreadIds(Disown(x, t, p).threads) \cap ThreadIds(Disown(y, t, p).threads) # {}
               PROVE  Disown(x, t, p) = Disown(y, t, p)
    BY <1>2 DEF One
  <2>1. CASE x = t /\ y = t
    BY <2>1
  <2>2. CASE x = t /\ y # t
    BY <2>2, <1>1, <1>6
  <2>3. CASE x # t /\ y = t
    BY <2>3, <1>1, <1>6
  <2>4. CASE x # t /\ y # t
    BY <2>4, <1>1, <1>6, <1>12 DEF One
  <2> QED
    BY <2>1, <2>2, <2>3, <2>4
<1>13. /\ f \in TaskFiles /\ Whole(f, n) /\ Current(f) = t /\ f.current = t.id
       /\ Ids(f.tasks) = Ids(d.tasks) \cup {t.id}
       /\ One(d.tasks) => One(f.tasks)
  BY <1>3, <1>4, <1>7, <1>8, <1>10, <1>11, <1>12
<1> QED
  BY <1>13 DEF f, W, R

\* A task with a new id is put first.
LEMMA Fresh ==
  ASSUME NEW tasks \in Seq(Tasks), NEW t \in Tasks, t.id \notin Ids(tasks)
  PROVE  <<t>> \o tasks = ReplaceTask(tasks, t)
<1>1. {i \in DOMAIN tasks : tasks[i].id # t.id} = DOMAIN tasks
  BY DEF Ids
<1>2. Chosen(tasks, DOMAIN tasks) = tasks
  BY ChosenAll
<1> QED
  BY <1>1, <1>2 DEF ReplaceTask

\* All tasks are normalised, and one of them is the current one.
LEMMA Reloaded ==
  ASSUME NEW d \in TaskFiles, NEW n \in Nat, Whole(d, n), NEW p \in Maybe(Threads)
  PROVE  LET tasks == [i \in DOMAIN d.tasks |-> Normalize(d.tasks[i], p)] IN
         /\ tasks \in Seq(Tasks) /\ Distinct(tasks) /\ Ids(tasks) = Ids(d.tasks)
         /\ \A t \in Held(tasks) :
                LET f == TaskFile(t, tasks) IN
                f \in TaskFiles /\ Whole(f, n) /\ Current(f) = t
         /\ One(d.tasks) => One(tasks)
<1> DEFINE ts == [i \in DOMAIN d.tasks |-> Normalize(d.tasks[i], p)]
<1>0. d.tasks \in Seq(Tasks) /\ DOMAIN d.tasks = 1 .. Len(d.tasks) /\ Len(d.tasks) \in Nat
      /\ \A i \in DOMAIN d.tasks : d.tasks[i] \in Tasks
  BY InSequence DEF TaskFiles
<1>1. \A i \in DOMAIN d.tasks :
         /\ Normalize(d.tasks[i], p) \in Tasks /\ Normalize(d.tasks[i], p).id = d.tasks[i].id
         /\ Pruned(Normalize(d.tasks[i], p).threads)
         /\ Held(Normalize(d.tasks[i], p).threads) \subseteq Held(d.tasks[i].threads)
  BY <1>0, NormalizeIs DEF Normal
<1>2. ts \in [1 .. Len(d.tasks) -> Tasks]
  BY <1>0, <1>1
<1>3. ts \in Seq(Tasks)
  BY <1>0, <1>2, SeqDef
<1>4. Distinct(ts)
  BY <1>1 DEF Distinct, Whole
<1>5. Ids(ts) = Ids(d.tasks)
  BY <1>1 DEF Ids
<1>6. ASSUME One(d.tasks) PROVE One(ts)
  <2> SUFFICES ASSUME NEW i \in DOMAIN d.tasks, NEW j \in DOMAIN d.tasks,
                      ThreadIds(ts[i].threads) \cap ThreadIds(ts[j].threads) # {}
               PROVE  ts[i] = ts[j]
    BY DEF One, Held
  <2>1. \A k \in DOMAIN d.tasks : ThreadIds(ts[k].threads) \subseteq ThreadIds(d.tasks[k].threads)
    BY <1>1, ThreadIdsAre
  <2> HIDE DEF ts
  <2>2. d.tasks[i] = d.tasks[j]
    <3>1. d.tasks[i] \in Held(d.tasks) /\ d.tasks[j] \in Held(d.tasks)
      BY DEF Held
    <3>2. ThreadIds(d.tasks[i].threads) \cap ThreadIds(d.tasks[j].threads) # {}
      BY <2>1
    <3> QED
      BY <3>1, <3>2, <1>6 DEF One
  <2>3. \A k \in DOMAIN d.tasks : ts[k] = Normalize(d.tasks[k], p)
    BY DEF ts
  <2> QED
    BY <2>2, <2>3
<1>7. ASSUME NEW t \in Held(ts)
      PROVE  LET f == TaskFile(t, ts) IN f \in TaskFiles /\ Whole(f, n) /\ Current(f) = t
  <2> DEFINE f == TaskFile(t, ts)
  <2>1. t \in Tasks /\ t.id \in TaskIds
    <3> HIDE DEF ts
    <3>1. t \in Tasks
      BY <1>3, HeldOf
    <3> QED
      BY <3>1 DEF Tasks
  <2>2. f.tasks = ts /\ f.current = t.id /\ f \in TaskFiles
    BY <1>3, <2>1 DEF TaskFile, TaskFiles
  <2>3. \A x \in Held(ts) : Pruned(x.threads)
    BY <1>1 DEF Held
  <2>4. t.id \in Ids(ts)
    BY IdsAre
  <2> HIDE DEF ts, f
  <2>5. Whole(f, n)
    BY <1>4, <1>5, <2>2, <2>3, <2>4 DEF Whole
  <2>6. Current(f) = t
    BY <1>3, <1>4, <2>2, FindHeld DEF Current
  <2> QED
    BY <2>2, <2>5, <2>6 DEF f
<1> QED
  BY <1>3, <1>4, <1>5, <1>6, <1>7

\* The task that is chosen when the project is opened is one of them.
LEMMA SelectedIs ==
  ASSUME NEW tasks \in Seq(Tasks), Ids(tasks) # {}
  PROVE  Selected(tasks) \in Held(tasks)
<1> DEFINE named == FindTask(tasks, CurrentId)
           at == {i \in DOMAIN tasks : memory.thread \in ThreadIds(tasks[i].threads)}
           bound == FirstOf(tasks, at)
<1>1. named # None => named \in Held(tasks)
  BY FindIs
<1>2. bound # None => bound \in Held(tasks)
  <2>1. at \subseteq DOMAIN tasks /\ None \notin Tasks
    BY TaskAssumption
  <2>2. at # {} => \E i \in at : bound = tasks[i]
    <3> HIDE DEF at
    <3> QED
      BY <2>1, FirstIs
  <2>3. at = {} => bound = None
    BY DEF FirstOf
  <2> QED
    BY <2>1, <2>2, <2>3 DEF Held
<1>3. tasks[1] \in Held(tasks)
  <2>1. DOMAIN tasks = 1 .. Len(tasks) /\ Len(tasks) \in Nat
    BY InSequence
  <2>2. PICK i \in DOMAIN tasks : TRUE
    BY DEF Ids
  <2>3. 1 \in DOMAIN tasks
    BY <2>1, <2>2
  <2> QED
    BY <2>3 DEF Held
<1>4. Selected(tasks) = (CASE named # None -> named
                           [] named = None /\ bound # None -> bound
                           [] OTHER -> tasks[1])
  BY DEF Selected
<1> HIDE DEF named, bound
<1> QED
  BY <1>1, <1>2, <1>3, <1>4

-----------------------------------------------------------------------------
(* The rounds of a request.                                                *)

OfThread == {"pointer", "bind", "put", "force", "guard", "send", "resend", "decide",
             "find", "miss", "insist", "fallback", "recover"}
OfAny == {"ensure", "create", "wake", "probe", "sync", "revive"}
OfNothing == {"current", "edit", "defaults", "zip", "copy", "open", "reconcile"}

Foci == [prior : Maybe(Threads), source : Maybe(Threads), thread : Maybe(Threads),
         pointer : Maybe(Threads)]

\* What a round may be about, with these checkpoints.
Rounds(sv) ==
    [do : OfThread, arg : Threads] \cup [do : OfAny, arg : Maybe(Threads)]
    \cup [do : OfNothing, arg : {None}] \cup [do : {"switch"}, arg : TaskIds]
    \cup [do : {"prior"}, arg : [source : Threads, pointer : Maybe(Threads)]]
    \cup [do : {"before", "call"}, arg : Foci]
    \cup [do : {"make"}, arg : {"task", "startup", "guard", "resend"}]
    \cup [do : {"unzip", "recopy"}, arg : sv]

Writing == {"ensure", "create", "switch", "bind", "edit", "miss", "put", "force",
            "current", "reconcile"}
Loading == {"zip", "copy", "unzip", "recopy", "open", "reconcile"}

\* The kinds of request that have such a round.
Belongs(x, k) ==
    /\ x.do \in {"decide", "find", "guard", "send", "resend"} => k = "turn"
    /\ x.do \in {"prior", "before", "call", "insist", "fallback", "sync"} => k = "tool"
    /\ x.do \in {"wake", "probe", "recover", "revive"} => k = "restart"
    /\ x.do \in {"unzip", "recopy"} => k = "load"
    /\ x.do \in {"open", "reconcile"} => k \in {"load", "open"}
    /\ x.do = "create" => k \in {"create", "thread"}
    /\ x.do = "make" => /\ x.arg = "task" => k = "thread"
                        /\ x.arg = "startup" => k = "restart"
                        /\ x.arg \in {"guard", "resend"} => k = "turn"
    /\ k = "snapshot" => x.do = "current"
    /\ k \in {"load", "open"} => x.do \in Loading
    /\ k = "tool" => x.do \notin {"ensure", "bind", "miss", "edit"}
    /\ k \in {"turn", "tool"} => x.do # "switch"
    /\ k # None

\* The rounds that come after each other.
Follows(x, y) ==
    /\ y.do = "bind" => x.do = "ensure"
    /\ y.do = "copy" <=> x.do = "zip"
    /\ y.do = "reconcile" => x.do = "open"
    /\ y.do \in {"prior", "before", "sync", "wake"} => x.do = "current"
    /\ x.do = "fallback" => y.do = "current"

Chained(p) ==
    /\ \A i \in 1 .. Len(p) - 1 : Follows(p[i], p[i + 1])
    /\ p # <<>> => p[Len(p)].do \notin {"zip", "fallback"}
Proper(p, k) == \A i \in DOMAIN p : Belongs(p[i], k)

\* A request between two steps: where it is in its rounds p, and what it holds.
Midway(p, st, t, dr) ==
    /\ p = <<>> => st = "read" /\ t = None /\ dr = None
    /\ p # <<>> =>
         /\ st = "write" => dr # None /\ p[1].do \in Writing
         /\ st \in {"refresh", "patch"} => t # None /\ p[1].do \in Writing \cup {"sync"}
         /\ st = "store" => \/ p[1].do \in {"pointer", "defaults"}
                            \/ p[1].do \in Writing \cup {"sync"} /\ t # None
         /\ st = "read" /\ p[1].do = "bind" => t # None
         /\ p[1].do = "copy" => dr # None
         /\ dr # None => st = "write" \/ p[1].do = "copy"

Planned(r) ==
    /\ Chained(plan[r]) /\ Proper(plan[r], kind[r])
    /\ Midway(plan[r], stage[r], task[r], draft[r])

PlansInv ==
    /\ plan \in [Requests -> Seq(Rounds(saves))]
    /\ \A r \in Requests : Planned(r)

FilesInv ==
    /\ Whole(disk, born)
    /\ \A r \in Requests : draft[r] # None => Whole(draft[r], born)
    /\ \A s \in saves : Whole(s.disk, born)
    /\ \A r \in Requests : task[r] # None => Pruned(task[r].threads) /\ task[r].id \in 1 .. born

LatestInv ==
    /\ \A r \in mixed : kind[r] # None
    /\ latest = None => Quiet
    /\ latest # None => kind[latest] # None
    /\ latest # None /\ latest \notin mixed => \A q \in Requests : AtWork(q) => q = latest

-----------------------------------------------------------------------------
(* What a request that is alone makes of whatever was left before it.      *)

\* A snapshot.
Snapped(p, st, d, dr, m, t) ==
    IF p # <<>>
    THEN /\ p = <<Round("current", None)>>
         /\ st = "write" => Normal(Current(dr))
         /\ st \in {"refresh", "patch", "store"} => Normal(t) /\ t = FindTask(d.tasks, t.id)
         /\ st = "store" => m = Pointers(t)
    ELSE LET shown == FindTask(d.tasks, m.task)
         IN  shown # None => m = Pointers(shown) /\ Normal(shown)

\* An opening or a loading of a checkpoint.
Loaded(p, st, d, f, m, t) ==
    IF p # <<>>
    THEN /\ p[Len(p)].do = "reconcile"
         /\ \A i \in 1 .. Len(p) - 1 : p[i].do # "reconcile"
         /\ p[1].do = "reconcile" =>
                /\ st \in {"read", "write"} => m = f
                /\ st \in {"refresh", "patch", "store"} => t = Current(d)
                /\ st = "store" => m = Pointers(Current(d))
         /\ p[1].do # "reconcile" => st = "read"
    ELSE f = Pointers(Current(d)) /\ m = f

Settling(k, p, st, d, f, m, t, dr) ==
    /\ k = "snapshot" => Snapped(p, st, d, dr, m, t)
    /\ k \in {"load", "open"} => Loaded(p, st, d, f, m, t)

SettleInv ==
    latest # None /\ latest \notin mixed =>
        Settling(kind[latest], plan[latest], stage[latest], disk, file, memory,
                 task[latest], draft[latest])

-----------------------------------------------------------------------------
(* Requests that come one after the other.                                 *)

\* A round of these repairs the thread the project shows.
Mending == {"current", "create", "force"}

After(p) == IF Len(p) > 1 THEN p[2].do ELSE "end"

\* The project must show the thread of round x, what comes after it being y.
Commits(x, y, lv) ==
    \/ x.do = "pointer" /\ y \notin Mending
    \/ x.do = "put" /\ y = "pointer"
    \/ x.do \in {"guard", "send", "resend"} /\ x.arg \in lv

Linked(p, lv) ==
    \A i \in 1 .. Len(p) - 1 :
        Commits(p[i + 1], IF i + 1 < Len(p) THEN p[i + 2].do ELSE "end", lv) =>
            /\ p[i].arg = p[i + 1].arg
            /\ \/ p[i].do \in {"bind", "pointer"}
               \/ p[i].do = "put" /\ p[i + 1].do = "pointer"

\* After a crash the pointers may have nothing to do with the tasks.
Lost(p, k) == k = "restart" /\ (p[1].do \in {"wake", "ensure"} \/ After(p) = "wake")

\* Before a round of a request of kind k, p being the rounds it has to do.
AtRest(p, k, d, f, m, t, lv) ==
    IF p = <<>> THEN m = Pointers(Current(d)) /\ f = m
    ELSE ~Lost(p, k) /\ k \notin {"load", "open"} =>
         /\ m = f /\ m.task = d.current /\ t \in {None, Current(d)}
         /\ p[1].do \notin Mending => m = Pointers(Current(d))
         /\ Commits(p[1], After(p), lv) => m.thread = p[1].arg
         /\ p[1].do \in {"prior", "sync"} => t = Current(d) /\ Normal(t)

\* What a round makes of the current task.
Effect(x, t) ==
    /\ x.do \in {"bind", "put", "force"} => t.active = x.arg
    /\ x.do = "current" => Normal(t)

Drafting(p, k, d, dr) ==
    /\ Effect(p[1], Current(dr))
    /\ k \in {"turn", "tool"} => dr.current = d.current /\ Ids(dr.tasks) = Ids(d.tasks)
    /\ k = "tool" => Keeps(d.tasks, dr.tasks)

Syncing(p, k, st, d, m, t, lv) ==
    k \notin {"load", "open"} /\ (~Lost(p, k) \/ p[1].do = "ensure") =>
        CASE p[1].do = "pointer" ->
                 /\ m = [task |-> d.current, thread |-> p[1].arg] /\ t \in {None, Current(d)}
                 /\ Commits(p[1], After(p), lv) => Current(d).active = p[1].arg
          [] p[1].do = "defaults" ->
                 m = Pointers(Current(d)) /\ t \in {None, Current(d)}
          [] p[1].do \notin {"pointer", "defaults"} ->
                 /\ t = Current(d) /\ Effect(p[1], Current(d))
                 /\ st = "store" => m = Pointers(Current(d))

\* The current task c shows what it showed before the tool, if anything.
Fixed(q, c) == IF q # None THEN c.active = q /\ Normal(c) ELSE c.threads = <<>>

Tooling(p, c) ==
    \A i \in DOMAIN p :
        /\ p[i].do \in {"before", "call"} =>
               /\ Fixed(p[i].arg.prior, c)
               /\ p[i].arg.prior # None => p[i].arg.thread = p[i].arg.prior
               /\ \A j \in DOMAIN p : p[j].do \notin {"put", "force", "insist", "fallback"}
        /\ p[i].do = "sync" =>
               /\ Fixed(p[i].arg, c)
               /\ p[i].arg # None => \A j \in DOMAIN p :
                      p[j].do \in {"put", "force", "insist"} => p[j].arg = p[i].arg

Serving(k, p, st, d, f, m, t, dr, lv) ==
    /\ Linked(p, lv)
    /\ st = "read" => AtRest(p, k, d, f, m, t, lv)
    /\ st = "write" => Drafting(p, k, d, dr)
    /\ st \in {"refresh", "patch", "store"} => Syncing(p, k, st, d, m, t, lv)
    /\ k = "tool" => Tooling(p, Current(IF st = "write" THEN dr ELSE d))

OneInv ==
    /\ One(disk.tasks)
    /\ \A r \in Requests : draft[r] # None => One(draft[r].tasks)
    /\ \A s \in saves : One(s.disk.tasks)

IdsInv ==
    /\ (\A r \in Requests : stage[r] # "write") => Ids(disk.tasks) = 1 .. born
    /\ \A r \in Requests : stage[r] = "write" => Ids(draft[r].tasks) = 1 .. born

AloneInv ==
    Alone =>
        /\ OneInv
        /\ ~Reset => IdsInv
        /\ latest = None => file = Pointers(Current(disk)) /\ memory = file
        /\ latest # None =>
               Serving(kind[latest], plan[latest], stage[latest], disk, file, memory,
                       task[latest], draft[latest], live)

IInv == TypeOK /\ FilesInv /\ PlansInv /\ LatestInv /\ SettleInv /\ AloneInv
-----------------------------------------------------------------------------
(* What a round is about to write.                                         *)

LEMMA Higher ==
  ASSUME NEW d, NEW m \in Nat, NEW n \in Nat, m <= n, Whole(d, m)
  PROVE  Whole(d, n)
<1>1. 1 .. m \subseteq 1 .. n
  OBVIOUS
<1> QED
  BY <1>1 DEF Whole

LEMMA NewTaskIs ==
  ASSUME NEW id \in TaskIds
  PROVE  /\ NewTask(id) \in Tasks /\ NewTask(id).id = id
         /\ NewTask(id).threads = <<>> /\ Pruned(NewTask(id).threads)
<1>1. <<>> \in Seq(Entries) /\ DOMAIN <<>> = {}
  OBVIOUS
<1>2. NewTask(id) = [id |-> id, threads |-> <<>>, active |-> None]
  BY DEF NewTask
<1>3. Pruned(<<>>)
  BY <1>1 DEF Pruned
<1> QED
  BY <1>1, <1>2, <1>3 DEF Tasks, Maybe

\* The number of tasks created when the tasks file d is written.
Grown(d) == IF d.current > born THEN d.current ELSE born

\* The tasks file d adds task t or puts it back.
Writes(d, t) ==
    /\ d \in TaskFiles /\ Whole(d, Grown(d)) /\ Current(d) = t /\ d.current = t.id
    /\ Grown(d) \in Nat /\ born <= Grown(d)
    /\ Ids(d.tasks) = Ids(disk.tasks) \cup {t.id}
    /\ t \in Tasks /\ Pruned(t.threads)

LEMMA Stored ==
  ASSUME TypeOK, FilesInv
  PROVE  /\ disk \in TaskFiles /\ disk.tasks \in Seq(Tasks) /\ Whole(disk, born)
         /\ born \in Nat /\ born \in 1 .. MaxTasks /\ MaxTasks \in Nat
         /\ memory \in Pointed /\ memory.thread \in Maybe(Threads) /\ memory.task \in TaskIds
         /\ Ids(disk.tasks) \subseteq 1 .. born
         /\ Current(disk) \in Tasks /\ Current(disk) \in Held(disk.tasks)
         /\ Current(disk).id = disk.current /\ Pruned(Current(disk).threads)
         /\ disk.current \in 1 .. born /\ Current(disk) # None
         /\ CurrentId = memory.task
<1>1. /\ disk \in TaskFiles /\ Whole(disk, born) /\ born \in 1 .. MaxTasks /\ memory \in Pointed
      /\ MaxTasks \in Nat
  BY TaskAssumption DEF TypeOK, FilesInv
<1>2. born \in Nat
  BY <1>1
<1>3. /\ Current(disk) \in Tasks /\ Current(disk) \in Held(disk.tasks)
      /\ Current(disk).id = disk.current /\ Pruned(Current(disk).threads)
      /\ disk.current \in 1 .. born /\ Current(disk) # None /\ disk.tasks \in Seq(Tasks)
  BY <1>1, <1>2, CurrentIs
<1>4. memory.thread \in Maybe(Threads) /\ memory.task \in TaskIds
  BY <1>1 DEF Pointed
<1>5. Ids(disk.tasks) \subseteq 1 .. born
  BY <1>1 DEF Whole
<1>6. CurrentId = memory.task
  BY <1>4, TaskAssumption DEF CurrentId
<1> QED
  BY <1>1, <1>2, <1>3, <1>4, <1>5, <1>6

LEMMA OwnedIs ==
  ASSUME TypeOK, FilesInv, NEW t \in Tasks, Pruned(t.threads),
         t.id \in 1 .. born \/ t.id = born + 1
  PROVE  LET d == TaskFile(t, Own(ReplaceTask(disk.tasks, t), t, memory.thread)) IN
         Writes(d, t) /\ (One(disk.tasks) => One(d.tasks))
<1> DEFINE d == TaskFile(t, Own(ReplaceTask(disk.tasks, t), t, memory.thread))
           n == IF t.id > born THEN t.id ELSE born
<1>1. /\ disk \in TaskFiles /\ Whole(disk, born) /\ born \in Nat
      /\ memory.thread \in Maybe(Threads)
  BY Stored
<1>2. n \in Nat /\ born <= n /\ t.id \in 1 .. n
  BY <1>1
<1> HIDE DEF n
<1>3. Whole(disk, n)
  BY <1>1, <1>2, Higher
<1>4. /\ d \in TaskFiles /\ Whole(d, n) /\ Current(d) = t /\ d.current = t.id
      /\ Ids(d.tasks) = Ids(disk.tasks) \cup {t.id}
      /\ One(disk.tasks) => One(d.tasks)
  BY <1>1, <1>2, <1>3, PutOwned
<1> HIDE DEF d
<1>5. Grown(d) = n
  BY <1>4 DEF Grown, n
<1>6. Writes(d, t) /\ (One(disk.tasks) => One(d.tasks))
  BY <1>2, <1>4, <1>5 DEF Writes
<1> QED
  BY <1>6 DEF d

\* A task that is put back without a look at the others.
LEMMA PutIs ==
  ASSUME TypeOK, FilesInv, NEW t \in Tasks, Pruned(t.threads), t.id \in 1 .. born
  PROVE  LET d == TaskFile(t, ReplaceTask(disk.tasks, t)) IN
         /\ Writes(d, t)
         /\ One(disk.tasks) /\ (\E x \in Held(disk.tasks) : x.id = t.id /\ x.threads = t.threads)
                => One(d.tasks) /\ Keeps(disk.tasks, d.tasks)
<1> DEFINE d == TaskFile(t, ReplaceTask(disk.tasks, t))
<1>1. disk \in TaskFiles /\ Whole(disk, born) /\ born \in Nat
  BY Stored
<1>2. /\ d \in TaskFiles /\ Whole(d, born) /\ Current(d) = t /\ d.current = t.id
      /\ Ids(d.tasks) = Ids(disk.tasks) \cup {t.id}
      /\ One(disk.tasks) /\ (\E x \in Held(disk.tasks) :
                x.id = t.id /\ ThreadIds(t.threads) \subseteq ThreadIds(x.threads))
                => One(d.tasks)
      /\ (\E x \in Held(disk.tasks) : x.id = t.id /\ x.threads = t.threads)
                => Keeps(disk.tasks, d.tasks)
  BY <1>1, PutBack
<1> HIDE DEF d
<1>3. Grown(d) = born
  BY <1>1, <1>2 DEF Grown
<1>4. /\ Writes(d, t)
      /\ One(disk.tasks) /\ (\E x \in Held(disk.tasks) : x.id = t.id /\ x.threads = t.threads)
                => One(d.tasks) /\ Keeps(disk.tasks, d.tasks)
  BY <1>1, <1>2, <1>3 DEF Writes
<1> QED
  BY <1>4 DEF d

LEMMA EnsureIs ==
  ASSUME TypeOK, FilesInv, NEW th \in Maybe(Threads)
  PROVE  \E t \in Tasks :
            /\ Writes(Ensure(th), t) /\ (One(disk.tasks) => One(Ensure(th).tasks))
            /\ IF memory.task \in Ids(disk.tasks) THEN t.id = memory.task ELSE t.id = born + 1
<1> DEFINE found == FindTask(disk.tasks, CurrentId)
           u == IF found = None THEN NewTask(born + 1) ELSE found
           bound == IF th = None THEN u ELSE Bind(u, th)
           d == TaskFile(bound, Own(ReplaceTask(disk.tasks, bound), bound, memory.thread))
<1>1. Ensure(th) = d
  BY DEF Ensure
<1>2. /\ disk.tasks \in Seq(Tasks) /\ Whole(disk, born) /\ born \in Nat /\ MaxTasks \in Nat
      /\ CurrentId = memory.task /\ Ids(disk.tasks) \subseteq 1 .. born /\ 1 <= born
  BY Stored
<1>3. CASE found # None
  <2>1. /\ found \in Held(disk.tasks) /\ found \in Tasks /\ found.id = memory.task
        /\ memory.task \in Ids(disk.tasks)
    BY <1>2, <1>3, FindIs
  <2>2. Pruned(found.threads) /\ found.id \in 1 .. born
    BY <1>2, <2>1 DEF Whole
  <2> HIDE DEF found
  <2>3. bound \in Tasks /\ Pruned(bound.threads) /\ bound.id = memory.task
    <3>1. u = found
      BY <1>3
    <3>2. th # None => th \in Threads
      BY DEF Maybe
    <3> HIDE DEF u
    <3>3. CASE th = None
      BY <2>1, <2>2, <3>1, <3>3
    <3>4. CASE th # None
      BY <2>1, <2>2, <3>1, <3>2, <3>4, BindIs
    <3> QED
      BY <3>3, <3>4
  <2> HIDE DEF bound
  <2>4. Writes(d, bound) /\ (One(disk.tasks) => One(d.tasks))
    BY <2>1, <2>2, <2>3, OwnedIs
  <2> QED
    BY <1>1, <2>1, <2>3, <2>4
<1>4. CASE found = None
  <2>1. u = NewTask(born + 1) /\ memory.task \notin Ids(disk.tasks)
    BY <1>2, <1>4, FindIs
  <2>3. th # None => th \in Threads
    BY DEF Maybe
  <2>4. bound.id = born + 1
    BY <2>1 DEF Bind, NewTask
  <2>5. born + 1 \in TaskIds
    BY <1>2 DEF TaskIds
  <2>6. u \in Tasks /\ Pruned(u.threads) /\ u.id = born + 1
    BY <2>1, <2>5, NewTaskIs
  <2> HIDE DEF u
  <2>7. bound \in Tasks /\ Pruned(bound.threads)
    BY <2>3, <2>6, BindIs
  <2> HIDE DEF bound
  <2>8. Writes(d, bound) /\ (One(disk.tasks) => One(d.tasks))
    BY <2>4, <2>7, OwnedIs
  <2> QED
    BY <1>1, <2>1, <2>4, <2>7, <2>8
<1> QED
  BY <1>3, <1>4

LEMMA CreateIs ==
  ASSUME TypeOK, FilesInv, NEW th \in Maybe(Threads)
  PROVE  \E t \in Tasks :
            /\ Writes(Create(th), t) /\ (One(disk.tasks) => One(Create(th).tasks))
            /\ t.id = born + 1
<1> DEFINE u == NewTask(born + 1)
           bound == IF th = None THEN u ELSE Bind(u, th)
           d == TaskFile(bound, Own(ReplaceTask(disk.tasks, bound), bound, memory.thread))
<1>1. Create(th) = TaskFile(bound, Own(<<bound>> \o disk.tasks, bound, memory.thread))
  BY DEF Create
<1>2. /\ disk.tasks \in Seq(Tasks) /\ born \in Nat /\ MaxTasks \in Nat
      /\ Ids(disk.tasks) \subseteq 1 .. born /\ 1 <= born
  BY Stored
<1>3. bound.id = born + 1
  BY DEF Bind, NewTask
<1>5. born + 1 \in TaskIds
  BY <1>2 DEF TaskIds
<1>6. u \in Tasks /\ Pruned(u.threads)
  BY <1>5, NewTaskIs
<1>7. th # None => th \in Threads
  BY DEF Maybe
<1> HIDE DEF u
<1>8. bound \in Tasks /\ Pruned(bound.threads)
  BY <1>6, <1>7, BindIs
<1> HIDE DEF bound
<1>9. bound.id \notin Ids(disk.tasks)
  BY <1>2, <1>3
<1>10. Create(th) = d
  BY <1>1, <1>2, <1>8, <1>9, Fresh
<1>11. Writes(d, bound) /\ (One(disk.tasks) => One(d.tasks))
  BY <1>3, <1>8, OwnedIs
<1> QED
  BY <1>3, <1>8, <1>10, <1>11

\* The rounds that read tasks.json and the project to write tasks.json.
Reading == {"ensure", "create", "switch", "bind", "edit", "miss", "put", "force"}

\* What a round writes, d, makes task u the current one.
Drafts(x, t, d, u) ==
    /\ Writes(d, u) /\ Effect(x, u)
    /\ x.do = "ensure" /\ One(disk.tasks) => One(d.tasks)
    /\ memory.task = disk.current /\ t \in {None, Current(disk)} =>
         /\ One(disk.tasks) => One(d.tasks)
         /\ x.do \notin {"create", "switch"} => u.id = disk.current
         /\ x.do = "create" => u.id = born + 1
         /\ x.do = "switch" => u.id \in Ids(disk.tasks)
         /\ x.do \in {"put", "force"} /\ One(disk.tasks) =>
                Keeps(disk.tasks, d.tasks) /\ u.threads = Current(disk).threads

LEMMA SavedIs ==
  ASSUME TypeOK, FilesInv, NEW x, NEW t, NEW u \in Tasks, Pruned(u.threads),
         u.id \in 1 .. born, Effect(x, u), x.do \in {"bind", "edit", "miss"},
         t = Current(disk) => u.id = disk.current, t # None
  PROVE  Drafts(x, t, Saved(u), u)
<1>1. Saved(u) = TaskFile(u, Own(ReplaceTask(disk.tasks, u), u, memory.thread))
  BY DEF Saved
<1>2. Writes(Saved(u), u) /\ (One(disk.tasks) => One(Saved(u).tasks))
  BY <1>1, OwnedIs
<1> QED
  BY <1>2 DEF Drafts

LEMMA FocusedIs ==
  ASSUME TypeOK, FilesInv, NEW x, NEW t, NEW th \in Threads, NEW s \in Tasks, Pruned(s.threads),
         s.id \in 1 .. born, x.do \in {"put", "force"}, x.arg = th,
         memory.task = disk.current /\ t \in {None, Current(disk)} => s = Current(disk)
  PROVE  Drafts(x, t, Focused(s, th), [s EXCEPT !.active = th])
<1> DEFINE u == [s EXCEPT !.active = th]
           d == TaskFile(u, ReplaceTask(disk.tasks, u))
<1>1. Focused(s, th) = d
  BY DEF Focused
<1>2. u \in Tasks /\ u.threads = s.threads /\ u.id = s.id /\ u.active = th
  BY DEF Tasks, Maybe
<1> HIDE DEF u
<1>3. /\ Writes(d, u)
      /\ One(disk.tasks) /\ (\E y \in Held(disk.tasks) : y.id = u.id /\ y.threads = u.threads)
                => One(d.tasks) /\ Keeps(disk.tasks, d.tasks)
  BY <1>2, PutIs
<1>4. Current(disk) \in Held(disk.tasks) /\ Current(disk).id = disk.current
  BY Stored
<1> HIDE DEF d
<1>5. Drafts(x, t, d, u)
  BY <1>2, <1>3, <1>4 DEF Drafts, Effect
<1> QED
  BY <1>1, <1>5 DEF u

LEMMA DraftedIs ==
  ASSUME TypeOK, FilesInv, NEW x \in Rounds(saves), x.do \in Reading,
         NEW t \in Maybe(Tasks), t # None => Pruned(t.threads) /\ t.id \in 1 .. born,
         x.do = "bind" => t # None,
         Drafted(x, t) # None
  PROVE  \E u \in Tasks : Drafts(x, t, Drafted(x, t), u)
<1> DEFINE found == FindTask(disk.tasks, IF x.do = "switch" THEN x.arg ELSE CurrentId)
           d == Drafted(x, t)
<1>1. /\ disk.tasks \in Seq(Tasks) /\ born \in Nat /\ CurrentId = memory.task /\ Whole(disk, born)
      /\ Current(disk) \in Tasks /\ Current(disk) # None /\ Current(disk).id = disk.current
      /\ disk.current \in Ids(disk.tasks) /\ memory.task # None
  <2>1. /\ disk.tasks \in Seq(Tasks) /\ born \in Nat /\ CurrentId = memory.task /\ Whole(disk, born)
        /\ Current(disk) \in Tasks /\ Current(disk) # None /\ Current(disk).id = disk.current
        /\ memory.task \in TaskIds
    BY Stored
  <2> QED
    BY <2>1, TaskAssumption DEF Whole
<1>2. /\ d = CASE x.do = "ensure" -> Ensure(x.arg)
               [] x.do = "create" -> Create(x.arg)
               [] x.do = "bind" -> Saved(Bind(t, x.arg))
               [] x.do = "switch" /\ found # None ->
                      TaskFile(found, ReplaceTask(disk.tasks, found))
               [] x.do = "force" /\ found # None -> Focused(found, x.arg)
               [] x.do = "put" /\ t # None -> Focused(t, x.arg)
               [] x.do = "edit" /\ t # None -> Saved(t)
               [] x.do = "miss" /\ t # None /\ x.arg \in ThreadIds(t.threads) ->
                      Saved(MarkMissing(t, x.arg))
               [] OTHER -> None
      /\ d # None
  BY DEF Drafted
<1>3. /\ x.do \in {"ensure", "create"} => x.arg \in Maybe(Threads)
      /\ x.do \in {"bind", "put", "force", "miss"} => x.arg \in Threads
  BY DEF Rounds, OfThread, OfAny, OfNothing
<1>4. /\ found # None => found \in Held(disk.tasks) /\ found \in Tasks
      /\ found # None => found.id = IF x.do = "switch" THEN x.arg ELSE CurrentId
  BY <1>1, FindIs
<1>5. found # None => Pruned(found.threads) /\ found.id \in 1 .. born /\ found.id \in Ids(disk.tasks)
  <2> SUFFICES ASSUME found # None
               PROVE  Pruned(found.threads) /\ found.id \in 1 .. born /\ found.id \in Ids(disk.tasks)
    OBVIOUS
  <2>1. found \in Held(disk.tasks)
    BY <1>4
  <2>2. found.id \in Ids(disk.tasks)
    BY <2>1, IdsAre
  <2> QED
    BY <1>1, <2>1, <2>2 DEF Whole
<1>6. t \in Tasks \/ t = None
  BY DEF Maybe
<1>7. x.do # "switch" /\ memory.task = disk.current => found = Current(disk)
  BY <1>1 DEF Current
<1> HIDE DEF d, found
<1>8. CASE x.do = "ensure"
  <2>1. d = Ensure(x.arg)
    BY <1>2, <1>8
  <2>2. PICK u \in Tasks :
            /\ Writes(d, u) /\ (One(disk.tasks) => One(d.tasks))
            /\ IF memory.task \in Ids(disk.tasks) THEN u.id = memory.task ELSE u.id = born + 1
    BY <1>2, <1>3, <1>8, <2>1, EnsureIs
  <2>3. Drafts(x, t, d, u)
    BY <1>1, <1>8, <2>2 DEF Drafts, Effect
  <2> QED
    BY <2>3 DEF d
<1>9. CASE x.do = "create"
  <2>1. d = Create(x.arg)
    BY <1>2, <1>9
  <2>2. PICK u \in Tasks :
            /\ Writes(d, u) /\ (One(disk.tasks) => One(d.tasks)) /\ u.id = born + 1
    BY <1>2, <1>3, <1>9, <2>1, CreateIs
  <2>3. Drafts(x, t, d, u)
    BY <1>9, <2>2 DEF Drafts, Effect
  <2> QED
    BY <2>3 DEF d
<1>10. CASE x.do = "bind"
  <2>1. d = Saved(Bind(t, x.arg)) /\ t \in Tasks
    BY <1>2, <1>6, <1>10
  <2>2. Bind(t, x.arg) \in Tasks /\ Bind(t, x.arg).id = t.id /\ Bind(t, x.arg).active = x.arg
        /\ Pruned(Bind(t, x.arg).threads)
    BY <1>3, <1>10, <2>1, BindIs
  <2>3. Drafts(x, t, d, Bind(t, x.arg))
    BY <1>1, <1>10, <2>1, <2>2, SavedIs DEF Effect
  <2> QED
    BY <2>2, <2>3 DEF d
<1>11. CASE x.do = "switch"
  <2>1. found # None /\ d = TaskFile(found, ReplaceTask(disk.tasks, found))
    BY <1>2, <1>11
  <2>2. /\ Writes(d, found)
        /\ One(disk.tasks) => One(d.tasks)
    BY <1>4, <1>5, <2>1, PutIs
  <2>3. Drafts(x, t, d, found)
    BY <1>5, <1>11, <2>1, <2>2 DEF Drafts, Effect
  <2> QED
    BY <1>4, <2>1, <2>3 DEF d
<1>12. CASE x.do = "force"
  <2>1. found # None /\ d = Focused(found, x.arg)
    BY <1>2, <1>12
  <2>2. Drafts(x, t, d, [found EXCEPT !.active = x.arg])
    BY <1>3, <1>4, <1>5, <1>7, <1>12, <2>1, FocusedIs
  <2>3. [found EXCEPT !.active = x.arg] \in Tasks
    BY <2>2 DEF Drafts, Writes
  <2> QED
    BY <2>2, <2>3 DEF d
<1>13. CASE x.do = "put"
  <2>1. t # None /\ t \in Tasks /\ d = Focused(t, x.arg)
    BY <1>2, <1>6, <1>13
  <2>2. Drafts(x, t, d, [t EXCEPT !.active = x.arg])
    BY <1>3, <1>13, <2>1, FocusedIs
  <2>3. [t EXCEPT !.active = x.arg] \in Tasks
    BY <2>2 DEF Drafts, Writes
  <2> QED
    BY <2>2, <2>3 DEF d
<1>14. CASE x.do = "edit"
  <2>1. t # None /\ t \in Tasks /\ d = Saved(t)
    BY <1>2, <1>6, <1>14
  <2>2. Drafts(x, t, d, t)
    BY <1>1, <1>14, <2>1, SavedIs DEF Effect
  <2> QED
    BY <2>1, <2>2 DEF d
<1>15. CASE x.do = "miss"
  <2>1. t # None /\ t \in Tasks /\ d = Saved(MarkMissing(t, x.arg))
    BY <1>2, <1>6, <1>15
  <2>2. MarkMissing(t, x.arg) \in Tasks /\ MarkMissing(t, x.arg).id = t.id
        /\ Pruned(MarkMissing(t, x.arg).threads)
    BY <1>3, <1>15, <2>1, MarkMissingIs
  <2>3. Drafts(x, t, d, MarkMissing(t, x.arg))
    BY <1>1, <1>15, <2>1, <2>2, SavedIs DEF Effect
  <2> QED
    BY <2>2, <2>3 DEF d
<1> QED
  BY <1>8, <1>9, <1>10, <1>11, <1>12, <1>13, <1>14, <1>15 DEF Reading

\* What a round always writes.
LEMMA DraftsSomething ==
  ASSUME TypeOK, FilesInv, NEW x \in Rounds(saves),
         NEW t \in Maybe(Tasks), t # None => Pruned(t.threads) /\ t.id \in 1 .. born
  PROVE  /\ x.do \in {"ensure", "create"} => Drafted(x, t) # None
         /\ x.do = "bind" /\ t # None => Drafted(x, t) # None
         /\ x.do = "force" /\ memory.task = disk.current => Drafted(x, t) # None
<1>1. None \notin TaskFiles
  BY TaskAssumption
<1>2. /\ x.do \in {"ensure", "create"} => x.arg \in Maybe(Threads)
      /\ x.do \in {"bind", "put", "force", "miss"} => x.arg \in Threads
  BY DEF Rounds, OfThread, OfAny, OfNothing
<1>3. ASSUME x.do = "ensure" PROVE Drafted(x, t) # None
  <2>1. Drafted(x, t) = Ensure(x.arg)
    BY <1>3 DEF Drafted
  <2>2. Ensure(x.arg) \in TaskFiles
    BY <1>2, <1>3, EnsureIs DEF Writes
  <2> QED
    BY <1>1, <2>1, <2>2
<1>4. ASSUME x.do = "create" PROVE Drafted(x, t) # None
  <2>1. Drafted(x, t) = Create(x.arg)
    BY <1>4 DEF Drafted
  <2>2. Create(x.arg) \in TaskFiles
    BY <1>2, <1>4, CreateIs DEF Writes
  <2> QED
    BY <1>1, <2>1, <2>2
<1>5. ASSUME x.do = "bind", t # None PROVE Drafted(x, t) # None
  <2>1. Drafted(x, t) = Saved(Bind(t, x.arg)) /\ t \in Tasks
    BY <1>5 DEF Drafted, Maybe
  <2>2. /\ Bind(t, x.arg) \in Tasks /\ Pruned(Bind(t, x.arg).threads)
        /\ Bind(t, x.arg).id \in 1 .. born /\ Bind(t, x.arg).active = x.arg
    BY <1>2, <1>5, <2>1, BindIs
  <2>3. TaskFile(Bind(t, x.arg), Own(ReplaceTask(disk.tasks, Bind(t, x.arg)), Bind(t, x.arg), memory.thread))
          \in TaskFiles
    BY <2>2, OwnedIs DEF Writes
  <2> QED
    BY <1>1, <2>1, <2>3 DEF Saved
<1>6. ASSUME x.do = "force", memory.task = disk.current PROVE Drafted(x, t) # None
  <2> DEFINE s == Current(disk)
  <2>1. /\ s \in Tasks /\ s # None /\ Pruned(s.threads) /\ s.id = disk.current
        /\ disk.current \in 1 .. born /\ CurrentId = memory.task
    BY Stored
  <2>2. FindTask(disk.tasks, CurrentId) = s
    BY <1>6, <2>1 DEF Current
  <2>3. Drafted(x, t) = Focused(s, x.arg)
    <3>1. Drafted(x, t) = Focused(FindTask(disk.tasks, CurrentId), x.arg)
      BY <1>6, <2>1, <2>2 DEF Drafted
    <3> QED
      BY <3>1, <2>2
  <2> HIDE DEF s
  <2>4. Drafts(x, s, Focused(s, x.arg), [s EXCEPT !.active = x.arg])
    BY <1>2, <1>6, <2>1, FocusedIs DEF s
  <2>5. Focused(s, x.arg) \in TaskFiles
    BY <2>4 DEF Drafts, Writes
  <2> QED
    BY <1>1, <2>3, <2>5
<1> QED
  BY <1>3, <1>4, <1>5, <1>6

-----------------------------------------------------------------------------
(* A step of one request.                                                  *)

LEMMA TailOf ==
  ASSUME NEW S, NEW p \in Seq(S), p # <<>>
  PROVE  /\ Head(p) = p[1] /\ Head(p) \in S /\ Tail(p) \in Seq(S) /\ Len(p) \in Nat
         /\ DOMAIN p = 1 .. Len(p) /\ 1 <= Len(p) /\ p[1] \in S
         /\ Len(Tail(p)) = Len(p) - 1 /\ DOMAIN Tail(p) = 1 .. Len(p) - 1
         /\ \A i \in 1 .. Len(p) - 1 : Tail(p)[i] = p[i + 1]
         /\ Tail(p) = <<>> <=> Len(p) = 1
<1>1. /\ Head(p) = p[1] /\ Head(p) \in S /\ Tail(p) \in Seq(S)
      /\ Len(Tail(p)) = Len(p) - 1 /\ \A i \in 1 .. Len(p) - 1 : Tail(p)[i] = p[i + 1]
  BY HeadTailProperties
<1>2. Len(p) \in Nat /\ DOMAIN p = 1 .. Len(p) /\ DOMAIN Tail(p) = 1 .. Len(Tail(p))
  BY <1>1, InSequence
<1>3. Len(p) # 0 /\ (Tail(p) = <<>> <=> Len(Tail(p)) = 0)
  BY <1>1, EmptySeq
<1> QED
  BY <1>1, <1>2, <1>3

LEMMA Unmoved ==
  ASSUME NEW A, NEW B, NEW f \in [A -> B], NEW a
  PROVE  f = [f EXCEPT ![a] = f[a]]
OBVIOUS

Stages == {"read", "write", "refresh", "patch", "store"}
Saves == [disk : TaskFiles, file : Pointed]

\* Request r moves on to step st of the rounds p, and nobody else does anything.
Moved(r, p, st, t, dr) ==
    /\ plan' = [plan EXCEPT ![r] = p] /\ stage' = [stage EXCEPT ![r] = st]
    /\ task' = [task EXCEPT ![r] = t] /\ draft' = [draft EXCEPT ![r] = dr]
    /\ route' \in [Requests -> Maybe(Routes)]
    /\ kind' = kind /\ mixed' = mixed /\ latest' = latest

\* The files stay what they must be.
Sound ==
    /\ disk' \in TaskFiles /\ file' \in Pointed /\ memory' \in Pointed
    /\ saves \subseteq saves' /\ saves' \subseteq Saves
    /\ live' \subseteq made' /\ made' \subseteq Threads
    /\ born' \in 1 .. MaxTasks /\ born <= born'
    /\ Whole(disk', born') /\ \A s \in saves' : Whole(s.disk, born')

\* So does what the request holds.
Holds(t, dr) ==
    /\ t \in Maybe(Tasks) /\ dr \in Maybe(TaskFiles)
    /\ dr # None => Whole(dr, born')
    /\ t # None => Pruned(t.threads) /\ t.id \in 1 .. born'

\* A request that is alone serves its purpose.
Serves(r, p, st, t, dr) ==
    /\ latest = r /\ r \notin mixed =>
           Settling(kind[r], p, st, disk', file', memory', t, dr)
    /\ Alone /\ latest = r =>
         /\ One(disk'.tasks) /\ (dr # None => One(dr.tasks))
         /\ \A s \in saves' : One(s.disk.tasks)
         /\ ~Reset => Ids(IF st = "write" THEN dr.tasks ELSE disk'.tasks) = 1 .. born'
         /\ Serving(kind[r], p, st, disk', file', memory', t, dr, live')

LEMMA AloneIsLatest ==
  ASSUME LatestInv, NEW r \in Requests, AtWork(r)
  PROVE  /\ latest # None
         /\ Alone => latest = r /\ r \notin mixed /\ \A q \in Requests \ {r} : plan[q] = <<>>
         /\ latest \notin mixed => latest = r
<1>1. latest # None
  BY DEF LatestInv, Quiet
<1>2. Alone => latest \notin mixed
  BY DEF Alone
<1>3. latest \notin mixed => \A q \in Requests : plan[q] # <<>> => q = latest
  BY <1>1 DEF LatestInv, AtWork
<1> QED
  BY <1>1, <1>2, <1>3 DEF AtWork

LEMMA Moves ==
  ASSUME IInv, NEW r \in Requests, AtWork(r), NEW p, NEW st \in Stages, NEW t, NEW dr,
         Moved(r, p, st, t, dr), Sound, Holds(t, dr),
         p \in Seq(Rounds(saves')), Chained(p), Proper(p, kind[r]), Midway(p, st, t, dr),
         Serves(r, p, st, t, dr)
  PROVE  IInv'
<1>1. TypeOK /\ FilesInv /\ PlansInv /\ LatestInv /\ AloneInv
  BY DEF IInv
<1>2. /\ plan \in [Requests -> Seq(Rounds(saves))] /\ stage \in [Requests -> Stages]
      /\ task \in [Requests -> Maybe(Tasks)] /\ draft \in [Requests -> Maybe(TaskFiles)]
      /\ born \in 1 .. MaxTasks /\ MaxTasks \in Nat
  BY <1>1, TaskAssumption DEF PlansInv, TypeOK, Stages
<1>3. /\ plan'[r] = p /\ stage'[r] = st /\ task'[r] = t /\ draft'[r] = dr
      /\ \A q \in Requests : q # r =>
             plan'[q] = plan[q] /\ stage'[q] = stage[q] /\ task'[q] = task[q] /\ draft'[q] = draft[q]
  BY <1>2 DEF Moved
<1>4. TypeOK'
  BY <1>1, <1>2 DEF TypeOK, Moved, Sound, Holds, Stages, Saves
<1>5. \A d : Whole(d, born) => Whole(d, born')
  <2>1. born \in Nat /\ born' \in Nat /\ born <= born'
    BY <1>2 DEF Sound
  <2> QED
    BY <2>1, Higher
<1>6. FilesInv'
  <2>1. Whole(disk', born') /\ \A s \in saves' : Whole(s.disk, born')
    BY DEF Sound
  <2>2. \A q \in Requests : draft'[q] # None => Whole(draft'[q], born')
    BY <1>1, <1>3, <1>5 DEF Holds, FilesInv
  <2>3. \A q \in Requests : task'[q] # None => Pruned(task'[q].threads) /\ task'[q].id \in 1 .. born'
    <3>1. \A n \in 1 .. born : n \in 1 .. born'
      BY <1>2 DEF Sound
    <3> QED
      BY <1>1, <1>3, <3>1 DEF Holds, FilesInv
  <2> QED
    BY <2>1, <2>2, <2>3 DEF FilesInv
<1>7. PlansInv'
  <2>1. Rounds(saves) \subseteq Rounds(saves')
    BY DEF Rounds, Sound
  <2>2. \A q \in Requests : plan'[q] \in Seq(Rounds(saves'))
    <3> TAKE q \in Requests
    <3>1. plan[q] \in Seq(Rounds(saves'))
      <4> DEFINE s == plan[q]
      <4>1. s \in Seq(Rounds(saves))
        BY <1>2
      <4>2. Len(s) \in Nat /\ s \in [1 .. Len(s) -> Rounds(saves')]
        BY <2>1, <4>1, SeqDef
      <4> HIDE DEF s
      <4>3. s \in Seq(Rounds(saves'))
        BY <4>2, SeqDef
      <4> QED
        BY <4>3 DEF s
    <3> QED
      BY <1>3, <3>1
  <2>3. plan' \in [Requests -> Seq(Rounds(saves'))]
    <3>1. plan' = [q \in Requests |-> plan'[q]]
      BY <1>2 DEF Moved
    <3> QED
      BY <2>2, <3>1
  <2>4. ASSUME NEW q \in Requests PROVE Planned(q)'
    <3>1. CASE q = r
      BY <1>3, <3>1 DEF Planned, Moved
    <3>2. CASE q # r
      BY <1>1, <1>3, <3>2 DEF Planned, PlansInv, Moved
    <3> QED
      BY <3>1, <3>2
  <2> QED
    BY <2>3, <2>4 DEF PlansInv
<1>8. LatestInv'
  <2>1. \A q \in Requests : AtWork(q)' => AtWork(q)
    BY <1>3 DEF AtWork
  <2>2. latest # None
    BY <1>1, AloneIsLatest
  <2> QED
    BY <1>1, <2>1, <2>2 DEF LatestInv, Moved
<1>9. SettleInv'
  <2> SUFFICES ASSUME latest # None, latest \notin mixed
               PROVE  Settling(kind[latest], plan'[latest], stage'[latest], disk', file', memory',
                               task'[latest], draft'[latest])
    BY DEF SettleInv, Moved
  <2>1. latest = r
    BY <1>1, AloneIsLatest
  <2> QED
    BY <1>3, <2>1 DEF Serves
<1>10. AloneInv'
  <2> SUFFICES ASSUME Alone PROVE AloneInv'
    BY DEF AloneInv, Alone, Moved
  <2>1. latest = r /\ latest # None /\ \A q \in Requests \ {r} : plan[q] = <<>>
    BY <1>1, AloneIsLatest
  <2>2. \A q \in Requests \ {r} : draft'[q] = None /\ stage'[q] = "read"
    BY <1>1, <1>3, <2>1 DEF PlansInv, Planned, Midway
  <2>3. OneInv'
    BY <1>3, <2>1, <2>2 DEF OneInv, Serves
  <2>4. ~Reset' => IdsInv'
    <3>1. Reset' <=> Reset
      BY DEF Reset, Moved
    <3>2. ~Reset => Ids(IF st = "write" THEN dr.tasks ELSE disk'.tasks) = 1 .. born'
      BY <2>1 DEF Serves
    <3> QED
      BY <1>3, <2>2, <3>1, <3>2 DEF IdsInv
  <2>5. Serving(kind'[latest'], plan'[latest'], stage'[latest'], disk', file', memory',
                task'[latest'], draft'[latest'], live')
    BY <1>3, <2>1 DEF Serves, Moved
  <2> QED
    BY <2>1, <2>3, <2>4, <2>5 DEF AloneInv, Moved
<1> QED
  BY <1>4, <1>6, <1>7, <1>8, <1>9, <1>10 DEF IInv

LEMMA Continues ==
  ASSUME TypeOK, PlansInv, NEW r \in Requests, NEW rest, NEW t, Continue(r, rest, t),
         NEW dr, draft' = [draft EXCEPT ![r] = dr] \/ (dr = draft[r] /\ draft' = draft),
         kind' = kind, mixed' = mixed, latest' = latest
  PROVE  Moved(r, rest, "read", IF rest = <<>> THEN None ELSE t, dr)
<1>1. draft' = [draft EXCEPT ![r] = dr]
  BY Unmoved DEF TypeOK
<1>2. route' \in [Requests -> Maybe(Routes)]
  BY DEF TypeOK, Continue, Maybe
<1> QED
  BY <1>1, <1>2 DEF Continue, Moved

LEMMA Steps ==
  ASSUME TypeOK, PlansInv, NEW r \in Requests, NEW st, NEW t, Step(r, st, t),
         NEW dr, draft' = [draft EXCEPT ![r] = dr] \/ (dr = draft[r] /\ draft' = draft),
         kind' = kind, mixed' = mixed, latest' = latest
  PROVE  Moved(r, plan[r], st, t, dr)
<1>1. draft' = [draft EXCEPT ![r] = dr]
  BY Unmoved DEF TypeOK
<1>2. plan' = [plan EXCEPT ![r] = plan[r]]
  BY Unmoved DEF PlansInv, Step
<1>3. route' \in [Requests -> Maybe(Routes)]
  BY DEF TypeOK, Step
<1> QED
  BY <1>1, <1>2, <1>3 DEF Step, Moved

\* What is known of a request at work.
Known(r, p) ==
    /\ p = plan[r] /\ p \in Seq(Rounds(saves)) /\ p # <<>>
    /\ Chained(p) /\ Proper(p, kind[r]) /\ Midway(p, stage[r], task[r], draft[r])
    /\ Head(p) = p[1] /\ p[1] \in Rounds(saves) /\ Belongs(p[1], kind[r])
    /\ stage[r] \in Stages /\ task[r] \in Maybe(Tasks) /\ draft[r] \in Maybe(TaskFiles)
    /\ draft[r] # None => Whole(draft[r], born)
    /\ task[r] # None => Pruned(task[r].threads) /\ task[r].id \in 1 .. born
    /\ latest = r /\ r \notin mixed =>
           Settling(kind[r], p, stage[r], disk, file, memory, task[r], draft[r])
    /\ Alone /\ latest = r =>
         /\ One(disk.tasks) /\ (draft[r] # None => One(draft[r].tasks))
         /\ \A s \in saves : One(s.disk.tasks)
         /\ ~Reset => Ids(IF stage[r] = "write" THEN draft[r].tasks ELSE disk.tasks) = 1 .. born
         /\ Serving(kind[r], p, stage[r], disk, file, memory, task[r], draft[r], live)

LEMMA Knows ==
  ASSUME IInv, NEW r \in Requests, AtWork(r)
  PROVE  Known(r, plan[r])
<1> DEFINE p == plan[r]
<1>1. TypeOK /\ FilesInv /\ PlansInv /\ LatestInv /\ SettleInv /\ AloneInv
  BY DEF IInv
<1>2. /\ p \in Seq(Rounds(saves)) /\ p # <<>> /\ Chained(p) /\ Proper(p, kind[r])
      /\ Midway(p, stage[r], task[r], draft[r])
  BY <1>1 DEF PlansInv, Planned, AtWork
<1>3. Head(p) = p[1] /\ p[1] \in Rounds(saves) /\ Belongs(p[1], kind[r])
  <2> HIDE DEF p
  <2>1. Head(p) = p[1] /\ p[1] \in Rounds(saves) /\ 1 \in DOMAIN p
    BY <1>2, TailOf
  <2> QED
    BY <2>1, <1>2 DEF Proper
<1>4. /\ stage[r] \in Stages /\ task[r] \in Maybe(Tasks) /\ draft[r] \in Maybe(TaskFiles)
      /\ draft[r] # None => Whole(draft[r], born)
      /\ task[r] # None => Pruned(task[r].threads) /\ task[r].id \in 1 .. born
  BY <1>1 DEF TypeOK, FilesInv, Stages
<1>5. latest = r /\ r \notin mixed =>
           Settling(kind[r], p, stage[r], disk, file, memory, task[r], draft[r])
  <2>1. latest # None
    BY <1>1, AloneIsLatest
  <2> QED
    BY <1>1, <2>1 DEF SettleInv
<1>6. Alone /\ latest = r =>
         /\ One(disk.tasks) /\ (draft[r] # None => One(draft[r].tasks))
         /\ \A s \in saves : One(s.disk.tasks)
         /\ ~Reset => Ids(IF stage[r] = "write" THEN draft[r].tasks ELSE disk.tasks) = 1 .. born
         /\ Serving(kind[r], p, stage[r], disk, file, memory, task[r], draft[r], live)
  <2> SUFFICES ASSUME Alone, latest = r
               PROVE  /\ One(disk.tasks) /\ (draft[r] # None => One(draft[r].tasks))
                      /\ \A s \in saves : One(s.disk.tasks)
                      /\ ~Reset => Ids(IF stage[r] = "write" THEN draft[r].tasks ELSE disk.tasks) = 1 .. born
                      /\ Serving(kind[r], p, stage[r], disk, file, memory, task[r], draft[r], live)
    OBVIOUS
  <2>1. latest # None /\ \A q \in Requests \ {r} : plan[q] = <<>>
    BY <1>1, AloneIsLatest
  <2>2. \A q \in Requests \ {r} : stage[q] = "read"
    BY <1>1, <2>1 DEF PlansInv, Planned, Midway
  <2>3. OneInv /\ (~Reset => IdsInv)
    BY <1>1 DEF AloneInv
  <2>4. ~Reset => Ids(IF stage[r] = "write" THEN draft[r].tasks ELSE disk.tasks) = 1 .. born
    BY <2>2, <2>3 DEF IdsInv
  <2>5. Serving(kind[r], p, stage[r], disk, file, memory, task[r], draft[r], live)
    BY <1>1, <2>1 DEF AloneInv
  <2> QED
    BY <2>3, <2>4, <2>5 DEF OneInv
<1>7. Known(r, p)
  BY <1>2, <1>3, <1>4, <1>5, <1>6 DEF Known
<1> QED
  BY <1>7

\* What is left of the rounds after the first of them.
LEMMA Rest ==
  ASSUME NEW S, NEW p \in Seq(S), p # <<>>, Chained(p)
  PROVE  /\ Tail(p) \in Seq(S) /\ Chained(Tail(p))
         /\ \A k : Proper(p, k) => Proper(Tail(p), k)
         /\ \A lv : Linked(p, lv) => Linked(Tail(p), lv)
         /\ \A c : Tooling(p, c) => Tooling(Tail(p), c)
         /\ After(p) = IF Tail(p) = <<>> THEN "end" ELSE Tail(p)[1].do
         /\ Tail(p) # <<>> => Follows(p[1], Tail(p)[1])
         /\ p[1].do = "zip" => Tail(p) # <<>>
<1> DEFINE s == Tail(p)
<1>1. /\ s \in Seq(S) /\ Len(p) \in Nat /\ DOMAIN p = 1 .. Len(p) /\ 1 <= Len(p)
      /\ Len(s) = Len(p) - 1 /\ DOMAIN s = 1 .. Len(p) - 1
      /\ \A i \in 1 .. Len(p) - 1 : s[i] = p[i + 1]
      /\ s = <<>> <=> Len(p) = 1
  BY TailOf
<1> HIDE DEF s
<1>2. Chained(s)
  <2>1. ASSUME NEW i \in 1 .. Len(s) - 1 PROVE Follows(s[i], s[i + 1])
    <3>1. s[i] = p[i + 1] /\ s[i + 1] = p[i + 2] /\ i + 1 \in 1 .. Len(p) - 1 /\ i + 1 + 1 = i + 2
      BY <1>1
    <3> QED
      BY <3>1 DEF Chained
  <2>2. ASSUME s # <<>> PROVE s[Len(s)] = p[Len(p)]
    BY <1>1, <2>2
  <2> QED
    BY <1>1, <2>1, <2>2 DEF Chained
<1>3. \A k : Proper(p, k) => Proper(s, k)
  BY <1>1 DEF Proper
<1>4. \A lv : Linked(p, lv) => Linked(s, lv)
  <2> SUFFICES ASSUME NEW lv, Linked(p, lv), NEW i \in 1 .. Len(s) - 1,
                      Commits(s[i + 1], IF i + 1 < Len(s) THEN s[i + 2].do ELSE "end", lv)
               PROVE  /\ s[i].arg = s[i + 1].arg
                      /\ \/ s[i].do \in {"bind", "pointer"}
                         \/ s[i].do = "put" /\ s[i + 1].do = "pointer"
    BY DEF Linked
  <2>1. /\ s[i] = p[i + 1] /\ s[i + 1] = p[(i + 1) + 1] /\ i + 1 \in 1 .. Len(p) - 1
        /\ i + 1 < Len(s) => s[i + 2] = p[(i + 1) + 2] /\ (i + 1) + 1 < Len(p)
        /\ ~(i + 1 < Len(s)) => ~((i + 1) + 1 < Len(p))
    BY <1>1
  <2>2. Commits(p[(i + 1) + 1], IF (i + 1) + 1 < Len(p) THEN p[(i + 1) + 2].do ELSE "end", lv)
    BY <2>1
  <2> QED
    BY <2>1, <2>2 DEF Linked
<1>5. \A c : Tooling(p, c) => Tooling(s, c)
  <2> SUFFICES ASSUME NEW c, Tooling(p, c) PROVE Tooling(s, c)
    OBVIOUS
  <2>1. \A i \in DOMAIN s : i + 1 \in DOMAIN p /\ s[i] = p[i + 1]
    BY <1>1
  <2> QED
    BY <2>1 DEF Tooling
<1>6. After(p) = IF s = <<>> THEN "end" ELSE s[1].do
  BY <1>1 DEF After
<1>7. s # <<>> => Follows(p[1], s[1])
  BY <1>1 DEF Chained
<1>8. p[1].do = "zip" => s # <<>>
  BY <1>1 DEF Chained
<1> QED
  BY <1>1, <1>2, <1>3, <1>4, <1>5, <1>6, <1>7, <1>8 DEF s

\* The pointers when a round is done.
LEMMA RestedAfter ==
  ASSUME NEW S, NEW p \in Seq(S), p # <<>>, Chained(p), NEW lv, Linked(p, lv), NEW k,
         NEW d, NEW f, NEW m, NEW t, m = f, m.task = d.current, t \in {None, Current(d)},
         m = Pointers(Current(d)) \/ After(p) \in Mending,
         m = Pointers(Current(d)) =>
             (p[1].do \in {"bind", "pointer"} \/ (p[1].do = "put" /\ After(p) = "pointer")
                 => Current(d).active = p[1].arg),
         p[1].do = "current" => t = Current(d) /\ Normal(t)
  PROVE  AtRest(Tail(p), k, d, f, m, IF Tail(p) = <<>> THEN None ELSE t, lv)
<1> DEFINE s == Tail(p)
<1>1. /\ Len(p) \in Nat /\ 1 <= Len(p) /\ Len(s) = Len(p) - 1
      /\ \A i \in 1 .. Len(p) - 1 : s[i] = p[i + 1]
      /\ s = <<>> <=> Len(p) = 1
  BY TailOf
<1>2. /\ After(p) = IF s = <<>> THEN "end" ELSE s[1].do
      /\ s # <<>> => Follows(p[1], s[1])
  BY Rest
<1> HIDE DEF s
<1>3. CASE s = <<>>
  <2>1. After(p) = "end"
    BY <1>2, <1>3
  <2>2. m = Pointers(Current(d))
    BY <2>1 DEF Mending
  <2> QED
    BY <2>2, <1>3 DEF AtRest, s
<1>4. CASE s # <<>>
  <2>1. s[1].do \notin Mending => m = Pointers(Current(d))
    BY <1>2, <1>4
  <2>2. ASSUME Commits(s[1], After(s), lv) PROVE m.thread = s[1].arg
    <3>1. 1 \in 1 .. Len(p) - 1 /\ s[1] = p[2] /\ 1 + 1 = 2 /\ 1 + 2 = 3
      BY <1>1, <1>4
    <3>2. After(s) = IF 1 + 1 < Len(p) THEN p[1 + 2].do ELSE "end"
      <4>1. CASE Len(s) > 1
        <5>1. s[2] = p[3] /\ 2 < Len(p)
          BY <4>1, <1>1
        <5> QED
          BY <4>1, <5>1 DEF After
      <4>2. CASE ~(Len(s) > 1)
        BY <4>2, <1>1 DEF After
      <4> QED
        BY <4>1, <4>2
    <3>3. /\ p[1].arg = s[1].arg
          /\ p[1].do \in {"bind", "pointer"} \/ (p[1].do = "put" /\ s[1].do = "pointer")
      BY <2>2, <3>1, <3>2 DEF Linked
    <3>4. s[1].do \notin Mending
      BY <2>2 DEF Commits, Mending
    <3>5. m = Pointers(Current(d)) /\ After(p) = s[1].do
      BY <2>1, <3>4, <1>2, <1>4
    <3>6. Current(d).active = p[1].arg
      BY <3>3, <3>5
    <3> QED
      BY <3>3, <3>5, <3>6 DEF Pointers
  <2>3. s[1].do \in {"prior", "sync"} => t = Current(d) /\ Normal(t)
    BY <1>2, <1>4 DEF Follows
  <2> QED
    BY <2>1, <2>2, <2>3, <1>4 DEF AtRest, s
<1> QED
  BY <1>3, <1>4

\* A request at the end of a round.
LEMMA MidwayAfter ==
  ASSUME NEW S, NEW p \in Seq(S), p # <<>>, Chained(p), NEW t, NEW dr,
         p[1].do = "ensure" => t # None, dr # None <=> p[1].do = "zip"
  PROVE  Midway(Tail(p), "read", IF Tail(p) = <<>> THEN None ELSE t, dr)
<1> DEFINE s == Tail(p)
<1>1. /\ s # <<>> => Follows(p[1], s[1])
      /\ p[1].do = "zip" => s # <<>>
  BY Rest
<1> HIDE DEF s
<1>2. Midway(s, "read", IF s = <<>> THEN None ELSE t, dr)
  BY <1>1 DEF Midway, Follows
<1> QED
  BY <1>2 DEF s

\* The pointers and task t at the end of round p[1].
Rested(p, k, d, f, m, t) ==
    \/ Lost(p, k) /\ p[1].do \notin {"ensure", "wake"}
    \/ /\ m = f /\ m.task = d.current /\ t \in {None, Current(d)}
       /\ m = Pointers(Current(d)) \/ After(p) \in Mending
       /\ m = Pointers(Current(d)) =>
             (p[1].do \in {"bind", "pointer"} \/ (p[1].do = "put" /\ After(p) = "pointer")
                 => Current(d).active = p[1].arg)
       /\ p[1].do = "current" => t = Current(d) /\ Normal(t)

\* A request that is alone at the end of round p[1].
Ends(r, p, t, dr) ==
    /\ latest = r /\ r \notin mixed =>
           Settling(kind[r], Tail(p), "read", disk', file', memory',
                    IF Tail(p) = <<>> THEN None ELSE t, dr)
    /\ Alone /\ latest = r =>
         /\ One(disk'.tasks) /\ (dr # None => One(dr.tasks))
         /\ \A s \in saves' : One(s.disk.tasks)
         /\ ~Reset => Ids(disk'.tasks) = 1 .. born'
         /\ kind[r] \notin {"load", "open"} => Rested(p, kind[r], disk', file', memory', t)
         /\ kind[r] = "tool" => Tooling(p, Current(disk'))

LEMMA Finishes ==
  ASSUME IInv, NEW r \in Requests, AtWork(r), NEW t, NEW dr,
         Continue(r, Tail(plan[r]), t),
         draft' = [draft EXCEPT ![r] = dr] \/ (dr = draft[r] /\ draft' = draft),
         kind' = kind, mixed' = mixed, latest' = latest, live' = live,
         Sound, Holds(t, dr),
         plan[r][1].do = "ensure" => t # None, dr # None <=> plan[r][1].do = "zip",
         Alone /\ latest = r => Linked(plan[r], live),
         Ends(r, plan[r], t, dr)
  PROVE  IInv'
<1> DEFINE p == plan[r]
           s == Tail(p)
           u == IF s = <<>> THEN None ELSE t
<1>1. Known(r, p)
  BY Knows
<1>2. TypeOK /\ PlansInv
  BY DEF IInv
<1>3. Moved(r, s, "read", u, dr)
  BY <1>2, Continues
<1>4. Holds(u, dr)
  BY DEF Holds, Maybe
<1> HIDE DEF p
<1>5. Rounds(saves) \subseteq Rounds(saves')
  BY DEF Rounds, Sound
<1>6. p \in Seq(Rounds(saves)) /\ p # <<>> /\ Chained(p) /\ Proper(p, kind[r])
  BY <1>1 DEF Known
<1>7. /\ s \in Seq(Rounds(saves)) /\ Chained(s) /\ Proper(s, kind[r])
      /\ \A lv : Linked(p, lv) => Linked(s, lv)
      /\ \A c : Tooling(p, c) => Tooling(s, c)
      /\ After(p) = IF s = <<>> THEN "end" ELSE s[1].do
  BY <1>6, Rest
<1>8. Midway(s, "read", u, dr)
  BY <1>6, MidwayAfter DEF p
<1>9. s \in Seq(Rounds(saves'))
  <2> HIDE DEF s
  <2>1. Len(s) \in Nat /\ s \in [1 .. Len(s) -> Rounds(saves')]
    BY <1>5, <1>7, SeqDef
  <2> QED
    BY <2>1, SeqDef
<1>10. Serves(r, s, "read", u, dr)
  <2>1. latest = r /\ r \notin mixed =>
            Settling(kind[r], s, "read", disk', file', memory', u, dr)
    BY DEF Ends, p
  <2>2. ASSUME Alone, latest = r
        PROVE  /\ Linked(s, live')
               /\ AtRest(s, kind[r], disk', file', memory', u, live')
               /\ kind[r] = "tool" => Tooling(s, Current(disk'))
    <3>1. Linked(p, live') /\ Linked(s, live')
      BY <2>2, <1>7 DEF p
    <3>2. kind[r] = "tool" => Tooling(s, Current(disk'))
      BY <2>2, <1>7 DEF Ends, p
    <3>3. CASE kind[r] \in {"load", "open"}
      <4>1. r \notin mixed
        BY <2>2 DEF Alone
      <4>2. s = <<>> => file' = Pointers(Current(disk')) /\ memory' = file'
        BY <4>1, <2>1, <2>2, <3>3 DEF Settling, Loaded
      <4> QED
        BY <3>1, <3>2, <3>3, <4>2 DEF AtRest
    <3>4. CASE kind[r] \notin {"load", "open"}
      <4>1. Rested(p, kind[r], disk', file', memory', t)
        BY <2>2, <3>4 DEF Ends, p
      <4>2. CASE Lost(p, kind[r]) /\ p[1].do \notin {"ensure", "wake"}
        <5>1. After(p) = "wake" /\ kind[r] = "restart"
          BY <4>2 DEF Lost
        <5>2. s # <<>> /\ s[1].do = "wake"
          BY <5>1, <1>7
        <5>3. Lost(s, kind[r])
          BY <5>1, <5>2 DEF Lost
        <5> QED
          BY <3>1, <3>2, <5>2, <5>3 DEF AtRest
      <4>3. CASE ~(Lost(p, kind[r]) /\ p[1].do \notin {"ensure", "wake"})
        <5>1. /\ memory' = file' /\ memory'.task = disk'.current /\ t \in {None, Current(disk')}
              /\ memory' = Pointers(Current(disk')) \/ After(p) \in Mending
              /\ memory' = Pointers(Current(disk')) =>
                    (p[1].do \in {"bind", "pointer"} \/ (p[1].do = "put" /\ After(p) = "pointer")
                        => Current(disk').active = p[1].arg)
              /\ p[1].do = "current" => t = Current(disk') /\ Normal(t)
          BY <4>1, <4>3 DEF Rested
        <5>2. AtRest(s, kind[r], disk', file', memory', u, live')
          BY <1>6, <3>1, <5>1, RestedAfter
        <5> QED
          BY <3>1, <3>2, <5>2
      <4> QED
        BY <4>2, <4>3
    <3> QED
      BY <3>3, <3>4
  <2>3. ASSUME Alone, latest = r
        PROVE  Serving(kind[r], s, "read", disk', file', memory', u, dr, live')
    BY <2>2, <2>3 DEF Serving
  <2> QED
    BY <2>1, <2>3 DEF Ends, Serves, p
<1> HIDE DEF s, u
<1> QED
  BY <1>3, <1>4, <1>7, <1>8, <1>9, <1>10, Moves DEF Stages

-----------------------------------------------------------------------------
(* Rounds that write.                                                      *)

LEMMA AsBefore ==
  ASSUME TypeOK, FilesInv, UNCHANGED <<projects, threads, born>>
  PROVE  /\ Sound
         /\ \A t, dr : t \in Maybe(Tasks) /\ dr \in Maybe(TaskFiles)
                       /\ (dr # None => Whole(dr, born))
                       /\ (t # None => Pruned(t.threads) /\ t.id \in 1 .. born) => Holds(t, dr)
<1>1. born <= born
  BY DEF TypeOK
<1>2. Sound
  BY <1>1 DEF TypeOK, FilesInv, Sound, Saves, projects, threads
<1> QED
  BY <1>2 DEF Holds

\* Nothing to settle for the rounds of other requests.
LEMMA Elsewhere ==
  ASSUME NEW x, NEW k, Belongs(x, k), x.do \notin Loading, x.do # "current",
         NEW p, NEW st, NEW d, NEW f, NEW m, NEW t, NEW dr
  PROVE  k \notin {"snapshot", "load", "open"} /\ Settling(k, p, st, d, f, m, t, dr)
BY DEF Belongs, Settling

\* Whether a request that is alone finds the pointers in order.
LEMMA AtRestNow ==
  ASSUME NEW r, NEW p, Known(r, p), Alone, latest = r, stage[r] = "read",
         kind[r] \notin {"load", "open"}, ~Lost(p, kind[r])
  PROVE  /\ memory = file /\ memory.task = disk.current /\ task[r] \in {None, Current(disk)}
         /\ p[1].do \notin Mending => memory = Pointers(Current(disk))
         /\ Commits(p[1], After(p), live) => memory.thread = p[1].arg
         /\ p[1].do \in {"prior", "sync"} => task[r] = Current(disk) /\ Normal(task[r])
         /\ Linked(p, live)
         /\ kind[r] = "tool" => Tooling(p, Current(disk))
BY DEF Known, Serving, AtRest

\* A round that has nothing to write.
LEMMA ReadNothing ==
  ASSUME IInv, NEW r \in Requests, AtWork(r), stage[r] = "read",
         plan[r][1].do \in Reading, Drafted(plan[r][1], task[r]) = None,
         Continue(r, Tail(plan[r]), task[r]),
         UNCHANGED <<projects, threads, born, draft, kind, mixed, latest>>
  PROVE  IInv'
<1> DEFINE p == plan[r]
           x == p[1]
           t == task[r]
<1>1. TypeOK /\ FilesInv
  BY DEF IInv
<1>2. Known(r, p)
  BY Knows
<1>3. Sound /\ Holds(t, draft[r])
  <2>1. /\ t \in Maybe(Tasks) /\ draft[r] \in Maybe(TaskFiles)
        /\ draft[r] # None => Whole(draft[r], born)
        /\ t # None => Pruned(t.threads) /\ t.id \in 1 .. born
    BY <1>2 DEF Known
  <2> QED
    BY <1>1, <2>1, AsBefore
<1> HIDE DEF p
<1>4. /\ x \in Rounds(saves) /\ t \in Maybe(Tasks) /\ Belongs(x, kind[r])
      /\ t # None => Pruned(t.threads) /\ t.id \in 1 .. born
      /\ Chained(p) /\ p # <<>> /\ p \in Seq(Rounds(saves))
      /\ Midway(p, "read", t, draft[r])
  BY <1>2 DEF Known, p
<1>5. /\ x.do \in {"switch", "edit", "miss", "put", "force"}
      /\ x.do = "force" => memory.task # disk.current
  <2>1. x.do = "bind" => t # None
    BY <1>4 DEF Midway
  <2>2. x.do \in Reading /\ Drafted(x, t) = None
    BY DEF p
  <2> HIDE DEF x, t
  <2> QED
    BY <1>1, <1>4, <2>1, <2>2, DraftsSomething DEF Reading
<1>6. draft[r] = None
  BY <1>4, <1>5 DEF Midway
<1>7. kind[r] \notin {"snapshot", "load", "open"} /\ x.do \notin Loading
  BY <1>4, <1>5 DEF Loading, Belongs
<1>8. ~Lost(p, kind[r])
  <2>1. After(p) # "wake"
    <3>1. After(p) = (IF Tail(p) = <<>> THEN "end" ELSE Tail(p)[1].do)
          /\ (Tail(p) # <<>> => Follows(p[1], Tail(p)[1]))
      BY <1>4, Rest
    <3> QED
      BY <3>1, <1>5 DEF Follows
  <2> QED
    BY <2>1, <1>5 DEF Lost
<1>9. Ends(r, p, t, draft[r])
  <2>1. latest = r /\ r \notin mixed =>
           Settling(kind[r], Tail(p), "read", disk', file', memory',
                    IF Tail(p) = <<>> THEN None ELSE t, draft[r])
    BY <1>7 DEF Settling
  <2>2. ASSUME Alone, latest = r
        PROVE  /\ One(disk'.tasks) /\ (draft[r] # None => One(draft[r].tasks))
               /\ \A s \in saves' : One(s.disk.tasks)
               /\ ~Reset => Ids(disk'.tasks) = 1 .. born'
               /\ kind[r] = "tool" => Tooling(p, Current(disk'))
    BY <2>2, <1>2, <1>6 DEF Known, Serving, projects, p
  <2>3. ASSUME Alone, latest = r
        PROVE  Rested(p, kind[r], disk', file', memory', t)
    <3>1. /\ memory = file /\ memory.task = disk.current /\ t \in {None, Current(disk)}
          /\ p[1].do \notin Mending => memory = Pointers(Current(disk))
          /\ Commits(p[1], After(p), live) => memory.thread = p[1].arg
      BY <2>3, <1>2, <1>7, <1>8, AtRestNow DEF p
    <3>2. memory = Pointers(Current(disk))
      BY <3>1, <1>5 DEF Mending
    <3>3. p[1].do = "put" /\ After(p) = "pointer" => Current(disk).active = p[1].arg
      BY <3>1, <3>2 DEF Commits, Pointers
    <3> QED
      BY <3>1, <3>2, <3>3, <1>5 DEF Rested, projects
  <2> QED
    BY <2>1, <2>2, <2>3 DEF Ends
<1>10. Alone /\ latest = r => Linked(p, live)
  BY <1>2 DEF Known, Serving, p
<1>11. draft[r] # None <=> x.do = "zip"
  BY <1>5, <1>6
<1> HIDE DEF x, t
<1>12. draft' = draft /\ kind' = kind /\ mixed' = mixed /\ latest' = latest /\ live' = live
  BY DEF threads
<1>13. x.do # "ensure"
  BY <1>5
<1> QED
  BY <1>3, <1>9, <1>10, <1>11, <1>12, <1>13, Finishes DEF p, x, t

\* Putting a task back that shows the thread it should.
LEMMA KeepsFocus ==
  ASSUME NEW p, NEW c \in Tasks, NEW u \in Tasks, NEW S, p \in Seq(S), p # <<>>,
         Tooling(p, c), p[1].do \in {"put", "force"},
         u.threads = c.threads, u.active = p[1].arg
  PROVE  Tooling(p, u)
<1>1. 1 \in DOMAIN p
  BY TailOf
<1>2. ASSUME NEW i \in DOMAIN p, p[i].do \in {"before", "call"} PROVE FALSE
  BY <1>1, <1>2 DEF Tooling
<1>3. ASSUME NEW i \in DOMAIN p, p[i].do = "sync" PROVE Fixed(p[i].arg, u)
  <2>1. Fixed(p[i].arg, c) /\ (p[i].arg # None => p[1].arg = p[i].arg)
    BY <1>1, <1>3 DEF Tooling
  <2> QED
    BY <2>1 DEF Fixed, Normal, Shows
<1> QED
  BY <1>2, <1>3 DEF Tooling

LEMMA ReadSomething ==
  ASSUME IInv, NEW r \in Requests, AtWork(r), stage[r] = "read",
         plan[r][1].do \in Reading, NEW dr, dr = Drafted(plan[r][1], task[r]), dr # None,
         born' = Grown(dr), born' <= MaxTasks, ToWrite(r, dr),
         UNCHANGED <<projects, threads, kind, mixed, latest>>
  PROVE  IInv'
<1> DEFINE p == plan[r]
           x == p[1]
           t == task[r]
           k == kind[r]
<1>1. TypeOK /\ FilesInv /\ PlansInv
  BY DEF IInv
<1>2. Known(r, p)
  BY Knows
<1>3. Moved(r, p, "write", t, dr)
  BY <1>1, Steps DEF ToWrite
<1> HIDE DEF p
<1>4. /\ x \in Rounds(saves) /\ t \in Maybe(Tasks) /\ Belongs(x, k)
      /\ t # None => Pruned(t.threads) /\ t.id \in 1 .. born
      /\ Chained(p) /\ p # <<>> /\ p \in Seq(Rounds(saves)) /\ Proper(p, k)
      /\ Midway(p, "read", t, draft[r]) /\ x.do \in Reading
  BY <1>2 DEF Known, p
<1>5. x.do = "bind" => t # None
  BY <1>4 DEF Midway
<1>6. PICK u \in Tasks : Drafts(x, t, dr, u)
  <2>1. dr = Drafted(x, t)
    BY DEF p
  <2> HIDE DEF x, t
  <2> QED
    BY <1>1, <1>4, <1>5, <2>1, DraftedIs
<1>7. /\ dr \in TaskFiles /\ Whole(dr, Grown(dr)) /\ Current(dr) = u /\ dr.current = u.id
      /\ Grown(dr) \in Nat /\ born <= Grown(dr)
      /\ Ids(dr.tasks) = Ids(disk.tasks) \cup {u.id} /\ Effect(x, u)
  BY <1>6 DEF Drafts, Writes
<1>8. born \in Nat /\ 1 <= born /\ born' \in Nat
  BY <1>1, <1>7, Stored
<1>9. Sound
  <2>1. disk' = disk /\ file' = file /\ memory' = memory /\ saves' = saves /\ made' = made /\ live' = live
    BY DEF projects, threads
  <2>2. born' \in 1 .. MaxTasks /\ born <= born'
    BY <1>7, <1>8, TaskAssumption
  <2>3. \A d : Whole(d, born) => Whole(d, born')
    BY <1>8, <2>2, Higher
  <2> QED
    BY <1>1, <2>1, <2>2, <2>3 DEF TypeOK, FilesInv, Sound, Saves
<1>10. Holds(t, dr)
  <2>1. \A n \in 1 .. born : n \in 1 .. born'
    BY <1>7, <1>8
  <2> QED
    BY <1>4, <1>7, <2>1 DEF Holds, Maybe
<1>11. Midway(p, "write", t, dr)
  BY <1>4 DEF Midway, Reading, Writing
<1>12. x.do \notin Loading /\ x.do # "current"
  BY <1>4 DEF Reading, Loading
<1>13. k \notin {"snapshot", "load", "open"} /\ Settling(k, p, "write", disk', file', memory', t, dr)
  BY <1>4, <1>12 DEF Settling, Belongs
<1>14. ASSUME Alone, latest = r
       PROVE  /\ One(disk'.tasks) /\ One(dr.tasks)
              /\ \A s \in saves' : One(s.disk.tasks)
              /\ ~Reset => Ids(dr.tasks) = 1 .. born'
              /\ Serving(k, p, "write", disk', file', memory', t, dr, live')
  <2>1. /\ One(disk.tasks) /\ (\A s \in saves : One(s.disk.tasks)) /\ Linked(p, live)
        /\ ~Reset => Ids(disk.tasks) = 1 .. born
        /\ k = "tool" => Tooling(p, Current(disk))
    BY <1>2, <1>14 DEF Known, Serving, p
  <2>2. ASSUME x.do # "ensure" PROVE ~Lost(p, k)
    <3>1. After(p) # "wake"
      <4>1. After(p) = (IF Tail(p) = <<>> THEN "end" ELSE Tail(p)[1].do)
            /\ (Tail(p) # <<>> => Follows(p[1], Tail(p)[1]))
        BY <1>4, Rest
      <4> QED
        BY <4>1, <1>12 DEF Follows
    <3>2. x.do # "wake"
      BY <1>4 DEF Reading
    <3> QED
      BY <2>2, <3>1, <3>2 DEF Lost
  <2>3. ASSUME ~Lost(p, k)
        PROVE  /\ memory.task = disk.current /\ t \in {None, Current(disk)}
               /\ One(dr.tasks)
               /\ x.do \notin {"create", "switch"} => u.id = disk.current
               /\ x.do = "create" => u.id = born + 1
               /\ x.do = "switch" => u.id \in Ids(disk.tasks)
               /\ x.do \in {"put", "force"} =>
                      Keeps(disk.tasks, dr.tasks) /\ u.threads = Current(disk).threads
    <3>1. memory.task = disk.current /\ t \in {None, Current(disk)}
      BY <2>3, <1>2, <1>13, <1>14, AtRestNow DEF p
    <3> QED
      BY <3>1, <1>6, <2>1 DEF Drafts
  <2>4. One(dr.tasks)
    BY <2>1, <2>2, <2>3, <1>6 DEF Drafts
  <2>5. disk.current \in Ids(disk.tasks) /\ disk.current \in 1 .. born
    BY <1>1, Stored DEF FilesInv, Whole
  <2>6. ASSUME ~Reset PROVE Ids(dr.tasks) = 1 .. born'
    <3>1. k # "restart"
      BY <2>6 DEF Reset
    <3>2. ~Lost(p, k)
      BY <3>1 DEF Lost
    <3>3. Ids(disk.tasks) = 1 .. born
      BY <2>1, <2>6
    <3>4. CASE x.do = "create"
      <4>1. u.id = born + 1 /\ born' = born + 1
        BY <3>2, <3>4, <2>3, <1>7, <1>8 DEF Grown
      <4>2. 1 .. (born + 1) = (1 .. born) \cup {born + 1}
        BY <1>8
      <4> QED
        BY <3>3, <4>1, <4>2, <1>7
    <3>5. CASE x.do # "create"
      <4>1. u.id \in Ids(disk.tasks)
        BY <3>2, <3>5, <2>3, <2>5
      <4>2. born' = born
        BY <4>1, <3>3, <1>7, <1>8 DEF Grown
      <4> QED
        BY <3>3, <4>1, <4>2, <1>7
    <3> QED
      BY <3>4, <3>5
  <2>7. Drafting(p, k, disk, dr)
    <3>1. ASSUME k \in {"turn", "tool"}
          PROVE  dr.current = disk.current /\ Ids(dr.tasks) = Ids(disk.tasks)
      <4>1. x.do \notin {"create", "switch"} /\ ~Lost(p, k)
        BY <3>1, <1>4 DEF Belongs, Lost
      <4> QED
        BY <4>1, <2>3, <2>5, <1>7
    <3>2. ASSUME k = "tool" PROVE Keeps(disk.tasks, dr.tasks)
      <4>1. x.do \in {"put", "force"} /\ ~Lost(p, k)
        BY <3>2, <1>4 DEF Belongs, Lost, Reading
      <4> QED
        BY <4>1, <2>3
    <3> QED
      BY <3>1, <3>2, <1>7 DEF Drafting
  <2>8. ASSUME k = "tool" PROVE Tooling(p, Current(dr))
    <3>1. x.do \in {"put", "force"} /\ ~Lost(p, k)
      BY <2>8, <1>4 DEF Belongs, Lost, Reading
    <3>2. u.threads = Current(disk).threads /\ u.active = x.arg
      BY <3>1, <2>3, <1>7 DEF Effect
    <3>3. Current(disk) \in Tasks
      BY <1>1, Stored
    <3> QED
      BY <3>1, <3>2, <3>3, <2>1, <2>8, <1>4, <1>7, KeepsFocus
  <2> HIDE DEF x, t, k
  <2> QED
    BY <2>1, <2>4, <2>6, <2>7, <2>8 DEF Serving, projects, threads
<1>15. Serves(r, p, "write", t, dr)
  BY <1>13, <1>14 DEF Serves
<1>16. saves' = saves
  BY DEF projects
<1> HIDE DEF x, t
<1> QED
  BY <1>3, <1>4, <1>9, <1>10, <1>11, <1>15, <1>16, Moves DEF Stages, k

LEMMA ReadKeeps ==
  ASSUME IInv, NEW r \in Requests, Read(r)
  PROVE  IInv'
<1>1. AtWork(r) /\ stage[r] = "read" /\ Head(plan[r]).do \in Reading
  BY DEF Read, Turn, Reading
<1>2. Head(plan[r]) = plan[r][1]
  BY <1>1, Knows DEF Known
<1> DEFINE d == Drafted(plan[r][1], task[r])
<1>3. /\ IF d = None
         THEN Continue(r, Tail(plan[r]), task[r]) /\ UNCHANGED <<draft, born>>
         ELSE born' = Grown(d) /\ born' <= MaxTasks /\ ToWrite(r, d)
      /\ UNCHANGED <<projects, threads, kind, mixed, latest>>
  BY <1>2 DEF Read, Grown
<1>4. CASE d = None
  BY <1>1, <1>2, <1>3, <1>4, ReadNothing
<1>5. CASE d # None
  <2> HIDE DEF d
  <2>1. d = Drafted(plan[r][1], task[r])
    BY DEF d
  <2> QED
    BY <1>1, <1>2, <1>3, <1>5, <2>1, ReadSomething
<1> QED
  BY <1>4, <1>5

\* A step within a round.
LEMMA StepsOn ==
  ASSUME IInv, NEW r \in Requests, AtWork(r), NEW st \in Stages, NEW t, NEW dr, Step(r, st, t),
         draft' = [draft EXCEPT ![r] = dr] \/ (dr = draft[r] /\ draft' = draft),
         kind' = kind, mixed' = mixed, latest' = latest, saves' = saves,
         Sound, Holds(t, dr), Midway(plan[r], st, t, dr),
         Serves(r, plan[r], st, t, dr)
  PROVE  IInv'
<1>1. TypeOK /\ PlansInv
  BY DEF IInv
<1>2. Moved(r, plan[r], st, t, dr)
  BY <1>1, Steps
<1>3. plan[r] \in Seq(Rounds(saves')) /\ Chained(plan[r]) /\ Proper(plan[r], kind[r])
  BY Knows DEF Known
<1> QED
  BY <1>2, <1>3, Moves

\* Normalising keeps what a tool must keep.
LEMMA NormalizeKeeps ==
  ASSUME NEW c \in Tasks, Pruned(c.threads), NEW q \in Maybe(Threads), NEW p, Tooling(p, c)
  PROVE  Tooling(p, Normalize(c, q))
<1>1. \A x : Fixed(x, c) => Fixed(x, Normalize(c, q))
  BY NormalizeIs DEF Fixed
<1> QED
  BY <1>1 DEF Tooling

LEMMA ReadCurrentKeeps ==
  ASSUME IInv, NEW r \in Requests, ReadCurrent(r)
  PROVE  IInv'
<1> DEFINE p == plan[r]
           k == kind[r]
           found == FindTask(disk.tasks, CurrentId)
           t == IF found = None THEN None ELSE Normalize(found, memory.thread)
           dr == TaskFile(t, ReplaceTask(disk.tasks, t))
           s == Tail(p)
<1>1. TypeOK /\ FilesInv /\ PlansInv
  BY DEF IInv
<1>2. AtWork(r) /\ stage[r] = "read" /\ Head(plan[r]).do = "current"
  BY DEF ReadCurrent, Turn
<1>3. Known(r, p)
  BY <1>2, Knows
<1>4. /\ \/ t # found /\ ToWrite(r, dr)
         \/ t = found /\ t # None /\ SyncNeeded(t) /\ Step(r, "refresh", t) /\ UNCHANGED draft
         \/ t = found /\ (t # None => ~SyncNeeded(t)) /\ Continue(r, s, t) /\ UNCHANGED draft
      /\ UNCHANGED <<projects, threads, born, kind, mixed, latest>>
  BY DEF ReadCurrent
<1>5. /\ disk' = disk /\ file' = file /\ memory' = memory /\ saves' = saves /\ live' = live
      /\ born' = born /\ kind' = kind /\ mixed' = mixed /\ latest' = latest /\ Sound
      /\ \A w, e : w \in Maybe(Tasks) /\ e \in Maybe(TaskFiles)
                       /\ (e # None => Whole(e, born))
                       /\ (w # None => Pruned(w.threads) /\ w.id \in 1 .. born) => Holds(w, e)
  BY <1>1, <1>4, AsBefore DEF projects, threads
<1>6. /\ disk.tasks \in Seq(Tasks) /\ CurrentId = memory.task /\ Whole(disk, born) /\ born \in Nat
      /\ memory.thread \in Maybe(Threads) /\ None \notin Tasks
  BY <1>1, Stored, TaskAssumption
<1>7. /\ found # None => /\ found \in Held(disk.tasks) /\ found \in Tasks /\ found.id = memory.task
                         /\ Pruned(found.threads) /\ found.id \in 1 .. born
                         /\ found.id \in Ids(disk.tasks)
      /\ memory.task = disk.current => found = Current(disk) /\ found # None
  <2>1. found # None => found \in Held(disk.tasks) /\ found \in Tasks /\ found.id = memory.task
    BY <1>6, FindIs
  <2>2. found # None => found.id \in Ids(disk.tasks) /\ found.id \in 1 .. born /\ Pruned(found.threads)
    BY <2>1, <1>6, IdsAre DEF Whole
  <2>3. memory.task = disk.current => found = Current(disk) /\ found # None
    BY <1>1, <1>6, Stored DEF Current
  <2> QED
    BY <2>1, <2>2, <2>3
<1> HIDE DEF found
<1>8. found # None => /\ t \in Tasks /\ t.id = found.id /\ Normal(t) /\ t.threads = found.threads
                      /\ Normal(found) => t = found
  BY <1>6, <1>7, NormalizeIs
<1>9. t \in Maybe(Tasks) /\ (t # None <=> found # None) /\ (t # None => Pruned(t.threads) /\ t.id \in 1 .. born)
  BY <1>6, <1>7, <1>8 DEF Maybe, Normal
<1>10. found # None /\ k = "tool" /\ Tooling(p, found) => Tooling(p, t)
  BY <1>6, <1>7, NormalizeKeeps
<1> HIDE DEF t, p
<1>11. /\ p # <<>> /\ p \in Seq(Rounds(saves)) /\ Chained(p) /\ p[1].do = "current"
       /\ Belongs(p[1], k) /\ Midway(p, "read", task[r], draft[r]) /\ stage[r] = "read"
       /\ latest = r /\ r \notin mixed /\ k = "snapshot" => p = <<Round("current", None)>>
       /\ draft[r] = None
  <2>1. /\ p # <<>> /\ p \in Seq(Rounds(saves)) /\ Chained(p) /\ p[1].do = "current"
        /\ Belongs(p[1], k) /\ Midway(p, "read", task[r], draft[r])
    BY <1>2, <1>3 DEF Known, p
  <2>2. latest = r /\ r \notin mixed /\ k = "snapshot" => p = <<Round("current", None)>>
    BY <1>3, <2>1 DEF Known, Settling, Snapped
  <2>3. draft[r] = None
    BY <2>1 DEF Midway
  <2> QED
    BY <1>2, <2>1, <2>2, <2>3
<1>12. k \notin {"load", "open"} /\ (k = "snapshot" => s = <<>> \/ ~(latest = r /\ r \notin mixed))
  <2>1. k \notin {"load", "open"}
    BY <1>11 DEF Belongs, Loading
  <2>2. Tail(<<Round("current", None)>>) = <<>>
    OBVIOUS
  <2> QED
    BY <2>1, <2>2, <1>11
<1>13. ASSUME Alone, latest = r
       PROVE  /\ One(disk.tasks) /\ (\A c \in saves : One(c.disk.tasks)) /\ Linked(p, live)
              /\ ~Reset => Ids(disk.tasks) = 1 .. born
              /\ k = "tool" => Tooling(p, Current(disk))
              /\ ~Lost(p, k) => memory = file /\ memory.task = disk.current
  <2>1. /\ One(disk.tasks) /\ (\A c \in saves : One(c.disk.tasks)) /\ Linked(p, live)
        /\ ~Reset => Ids(disk.tasks) = 1 .. born
        /\ k = "tool" => Tooling(p, Current(disk))
    BY <1>13, <1>3, <1>11 DEF Known, Serving
  <2> QED
    BY <2>1, <1>3, <1>11, <1>12, <1>13, AtRestNow
<1>14. k \in {"turn", "tool"} => ~Lost(p, k)
  BY DEF Lost
<1>15. CASE t # found /\ ToWrite(r, dr)
  <2>1. found # None /\ t \in Tasks /\ t.id = memory.task /\ t.id \in Ids(disk.tasks)
    BY <1>7, <1>8, <1>15 DEF t
  <2>2. /\ Writes(dr, t)
        /\ One(disk.tasks) => One(dr.tasks) /\ Keeps(disk.tasks, dr.tasks)
    BY <1>1, <1>7, <1>8, <1>9, <2>1, PutIs
  <2> HIDE DEF dr
  <2>3. /\ dr \in TaskFiles /\ Whole(dr, born) /\ Current(dr) = t /\ dr.current = t.id
        /\ Ids(dr.tasks) = Ids(disk.tasks) /\ dr # None
    <3>1. Grown(dr) = born
      BY <2>1, <2>2, <1>6, <1>7, <1>8 DEF Writes, Grown
    <3> QED
      BY <2>1, <2>2, <3>1, TaskAssumption DEF Writes
  <2>4. Holds(task[r], dr)
    BY <1>3, <1>5, <2>3 DEF Known, Maybe
  <2>5. Midway(p, "write", task[r], dr)
    BY <1>11, <2>3 DEF Midway, Writing
  <2>6. latest = r /\ r \notin mixed =>
            Settling(k, p, "write", disk', file', memory', task[r], dr)
    BY <1>8, <1>11, <1>12, <2>1, <2>3 DEF Settling, Snapped
  <2>7. ASSUME Alone, latest = r
        PROVE  Serving(k, p, "write", disk', file', memory', task[r], dr, live')
    <3>1. Drafting(p, k, disk, dr)
      BY <1>8, <1>11, <1>13, <1>14, <2>1, <2>2, <2>3, <2>7 DEF Drafting, Effect
    <3>2. k = "tool" => Tooling(p, Current(dr))
      BY <1>7, <1>10, <1>13, <1>14, <2>1, <2>3, <2>7
    <3> QED
      BY <1>5, <1>13, <2>7, <3>1, <3>2 DEF Serving
  <2>8. Serves(r, p, "write", task[r], dr)
    BY <1>5, <1>13, <2>2, <2>3, <2>6, <2>7 DEF Serves
  <2> QED
    BY <1>2, <1>5, <1>15, <2>4, <2>5, <2>8, StepsOn DEF ToWrite, p, Stages
<1>16. CASE t = found /\ t # None /\ SyncNeeded(t) /\ Step(r, "refresh", t) /\ UNCHANGED draft
  <2>1. Normal(t) /\ t = FindTask(disk.tasks, t.id)
    BY <1>6, <1>7, <1>8, <1>16 DEF found
  <2>2. Holds(t, draft[r])
    BY <1>5, <1>9, <1>11 DEF Maybe
  <2>3. Midway(p, "refresh", t, draft[r])
    BY <1>11, <1>16 DEF Midway, Writing
  <2>4. latest = r /\ r \notin mixed =>
            Settling(k, p, "refresh", disk', file', memory', t, draft[r])
    BY <1>5, <1>11, <1>12, <2>1 DEF Settling, Snapped
  <2>5. ASSUME Alone, latest = r
        PROVE  Serving(k, p, "refresh", disk', file', memory', t, draft[r], live')
    <3>1. ~Lost(p, k) => t = Current(disk)
      BY <1>7, <1>13, <1>16, <2>5
    <3>2. Syncing(p, k, "refresh", disk, memory, t, live)
      BY <1>11, <2>1, <3>1 DEF Syncing, Effect
    <3> QED
      BY <1>5, <1>13, <2>5, <3>2 DEF Serving
  <2>6. Serves(r, p, "refresh", t, draft[r])
    BY <1>5, <1>11, <1>13, <2>4, <2>5 DEF Serves
  <2> QED
    BY <1>2, <1>5, <1>16, <2>2, <2>3, <2>6, StepsOn DEF p, Stages
<1>17. CASE t = found /\ (t # None => ~SyncNeeded(t)) /\ Continue(r, s, t) /\ UNCHANGED draft
  <2>1. Holds(t, draft[r])
    BY <1>5, <1>9, <1>11 DEF Maybe
  <2>2. t # None => memory = Pointers(t) /\ Normal(t)
    BY <1>8, <1>9, <1>17 DEF SyncNeeded
  <2>3. latest = r /\ r \notin mixed =>
           Settling(k, s, "read", disk', file', memory', IF s = <<>> THEN None ELSE t, draft[r])
    <3>1. FindTask(disk.tasks, memory.task) = t
      BY <1>6, <1>17 DEF found
    <3> QED
      BY <1>5, <1>12, <2>2, <3>1 DEF Settling, Snapped
  <2>4. Alone /\ latest = r => Rested(p, k, disk', file', memory', t)
    BY <1>5, <1>7, <1>11, <1>13, <1>17, <2>2 DEF Rested
  <2>5. Ends(r, p, t, draft[r])
    BY <1>5, <1>11, <1>13, <2>3, <2>4 DEF Ends
  <2>6. plan[r][1].do = "current" /\ Continue(r, Tail(plan[r]), t)
    BY <1>11, <1>17 DEF p
  <2>7. Alone /\ latest = r => Linked(plan[r], live)
    BY <1>13 DEF p
  <2> HIDE DEF s
  <2> QED
    BY <1>2, <1>5, <1>11, <1>17, <2>1, <2>5, <2>6, <2>7, Finishes DEF p
<1> QED
  BY <1>4, <1>15, <1>16, <1>17

\* The rounds left of a loading: reading the tasks again is the last of them.
LEMMA LoadedTail ==
  ASSUME NEW S, NEW p \in Seq(S), p # <<>>, p[Len(p)].do = "reconcile",
         \A i \in 1 .. Len(p) - 1 : p[i].do # "reconcile"
  PROVE  /\ p[1].do = "reconcile" => Tail(p) = <<>>
         /\ p[1].do # "reconcile" => Tail(p) # <<>>
         /\ Tail(p) # <<>> => Tail(p)[Len(Tail(p))].do = "reconcile"
         /\ \A i \in 1 .. Len(Tail(p)) - 1 : Tail(p)[i].do # "reconcile"
<1> DEFINE s == Tail(p)
<1>1. /\ Len(p) \in Nat /\ 1 <= Len(p) /\ Len(s) = Len(p) - 1
      /\ \A i \in 1 .. Len(p) - 1 : s[i] = p[i + 1]
      /\ s = <<>> <=> Len(p) = 1
  BY TailOf
<1> HIDE DEF s
<1>2. p[1].do = "reconcile" => Len(p) = 1
  BY <1>1
<1>3. p[1].do # "reconcile" => Len(p) # 1
  OBVIOUS
<1>4. s # <<>> => s[Len(s)] = p[Len(p)]
  BY <1>1
<1>5. ASSUME NEW i \in 1 .. Len(s) - 1 PROVE s[i].do # "reconcile"
  <2>1. s[i] = p[i + 1] /\ i + 1 \in 1 .. Len(p) - 1
    BY <1>1
  <2> QED
    BY <2>1
<1>6. /\ p[1].do = "reconcile" => s = <<>>
      /\ p[1].do # "reconcile" => s # <<>>
      /\ s # <<>> => s[Len(s)].do = "reconcile"
      /\ \A i \in 1 .. Len(s) - 1 : s[i].do # "reconcile"
  BY <1>1, <1>2, <1>3, <1>4, <1>5
<1> QED
  BY <1>6 DEF s

LEMMA ReadReloadKeeps ==
  ASSUME IInv, NEW r \in Requests, ReadReload(r)
  PROVE  IInv'
<1> DEFINE p == plan[r]
           k == kind[r]
           tasks == [i \in DOMAIN disk.tasks |-> Normalize(disk.tasks[i], memory.thread)]
           t == Selected(tasks)
           dr == TaskFile(t, tasks)
           s == Tail(p)
<1>1. TypeOK /\ FilesInv /\ PlansInv
  BY DEF IInv
<1>2. AtWork(r) /\ stage[r] = "read" /\ Head(plan[r]).do = "reconcile"
  BY DEF ReadReload, Turn
<1>3. Known(r, p)
  BY <1>2, Knows
<1>4. /\ \/ disk # dr /\ ToWrite(r, dr)
         \/ disk = dr /\ SyncNeeded(t) /\ Step(r, "refresh", t) /\ UNCHANGED draft
         \/ disk = dr /\ ~SyncNeeded(t) /\ Continue(r, s, t) /\ UNCHANGED draft
      /\ UNCHANGED <<projects, threads, born, kind, mixed, latest>>
  BY DEF ReadReload
<1>5. /\ disk' = disk /\ file' = file /\ memory' = memory /\ saves' = saves /\ live' = live
      /\ born' = born /\ kind' = kind /\ mixed' = mixed /\ latest' = latest /\ Sound
      /\ \A w, e : w \in Maybe(Tasks) /\ e \in Maybe(TaskFiles)
                       /\ (e # None => Whole(e, born))
                       /\ (w # None => Pruned(w.threads) /\ w.id \in 1 .. born) => Holds(w, e)
  BY <1>1, <1>4, AsBefore DEF projects, threads
<1>6. /\ disk \in TaskFiles /\ disk.tasks \in Seq(Tasks) /\ Whole(disk, born) /\ born \in Nat
      /\ memory.thread \in Maybe(Threads) /\ None \notin Tasks
      /\ Current(disk) \in Held(disk.tasks)
  BY <1>1, Stored, TaskAssumption
<1>7. /\ tasks \in Seq(Tasks) /\ Ids(tasks) = Ids(disk.tasks)
      /\ \A u \in Held(tasks) :
             LET f == TaskFile(u, tasks) IN
             f \in TaskFiles /\ Whole(f, born) /\ Current(f) = u
      /\ One(disk.tasks) => One(tasks)
  BY <1>6, Reloaded
<1> HIDE DEF tasks
<1>8. t \in Held(tasks) /\ t \in Tasks
  <2>1. Ids(tasks) # {}
    BY <1>6, <1>7 DEF Whole
  <2>2. t \in Held(tasks)
    BY <1>7, <2>1, SelectedIs
  <2> QED
    BY <1>7, <2>2, HeldOf
<1>9. /\ dr \in TaskFiles /\ Whole(dr, born) /\ Current(dr) = t /\ dr.tasks = tasks /\ dr # None
      /\ Pruned(t.threads) /\ t.id \in 1 .. born /\ t # None
  <2>1. dr \in TaskFiles /\ Whole(dr, born) /\ Current(dr) = t
    BY <1>7, <1>8
  <2>2. dr.tasks = tasks
    BY DEF TaskFile
  <2> HIDE DEF dr, t
  <2>3. Pruned(t.threads) /\ dr.current \in 1 .. born /\ t.id = dr.current
    BY <2>1, <1>6, CurrentIs
  <2> QED
    BY <2>1, <2>2, <2>3, <1>8, TaskAssumption
<1> HIDE DEF t, p, dr
<1>10. /\ p # <<>> /\ p \in Seq(Rounds(saves)) /\ p[1].do = "reconcile" /\ k \in {"load", "open"}
       /\ Midway(p, "read", task[r], draft[r]) /\ stage[r] = "read" /\ draft[r] = None
       /\ latest = r /\ r \notin mixed => Loaded(p, "read", disk, file, memory, task[r])
  <2>1. /\ p # <<>> /\ p \in Seq(Rounds(saves)) /\ p[1].do = "reconcile" /\ k \in {"load", "open"}
        /\ Midway(p, "read", task[r], draft[r])
    BY <1>2, <1>3 DEF Known, p, Belongs
  <2> QED
    BY <1>2, <1>3, <2>1 DEF Midway, Known, Settling
<1>11. latest = r /\ r \notin mixed => s = <<>> /\ memory = file
  <2> SUFFICES ASSUME latest = r, r \notin mixed PROVE s = <<>> /\ memory = file
    OBVIOUS
  <2>1. p[Len(p)].do = "reconcile" /\ (\A i \in 1 .. Len(p) - 1 : p[i].do # "reconcile") /\ memory = file
    BY <1>10 DEF Loaded
  <2> QED
    BY <2>1, <1>10, LoadedTail
<1>12. ASSUME Alone, latest = r
       PROVE  /\ One(disk.tasks) /\ (\A c \in saves : One(c.disk.tasks)) /\ Linked(p, live)
              /\ ~Reset => Ids(disk.tasks) = 1 .. born
  BY <1>12, <1>3, <1>10 DEF Known, Serving
<1>13. CASE disk # dr /\ ToWrite(r, dr)
  <2>1. Holds(task[r], dr)
    BY <1>3, <1>5, <1>9 DEF Known, Maybe
  <2>2. Midway(p, "write", task[r], dr)
    BY <1>9, <1>10 DEF Midway, Writing
  <2>3. latest = r /\ r \notin mixed =>
            Settling(k, p, "write", disk', file', memory', task[r], dr)
    BY <1>5, <1>10, <1>11 DEF Settling, Loaded
  <2>4. ASSUME Alone, latest = r
        PROVE  Serving(k, p, "write", disk', file', memory', task[r], dr, live')
    BY <1>5, <1>10, <1>12, <2>4 DEF Serving, Drafting, Effect
  <2>5. Serves(r, p, "write", task[r], dr)
    BY <1>5, <1>7, <1>9, <1>12, <2>3, <2>4 DEF Serves
  <2> QED
    BY <1>2, <1>5, <1>13, <2>1, <2>2, <2>5, StepsOn DEF ToWrite, p, Stages
<1>14. CASE disk = dr /\ SyncNeeded(t) /\ Step(r, "refresh", t) /\ UNCHANGED draft
  <2>1. Holds(t, draft[r])
    BY <1>5, <1>8, <1>9, <1>10 DEF Maybe
  <2>2. Midway(p, "refresh", t, draft[r])
    BY <1>9, <1>10 DEF Midway, Writing
  <2>3. latest = r /\ r \notin mixed =>
            Settling(k, p, "refresh", disk', file', memory', t, draft[r])
    BY <1>5, <1>9, <1>10, <1>11, <1>14 DEF Settling, Loaded
  <2>4. ASSUME Alone, latest = r
        PROVE  Serving(k, p, "refresh", disk', file', memory', t, draft[r], live')
    BY <1>5, <1>10, <1>12, <2>4 DEF Serving, Syncing
  <2>5. Serves(r, p, "refresh", t, draft[r])
    BY <1>5, <1>10, <1>12, <2>3, <2>4 DEF Serves
  <2> QED
    BY <1>2, <1>5, <1>14, <2>1, <2>2, <2>5, StepsOn DEF p, Stages
<1>15. CASE disk = dr /\ ~SyncNeeded(t) /\ Continue(r, s, t) /\ UNCHANGED draft
  <2>1. Holds(t, draft[r])
    BY <1>5, <1>8, <1>9, <1>10 DEF Maybe
  <2>2. latest = r /\ r \notin mixed =>
           Settling(k, s, "read", disk', file', memory', IF s = <<>> THEN None ELSE t, draft[r])
    BY <1>5, <1>9, <1>10, <1>11, <1>15 DEF Settling, Loaded, SyncNeeded
  <2>3. Ends(r, p, t, draft[r])
    BY <1>5, <1>10, <1>12, <2>2 DEF Ends
  <2>4. plan[r][1].do = "reconcile" /\ Continue(r, Tail(plan[r]), t)
    BY <1>10, <1>15 DEF p
  <2>5. Alone /\ latest = r => Linked(plan[r], live)
    BY <1>12 DEF p
  <2> HIDE DEF s
  <2> QED
    BY <1>2, <1>5, <1>10, <1>15, <2>1, <2>3, <2>4, <2>5, Finishes DEF p
<1> QED
  BY <1>4, <1>13, <1>14, <1>15

\* What a request knows while it writes.
LEMMA WriteKeeps ==
  ASSUME IInv, NEW r \in Requests, Write(r)
  PROVE  IInv'
<1> DEFINE p == plan[r]
           k == kind[r]
           d == draft[r]
           t == FindTask(d.tasks, d.current)
           s == Tail(p)
<1>1. TypeOK /\ FilesInv /\ PlansInv
  BY DEF IInv
<1>2. AtWork(r) /\ stage[r] = "write"
  BY DEF Write
<1>3. Known(r, p)
  BY <1>2, Knows
<1>4. /\ disk' = d /\ draft' = [draft EXCEPT ![r] = None]
      /\ IF Head(p).do = "reconcile" /\ ~SyncNeeded(t) THEN Continue(r, s, t) ELSE Step(r, "refresh", t)
      /\ UNCHANGED <<file, memory, saves, threads, born, kind, mixed, latest>>
  BY DEF Write
<1>5. t = Current(d)
  BY DEF Current
<1> HIDE DEF p, d
<1>6. /\ p # <<>> /\ p \in Seq(Rounds(saves)) /\ Head(p) = p[1] /\ Belongs(p[1], k)
      /\ p[1].do \in Writing /\ d # None /\ d \in TaskFiles /\ Whole(d, born)
      /\ latest = r /\ r \notin mixed => Settling(k, p, "write", disk, file, memory, task[r], d)
  BY <1>2, <1>3 DEF Known, Midway, Maybe, d
<1>7. born \in Nat /\ born <= born
  BY <1>1, Stored
<1>8. /\ t \in Tasks /\ t # None /\ Pruned(t.threads) /\ t.id \in 1 .. born /\ t.id = d.current
  BY <1>5, <1>6, <1>7, CurrentIs
<1> HIDE DEF t
<1>9. /\ file' = file /\ memory' = memory /\ saves' = saves /\ live' = live
      /\ born' = born /\ kind' = kind /\ mixed' = mixed /\ latest' = latest /\ Sound
  BY <1>1, <1>4, <1>6, <1>7 DEF threads, Sound, TypeOK, FilesInv, Saves
<1>10. Holds(t, None)
  BY <1>8, <1>9 DEF Holds, Maybe
<1>11. ASSUME Alone, latest = r
       PROVE  /\ One(d.tasks) /\ (\A c \in saves : One(c.disk.tasks)) /\ Linked(p, live)
              /\ ~Reset => Ids(d.tasks) = 1 .. born
              /\ Effect(p[1], t)
              /\ k = "tool" => Tooling(p, t)
  BY <1>2, <1>3, <1>5, <1>6, <1>11 DEF Known, Serving, Drafting, d
<1>12. CASE p[1].do = "reconcile" /\ ~SyncNeeded(t)
  <2>1. k \in {"load", "open"}
    BY <1>6, <1>12 DEF Belongs
  <2>2. latest = r /\ r \notin mixed =>
           Settling(k, s, "read", disk', file', memory', IF s = <<>> THEN None ELSE t, None)
    <3> SUFFICES ASSUME latest = r, r \notin mixed
                 PROVE  Settling(k, s, "read", disk', file', memory', IF s = <<>> THEN None ELSE t, None)
      OBVIOUS
    <3>1. /\ p[Len(p)].do = "reconcile" /\ (\A i \in 1 .. Len(p) - 1 : p[i].do # "reconcile")
          /\ memory = file
      BY <1>6, <1>12, <2>1 DEF Settling, Loaded
    <3>2. s = <<>>
      BY <1>6, <1>12, <3>1, LoadedTail
    <3> QED
      BY <1>4, <1>5, <1>9, <1>12, <2>1, <3>1, <3>2 DEF Settling, Loaded, SyncNeeded
  <2>3. Ends(r, p, t, None)
    BY <1>4, <1>9, <1>11, <2>1, <2>2 DEF Ends
  <2>4. plan[r][1].do = "reconcile" /\ Continue(r, Tail(plan[r]), t)
    BY <1>4, <1>6, <1>12 DEF p
  <2>5. Alone /\ latest = r => Linked(plan[r], live)
    BY <1>11 DEF p
  <2> HIDE DEF s
  <2> QED
    BY <1>2, <1>4, <1>9, <1>10, <2>3, <2>4, <2>5, Finishes DEF p
<1>13. CASE ~(p[1].do = "reconcile" /\ ~SyncNeeded(t))
  <2>1. Step(r, "refresh", t)
    BY <1>4, <1>6, <1>13
  <2>2. Midway(p, "refresh", t, None)
    BY <1>6, <1>8 DEF Midway, Writing
  <2>3. latest = r /\ r \notin mixed =>
            Settling(k, p, "refresh", disk', file', memory', t, None)
    BY <1>4, <1>5, <1>6, <1>8, <1>9 DEF Settling, Snapped, Loaded, Current
  <2>4. ASSUME Alone, latest = r
        PROVE  Serving(k, p, "refresh", disk', file', memory', t, None, live')
    <3>1. p[1].do \notin {"pointer", "defaults"}
      BY <1>6 DEF Writing
    <3>2. Syncing(p, k, "refresh", disk', memory', t, live')
      BY <1>4, <1>5, <1>11, <2>4, <3>1 DEF Syncing
    <3> QED
      BY <1>4, <1>5, <1>9, <1>11, <2>4, <3>2 DEF Serving
  <2>5. Serves(r, p, "refresh", t, None)
    BY <1>4, <1>9, <1>11, <2>3, <2>4 DEF Serves
  <2> QED
    BY <1>2, <1>4, <1>9, <1>10, <2>1, <2>2, <2>5, StepsOn DEF p, Stages
<1> QED
  BY <1>12, <1>13

LEMMA RefreshKeeps ==
  ASSUME IInv, NEW r \in Requests, Refresh(r)
  PROVE  IInv'
<1> DEFINE p == plan[r]
           k == kind[r]
           t == task[r]
           s == Tail(p)
<1>1. TypeOK /\ FilesInv /\ PlansInv
  BY DEF IInv
<1>2. AtWork(r) /\ stage[r] = "refresh"
  BY DEF Refresh
<1>3. Known(r, p)
  BY <1>2, Knows
<1>4. /\ memory' = file
      /\ IF file = Pointers(t) THEN Continue(r, s, t) ELSE Step(r, "patch", t)
      /\ UNCHANGED <<disk, file, saves, threads, born, kind, draft, mixed, latest>>
  BY DEF Refresh
<1> HIDE DEF p, t
<1>5. /\ p # <<>> /\ p \in Seq(Rounds(saves)) /\ Belongs(p[1], k)
      /\ p[1].do \in Writing \cup {"sync"} /\ t # None /\ t \in Tasks
      /\ Pruned(t.threads) /\ t.id \in 1 .. born /\ draft[r] = None
      /\ latest = r /\ r \notin mixed => Settling(k, p, "refresh", disk, file, memory, t, None)
  <2>1. /\ p # <<>> /\ p \in Seq(Rounds(saves)) /\ Belongs(p[1], k)
        /\ p[1].do \in Writing \cup {"sync"} /\ t # None /\ t \in Tasks
        /\ Pruned(t.threads) /\ t.id \in 1 .. born
    BY <1>2, <1>3 DEF Known, Midway, Maybe, t
  <2>2. draft[r] = None
    BY <1>2, <1>3, <2>1 DEF Known, Midway, Writing
  <2> QED
    BY <1>2, <1>3, <2>1, <2>2 DEF Known, t
<1>6. born \in Nat /\ born <= born /\ Current(disk).id = disk.current
  BY <1>1, Stored
<1>7. /\ disk' = disk /\ file' = file /\ saves' = saves /\ live' = live
      /\ born' = born /\ kind' = kind /\ mixed' = mixed /\ latest' = latest /\ Sound
  BY <1>1, <1>4, <1>6 DEF threads, Sound, TypeOK, FilesInv, Saves
<1>8. Holds(t, None)
  BY <1>5, <1>7 DEF Holds, Maybe
<1>9. ASSUME Alone, latest = r
      PROVE  /\ One(disk.tasks) /\ (\A c \in saves : One(c.disk.tasks)) /\ Linked(p, live)
             /\ ~Reset => Ids(disk.tasks) = 1 .. born
             /\ Syncing(p, k, "refresh", disk, memory, t, live)
             /\ k = "tool" => Tooling(p, Current(disk))
  BY <1>2, <1>3, <1>5, <1>9 DEF Known, Serving, t
<1>10. p[1].do \notin {"pointer", "defaults", "wake", "zip"}
  BY <1>5 DEF Writing
<1>11. CASE file = Pointers(t)
  <2>1. latest = r /\ r \notin mixed =>
           Settling(k, s, "read", disk', file', memory', IF s = <<>> THEN None ELSE t, None)
    <3> SUFFICES ASSUME latest = r, r \notin mixed
                 PROVE  Settling(k, s, "read", disk', file', memory', IF s = <<>> THEN None ELSE t, None)
      OBVIOUS
    <3>1. ASSUME k = "snapshot"
          PROVE  Snapped(s, "read", disk', None, memory', IF s = <<>> THEN None ELSE t)
      <4>1. p = <<Round("current", None)>> /\ Normal(t) /\ t = FindTask(disk.tasks, t.id)
        BY <3>1, <1>5 DEF Settling, Snapped
      <4>2. s = <<>>
        BY <4>1
      <4>3. memory'.task = t.id
        BY <1>4, <1>11 DEF Pointers
      <4> QED
        BY <1>4, <1>7, <1>11, <4>1, <4>2, <4>3 DEF Snapped
    <3>2. ASSUME k \in {"load", "open"}
          PROVE  Loaded(s, "read", disk', file', memory', IF s = <<>> THEN None ELSE t)
      <4>1. /\ p[Len(p)].do = "reconcile" /\ (\A i \in 1 .. Len(p) - 1 : p[i].do # "reconcile")
            /\ p[1].do = "reconcile" /\ t = Current(disk)
        BY <3>2, <1>5 DEF Settling, Loaded
      <4>2. s = <<>>
        BY <1>5, <4>1, LoadedTail
      <4> QED
        BY <1>4, <1>7, <1>11, <4>1, <4>2 DEF Loaded
    <3> QED
      BY <3>1, <3>2 DEF Settling
  <2>2. ASSUME Alone, latest = r, k \notin {"load", "open"}
        PROVE  Rested(p, k, disk', file', memory', t)
    <3>1. CASE Lost(p, k) /\ p[1].do # "ensure"
      BY <3>1, <1>10 DEF Rested
    <3>2. CASE ~(Lost(p, k) /\ p[1].do # "ensure")
      <4>1. t = Current(disk) /\ Effect(p[1], Current(disk))
        BY <3>2, <2>2, <1>9, <1>10 DEF Syncing
      <4>2. memory'.task = disk.current
        BY <1>4, <1>6, <1>11, <4>1 DEF Pointers
      <4> QED
        BY <1>4, <1>7, <1>10, <1>11, <4>1, <4>2 DEF Rested, Effect
    <3> QED
      BY <3>1, <3>2
  <2>3. Ends(r, p, t, None)
    BY <1>7, <1>9, <2>1, <2>2 DEF Ends
  <2>4. Continue(r, Tail(plan[r]), t)
    BY <1>4, <1>11 DEF p
  <2>5. Alone /\ latest = r => Linked(plan[r], live)
    BY <1>9 DEF p
  <2>6. plan[r][1].do # "zip" /\ draft' = draft
    BY <1>4, <1>10 DEF p
  <2> HIDE DEF s
  <2> QED
    BY <1>2, <1>5, <1>7, <1>8, <2>3, <2>4, <2>5, <2>6, Finishes DEF p
<1>12. CASE file # Pointers(t)
  <2>1. Step(r, "patch", t)
    BY <1>4, <1>12
  <2>2. Midway(p, "patch", t, None)
    BY <1>5 DEF Midway, Writing
  <2>3. latest = r /\ r \notin mixed => Settling(k, p, "patch", disk', file', memory', t, None)
    BY <1>5, <1>7 DEF Settling, Snapped, Loaded
  <2>4. ASSUME Alone, latest = r
        PROVE  Serving(k, p, "patch", disk', file', memory', t, None, live')
    <3>1. Syncing(p, k, "patch", disk', memory', t, live')
      BY <1>7, <1>9, <1>10, <2>4 DEF Syncing
    <3> QED
      BY <1>7, <1>9, <2>4, <3>1 DEF Serving
  <2>5. Serves(r, p, "patch", t, None)
    BY <1>7, <1>9, <2>3, <2>4 DEF Serves
  <2> QED
    BY <1>2, <1>4, <1>5, <1>7, <1>8, <2>1, <2>2, <2>5, StepsOn DEF p, Stages
<1> QED
  BY <1>11, <1>12

LEMMA PatchKeeps ==
  ASSUME IInv, NEW r \in Requests, Patch(r)
  PROVE  IInv'
<1> DEFINE p == plan[r]
           k == kind[r]
           t == task[r]
<1>1. TypeOK /\ FilesInv /\ PlansInv
  BY DEF IInv
<1>2. AtWork(r) /\ stage[r] = "patch"
  BY DEF Patch
<1>3. Known(r, p)
  BY <1>2, Knows
<1>4. /\ memory' = Pointers(t) /\ Step(r, "store", t)
      /\ UNCHANGED <<disk, file, saves, threads, born, kind, draft, mixed, latest>>
  BY DEF Patch
<1> HIDE DEF p, t
<1>5. /\ p # <<>> /\ p \in Seq(Rounds(saves)) /\ Belongs(p[1], k)
      /\ p[1].do \in Writing \cup {"sync"} /\ t # None /\ t \in Tasks
      /\ Pruned(t.threads) /\ t.id \in 1 .. born /\ draft[r] = None
      /\ latest = r /\ r \notin mixed => Settling(k, p, "patch", disk, file, memory, t, None)
  <2>1. /\ p # <<>> /\ p \in Seq(Rounds(saves)) /\ Belongs(p[1], k)
        /\ p[1].do \in Writing \cup {"sync"} /\ t # None /\ t \in Tasks
        /\ Pruned(t.threads) /\ t.id \in 1 .. born
    BY <1>2, <1>3 DEF Known, Midway, Maybe, t
  <2>2. draft[r] = None
    BY <1>2, <1>3, <2>1 DEF Known, Midway, Writing
  <2> QED
    BY <1>2, <1>3, <2>1, <2>2 DEF Known, t
<1>6. born \in Nat /\ born <= born
  BY <1>1, Stored
<1>7. Pointers(t) \in Pointed
  BY <1>5 DEF Pointers, Pointed, Tasks
<1>8. /\ disk' = disk /\ file' = file /\ saves' = saves /\ live' = live
      /\ born' = born /\ kind' = kind /\ mixed' = mixed /\ latest' = latest /\ Sound
  BY <1>1, <1>4, <1>6, <1>7 DEF threads, Sound, TypeOK, FilesInv, Saves
<1>9. Holds(t, None)
  BY <1>5, <1>8 DEF Holds, Maybe
<1>10. ASSUME Alone, latest = r
       PROVE  /\ One(disk.tasks) /\ (\A c \in saves : One(c.disk.tasks)) /\ Linked(p, live)
              /\ ~Reset => Ids(disk.tasks) = 1 .. born
              /\ Syncing(p, k, "patch", disk, memory, t, live)
              /\ k = "tool" => Tooling(p, Current(disk))
  BY <1>2, <1>3, <1>5, <1>10 DEF Known, Serving, t
<1>11. Midway(p, "store", t, None)
  BY <1>5 DEF Midway, Writing
<1>12. latest = r /\ r \notin mixed => Settling(k, p, "store", disk', file', memory', t, None)
  BY <1>4, <1>5, <1>8 DEF Settling, Snapped, Loaded
<1>13. ASSUME Alone, latest = r
       PROVE  Serving(k, p, "store", disk', file', memory', t, None, live')
  <2>1. p[1].do \notin {"pointer", "defaults"}
    BY <1>5 DEF Writing
  <2>2. Syncing(p, k, "store", disk', memory', t, live')
    BY <1>4, <1>8, <1>10, <1>13, <2>1 DEF Syncing
  <2> QED
    BY <1>8, <1>10, <1>13, <2>2 DEF Serving
<1>14. Serves(r, p, "store", t, None)
  BY <1>8, <1>10, <1>12, <1>13 DEF Serves
<1> QED
  BY <1>2, <1>4, <1>5, <1>8, <1>9, <1>11, <1>14, StepsOn DEF p, Stages

LEMMA StoreKeeps ==
  ASSUME IInv, NEW r \in Requests, Store(r)
  PROVE  IInv'
<1> DEFINE p == plan[r]
           k == kind[r]
           t == task[r]
           s == Tail(p)
<1>1. TypeOK /\ FilesInv /\ PlansInv
  BY DEF IInv
<1>2. AtWork(r) /\ stage[r] = "store"
  BY DEF Store
<1>3. Known(r, p)
  BY <1>2, Knows
<1>4. /\ file' = memory /\ Continue(r, s, t)
      /\ UNCHANGED <<disk, memory, saves, threads, born, kind, draft, mixed, latest>>
  BY DEF Store
<1> HIDE DEF p, t
<1>5. /\ p # <<>> /\ p \in Seq(Rounds(saves)) /\ Belongs(p[1], k)
      /\ p[1].do \in {"pointer", "defaults"} \cup Writing \cup {"sync"}
      /\ p[1].do \in Writing \cup {"sync"} => t # None
      /\ t \in Maybe(Tasks) /\ (t # None => Pruned(t.threads) /\ t.id \in 1 .. born)
      /\ draft[r] = None
      /\ latest = r /\ r \notin mixed => Settling(k, p, "store", disk, file, memory, t, None)
  <2>1. /\ p # <<>> /\ p \in Seq(Rounds(saves)) /\ Belongs(p[1], k)
        /\ p[1].do \in {"pointer", "defaults"} \cup Writing \cup {"sync"}
        /\ p[1].do \in Writing \cup {"sync"} => t # None
        /\ t \in Maybe(Tasks) /\ (t # None => Pruned(t.threads) /\ t.id \in 1 .. born)
    BY <1>2, <1>3 DEF Known, Midway, Writing, t
  <2>2. draft[r] = None
    BY <1>2, <1>3, <2>1 DEF Known, Midway, Writing
  <2> QED
    BY <1>2, <1>3, <2>1, <2>2 DEF Known, t
<1>6. born \in Nat /\ born <= born /\ Current(disk).id = disk.current
  BY <1>1, Stored
<1>7. /\ disk' = disk /\ memory' = memory /\ saves' = saves /\ live' = live
      /\ born' = born /\ kind' = kind /\ mixed' = mixed /\ latest' = latest /\ Sound
  BY <1>1, <1>4, <1>6 DEF threads, Sound, TypeOK, FilesInv, Saves
<1>8. Holds(t, None)
  BY <1>5, <1>7 DEF Holds, Maybe
<1>9. ASSUME Alone, latest = r
      PROVE  /\ One(disk.tasks) /\ (\A c \in saves : One(c.disk.tasks)) /\ Linked(p, live)
             /\ ~Reset => Ids(disk.tasks) = 1 .. born
             /\ Syncing(p, k, "store", disk, memory, t, live)
             /\ k = "tool" => Tooling(p, Current(disk))
  BY <1>2, <1>3, <1>5, <1>9 DEF Known, Serving, t
<1>10. p[1].do \notin {"wake", "zip"}
  BY <1>5 DEF Writing
<1>11. latest = r /\ r \notin mixed =>
           Settling(k, s, "read", disk', file', memory', IF s = <<>> THEN None ELSE t, None)
  <2> SUFFICES ASSUME latest = r, r \notin mixed
               PROVE  Settling(k, s, "read", disk', file', memory', IF s = <<>> THEN None ELSE t, None)
    OBVIOUS
  <2>1. ASSUME k = "snapshot"
        PROVE  Snapped(s, "read", disk', None, memory', IF s = <<>> THEN None ELSE t)
    <3>1. /\ p = <<Round("current", None)>> /\ Normal(t) /\ t = FindTask(disk.tasks, t.id)
          /\ memory = Pointers(t)
      BY <2>1, <1>5 DEF Settling, Snapped
    <3>2. s = <<>>
      BY <3>1
    <3>3. memory.task = t.id
      BY <3>1 DEF Pointers
    <3> QED
      BY <1>4, <1>7, <3>1, <3>2, <3>3 DEF Snapped
  <2>2. ASSUME k \in {"load", "open"}
        PROVE  Loaded(s, "read", disk', file', memory', IF s = <<>> THEN None ELSE t)
    <3>1. /\ p[Len(p)].do = "reconcile" /\ (\A i \in 1 .. Len(p) - 1 : p[i].do # "reconcile")
          /\ p[1].do = "reconcile" /\ memory = Pointers(Current(disk))
      BY <2>2, <1>5 DEF Settling, Loaded
    <3>2. s = <<>>
      BY <1>5, <3>1, LoadedTail
    <3> QED
      BY <1>4, <1>7, <3>1, <3>2 DEF Loaded
  <2> QED
    BY <2>1, <2>2 DEF Settling
<1>12. ASSUME Alone, latest = r, k \notin {"load", "open"}
       PROVE  Rested(p, k, disk', file', memory', t)
  <2>1. CASE Lost(p, k) /\ p[1].do # "ensure"
    BY <2>1, <1>10 DEF Rested
  <2>2. CASE ~(Lost(p, k) /\ p[1].do # "ensure")
    <3>1. CASE p[1].do = "pointer"
      <4>1. /\ memory = [task |-> disk.current, thread |-> p[1].arg] /\ t \in {None, Current(disk)}
            /\ Commits(p[1], After(p), live) => Current(disk).active = p[1].arg
        BY <2>2, <3>1, <1>9, <1>12 DEF Syncing
      <4>2. memory = Pointers(Current(disk)) \/ After(p) \in Mending
        BY <3>1, <4>1, <1>6 DEF Commits, Pointers
      <4>3. memory = Pointers(Current(disk)) => Current(disk).active = p[1].arg
        BY <4>1 DEF Pointers
      <4> QED
        BY <1>4, <1>7, <3>1, <4>1, <4>2, <4>3 DEF Rested
    <3>2. CASE p[1].do = "defaults"
      <4>1. memory = Pointers(Current(disk)) /\ t \in {None, Current(disk)}
        BY <2>2, <3>2, <1>9, <1>12 DEF Syncing
      <4>2. memory.task = disk.current
        BY <4>1, <1>6 DEF Pointers
      <4> QED
        BY <1>4, <1>7, <3>2, <4>1, <4>2 DEF Rested
    <3>3. CASE p[1].do \notin {"pointer", "defaults"}
      <4>1. /\ t = Current(disk) /\ Effect(p[1], Current(disk))
            /\ memory = Pointers(Current(disk))
        BY <2>2, <3>3, <1>9, <1>12 DEF Syncing
      <4>2. memory.task = disk.current
        BY <4>1, <1>6 DEF Pointers
      <4> QED
        BY <1>4, <1>7, <3>3, <4>1, <4>2 DEF Rested, Effect
    <3> QED
      BY <3>1, <3>2, <3>3
  <2> QED
    BY <2>1, <2>2
<1>13. Ends(r, p, t, None)
  BY <1>7, <1>9, <1>11, <1>12 DEF Ends
<1>14. Continue(r, Tail(plan[r]), t) /\ draft' = draft
  BY <1>4 DEF p
<1>15. Alone /\ latest = r => Linked(plan[r], live)
  BY <1>9 DEF p
<1>16. plan[r][1].do # "zip" /\ (plan[r][1].do = "ensure" => t # None)
  BY <1>5, <1>10 DEF p, Writing
<1> HIDE DEF s
<1> QED
  BY <1>2, <1>5, <1>7, <1>8, <1>13, <1>14, <1>15, <1>16, Finishes DEF p

LEMMA PointKeeps ==
  ASSUME IInv, NEW r \in Requests, Point(r)
  PROVE  IInv'
<1> DEFINE p == plan[r]
           k == kind[r]
           t == task[r]
<1>1. TypeOK /\ FilesInv /\ PlansInv
  BY DEF IInv
<1>2. AtWork(r) /\ stage[r] = "read" /\ Head(p).do \in {"pointer", "defaults"}
  BY DEF Point, Turn
<1>3. Known(r, p)
  BY <1>2, Knows
<1>4. /\ \/ Head(p).do = "pointer" /\ memory' = [memory EXCEPT !.thread = Head(p).arg]
         \/ Head(p).do = "defaults" /\ memory' = memory
      /\ Step(r, "store", t)
      /\ UNCHANGED <<disk, file, saves, threads, born, kind, draft, mixed, latest>>
  BY DEF Point, Turn, Arg
<1> HIDE DEF p, t
<1>5. /\ p # <<>> /\ p \in Seq(Rounds(saves)) /\ Belongs(p[1], k) /\ Head(p) = p[1]
      /\ p[1] \in Rounds(saves) /\ p[1].do \in {"pointer", "defaults"}
      /\ t \in Maybe(Tasks) /\ (t # None => Pruned(t.threads) /\ t.id \in 1 .. born)
      /\ draft[r] = None /\ Chained(p)
  <2>1. /\ p # <<>> /\ p \in Seq(Rounds(saves)) /\ Belongs(p[1], k) /\ Head(p) = p[1]
        /\ p[1] \in Rounds(saves) /\ p[1].do \in {"pointer", "defaults"}
        /\ t \in Maybe(Tasks) /\ (t # None => Pruned(t.threads) /\ t.id \in 1 .. born)
        /\ Chained(p)
    BY <1>2, <1>3 DEF Known, t
  <2>2. draft[r] = None
    BY <1>2, <1>3, <2>1 DEF Known, Midway
  <2> QED
    BY <2>1, <2>2
<1>6. born \in Nat /\ born <= born /\ memory \in Pointed
  BY <1>1, Stored
<1>7. p[1].do = "pointer" => p[1].arg \in Threads
  BY <1>5 DEF Rounds, OfThread, OfAny, OfNothing
<1>8. memory' \in Pointed
  BY <1>4, <1>5, <1>6, <1>7 DEF Pointed, Maybe
<1>9. /\ disk' = disk /\ file' = file /\ saves' = saves /\ live' = live
      /\ born' = born /\ kind' = kind /\ mixed' = mixed /\ latest' = latest /\ Sound
  BY <1>1, <1>4, <1>6, <1>8 DEF threads, Sound, TypeOK, FilesInv, Saves
<1>10. Holds(t, None)
  BY <1>5, <1>9 DEF Holds, Maybe
<1>11. k \notin {"snapshot", "load", "open"}
  BY <1>5 DEF Belongs, Loading
<1>12. ASSUME Alone, latest = r
       PROVE  /\ One(disk.tasks) /\ (\A c \in saves : One(c.disk.tasks)) /\ Linked(p, live)
              /\ ~Reset => Ids(disk.tasks) = 1 .. born
              /\ k = "tool" => Tooling(p, Current(disk))
  BY <1>2, <1>3, <1>12 DEF Known, Serving
<1>13. Midway(p, "store", t, None)
  BY <1>5 DEF Midway
<1>14. ASSUME Alone, latest = r
       PROVE  Serving(k, p, "store", disk', file', memory', t, None, live')
  <2>1. Syncing(p, k, "store", disk, memory', t, live)
    <3> SUFFICES ASSUME ~Lost(p, k) PROVE Syncing(p, k, "store", disk, memory', t, live)
      BY <1>5 DEF Syncing
    <3>1. /\ memory = file /\ memory.task = disk.current /\ t \in {None, Current(disk)}
          /\ memory = Pointers(Current(disk))
          /\ Commits(p[1], After(p), live) => memory.thread = p[1].arg
      BY <1>2, <1>3, <1>5, <1>11, <1>14, AtRestNow DEF Mending, t
    <3>2. CASE p[1].do = "pointer"
      <4>1. memory' = [memory EXCEPT !.thread = p[1].arg]
        BY <1>4, <1>5, <3>2
      <4>2. memory' = [task |-> memory.task, thread |-> p[1].arg]
        BY <4>1, <1>6 DEF Pointed
      <4>3. Commits(p[1], After(p), live) => Current(disk).active = p[1].arg
        BY <3>1 DEF Pointers
      <4> QED
        BY <3>1, <3>2, <4>2, <4>3 DEF Syncing
    <3>3. CASE p[1].do = "defaults"
      <4>1. memory' = memory
        BY <1>4, <1>5, <3>3
      <4> QED
        BY <3>1, <3>3, <4>1 DEF Syncing
    <3> QED
      BY <1>5, <3>2, <3>3
  <2> QED
    BY <1>9, <1>12, <1>14, <2>1 DEF Serving
<1>15. Serves(r, p, "store", t, None)
  BY <1>9, <1>11, <1>12, <1>14 DEF Serves, Settling
<1> QED
  BY <1>2, <1>4, <1>5, <1>9, <1>10, <1>13, <1>15, StepsOn DEF p, Stages


-----------------------------------------------------------------------------
(* Checkpoints and the opening of a project.                               *)

\* A loading before it reads the tasks again.
LEMMA LoadsOn ==
  ASSUME NEW S, NEW p \in Seq(S), p # <<>>, Chained(p), p[1].do # "reconcile",
         NEW d, NEW f, NEW m, NEW t, Loaded(p, "read", d, f, m, t),
         NEW e, NEW g, NEW n, NEW u, p[1].do = "open" => n = g
  PROVE  Loaded(Tail(p), "read", e, g, n, u)
<1> DEFINE s == Tail(p)
<1>1. p[Len(p)].do = "reconcile" /\ \A i \in 1 .. Len(p) - 1 : p[i].do # "reconcile"
  BY DEF Loaded
<1>2. /\ s # <<>> /\ s[Len(s)].do = "reconcile"
      /\ \A i \in 1 .. Len(s) - 1 : s[i].do # "reconcile"
  BY <1>1, LoadedTail
<1>3. Follows(p[1], s[1])
  BY <1>2, Rest
<1> HIDE DEF s
<1>4. Loaded(s, "read", e, g, n, u)
  BY <1>2, <1>3 DEF Loaded, Follows
<1> QED
  BY <1>4 DEF s

\* Such a round of a request that need not settle anything.
LEMMA LoadingEnds ==
  ASSUME NEW r, NEW p, Known(r, p), stage[r] = "read",
         p[1].do \in {"zip", "copy", "unzip", "recopy", "open"}, NEW dr,
         p[1].do = "open" => memory' = file', live' = live, born' = born,
         p[1].do \in {"zip", "copy"} => disk' = disk /\ file' = file /\ memory' = memory,
         p[1].do # "unzip" => disk' = disk,
         Alone /\ latest = r => /\ One(disk'.tasks) /\ (dr # None => One(dr.tasks))
                                /\ \A c \in saves' : One(c.disk.tasks),
         kind[r] \in {"load", "restart"} => Reset,
         FilesInv, TypeOK
  PROVE  Ends(r, p, task[r], dr) /\ (Alone /\ latest = r => Linked(p, live))
<1> DEFINE k == kind[r]
           t == task[r]
           s == Tail(p)
           u == IF s = <<>> THEN None ELSE t
<1>1. /\ p \in Seq(Rounds(saves)) /\ p # <<>> /\ Chained(p) /\ Belongs(p[1], k)
      /\ p[1].do # "reconcile"
  BY DEF Known
<1>2. /\ k # "snapshot" /\ (p[1].do \in {"unzip", "recopy"} => k = "load")
      /\ (p[1].do = "open" => k \in {"load", "open"})
  BY <1>1 DEF Belongs
<1>3. latest = r /\ r \notin mixed => Settling(k, s, "read", disk', file', memory', u, dr)
  <2> SUFFICES ASSUME latest = r, r \notin mixed, k \in {"load", "open"}
               PROVE  Loaded(s, "read", disk', file', memory', u)
    BY <1>2 DEF Settling
  <2>1. Loaded(p, "read", disk, file, memory, t)
    BY DEF Known, Settling
  <2>2. p[1].do = "open" => memory' = file'
    OBVIOUS
  <2> HIDE DEF u, t
  <2>3. Loaded(Tail(p), "read", disk', file', memory', u)
    BY <1>1, <2>1, <2>2, LoadsOn
  <2> QED
    BY <2>3
<1>4. ASSUME Alone, latest = r
      PROVE  /\ ~Reset => Ids(disk'.tasks) = 1 .. born'
             /\ k \notin {"load", "open"} => Rested(p, k, disk', file', memory', t)
             /\ k = "tool" => Tooling(p, Current(disk'))
             /\ Linked(p, live)
  <2>1. /\ ~Reset => Ids(disk.tasks) = 1 .. born
        /\ k = "tool" => Tooling(p, Current(disk))
        /\ Linked(p, live)
    BY <1>4 DEF Known, Serving
  <2>2. ~Reset => disk' = disk
    BY <1>2
  <2>3. k = "tool" => disk' = disk
    BY <1>2
  <2>4. ASSUME k \notin {"load", "open"} PROVE Rested(p, k, disk', file', memory', t)
    <3>1. disk' = disk /\ file' = file /\ memory' = memory /\ p[1].do \in {"zip", "copy"}
      BY <1>2, <2>4
    <3>2. CASE Lost(p, k)
      BY <3>1, <3>2 DEF Rested
    <3>3. CASE ~Lost(p, k)
      BY <1>4, <2>4, <3>1, <3>3, AtRestNow DEF Rested, Mending
    <3> QED
      BY <3>2, <3>3
  <2> QED
    BY <2>1, <2>2, <2>3, <2>4
<1>5. Ends(r, p, t, dr)
  BY <1>3, <1>4 DEF Ends
<1> QED
  BY <1>4, <1>5

LEMMA RestoreKeeps ==
  ASSUME IInv, NEW r \in Requests, Restore(r)
  PROVE  IInv'
<1> DEFINE p == plan[r]
           t == task[r]
<1>1. TypeOK /\ FilesInv /\ PlansInv
  BY DEF IInv
<1>2. AtWork(r) /\ stage[r] = "read" /\ Head(p).do \in {"unzip", "recopy", "open"}
  BY DEF Restore, Turn
<1>3. Known(r, p)
  BY <1>2, Knows
<1>4. /\ \/ Head(p).do = "unzip" /\ disk' = Head(p).arg.disk /\ file' = file /\ memory' = memory
         \/ Head(p).do = "recopy" /\ file' = Head(p).arg.file /\ disk' = disk /\ memory' = memory
         \/ Head(p).do = "open" /\ memory' = file /\ disk' = disk /\ file' = file
      /\ Continue(r, Tail(p), t)
      /\ UNCHANGED <<saves, threads, born, kind, draft, mixed, latest>>
  BY DEF Restore, Turn, Arg
<1> HIDE DEF p, t
<1>5. /\ p # <<>> /\ p[1] \in Rounds(saves) /\ Head(p) = p[1] /\ Belongs(p[1], kind[r])
      /\ t \in Maybe(Tasks) /\ (t # None => Pruned(t.threads) /\ t.id \in 1 .. born)
      /\ draft[r] = None
  <2>1. /\ p # <<>> /\ p[1] \in Rounds(saves) /\ Head(p) = p[1] /\ Belongs(p[1], kind[r])
        /\ t \in Maybe(Tasks) /\ (t # None => Pruned(t.threads) /\ t.id \in 1 .. born)
    BY <1>3 DEF Known, t
  <2>2. draft[r] = None
    BY <1>2, <1>3, <2>1 DEF Known, Midway
  <2> QED
    BY <2>1, <2>2
<1>6. p[1].do \in {"unzip", "recopy"} => p[1].arg \in saves
  BY <1>5 DEF Rounds, OfThread, OfAny, OfNothing
<1>7. /\ saves \subseteq Saves /\ disk \in TaskFiles /\ file \in Pointed /\ memory \in Pointed
      /\ Whole(disk, born) /\ (\A c \in saves : Whole(c.disk, born)) /\ born \in Nat
  BY <1>1, Stored DEF TypeOK, FilesInv, Saves
<1>8. /\ disk' \in TaskFiles /\ file' \in Pointed /\ memory' \in Pointed /\ Whole(disk', born)
      /\ disk' = disk \/ (\E c \in saves : disk' = c.disk)
  BY <1>4, <1>5, <1>6, <1>7 DEF Saves
<1>9. /\ saves' = saves /\ live' = live /\ made' = made /\ born' = born /\ kind' = kind
      /\ mixed' = mixed /\ latest' = latest /\ draft' = draft
  BY <1>4 DEF threads
<1>10. Sound
  BY <1>1, <1>7, <1>8, <1>9 DEF Sound, TypeOK
<1>11. Holds(t, None)
  BY <1>5, <1>9 DEF Holds, Maybe
<1>12. ASSUME Alone, latest = r
       PROVE  One(disk'.tasks) /\ \A c \in saves' : One(c.disk.tasks)
  <2>1. One(disk.tasks) /\ \A c \in saves : One(c.disk.tasks)
    BY <1>3, <1>12 DEF Known
  <2> QED
    BY <1>8, <1>9, <2>1
<1>13. Ends(r, p, t, None) /\ (Alone /\ latest = r => Linked(p, live))
  <2>1. kind[r] \in {"load", "restart"} => Reset
    BY DEF Reset
  <2>2. p[1].do \in {"unzip", "recopy", "open"}
    BY <1>2, <1>5
  <2>3. p[1].do = "open" => memory' = file'
    BY <1>4, <1>5
  <2>4. p[1].do # "unzip" => disk' = disk
    BY <1>4, <1>5
  <2>5. Ends(r, p, task[r], None) /\ (Alone /\ latest = r => Linked(p, live))
    BY <1>1, <1>2, <1>3, <1>9, <1>12, <2>1, <2>2, <2>3, <2>4, LoadingEnds
  <2> QED
    BY <2>5 DEF t
<1>14. p[1].do # "ensure" /\ p[1].do # "zip"
  BY <1>2, <1>5
<1> QED
  BY <1>2, <1>4, <1>5, <1>9, <1>10, <1>11, <1>13, <1>14, Finishes DEF p

LEMMA ZipFilesKeeps ==
  ASSUME IInv, NEW r \in Requests, ZipFiles(r)
  PROVE  IInv'
<1> DEFINE p == plan[r]
           t == task[r]
<1>1. TypeOK /\ FilesInv /\ PlansInv
  BY DEF IInv
<1>2. AtWork(r) /\ stage[r] = "read" /\ Head(p).do = "zip"
  BY DEF ZipFiles, Turn
<1>3. Known(r, p)
  BY <1>2, Knows
<1>4. /\ draft' = [draft EXCEPT ![r] = disk] /\ Continue(r, Tail(p), t)
      /\ UNCHANGED <<projects, threads, born, kind, mixed, latest>>
  BY DEF ZipFiles
<1> HIDE DEF p, t
<1>5. /\ p # <<>> /\ p[1].do = "zip"
      /\ t \in Maybe(Tasks) /\ (t # None => Pruned(t.threads) /\ t.id \in 1 .. born)
  BY <1>2, <1>3 DEF Known, t
<1>6. /\ disk' = disk /\ file' = file /\ memory' = memory /\ saves' = saves /\ live' = live
      /\ born' = born /\ kind' = kind /\ mixed' = mixed /\ latest' = latest /\ Sound
      /\ \A w, e : w \in Maybe(Tasks) /\ e \in Maybe(TaskFiles)
                       /\ (e # None => Whole(e, born))
                       /\ (w # None => Pruned(w.threads) /\ w.id \in 1 .. born) => Holds(w, e)
  BY <1>1, <1>4, AsBefore DEF projects, threads
<1>7. disk \in TaskFiles /\ Whole(disk, born) /\ disk # None
  BY <1>1, Stored, TaskAssumption
<1>8. Holds(t, disk)
  BY <1>5, <1>6, <1>7 DEF Maybe
<1>9. Ends(r, p, t, disk) /\ (Alone /\ latest = r => Linked(p, live))
  <2>1. kind[r] \in {"load", "restart"} => Reset
    BY DEF Reset
  <2>2. Alone /\ latest = r => One(disk'.tasks) /\ \A c \in saves' : One(c.disk.tasks)
    BY <1>3, <1>6 DEF Known
  <2>3. Ends(r, p, task[r], disk) /\ (Alone /\ latest = r => Linked(p, live))
    BY <1>1, <1>2, <1>3, <1>5, <1>6, <2>1, <2>2, LoadingEnds
  <2> QED
    BY <2>3 DEF t
<1> QED
  BY <1>2, <1>4, <1>5, <1>6, <1>7, <1>8, <1>9, Finishes DEF p

LEMMA CopyFileKeeps ==
  ASSUME IInv, NEW r \in Requests, CopyFile(r)
  PROVE  IInv'
<1> DEFINE p == plan[r]
           t == task[r]
           x == [disk |-> draft[r], file |-> file]
<1>1. TypeOK /\ FilesInv /\ PlansInv
  BY DEF IInv
<1>2. AtWork(r) /\ stage[r] = "read" /\ Head(p).do = "copy"
  BY DEF CopyFile, Turn
<1>3. Known(r, p)
  BY <1>2, Knows
<1>4. /\ saves' = saves \cup {x} /\ draft' = [draft EXCEPT ![r] = None]
      /\ Continue(r, Tail(p), t)
      /\ UNCHANGED <<disk, file, memory, threads, born, kind, mixed, latest>>
  BY DEF CopyFile
<1> HIDE DEF p, t
<1>5. /\ p # <<>> /\ p[1].do = "copy"
      /\ t \in Maybe(Tasks) /\ (t # None => Pruned(t.threads) /\ t.id \in 1 .. born)
      /\ draft[r] \in TaskFiles /\ Whole(draft[r], born) /\ draft[r] # None
  <2>1. /\ p # <<>> /\ p[1].do = "copy" /\ Midway(p, stage[r], task[r], draft[r])
        /\ t \in Maybe(Tasks) /\ (t # None => Pruned(t.threads) /\ t.id \in 1 .. born)
        /\ draft[r] \in Maybe(TaskFiles) /\ (draft[r] # None => Whole(draft[r], born))
    BY <1>2, <1>3 DEF Known, t
  <2>2. draft[r] # None
    BY <2>1 DEF Midway
  <2> QED
    BY <2>1, <2>2 DEF Maybe
<1>6. /\ disk' = disk /\ file' = file /\ memory' = memory /\ live' = live /\ made' = made
      /\ born' = born /\ kind' = kind /\ mixed' = mixed /\ latest' = latest
  BY <1>4 DEF threads
<1>7. /\ saves \subseteq Saves /\ disk \in TaskFiles /\ file \in Pointed /\ memory \in Pointed
      /\ Whole(disk, born) /\ (\A c \in saves : Whole(c.disk, born)) /\ born \in Nat
  BY <1>1, Stored DEF TypeOK, FilesInv, Saves
<1>8. x \in Saves
  BY <1>5, <1>7 DEF Saves
<1>9. saves' \subseteq Saves /\ \A c \in saves' : Whole(c.disk, born)
  BY <1>4, <1>5, <1>7, <1>8
<1>10. Sound
  BY <1>1, <1>4, <1>6, <1>7, <1>9 DEF Sound, TypeOK
<1>11. Holds(t, None)
  BY <1>5, <1>6 DEF Holds, Maybe
<1>12. Ends(r, p, t, None) /\ (Alone /\ latest = r => Linked(p, live))
  <2>1. kind[r] \in {"load", "restart"} => Reset
    BY DEF Reset
  <2>2. Alone /\ latest = r => One(disk'.tasks) /\ \A c \in saves' : One(c.disk.tasks)
    BY <1>3, <1>4, <1>5, <1>6 DEF Known
  <2>3. Ends(r, p, task[r], None) /\ (Alone /\ latest = r => Linked(p, live))
    BY <1>1, <1>2, <1>3, <1>5, <1>6, <2>1, <2>2, LoadingEnds
  <2> QED
    BY <2>3 DEF t
<1> QED
  BY <1>2, <1>4, <1>5, <1>6, <1>10, <1>11, <1>12, Finishes DEF p

-----------------------------------------------------------------------------
(* Rounds that plan others.                                                *)

\* What two sequences put together make.
LEMMA Flat ==
  ASSUME NEW S, NEW s \in Seq(S), NEW t \in Seq(S), NEW u \in Seq(S),
         Len(u) = Len(s) + Len(t),
         \A i \in 1 .. Len(s) : u[i] = s[i],
         \A i \in 1 .. Len(t) : u[Len(s) + i] = t[i]
  PROVE  s \o t = u
<1> DEFINE r == s \o t
<1>1. r \in Seq(S) /\ JoinOf(r, s, t)
  BY Joined
<1>2. Len(s) \in Nat /\ Len(t) \in Nat /\ Len(u) \in Nat /\ DOMAIN u = 1 .. Len(u)
      /\ DOMAIN r = 1 .. Len(r)
  <2> HIDE DEF r
  <2> QED
    BY <1>1, InSequence
<1> HIDE DEF r
<1>3. DOMAIN r = DOMAIN u
  BY <1>1, <1>2 DEF JoinOf
<1>4. \A i \in DOMAIN u : r[i] = u[i]
  BY <1>1, <1>2 DEF JoinOf
<1>5. r = [i \in DOMAIN r |-> r[i]] /\ u = [i \in DOMAIN u |-> u[i]]
  <2>1. \A q \in Seq(S) : q = [i \in DOMAIN q |-> q[i]]
    BY SeqDef
  <2> QED
    BY <2>1, <1>1
<1> QED
  BY <1>3, <1>4, <1>5 DEF r


LEMMA OneAndOne ==
  ASSUME NEW x1, NEW x2
  PROVE  <<x1>> \o <<x2>> = <<x1, x2>>
<1> DEFINE S == {x1, x2}
           s == <<x1>>
           t == <<x2>>
           u == <<x1, x2>>
<1>1. s \in Seq(S) /\ t \in Seq(S) /\ u \in Seq(S) /\ Len(s) = 1 /\ Len(t) = 1 /\ Len(u) = 2
  OBVIOUS
<1>2. /\ Len(u) = Len(s) + Len(t)
      /\ \A i \in 1 .. Len(s) : u[i] = s[i]
  BY <1>1
<1>3. \A i \in 1 .. Len(t) : u[Len(s) + i] = t[i]
  BY <1>1
<1> HIDE DEF S, s, t, u
<1>4. s \o t = u
  BY <1>1, <1>2, <1>3, Flat
<1> QED
  BY <1>4 DEF s, t, u

LEMMA TwoAndOne ==
  ASSUME NEW x1, NEW x2, NEW x3
  PROVE  <<x1, x2>> \o <<x3>> = <<x1, x2, x3>>
<1> DEFINE S == {x1, x2, x3}
           s == <<x1, x2>>
           t == <<x3>>
           u == <<x1, x2, x3>>
<1>1. s \in Seq(S) /\ t \in Seq(S) /\ u \in Seq(S) /\ Len(s) = 2 /\ Len(t) = 1 /\ Len(u) = 3
  OBVIOUS
<1>2. /\ Len(u) = Len(s) + Len(t)
      /\ \A i \in 1 .. Len(s) : u[i] = s[i]
  BY <1>1
<1>3. \A i \in 1 .. Len(t) : u[Len(s) + i] = t[i]
  BY <1>1
<1> HIDE DEF S, s, t, u
<1>4. s \o t = u
  BY <1>1, <1>2, <1>3, Flat
<1> QED
  BY <1>4 DEF s, t, u

LEMMA TwoAndTwo ==
  ASSUME NEW x1, NEW x2, NEW x3, NEW x4
  PROVE  <<x1, x2>> \o <<x3, x4>> = <<x1, x2, x3, x4>>
<1> DEFINE S == {x1, x2, x3, x4}
           s == <<x1, x2>>
           t == <<x3, x4>>
           u == <<x1, x2, x3, x4>>
<1>1. s \in Seq(S) /\ t \in Seq(S) /\ u \in Seq(S) /\ Len(s) = 2 /\ Len(t) = 2 /\ Len(u) = 4
  OBVIOUS
<1>2. /\ Len(u) = Len(s) + Len(t)
      /\ \A i \in 1 .. Len(s) : u[i] = s[i]
  BY <1>1
<1>3. \A i \in 1 .. Len(t) : u[Len(s) + i] = t[i]
  BY <1>1
<1> HIDE DEF S, s, t, u
<1>4. s \o t = u
  BY <1>1, <1>2, <1>3, Flat
<1> QED
  BY <1>4 DEF s, t, u

LEMMA ThreeAndOne ==
  ASSUME NEW x1, NEW x2, NEW x3, NEW x4
  PROVE  <<x1, x2, x3>> \o <<x4>> = <<x1, x2, x3, x4>>
<1> DEFINE S == {x1, x2, x3, x4}
           s == <<x1, x2, x3>>
           t == <<x4>>
           u == <<x1, x2, x3, x4>>
<1>1. s \in Seq(S) /\ t \in Seq(S) /\ u \in Seq(S) /\ Len(s) = 3 /\ Len(t) = 1 /\ Len(u) = 4
  OBVIOUS
<1>2. /\ Len(u) = Len(s) + Len(t)
      /\ \A i \in 1 .. Len(s) : u[i] = s[i]
  BY <1>1
<1>3. \A i \in 1 .. Len(t) : u[Len(s) + i] = t[i]
  BY <1>1
<1> HIDE DEF S, s, t, u
<1>4. s \o t = u
  BY <1>1, <1>2, <1>3, Flat
<1> QED
  BY <1>4 DEF s, t, u

LEMMA ThreeAndTwo ==
  ASSUME NEW x1, NEW x2, NEW x3, NEW x4, NEW x5
  PROVE  <<x1, x2, x3>> \o <<x4, x5>> = <<x1, x2, x3, x4, x5>>
<1> DEFINE S == {x1, x2, x3, x4, x5}
           s == <<x1, x2, x3>>
           t == <<x4, x5>>
           u == <<x1, x2, x3, x4, x5>>
<1>1. s \in Seq(S) /\ t \in Seq(S) /\ u \in Seq(S) /\ Len(s) = 3 /\ Len(t) = 2 /\ Len(u) = 5
  OBVIOUS
<1>2. /\ Len(u) = Len(s) + Len(t)
      /\ \A i \in 1 .. Len(s) : u[i] = s[i]
  BY <1>1
<1>3. \A i \in 1 .. Len(t) : u[Len(s) + i] = t[i]
  BY <1>1
<1> HIDE DEF S, s, t, u
<1>4. s \o t = u
  BY <1>1, <1>2, <1>3, Flat
<1> QED
  BY <1>4 DEF s, t, u

LEMMA FourAndOne ==
  ASSUME NEW x1, NEW x2, NEW x3, NEW x4, NEW x5
  PROVE  <<x1, x2, x3, x4>> \o <<x5>> = <<x1, x2, x3, x4, x5>>
<1> DEFINE S == {x1, x2, x3, x4, x5}
           s == <<x1, x2, x3, x4>>
           t == <<x5>>
           u == <<x1, x2, x3, x4, x5>>
<1>1. s \in Seq(S) /\ t \in Seq(S) /\ u \in Seq(S) /\ Len(s) = 4 /\ Len(t) = 1 /\ Len(u) = 5
  OBVIOUS
<1>2. /\ Len(u) = Len(s) + Len(t)
      /\ \A i \in 1 .. Len(s) : u[i] = s[i]
  BY <1>1
<1>3. \A i \in 1 .. Len(t) : u[Len(s) + i] = t[i]
  BY <1>1
<1> HIDE DEF S, s, t, u
<1>4. s \o t = u
  BY <1>1, <1>2, <1>3, Flat
<1> QED
  BY <1>4 DEF s, t, u

LEMMA OneAndFive ==
  ASSUME NEW x1, NEW x2, NEW x3, NEW x4, NEW x5, NEW x6
  PROVE  <<x1>> \o <<x2, x3, x4, x5, x6>> = <<x1, x2, x3, x4, x5, x6>>
<1> DEFINE S == {x1, x2, x3, x4, x5, x6}
           s == <<x1>>
           t == <<x2, x3, x4, x5, x6>>
           u == <<x1, x2, x3, x4, x5, x6>>
<1>1. s \in Seq(S) /\ t \in Seq(S) /\ u \in Seq(S) /\ Len(s) = 1 /\ Len(t) = 5 /\ Len(u) = 6
  OBVIOUS
<1>2. /\ Len(u) = Len(s) + Len(t)
      /\ \A i \in 1 .. Len(s) : u[i] = s[i]
  BY <1>1
<1>3. \A i \in 1 .. Len(t) : u[Len(s) + i] = t[i]
  BY <1>1
<1> HIDE DEF S, s, t, u
<1>4. s \o t = u
  BY <1>1, <1>2, <1>3, Flat
<1> QED
  BY <1>4 DEF s, t, u

LEMMA OneAndTwo ==
  ASSUME NEW x1, NEW x2, NEW x3
  PROVE  <<x1>> \o <<x2, x3>> = <<x1, x2, x3>>
<1> DEFINE S == {x1, x2, x3}
           s == <<x1>>
           t == <<x2, x3>>
           u == <<x1, x2, x3>>
<1>1. s \in Seq(S) /\ t \in Seq(S) /\ u \in Seq(S) /\ Len(s) = 1 /\ Len(t) = 2 /\ Len(u) = 3
  OBVIOUS
<1>2. /\ Len(u) = Len(s) + Len(t)
      /\ \A i \in 1 .. Len(s) : u[i] = s[i]
  BY <1>1
<1>3. \A i \in 1 .. Len(t) : u[Len(s) + i] = t[i]
  BY <1>1
<1> HIDE DEF S, s, t, u
<1>4. s \o t = u
  BY <1>1, <1>2, <1>3, Flat
<1> QED
  BY <1>4 DEF s, t, u

LEMMA FiveAndTwo ==
  ASSUME NEW x1, NEW x2, NEW x3, NEW x4, NEW x5, NEW x6, NEW x7
  PROVE  <<x1, x2, x3, x4, x5>> \o <<x6, x7>> = <<x1, x2, x3, x4, x5, x6, x7>>
<1> DEFINE S == {x1, x2, x3, x4, x5, x6, x7}
           s == <<x1, x2, x3, x4, x5>>
           t == <<x6, x7>>
           u == <<x1, x2, x3, x4, x5, x6, x7>>
<1>1. s \in Seq(S) /\ t \in Seq(S) /\ u \in Seq(S) /\ Len(s) = 5 /\ Len(t) = 2 /\ Len(u) = 7
  OBVIOUS
<1>2. /\ Len(u) = Len(s) + Len(t)
      /\ \A i \in 1 .. Len(s) : u[i] = s[i]
  BY <1>1
<1>3. \A i \in 1 .. Len(t) : u[Len(s) + i] = t[i]
  BY <1>1
<1> HIDE DEF S, s, t, u
<1>4. s \o t = u
  BY <1>1, <1>2, <1>3, Flat
<1> QED
  BY <1>4 DEF s, t, u

LEMMA SixAndTwo ==
  ASSUME NEW x1, NEW x2, NEW x3, NEW x4, NEW x5, NEW x6, NEW x7, NEW x8
  PROVE  <<x1, x2, x3, x4, x5, x6>> \o <<x7, x8>> = <<x1, x2, x3, x4, x5, x6, x7, x8>>
<1> DEFINE S == {x1, x2, x3, x4, x5, x6, x7, x8}
           s == <<x1, x2, x3, x4, x5, x6>>
           t == <<x7, x8>>
           u == <<x1, x2, x3, x4, x5, x6, x7, x8>>
<1>1. s \in Seq(S) /\ t \in Seq(S) /\ u \in Seq(S) /\ Len(s) = 6 /\ Len(t) = 2 /\ Len(u) = 8
  OBVIOUS
<1>2. /\ Len(u) = Len(s) + Len(t)
      /\ \A i \in 1 .. Len(s) : u[i] = s[i]
  BY <1>1
<1>3. \A i \in 1 .. Len(t) : u[Len(s) + i] = t[i]
  BY <1>1
<1> HIDE DEF S, s, t, u
<1>4. s \o t = u
  BY <1>1, <1>2, <1>3, Flat
<1> QED
  BY <1>4 DEF s, t, u

\* The rounds that only plan others.
Planning == {"decide", "find", "make", "guard", "send", "resend", "prior", "before", "call",
             "insist", "fallback", "sync", "wake", "probe", "recover", "revive"}

\* What a request that is alone finds at such a round.
LEMMA Resting ==
  ASSUME NEW r, NEW p, Known(r, p), stage[r] = "read", p[1].do \in Planning
  PROVE  /\ kind[r] \notin {"snapshot", "load", "open"} /\ draft[r] = None
         /\ p[1].do # "wake" => ~Lost(p, kind[r])
         /\ Alone /\ latest = r /\ p[1].do # "wake" =>
              /\ file = memory /\ memory = Pointers(Current(disk)) /\ memory.task = disk.current
              /\ task[r] \in {None, Current(disk)}
              /\ Commits(p[1], After(p), live) => memory.thread = p[1].arg
              /\ p[1].do \in {"prior", "sync"} => task[r] = Current(disk) /\ Normal(task[r])
              /\ kind[r] = "tool" => Tooling(p, Current(disk))
         /\ Alone /\ latest = r => Linked(p, live)
<1>1. /\ p \in Seq(Rounds(saves)) /\ p # <<>> /\ Chained(p) /\ Belongs(p[1], kind[r])
      /\ p[1] \in Rounds(saves) /\ Midway(p, "read", task[r], draft[r])
  BY DEF Known
<1>2. kind[r] \notin {"snapshot", "load", "open"} /\ draft[r] = None
  <2>1. p[1].do # "current" /\ p[1].do \notin Loading
    BY DEF Planning, Loading
  <2>2. draft[r] = None
    BY <1>1 DEF Midway, Planning
  <2> QED
    BY <1>1, <2>1, <2>2 DEF Belongs
<1>3. p[1].do # "wake" => ~Lost(p, kind[r])
  <2>1. After(p) # "wake"
    <3>1. /\ After(p) = IF Tail(p) = <<>> THEN "end" ELSE Tail(p)[1].do
          /\ Tail(p) # <<>> => Follows(p[1], Tail(p)[1])
      BY <1>1, Rest
    <3>2. Follows(p[1], Tail(p)[1]) => Tail(p)[1].do # "wake"
      BY DEF Follows, Planning
    <3> QED
      BY <3>1, <3>2
  <2> QED
    BY <2>1 DEF Lost, Planning
<1>4. ASSUME Alone, latest = r PROVE Linked(p, live)
  BY <1>4 DEF Known, Serving
<1>5. p[1].do \notin Mending
  BY DEF Planning, Mending
<1> QED
  BY <1>2, <1>3, <1>4, <1>5, AtRestNow

\* Such a round.
LEMMA Replans ==
  ASSUME IInv, NEW r \in Requests, AtWork(r), stage[r] = "read", plan[r][1].do \in Planning,
         NEW rest \in Seq(Rounds(saves)), Chained(rest), Proper(rest, kind[r]),
         Moved(r, rest, "read", IF rest = <<>> THEN None ELSE task[r], draft[r]),
         UNCHANGED <<projects, born>>, live' \subseteq made', made' \subseteq Threads,
         rest # <<>> => rest[1].do \notin {"bind", "copy", "prior", "sync"},
         Alone /\ latest = r =>
             /\ Linked(rest, live')
             /\ plan[r][1].do = "wake" => rest # <<>> /\ Lost(rest, kind[r])
             /\ plan[r][1].do # "wake" /\ rest # <<>> /\ Commits(rest[1], After(rest), live') =>
                    memory.thread = rest[1].arg
             /\ kind[r] = "tool" => Tooling(rest, Current(disk))
  PROVE  IInv'
<1> DEFINE p == plan[r]
           u == IF rest = <<>> THEN None ELSE task[r]
<1>1. TypeOK /\ FilesInv /\ PlansInv
  BY DEF IInv
<1>2. Known(r, p)
  BY Knows
<1>3. /\ disk' = disk /\ file' = file /\ memory' = memory /\ saves' = saves /\ born' = born
  BY DEF projects
<1>4. born <= born
  BY <1>1, Stored
<1>5. Sound
  BY <1>1, <1>3, <1>4 DEF Sound, TypeOK, FilesInv, Saves
<1>6. /\ kind[r] \notin {"snapshot", "load", "open"} /\ draft[r] = None
      /\ Alone /\ latest = r /\ p[1].do # "wake" =>
              /\ file = memory /\ memory = Pointers(Current(disk)) /\ memory.task = disk.current
              /\ task[r] \in {None, Current(disk)}
  BY <1>2, Resting
<1> HIDE DEF p
<1>7. u \in Maybe(Tasks) /\ (u # None => Pruned(u.threads) /\ u.id \in 1 .. born)
  BY <1>2 DEF Known, Maybe
<1>8. Holds(u, draft[r])
  BY <1>3, <1>6, <1>7 DEF Holds, Maybe
<1>9. Midway(rest, "read", u, draft[r])
  BY <1>6 DEF Midway
<1>10. ASSUME Alone, latest = r
       PROVE  Serving(kind[r], rest, "read", disk', file', memory', u, draft[r], live')
  <2>1. AtRest(rest, kind[r], disk, file, memory, u, live')
    <3>1. CASE p[1].do = "wake"
      BY <1>10, <3>1 DEF AtRest, p
    <3>2. CASE p[1].do # "wake"
      BY <1>6, <1>10, <3>2 DEF AtRest, p
    <3> QED
      BY <3>1, <3>2
  <2> QED
    BY <1>3, <1>10, <2>1 DEF Serving
<1>11. ASSUME Alone, latest = r
       PROVE  /\ One(disk.tasks) /\ (\A c \in saves : One(c.disk.tasks))
              /\ ~Reset => Ids(disk.tasks) = 1 .. born
  BY <1>2, <1>11 DEF Known
<1>12. Serves(r, rest, "read", u, draft[r])
  BY <1>3, <1>6, <1>10, <1>11 DEF Serves, Settling
<1> HIDE DEF u
<1>13. Moved(r, rest, "read", u, draft[r])
  BY DEF u
<1> QED
  BY <1>3, <1>5, <1>8, <1>9, <1>12, <1>13, Moves DEF Stages

\* Such a round that leaves the threads alone.
LEMMA GoesOn ==
  ASSUME IInv, NEW r \in Requests, AtWork(r), stage[r] = "read", plan[r][1].do \in Planning,
         NEW rest \in Seq(Rounds(saves)), Chained(rest), Proper(rest, kind[r]),
         Goes(r, rest), UNCHANGED threads,
         rest # <<>> => rest[1].do \notin {"bind", "copy", "prior", "sync"},
         Alone /\ latest = r =>
             /\ Linked(rest, live)
             /\ plan[r][1].do = "wake" => rest # <<>> /\ Lost(rest, kind[r])
             /\ plan[r][1].do # "wake" /\ rest # <<>> /\ Commits(rest[1], After(rest), live) =>
                    memory.thread = rest[1].arg
             /\ kind[r] = "tool" => Tooling(rest, Current(disk))
  PROVE  IInv'
<1>1. TypeOK /\ PlansInv
  BY DEF IInv
<1>2. Moved(r, rest, "read", IF rest = <<>> THEN None ELSE task[r], draft[r])
  <2>1. Continue(r, rest, task[r]) /\ draft' = draft /\ kind' = kind /\ mixed' = mixed /\ latest' = latest
    BY DEF Goes
  <2> QED
    BY <1>1, <2>1, Continues
<1>3. UNCHANGED <<projects, born>> /\ live' = live /\ made' = made
  BY DEF Goes, threads
<1>4. live' \subseteq made' /\ made' \subseteq Threads
  BY <1>1, <1>3 DEF TypeOK
<1> QED
  BY <1>2, <1>3, <1>4, Replans

LEMMA RoundIs ==
  ASSUME NEW sv
  PROVE  /\ \A t \in Threads : \A do \in OfThread : Round(do, t) \in Rounds(sv)
         /\ \A t \in Maybe(Threads) : \A do \in OfAny : Round(do, t) \in Rounds(sv)
         /\ \A do \in OfNothing : Round(do, None) \in Rounds(sv)
         /\ \A f \in Foci : \A do \in {"before", "call"} : Round(do, f) \in Rounds(sv)
         /\ \A a \in {"task", "startup", "guard", "resend"} : Round("make", a) \in Rounds(sv)
         /\ \A do, a : Round(do, a).do = do /\ Round(do, a).arg = a
BY DEF Rounds, Round

LEMMA DecideKeeps ==
  ASSUME IInv, NEW r \in Requests, Decide(r)
  PROVE  IInv'
<1> DEFINE p == plan[r]
           k == kind[r]
           src == Head(p).arg
           q1 == <<Round("current", None), Round("find", src)>>
           q2 == <<Round("ensure", None), Round("bind", src), Round("guard", src)>>
           q3 == <<Round("current", None), Round("miss", src), Round("current", None),
                   Round("current", None), Round("find", src)>>
<1>1. /\ AtWork(r) /\ stage[r] = "read" /\ Head(p).do = "decide" /\ UNCHANGED threads
      /\ \/ Goes(r, q1)
         \/ RouteOf[src] = route[r] /\ Goes(r, Rebind(src) \o <<Round("guard", src)>>)
         \/ Goes(r, Mark(src) \o q1)
  BY DEF Decide, Turn, Arg, Exists
<1>2. Rebind(src) \o <<Round("guard", src)>> = q2 /\ Mark(src) \o q1 = q3
  BY TwoAndOne, ThreeAndTwo DEF Rebind, Mark
<1>3. Known(r, p)
  BY <1>1, Knows
<1> HIDE DEF p
<1>4. /\ p[1].do = "decide" /\ p[1] \in Rounds(saves) /\ src = p[1].arg /\ k = "turn"
      /\ AtWork(r) /\ stage[r] = "read"
  BY <1>1, <1>3 DEF Known, Belongs
<1>5. src \in Threads
  BY <1>4 DEF Rounds, OfThread, OfAny, OfNothing
<1> HIDE DEF src
<1>6. /\ q1 \in Seq(Rounds(saves)) /\ q2 \in Seq(Rounds(saves)) /\ q3 \in Seq(Rounds(saves))
  <2>1. /\ Round("current", None) \in Rounds(saves) /\ Round("ensure", None) \in Rounds(saves)
        /\ \A do \in {"find", "bind", "guard", "miss"} : Round(do, src) \in Rounds(saves)
    BY <1>5, RoundIs DEF OfThread, OfAny, OfNothing, Maybe
  <2> QED
    BY <2>1
<1>7. Chained(q1) /\ Chained(q2) /\ Chained(q3)
  BY RoundIs DEF Chained, Follows
<1>8. Proper(q1, k) /\ Proper(q2, k) /\ Proper(q3, k)
  BY <1>4, RoundIs, TaskAssumption DEF Proper, Belongs, Kinds
<1>9. Linked(q1, live) /\ Linked(q2, live) /\ Linked(q3, live)
  BY RoundIs DEF Linked, Commits
<1>10. \A q \in {q1, q2, q3} :
          /\ q[1].do \in {"current", "ensure"} /\ ~Commits(q[1], After(q), live)
  BY RoundIs DEF Commits
<1> HIDE DEF q1, q2, q3
<1>11. PICK q \in {q1, q2, q3} : Goes(r, q)
  BY <1>1, <1>2
<1>12. /\ q \in Seq(Rounds(saves)) /\ Chained(q) /\ Proper(q, k) /\ Linked(q, live)
       /\ q[1].do \notin {"bind", "copy", "prior", "sync"} /\ ~Commits(q[1], After(q), live)
  BY <1>6, <1>7, <1>8, <1>9, <1>10
<1> QED
  BY <1>1, <1>4, <1>11, <1>12, GoesOn DEF p, Planning

LEMMA FindKeeps ==
  ASSUME IInv, NEW r \in Requests, Find(r)
  PROVE  IInv'
<1> DEFINE p == plan[r]
           k == kind[r]
           entry == Reusable(task[r], route[r])
           th == entry.thread
           make == Round("make", "guard")
           q1 == <<make>>
           q2 == <<Round("ensure", None), Round("bind", th), Round("put", th), Round("pointer", th),
                   Round("guard", th)>>
           q3 == <<Round("current", None), Round("miss", th), Round("current", None), make>>
<1>1. /\ AtWork(r) /\ stage[r] = "read" /\ Head(p).do = "find" /\ UNCHANGED threads
      /\ \/ Goes(r, q1)
         \/ entry # None /\ Goes(r, Handoff(th) \o <<Round("guard", th)>>)
         \/ entry # None /\ Goes(r, Mark(th) \o q1)
  BY DEF Find, Turn, Arg, Exists
<1>2. Handoff(th) \o <<Round("guard", th)>> = q2 /\ Mark(th) \o q1 = q3
  <2>1. Handoff(th) = <<Round("ensure", None), Round("bind", th), Round("put", th),
                        Round("pointer", th)>>
    BY TwoAndTwo DEF Handoff, Rebind
  <2>2. Handoff(th) \o <<Round("guard", th)>> = q2
    BY <2>1, FourAndOne
  <2>3. Mark(th) \o q1 = q3
    BY ThreeAndOne DEF Mark
  <2> QED
    BY <2>2, <2>3
<1>3. Known(r, p)
  BY <1>1, Knows
<1> HIDE DEF p
<1>4. /\ p[1].do = "find" /\ k = "turn" /\ AtWork(r) /\ stage[r] = "read"
  BY <1>1, <1>3 DEF Known, Belongs
<1>5. entry # None => th \in Threads
  <2> SUFFICES ASSUME entry # None PROVE th \in Threads
    OBVIOUS
  <2> DEFINE s == task[r].threads
             at == {i \in DOMAIN s : ~s[i].missing /\ RouteOf[s[i].thread] = route[r]}
  <2>1. task[r] # None /\ entry = FirstOf(s, at)
    BY DEF Reusable
  <2>2. task[r] \in Tasks
    BY <2>1, <1>3 DEF Known, Maybe
  <2>3. s \in Seq(Entries) /\ at \subseteq DOMAIN s
    BY <2>2 DEF Tasks
  <2>0. None \notin Entries
    BY TaskAssumption
  <2> HIDE DEF s, at
  <2>4. entry \in Entries
    BY <2>0, <2>1, <2>3, FirstIs
  <2> QED
    BY <2>4 DEF Entries
<1> HIDE DEF entry, th
<1>6. /\ make \in Rounds(saves)
      /\ th \in Threads => q2 \in Seq(Rounds(saves)) /\ q3 \in Seq(Rounds(saves))
  <2>1. /\ Round("current", None) \in Rounds(saves) /\ Round("ensure", None) \in Rounds(saves)
        /\ make \in Rounds(saves)
        /\ th \in Threads =>
             \A do \in {"bind", "put", "pointer", "guard", "miss"} : Round(do, th) \in Rounds(saves)
    BY RoundIs DEF OfThread, OfAny, OfNothing, Maybe
  <2> HIDE DEF make
  <2> QED
    BY <2>1
<1>7. q1 \in Seq(Rounds(saves))
  <2> HIDE DEF make
  <2> QED
    BY <1>6
<1>8. Chained(q1) /\ Chained(q2) /\ Chained(q3)
  BY RoundIs DEF Chained, Follows
<1>9. Proper(q1, k) /\ Proper(q2, k) /\ Proper(q3, k)
  BY <1>4, RoundIs, TaskAssumption DEF Proper, Belongs, Kinds
<1>10. Linked(q1, live) /\ Linked(q2, live) /\ Linked(q3, live)
  BY RoundIs DEF Linked, Commits
<1>11. \A q \in {q1, q2, q3} :
          /\ q[1].do \in {"current", "ensure", "make"} /\ ~Commits(q[1], After(q), live)
  BY RoundIs DEF Commits
<1> HIDE DEF q1, q2, q3
<1>12. PICK q \in {q1, q2, q3} : Goes(r, q) /\ q \in Seq(Rounds(saves))
  BY <1>1, <1>2, <1>5, <1>6, <1>7
<1>13. /\ Chained(q) /\ Proper(q, k) /\ Linked(q, live)
       /\ q[1].do \notin {"bind", "copy", "prior", "sync"} /\ ~Commits(q[1], After(q), live)
  BY <1>8, <1>9, <1>10, <1>11
<1> QED
  BY <1>1, <1>4, <1>12, <1>13, GoesOn DEF p, Planning

LEMMA FailKeeps ==
  ASSUME IInv, NEW r \in Requests, Fail(r)
  PROVE  IInv'
<1> DEFINE p == plan[r]
<1>1. /\ AtWork(r) /\ stage[r] = "read" /\ UNCHANGED threads /\ Goes(r, <<>>)
      /\ Head(p).do \in {"make", "guard", "send", "resend", "prior", "call", "revive"}
  BY DEF Fail, Turn
<1>2. Head(p) = p[1]
  BY <1>1, Knows DEF Known
<1> HIDE DEF p
<1>3. <<>> \in Seq(Rounds(saves)) /\ Chained(<<>>) /\ Proper(<<>>, kind[r]) /\ Linked(<<>>, live)
      /\ \A c : Tooling(<<>>, c)
  BY DEF Chained, Proper, Linked, Tooling
<1> QED
  BY <1>1, <1>2, <1>3, GoesOn DEF p, Planning

LEMMA SendTurnKeeps ==
  ASSUME IInv, NEW r \in Requests, SendTurn(r)
  PROVE  IInv'
<1> DEFINE p == plan[r]
           k == kind[r]
           th == Head(p).arg
           send == Round("send", th)
           make == Round("make", "resend")
           q1 == <<send>>
           q2 == <<Round("current", None), Round("miss", th), Round("current", None), send>>
           q3 == <<Round("current", None), Round("miss", th), Round("current", None), make>>
           q4 == Started(th)
           q5 == Pending(th)
<1>1. /\ AtWork(r) /\ stage[r] = "read" /\ Head(p).do \in {"guard", "send", "resend"}
      /\ UNCHANGED threads
      /\ \/ th \in live /\ Goes(r, q1)
         \/ th \notin live /\ Goes(r, Mark(th) \o <<send>>)
         \/ Goes(r, Mark(th) \o <<make>>)
         \/ th \in live /\ (Goes(r, q4) \/ Goes(r, q5))
  BY DEF SendTurn, Turn, Arg, Exists
<1>2. Mark(th) \o <<send>> = q2 /\ Mark(th) \o <<make>> = q3
  BY ThreeAndOne DEF Mark
<1>3. Known(r, p)
  BY <1>1, Knows
<1> HIDE DEF p
<1>4. /\ p[1].do \in {"guard", "send", "resend"} /\ p[1] \in Rounds(saves) /\ th = p[1].arg
      /\ k = "turn" /\ AtWork(r) /\ stage[r] = "read"
  BY <1>1, <1>3 DEF Known, Belongs
<1>5. th \in Threads
  BY <1>4 DEF Rounds, OfThread, OfAny, OfNothing
<1>6. Alone /\ latest = r /\ th \in live => memory.thread = th
  <2>1. th \in live => Commits(p[1], After(p), live)
    BY <1>4 DEF Commits
  <2>2. p[1].do \in Planning /\ p[1].do # "wake"
    BY <1>4 DEF Planning
  <2> QED
    BY <1>3, <1>4, <2>1, <2>2, Resting
<1> HIDE DEF th
<1>7. /\ q1 \in Seq(Rounds(saves)) /\ q2 \in Seq(Rounds(saves)) /\ q3 \in Seq(Rounds(saves))
      /\ q4 \in Seq(Rounds(saves)) /\ q5 \in Seq(Rounds(saves))
  <2>1. /\ Round("current", None) \in Rounds(saves) /\ Round("defaults", None) \in Rounds(saves)
        /\ make \in Rounds(saves)
        /\ \A do \in {"send", "miss", "pointer", "force"} : Round(do, th) \in Rounds(saves)
    BY <1>5, RoundIs DEF OfThread, OfAny, OfNothing
  <2> HIDE DEF make
  <2> QED
    BY <2>1 DEF Started, Pending
<1>8. Chained(q1) /\ Chained(q2) /\ Chained(q3) /\ Chained(q4) /\ Chained(q5)
  BY RoundIs DEF Chained, Follows, Started, Pending
<1>9. Proper(q1, k) /\ Proper(q2, k) /\ Proper(q3, k) /\ Proper(q4, k) /\ Proper(q5, k)
  BY <1>4, RoundIs, TaskAssumption DEF Proper, Belongs, Kinds, Started, Pending
<1>10. /\ Linked(q1, live) /\ (th \notin live => Linked(q2, live)) /\ Linked(q3, live)
       /\ Linked(q4, live) /\ Linked(q5, live)
  BY RoundIs DEF Linked, Commits, Started, Pending
<1>11. /\ \A q \in {q1, q2, q3, q4, q5} : q[1].do \in {"current", "send", "pointer"}
       /\ q1[1].arg = th /\ q4[1].arg = th /\ q5[1].arg = th
       /\ \A q \in {q2, q3} : ~Commits(q[1], After(q), live)
  BY RoundIs DEF Commits, Started, Pending
<1> HIDE DEF q1, q2, q3, q4, q5
<1> DEFINE Fits(q) == /\ q \in Seq(Rounds(saves)) /\ Chained(q) /\ Proper(q, k) /\ Linked(q, live)
                      /\ q[1].do \notin {"bind", "copy", "prior", "sync"}
                      /\ Commits(q[1], After(q), live) => th \in live /\ q[1].arg = th
<1>12. /\ th \in live => Fits(q1) /\ Fits(q4) /\ Fits(q5)
       /\ th \notin live => Fits(q2)
       /\ Fits(q3)
  BY <1>7, <1>8, <1>9, <1>10, <1>11
<1> HIDE DEF Fits
<1>13. PICK q : Goes(r, q) /\ Fits(q)
  BY <1>1, <1>2, <1>12
<1>14. /\ q \in Seq(Rounds(saves)) /\ Chained(q) /\ Proper(q, k) /\ Linked(q, live)
       /\ q[1].do \notin {"bind", "copy", "prior", "sync"}
       /\ Commits(q[1], After(q), live) => th \in live /\ q[1].arg = th
  BY <1>13 DEF Fits
<1> QED
  BY <1>1, <1>4, <1>6, <1>13, <1>14, GoesOn DEF p, Planning

LEMMA MakeThreadKeeps ==
  ASSUME IInv, NEW r \in Requests, MakeThread(r)
  PROVE  IInv'
<1> DEFINE p == plan[r]
           k == kind[r]
           x == Head(p).arg
<1>1. /\ AtWork(r) /\ stage[r] = "read" /\ Head(p).do = "make"
  BY DEF MakeThread, Turn
<1>2. PICK th \in Threads : /\ made' = made \cup {th} /\ live' = live \cup {th}
                            /\ Goes(r, CASE x = "task" -> Created(th)
                                         [] x = "startup" -> Handoff(th)
                                         [] OTHER -> Handoff(th) \o <<Round(x, th)>>)
  BY DEF MakeThread, Arg
<1> DEFINE q1 == Created(th)
           q2 == <<Round("ensure", None), Round("bind", th), Round("put", th), Round("pointer", th)>>
           q3 == <<Round("ensure", None), Round("bind", th), Round("put", th), Round("pointer", th),
                   Round(x, th)>>
<1>3. Handoff(th) = q2 /\ Handoff(th) \o <<Round(x, th)>> = q3
  <2>1. Handoff(th) = q2
    BY TwoAndTwo DEF Handoff, Rebind
  <2>2. Handoff(th) \o <<Round(x, th)>> = q3
    BY <2>1, FourAndOne
  <2> QED
    BY <2>1, <2>2
<1>4. Known(r, p)
  BY <1>1, Knows
<1> HIDE DEF p
<1>5. /\ p[1].do = "make" /\ p[1] \in Rounds(saves) /\ x = p[1].arg /\ Belongs(p[1], k)
      /\ AtWork(r) /\ stage[r] = "read"
  BY <1>1, <1>4 DEF Known
<1>6. x \in {"task", "startup", "guard", "resend"}
  BY <1>5 DEF Rounds, OfThread, OfAny, OfNothing
<1>7. /\ x = "task" => k = "thread"
      /\ x = "startup" => k = "restart"
      /\ x \in {"guard", "resend"} => k = "turn"
      /\ k # None
  BY <1>5 DEF Belongs
<1> HIDE DEF x
<1> DEFINE q == CASE x = "task" -> q1
                  [] x = "startup" -> q2
                  [] OTHER -> q3
<1>8. Goes(r, q) /\ (x = "task" => q = q1) /\ (x = "startup" => q = q2)
      /\ (x \in {"guard", "resend"} => q = q3)
  BY <1>2, <1>3, <1>6
<1>9. /\ q1 \in Seq(Rounds(saves)) /\ q2 \in Seq(Rounds(saves))
      /\ x \in {"guard", "resend"} => q3 \in Seq(Rounds(saves))
  <2>1. /\ Round("ensure", None) \in Rounds(saves) /\ Round("defaults", None) \in Rounds(saves)
        /\ Round("create", th) \in Rounds(saves)
        /\ \A do \in {"bind", "put", "pointer", "guard", "resend"} : Round(do, th) \in Rounds(saves)
    BY RoundIs DEF OfThread, OfAny, OfNothing, Maybe
  <2> QED
    BY <2>1 DEF Created
<1>10. Chained(q1) /\ Chained(q2) /\ (x \in {"guard", "resend"} => Chained(q3))
  BY RoundIs DEF Chained, Follows, Created
<1>11. /\ x = "task" => Proper(q1, k)
       /\ x = "startup" => Proper(q2, k)
       /\ x \in {"guard", "resend"} => Proper(q3, k)
  BY <1>7, RoundIs DEF Proper, Belongs, Created
<1>12. Linked(q1, live') /\ Linked(q2, live') /\ (x \in {"guard", "resend"} => Linked(q3, live'))
  BY RoundIs DEF Linked, Commits, Created, Mending
<1>13. \A w \in {q1, q2, q3} : w[1].do \in {"pointer", "ensure"} /\ ~Commits(w[1], After(w), live')
  <2>1. q1[1].do = "pointer" /\ After(q1) = "create"
    BY RoundIs DEF Created, After
  <2>2. \A w \in {q2, q3} : w[1].do = "ensure"
    BY RoundIs
  <2> HIDE DEF q1, q2, q3
  <2>4. \A w \in {q1, q2, q3} : w[1].do \in {"pointer", "ensure"} /\ ~Commits(w[1], After(w), live')
    BY <2>1, <2>2 DEF Commits, Mending
  <2> QED
    BY <2>4
<1>14. k # "tool" /\ p[1].do \in Planning
  BY <1>5, <1>6, <1>7 DEF Planning
<1> HIDE DEF q1, q2, q3
<1>15. /\ q \in Seq(Rounds(saves)) /\ Chained(q) /\ Proper(q, k) /\ Linked(q, live')
       /\ q[1].do \notin {"bind", "copy", "prior", "sync"} /\ ~Commits(q[1], After(q), live')
  <2>1. q \in {q1, q2, q3}
    OBVIOUS
  <2> QED
    BY <1>6, <1>8, <1>9, <1>10, <1>11, <1>12, <1>13, <2>1
<1> HIDE DEF q
<1>16. TypeOK /\ PlansInv
  BY DEF IInv
<1>17. Moved(r, q, "read", IF q = <<>> THEN None ELSE task[r], draft[r])
  <2>1. Continue(r, q, task[r]) /\ draft' = draft /\ kind' = kind /\ mixed' = mixed /\ latest' = latest
    BY <1>8 DEF Goes
  <2> QED
    BY <1>16, <2>1, Continues
<1>18. UNCHANGED <<projects, born>> /\ live' \subseteq made' /\ made' \subseteq Threads
  BY <1>2, <1>8, <1>16 DEF Goes, TypeOK
<1> QED
  BY <1>5, <1>14, <1>15, <1>17, <1>18, Replans DEF p

-----------------------------------------------------------------------------
(* The rounds of a call of a tool, and of a start.                         *)

\* A normal task without an active thread has none.
LEMMA NothingShown ==
  ASSUME NEW c, Normal(c), c.active = None, c.threads \in Seq(Entries)
  PROVE  c.threads = <<>>
<1> SUFFICES ASSUME c.threads # <<>> PROVE FALSE
  OBVIOUS
<1>1. PICK e \in Held(c.threads) : e.thread = None
  BY DEF Normal, Shows
<1>2. e \in Entries
  BY <1>1, HeldOf
<1> QED
  BY <1>1, <1>2, TaskAssumption DEF Entries

LEMMA RememberFocusKeeps ==
  ASSUME IInv, NEW r \in Requests, RememberFocus(r)
  PROVE  IInv'
<1> DEFINE p == plan[r]
           k == kind[r]
           x == Head(p).arg
           source == Either(Either(x.source, memory.thread), Shown(task[r]))
           focus == [prior |-> Shown(task[r]), source |-> source,
                     thread |-> Either(Shown(task[r]), source),
                     pointer |-> Either(x.pointer, source)]
           q1 == <<Round("before", focus)>>
           q2 == <<Round("current", None), Round("before", focus)>>
<1>1. /\ AtWork(r) /\ stage[r] = "read" /\ Head(p).do = "prior" /\ UNCHANGED threads
      /\ \/ Goes(r, <<>> \o q1)
         \/ Goes(r, <<Round("current", None)>> \o q1)
  BY DEF RememberFocus, Turn, Arg
<1>2. <<Round("current", None)>> \o q1 = q2
  BY OneAndOne
<1>3. Known(r, p) /\ TypeOK
  BY <1>1, Knows DEF IInv
<1> HIDE DEF p
<1>4. /\ p[1].do = "prior" /\ p[1] \in Rounds(saves) /\ x = p[1].arg /\ k = "tool"
      /\ AtWork(r) /\ stage[r] = "read"
  BY <1>1, <1>3 DEF Known, Belongs
<1>5. x.source \in Threads /\ x.pointer \in Maybe(Threads)
  BY <1>4 DEF Rounds, OfThread, OfAny, OfNothing
<1> HIDE DEF x
<1>6. Shown(task[r]) \in Maybe(Threads) /\ memory.thread \in Maybe(Threads)
  <2>1. task[r] \in Maybe(Tasks) /\ memory \in Pointed
    BY <1>3 DEF Known, TypeOK
  <2> QED
    BY <2>1 DEF Shown, Maybe, Tasks, Pointed
<1>7. focus \in Foci
  BY <1>5, <1>6 DEF Foci, Either, Maybe
<1>8. ASSUME Alone, latest = r
      PROVE  Fixed(focus.prior, Current(disk)) /\ (focus.prior # None => focus.thread = focus.prior)
  <2>1. task[r] = Current(disk) /\ Normal(task[r])
    BY <1>3, <1>4, <1>8, Resting DEF Planning
  <2>2. Current(disk) # None /\ Current(disk) \in Tasks
    BY <1>3, Stored DEF IInv
  <2>3. focus.prior = Current(disk).active
    BY <2>1, <2>2 DEF Shown
  <2>4. Current(disk).active = None => Current(disk).threads = <<>>
    <3>1. Current(disk).threads \in Seq(Entries)
      BY <2>2 DEF Tasks
    <3> QED
      BY <2>1, <3>1, NothingShown
  <2> QED
    BY <2>1, <2>3, <2>4 DEF Fixed, Either
<1> HIDE DEF focus
<1>9. q1 \in Seq(Rounds(saves)) /\ q2 \in Seq(Rounds(saves))
  <2>1. Round("current", None) \in Rounds(saves) /\ Round("before", focus) \in Rounds(saves)
    BY <1>7, RoundIs DEF OfThread, OfAny, OfNothing
  <2> QED
    BY <2>1
<1>10. <<>> \o q1 = q1
  <2> HIDE DEF q1
  <2> QED
    BY <1>9, ConcatEmptySeq
<1>11. Chained(q1) /\ Chained(q2)
  BY RoundIs DEF Chained, Follows
<1>12. Proper(q1, k) /\ Proper(q2, k)
  BY <1>4, RoundIs, TaskAssumption DEF Proper, Belongs, Kinds
<1>13. Linked(q1, live) /\ Linked(q2, live)
  BY RoundIs DEF Linked, Commits
<1>14. \A q \in {q1, q2} : q[1].do \in {"current", "before"} /\ ~Commits(q[1], After(q), live)
  BY RoundIs DEF Commits
<1>15. Alone /\ latest = r => Tooling(q1, Current(disk)) /\ Tooling(q2, Current(disk))
  BY <1>8, RoundIs DEF Tooling
<1> HIDE DEF q1, q2
<1>16. PICK q \in {q1, q2} : Goes(r, q)
  BY <1>1, <1>2, <1>10
<1>17. /\ q \in Seq(Rounds(saves)) /\ Chained(q) /\ Proper(q, k) /\ Linked(q, live)
       /\ q[1].do \notin {"bind", "copy", "prior", "sync"} /\ ~Commits(q[1], After(q), live)
       /\ Alone /\ latest = r => Tooling(q, Current(disk))
  BY <1>9, <1>11, <1>12, <1>13, <1>14, <1>15
<1> QED
  BY <1>1, <1>4, <1>16, <1>17, GoesOn DEF p, Planning

LEMMA UpdateFocusKeeps ==
  ASSUME IInv, NEW r \in Requests, UpdateFocus(r)
  PROVE  IInv'
<1> DEFINE p == plan[r]
           k == kind[r]
           f == Head(p).arg
           t == Shown(task[r])
           g == [f EXCEPT !.thread = Either(t, @), !.pointer = Either(memory.thread, Either(t, @))]
<1>1. /\ AtWork(r) /\ stage[r] = "read" /\ Head(p).do = "before" /\ UNCHANGED threads
      /\ \/ Goes(r, <<Round("call", f)>>)
         \/ Goes(r, <<Round("call", g)>>)
  BY DEF UpdateFocus, Turn, Arg
<1>2. Known(r, p) /\ TypeOK
  BY <1>1, Knows DEF IInv
<1> HIDE DEF p
<1>3. /\ p[1].do = "before" /\ p[1] \in Rounds(saves) /\ f = p[1].arg /\ k = "tool"
      /\ AtWork(r) /\ stage[r] = "read" /\ p \in Seq(Rounds(saves)) /\ p # <<>>
  BY <1>1, <1>2 DEF Known, Belongs
<1>4. f \in Foci
  BY <1>3 DEF Rounds, OfThread, OfAny, OfNothing
<1>5. t \in Maybe(Threads) /\ memory.thread \in Maybe(Threads)
  <2>1. task[r] \in Maybe(Tasks) /\ memory \in Pointed
    BY <1>2 DEF Known, TypeOK
  <2> QED
    BY <2>1 DEF Shown, Maybe, Tasks, Pointed
<1>6. ASSUME Alone, latest = r
      PROVE  /\ Fixed(f.prior, Current(disk))
             /\ f.prior # None => f.thread = f.prior /\ t \in {None, f.prior}
  <2>1. Tooling(p, Current(disk)) /\ task[r] \in {None, Current(disk)}
    BY <1>2, <1>3, <1>6, Resting DEF Planning
  <2>2. 1 \in DOMAIN p
    BY <1>3, TailOf
  <2>3. Fixed(f.prior, Current(disk)) /\ (f.prior # None => f.thread = f.prior)
    BY <1>3, <2>1, <2>2 DEF Tooling
  <2> QED
    BY <2>1, <2>3 DEF Fixed, Shown
<1> HIDE DEF f, t
<1>7. g \in Foci /\ g.prior = f.prior /\ g.thread = Either(t, f.thread)
  BY <1>4, <1>5 DEF Foci, Either, Maybe
<1>8. Alone /\ latest = r => (f.prior # None => g.thread = g.prior)
  BY <1>6, <1>7 DEF Either
<1> HIDE DEF g
<1>9. PICK h \in {f, g} : Goes(r, <<Round("call", h)>>)
  BY <1>1
<1> DEFINE q == <<Round("call", h)>>
<1>10. /\ h \in Foci
       /\ Alone /\ latest = r => Fixed(h.prior, Current(disk)) /\ (h.prior # None => h.thread = h.prior)
  BY <1>4, <1>6, <1>7, <1>8
<1>11. q \in Seq(Rounds(saves))
  <2>1. Round("call", h) \in Rounds(saves)
    BY <1>10, RoundIs
  <2> QED
    BY <2>1
<1>12. Chained(q) /\ Proper(q, k) /\ Linked(q, live) /\ q[1].do = "call" /\ ~Commits(q[1], After(q), live)
  BY <1>3, RoundIs, TaskAssumption DEF Chained, Follows, Proper, Belongs, Kinds, Linked, Commits
<1>13. Alone /\ latest = r => Tooling(q, Current(disk))
  BY <1>10, RoundIs DEF Tooling
<1>14. Goes(r, q)
  BY <1>9
<1> HIDE DEF q
<1> QED
  BY <1>1, <1>3, <1>11, <1>12, <1>13, <1>14, GoesOn DEF p, Planning

LEMMA RestoreFocusKeeps ==
  ASSUME IInv, NEW r \in Requests, RestoreFocus(r)
  PROVE  IInv'
<1> DEFINE p == plan[r]
           k == kind[r]
           f == Head(p).arg
           look == Round("current", None)
           point == Round("pointer", f.pointer)
           put == Round("put", f.thread)
           insist == Round("insist", f.thread)
           fallback == Round("fallback", f.thread)
           sync == Round("sync", f.prior)
           show == <<look, put, look, insist, fallback>>
           last == <<look, sync>>
           q1 == last
           q2 == <<look, put, look, insist, fallback, look, sync>>
           q3 == <<point, look, sync>>
           q4 == <<point, look, put, look, insist, fallback, look, sync>>
<1>1. /\ AtWork(r) /\ stage[r] = "read" /\ Head(p).do = "call" /\ UNCHANGED threads
      /\ Goes(r, (IF f.pointer = None THEN <<>> ELSE <<point>>)
                   \o (IF f.thread = None THEN <<>> ELSE show) \o last)
  BY DEF RestoreFocus, Turn, Arg
<1>2. Known(r, p)
  BY <1>1, Knows
<1> HIDE DEF p
<1>3. /\ p[1].do = "call" /\ p[1] \in Rounds(saves) /\ f = p[1].arg /\ k = "tool"
      /\ AtWork(r) /\ stage[r] = "read" /\ p \in Seq(Rounds(saves)) /\ p # <<>>
  BY <1>1, <1>2 DEF Known, Belongs
<1>4. f \in Foci
  BY <1>3 DEF Rounds, OfThread, OfAny, OfNothing
<1>5. ASSUME Alone, latest = r
      PROVE  Fixed(f.prior, Current(disk)) /\ (f.prior # None => f.thread = f.prior)
  <2>1. Tooling(p, Current(disk))
    BY <1>2, <1>3, <1>5, Resting DEF Planning
  <2>2. 1 \in DOMAIN p
    BY <1>3, TailOf
  <2> QED
    BY <1>3, <2>1, <2>2 DEF Tooling
<1> HIDE DEF f
<1>6. /\ look \in Rounds(saves) /\ sync \in Rounds(saves)
      /\ f.pointer # None => point \in Rounds(saves)
      /\ f.thread # None => put \in Rounds(saves) /\ insist \in Rounds(saves) /\ fallback \in Rounds(saves)
  BY <1>4, RoundIs DEF Foci, OfThread, OfAny, OfNothing, Maybe
<1>7. /\ look.do = "current" /\ sync.do = "sync" /\ sync.arg = f.prior /\ point.do = "pointer"
      /\ put.do = "put" /\ put.arg = f.thread /\ insist.do = "insist" /\ insist.arg = f.thread
      /\ fallback.do = "fallback"
  BY RoundIs
<1> HIDE DEF look, point, put, insist, fallback, sync
<1>8. /\ q1 \in Seq(Rounds(saves))
      /\ f.thread # None => q2 \in Seq(Rounds(saves))
      /\ f.pointer # None => q3 \in Seq(Rounds(saves))
      /\ f.thread # None /\ f.pointer # None => q4 \in Seq(Rounds(saves))
  BY <1>6
<1>9. Chained(q1) /\ Chained(q2) /\ Chained(q3) /\ Chained(q4)
  BY <1>7 DEF Chained, Follows
<1>10. Proper(q1, k) /\ Proper(q2, k) /\ Proper(q3, k) /\ Proper(q4, k)
  BY <1>3, <1>7, TaskAssumption DEF Proper, Belongs, Kinds
<1>11. Linked(q1, live) /\ Linked(q2, live) /\ Linked(q3, live) /\ Linked(q4, live)
  BY <1>7 DEF Linked, Commits, Mending
<1>12. \A q \in {q1, q2, q3, q4} :
          q[1].do \in {"current", "pointer"} /\ ~Commits(q[1], After(q), live)
  <2>1. /\ q1[1].do = "current" /\ q2[1].do = "current" /\ q3[1].do = "pointer" /\ q4[1].do = "pointer"
        /\ After(q3) = "current" /\ After(q4) = "current"
    BY <1>7 DEF After
  <2> HIDE DEF q1, q2, q3, q4
  <2> QED
    BY <2>1 DEF Commits, Mending
<1>13. Alone /\ latest = r =>
          \A q \in {q1, q2, q3, q4} : Tooling(q, Current(disk))
  BY <1>5, <1>7 DEF Tooling
<1>14. /\ <<point>> \o show = <<point, look, put, look, insist, fallback>>
       /\ <<point>> \o last = q3 /\ show \o last = q2
       /\ <<point, look, put, look, insist, fallback>> \o last = q4
  BY OneAndFive, OneAndTwo, FiveAndTwo, SixAndTwo
<1>15. /\ last \in Seq(Rounds(saves))
       /\ f.pointer # None => <<point>> \in Seq(Rounds(saves))
       /\ f.thread # None => show \in Seq(Rounds(saves))
  BY <1>6
<1>16. \E q \in {q1, q2, q3, q4} : Goes(r, q) /\ q \in Seq(Rounds(saves))
  <2>0. q1 = last
    OBVIOUS
  <2>e. <<>> \in Seq(Rounds(saves))
    OBVIOUS
  <2> DEFINE one == <<point>>
             six == <<point, look, put, look, insist, fallback>>
  <2>f. one \o show = six /\ one \o last = q3 /\ show \o last = q2 /\ six \o last = q4
    BY <1>14
  <2>g. f.pointer # None => one \in Seq(Rounds(saves))
    BY <1>15
  <2>h. Goes(r, (IF f.pointer = None THEN <<>> ELSE one)
                   \o (IF f.thread = None THEN <<>> ELSE show) \o last)
    BY <1>1
  <2> HIDE DEF one, six, show, last, q1, q2, q3, q4
  <2>i. <<>> \o last = last /\ <<>> \o <<>> = <<>>
        /\ (f.pointer # None => one \o <<>> = one)
        /\ (f.thread # None => <<>> \o show = show)
    BY <1>15, <2>e, <2>g, ConcatEmptySeq
  <2>1. CASE f.pointer = None /\ f.thread = None
    <3>1. Goes(r, <<>> \o <<>> \o last)
      BY <2>1, <2>h
    <3> QED
      BY <1>8, <2>0, <2>i, <3>1
  <2>2. CASE f.pointer = None /\ f.thread # None
    <3>1. Goes(r, <<>> \o show \o last)
      BY <2>2, <2>h
    <3> QED
      BY <1>8, <2>2, <2>f, <2>i, <3>1
  <2>3. CASE f.pointer # None /\ f.thread = None
    <3>1. Goes(r, one \o <<>> \o last)
      BY <2>3, <2>h
    <3> QED
      BY <1>8, <2>3, <2>f, <2>i, <3>1
  <2>4. CASE f.pointer # None /\ f.thread # None
    <3>1. Goes(r, one \o show \o last)
      BY <2>4, <2>h
    <3> QED
      BY <1>8, <2>4, <2>f, <3>1
  <2> QED
    BY <2>1, <2>2, <2>3, <2>4
<1> HIDE DEF q1, q2, q3, q4
<1>17. PICK q \in {q1, q2, q3, q4} : Goes(r, q) /\ q \in Seq(Rounds(saves))
  BY <1>16
<1>18. /\ Chained(q) /\ Proper(q, k) /\ Linked(q, live)
       /\ q[1].do \notin {"bind", "copy", "prior", "sync"} /\ ~Commits(q[1], After(q), live)
       /\ Alone /\ latest = r => Tooling(q, Current(disk))
  BY <1>9, <1>10, <1>11, <1>12, <1>13
<1> QED
  BY <1>1, <1>3, <1>17, <1>18, GoesOn DEF p, Planning

\* Rounds put in before those that are left.
LEMMA Inserted ==
  ASSUME NEW S, NEW h \in Seq(S), NEW s \in Seq(S), h # <<>>, Chained(h), Chained(s),
         s # <<>> => Follows(h[Len(h)], s[1])
  PROVE  /\ h \o s \in Seq(S) /\ Chained(h \o s) /\ h \o s # <<>> /\ (h \o s)[1] = h[1]
         /\ \A k : Proper(h, k) /\ Proper(s, k) => Proper(h \o s, k)
         /\ \A lv : Linked(s, lv) /\ (\A i \in 2 .. Len(h) : \A y : ~Commits(h[i], y, lv))
                     /\ (s # <<>> => ~Commits(s[1], After(s), lv))
                  => Linked(h \o s, lv)
         /\ \A c : Tooling(s, c)
                    /\ (\A j \in DOMAIN s : s[j].do \notin {"before", "call"})
                    /\ (\A i \in DOMAIN h :
                          /\ h[i].do \notin {"before", "call", "sync"}
                          /\ h[i].do \in {"put", "force", "insist"} =>
                                \A j \in DOMAIN s : s[j].do = "sync" /\ s[j].arg # None =>
                                    h[i].arg = s[j].arg)
                 => Tooling(h \o s, c)
         /\ After(h \o s) = IF Len(h) > 1 THEN h[2].do
                             ELSE IF s # <<>> THEN s[1].do ELSE "end"
<1> DEFINE q == h \o s
           m == Len(h)
           n == Len(s)
<1>1. q \in Seq(S) /\ JoinOf(q, h, s)
  BY Joined
<1>2. /\ m \in Nat /\ n \in Nat /\ DOMAIN h = 1 .. m /\ DOMAIN s = 1 .. n
      /\ (m = 0 <=> h = <<>>) /\ (n = 0 <=> s = <<>>)
  BY InSequence, EmptySeq
<1> HIDE DEF q
<1>3. /\ Len(q) = m + n /\ DOMAIN q = 1 .. m + n
      /\ \A i \in 1 .. m : q[i] = h[i]
      /\ \A i \in 1 .. n : q[m + i] = s[i]
      /\ \A i \in 1 .. m + n : i \in 1 .. m \/ \E j \in 1 .. n : i = m + j
  BY <1>1 DEF JoinOf
<1> HIDE DEF m, n
<1>4. m # 0 /\ 1 \in 1 .. m /\ q # <<>> /\ q[1] = h[1]
  <2>1. m # 0
    BY <1>2
  <2>2. 1 \in 1 .. m /\ 1 \in DOMAIN q
    BY <1>2, <1>3, <2>1
  <2> QED
    BY <1>3, <2>1, <2>2
<1>5. Chained(q)
  <2>1. ASSUME NEW i \in 1 .. m + n - 1 PROVE Follows(q[i], q[i + 1])
    <3>1. CASE i < m
      <4>1. i \in 1 .. m - 1 /\ i \in 1 .. m /\ i + 1 \in 1 .. m
        BY <1>2, <3>1
      <4>2. Follows(h[i], h[i + 1])
        BY <4>1 DEF Chained, m
      <4> QED
        BY <4>1, <4>2, <1>3
    <3>2. CASE i = m
      <4>1. 1 \in 1 .. n /\ s # <<>> /\ m \in 1 .. m
        BY <1>2, <1>4, <3>2
      <4>2. q[m + 1] = s[1] /\ q[m] = h[m]
        BY <4>1, <1>3
      <4> QED
        BY <3>2, <4>1, <4>2 DEF m
    <3>3. CASE i > m
      <4>1. i - m \in 1 .. n - 1 /\ i - m \in 1 .. n /\ i - m + 1 \in 1 .. n
            /\ i = m + (i - m) /\ i + 1 = m + (i - m + 1)
        BY <1>2, <3>3
      <4>2. Follows(s[i - m], s[i - m + 1])
        BY <4>1 DEF Chained, n
      <4>3. q[i] = s[i - m] /\ q[i + 1] = s[i - m + 1]
        BY <4>1, <1>3
      <4> QED
        BY <4>2, <4>3
    <3> QED
      BY <1>2, <3>1, <3>2, <3>3
  <2>2. q[Len(q)].do \notin {"zip", "fallback"}
    <3>1. CASE n = 0
      <4>1. Len(q) = m /\ m \in 1 .. m
        BY <1>2, <1>3, <1>4, <3>1
      <4> QED
        BY <4>1, <1>3 DEF Chained, m
    <3>2. CASE n # 0
      <4>1. n \in 1 .. n /\ s # <<>>
        BY <1>2, <3>2
      <4> QED
        BY <4>1, <1>3 DEF Chained, n
    <3> QED
      BY <3>1, <3>2
  <2>0. Len(q) = m + n
    BY <1>3
  <2>3. \A i \in 1 .. Len(q) - 1 : Follows(q[i], q[i + 1])
    BY <1>2, <2>0, <2>1
  <2> QED
    BY <2>2, <2>3 DEF Chained
<1>6. ASSUME NEW k, Proper(h, k), Proper(s, k) PROVE Proper(q, k)
  <2>1. \A i \in 1 .. m : Belongs(q[i], k)
    BY <1>2, <1>3, <1>6 DEF Proper
  <2>2. \A j \in 1 .. n : Belongs(q[m + j], k)
    BY <1>2, <1>3, <1>6 DEF Proper
  <2> QED
    BY <1>3, <2>1, <2>2 DEF Proper
<1>7. ASSUME NEW lv, Linked(s, lv), \A i \in 2 .. m : \A y : ~Commits(h[i], y, lv),
             s # <<>> => ~Commits(s[1], After(s), lv)
      PROVE  Linked(q, lv)
  <2> SUFFICES ASSUME NEW i \in 1 .. Len(q) - 1,
                      Commits(q[i + 1], IF i + 1 < Len(q) THEN q[i + 2].do ELSE "end", lv)
               PROVE  /\ q[i].arg = q[i + 1].arg
                      /\ \/ q[i].do \in {"bind", "pointer"}
                         \/ q[i].do = "put" /\ q[i + 1].do = "pointer"
    BY DEF Linked
  <2>9. Len(q) = m + n
    BY <1>3
  <2>0. /\ i \in 1 .. m + n - 1
        /\ Commits(q[i + 1], IF i + 1 < m + n THEN q[i + 2].do ELSE "end", lv)
    BY <1>2, <2>9
  <2>1. CASE i < m
    <3>1. i + 1 \in 2 .. m /\ i + 1 \in 1 .. m
      BY <1>2, <2>0, <2>1
    <3> QED
      BY <1>3, <1>7, <2>0, <3>1
  <2>2. CASE i = m
    <3>1. 1 \in 1 .. n /\ s # <<>> /\ q[m + 1] = s[1]
      BY <1>2, <1>3, <1>4, <2>2
    <3>2. After(s) = IF i + 1 < m + n THEN q[i + 2].do ELSE "end"
      <4>1. CASE n > 1
        <5>1. 2 \in 1 .. n /\ q[m + 2] = s[2] /\ m + 1 < m + n
          BY <1>2, <1>3, <4>1
        <5> QED
          BY <2>2, <4>1, <5>1 DEF After, n
      <4>2. CASE ~(n > 1)
        <5>1. ~(m + 1 < m + n)
          BY <1>2, <4>2
        <5> QED
          BY <2>2, <4>2, <5>1 DEF After, n
      <4> QED
        BY <4>1, <4>2
    <3> QED
      BY <1>7, <2>0, <2>2, <3>1, <3>2
  <2>3. CASE i > m
    <3> DEFINE j == i - m
    <3>0. i \in 1 .. m + n - 1 /\ m \in Nat /\ n \in Nat
      BY <1>2, <2>0
    <3>1. /\ j \in 1 .. n - 1 /\ j \in 1 .. n /\ j + 1 \in 1 .. n
          /\ i = m + j /\ i + 1 = m + (j + 1) /\ (i + 1 < m + n <=> j + 1 < n)
          /\ j + 1 < n => j + 2 \in 1 .. n /\ i + 2 = m + (j + 2)
      BY <2>3, <3>0
    <3> HIDE DEF j
    <3>2. q[i] = s[j] /\ q[i + 1] = s[j + 1] /\ (j + 1 < n => q[i + 2] = s[j + 2])
      BY <1>3, <3>1
    <3>3. Commits(s[j + 1], IF j + 1 < n THEN s[j + 2].do ELSE "end", lv)
      BY <2>0, <3>1, <3>2
    <3> QED
      BY <1>7, <3>1, <3>2, <3>3 DEF Linked, n
  <2> QED
    BY <1>2, <2>0, <2>1, <2>2, <2>3
<1>8. ASSUME NEW c, Tooling(s, c),
             \A j \in DOMAIN s : s[j].do \notin {"before", "call"},
             \A i \in DOMAIN h :
                /\ h[i].do \notin {"before", "call", "sync"}
                /\ h[i].do \in {"put", "force", "insist"} =>
                      \A j \in DOMAIN s : s[j].do = "sync" /\ s[j].arg # None => h[i].arg = s[j].arg
      PROVE  Tooling(q, c)
  <2> SUFFICES ASSUME NEW i \in 1 .. m + n
               PROVE  /\ q[i].do \notin {"before", "call"}
                      /\ q[i].do = "sync" =>
                           /\ Fixed(q[i].arg, c)
                           /\ q[i].arg # None => \A j \in 1 .. m + n :
                                  q[j].do \in {"put", "force", "insist"} => q[j].arg = q[i].arg
    BY <1>3 DEF Tooling
  <2>1. CASE i \in 1 .. m
    BY <1>2, <1>3, <1>8, <2>1
  <2>2. ASSUME NEW a \in 1 .. n, i = m + a
        PROVE  /\ q[i].do \notin {"before", "call"}
               /\ q[i].do = "sync" =>
                    /\ Fixed(q[i].arg, c)
                    /\ q[i].arg # None => \A j \in 1 .. m + n :
                           q[j].do \in {"put", "force", "insist"} => q[j].arg = q[i].arg
    <3>1. q[i] = s[a] /\ a \in DOMAIN s
      BY <1>2, <1>3, <2>2
    <3>2. s[a].do \notin {"before", "call"}
      BY <1>8, <3>1
    <3>3. s[a].do = "sync" => Fixed(s[a].arg, c)
      BY <1>8, <3>1 DEF Tooling
    <3>4. ASSUME s[a].do = "sync", s[a].arg # None, NEW j \in 1 .. m + n,
                 q[j].do \in {"put", "force", "insist"}
          PROVE  q[j].arg = s[a].arg
      <4>1. CASE j \in 1 .. m
        <5>1. q[j] = h[j] /\ j \in DOMAIN h
          BY <1>2, <1>3, <4>1
        <5> QED
          BY <1>8, <3>1, <3>4, <5>1
      <4>2. ASSUME NEW b \in 1 .. n, j = m + b PROVE q[j].arg = s[a].arg
        <5>1. q[j] = s[b] /\ b \in DOMAIN s
          BY <1>2, <1>3, <4>2
        <5> QED
          BY <1>8, <3>1, <3>4, <5>1 DEF Tooling
      <4> QED
        BY <1>3, <4>1, <4>2
    <3> QED
      BY <3>1, <3>2, <3>3, <3>4
  <2> QED
    BY <1>3, <2>1, <2>2
<1>9. After(q) = IF m > 1 THEN h[2].do ELSE IF s # <<>> THEN s[1].do ELSE "end"
  <2>1. CASE m > 1
    <3>1. 2 \in 1 .. m /\ Len(q) > 1
      BY <1>2, <1>3, <2>1
    <3> QED
      BY <1>3, <2>1, <3>1 DEF After
  <2>2. CASE ~(m > 1) /\ s # <<>>
    <3>1. m = 1 /\ 1 \in 1 .. n /\ Len(q) > 1 /\ m + 1 = 2
      BY <1>2, <1>3, <1>4, <2>2
    <3> QED
      BY <1>3, <2>2, <3>1 DEF After
  <2>3. CASE ~(m > 1) /\ s = <<>>
    <3>1. ~(Len(q) > 1)
      BY <1>2, <1>3, <1>4, <2>3
    <3> QED
      BY <2>3, <3>1 DEF After
  <2> QED
    BY <2>1, <2>2, <2>3
<1>10. \A lv : Linked(s, lv) /\ (\A i \in 2 .. m : \A y : ~Commits(h[i], y, lv))
                /\ (s # <<>> => ~Commits(s[1], After(s), lv))
             => Linked(q, lv)
  BY <1>7
<1>11. \A c : Tooling(s, c)
              /\ (\A j \in DOMAIN s : s[j].do \notin {"before", "call"})
              /\ (\A i \in DOMAIN h :
                    /\ h[i].do \notin {"before", "call", "sync"}
                    /\ h[i].do \in {"put", "force", "insist"} =>
                          \A j \in DOMAIN s : s[j].do = "sync" /\ s[j].arg # None =>
                              h[i].arg = s[j].arg)
            => Tooling(q, c)
  BY <1>8
<1>12. /\ q \in Seq(S) /\ Chained(q) /\ q # <<>> /\ q[1] = h[1]
       /\ \A k : Proper(h, k) /\ Proper(s, k) => Proper(q, k)
       /\ After(q) = IF m > 1 THEN h[2].do ELSE IF s # <<>> THEN s[1].do ELSE "end"
  BY <1>1, <1>4, <1>5, <1>6, <1>9
<1> QED
  BY <1>10, <1>11, <1>12 DEF q, m

LEMMA InsistKeeps ==
  ASSUME IInv, NEW r \in Requests, Insist(r)
  PROVE  IInv'
<1> DEFINE p == plan[r]
           k == kind[r]
           a == Head(p).arg
           s == Tail(p)
           force == Round("force", a)
           look == Round("current", None)
           point == Round("pointer", a)
<1>1. /\ AtWork(r) /\ stage[r] = "read" /\ Head(p).do \in {"insist", "fallback"} /\ UNCHANGED threads
      /\ \/ Goes(r, <<>> \o s)
         \/ Head(p).do = "insist" /\ Goes(r, <<force, look>> \o s)
         \/ Head(p).do = "fallback" /\ Goes(r, <<point>> \o s)
  BY DEF Insist, Turn, Arg
<1>2. Known(r, p)
  BY <1>1, Knows
<1> HIDE DEF p
<1>3. /\ p[1].do \in {"insist", "fallback"} /\ Head(p) = p[1] /\ p[1] \in Rounds(saves)
      /\ a = p[1].arg /\ k = "tool" /\ AtWork(r) /\ stage[r] = "read"
      /\ p \in Seq(Rounds(saves)) /\ p # <<>> /\ Chained(p) /\ Proper(p, k)
  BY <1>1, <1>2 DEF Known, Belongs
<1>4. a \in Threads
  BY <1>3 DEF Rounds, OfThread, OfAny, OfNothing
<1>5. /\ s \in Seq(Rounds(saves)) /\ Chained(s) /\ Proper(s, k)
      /\ \A lv : Linked(p, lv) => Linked(s, lv)
      /\ \A c : Tooling(p, c) => Tooling(s, c)
      /\ s # <<>> => Follows(p[1], s[1])
  BY <1>3, Rest
<1>6. /\ Len(p) \in Nat /\ 1 <= Len(p) /\ Len(s) = Len(p) - 1
      /\ \A i \in 1 .. Len(p) - 1 : s[i] = p[i + 1]
      /\ s = <<>> <=> Len(p) = 1
      /\ DOMAIN p = 1 .. Len(p) /\ DOMAIN s = 1 .. Len(p) - 1
  BY <1>3, TailOf
<1>7. p[1].do = "fallback" => s # <<>> /\ s[1].do = "current"
  <2>1. p[1].do = "fallback" => Len(p) # 1
    BY <1>3 DEF Chained
  <2> QED
    BY <1>5, <1>6, <2>1 DEF Follows
<1>8. ASSUME Alone, latest = r
      PROVE  /\ Linked(p, live) /\ Linked(s, live) /\ Tooling(p, Current(disk)) /\ Tooling(s, Current(disk))
             /\ s # <<>> => ~Commits(s[1], After(s), live)
  <2>1. Linked(p, live) /\ Tooling(p, Current(disk))
    BY <1>2, <1>3, <1>8, Resting DEF Planning
  <2>2. ASSUME s # <<>> PROVE ~Commits(s[1], After(s), live)
    <3>1. 1 \in 1 .. Len(p) - 1 /\ s[1] = p[1 + 1] /\ 1 + 1 = 2
      BY <1>6, <2>2
    <3>2. After(s) = IF 1 + 1 < Len(p) THEN p[1 + 2].do ELSE "end"
      <4>1. CASE Len(s) > 1
        <5>1. s[2] = p[3] /\ 1 + 1 < Len(p) /\ 1 + 2 = 3
          BY <4>1, <1>6
        <5> QED
          BY <4>1, <5>1 DEF After
      <4>2. CASE ~(Len(s) > 1)
        <5>1. ~(1 + 1 < Len(p))
          BY <4>2, <1>6
        <5> QED
          BY <4>2, <5>1 DEF After
      <4> QED
        BY <4>1, <4>2
    <3>3. Commits(s[1], After(s), live) => p[1].do \in {"bind", "pointer", "put"}
      BY <2>1, <3>1, <3>2 DEF Linked
    <3> QED
      BY <1>3, <3>3
  <2> QED
    BY <1>5, <2>1, <2>2
<1> HIDE DEF a, s
<1>9. CASE Goes(r, <<>> \o s)
  <2>1. <<>> \o s = s
    BY <1>5, ConcatEmptySeq
  <2>2. Goes(r, s)
    BY <1>9, <2>1
  <2>3. s # <<>> => s[1].do \notin {"bind", "copy", "prior", "sync"}
    BY <1>3, <1>5 DEF Follows
  <2> QED
    BY <1>1, <1>3, <1>5, <1>8, <2>2, <2>3, GoesOn DEF p, Planning
<1>10. /\ force \in Rounds(saves) /\ look \in Rounds(saves) /\ point \in Rounds(saves)
       /\ force.do = "force" /\ force.arg = a /\ look.do = "current" /\ point.do = "pointer"
  BY <1>4, RoundIs DEF OfThread, OfNothing
<1>11. Alone /\ latest = r => \A j \in DOMAIN s : s[j].do \notin {"before", "call"}
                                 /\ (p[1].do = "insist" /\ s[j].do = "sync" /\ s[j].arg # None
                                        => a = s[j].arg)
  <2> SUFFICES ASSUME Alone, latest = r, NEW j \in DOMAIN s
               PROVE  s[j].do \notin {"before", "call"}
                      /\ (p[1].do = "insist" /\ s[j].do = "sync" /\ s[j].arg # None => a = s[j].arg)
    OBVIOUS
  <2>1. s[j] = p[j + 1] /\ j + 1 \in DOMAIN p /\ 1 \in DOMAIN p
    BY <1>6
  <2>2. Tooling(p, Current(disk)) /\ a = p[1].arg
    BY <1>3, <1>8
  <2> QED
    BY <2>1, <2>2, <1>3 DEF Tooling
<1> HIDE DEF force, look, point
<1>12. CASE p[1].do = "insist" /\ Goes(r, <<force, look>> \o s)
  <2> DEFINE h == <<force, look>>
             q == h \o s
  <2>1. /\ h \in Seq(Rounds(saves)) /\ h # <<>> /\ Len(h) = 2 /\ h[1] = force /\ h[2] = look
        /\ DOMAIN h = {1, 2} /\ 2 .. Len(h) = {2}
    BY <1>10
  <2>2. Chained(h) /\ Proper(h, k)
    BY <1>3, <1>10, TaskAssumption DEF Chained, Follows, Proper, Belongs, Kinds
  <2> HIDE DEF h
  <2>3. s # <<>> => Follows(h[Len(h)], s[1])
    BY <1>3, <1>5, <1>10, <1>12, <2>1 DEF Follows
  <2>4. /\ q \in Seq(Rounds(saves)) /\ Chained(q) /\ q # <<>> /\ q[1] = force /\ Proper(q, k)
    <3>1. h \in Seq(Rounds(saves)) /\ h # <<>> /\ h[1] = force
      BY <2>1
    <3>2. /\ q \in Seq(Rounds(saves)) /\ Chained(q) /\ q # <<>> /\ q[1] = h[1]
          /\ \A j : Proper(h, j) /\ Proper(s, j) => Proper(q, j)
      BY <1>5, <2>2, <2>3, <3>1, Inserted
    <3> QED
      BY <1>5, <2>2, <3>1, <3>2
  <2>5. ASSUME Alone, latest = r PROVE Linked(q, live) /\ Tooling(q, Current(disk))
    <3>1. \A i \in 2 .. Len(h) : \A y : ~Commits(h[i], y, live)
      BY <1>10, <2>1 DEF Commits
    <3>2. \A i \in DOMAIN h :
             /\ h[i].do \notin {"before", "call", "sync"}
             /\ h[i].do \in {"put", "force", "insist"} =>
                   \A j \in DOMAIN s : s[j].do = "sync" /\ s[j].arg # None => h[i].arg = s[j].arg
      BY <1>10, <1>11, <1>12, <2>1, <2>5
    <3>3. \A j \in DOMAIN s : s[j].do \notin {"before", "call"}
      BY <1>11, <2>5
    <3>4. Linked(s, live) /\ Tooling(s, Current(disk)) /\ (s # <<>> => ~Commits(s[1], After(s), live))
      BY <1>8, <2>5
    <3> QED
      BY <1>5, <2>1, <2>2, <2>3, <3>1, <3>2, <3>3, <3>4, Inserted
  <2>6. ~Commits(q[1], After(q), live) /\ q[1].do = "force" /\ Goes(r, q)
    BY <1>10, <1>12, <2>4 DEF Commits, h
  <2> HIDE DEF q
  <2> QED
    BY <1>1, <1>3, <2>4, <2>5, <2>6, GoesOn DEF p, Planning
<1>13. CASE p[1].do = "fallback" /\ Goes(r, <<point>> \o s)
  <2> DEFINE h == <<point>>
             q == h \o s
  <2>1. /\ h \in Seq(Rounds(saves)) /\ h # <<>> /\ Len(h) = 1 /\ h[1] = point
        /\ DOMAIN h = {1} /\ 2 .. Len(h) = {}
    BY <1>10
  <2>2. Chained(h) /\ Proper(h, k)
    BY <1>3, <1>10, TaskAssumption DEF Chained, Follows, Proper, Belongs, Kinds
  <2> HIDE DEF h
  <2>3. s # <<>> => Follows(h[Len(h)], s[1])
    BY <1>7, <1>10, <1>13, <2>1 DEF Follows
  <2>4. /\ q \in Seq(Rounds(saves)) /\ Chained(q) /\ q # <<>> /\ q[1] = point /\ Proper(q, k)
        /\ After(q) = "current"
    BY <1>5, <1>7, <1>13, <2>1, <2>2, <2>3, Inserted
  <2>5. ASSUME Alone, latest = r PROVE Linked(q, live) /\ Tooling(q, Current(disk))
    <3>1. \A i \in 2 .. Len(h) : \A y : ~Commits(h[i], y, live)
      BY <2>1
    <3>2. \A i \in DOMAIN h :
             /\ h[i].do \notin {"before", "call", "sync"}
             /\ h[i].do \in {"put", "force", "insist"} =>
                   \A j \in DOMAIN s : s[j].do = "sync" /\ s[j].arg # None => h[i].arg = s[j].arg
      BY <1>10, <2>1
    <3>3. \A j \in DOMAIN s : s[j].do \notin {"before", "call"}
      BY <1>11, <2>5
    <3>4. Linked(s, live) /\ Tooling(s, Current(disk)) /\ (s # <<>> => ~Commits(s[1], After(s), live))
      BY <1>8, <2>5
    <3> QED
      BY <1>5, <2>1, <2>2, <2>3, <3>1, <3>2, <3>3, <3>4, Inserted
  <2>6. ~Commits(q[1], After(q), live) /\ q[1].do = "pointer" /\ Goes(r, q)
    BY <1>10, <1>13, <2>4 DEF Commits, Mending, h
  <2> HIDE DEF q
  <2> QED
    BY <1>1, <1>3, <2>4, <2>5, <2>6, GoesOn DEF p, Planning
<1> QED
  BY <1>1, <1>3, <1>9, <1>12, <1>13

LEMMA ReprojectKeeps ==
  ASSUME IInv, NEW r \in Requests, Reproject(r)
  PROVE  IInv'
<1> DEFINE p == plan[r]
           k == kind[r]
           t == task[r]
<1>1. /\ AtWork(r) /\ stage[r] = "read" /\ Head(p).do = "sync"
      /\ \/ t = None /\ Continue(r, <<>>, None)
         \/ t # None /\ Step(r, "refresh", t)
      /\ UNCHANGED <<projects, threads, born, kind, draft, mixed, latest>>
  BY DEF Reproject, Turn
<1>2. Known(r, p) /\ TypeOK /\ FilesInv
  BY <1>1, Knows DEF IInv
<1> HIDE DEF p
<1>3. /\ p[1].do = "sync" /\ k = "tool" /\ AtWork(r) /\ stage[r] = "read" /\ p # <<>>
      /\ t \in Maybe(Tasks) /\ (t # None => Pruned(t.threads) /\ t.id \in 1 .. born)
  BY <1>1, <1>2 DEF Known, Belongs
<1>4. CASE t = None /\ Continue(r, <<>>, None)
  <2>1. <<>> \in Seq(Rounds(saves)) /\ Chained(<<>>) /\ Proper(<<>>, kind[r]) /\ Linked(<<>>, live)
        /\ \A c : Tooling(<<>>, c)
    BY DEF Chained, Proper, Linked, Tooling
  <2>2. Goes(r, <<>>) /\ UNCHANGED threads
    BY <1>1, <1>4 DEF Goes
  <2> QED
    BY <1>3, <2>1, <2>2, GoesOn DEF p, Planning
<1>5. CASE t # None /\ Step(r, "refresh", t)
  <2>1. /\ draft[r] = None /\ p[1].do # "wake" /\ ~Lost(p, k)
        /\ Alone /\ latest = r =>
             t = Current(disk) /\ Linked(p, live) /\ Tooling(p, Current(disk))
    BY <1>2, <1>3, Resting DEF Planning
  <2>2. /\ disk' = disk /\ file' = file /\ memory' = memory /\ saves' = saves /\ live' = live
        /\ born' = born /\ kind' = kind /\ mixed' = mixed /\ latest' = latest /\ Sound
        /\ \A w, e : w \in Maybe(Tasks) /\ e \in Maybe(TaskFiles)
                         /\ (e # None => Whole(e, born))
                         /\ (w # None => Pruned(w.threads) /\ w.id \in 1 .. born) => Holds(w, e)
    BY <1>1, <1>2, AsBefore DEF projects, threads
  <2> HIDE DEF t
  <2>3. Holds(t, draft[r])
    BY <1>3, <2>1, <2>2 DEF Maybe
  <2>4. Midway(p, "refresh", t, draft[r])
    BY <1>3, <1>5, <2>1 DEF Midway
  <2>5. ASSUME Alone, latest = r
        PROVE  Serving(k, p, "refresh", disk', file', memory', t, draft[r], live')
    <3>1. Syncing(p, k, "refresh", disk, memory, t, live)
      BY <1>3, <2>1, <2>5 DEF Syncing, Effect
    <3> QED
      BY <2>1, <2>2, <2>5, <3>1 DEF Serving
  <2>6. ASSUME Alone, latest = r
        PROVE  /\ One(disk.tasks) /\ (\A c \in saves : One(c.disk.tasks))
               /\ ~Reset => Ids(disk.tasks) = 1 .. born
    BY <1>2, <1>3, <2>6 DEF Known
  <2>7. Serves(r, p, "refresh", t, draft[r])
    BY <1>3, <2>1, <2>2, <2>5, <2>6 DEF Serves, Settling
  <2> QED
    BY <1>1, <1>5, <2>2, <2>3, <2>4, <2>7, StepsOn DEF p, Stages
<1> QED
  BY <1>1, <1>4, <1>5

LEMMA WakeKeeps ==
  ASSUME IInv, NEW r \in Requests, Wake(r)
  PROVE  IInv'
<1> DEFINE p == plan[r]
           k == kind[r]
           t == Either(Head(p).arg, Shown(task[r]))
           q == <<Round("ensure", t), Round("current", None), Round("probe", t)>>
<1>1. /\ AtWork(r) /\ stage[r] = "read" /\ Head(p).do = "wake" /\ Goes(r, q) /\ UNCHANGED threads
  BY DEF Wake, Turn, Arg
<1>2. Known(r, p)
  BY <1>1, Knows
<1> HIDE DEF p
<1>3. /\ p[1].do = "wake" /\ p[1] \in Rounds(saves) /\ Head(p) = p[1] /\ k = "restart"
      /\ AtWork(r) /\ stage[r] = "read" /\ task[r] \in Maybe(Tasks)
  BY <1>1, <1>2 DEF Known, Belongs
<1>4. p[1].arg \in Maybe(Threads)
  BY <1>3 DEF Rounds, OfThread, OfAny, OfNothing
<1>5. t \in Maybe(Threads)
  BY <1>3, <1>4 DEF Either, Shown, Maybe, Tasks
<1> HIDE DEF t
<1>6. q \in Seq(Rounds(saves))
  <2>1. /\ Round("current", None) \in Rounds(saves)
        /\ Round("ensure", t) \in Rounds(saves) /\ Round("probe", t) \in Rounds(saves)
    BY <1>5, RoundIs DEF OfAny, OfNothing
  <2> QED
    BY <2>1
<1>7. Chained(q) /\ Proper(q, k) /\ Linked(q, live) /\ q[1].do = "ensure" /\ q # <<>>
  BY <1>3, RoundIs, TaskAssumption DEF Chained, Follows, Proper, Belongs, Kinds, Linked, Commits
<1>8. Lost(q, k)
  BY <1>3, <1>7 DEF Lost
<1> HIDE DEF q
<1> QED
  BY <1>1, <1>3, <1>6, <1>7, <1>8, GoesOn DEF p, Planning

LEMMA ProbeKeeps ==
  ASSUME IInv, NEW r \in Requests, Probe(r)
  PROVE  IInv'
<1> DEFINE p == plan[r]
           k == kind[r]
           a == Head(p).arg
           recover == Round("recover", a)
           revive == Round("revive", a)
           look == Round("current", None)
           miss == Round("miss", a)
           q1 == <<look, miss, look, recover>>
           q2 == <<look, revive>>
<1>1. /\ AtWork(r) /\ stage[r] = "read" /\ Head(p).do \in {"probe", "recover"} /\ UNCHANGED threads
      /\ \/ Goes(r, <<>>)
         \/ a # None /\ Goes(r, Mark(a) \o <<recover>>)
         \/ Goes(r, q2)
  BY DEF Probe, Turn, Arg
<1>2. Mark(a) \o <<recover>> = q1
  BY ThreeAndOne DEF Mark
<1>3. Known(r, p)
  BY <1>1, Knows
<1> HIDE DEF p
<1>4. /\ p[1].do \in {"probe", "recover"} /\ p[1] \in Rounds(saves) /\ Head(p) = p[1] /\ k = "restart"
      /\ AtWork(r) /\ stage[r] = "read"
  BY <1>1, <1>3 DEF Known, Belongs
<1>5. a \in Maybe(Threads)
  BY <1>4 DEF Rounds, OfThread, OfAny, OfNothing, Maybe
<1> HIDE DEF a
<1>6. /\ look \in Rounds(saves) /\ revive \in Rounds(saves)
      /\ a # None => miss \in Rounds(saves) /\ recover \in Rounds(saves)
      /\ look.do = "current" /\ revive.do = "revive" /\ miss.do = "miss" /\ recover.do = "recover"
  BY <1>5, RoundIs DEF OfThread, OfAny, OfNothing, Maybe
<1> HIDE DEF look, revive, miss, recover
<1>7. (a # None => q1 \in Seq(Rounds(saves))) /\ q2 \in Seq(Rounds(saves)) /\ <<>> \in Seq(Rounds(saves))
  BY <1>6
<1>8. Chained(q1) /\ Chained(q2) /\ Chained(<<>>)
  BY <1>6 DEF Chained, Follows
<1>9. Proper(q1, k) /\ Proper(q2, k) /\ Proper(<<>>, k)
  BY <1>4, <1>6, TaskAssumption DEF Proper, Belongs, Kinds
<1>10. Linked(q1, live) /\ Linked(q2, live) /\ Linked(<<>>, live)
  BY <1>6 DEF Linked, Commits
<1>11. q1[1].do = "current" /\ q2[1].do = "current"
  BY <1>6
<1> HIDE DEF q1, q2
<1>12. PICK q \in {q1, q2, <<>>} : Goes(r, q) /\ q \in Seq(Rounds(saves))
  BY <1>1, <1>2, <1>7
<1>13. /\ Chained(q) /\ Proper(q, k) /\ Linked(q, live)
       /\ q # <<>> => q[1].do = "current" /\ ~Commits(q[1], After(q), live)
  BY <1>8, <1>9, <1>10, <1>11 DEF Commits
<1> QED
  BY <1>1, <1>4, <1>12, <1>13, GoesOn DEF p, Planning

LEMMA ReviveKeeps ==
  ASSUME IInv, NEW r \in Requests, Revive(r)
  PROVE  IInv'
<1> DEFINE p == plan[r]
           k == kind[r]
           q == <<Round("make", "startup")>>
           entries == IF task[r] = None THEN <<>> ELSE task[r].threads
           at == {i \in DOMAIN entries : entries[i].thread = memory.thread}
           shown == FirstOf(entries, at)
           hint == IF shown # None \/ entries = <<>> THEN shown ELSE entries[1]
<1>1. /\ AtWork(r) /\ stage[r] = "read" /\ Head(p).do = "revive"
      /\ plan' = [plan EXCEPT ![r] = q]
      /\ \E to \in IF hint = None THEN Routes ELSE {RouteOf[hint.thread]} :
             route' = [route EXCEPT ![r] = to]
      /\ UNCHANGED <<projects, threads, born, kind, stage, task, draft, mixed, latest>>
  BY DEF Revive, Turn
<1>2. Known(r, p) /\ TypeOK /\ PlansInv
  BY <1>1, Knows DEF IInv
<1> HIDE DEF p
<1>3. /\ p[1].do = "revive" /\ k = "restart" /\ AtWork(r) /\ stage[r] = "read"
      /\ task[r] \in Maybe(Tasks)
  BY <1>1, <1>2 DEF Known, Belongs
<1>4. hint # None => hint \in Entries
  <2>1. entries \in Seq(Entries) /\ at \subseteq DOMAIN entries /\ None \notin Entries
    BY <1>3, TaskAssumption DEF Maybe, Tasks
  <2> HIDE DEF entries, at
  <2>2. shown # None => shown \in Entries
    BY <2>1, FirstIs
  <2>3. entries # <<>> => entries[1] \in Entries
    BY <2>1, TailOf
  <2> QED
    BY <2>2, <2>3
<1> HIDE DEF hint
<1>5. route' \in [Requests -> Maybe(Routes)]
  <2>1. hint # None => RouteOf[hint.thread] \in Routes
    BY <1>4 DEF Entries, Routes
  <2> QED
    BY <1>1, <1>2, <2>1 DEF TypeOK, Maybe
<1>6. Moved(r, q, "read", task[r], draft[r])
  <2>1. /\ stage' = [stage EXCEPT ![r] = "read"] /\ task' = [task EXCEPT ![r] = task[r]]
        /\ draft' = [draft EXCEPT ![r] = draft[r]]
    BY <1>1, <1>2, Unmoved DEF TypeOK
  <2> QED
    BY <1>1, <1>5, <2>1 DEF Moved
<1>7. q \in Seq(Rounds(saves)) /\ q # <<>>
  <2>1. Round("make", "startup") \in Rounds(saves)
    BY RoundIs
  <2> QED
    BY <2>1
<1>8. Chained(q) /\ Proper(q, k) /\ Linked(q, live) /\ q[1].do = "make" /\ ~Commits(q[1], After(q), live)
  BY <1>3, RoundIs, TaskAssumption DEF Chained, Follows, Proper, Belongs, Kinds, Linked, Commits
<1>9. UNCHANGED <<projects, born>> /\ live' = live /\ made' = made
  BY <1>1 DEF threads
<1>10. live' \subseteq made' /\ made' \subseteq Threads
  BY <1>2, <1>9 DEF TypeOK
<1> HIDE DEF q
<1>11. Moved(r, q, "read", IF q = <<>> THEN None ELSE task[r], draft[r])
  BY <1>6, <1>7
<1> QED
  BY <1>3, <1>7, <1>8, <1>9, <1>10, <1>11, Replans DEF p, Planning

-----------------------------------------------------------------------------
(* Requests that arrive, a crash, and the threads that are lost.           *)

\* The rounds p a request of kind k may be.
Fresher(p, k, lv) ==
    /\ p \in Seq(Rounds(saves)) /\ p # <<>> /\ Chained(p) /\ Proper(p, k) /\ Linked(p, lv)
    /\ p[1].do \notin {"bind", "copy", "prior", "sync"} /\ ~Commits(p[1], After(p), lv)
    /\ k = "snapshot" => p = <<Round("current", None)>>
    /\ k \in {"load", "open"} => /\ p[Len(p)].do = "reconcile" /\ p[1].do # "reconcile"
                                 /\ \A i \in 1 .. Len(p) - 1 : p[i].do # "reconcile"
    /\ k = "tool" => \A c : Tooling(p, c)

LEMMA PlansAre ==
  ASSUME TypeOK, NEW k \in Kinds \ {"restart"}, NEW p \in Plans(k), NEW lv
  PROVE  Fresher(p, k, lv)
<1> DEFINE R == Rounds(saves)
           look == Round("current", None)
           edit == Round("edit", None)
           zip == Round("zip", None)
           copy == Round("copy", None)
           open == Round("open", None)
           again == Round("reconcile", None)
<1>1. made \subseteq Threads /\ born \in Nat /\ memory.thread \in Maybe(Threads) /\ k # None
  BY TaskAssumption DEF TypeOK, Pointed
<1>2. /\ look \in R /\ edit \in R /\ zip \in R /\ copy \in R /\ open \in R /\ again \in R
      /\ look.do = "current" /\ edit.do = "edit" /\ zip.do = "zip" /\ copy.do = "copy"
      /\ open.do = "open" /\ again.do = "reconcile"
  BY RoundIs DEF OfNothing
<1> HIDE DEF R
<1>3. CASE k = "create"
  <2>1. p = <<Round("create", None)>>
    BY <1>3 DEF Plans
  <2> DEFINE x == Round("create", None)
  <2>2. x \in R /\ x.do = "create"
    BY RoundIs DEF R, OfAny, Maybe
  <2> HIDE DEF x
  <2>3. p \in Seq(R) /\ p # <<>> /\ p[1] = x /\ Len(p) = 1 /\ DOMAIN p = {1}
    BY <2>1, <2>2 DEF x
  <2> QED
    BY <1>1, <1>3, <2>2, <2>3
       DEF Fresher, Chained, Follows, Proper, Belongs, Linked, Commits, R
<1>4. CASE k = "thread"
  <2> DEFINE x == Round("make", "task")
  <2>1. p = <<x>>
    BY <1>4 DEF Plans
  <2>2. x \in R /\ x.do = "make" /\ x.arg = "task"
    BY RoundIs DEF R
  <2> HIDE DEF x
  <2>3. p \in Seq(R) /\ p # <<>> /\ p[1] = x /\ Len(p) = 1 /\ DOMAIN p = {1}
    BY <2>1, <2>2
  <2> QED
    BY <1>1, <1>4, <2>2, <2>3
       DEF Fresher, Chained, Follows, Proper, Belongs, Linked, Commits, R
<1>5. CASE k = "switch"
  <2>1. PICK id \in 1 .. born : p = <<Round("switch", id)>>
    BY <1>5 DEF Plans
  <2> DEFINE x == Round("switch", id)
  <2>2. x \in R /\ x.do = "switch"
    BY <1>1 DEF R, Round, Rounds, TaskIds
  <2> HIDE DEF x
  <2>3. p \in Seq(R) /\ p # <<>> /\ p[1] = x /\ Len(p) = 1 /\ DOMAIN p = {1}
    BY <2>1, <2>2 DEF x
  <2> QED
    BY <1>1, <1>5, <2>2, <2>3
       DEF Fresher, Chained, Follows, Proper, Belongs, Linked, Commits, R
<1>6. CASE k = "record"
  <2>1. p = <<look, edit>>
    BY <1>6 DEF Plans
  <2> HIDE DEF look, edit
  <2>2. p \in Seq(R) /\ p # <<>>
    BY <1>2, <2>1
  <2>3. Chained(p) /\ Proper(p, k) /\ Linked(p, lv) /\ p[1].do = "current"
    BY <1>1, <1>2, <1>6, <2>1 DEF Chained, Follows, Proper, Belongs, Linked, Commits
  <2> QED
    BY <1>6, <2>2, <2>3 DEF Fresher, Commits, R
<1>7. CASE k = "notify"
  <2>1. PICK t \in made : p = <<Round("ensure", t), edit>>
    BY <1>7 DEF Plans
  <2> DEFINE x == Round("ensure", t)
  <2>2. x \in R /\ x.do = "ensure"
    BY <1>1, RoundIs DEF R, OfAny, Maybe
  <2> HIDE DEF x, edit
  <2>3. p = <<x, edit>>
    BY <2>1 DEF x, edit
  <2>4. p \in Seq(R) /\ p # <<>>
    BY <1>2, <2>2, <2>3
  <2>5. Chained(p) /\ Proper(p, k) /\ Linked(p, lv) /\ p[1].do = "ensure"
    BY <1>1, <1>2, <1>7, <2>2, <2>3 DEF Chained, Follows, Proper, Belongs, Linked, Commits
  <2> QED
    BY <1>7, <2>4, <2>5 DEF Fresher, Commits, R
<1>8. CASE k = "focus"
  <2>1. PICK t \in made : p = <<Round("pointer", t), look, Round("put", t)>>
    BY <1>8 DEF Plans
  <2> DEFINE x == Round("pointer", t)
             y == Round("put", t)
  <2>2. x \in R /\ x.do = "pointer" /\ y \in R /\ y.do = "put"
    BY <1>1, RoundIs DEF R, OfThread
  <2> HIDE DEF x, y, look
  <2>3. p = <<x, look, y>>
    BY <2>1 DEF x, y, look
  <2>4. p \in Seq(R) /\ p # <<>>
    BY <1>2, <2>2, <2>3
  <2>5. Chained(p) /\ Proper(p, k) /\ Linked(p, lv) /\ p[1].do = "pointer"
    BY <1>1, <1>2, <1>8, <2>2, <2>3 DEF Chained, Follows, Proper, Belongs, Linked, Commits
  <2>6. After(p) = "current"
    BY <1>2, <2>3 DEF After
  <2> QED
    BY <1>8, <2>4, <2>5, <2>6 DEF Fresher, Commits, Mending, R
<1>9. CASE k = "snapshot"
  <2>1. p = <<look>>
    BY <1>9 DEF Plans
  <2>2. p \in Seq(R) /\ p # <<>>
    BY <1>2, <2>1
  <2>3. Chained(p) /\ Proper(p, k) /\ Linked(p, lv) /\ p[1].do = "current"
    BY <1>1, <1>2, <1>9, <2>1 DEF Chained, Follows, Proper, Belongs, Linked, Commits
  <2> QED
    BY <1>9, <2>1, <2>2, <2>3 DEF Fresher, Commits, R
<1>10. CASE k = "tool"
  <2>1. PICK t \in made : p = <<look, Round("prior", [source |-> t, pointer |-> memory.thread])>>
    BY <1>10 DEF Plans
  <2> DEFINE x == Round("prior", [source |-> t, pointer |-> memory.thread])
  <2>2. x \in R /\ x.do = "prior"
    BY <1>1 DEF R, Round, Rounds
  <2> HIDE DEF x, look
  <2>3. p = <<look, x>>
    BY <2>1 DEF x, look
  <2>4. p \in Seq(R) /\ p # <<>>
    BY <1>2, <2>2, <2>3
  <2>5. Chained(p) /\ Proper(p, k) /\ Linked(p, lv) /\ p[1].do = "current"
    BY <1>1, <1>2, <1>10, <2>2, <2>3 DEF Chained, Follows, Proper, Belongs, Linked, Commits
  <2>6. \A c : Tooling(p, c)
    BY <1>2, <2>2, <2>3 DEF Tooling
  <2> QED
    BY <1>10, <2>4, <2>5, <2>6 DEF Fresher, Commits, R
<1>11. CASE k = "turn"
  <2>1. PICK t \in made : p = <<Round("ensure", None), Round("ensure", t), Round("ensure", t),
                                Round("decide", t)>>
    BY <1>11 DEF Plans
  <2> DEFINE x == Round("ensure", None)
             y == Round("ensure", t)
             z == Round("decide", t)
  <2>2. x \in R /\ x.do = "ensure" /\ y \in R /\ y.do = "ensure" /\ z \in R /\ z.do = "decide"
    BY <1>1, RoundIs DEF R, OfAny, OfThread, Maybe
  <2> HIDE DEF x, y, z
  <2>3. p = <<x, y, y, z>>
    BY <2>1 DEF x, y, z
  <2>4. p \in Seq(R) /\ p # <<>>
    BY <1>2, <2>2, <2>3
  <2>5. Chained(p) /\ Proper(p, k) /\ Linked(p, lv) /\ p[1].do = "ensure"
    BY <1>1, <1>11, <2>2, <2>3 DEF Chained, Follows, Proper, Belongs, Linked, Commits
  <2> QED
    BY <1>11, <2>4, <2>5 DEF Fresher, Commits, R
<1>12. CASE k = "save"
  <2>1. p = <<zip, copy, look, edit>>
    BY <1>12 DEF Plans
  <2> HIDE DEF zip, copy, look, edit
  <2>2. p \in Seq(R) /\ p # <<>>
    BY <1>2, <2>1
  <2>3. Chained(p) /\ Proper(p, k) /\ Linked(p, lv) /\ p[1].do = "zip"
    BY <1>1, <1>2, <1>12, <2>1 DEF Chained, Follows, Proper, Belongs, Linked, Commits
  <2> QED
    BY <1>12, <2>2, <2>3 DEF Fresher, Commits, R
<1>13. CASE k = "load"
  <2>1. PICK s \in saves : p = <<zip, copy, Round("unzip", s), Round("recopy", s), open, again>>
    BY <1>13 DEF Plans
  <2> DEFINE x == Round("unzip", s)
             y == Round("recopy", s)
  <2>2. x \in R /\ x.do = "unzip" /\ y \in R /\ y.do = "recopy"
    BY <1>1 DEF R, Round, Rounds
  <2> HIDE DEF x, y, zip, copy, open, again
  <2>3. p = <<zip, copy, x, y, open, again>>
    BY <2>1 DEF x, y, zip, copy, open, again
  <2>4. p \in Seq(R) /\ p # <<>>
    BY <1>2, <2>2, <2>3
  <2>5. Chained(p) /\ Proper(p, k) /\ Linked(p, lv) /\ p[1].do = "zip"
    BY <1>1, <1>2, <1>13, <2>2, <2>3
       DEF Chained, Follows, Proper, Belongs, Linked, Commits, Loading
  <2>6. p[Len(p)].do = "reconcile" /\ \A i \in 1 .. Len(p) - 1 : p[i].do # "reconcile"
    BY <1>2, <2>2, <2>3
  <2> QED
    BY <1>13, <2>4, <2>5, <2>6 DEF Fresher, Commits, R
<1>14. CASE k = "open"
  <2>1. p = <<open, again>>
    BY <1>14 DEF Plans
  <2> HIDE DEF open, again
  <2>2. p \in Seq(R) /\ p # <<>>
    BY <1>2, <2>1
  <2>3. Chained(p) /\ Proper(p, k) /\ Linked(p, lv) /\ p[1].do = "open"
    BY <1>1, <1>2, <1>14, <2>1
       DEF Chained, Follows, Proper, Belongs, Linked, Commits, Loading
  <2>4. p[Len(p)].do = "reconcile" /\ \A i \in 1 .. Len(p) - 1 : p[i].do # "reconcile"
    BY <1>2, <2>1
  <2> QED
    BY <1>14, <2>2, <2>3, <2>4 DEF Fresher, Commits, R
<1> QED
  BY <1>3, <1>4, <1>5, <1>6, <1>7, <1>8, <1>9, <1>10, <1>11, <1>12, <1>13, <1>14 DEF Kinds

\* A request that has not arrived has nothing to do, and one at work has arrived.
LEMMA NotYet ==
  ASSUME PlansInv, NEW r \in Requests
  PROVE  /\ kind[r] = None => plan[r] = <<>>
         /\ plan[r] = <<>> => stage[r] = "read" /\ task[r] = None /\ draft[r] = None
<1> DEFINE p == plan[r]
<1>1. /\ p \in Seq(Rounds(saves)) /\ Proper(p, kind[r])
      /\ Midway(p, stage[r], task[r], draft[r])
  BY DEF PlansInv, Planned
<1> HIDE DEF p
<1>2. ASSUME p # <<>> PROVE kind[r] # None
  <2>1. 1 \in DOMAIN p
    BY <1>1, <1>2, TailOf
  <2> QED
    BY <1>1, <2>1 DEF Proper, Belongs
<1>3. p = <<>> => stage[r] = "read" /\ task[r] = None /\ draft[r] = None
  BY <1>1 DEF Midway
<1> QED
  BY <1>2, <1>3 DEF p

LEMMA ArriveKeeps ==
  ASSUME IInv, NEW r \in Requests, Arrive(r)
  PROVE  IInv'
<1> DEFINE others == {q \in Requests : AtWork(q)}
<1>1. TypeOK /\ FilesInv /\ PlansInv /\ LatestInv /\ SettleInv /\ AloneInv
  BY DEF IInv
<1>2. PICK k \in Menu[r] \ {"restart"} :
          /\ kind' = [kind EXCEPT ![r] = k]
          /\ \E p \in Plans(k) : plan' = [plan EXCEPT ![r] = p]
          /\ IF k \in Locking
             THEN \E to \in Routes : route' = [route EXCEPT ![r] = to]
             ELSE UNCHANGED route
  BY DEF Arrive
<1>3. PICK p \in Plans(k) : plan' = [plan EXCEPT ![r] = p]
  BY <1>2
<1>4. /\ kind[r] = None /\ latest' = r
      /\ mixed' = IF others = {} THEN mixed ELSE mixed \cup others \cup {r}
      /\ UNCHANGED <<projects, threads, born, stage, task, draft>>
  BY DEF Arrive
<1>5. /\ disk' = disk /\ file' = file /\ memory' = memory /\ saves' = saves /\ live' = live
      /\ made' = made /\ born' = born /\ stage' = stage /\ task' = task /\ draft' = draft
  BY <1>4 DEF projects, threads
<1>6. k \in Kinds \ {"restart"} /\ k # None /\ None \notin Requests
  BY TaskAssumption
<1>7. \A lv : Fresher(p, k, lv)
  BY <1>1, <1>6, PlansAre
<1>8. plan[r] = <<>> /\ stage[r] = "read" /\ task[r] = None /\ draft[r] = None
  BY <1>1, <1>4, NotYet
<1>9. /\ plan'[r] = p /\ kind'[r] = k
      /\ \A q \in Requests : q # r => plan'[q] = plan[q] /\ kind'[q] = kind[q]
  BY <1>1, <1>2, <1>3 DEF TypeOK, PlansInv
<1>10. /\ p \in Seq(Rounds(saves)) /\ p # <<>> /\ Chained(p) /\ Proper(p, k)
       /\ p[1].do \notin {"bind", "copy", "prior", "sync"}
  BY <1>7 DEF Fresher
<1>11. TypeOK'
  <2>1. kind' \in [Requests -> Maybe(Kinds)]
    BY <1>1, <1>2, <1>6 DEF TypeOK, Maybe
  <2>2. route' \in [Requests -> Maybe(Routes)]
    BY <1>1, <1>2 DEF TypeOK, Maybe
  <2>3. mixed' \subseteq Requests /\ latest' \in Maybe(Requests)
    BY <1>1, <1>4 DEF TypeOK, Maybe
  <2> QED
    BY <1>1, <1>5, <2>1, <2>2, <2>3 DEF TypeOK
<1>12. FilesInv'
  BY <1>1, <1>5 DEF FilesInv
<1>13. PlansInv'
  <2>1. plan' \in [Requests -> Seq(Rounds(saves'))]
    BY <1>1, <1>3, <1>5, <1>10 DEF PlansInv
  <2>2. ASSUME NEW q \in Requests PROVE Planned(q)'
    <3>1. CASE q = r
      BY <1>5, <1>8, <1>9, <1>10, <3>1 DEF Planned, Midway
    <3>2. CASE q # r
      BY <1>1, <1>5, <1>9, <3>2 DEF Planned, PlansInv
    <3> QED
      BY <3>1, <3>2
  <2> QED
    BY <2>1, <2>2 DEF PlansInv
<1>14. \A q \in Requests : AtWork(q)' => q \in others \/ q = r
  BY <1>9 DEF AtWork
<1>15. LatestInv'
  <2>1. \A q \in others : kind[q] # None
    BY <1>1, NotYet DEF AtWork
  <2>2. \A q \in mixed' : kind'[q] # None
    <3>1. mixed \subseteq Requests /\ \A q \in mixed : kind[q] # None
      BY <1>1 DEF TypeOK, LatestInv
    <3>2. \A q \in mixed' : q \in Requests /\ (q = r \/ kind[q] # None)
      BY <1>4, <2>1, <3>1
    <3> QED
      BY <1>6, <1>9, <3>2
  <2>3. latest' \notin mixed' => others = {}
    BY <1>4
  <2> QED
    BY <1>4, <1>6, <1>9, <1>14, <2>2, <2>3 DEF LatestInv
<1>16. SettleInv'
  <2>1. Settling(k, p, "read", disk, file, memory, None, None)
    BY <1>7, <1>10 DEF Settling, Snapped, Loaded, Fresher
  <2> QED
    BY <1>4, <1>5, <1>8, <1>9, <2>1 DEF SettleInv
<1>17. AloneInv'
  <2> SUFFICES ASSUME mixed' = {} PROVE AloneInv'
    BY DEF AloneInv, Alone
  <2>1. others = {} /\ Alone
    BY <1>4 DEF Alone
  <2>2. OneInv'
    BY <1>1, <1>5, <2>1 DEF AloneInv, OneInv
  <2>3. ~Reset' => IdsInv'
    <3>1. ~Reset' => ~Reset
      BY <1>4, <1>6, <1>9, TaskAssumption DEF Reset, Kinds
    <3> QED
      BY <1>1, <1>5, <2>1, <3>1 DEF AloneInv, IdsInv
  <2>4. file = Pointers(Current(disk)) /\ memory = file
    <3>1. CASE latest = None
      BY <1>1, <2>1, <3>1 DEF AloneInv
    <3>2. CASE latest # None
      <4>1. latest \in Requests
        BY <1>1, <3>2 DEF TypeOK, Maybe
      <4>2. plan[latest] = <<>>
        BY <2>1, <4>1 DEF AtWork
      <4>3. stage[latest] = "read"
        BY <1>1, <4>1, <4>2, NotYet
      <4>4. AtRest(<<>>, kind[latest], disk, file, memory, task[latest], live)
        BY <1>1, <2>1, <3>2, <4>2, <4>3 DEF AloneInv, Serving
      <4> QED
        BY <4>4 DEF AtRest
    <3> QED
      BY <3>1, <3>2
  <2>5. Serving(k, p, "read", disk, file, memory, None, None, live)
    <3>1. Linked(p, live) /\ ~Commits(p[1], After(p), live) /\ (k = "tool" => Tooling(p, Current(disk)))
      BY <1>7 DEF Fresher
    <3>2. memory.task = disk.current
      <4>1. Current(disk).id = disk.current
        BY <1>1, Stored
      <4> QED
        BY <2>4, <4>1 DEF Pointers
    <3>3. AtRest(p, k, disk, file, memory, None, live)
      BY <1>10, <2>4, <3>1, <3>2 DEF AtRest
    <3> QED
      BY <3>1, <3>3 DEF Serving
  <2> QED
    BY <1>4, <1>5, <1>6, <1>8, <1>9, <2>2, <2>3, <2>5 DEF AloneInv
<1> QED
  BY <1>11, <1>12, <1>13, <1>15, <1>16, <1>17 DEF IInv

LEMMA RestartKeeps ==
  ASSUME IInv, NEW r \in Requests, Restart(r)
  PROVE  IInv'
<1> DEFINE p == <<Round("current", None), Round("wake", file.thread)>>
<1>1. TypeOK /\ FilesInv /\ PlansInv /\ LatestInv /\ AloneInv
  BY DEF IInv
<1>2. /\ kind[r] = None /\ kind' = [kind EXCEPT ![r] = "restart"]
      /\ plan' = [q \in Requests |-> IF q = r THEN p ELSE <<>>]
      /\ stage' = [q \in Requests |-> "read"]
      /\ task' = [q \in Requests |-> None]
      /\ draft' = [q \in Requests |-> None]
      /\ route' = [q \in Requests |-> None]
      /\ memory' = file /\ latest' = r
      /\ UNCHANGED <<disk, file, saves, threads, born, mixed>>
  BY DEF Restart
<1>3. /\ disk' = disk /\ file' = file /\ saves' = saves /\ live' = live
      /\ made' = made /\ born' = born /\ mixed' = mixed
  BY <1>2 DEF threads
<1>4. file.thread \in Maybe(Threads) /\ None \notin Requests /\ None \notin Kinds
  BY <1>1, TaskAssumption DEF TypeOK, Pointed
<1>5. p \in Seq(Rounds(saves)) /\ p # <<>>
  <2>1. Round("current", None) \in Rounds(saves) /\ Round("wake", file.thread) \in Rounds(saves)
    BY <1>4, RoundIs DEF OfAny, OfNothing
  <2> QED
    BY <2>1
<1>6. Chained(p) /\ Proper(p, "restart") /\ Linked(p, live) /\ p[1].do = "current" /\ After(p) = "wake"
  BY <1>4, RoundIs DEF Chained, Follows, Proper, Belongs, Linked, Commits, After, Kinds
<1> HIDE DEF p
<1>7. /\ plan'[r] = p /\ kind'[r] = "restart" /\ "restart" # None
      /\ \A q \in Requests : kind'[q] = IF q = r THEN "restart" ELSE kind[q]
      /\ \A q \in Requests : /\ stage'[q] = "read" /\ task'[q] = None /\ draft'[q] = None
                             /\ q # r => plan'[q] = <<>>
  BY <1>1, <1>2, <1>4 DEF TypeOK, Kinds
<1>8. TypeOK'
  <2>1. kind' \in [Requests -> Maybe(Kinds)] /\ latest' \in Maybe(Requests)
    BY <1>1, <1>2 DEF TypeOK, Maybe, Kinds
  <2>2. /\ task' \in [Requests -> Maybe(Tasks)] /\ draft' \in [Requests -> Maybe(TaskFiles)]
        /\ route' \in [Requests -> Maybe(Routes)]
        /\ stage' \in [Requests -> {"read", "write", "refresh", "patch", "store"}]
    BY <1>2 DEF Maybe
  <2> QED
    BY <1>1, <1>2, <1>3, <2>1, <2>2 DEF TypeOK
<1>9. FilesInv'
  BY <1>1, <1>3, <1>7 DEF FilesInv
<1>10. PlansInv'
  <2>1. plan' \in [Requests -> Seq(Rounds(saves'))]
    <3>1. <<>> \in Seq(Rounds(saves))
      OBVIOUS
    <3> QED
      BY <1>2, <1>3, <1>5, <3>1
  <2>2. ASSUME NEW q \in Requests PROVE Planned(q)'
    <3>1. CASE q = r
      BY <1>5, <1>6, <1>7, <3>1 DEF Planned, Midway
    <3>2. CASE q # r
      <4>1. Chained(<<>>) /\ Proper(<<>>, kind'[q])
        BY DEF Chained, Proper
      <4> QED
        BY <1>7, <3>2, <4>1 DEF Planned, Midway
    <3> QED
      BY <3>1, <3>2
  <2> QED
    BY <2>1, <2>2 DEF PlansInv
<1>11. LatestInv'
  <2>1. \A q \in mixed' : kind'[q] # None
    BY <1>1, <1>3, <1>7 DEF LatestInv, TypeOK
  <2>2. \A q \in Requests : AtWork(q)' => q = r
    BY <1>7 DEF AtWork
  <2> QED
    BY <1>2, <1>4, <1>7, <2>1, <2>2 DEF LatestInv
<1>12. SettleInv'
  BY <1>2, <1>7 DEF SettleInv, Settling
<1>13. AloneInv'
  <2> SUFFICES ASSUME Alone PROVE AloneInv'
    BY <1>3 DEF AloneInv, Alone
  <2>1. OneInv'
    BY <1>1, <1>3, <1>7 DEF AloneInv, OneInv
  <2>2. Reset'
    BY <1>7 DEF Reset
  <2>3. Lost(p, "restart")
    BY <1>6 DEF Lost
  <2>4. Serving("restart", p, "read", disk', file', memory', None, None, live)
    BY <1>5, <1>6, <2>3 DEF Serving, AtRest
  <2> QED
    BY <1>2, <1>3, <1>4, <1>7, <2>1, <2>2, <2>4 DEF AloneInv
<1> QED
  BY <1>8, <1>9, <1>10, <1>11, <1>12, <1>13 DEF IInv

LEMMA LoseKeeps ==
  ASSUME IInv, NEW t \in Threads, Lose(t)
  PROVE  IInv'
<1>1. TypeOK /\ FilesInv /\ PlansInv /\ LatestInv /\ SettleInv /\ AloneInv
  BY DEF IInv
<1>2. /\ live' = live \ {t}
      /\ UNCHANGED <<projects, made, born, kind, plan, stage, task, draft, route, mixed, latest>>
  BY DEF Lose
<1>3. /\ disk' = disk /\ file' = file /\ memory' = memory /\ saves' = saves /\ made' = made
      /\ born' = born /\ kind' = kind /\ plan' = plan /\ stage' = stage /\ task' = task
      /\ draft' = draft /\ route' = route /\ mixed' = mixed /\ latest' = latest
  BY <1>2 DEF projects
<1>4. TypeOK'
  BY <1>1, <1>2, <1>3 DEF TypeOK
<1>5. FilesInv' /\ PlansInv' /\ SettleInv'
  BY <1>1, <1>3 DEF FilesInv, PlansInv, Planned, SettleInv
<1>6. LatestInv'
  BY <1>1, <1>3 DEF LatestInv, Quiet, AtWork
<1>7. AloneInv'
  <2> SUFFICES ASSUME Alone PROVE AloneInv'
    BY <1>3 DEF AloneInv, Alone
  <2>1. OneInv' /\ (~Reset' => IdsInv')
    BY <1>1, <1>3 DEF AloneInv, OneInv, IdsInv, Reset
  <2>2. \A x, y : Commits(x, y, live') => Commits(x, y, live)
    BY <1>2 DEF Commits
  <2>3. \A p : Linked(p, live) => Linked(p, live')
    BY <2>2 DEF Linked
  <2>4. \A p, k, d, f, m, w : AtRest(p, k, d, f, m, w, live) => AtRest(p, k, d, f, m, w, live')
    BY <2>2 DEF AtRest
  <2>5. \A p, k, st, d, m, w : Syncing(p, k, st, d, m, w, live) => Syncing(p, k, st, d, m, w, live')
    <3> SUFFICES ASSUME NEW p, NEW k, NEW st, NEW d, NEW m, NEW w, Syncing(p, k, st, d, m, w, live)
                 PROVE  Syncing(p, k, st, d, m, w, live')
      OBVIOUS
    <3>1. Commits(p[1], After(p), live') => Commits(p[1], After(p), live)
      BY <2>2
    <3>2. CASE p[1].do = "pointer"
      BY <3>1, <3>2 DEF Syncing
    <3>3. CASE p[1].do = "defaults"
      BY <3>3 DEF Syncing
    <3>4. CASE p[1].do \notin {"pointer", "defaults"}
      BY <3>4 DEF Syncing
    <3> QED
      BY <3>2, <3>3, <3>4
  <2>6. \A k, p, st, d, f, m, w, dr :
            Serving(k, p, st, d, f, m, w, dr, live) => Serving(k, p, st, d, f, m, w, dr, live')
    BY <2>3, <2>4, <2>5 DEF Serving
  <2> QED
    BY <1>1, <1>3, <2>1, <2>6 DEF AloneInv
<1> QED
  BY <1>4, <1>5, <1>6, <1>7 DEF IInv

-----------------------------------------------------------------------------
(* The invariant, and what follows from it.                                *)

\* Every task of the start has one thread of its own.
LEMMA InitInv == Init => IInv
<1> SUFFICES ASSUME Init PROVE IInv
  OBVIOUS
<1> DEFINE n == Len(Existing)
           first(id) == Bind(NewTask(id), Existing[id])
           pointers == [task |-> n, thread |-> Existing[n]]
           tasks == [i \in 1 .. n |-> first(n + 1 - i)]
<1>1. /\ disk = [current |-> n, tasks |-> tasks] /\ file = pointers /\ memory = pointers /\ saves = {}
      /\ made = ToSet(Existing) /\ live = ToSet(Existing) /\ born = n
      /\ kind = [r \in Requests |-> None] /\ plan = [r \in Requests |-> <<>>]
      /\ stage = [r \in Requests |-> "read"] /\ task = [r \in Requests |-> None]
      /\ draft = [r \in Requests |-> None] /\ route = [r \in Requests |-> None]
      /\ mixed = {} /\ latest = None
  BY DEF Init
<1>2. /\ Existing \in Seq(Threads) /\ n \in Nat /\ n # 0 /\ n <= MaxTasks /\ MaxTasks \in Nat
      /\ DOMAIN Existing = 1 .. n /\ (\A i \in 1 .. n : Existing[i] \in Threads)
      /\ ToSet(Existing) \subseteq Threads
      /\ \A i, j \in 1 .. n : Existing[i] = Existing[j] => i = j
  <2>1. Existing \in Seq(Threads) /\ Existing # <<>> /\ Len(Existing) <= MaxTasks /\ MaxTasks \in Nat
        /\ \A i, j \in DOMAIN Existing : Existing[i] = Existing[j] => i = j
    BY TaskAssumption
  <2>2. /\ n \in Nat /\ DOMAIN Existing = 1 .. n /\ (\A i \in DOMAIN Existing : Existing[i] \in Threads)
        /\ ToSet(Existing) = {Existing[i] : i \in DOMAIN Existing}
    BY <2>1, InSequence
  <2>3. n # 0
    BY <2>1, EmptySeq
  <2> HIDE DEF n
  <2> QED
    BY <2>1, <2>2, <2>3 DEF n
<1> HIDE DEF n
<1>3. ASSUME NEW id \in 1 .. n
      PROVE  /\ first(id) \in Tasks /\ first(id).id = id /\ first(id).active = Existing[id]
             /\ Pruned(first(id).threads) /\ ThreadIds(first(id).threads) \subseteq {Existing[id]}
  <2> DEFINE t == NewTask(id)
  <2>1. t \in Tasks /\ t.id = id /\ ThreadIds(t.threads) = {}
    <3>1. t \in Tasks /\ t.id = id /\ t.threads = <<>>
      BY <1>2 DEF NewTask, Tasks, TaskIds, Maybe
    <3> QED
      BY <3>1 DEF ThreadIds
  <2>2. Existing[id] \in Threads
    BY <1>2
  <2> HIDE DEF t
  <2>3. /\ Bind(t, Existing[id]) \in Tasks /\ Bind(t, Existing[id]).id = t.id
        /\ Bind(t, Existing[id]).active = Existing[id] /\ Pruned(Bind(t, Existing[id]).threads)
        /\ ThreadIds(Bind(t, Existing[id]).threads) \subseteq ThreadIds(t.threads) \cup {Existing[id]}
    BY <2>1, <2>2, BindIs
  <2> QED
    BY <2>1, <2>3 DEF t
<1> HIDE DEF first
<1>4. \A i \in 1 .. n : n + 1 - i \in 1 .. n
  BY <1>2
<1>5. /\ tasks \in Seq(Tasks) /\ DOMAIN tasks = 1 .. n
      /\ \A i \in 1 .. n : tasks[i] = first(n + 1 - i) /\ tasks[i].id = n + 1 - i
  <2>1. \A i \in 1 .. n : tasks[i] = first(n + 1 - i) /\ tasks[i] \in Tasks /\ tasks[i].id = n + 1 - i
    BY <1>3, <1>4
  <2>2. tasks \in [1 .. n -> Tasks]
    BY <2>1
  <2>3. tasks \in Seq(Tasks) /\ DOMAIN tasks = 1 .. n
    BY <1>2, <2>2, SeqDef
  <2> QED
    BY <2>1, <2>3
<1> HIDE DEF tasks
<1>6. Ids(tasks) = 1 .. n
  <2>1. \A x \in 1 .. n : \E i \in 1 .. n : x = n + 1 - i
    <3> TAKE x \in 1 .. n
    <3>1. n + 1 - x \in 1 .. n /\ x = n + 1 - (n + 1 - x)
      BY <1>2
    <3> QED
      BY <3>1
  <2> QED
    BY <1>4, <1>5, <2>1 DEF Ids
<1>7. \A t \in Held(tasks) : \E id \in 1 .. n : t = first(id) /\ t.id = id
  BY <1>3, <1>4, <1>5 DEF Held
<1>8. Distinct(tasks)
  BY <1>2, <1>5 DEF Distinct
<1>9. \A t \in Held(tasks) : Pruned(t.threads)
  BY <1>3, <1>7
<1>10. One(tasks)
  <2> SUFFICES ASSUME NEW s \in Held(tasks), NEW t \in Held(tasks),
                      ThreadIds(s.threads) \cap ThreadIds(t.threads) # {}
               PROVE  s = t
    BY DEF One
  <2>1. PICK a \in 1 .. n : s = first(a)
    BY <1>7
  <2>2. PICK b \in 1 .. n : t = first(b)
    BY <1>7
  <2>3. Existing[a] = Existing[b]
    BY <1>3, <2>1, <2>2
  <2> QED
    BY <1>2, <2>1, <2>2, <2>3
<1>11. /\ disk.tasks = tasks /\ disk.current = n /\ disk \in TaskFiles
       /\ n \in TaskIds /\ n \in 1 .. n
  BY <1>1, <1>2, <1>5 DEF TaskFiles, TaskIds
<1>12. Whole(disk, born)
  BY <1>1, <1>6, <1>8, <1>9, <1>11 DEF Whole
<1>13. Pointers(Current(disk)) = pointers
  <2>1. Current(disk) \in Held(tasks) /\ Current(disk).id = n
    BY <1>1, <1>2, <1>11, <1>12, CurrentIs
  <2>2. Current(disk) = first(n)
    BY <1>7, <2>1
  <2> QED
    BY <1>3, <1>11, <2>1, <2>2 DEF Pointers
<1>14. pointers \in Pointed
  BY <1>2, <1>11 DEF Pointed, Maybe
<1>15. TypeOK
  BY <1>1, <1>2, <1>11, <1>14 DEF TypeOK, Maybe
<1>16. FilesInv
  BY <1>1, <1>12 DEF FilesInv
<1>17. PlansInv
  <2>1. <<>> \in Seq(Rounds(saves))
    OBVIOUS
  <2>2. Chained(<<>>) /\ Proper(<<>>, None)
    BY DEF Chained, Proper
  <2>3. \A r \in Requests : Planned(r)
    BY <1>1, <2>2 DEF Planned, Midway
  <2> QED
    BY <1>1, <2>1, <2>3 DEF PlansInv
<1>18. LatestInv /\ SettleInv
  BY <1>1 DEF LatestInv, SettleInv, Quiet, AtWork
<1>19. AloneInv
  BY <1>1, <1>6, <1>10, <1>11, <1>13 DEF AloneInv, OneInv, IdsInv
<1> QED
  BY <1>15, <1>16, <1>17, <1>18, <1>19 DEF IInv

LEMMA NextInv ==
  ASSUME IInv, [Next]_vars
  PROVE  IInv'
<1>1. ASSUME NEW r \in Requests, Arrive(r) PROVE IInv'
  BY <1>1, ArriveKeeps
<1>2. ASSUME NEW r \in Requests, Read(r) PROVE IInv'
  BY <1>2, ReadKeeps
<1>3. ASSUME NEW r \in Requests, ReadCurrent(r) PROVE IInv'
  BY <1>3, ReadCurrentKeeps
<1>4. ASSUME NEW r \in Requests, ReadReload(r) PROVE IInv'
  BY <1>4, ReadReloadKeeps
<1>5. ASSUME NEW r \in Requests, Write(r) \/ Refresh(r) \/ Patch(r) \/ Point(r) \/ Store(r) PROVE IInv'
  BY <1>5, WriteKeeps, RefreshKeeps, PatchKeeps, PointKeeps, StoreKeeps
<1>6. ASSUME NEW r \in Requests, ZipFiles(r) \/ CopyFile(r) \/ Restore(r) PROVE IInv'
  BY <1>6, ZipFilesKeeps, CopyFileKeeps, RestoreKeeps
<1>7. ASSUME NEW r \in Requests, Restart(r) \/ Wake(r) \/ Probe(r) \/ Revive(r) PROVE IInv'
  BY <1>7, RestartKeeps, WakeKeeps, ProbeKeeps, ReviveKeeps
<1>8. ASSUME NEW r \in Requests, Decide(r) \/ Find(r) \/ MakeThread(r) \/ SendTurn(r) \/ Fail(r)
      PROVE  IInv'
  BY <1>8, DecideKeeps, FindKeeps, MakeThreadKeeps, SendTurnKeeps, FailKeeps
<1>9. ASSUME NEW r \in Requests, ToolStep(r) PROVE IInv'
  BY <1>9, RememberFocusKeeps, UpdateFocusKeeps, RestoreFocusKeeps, InsistKeeps, ReprojectKeeps
     DEF ToolStep
<1>10. ASSUME NEW t \in Threads, Lose(t) PROVE IInv'
  BY <1>10, LoseKeeps
<1>11. ASSUME UNCHANGED vars PROVE IInv'
  <2>1. /\ disk' = disk /\ file' = file /\ memory' = memory /\ saves' = saves /\ made' = made
        /\ live' = live /\ born' = born /\ kind' = kind /\ plan' = plan /\ stage' = stage
        /\ task' = task /\ draft' = draft /\ route' = route /\ mixed' = mixed /\ latest' = latest
    BY <1>11 DEF vars, projects, threads
  <2>2. TypeOK' /\ FilesInv' /\ PlansInv'
    BY <2>1 DEF IInv, TypeOK, FilesInv, PlansInv, Planned
  <2>3. LatestInv' /\ SettleInv'
    BY <2>1 DEF IInv, LatestInv, SettleInv, Quiet, AtWork
  <2>4. AloneInv'
    BY <2>1 DEF IInv, AloneInv, Alone, OneInv, IdsInv, Reset
  <2> QED
    BY <2>2, <2>3, <2>4 DEF IInv
<1> QED
  BY <1>1, <1>2, <1>3, <1>4, <1>5, <1>6, <1>7, <1>8, <1>9, <1>10, <1>11 DEF Next

LEMMA Invariant == Spec => []IInv
<1>1. Init => IInv
  BY InitInv
<1>2. IInv /\ [Next]_vars => IInv'
  BY NextInv
<1> QED
  BY <1>1, <1>2, PTL DEF Spec

\* Every variable keeps its type.
THEOREM TypeCorrect == Spec => []TypeOK
<1>1. IInv => TypeOK
  BY DEF IInv
<1> QED
  BY <1>1, Invariant, PTL

\* Requests that have come one after the other and are done.
LEMMA AtEase ==
  ASSUME IInv, Quiet
  PROVE  /\ \A r \in Requests : plan[r] = <<>> /\ stage[r] = "read"
         /\ latest # None => latest \in Requests /\ plan[latest] = <<>> /\ stage[latest] = "read"
         /\ Alone => file = Pointers(Current(disk)) /\ memory = file
<1>1. TypeOK /\ PlansInv /\ AloneInv
  BY DEF IInv
<1>2. \A r \in Requests : plan[r] = <<>> /\ stage[r] = "read"
  BY <1>1, NotYet DEF Quiet, AtWork
<1>3. latest # None => latest \in Requests /\ plan[latest] = <<>> /\ stage[latest] = "read"
  BY <1>1, <1>2 DEF TypeOK, Maybe
<1>4. ASSUME Alone PROVE file = Pointers(Current(disk)) /\ memory = file
  <2>1. CASE latest = None
    BY <1>1, <1>4, <2>1 DEF AloneInv
  <2>2. CASE latest # None
    <3>1. AtRest(<<>>, kind[latest], disk, file, memory, task[latest], live)
      BY <1>1, <1>3, <1>4, <2>2 DEF AloneInv, Serving
    <3> QED
      BY <3>1 DEF AtRest
  <2> QED
    BY <2>1, <2>2
<1> QED
  BY <1>2, <1>3, <1>4

\* The three files of a project are right in themselves and with each other,
\* whatever writes over whatever; in particular tasks of requests served one
\* after the other are not lost and share no thread.
THEOREM StoreConsistent == Spec => []StoreIsConsistent
<1>1. ASSUME IInv PROVE StoreIsConsistent
  <2>1. TypeOK /\ FilesInv /\ AloneInv
    BY <1>1 DEF IInv
  <2>2. /\ Whole(disk, born) /\ disk.tasks \in Seq(Tasks) /\ Current(disk) # None
    BY <2>1, Stored
  <2>3. \A i \in DOMAIN disk.tasks : disk.tasks[i] \in Held(disk.tasks)
    BY DEF Held
  <2>4. StoreWellFormed
    BY <2>2, <2>3 DEF StoreWellFormed, Whole, Distinct, Current, Pruned
  <2>5. PointersAgree
    BY <1>1, AtEase DEF PointersAgree, CurrentTask, Current
  <2>6. ThreadsHaveOneTask
    <3> SUFFICES ASSUME Alone, NEW i \in DOMAIN disk.tasks, NEW j \in DOMAIN disk.tasks,
                        ThreadIds(disk.tasks[i].threads) \cap ThreadIds(disk.tasks[j].threads) # {}
                 PROVE  i = j
      BY DEF ThreadsHaveOneTask
    <3>1. disk.tasks[i] = disk.tasks[j]
      BY <2>1, <2>3 DEF AloneInv, OneInv, One
    <3> QED
      BY <2>2, <3>1 DEF Whole, Distinct
  <2>7. NoTaskLost
    BY <1>1, <2>1, AtEase DEF NoTaskLost, AloneInv, IdsInv
  <2> QED
    BY <2>1, <2>4, <2>5, <2>6, <2>7 DEF StoreIsConsistent
<1> QED
  BY <1>1, Invariant, PTL

\* A snapshot, an opening or a loading that runs alone puts in order what
\* requests that ran over each other have left.
THEOREM Settled == Spec => []Settles
<1>1. ASSUME IInv PROVE Settles
  <2>1. TypeOK /\ FilesInv /\ SettleInv
    BY <1>1 DEF IInv
  <2>2. SnapshotSettles
    <3> DEFINE shown == FindTask(disk.tasks, memory.task)
    <3> SUFFICES ASSUME Quiet, latest # None, shown # None, kind[latest] = "snapshot",
                        latest \notin mixed
                 PROVE  /\ memory = Pointers(shown)
                        /\ \A i \in DOMAIN shown.threads :
                               ~shown.threads[i].missing =>
                                   \E j \in DOMAIN shown.threads :
                                       shown.threads[j] = Entry(shown.active)
      BY DEF SnapshotSettles
    <3>1. Snapped(<<>>, stage[latest], disk, draft[latest], memory, task[latest])
      BY <1>1, <2>1, AtEase DEF SettleInv, Settling
    <3>2. memory = Pointers(shown) /\ Normal(shown)
      BY <3>1 DEF Snapped
    <3>3. shown \in Tasks
      BY <2>1, Stored, FindIs
    <3>4. shown.threads \in Seq(Entries)
      BY <3>3 DEF Tasks
    <3> HIDE DEF shown
    <3>5. ASSUME NEW i \in DOMAIN shown.threads, ~shown.threads[i].missing
          PROVE  \E j \in DOMAIN shown.threads : shown.threads[j] = Entry(shown.active)
      <4>1. shown.threads[i] \in Held(shown.threads)
        BY DEF Held
      <4>2. PICK e \in Held(shown.threads) :
               e.thread = shown.active /\ (e.missing => \A x \in Held(shown.threads) : x.missing)
        BY <3>2, <4>1 DEF Normal, Shows, Held
      <4>3. e \in Entries /\ ~e.missing
        BY <3>4, <3>5, <4>1, <4>2, HeldOf
      <4>4. e = Entry(shown.active)
        BY <4>2, <4>3 DEF Entries, Entry
      <4> QED
        BY <4>4 DEF Held
    <3> QED
      BY <3>2, <3>5
  <2>3. ReloadSettles
    <3> SUFFICES ASSUME Quiet, latest # None, kind[latest] \in {"open", "load"}, latest \notin mixed
                 PROVE  file = Pointers(Current(disk)) /\ memory = Pointers(Current(disk))
      BY DEF ReloadSettles, CurrentTask, Current
    <3>1. Loaded(<<>>, stage[latest], disk, file, memory, task[latest])
      BY <1>1, <2>1, AtEase DEF SettleInv, Settling
    <3> QED
      BY <3>1 DEF Loaded
  <2> QED
    BY <2>2, <2>3 DEF Settles
<1> QED
  BY <1>1, Invariant, PTL

\* Only a write and the unpacking of a checkpoint change tasks.json.
LEMMA DiskStays ==
  ASSUME Next
  PROVE  disk' = disk \/ \E q \in Requests : Write(q) \/ Turn("unzip", q)
<1>1. ASSUME NEW r \in Requests, Arrive(r) \/ Read(r) \/ ReadCurrent(r) \/ ReadReload(r) \/ Refresh(r)
      PROVE  disk' = disk
  BY <1>1 DEF Arrive, Read, ReadCurrent, ReadReload, Refresh, projects
<1>2. ASSUME NEW r \in Requests, Patch(r) \/ Point(r) \/ Store(r) \/ ZipFiles(r) \/ CopyFile(r)
      PROVE  disk' = disk
  BY <1>2 DEF Patch, Point, Store, ZipFiles, CopyFile, projects
<1>3. ASSUME NEW r \in Requests, Restore(r), ~Turn("unzip", r)
      PROVE  disk' = disk
  BY <1>3 DEF Restore
<1>4. ASSUME NEW r \in Requests, Restart(r) \/ Wake(r) \/ Probe(r) \/ Revive(r)
      PROVE  disk' = disk
  BY <1>4 DEF Restart, Wake, Probe, Revive, Goes, projects
<1>5. ASSUME NEW r \in Requests, Decide(r) \/ Find(r) \/ MakeThread(r) \/ SendTurn(r) \/ Fail(r)
      PROVE  disk' = disk
  <2>1. \A rest : Goes(r, rest) => disk' = disk
    BY DEF Goes, projects
  <2>2. Decide(r) => disk' = disk
    BY <2>1 DEF Decide
  <2>3. Find(r) => disk' = disk
    BY <2>1 DEF Find
  <2>4. MakeThread(r) \/ SendTurn(r) \/ Fail(r) => disk' = disk
    BY <2>1 DEF MakeThread, SendTurn, Fail
  <2> QED
    BY <1>5, <2>2, <2>3, <2>4
<1>6. ASSUME NEW r \in Requests, ToolStep(r)
      PROVE  disk' = disk
  BY <1>6 DEF ToolStep, RememberFocus, UpdateFocus, RestoreFocus, Insist, Reproject, Goes, projects
<1>7. ASSUME NEW t \in Threads, Lose(t) PROVE disk' = disk
  BY <1>7 DEF Lose, projects
<1> QED
  BY <1>1, <1>2, <1>3, <1>4, <1>5, <1>6, <1>7 DEF Next

\* What a call of a tool ends with: its task shows what it showed before.
LEMMA ShownAgain ==
  ASSUME IInv, NEW r \in Requests, Alone, Turn("sync", r)
  PROVE  Shown(task[r]) = Arg(r)
<1> DEFINE p == plan[r]
           c == Current(disk)
<1>1. TypeOK /\ FilesInv /\ LatestInv /\ AtWork(r)
  BY DEF IInv, Turn
<1>2. Known(r, p) /\ latest = r
  BY <1>1, Knows, AloneIsLatest
<1>3. stage[r] = "read" /\ Head(p).do = "sync" /\ Arg(r) = Head(p).arg
  BY DEF Turn, Arg
<1> HIDE DEF p
<1>4. /\ p \in Seq(Rounds(saves)) /\ p # <<>> /\ Head(p) = p[1] /\ Belongs(p[1], kind[r])
  BY <1>2 DEF Known
<1>5. p[1].do = "sync" /\ Arg(r) = p[1].arg /\ kind[r] = "tool"
  BY <1>3, <1>4 DEF Belongs
<1>6. task[r] = c /\ Normal(c) /\ Tooling(p, c)
  BY <1>2, <1>3, <1>5, Resting DEF Planning
<1>7. 1 \in DOMAIN p
  BY <1>4, TailOf
<1>8. Fixed(p[1].arg, c)
  BY <1>5, <1>6, <1>7 DEF Tooling
<1>9. c # None
  BY <1>1, Stored, TaskAssumption
<1> HIDE DEF c
<1>10. c.active = p[1].arg
  BY <1>6, <1>8 DEF Fixed, Normal, Shows
<1> QED
  BY <1>5, <1>6, <1>9, <1>10 DEF Shown

\* What the writes of a turn and of a call of a tool keep of tasks.json.
LEMMA WritesKeep ==
  ASSUME IInv, NEW r \in Requests, Alone, Write(r)
  PROVE  /\ kind[r] \in {"turn", "tool"} =>
               disk'.current = disk.current /\ Ids(disk'.tasks) = Ids(disk.tasks)
         /\ kind[r] = "tool" => Keeps(disk.tasks, disk'.tasks)
<1> DEFINE p == plan[r]
<1>1. LatestInv /\ AtWork(r) /\ stage[r] = "write" /\ disk' = draft[r]
  BY DEF IInv, Write
<1>2. Known(r, p) /\ latest = r
  BY <1>1, Knows, AloneIsLatest
<1> HIDE DEF p
<1>3. Drafting(p, kind[r], disk, draft[r])
  BY <1>1, <1>2 DEF Known, Serving
<1> QED
  BY <1>1, <1>3 DEF Drafting

\* What a step of a request that is alone does to tasks.json.
LEMMA FocusStep ==
  ASSUME IInv, [Next]_vars, NEW r \in Requests, Alone, AtWork(r)
  PROVE  /\ kind[r] \in {"turn", "tool"} =>
               disk'.current = disk.current /\ Ids(disk'.tasks) = Ids(disk.tasks)
         /\ kind[r] = "tool" => Keeps(disk.tasks, disk'.tasks)
<1>1. LatestInv /\ \A q \in Requests : AtWork(q) => q = r
  BY AloneIsLatest DEF IInv, AtWork
<1>2. CASE disk' = disk
  BY <1>2 DEF Keeps
<1>3. ASSUME NEW q \in Requests, Write(q)
      PROVE  /\ kind[r] \in {"turn", "tool"} =>
                   disk'.current = disk.current /\ Ids(disk'.tasks) = Ids(disk.tasks)
             /\ kind[r] = "tool" => Keeps(disk.tasks, disk'.tasks)
  <2>1. q = r
    BY <1>1, <1>3 DEF Write
  <2> QED
    BY <1>3, <2>1, WritesKeep
<1>4. ASSUME NEW q \in Requests, Turn("unzip", q)
      PROVE  kind[r] = "load"
  <2>1. AtWork(q) /\ q = r
    BY <1>1, <1>4 DEF Turn
  <2>2. Known(r, plan[r])
    BY Knows
  <2> QED
    BY <1>4, <2>1, <2>2 DEF Turn, Known, Belongs
<1>5. disk' = disk \/ \E q \in Requests : Write(q) \/ Turn("unzip", q)
  BY DiskStays DEF vars, projects
<1> QED
  BY <1>2, <1>3, <1>4, <1>5

\* A turn and a call of a tool, each alone, keep the current task and every task
\* there is (start_turn, call_mcp_tool of runtime_service.py); and a call of a
\* tool shows the thread that was shown before it and gives no task a thread.
THEOREM FocusKept == Spec => FocusIsKept
<1>1. ASSUME IInv, [Next]_vars
      PROVE  [\A r \in Requests :
               Alone /\ Alone' /\ AtWork(r) =>
                 /\ kind[r] \in {"turn", "tool"} =>
                       disk'.current = disk.current /\ Ids(disk'.tasks) = Ids(disk.tasks)
                 /\ kind[r] = "tool" => \A i \in DOMAIN disk.tasks : \E j \in DOMAIN disk'.tasks :
                       /\ disk'.tasks[j].id = disk.tasks[i].id
                       /\ disk'.tasks[j].threads = disk.tasks[i].threads
                 /\ Turn("sync", r) => Shown(task[r]) = Arg(r)]_vars
  <2> SUFFICES ASSUME NEW r \in Requests, Alone, AtWork(r)
               PROVE  /\ kind[r] \in {"turn", "tool"} =>
                            disk'.current = disk.current /\ Ids(disk'.tasks) = Ids(disk.tasks)
                      /\ kind[r] = "tool" =>
                            \A i \in DOMAIN disk.tasks : \E j \in DOMAIN disk'.tasks :
                               /\ disk'.tasks[j].id = disk.tasks[i].id
                               /\ disk'.tasks[j].threads = disk.tasks[i].threads
                      /\ Turn("sync", r) => Shown(task[r]) = Arg(r)
    OBVIOUS
  <2>1. ASSUME Keeps(disk.tasks, disk'.tasks), NEW i \in DOMAIN disk.tasks
        PROVE  \E j \in DOMAIN disk'.tasks :
                  /\ disk'.tasks[j].id = disk.tasks[i].id
                  /\ disk'.tasks[j].threads = disk.tasks[i].threads
    BY <2>1 DEF Keeps, Held
  <2> QED
    BY <1>1, <2>1, FocusStep, ShownAgain
<1> QED
  BY <1>1, Invariant, PTL DEF Spec, FocusIsKept
=============================================================================
