---------------------------- MODULE DesktopProofs ----------------------------
(***************************************************************************)
(* Proofs about Desktop: EventFeed for any projects, logs, events and      *)
(* requests, ThreadView for turns of any length, Launch for any number of  *)
(* sidecars on one machine, hosts and rotations.                           *)
(*                                                                         *)
(* EventFeed: lines have events of their own and, as long as nothing was   *)
(* merged, tell the positions of events in the list (LinesInv, YoungInv),  *)
(* so that a merge finds the lines of what it holds.  Whatever is or will  *)
(* be the cursor of a desktop - its own, that of a stream, of a frame, of  *)
(* a poll - counts events it has or will have then, and none of a list     *)
(* that is yet to be merged (SyncInv).                                     *)
(*                                                                         *)
(* ThreadView: of each call what waits to be recorded comes after what has *)
(* been (TellInv), so the latest that is recorded is complete if anything  *)
(* that is recorded is; what was answered is the turn as it was earlier    *)
(* (ReplyInv).  Messages keep their order when calls are put in.           *)
(*                                                                         *)
(* Launch: a sidecar launches only while it serves (LifeInv).  One whose   *)
(* launch no other overlaps is the only one that launches, so what it has  *)
(* written and found is still so when it starts the app-server (LoneInv),  *)
(* which then is connected to it (ReachInv) and, since those of others     *)
(* were terminated before, the only one (OneInv).                          *)
(***************************************************************************)
EXTENDS Desktop, FiniteSetTheorems, SequenceTheorems, WellFoundedInduction, TLAPS

-----------------------------------------------------------------------------
(* Numbers, positions and what is chosen by position.                      *)

\* A set of numbers that is not empty has a least one.
LEMMA Least ==
  ASSUME NEW T, T \subseteq Nat, T # {}
  PROVE  \E x \in T : \A y \in T : x <= y
<1> DEFINE R == OpToRel(<, Nat)
<1>1. IsWellFoundedOn(R, Nat)
  BY NatLessThanWellFounded
<1> HIDE DEF R
<1>2. PICK x \in T : \A y \in T : ~(<<y, x>> \in R)
  BY <1>1, WFMin
<1>3. ASSUME NEW y \in T PROVE x <= y
  <2>1. x \in Nat /\ y \in Nat
    OBVIOUS
  <2>2. ~(y < x)
    <3> SUFFICES ASSUME y < x PROVE FALSE
      OBVIOUS
    <3>1. <<y, x>> \in Nat \X Nat
      BY <2>1
    <3>2. <<y, x>>[1] < <<y, x>>[2]
      OBVIOUS
    <3> QED
      BY <1>2, <3>1, <3>2 DEF R, OpToRel
  <2> QED
    BY <2>1, <2>2
<1> QED
  BY <1>3

\* Induction over the numbers, for a property given by the set of those that
\* have it.
LEMMA Induction ==
  ASSUME NEW S, 0 \in S, \A n \in Nat : n \in S => n + 1 \in S
  PROVE  \A n \in Nat : n \in S
<1> SUFFICES ASSUME NEW k \in Nat, k \notin S PROVE FALSE
  OBVIOUS
<1> DEFINE T == {n \in Nat : n \notin S}
<1>1. PICK x \in T : \A y \in T : x <= y
  <2>1. T \subseteq Nat /\ T # {}
    OBVIOUS
  <2> HIDE DEF T
  <2> QED
    BY <2>1, Least
<1>2. x \in Nat /\ x # 0 /\ x - 1 \in Nat
  BY <1>1
<1>3. x - 1 \in S
  BY <1>1, <1>2
<1>4. (x - 1) + 1 \in S
  BY <1>2, <1>3
<1> QED
  BY <1>1, <1>2, <1>4

-----------------------------------------------------------------------------
\* Each of a finite set of positions is the n-th for one n.
LEMMA Numbering ==
  ASSUME NEW S, S \subseteq Nat \ {0}, IsFiniteSet(S),
         NEW m \in Nat, S = {j \in S : j <= m}
  PROVE  \A n \in 1 .. Cardinality(S) : \E i \in S : Cardinality({j \in S : j <= i}) = n
<1>0. \A j \in S : j \in Nat /\ j # 0
  OBVIOUS
<1> DEFINE Upto(k) == {j \in S : j <= k}
           Good(k) == \A n \in 1 .. Cardinality(Upto(k)) :
                         \E i \in Upto(k) : Cardinality(Upto(i)) = n
           G == {k \in Nat : Good(k)}
<1>1. \A k \in Nat : IsFiniteSet(Upto(k)) /\ Cardinality(Upto(k)) \in Nat
  <2> TAKE k \in Nat
  <2>1. Upto(k) \subseteq S
    OBVIOUS
  <2> QED
    BY <2>1, FS_Subset, FS_CardinalityType
<1>2. 0 \in G
  <2>0. \A j \in S : ~(j <= 0)
    BY <1>0
  <2>1. Upto(0) = {}
    BY <2>0
  <2> HIDE DEF Upto
  <2>2. Cardinality(Upto(0)) = 0
    BY <2>1, FS_EmptySet
  <2> QED
    BY <2>2
<1>3. ASSUME NEW k \in Nat, k \in G PROVE k + 1 \in G
  <2>1. CASE k + 1 \notin S
    <3>1. \A j \in S : j <= k + 1 <=> j <= k
      BY <1>0, <2>1
    <3>2. Upto(k + 1) = Upto(k)
      BY <3>1
    <3> QED
      BY <1>3, <3>2
  <2>2. CASE k + 1 \in S
    <3>0. \A j \in S : j <= k + 1 <=> j <= k \/ j = k + 1
      BY <1>0
    <3>1. Upto(k + 1) = Upto(k) \cup {k + 1} /\ k + 1 \notin Upto(k)
      <4>1. Upto(k + 1) = Upto(k) \cup {k + 1}
        BY <2>2, <3>0
      <4>2. ~(k + 1 <= k)
        OBVIOUS
      <4> QED
        BY <4>1, <4>2
    <3>2. Cardinality(Upto(k + 1)) = Cardinality(Upto(k)) + 1
      <4> HIDE DEF Upto
      <4> QED
        BY <1>1, <3>1, FS_AddElement
    <3>3. ASSUME NEW n \in 1 .. Cardinality(Upto(k + 1))
          PROVE  \E i \in Upto(k + 1) : Cardinality(Upto(i)) = n
      <4>1. CASE n = Cardinality(Upto(k + 1))
        <5>1. k + 1 \in Upto(k + 1)
          BY <2>2
        <5> QED
          BY <4>1, <5>1
      <4>2. CASE n # Cardinality(Upto(k + 1))
        <5>1. n \in 1 .. Cardinality(Upto(k))
          <6> HIDE DEF Upto
          <6> QED
            BY <1>1, <3>2, <4>2
        <5>2. PICK i \in Upto(k) : Cardinality(Upto(i)) = n
          BY <1>3, <5>1
        <5>3. i \in Upto(k + 1)
          BY <3>1
        <5> QED
          BY <5>2, <5>3
      <4> QED
        BY <4>1, <4>2
    <3> QED
      BY <3>3
  <2> QED
    BY <2>1, <2>2
<1>4. m \in G
  <2> HIDE DEF G
  <2>1. \A k \in Nat : k \in G => k + 1 \in G
    BY <1>3
  <2> QED
    BY <1>2, <2>1, Induction
<1>5. Upto(m) = S
  OBVIOUS
<1> QED
  BY <1>4, <1>5

\* The n-th of a finite set of positions, and every one is some n-th.
LEMMA NthOf ==
  ASSUME NEW S, S \subseteq Nat \ {0}, IsFiniteSet(S)
  PROVE  /\ Cardinality(S) \in Nat
         /\ \A n \in 1 .. Cardinality(S) : Nth(S, n) \in S
         /\ \A n, k \in 1 .. Cardinality(S) : n < k => Nth(S, n) < Nth(S, k)
         /\ \A i \in S : \E n \in 1 .. Cardinality(S) : Nth(S, n) = i
<1> DEFINE Upto(k) == {j \in S : j <= k}
           count(k) == Cardinality(Upto(k))
<1>0. Cardinality(S) \in Nat
  BY FS_CardinalityType
<1>1. \A k \in Nat : IsFiniteSet(Upto(k)) /\ count(k) \in Nat
  <2> TAKE k \in Nat
  <2>1. Upto(k) \subseteq S
    OBVIOUS
  <2> QED
    BY <2>1, FS_Subset, FS_CardinalityType
<1>2. ASSUME NEW i \in S, NEW k \in S, i < k PROVE count(i) < count(k)
  <2>1. i \in Nat /\ k \in Nat
    OBVIOUS
  <2>2. Upto(i) \cup {k} \subseteq Upto(k) /\ k \notin Upto(i)
    <3>1. \A j \in S : j \in Nat
      OBVIOUS
    <3>2. \A j \in S : j <= i => j <= k
      BY <1>2, <2>1, <3>1
    <3>3. k <= k /\ ~(k <= i)
      BY <1>2, <2>1
    <3> QED
      BY <3>2, <3>3
  <2> HIDE DEF Upto
  <2>3. Cardinality(Upto(i) \cup {k}) = Cardinality(Upto(i)) + 1
    BY <1>1, <2>1, <2>2, FS_AddElement
  <2>4. Cardinality(Upto(i) \cup {k}) <= Cardinality(Upto(k))
    BY <1>1, <2>1, <2>2, FS_Subset
  <2> QED
    BY <1>1, <2>1, <2>3, <2>4
<1>3. ASSUME NEW i \in S PROVE count(i) \in 1 .. Cardinality(S)
  <2>1. i \in Nat /\ i \in Upto(i) /\ Upto(i) \subseteq S
    OBVIOUS
  <2>2. count(i) <= Cardinality(S)
    BY <2>1, FS_Subset
  <2>3. count(i) # 0
    <3> HIDE DEF Upto
    <3> QED
      BY <1>1, <2>1, FS_EmptySet
  <2> QED
    BY <1>0, <1>1, <2>1, <2>2, <2>3
<1>4. \E m \in Nat : \A i \in S : i <= m
  <2> DEFINE B == {k \in Nat : \A T \in SUBSET S : Cardinality(T) = k => \E m \in Nat : \A i \in T : i <= m}
  <2>1. 0 \in B
    <3> SUFFICES ASSUME NEW T \in SUBSET S, Cardinality(T) = 0
                 PROVE  \E m \in Nat : \A i \in T : i <= m
      OBVIOUS
    <3>1. T = {}
      BY FS_Subset, FS_EmptySet
    <3> QED
      BY <3>1
  <2>2. ASSUME NEW k \in Nat, k \in B PROVE k + 1 \in B
    <3> SUFFICES ASSUME NEW T \in SUBSET S, Cardinality(T) = k + 1
                 PROVE  \E m \in Nat : \A i \in T : i <= m
      OBVIOUS
    <3>1. IsFiniteSet(T)
      BY FS_Subset
    <3>2. PICK x : x \in T
      BY FS_EmptySet
    <3>0. Cardinality(T \ {x}) = Cardinality(T) - 1
      BY <3>1, <3>2, FS_RemoveElement
    <3>3. T \ {x} \in SUBSET S /\ Cardinality(T \ {x}) = k
      <4>1. Cardinality(T \ {x}) = k + 1 - 1
        BY <3>0
      <4>2. k + 1 - 1 = k
        OBVIOUS
      <4> QED
        BY <4>1, <4>2
    <3>4. PICK m \in Nat : \A i \in T \ {x} : i <= m
      BY <2>2, <3>3
    <3>5. x \in Nat
      BY <3>2
    <3>6. CASE x <= m
      BY <3>4, <3>6
    <3>7. CASE m < x
      <4>1. \A i \in T : i \in Nat
        OBVIOUS
      <4> QED
        BY <3>4, <3>5, <3>7, <4>1
    <3> QED
      BY <3>5, <3>6, <3>7
  <2>3. Cardinality(S) \in B
    <3> HIDE DEF B
    <3>1. \A k \in Nat : k \in B => k + 1 \in B
      BY <2>2
    <3> QED
      BY <1>0, <2>1, <3>1, Induction
  <2> QED
    BY <2>3
<1>5. PICK m \in Nat : \A i \in S : i <= m
  BY <1>4
<1>6. Upto(m) = S
  BY <1>5
<1>7. \A n \in 1 .. Cardinality(S) : \E i \in S : count(i) = n
  BY <1>6, Numbering
<1>8. \A n \in 1 .. Cardinality(S) : Nth(S, n) \in S /\ count(Nth(S, n)) = n
  BY <1>7 DEF Nth
<1>9. ASSUME NEW n \in 1 .. Cardinality(S), NEW k \in 1 .. Cardinality(S), n < k
      PROVE  Nth(S, n) < Nth(S, k)
  <2> DEFINE a == Nth(S, n)
             b == Nth(S, k)
  <2>1. a \in S /\ b \in S /\ count(a) = n /\ count(b) = k
    BY <1>8
  <2> HIDE DEF a, b, count
  <2>2. a \in Nat /\ b \in Nat
    BY <2>1
  <2>3. ~(b < a) /\ a # b
    BY <1>0, <1>2, <1>9, <2>1
  <2>4. a < b
    BY <2>2, <2>3
  <2> QED
    BY <2>4 DEF a, b
<1>10. ASSUME NEW i \in S PROVE \E n \in 1 .. Cardinality(S) : Nth(S, n) = i
  <2> DEFINE n == count(i)
             a == Nth(S, n)
  <2>1. n \in 1 .. Cardinality(S)
    BY <1>3
  <2>2. a \in S /\ count(a) = n
    BY <1>8, <2>1
  <2> HIDE DEF a, count
  <2>3. a \in Nat /\ i \in Nat
    BY <2>2
  <2>4. ~(a < i) /\ ~(i < a)
    BY <1>2, <2>1, <2>2, <1>0
  <2>5. a = i
    BY <2>3, <2>4
  <2> QED
    BY <2>1, <2>5 DEF a
<1> QED
  BY <1>0, <1>8, <1>9, <1>10

\* What a sequence made of some elements of another holds.
LEMMA ChosenOf ==
  ASSUME NEW E, NEW s \in Seq(E), NEW S, S \subseteq DOMAIN s
  PROVE  /\ Chosen(s, S) \in Seq(E) /\ DOMAIN Chosen(s, S) = 1 .. Cardinality(S)
         /\ \A n \in DOMAIN Chosen(s, S) : Nth(S, n) \in S /\ Chosen(s, S)[n] = s[Nth(S, n)]
         /\ \A i \in S : \E n \in DOMAIN Chosen(s, S) : Nth(S, n) = i /\ Chosen(s, S)[n] = s[i]
         /\ \A n, k \in DOMAIN Chosen(s, S) : n < k => Nth(S, n) < Nth(S, k)
<1>1. DOMAIN s = 1 .. Len(s) /\ Len(s) \in Nat
  BY LenProperties
<1>2. S \subseteq Nat \ {0}
  BY <1>1
<1>3. IsFiniteSet(S)
  <2>1. IsFiniteSet(1 .. Len(s))
    BY <1>1, FS_Interval
  <2> QED
    BY <1>1, <2>1, FS_Subset
<1>4. /\ Cardinality(S) \in Nat
      /\ \A n \in 1 .. Cardinality(S) : Nth(S, n) \in S
      /\ \A n, k \in 1 .. Cardinality(S) : n < k => Nth(S, n) < Nth(S, k)
      /\ \A i \in S : \E n \in 1 .. Cardinality(S) : Nth(S, n) = i
  BY <1>2, <1>3, NthOf
<1>5. DOMAIN Chosen(s, S) = 1 .. Cardinality(S)
  BY DEF Chosen
<1>6. \A n \in 1 .. Cardinality(S) : Chosen(s, S)[n] = s[Nth(S, n)] /\ s[Nth(S, n)] \in E
  <2> TAKE n \in 1 .. Cardinality(S)
  <2>1. Nth(S, n) \in DOMAIN s
    BY <1>4
  <2> QED
    BY <2>1, <1>1 DEF Chosen
<1>7. Chosen(s, S) \in [1 .. Cardinality(S) -> E]
  BY <1>6 DEF Chosen
<1>8. Chosen(s, S) \in Seq(E)
  BY <1>4, <1>7, SeqDef
<1> QED
  BY <1>4, <1>5, <1>6, <1>8

-----------------------------------------------------------------------------
(* EventFeed: the list and the files.                                      *)

\* What the list, the files and the processes are.
LogLine == [event : Events, index : Nat]
ListTypes ==
    /\ logs \in [Projects -> Seq(LogLine)]
    /\ memory \in Seq(Events)
    /\ hydrated \in Projects \cup {None} /\ project \in Projects \cup {None}
    /\ merged \subseteq Projects /\ IsFiniteSet(merged)
    /\ writing \subseteq boot + 1 .. born
    /\ boot \in Nat /\ born \in Nat /\ boot <= born /\ born <= MaxEvents

\* Every event of this process is in the list.
WholeInv ==
    /\ \A e \in boot + 1 .. born : \E i \in DOMAIN memory : memory[i] = e
    /\ \A i \in DOMAIN memory : memory[i] <= born

\* An event has one line in a file, and none while it is being written.
LinesInv == \A p \in Projects :
    /\ \A i, j \in DOMAIN logs[p] : logs[p][i].event = logs[p][j].event => i = j
    /\ \A i \in DOMAIN logs[p] : logs[p][i].event <= born /\ logs[p][i].event \notin writing

\* Before the first merge the list is what was recorded, and the lines of this
\* process tell their positions in it.
YoungInv == merged = {} =>
    /\ Len(memory) = born - boot
    /\ \A i \in DOMAIN memory : memory[i] = boot + i
    /\ \A p \in Projects : \A i \in DOMAIN logs[p] :
           logs[p][i].event > boot => logs[p][i].index = logs[p][i].event - boot - 1

MergeInv ==
    /\ hydrated = None <=> merged = {}
    /\ hydrated # None => hydrated \in merged

ListInv == ListTypes /\ WholeInv /\ LinesInv /\ YoungInv /\ MergeInv /\ OneProjectOnce

-----------------------------------------------------------------------------
\* The elements of a sequence.
LEMMA InSequence ==
  ASSUME NEW S, NEW s \in Seq(S)
  PROVE  /\ Len(s) \in Nat /\ DOMAIN s = 1 .. Len(s)
         /\ \A i \in DOMAIN s : s[i] \in S
         /\ ToSet(s) = {s[i] : i \in DOMAIN s}
BY LenProperties, ElementOfSeq DEF ToSet

\* Both parts of a sequence that is put together.
JoinOf(r, s, t) ==
  /\ Len(r) = Len(s) + Len(t)
  /\ DOMAIN r = 1 .. Len(s) + Len(t)
  /\ \A i \in 1 .. Len(s) : r[i] = s[i]
  /\ \A i \in 1 .. Len(t) : r[Len(s) + i] = t[i]
  /\ \A i \in 1 .. Len(s) + Len(t) :
        i \in 1 .. Len(s) \/ \E j \in 1 .. Len(t) : i = Len(s) + j

LEMMA Joined ==
  ASSUME NEW S, NEW s \in Seq(S), NEW t \in Seq(S)
  PROVE  s \o t \in Seq(S) /\ JoinOf(s \o t, s, t)
<1>1. Len(s) \in Nat /\ Len(t) \in Nat
  BY LenProperties
<1>2. s \o t \in Seq(S) /\ Len(s \o t) = Len(s) + Len(t)
  BY ConcatProperties
<1>3. DOMAIN (s \o t) = 1 .. Len(s) + Len(t)
  BY <1>2, LenProperties
<1>4. ASSUME NEW i \in 1 .. Len(s) PROVE (s \o t)[i] = s[i]
  BY <1>1, ConcatProperties
<1>5. ASSUME NEW i \in 1 .. Len(t) PROVE (s \o t)[Len(s) + i] = t[i]
  <2>1. Len(s) + i \in 1 .. Len(s) + Len(t) /\ ~(Len(s) + i <= Len(s)) /\ Len(s) + i - Len(s) = i
    BY <1>1
  <2> QED
    BY <2>1, ConcatProperties
<1>6. ASSUME NEW i \in 1 .. Len(s) + Len(t), i \notin 1 .. Len(s)
      PROVE  \E j \in 1 .. Len(t) : i = Len(s) + j
  <2>1. i - Len(s) \in 1 .. Len(t) /\ i = Len(s) + (i - Len(s))
    BY <1>1, <1>6
  <2> QED
    BY <2>1
<1> QED
  BY <1>2, <1>3, <1>4, <1>5, <1>6 DEF JoinOf

\* The merge keeps what is in memory and brings the lines; it brings nothing
\* twice into a list that is still what was recorded.
LEMMA MergeOf ==
  ASSUME ListInv, NEW p \in Projects
  PROVE  /\ Merged(p) \in Seq(Events)
         /\ \A i \in DOMAIN memory : \E k \in DOMAIN Merged(p) : Merged(p)[k] = memory[i]
         /\ \A k \in DOMAIN Merged(p) : Merged(p)[k] <= born
         /\ merged = {} => \A i, j \in DOMAIN Merged(p) : Merged(p)[i] = Merged(p)[j] => i = j
<1> DEFINE file == EventsOf(logs[p])
           news == {i \in DOMAIN memory : Line(memory[i], i) \notin ToSet(logs[p])}
           rest == Chosen(memory, news)
<1>1. logs[p] \in Seq(LogLine) /\ memory \in Seq(Events)
  BY DEF ListInv, ListTypes
<1>2. /\ Len(logs[p]) \in Nat /\ DOMAIN logs[p] = 1 .. Len(logs[p])
      /\ \A i \in DOMAIN logs[p] : logs[p][i] \in LogLine
      /\ ToSet(logs[p]) = {logs[p][i] : i \in DOMAIN logs[p]}
  BY <1>1, InSequence
<1>3. /\ file \in Seq(Events) /\ Len(file) = Len(logs[p]) /\ DOMAIN file = DOMAIN logs[p]
      /\ \A i \in DOMAIN logs[p] : file[i] = logs[p][i].event
  <2>1. /\ DOMAIN file = 1 .. Len(logs[p])
        /\ \A i \in DOMAIN logs[p] : file[i] = logs[p][i].event
    BY <1>2 DEF EventsOf
  <2>2. \A i \in 1 .. Len(logs[p]) : logs[p][i].event \in Events
    BY <1>2 DEF LogLine
  <2>3. file \in [1 .. Len(logs[p]) -> Events]
    BY <1>2, <2>2 DEF EventsOf
  <2>4. file \in Seq(Events)
    BY <1>2, <2>3, SeqDef
  <2>5. Len(file) \in Nat /\ DOMAIN file = 1 .. Len(file)
    BY <2>4, LenProperties
  <2>6. Len(file) = Len(logs[p])
    BY <1>2, <2>1, <2>5
  <2> QED
    BY <1>2, <2>1, <2>4, <2>6
<1>4. /\ rest \in Seq(Events)
      /\ \A n \in DOMAIN rest : Nth(news, n) \in news /\ rest[n] = memory[Nth(news, n)]
      /\ \A i \in news : \E n \in DOMAIN rest : Nth(news, n) = i /\ rest[n] = memory[i]
      /\ \A n, k \in DOMAIN rest : n < k => Nth(news, n) < Nth(news, k)
  <2>1. news \subseteq DOMAIN memory
    OBVIOUS
  <2> HIDE DEF news
  <2> QED
    BY <1>1, <2>1, ChosenOf
<1>5. Merged(p) = file \o rest
  BY DEF Merged
<1>6. DOMAIN memory = 1 .. Len(memory) /\ Len(memory) \in Nat /\ \A i \in DOMAIN memory : memory[i] \in Events
  BY <1>1, InSequence
<1>7. \A i \in DOMAIN memory : i \in news \/ \E k \in DOMAIN logs[p] : logs[p][k] = Line(memory[i], i)
  BY <1>2
<1>n. \A i \in news : i \in DOMAIN memory /\ \A k \in DOMAIN logs[p] : logs[p][k] # Line(memory[i], i)
  BY <1>2
<1> HIDE DEF file, rest, news
<1>8. /\ file \o rest \in Seq(Events)
      /\ DOMAIN (file \o rest) = 1 .. Len(file) + Len(rest)
      /\ \A i \in 1 .. Len(file) : (file \o rest)[i] = file[i]
      /\ \A i \in 1 .. Len(rest) : (file \o rest)[Len(file) + i] = rest[i]
      /\ \A i \in 1 .. Len(file) + Len(rest) :
            i \in 1 .. Len(file) \/ \E j \in 1 .. Len(rest) : i = Len(file) + j
  <2>1. file \in Seq(Events) /\ rest \in Seq(Events)
    BY <1>3, <1>4
  <2>2. file \o rest \in Seq(Events) /\ JoinOf(file \o rest, file, rest)
    BY <2>1, Joined
  <2> QED
    BY <2>2 DEF JoinOf
<1>9. DOMAIN file = 1 .. Len(file) /\ DOMAIN rest = 1 .. Len(rest) /\ Len(file) \in Nat /\ Len(rest) \in Nat
  BY <1>3, <1>4, LenProperties
<1>10. ASSUME NEW i \in DOMAIN memory
       PROVE  \E k \in DOMAIN (file \o rest) : (file \o rest)[k] = memory[i]
  <2>1. CASE i \in news
    <3>1. PICK n \in DOMAIN rest : rest[n] = memory[i]
      BY <1>4, <2>1
    <3>2. Len(file) + n \in DOMAIN (file \o rest)
      BY <1>8, <1>9, <3>1
    <3>3. (file \o rest)[Len(file) + n] = memory[i]
      BY <1>8, <1>9, <3>1
    <3> QED
      BY <3>2, <3>3
  <2>2. CASE \E k \in DOMAIN logs[p] : logs[p][k] = Line(memory[i], i)
    <3>1. PICK k \in DOMAIN logs[p] : logs[p][k] = Line(memory[i], i)
      BY <2>2
    <3>2. file[k] = memory[i]
      BY <1>3, <3>1 DEF Line
    <3>3. k \in DOMAIN (file \o rest) /\ (file \o rest)[k] = file[k]
      BY <1>3, <1>8, <1>9, <3>1
    <3> QED
      BY <3>2, <3>3
  <2> QED
    BY <1>7, <2>1, <2>2
<1>11. ASSUME merged = {}, NEW i \in DOMAIN (file \o rest), NEW j \in DOMAIN (file \o rest),
              (file \o rest)[i] = (file \o rest)[j]
       PROVE  i = j
  <2>1. /\ \A k \in DOMAIN memory : memory[k] = boot + k
        /\ \A k \in DOMAIN logs[p] :
              logs[p][k].event > boot => logs[p][k].index = logs[p][k].event - boot - 1
        /\ \A k, l \in DOMAIN logs[p] : logs[p][k].event = logs[p][l].event => k = l
        /\ boot \in Nat
    BY <1>11 DEF ListInv, YoungInv, LinesInv, ListTypes
  <2>2. ASSUME NEW k \in 1 .. Len(file), NEW n \in 1 .. Len(rest), file[k] = rest[n]
        PROVE  FALSE
    <3> DEFINE m == Nth(news, n)
    <3>1. m \in DOMAIN memory /\ rest[n] = memory[m] /\ logs[p][k] # Line(memory[m], m) /\ k \in DOMAIN logs[p]
      BY <1>3, <1>4, <1>9, <1>n
    <3> HIDE DEF m
    <3>2. m \in Nat /\ m >= 1 /\ memory[m] = boot + m
      BY <1>6, <2>1, <3>1
    <3>3. logs[p][k].event = boot + m
      BY <1>3, <2>2, <3>1, <3>2
    <3>4. logs[p][k].index = m - 1
      BY <2>1, <3>1, <3>2, <3>3
    <3>5. logs[p][k] = [event |-> boot + m, index |-> m - 1]
      BY <1>2, <3>1, <3>3, <3>4 DEF LogLine
    <3> QED
      BY <3>1, <3>2, <3>5 DEF Line
  <2>3. ASSUME NEW n \in 1 .. Len(rest), NEW l \in 1 .. Len(rest), rest[n] = rest[l]
        PROVE  n = l
    <3>1. Nth(news, n) \in DOMAIN memory /\ Nth(news, l) \in DOMAIN memory
      BY <1>4, <1>9, <1>n
    <3>2. memory[Nth(news, n)] = memory[Nth(news, l)]
      BY <1>4, <1>9, <2>3
    <3>3. Nth(news, n) = Nth(news, l)
      BY <1>6, <2>1, <3>1, <3>2
    <3>4. Nth(news, n) \in Nat /\ n \in Nat /\ l \in Nat /\ n \in DOMAIN rest /\ l \in DOMAIN rest
      BY <1>6, <1>9, <3>1
    <3>5. ~(n < l) /\ ~(l < n)
      BY <1>4, <3>3, <3>4
    <3> QED
      BY <3>4, <3>5
  <2>4. \A k, l \in 1 .. Len(file) : file[k] = file[l] => k = l
    BY <1>3, <1>9, <2>1
  <2>5. CASE i \in 1 .. Len(file) /\ j \in 1 .. Len(file)
    BY <1>8, <1>11, <2>4, <2>5
  <2>6. ASSUME NEW k \in 1 .. Len(rest), i = Len(file) + k PROVE i = j
    <3>1. CASE j \in 1 .. Len(file)
      BY <1>8, <1>11, <2>2, <2>6, <3>1
    <3>2. ASSUME NEW l \in 1 .. Len(rest), j = Len(file) + l PROVE i = j
      <4>1. rest[k] = rest[l]
        BY <1>8, <1>11, <2>6, <3>2
      <4> QED
        BY <2>3, <2>6, <3>2, <4>1
    <3> QED
      BY <1>8, <3>1, <3>2
  <2>7. ASSUME i \in 1 .. Len(file), NEW l \in 1 .. Len(rest), j = Len(file) + l PROVE FALSE
    BY <1>8, <1>11, <2>2, <2>7
  <2> QED
    BY <1>8, <2>5, <2>6, <2>7
<1>12. ASSUME NEW k \in DOMAIN (file \o rest)
       PROVE  (file \o rest)[k] <= born
  <2>1. CASE k \in 1 .. Len(file)
    <3>1. logs[p][k].event <= born /\ k \in DOMAIN logs[p]
      BY <1>3, <1>9, <2>1 DEF ListInv, LinesInv
    <3> QED
      BY <1>3, <1>8, <2>1, <3>1
  <2>2. ASSUME NEW n \in 1 .. Len(rest), k = Len(file) + n PROVE (file \o rest)[k] <= born
    <3>1. (file \o rest)[k] = memory[Nth(news, n)] /\ Nth(news, n) \in DOMAIN memory
      BY <1>4, <1>8, <1>9, <1>n, <2>2
    <3> QED
      BY <3>1 DEF ListInv, WholeInv
  <2> QED
    BY <1>8, <2>1, <2>2
<1> QED
  BY <1>5, <1>8, <1>10, <1>11, <1>12

LEMMA HydrateKeeps ==
  ASSUME ListInv, Hydrate, UNCHANGED <<logs, writing, born, boot, project>>
  PROVE  ListInv'
<1>0. ListTypes /\ WholeInv /\ LinesInv /\ YoungInv /\ MergeInv /\ OneProjectOnce
  BY DEF ListInv
<1>1. CASE project \in {None, hydrated}
  <2>1. UNCHANGED <<logs, memory, hydrated, merged, writing, born, boot, project>>
    BY <1>1 DEF Hydrate
  <2>2. ListTypes'
    BY <1>0, <2>1 DEF ListTypes
  <2>3. WholeInv' /\ LinesInv'
    BY <1>0, <2>1 DEF WholeInv, LinesInv
  <2>4. YoungInv' /\ MergeInv' /\ OneProjectOnce'
    BY <1>0, <2>1 DEF YoungInv, MergeInv, OneProjectOnce
  <2> QED
    BY <2>2, <2>3, <2>4 DEF ListInv
<1>2. CASE project \notin {None, hydrated}
  <2> DEFINE p == project
  <2>1. p \in Projects /\ memory' = Merged(p) /\ hydrated' = p /\ merged' = merged \cup {p}
    BY <1>0, <1>2 DEF Hydrate, ListTypes
  <2>2. /\ memory' \in Seq(Events)
        /\ \A i \in DOMAIN memory : \E k \in DOMAIN memory' : memory'[k] = memory[i]
        /\ \A k \in DOMAIN memory' : memory'[k] <= born
        /\ merged = {} => \A i, j \in DOMAIN memory' : memory'[i] = memory'[j] => i = j
    BY <2>1, MergeOf
  <2> HIDE DEF p
  <2>3. ListTypes'
    <3>1. merged' \subseteq Projects /\ IsFiniteSet(merged')
      BY <1>0, <2>1, FS_AddElement DEF ListTypes
    <3> QED
      BY <1>0, <2>1, <2>2, <3>1 DEF ListTypes
  <2>4. WholeInv'
    <3> SUFFICES ASSUME NEW e \in boot + 1 .. born
                 PROVE  \E i \in DOMAIN memory' : memory'[i] = e
      BY <2>2 DEF WholeInv
    <3>1. PICK i \in DOMAIN memory : memory[i] = e
      BY <1>0 DEF WholeInv
    <3> QED
      BY <2>2, <3>1
  <2>5. LinesInv' /\ YoungInv' /\ MergeInv'
    <3>1. hydrated' # None /\ merged' # {} /\ hydrated' \in merged'
      BY <1>2, <2>1 DEF p
    <3> QED
      BY <1>0, <3>1 DEF LinesInv, YoungInv, MergeInv
  <2>6. OneProjectOnce'
    <3>1. CASE merged = {}
      BY <2>2, <3>1 DEF OneProjectOnce
    <3>2. CASE merged # {}
      <4>1. hydrated \in merged /\ p # hydrated
        BY <1>0, <1>2, <3>2 DEF MergeInv, p
      <4>2. IsFiniteSet(merged') /\ {hydrated, p} \subseteq merged'
        BY <2>1, <2>3, <4>1 DEF ListTypes
      <4>3. Cardinality({hydrated, p}) = 2 /\ Cardinality(merged') \in Nat
        <5>1. IsFiniteSet({hydrated}) /\ Cardinality({hydrated}) = 1 /\ p \notin {hydrated}
          BY <4>1, FS_Singleton
        <5>2. {hydrated} \cup {p} = {hydrated, p}
          OBVIOUS
        <5>3. Cardinality({hydrated} \cup {p}) = Cardinality({hydrated}) + 1
          BY <5>1, FS_AddElement
        <5>4. Cardinality({hydrated, p}) = 1 + 1
          BY <5>1, <5>2, <5>3
        <5> QED
          BY <4>2, <5>4, FS_CardinalityType
      <4>4. Cardinality({hydrated, p}) <= Cardinality(merged')
        BY <4>2, FS_Subset
      <4>5. ~(Cardinality(merged') <= 1)
        BY <4>3, <4>4
      <4> QED
        BY <4>5 DEF OneProjectOnce
    <3> QED
      BY <1>2, <3>1, <3>2
  <2> QED
    BY <2>3, <2>4, <2>5, <2>6 DEF ListInv
<1> QED
  BY <1>1, <1>2

\* The list grows by an event that is in no file.
LEMMA RecordKeeps ==
  ASSUME ListInv, Record
  PROVE  ListInv'
<1>0. ListTypes /\ WholeInv /\ LinesInv /\ YoungInv /\ MergeInv /\ OneProjectOnce
  BY DEF ListInv
<1>1. /\ born' = born + 1 /\ memory' = Append(memory, born') /\ writing' = writing \cup {born'}
      /\ UNCHANGED <<logs, hydrated, merged, boot, project>> /\ born < MaxEvents
  BY DEF Record
<1>2. memory \in Seq(Events) /\ boot \in Nat /\ born \in Nat /\ boot <= born /\ MaxEvents \in Nat
  BY <1>0, FeedAssumption DEF ListTypes
<1>3. born' \in Events
  BY <1>1, <1>2 DEF Events
<1>4. /\ Len(memory) \in Nat /\ DOMAIN memory = 1 .. Len(memory)
      /\ memory' \in Seq(Events) /\ Len(memory') = Len(memory) + 1
      /\ DOMAIN memory' = 1 .. Len(memory) + 1
      /\ \A i \in 1 .. Len(memory) : memory'[i] = memory[i]
      /\ memory'[Len(memory) + 1] = born + 1
  <2>1. /\ Append(memory, born') \in Seq(Events) /\ Len(Append(memory, born')) = Len(memory) + 1
        /\ \A i \in 1 .. Len(memory) : Append(memory, born')[i] = memory[i]
        /\ Append(memory, born')[Len(memory) + 1] = born'
    BY <1>2, <1>3, AppendProperties
  <2>2. memory' \in Seq(Events) /\ Len(memory') = Len(memory) + 1
    BY <1>1, <2>1
  <2>3. DOMAIN memory' = 1 .. Len(memory')
    BY <2>2, LenProperties
  <2> QED
    BY <1>1, <1>2, <2>1, <2>2, <2>3, LenProperties
<1>5. ListTypes'
  <2>1. writing' \subseteq boot' + 1 .. born'
    <3>1. writing \subseteq boot + 1 .. born
      BY <1>0 DEF ListTypes
    <3>2. born + 1 \in boot + 1 .. born + 1 /\ boot + 1 .. born \subseteq boot + 1 .. born + 1
      BY <1>2
    <3> QED
      BY <1>1, <3>1, <3>2
  <2>2. boot' \in Nat /\ born' \in Nat /\ boot' <= born' /\ born' <= MaxEvents
    BY <1>1, <1>2
  <2> QED
    BY <1>0, <1>1, <1>4, <2>1, <2>2 DEF ListTypes
<1>11. \A i \in 1 .. Len(memory) : memory[i] \in Nat /\ memory[i] <= born
  <2> TAKE i \in 1 .. Len(memory)
  <2>1. memory[i] \in Events
    BY <1>2, ElementOfSeq
  <2>2. memory[i] \in Nat
    BY <1>2, <2>1 DEF Events
  <2> QED
    BY <1>0, <1>4, <2>2 DEF WholeInv
<1>6. WholeInv'
  <2>3. \A i \in DOMAIN memory' : memory'[i] <= born + 1
    <3> TAKE i \in DOMAIN memory'
    <3>1. CASE i \in 1 .. Len(memory)
      BY <1>2, <1>4, <1>11, <3>1
    <3>2. CASE i = Len(memory) + 1
      BY <1>2, <1>4, <3>2
    <3> QED
      BY <1>4, <3>1, <3>2
  <2> SUFFICES ASSUME NEW e \in boot + 1 .. born + 1
               PROVE  \E i \in DOMAIN memory' : memory'[i] = e
    BY <1>1, <2>3 DEF WholeInv
  <2>1. CASE e = born + 1
    <3>1. Len(memory) + 1 \in DOMAIN memory'
      BY <1>4
    <3> QED
      BY <1>4, <2>1, <3>1
  <2>2. CASE e # born + 1
    <3>1. e \in boot + 1 .. born
      BY <1>2, <2>2
    <3>2. PICK i \in DOMAIN memory : memory[i] = e
      BY <1>0, <3>1 DEF WholeInv
    <3>3. i \in DOMAIN memory' /\ memory'[i] = memory[i]
      BY <1>4, <3>2
    <3> QED
      BY <3>2, <3>3
  <2> QED
    BY <2>1, <2>2
<1>7. LinesInv'
  <2> SUFFICES ASSUME NEW p \in Projects, NEW i \in DOMAIN logs[p]
               PROVE  logs[p][i].event <= born + 1 /\ logs[p][i].event \notin writing \cup {born + 1}
    BY <1>0, <1>1 DEF LinesInv
  <2>1. logs[p][i].event <= born /\ logs[p][i].event \notin writing
    BY <1>0 DEF LinesInv
  <2>2. logs[p][i].event \in Nat
    <3>1. logs[p] \in Seq(LogLine)
      BY <1>0 DEF ListTypes
    <3>2. logs[p][i] \in LogLine
      BY <3>1, InSequence
    <3> QED
      BY <1>2, <3>2 DEF LogLine, Events
  <2> QED
    BY <1>2, <2>1, <2>2
<1>8. YoungInv'
  <2>1. ASSUME merged = {}
        PROVE  /\ Len(memory') = born + 1 - boot
               /\ \A i \in DOMAIN memory' : memory'[i] = boot + i
    <3>1. Len(memory) = born - boot /\ \A i \in DOMAIN memory : memory[i] = boot + i
      BY <1>0, <2>1 DEF YoungInv
    <3>2. ASSUME NEW i \in DOMAIN memory' PROVE memory'[i] = boot + i
      <4>1. CASE i \in DOMAIN memory
        BY <1>4, <3>1, <4>1
      <4>2. CASE i = Len(memory) + 1
        BY <1>2, <1>4, <3>1, <4>2
      <4> QED
        BY <1>4, <4>1, <4>2
    <3> QED
      BY <1>2, <1>4, <3>1, <3>2
  <2>2. merged = {} => \A p \in Projects : \A i \in DOMAIN logs[p] :
            logs[p][i].event > boot => logs[p][i].index = logs[p][i].event - boot - 1
    BY <1>0 DEF YoungInv
  <2>3. merged' = merged /\ boot' = boot /\ logs' = logs /\ born' = born + 1
    BY <1>1
  <2>4. merged' = {} => \A p \in Projects : \A i \in DOMAIN logs'[p] :
            logs'[p][i].event > boot' => logs'[p][i].index = logs'[p][i].event - boot' - 1
    BY <2>2, <2>3, Zenon
  <2>5. merged' = {} => /\ Len(memory') = born' - boot'
                        /\ \A i \in DOMAIN memory' : memory'[i] = boot' + i
    <3> SUFFICES ASSUME merged' = {}
                 PROVE  /\ Len(memory') = born' - boot'
                        /\ \A i \in DOMAIN memory' : memory'[i] = boot' + i
      OBVIOUS
    <3>1. /\ Len(memory') = born + 1 - boot
          /\ \A i \in DOMAIN memory' : memory'[i] = boot + i
      BY <2>1, <2>3
    <3>2. boot' = boot /\ born' = born + 1
      BY <2>3
    <3> QED
      BY <1>2, <3>1, <3>2
  <2> QED
    BY <2>4, <2>5, Zenon DEF YoungInv
<1>9. MergeInv'
  BY <1>0, <1>1 DEF MergeInv
<1>10. OneProjectOnce'
  <2> SUFFICES ASSUME Cardinality(merged) <= 1, NEW i \in DOMAIN memory', NEW j \in DOMAIN memory',
                      memory'[i] = memory'[j]
               PROVE  i = j
    BY <1>1 DEF OneProjectOnce
  <2>1. \A k, l \in DOMAIN memory : memory[k] = memory[l] => k = l
    BY <1>0 DEF OneProjectOnce
  <2>2. \A k \in DOMAIN memory' : (k = Len(memory) + 1) \/ (k \in DOMAIN memory /\ memory'[k] = memory[k])
    BY <1>4
  <2>3. \A k \in DOMAIN memory : memory[k] # born + 1
    BY <1>2, <1>4, <1>11
  <2> QED
    BY <1>4, <2>1, <2>2, <2>3
<1> QED
  BY <1>5, <1>6, <1>7, <1>8, <1>9, <1>10 DEF ListInv

\* A file grows by an event that was being written, and by it only once.
LEMMA WriteKeeps ==
  ASSUME ListInv, NEW e \in writing, WriteLine(e)
  PROVE  ListInv'
<1>0. ListTypes /\ WholeInv /\ LinesInv /\ YoungInv /\ MergeInv /\ OneProjectOnce
  BY DEF ListInv
<1>1. /\ writing' = writing \ {e}
      /\ logs' = IF project = None THEN logs
                 ELSE [logs EXCEPT ![project] = Append(@, Line(e, Position(e)))]
      /\ UNCHANGED <<memory, hydrated, merged, born, boot, project>>
  BY DEF WriteLine
<1>2. /\ memory \in Seq(Events) /\ boot \in Nat /\ born \in Nat /\ boot <= born /\ MaxEvents \in Nat
      /\ logs \in [Projects -> Seq(LogLine)] /\ e \in boot + 1 .. born /\ born <= MaxEvents
  BY <1>0, FeedAssumption DEF ListTypes
<1>3. Position(e) \in DOMAIN memory /\ memory[Position(e)] = e
  <2>1. \E i \in DOMAIN memory : memory[i] = e
    BY <1>0, <1>2 DEF WholeInv
  <2> QED
    BY <2>1 DEF Position
<1>4. DOMAIN memory = 1 .. Len(memory) /\ Len(memory) \in Nat
  BY <1>2, LenProperties
<1>5. Line(e, Position(e)) \in LogLine
  <2>1. e \in Events
    BY <1>2 DEF Events
  <2>2. Position(e) - 1 \in Nat
    BY <1>3, <1>4
  <2> QED
    BY <2>1, <2>2 DEF Line, LogLine
<1> DEFINE new == Line(e, Position(e))
<1>6. ASSUME NEW p \in Projects
      PROVE  /\ Len(logs[p]) \in Nat /\ DOMAIN logs[p] = 1 .. Len(logs[p])
             /\ logs'[p] \in Seq(LogLine)
             /\ \/ logs'[p] = logs[p]
                \/ /\ DOMAIN logs'[p] = 1 .. Len(logs[p]) + 1
                   /\ \A i \in DOMAIN logs[p] : logs'[p][i] = logs[p][i]
                   /\ logs'[p][Len(logs[p]) + 1] = new
  <2>1. logs[p] \in Seq(LogLine)
    BY <1>2
  <2>2. Len(logs[p]) \in Nat /\ DOMAIN logs[p] = 1 .. Len(logs[p])
    BY <2>1, LenProperties
  <2>3. CASE logs'[p] = logs[p]
    BY <2>1, <2>2, <2>3
  <2>4. CASE logs'[p] = Append(logs[p], new)
    <3>1. /\ Append(logs[p], new) \in Seq(LogLine) /\ Len(Append(logs[p], new)) = Len(logs[p]) + 1
          /\ \A i \in 1 .. Len(logs[p]) : Append(logs[p], new)[i] = logs[p][i]
          /\ Append(logs[p], new)[Len(logs[p]) + 1] = new
      BY <1>5, <2>1, AppendProperties
    <3>2. DOMAIN Append(logs[p], new) = 1 .. Len(logs[p]) + 1
      BY <3>1, LenProperties
    <3> QED
      BY <2>2, <2>4, <3>1, <3>2
  <2> HIDE DEF new
  <2>5. logs'[p] = logs[p] \/ logs'[p] = Append(logs[p], new)
    BY <1>1, <1>2 DEF new
  <2> QED
    BY <2>3, <2>4, <2>5
<1>7. DOMAIN logs' = Projects
  BY <1>1, <1>2
<1>n. new.event = e /\ new.index = Position(e) - 1
  BY DEF Line
<1> HIDE DEF new
<1>8. ListTypes'
  <2>1. logs' = [p \in Projects |-> logs'[p]]
    BY <1>1, <1>2
  <2>2. logs' \in [Projects -> Seq(LogLine)]
    BY <1>6, <2>1
  <2> QED
    BY <1>0, <1>1, <2>2 DEF ListTypes
<1>9. LinesInv'
  <2> SUFFICES ASSUME NEW p \in Projects
               PROVE  /\ \A i, j \in DOMAIN logs'[p] : logs'[p][i].event = logs'[p][j].event => i = j
                      /\ \A i \in DOMAIN logs'[p] : logs'[p][i].event <= born /\ logs'[p][i].event \notin writing \ {e}
    BY <1>1 DEF LinesInv
  <2>1. /\ \A i, j \in DOMAIN logs[p] : logs[p][i].event = logs[p][j].event => i = j
        /\ \A i \in DOMAIN logs[p] : logs[p][i].event <= born /\ logs[p][i].event \notin writing
        /\ \A i \in DOMAIN logs[p] : logs[p][i].event # e
    BY <1>0 DEF LinesInv
  <2>2. CASE logs'[p] = logs[p]
    BY <2>1, <2>2
  <2>3. CASE /\ DOMAIN logs'[p] = 1 .. Len(logs[p]) + 1
             /\ \A i \in DOMAIN logs[p] : logs'[p][i] = logs[p][i]
             /\ logs'[p][Len(logs[p]) + 1] = new
    <3>1. \A i \in DOMAIN logs'[p] : \/ i \in DOMAIN logs[p] /\ logs'[p][i] = logs[p][i]
                                     \/ i = Len(logs[p]) + 1 /\ logs'[p][i] = new
      BY <1>6, <2>3
    <3>2. e <= born
      BY <1>2
    <3> QED
      BY <1>n, <2>1, <3>1, <3>2
  <2> QED
    BY <1>6, <2>2, <2>3
<1>10. YoungInv'
  <2> SUFFICES ASSUME merged = {}, NEW p \in Projects, NEW i \in DOMAIN logs'[p], logs'[p][i].event > boot
               PROVE  logs'[p][i].index = logs'[p][i].event - boot - 1
    BY <1>0, <1>1 DEF YoungInv
  <2>1. /\ \A j \in DOMAIN memory : memory[j] = boot + j
        /\ \A j \in DOMAIN logs[p] : logs[p][j].event > boot => logs[p][j].index = logs[p][j].event - boot - 1
    BY <1>0 DEF YoungInv
  <2>2. CASE i \in DOMAIN logs[p] /\ logs'[p][i] = logs[p][i]
    BY <2>1, <2>2
  <2>3. CASE logs'[p][i] = new
    <3>1. Position(e) \in Nat /\ e = boot + Position(e)
      BY <1>3, <1>4, <2>1
    <3>2. Position(e) - 1 = e - boot - 1
      BY <1>2, <3>1
    <3> QED
      BY <1>n, <2>3, <3>2
  <2> QED
    BY <1>6, <2>2, <2>3
<1> QED
  BY <1>0, <1>1, <1>8, <1>9, <1>10 DEF ListInv, WholeInv, MergeInv, OneProjectOnce

\* A process begins with an empty list.
LEMMA RestartKeeps ==
  ASSUME ListInv, Restart
  PROVE  ListInv'
<1>0. ListTypes /\ LinesInv
  BY DEF ListInv
<1>1. /\ memory' = <<>> /\ hydrated' = None /\ merged' = {} /\ writing' = {} /\ boot' = born
      /\ UNCHANGED <<logs, born, project>>
  BY DEF Restart
<1>2. boot \in Nat /\ born \in Nat /\ logs \in [Projects -> Seq(LogLine)] /\ MaxEvents \in Nat
  BY <1>0, FeedAssumption DEF ListTypes
<1>3. <<>> \in Seq(Events) /\ Len(<<>>) = 0 /\ DOMAIN <<>> = {}
  BY EmptySeq
<1>4. IsFiniteSet({})
  BY FS_EmptySet
<1>5. ListTypes'
  BY <1>0, <1>1, <1>2, <1>3, <1>4 DEF ListTypes
<1>6. WholeInv' /\ OneProjectOnce' /\ MergeInv'
  BY <1>1, <1>2, <1>3 DEF WholeInv, OneProjectOnce, MergeInv
<1>7. LinesInv'
  BY <1>0, <1>1 DEF LinesInv
<1>8. YoungInv'
  <2>1. ASSUME NEW p \in Projects, NEW i \in DOMAIN logs[p] PROVE ~(logs[p][i].event > born)
    <3>1. logs[p] \in Seq(LogLine)
      BY <1>2
    <3>2. logs[p][i] \in LogLine
      BY <3>1, InSequence
    <3>3. logs[p][i].event \in Nat
      BY <1>2, <3>2 DEF LogLine, Events
    <3>4. logs[p][i].event <= born
      BY <1>0 DEF LinesInv
    <3> QED
      BY <1>2, <3>3, <3>4
  <2>2. Len(memory') = born' - boot' /\ DOMAIN memory' = {}
    BY <1>1, <1>2, <1>3
  <2> QED
    BY <1>1, <2>1, <2>2 DEF YoungInv
<1> QED
  BY <1>5, <1>6, <1>7, <1>8 DEF ListInv

LEMMA ListStart ==
  ASSUME Init
  PROVE  ListInv
<1>1. /\ logs = [p \in Projects |-> [i \in DOMAIN Logged[p] |-> Line(Logged[p][i], i)]]
      /\ memory = <<>> /\ hydrated = None /\ merged = {} /\ project = Opened /\ writing = {}
      /\ born = Cardinality(UNION {ToSet(Logged[p]) : p \in Projects}) /\ boot = born
  BY DEF Init
<1>2. PICK n \in 0 .. MaxEvents : UNION {ToSet(Logged[p]) : p \in Projects} = 1 .. n
  BY FeedAssumption
<1>3. born = n /\ n \in Nat /\ MaxEvents \in Nat /\ n <= MaxEvents
  <2>1. n \in Nat /\ MaxEvents \in Nat /\ n <= MaxEvents
    BY <1>2, FeedAssumption
  <2>2. Cardinality(1 .. n) = n
    BY <2>1, FS_Interval
  <2> QED
    BY <1>1, <1>2, <2>1, <2>2
<1>4. ASSUME NEW p \in Projects
      PROVE  /\ logs[p] \in Seq(LogLine)
             /\ \A i, j \in DOMAIN logs[p] : logs[p][i].event = logs[p][j].event => i = j
             /\ \A i \in DOMAIN logs[p] : logs[p][i].event \in Nat /\ logs[p][i].event <= born
  <2> DEFINE s == Logged[p]
  <2>1. s \in Seq(Events) /\ \A i, j \in DOMAIN s : s[i] = s[j] => i = j
    BY FeedAssumption DEF Events
  <2>2. Len(s) \in Nat /\ DOMAIN s = 1 .. Len(s) /\ ToSet(s) = {s[i] : i \in DOMAIN s}
        /\ \A i \in DOMAIN s : s[i] \in Events
    BY <2>1, InSequence
  <2>3. ToSet(s) \subseteq 1 .. n
    BY <1>2
  <2> HIDE DEF s
  <2>4. logs[p] = [i \in 1 .. Len(s) |-> Line(s[i], i)]
    BY <1>1, <2>2 DEF s
  <2>5. ASSUME NEW i \in 1 .. Len(s) PROVE Line(s[i], i) \in LogLine
    <3>1. i - 1 \in Nat /\ s[i] \in Events
      BY <2>2
    <3> QED
      BY <3>1 DEF Line, LogLine
  <2>6. logs[p] \in [1 .. Len(s) -> LogLine]
    BY <2>4, <2>5
  <2>7. logs[p] \in Seq(LogLine)
    BY <2>2, <2>6, SeqDef
  <2>8. DOMAIN logs[p] = 1 .. Len(s) /\ \A i \in 1 .. Len(s) : logs[p][i].event = s[i]
    BY <2>4 DEF Line
  <2>9. ASSUME NEW i \in 1 .. Len(s) PROVE s[i] \in Nat /\ s[i] <= born
    <3>1. s[i] \in 1 .. n
      BY <2>2, <2>3
    <3> QED
      BY <1>3, <3>1
  <2> QED
    BY <2>1, <2>2, <2>7, <2>8, <2>9
<1>5. <<>> \in Seq(Events) /\ Len(<<>>) = 0 /\ DOMAIN <<>> = {}
  BY EmptySeq
<1>6. ListTypes
  <2>1. logs = [p \in Projects |-> logs[p]]
    BY <1>1
  <2>2. logs \in [Projects -> Seq(LogLine)]
    BY <1>4, <2>1
  <2> QED
    BY <1>1, <1>3, <1>5, <2>2, FS_EmptySet, FeedAssumption DEF ListTypes
<1>7. WholeInv /\ OneProjectOnce /\ MergeInv
  <2>1. \A e \in boot + 1 .. born : FALSE
    BY <1>1, <1>3
  <2>2. DOMAIN memory = {}
    BY <1>1, <1>5
  <2> QED
    BY <1>1, <2>1, <2>2 DEF WholeInv, OneProjectOnce, MergeInv
<1>8. LinesInv
  BY <1>1, <1>4 DEF LinesInv
<1>9. YoungInv
  <2>1. ASSUME NEW p \in Projects, NEW i \in DOMAIN logs[p] PROVE ~(logs[p][i].event > boot)
    <3>1. logs[p][i].event \in Nat /\ logs[p][i].event <= n
      BY <1>3, <1>4
    <3>2. boot = n
      BY <1>1, <1>3
    <3> QED
      BY <1>3, <3>1, <3>2
  <2>2. Len(memory) = born - boot /\ DOMAIN memory = {}
    BY <1>1, <1>3, <1>5
  <2> QED
    BY <1>1, <2>1, <2>2 DEF YoungInv
<1> QED
  BY <1>6, <1>7, <1>8, <1>9 DEF ListInv

LEMMA ListStays ==
  ASSUME ListInv, UNCHANGED log, project' \in Projects \cup {None}
  PROVE  ListInv'
BY DEF log, ListInv, ListTypes, WholeInv, LinesInv, YoungInv, MergeInv, OneProjectOnce

LEMMA ListStep ==
  ASSUME ListInv, Next
  PROVE  ListInv'
<1>0. project \in Projects \cup {None}
  BY DEF ListInv, ListTypes
<1>1. CASE Record
  BY <1>1, RecordKeeps
<1>2. ASSUME NEW e \in writing, WriteLine(e) PROVE ListInv'
  BY <1>2, WriteKeeps
<1>3. CASE Look
  BY <1>3, HydrateKeeps DEF Look
<1>4. ASSUME NEW p \in Projects \cup {None}, Ask(p) \/ Show(p) PROVE ListInv'
  <2>1. UNCHANGED log /\ project' \in Projects \cup {None}
    BY <1>0, <1>4 DEF Ask, Show
  <2> QED
    BY <2>1, ListStays
<1>5. CASE Restart
  BY <1>5, RestartKeeps
<1>6. CASE Connect \/ OpenStream \/ EndStream \/ Receive \/ AskPoll \/ ReceivePoll
  <2>1. UNCHANGED log /\ project' = project
    BY <1>6 DEF Connect, OpenStream, EndStream, Receive, AskPoll, ReceivePoll
  <2> QED
    BY <1>0, <2>1, ListStays
<1>7. CASE Serve
  BY <1>7, HydrateKeeps DEF Serve
<1>8. CASE ServePoll
  BY <1>8, HydrateKeeps DEF ServePoll
<1> QED
  BY <1>1, <1>2, <1>3, <1>4, <1>5, <1>6, <1>7, <1>8 DEF Next

-----------------------------------------------------------------------------
(* EventFeed: the desktop.                                                 *)

StreamType == [state : {"off", "connecting", "open", "ended"}, after : Nat, served : BOOLEAN]
FrameType == [kind : FrameKinds, event : Nat, cursor : Nat]
PollType == [state : {"none", "asked", "answered"}, after : Nat,
             got : [events : Seq(Events), cursor : Nat]]

\* What the desktop has, and which project it waits for.
StoreTypes ==
    /\ answer = {} \/ answer = {project}
    /\ answer = {} => shown = project
    /\ shown \in Projects \cup {None}
    /\ ever \subseteq Events /\ cursor \in Nat
    /\ stream \in StreamType /\ frames \in Seq(FrameType) /\ poll \in PollType

\* The end is the last frame of a stream, and only events have a number.
FrameInv ==
    /\ stream.state \in {"off", "connecting"} => frames = <<>>
    /\ stream.state = "open" => \A i \in DOMAIN frames : frames[i].kind # "end"
    /\ stream.state = "ended" =>
           frames # <<>> /\ \A i \in DOMAIN frames : frames[i].kind = "end" <=> i = Len(frames)
    /\ \A i \in DOMAIN frames : IF frames[i].kind = "event" THEN frames[i].event \in Events
                                                           ELSE frames[i].event = 0
    /\ shown = None => stream = Idle /\ frames = <<>> /\ poll = NoPoll

\* The first c events of a list are among those seen; if there are any, the
\* list is the merged one.
Covered(list, whole, seen, c) ==
    c \in 0 .. Len(list) /\ (c > 0 => whole) /\ \A i \in 1 .. c : list[i] \in seen

SeenOrSent == (ever \cup UnderWay) \cap Events
Reads(c) == Covered(memory, hydrated = project, SeenOrSent, c)

\* Every number that is or becomes the cursor of a desktop that shows the open
\* project counts events which it has or will have then.
Shows == shown # None /\ project = shown
SyncInv == Shows =>
    /\ Reads(cursor)
    /\ stream.state # "off" => Reads(stream.after)
    /\ \A i \in DOMAIN frames : frames[i].kind # "end" => Reads(frames[i].cursor)
    /\ poll.state # "none" => Reads(poll.after)
    /\ poll.state = "answered" =>
           Covered(memory, hydrated = project, SeenOrSent \cup ToSet(poll.got.events), poll.got.cursor)

FeedInv == ListInv /\ StoreTypes /\ FrameInv /\ SyncInv

-----------------------------------------------------------------------------
\* The list grows at its end, or it is merged, when nobody has read it yet.
LEMMA StillCovered ==
  ASSUME NEW s \in Seq(Events), NEW t \in Seq(Events), NEW a \in BOOLEAN, NEW b \in BOOLEAN,
         NEW x, NEW y, x \subseteq y, NEW c,
         ~a \/ (b /\ Len(s) <= Len(t) /\ \A i \in 1 .. Len(s) : t[i] = s[i]),
         Covered(s, a, x, c)
  PROVE  Covered(t, b, y, c)
<1>1. Len(s) \in Nat /\ Len(t) \in Nat
  BY LenProperties
<1>2. c \in 0 .. Len(s) /\ (c > 0 => a) /\ \A i \in 1 .. c : s[i] \in x
  BY DEF Covered
<1>3. CASE c = 0
  BY <1>1, <1>3 DEF Covered
<1>4. CASE c # 0
  <2>1. a /\ b /\ Len(s) <= Len(t) /\ \A i \in 1 .. Len(s) : t[i] = s[i]
    BY <1>1, <1>2, <1>4
  <2>2. c \in 0 .. Len(t)
    BY <1>1, <1>2, <2>1
  <2>3. \A i \in 1 .. c : i \in 1 .. Len(s)
    BY <1>1, <1>2
  <2> QED
    BY <1>2, <2>1, <2>2, <2>3 DEF Covered
<1> QED
  BY <1>3, <1>4

\* What is listed of a list is what comes after.
LEMMA ListedAfter ==
  ASSUME NEW s \in Seq(Events), NEW a \in Nat
  PROVE  /\ SubSeq(s, a + 1, Len(s)) \in Seq(Events)
         /\ \A i \in 1 .. Len(s) : i > a =>
               \E k \in DOMAIN SubSeq(s, a + 1, Len(s)) : SubSeq(s, a + 1, Len(s))[k] = s[i]
<1> DEFINE u == SubSeq(s, a + 1, Len(s))
<1>1. Len(s) \in Nat /\ DOMAIN s = 1 .. Len(s) /\ \A i \in 1 .. Len(s) : s[i] \in Events
  BY InSequence
<1>2. \A i \in a + 1 .. Len(s) : s[i] \in Events
  BY <1>1
<1>3. a + 1 \in Int /\ Len(s) \in Int
  BY <1>1
<1>4. /\ u \in Seq(Events)
      /\ Len(u) = IF a + 1 <= Len(s) THEN Len(s) - (a + 1) + 1 ELSE 0
      /\ \A i \in 1 .. Len(s) - (a + 1) + 1 : u[i] = s[a + 1 + i - 1]
  BY <1>2, <1>3, SubSeqProperties
<1>5. DOMAIN u = 1 .. Len(u)
  BY <1>4, LenProperties
<1> HIDE DEF u
<1>6. ASSUME NEW i \in 1 .. Len(s), i > a
      PROVE  \E k \in DOMAIN u : u[k] = s[i]
  <2> DEFINE n == Len(s)
  <2>3. n \in Nat /\ i \in 1 .. n /\ i > a /\ Len(u) = IF a + 1 <= n THEN n - (a + 1) + 1 ELSE 0
    BY <1>1, <1>4, <1>6
  <2> HIDE DEF n
  <2>4. i \in Nat /\ i <= n
    BY <2>3
  <2>5. a + 1 <= n /\ Len(u) = n - (a + 1) + 1
    BY <2>3, <2>4
  <2>6. i - a \in 1 .. n - (a + 1) + 1
    BY <2>3, <2>4
  <2>7. a + 1 + (i - a) - 1 = i
    BY <2>3, <2>4
  <2>1. /\ i - a \in 1 .. Len(s) - (a + 1) + 1 /\ i - a \in 1 .. Len(u)
        /\ a + 1 + (i - a) - 1 = i
    BY <2>5, <2>6, <2>7 DEF n
  <2>2. u[i - a] = s[i]
    BY <1>4, <2>1
  <2> QED
    BY <1>5, <2>1, <2>2
<1> QED
  BY <1>4, <1>6 DEF u

\* Whoever has seen the first events and gets the others has seen all.
LEMMA AllCovered ==
  ASSUME NEW s \in Seq(Events), NEW a \in Nat, NEW x, NEW y,
         Covered(s, TRUE, x, a), x \subseteq y,
         \A k \in DOMAIN SubSeq(s, a + 1, Len(s)) : SubSeq(s, a + 1, Len(s))[k] \in y
  PROVE  Covered(s, TRUE, y, Len(s))
<1>1. Len(s) \in Nat
  BY LenProperties
<1>2. ASSUME NEW i \in 1 .. Len(s) PROVE s[i] \in y
  <2>1. CASE i > a
    BY <2>1, ListedAfter
  <2>2. CASE ~(i > a)
    <3>1. i \in 1 .. a
      BY <1>1, <2>2
    <3> QED
      BY <3>1 DEF Covered
  <2> QED
    BY <2>1, <2>2
<1> QED
  BY <1>1, <1>2 DEF Covered

\* What is covered before a step is after it.
LEMMA Onward ==
  ASSUME ListInv, ListInv', SeenOrSent \subseteq SeenOrSent', project' = project,
         \/ hydrated # project
         \/ /\ hydrated' = hydrated /\ Len(memory) <= Len(memory')
            /\ \A i \in 1 .. Len(memory) : memory'[i] = memory[i]
  PROVE  /\ \A c : Reads(c) => Covered(memory', hydrated' = project', SeenOrSent', c)
         /\ \A c, z : Covered(memory, hydrated = project, SeenOrSent \cup z, c)
                         => Covered(memory', hydrated' = project', SeenOrSent' \cup z, c)
<1>1. memory \in Seq(Events) /\ memory' \in Seq(Events)
  BY DEF ListInv, ListTypes
<1>2. \/ ~(hydrated = project)
      \/ /\ hydrated' = project' /\ Len(memory) <= Len(memory')
         /\ \A i \in 1 .. Len(memory) : memory'[i] = memory[i]
  OBVIOUS
<1>3. (hydrated = project) \in BOOLEAN /\ (hydrated' = project') \in BOOLEAN
  OBVIOUS
<1>4. ASSUME NEW c, Reads(c)
      PROVE  Covered(memory', hydrated' = project', SeenOrSent', c)
  <2>1. Covered(memory, hydrated = project, SeenOrSent, c)
    BY <1>4 DEF Reads
  <2> QED
    BY <1>1, <1>2, <1>3, <2>1, StillCovered
<1>5. ASSUME NEW c, NEW z, Covered(memory, hydrated = project, SeenOrSent \cup z, c)
      PROVE  Covered(memory', hydrated' = project', SeenOrSent' \cup z, c)
  <2>1. SeenOrSent \cup z \subseteq SeenOrSent' \cup z
    OBVIOUS
  <2> QED
    BY <1>1, <1>2, <1>3, <1>5, <2>1, StillCovered
<1> QED
  BY <1>4, <1>5

\* Nothing the desktop follows changes, and the list does so as Onward tells.
LEMMA FollowsList ==
  ASSUME FeedInv, ListInv', UNCHANGED <<project, asks, answer, store, stream, frames, poll>>,
         \/ hydrated # project
         \/ /\ hydrated' = hydrated /\ Len(memory) <= Len(memory')
            /\ \A i \in 1 .. Len(memory) : memory'[i] = memory[i]
  PROVE  FeedInv'
<1>0. ListInv /\ StoreTypes /\ FrameInv /\ SyncInv
  BY DEF FeedInv
<1>1. StoreTypes' /\ FrameInv'
  BY <1>0 DEF StoreTypes, FrameInv, store
<1>2. SeenOrSent' = SeenOrSent /\ project' = project
  BY DEF SeenOrSent, UnderWay, store
<1>3. SeenOrSent \subseteq SeenOrSent'
  BY <1>2
<1>4. /\ \A c : Reads(c) => Covered(memory', hydrated' = project', SeenOrSent', c)
      /\ \A c, z : Covered(memory, hydrated = project, SeenOrSent \cup z, c)
                         => Covered(memory', hydrated' = project', SeenOrSent' \cup z, c)
  BY <1>0, <1>2, <1>3, Onward
<1>5. SyncInv'
  <2> SUFFICES ASSUME Shows'
               PROVE  /\ Reads(cursor)'
                      /\ stream'.state # "off" => Reads(stream.after)'
                      /\ \A i \in DOMAIN frames' : frames'[i].kind # "end" => Reads(frames[i].cursor)'
                      /\ poll'.state # "none" => Reads(poll.after)'
                      /\ poll'.state = "answered" =>
                            Covered(memory', hydrated' = project', SeenOrSent' \cup ToSet(poll'.got.events), poll'.got.cursor)
    BY DEF SyncInv
  <2>1. Shows /\ cursor' = cursor /\ stream' = stream /\ frames' = frames /\ poll' = poll
    BY <1>2 DEF Shows, store
  <2>2. /\ Reads(cursor)
        /\ stream.state # "off" => Reads(stream.after)
        /\ \A i \in DOMAIN frames : frames[i].kind # "end" => Reads(frames[i].cursor)
        /\ poll.state # "none" => Reads(poll.after)
        /\ poll.state = "answered" =>
               Covered(memory, hydrated = project, SeenOrSent \cup ToSet(poll.got.events), poll.got.cursor)
    BY <1>0, <2>1 DEF SyncInv
  <2>3. Reads(cursor)'
    BY <1>4, <2>1, <2>2 DEF Reads
  <2>5. stream'.state # "off" => Reads(stream.after)'
    BY <1>4, <2>1, <2>2 DEF Reads
  <2>6. ASSUME NEW i \in DOMAIN frames', frames'[i].kind # "end" PROVE Reads(frames[i].cursor)'
    BY <1>4, <2>1, <2>2, <2>6 DEF Reads
  <2>7. poll'.state # "none" => Reads(poll.after)'
    BY <1>4, <2>1, <2>2 DEF Reads
  <2>8. poll'.state = "answered" =>
            Covered(memory', hydrated' = project', SeenOrSent' \cup ToSet(poll'.got.events), poll'.got.cursor)
    BY <1>4, <2>1, <2>2
  <2> QED
    BY <2>3, <2>5, <2>6, <2>7, <2>8
<1> QED
  BY <1>1, <1>5 DEF FeedInv

LEMMA LogSteps ==
  ASSUME FeedInv, ListInv', Record \/ (\E e \in writing : WriteLine(e)) \/ Look
  PROVE  FeedInv'
<1>0. ListTypes /\ memory \in Seq(Events) /\ Len(memory) \in Nat
  <2>1. ListTypes /\ memory \in Seq(Events)
    BY DEF FeedInv, ListInv, ListTypes
  <2> QED
    BY <2>1, LenProperties
<1>1. CASE Record
  <2>1. /\ hydrated' = hydrated /\ Len(memory) <= Len(memory')
        /\ \A i \in 1 .. Len(memory) : memory'[i] = memory[i]
    <3>1. memory' = Append(memory, born') /\ memory' \in Seq(Events) /\ hydrated' = hydrated
      BY <1>1 DEF Record, ListInv, ListTypes
    <3>2. born' \in Events
      BY <1>0, <1>1, FeedAssumption DEF Record, ListTypes, Events
    <3>3. /\ Len(memory') = Len(memory) + 1
          /\ \A i \in 1 .. Len(memory) : memory'[i] = memory[i]
      BY <1>0, <3>1, <3>2, AppendProperties
    <3> QED
      BY <1>0, <3>1, <3>3
  <2>2. UNCHANGED <<project, asks, answer, store, stream, frames, poll>>
    BY <1>1 DEF Record
  <2> QED
    BY <2>1, <2>2, FollowsList
<1>2. ASSUME NEW e \in writing, WriteLine(e) PROVE FeedInv'
  <2>1. /\ hydrated' = hydrated /\ memory' = memory
        /\ UNCHANGED <<project, asks, answer, store, stream, frames, poll>>
    BY <1>2 DEF WriteLine
  <2>2. Len(memory) <= Len(memory') /\ \A i \in 1 .. Len(memory) : memory'[i] = memory[i]
    BY <1>0, <2>1
  <2> QED
    BY <2>1, <2>2, FollowsList
<1>3. CASE Look
  <2>1. hydrated # project /\ UNCHANGED <<project, asks, answer, store, stream, frames, poll>>
    BY <1>3 DEF Look
  <2> QED
    BY <2>1, FollowsList
<1> QED
  BY <1>1, <1>2, <1>3

\* What a step that leaves the log and the project alone keeps.
LEMMA KeepsReads ==
  ASSUME ListInv, UNCHANGED <<log, project>>, SeenOrSent \subseteq SeenOrSent'
  PROVE  /\ \A c : Reads(c) => Covered(memory', hydrated' = project', SeenOrSent', c)
         /\ \A c, z : Covered(memory, hydrated = project, SeenOrSent \cup z, c)
                         => Covered(memory', hydrated' = project', SeenOrSent' \cup z, c)
<1>1. memory \in Seq(Events) /\ memory' = memory /\ hydrated' = hydrated /\ project' = project
  BY DEF ListInv, ListTypes, log
<1>2. Len(memory) <= Len(memory') /\ \A i \in 1 .. Len(memory) : memory'[i] = memory[i]
  BY <1>1, LenProperties
<1>3. ListInv'
  BY ListStays DEF ListInv, ListTypes
<1> QED
  BY <1>1, <1>2, <1>3, Onward

LEMMA AskKeeps ==
  ASSUME FeedInv, ListInv', NEW p \in Projects \cup {None}, Ask(p)
  PROVE  FeedInv'
<1>0. ListInv /\ StoreTypes /\ FrameInv /\ SyncInv
  BY DEF FeedInv
<1>1. /\ project' = p /\ answer = {} /\ answer' = {p} /\ shown = project
      /\ UNCHANGED <<log, store, stream, frames, poll>>
  BY <1>0 DEF Ask, StoreTypes
<1>2. StoreTypes' /\ FrameInv'
  BY <1>0, <1>1 DEF StoreTypes, FrameInv, store
<1>3. SyncInv'
  <2>1. CASE ~Shows'
    BY <2>1 DEF SyncInv
  <2>2. CASE Shows'
    <3>1. UNCHANGED <<project, memory, hydrated, shown, cursor, ever, stream, frames, poll>>
      BY <1>1, <2>2 DEF Shows, store, log
    <3> QED
      BY <1>0, <3>1 DEF SyncInv, Shows, Reads, SeenOrSent, UnderWay
  <2> QED
    BY <2>1, <2>2
<1> QED
  BY <1>2, <1>3 DEF FeedInv

LEMMA ShowKeeps ==
  ASSUME FeedInv, ListInv', NEW p \in Projects \cup {None}, Show(p)
  PROVE  FeedInv'
<1>0. ListInv /\ StoreTypes /\ FrameInv /\ SyncInv
  BY DEF FeedInv
<1>1. /\ p = project /\ answer' = {} /\ shown' = p /\ cursor' = 0 /\ poll' = NoPoll
      /\ UNCHANGED <<log, project>>
      /\ \/ p = shown /\ UNCHANGED <<ever, stream, frames>>
         \/ ever' = {} /\ stream' = Idle /\ frames' = <<>>
  BY <1>0 DEF Show, StoreTypes
<1>2. NoPoll \in PollType /\ Idle \in StreamType /\ <<>> \in Seq(FrameType) /\ DOMAIN <<>> = {}
  <2>1. <<>> \in Seq(Events) /\ <<>> \in Seq(FrameType)
    BY EmptySeq
  <2> QED
    BY <2>1 DEF NoPoll, Idle, PollType, StreamType
<1>3. StoreTypes'
  BY <1>0, <1>1, <1>2 DEF StoreTypes
<1>4. FrameInv'
  BY <1>0, <1>1, <1>2 DEF FrameInv, Idle
<1>5. SyncInv'
  <2> SUFFICES ASSUME Shows' PROVE SyncInv'
    BY DEF SyncInv
  <2>1. Reads(cursor)'
    <3>1. Covered(memory', hydrated' = project', SeenOrSent', 0)
      <4>1. Len(memory') \in Nat
        BY LenProperties DEF ListInv, ListTypes
      <4> QED
        BY <4>1 DEF Covered
    <3> QED
      BY <1>1, <3>1 DEF Reads
  <2>2. poll'.state = "none"
    BY <1>1 DEF NoPoll
  <2>3. CASE ever' = {} /\ stream' = Idle /\ frames' = <<>>
    BY <1>2, <2>1, <2>2, <2>3 DEF SyncInv, Idle
  <2>4. CASE p = shown /\ UNCHANGED <<ever, stream, frames>>
    <3>1. Shows /\ UNCHANGED <<ever, stream, frames, memory, hydrated, project>>
      BY <1>1, <2>4 DEF Shows, log
    <3>2. /\ stream.state # "off" => Reads(stream.after)
          /\ \A i \in DOMAIN frames : frames[i].kind # "end" => Reads(frames[i].cursor)
      BY <1>0, <3>1 DEF SyncInv
    <3>3. /\ stream'.state # "off" => Reads(stream.after)'
          /\ \A i \in DOMAIN frames' : frames'[i].kind # "end" => Reads(frames[i].cursor)'
      BY <3>1, <3>2 DEF Reads, SeenOrSent, UnderWay
    <3> QED
      BY <2>1, <2>2, <3>3 DEF SyncInv
  <2> QED
    BY <1>1, <2>3, <2>4
<1> QED
  BY <1>3, <1>4, <1>5 DEF FeedInv

LEMMA RestartFollows ==
  ASSUME FeedInv, ListInv', Restart
  PROVE  FeedInv'
<1>0. ListInv /\ StoreTypes
  BY DEF FeedInv
<1>1. /\ answer' = {project} /\ shown' = None /\ cursor' = 0 /\ ever' = {} /\ project' = project
      /\ stream' = Idle /\ frames' = <<>> /\ poll' = NoPoll
  BY DEF Restart
<1>2. NoPoll \in PollType /\ Idle \in StreamType /\ <<>> \in Seq(FrameType) /\ DOMAIN <<>> = {}
  <2>1. <<>> \in Seq(Events) /\ <<>> \in Seq(FrameType)
    BY EmptySeq
  <2> QED
    BY <2>1 DEF NoPoll, Idle, PollType, StreamType
<1>3. StoreTypes'
  BY <1>0, <1>1, <1>2 DEF StoreTypes
<1>4. FrameInv'
  BY <1>1, <1>2 DEF FrameInv, Idle
<1>5. SyncInv'
  BY <1>1 DEF SyncInv, Shows
<1> QED
  BY <1>3, <1>4, <1>5 DEF FeedInv

\* The numbers a step of the desktop leaves count what was counted before.
LEMMA KeepsSync ==
  ASSUME FeedInv, UNCHANGED <<log, project, shown>>, SeenOrSent \subseteq SeenOrSent',
         Shows => /\ Reads(cursor')
                  /\ stream'.state # "off" => Reads(stream'.after)
                  /\ \A i \in DOMAIN frames' : frames'[i].kind # "end" => Reads(frames'[i].cursor)
                  /\ poll'.state # "none" => Reads(poll'.after)
                  /\ poll'.state = "answered" =>
                        poll.state = "answered" /\ poll' = poll
  PROVE  SyncInv'
<1>0. ListInv /\ StoreTypes /\ FrameInv /\ SyncInv
  BY DEF FeedInv
<1> SUFFICES ASSUME Shows'
             PROVE  /\ Reads(cursor)'
                    /\ stream'.state # "off" => Reads(stream.after)'
                    /\ \A i \in DOMAIN frames' : frames'[i].kind # "end" => Reads(frames[i].cursor)'
                    /\ poll'.state # "none" => Reads(poll.after)'
                    /\ poll'.state = "answered" =>
                          Covered(memory', hydrated' = project', SeenOrSent' \cup ToSet(poll'.got.events), poll'.got.cursor)
  BY DEF SyncInv
<1>1. Shows
  BY DEF Shows
<1>2. /\ \A c : Reads(c) => Covered(memory', hydrated' = project', SeenOrSent', c)
      /\ \A c, z : Covered(memory, hydrated = project, SeenOrSent \cup z, c)
                         => Covered(memory', hydrated' = project', SeenOrSent' \cup z, c)
  BY <1>0, KeepsReads
<1>3. Reads(cursor)'
  BY <1>1, <1>2 DEF Reads
<1>4. stream'.state # "off" => Reads(stream.after)'
  BY <1>1, <1>2 DEF Reads
<1>5. ASSUME NEW i \in DOMAIN frames', frames'[i].kind # "end" PROVE Reads(frames[i].cursor)'
  BY <1>1, <1>2, <1>5 DEF Reads
<1>6. poll'.state # "none" => Reads(poll.after)'
  BY <1>1, <1>2 DEF Reads
<1>7. poll'.state = "answered" =>
          Covered(memory', hydrated' = project', SeenOrSent' \cup ToSet(poll'.got.events), poll'.got.cursor)
  <2> SUFFICES ASSUME poll'.state = "answered"
               PROVE  Covered(memory', hydrated' = project', SeenOrSent' \cup ToSet(poll'.got.events), poll'.got.cursor)
    OBVIOUS
  <2>1. poll.state = "answered" /\ poll' = poll
    BY <1>1
  <2>2. Covered(memory, hydrated = project, SeenOrSent \cup ToSet(poll.got.events), poll.got.cursor)
    BY <1>0, <1>1, <2>1 DEF SyncInv
  <2>3. Covered(memory', hydrated' = project', SeenOrSent' \cup ToSet(poll.got.events), poll.got.cursor)
    BY <1>2, <2>2
  <2> QED
    BY <2>1, <2>3
<1> QED
  BY <1>3, <1>4, <1>5, <1>6, <1>7

\* The steps that open and end a stream, and ask a poll.
LEMMA StreamSteps ==
  ASSUME FeedInv, Connect \/ OpenStream \/ EndStream \/ AskPoll
  PROVE  FeedInv'
<1>0. ListInv /\ StoreTypes /\ FrameInv /\ SyncInv
  BY DEF FeedInv
<1>l. ListInv'
  <2>1. UNCHANGED log /\ project' = project /\ project \in Projects \cup {None}
    BY <1>0 DEF Connect, OpenStream, EndStream, AskPoll, ListInv, ListTypes
  <2> QED
    BY <1>0, <2>1, ListStays
<1>t. cursor \in Nat /\ stream \in StreamType /\ frames \in Seq(FrameType) /\ poll \in PollType /\ ever \subseteq Events
  BY <1>0 DEF StoreTypes
<1>s. /\ Len(frames) \in Nat /\ DOMAIN frames = 1 .. Len(frames)
      /\ \A i \in DOMAIN frames : frames[i] \in FrameType
  BY <1>t, InSequence
<1>1. CASE Connect
  <2>1. /\ shown # None /\ stream.state = "off" /\ frames' = <<>> /\ frames = <<>>
        /\ stream' = [state |-> "connecting", after |-> cursor, served |-> FALSE]
        /\ UNCHANGED <<log, project, answer, shown, cursor, ever, poll>>
    BY <1>0, <1>1 DEF Connect, FrameInv, store
  <2>2. StoreTypes'
    <3>1. stream' \in StreamType
      BY <1>t, <2>1 DEF StreamType
    <3> QED
      BY <1>0, <2>1, <3>1 DEF StoreTypes
  <2>3. FrameInv'
    BY <1>0, <2>1 DEF FrameInv
  <2>4. SeenOrSent' = SeenOrSent
    BY <2>1 DEF SeenOrSent, UnderWay
  <2>5. SyncInv'
    <3>1. Shows => /\ Reads(cursor') /\ Reads(stream'.after)
                   /\ \A i \in DOMAIN frames' : frames'[i].kind # "end" => Reads(frames'[i].cursor)
                   /\ poll'.state # "none" => Reads(poll'.after)
                   /\ poll'.state = "answered" => poll.state = "answered" /\ poll' = poll
      BY <1>0, <2>1 DEF SyncInv
    <3> QED
      BY <2>1, <2>4, <3>1, KeepsSync
  <2> QED
    BY <1>l, <2>2, <2>3, <2>5 DEF FeedInv
<1>2. CASE OpenStream
  <2>1. /\ stream.state = "connecting" /\ frames = <<>>
        /\ stream' = [stream EXCEPT !.state = "open"]
        /\ frames' = <<Frame("hello", 0, stream.after)>>
        /\ poll' = NoPoll
        /\ UNCHANGED <<log, project, answer, shown, cursor, ever>>
    BY <1>0, <1>2 DEF OpenStream, FrameInv, store
  <2>2. stream' \in StreamType /\ stream'.state = "open" /\ stream'.after = stream.after
    BY <1>t, <2>1 DEF StreamType
  <2>3. /\ Frame("hello", 0, stream.after) \in FrameType
        /\ Frame("hello", 0, stream.after).kind = "hello"
        /\ Frame("hello", 0, stream.after).event = 0
        /\ Frame("hello", 0, stream.after).cursor = stream.after
    BY <1>t DEF Frame, FrameType, FrameKinds, StreamType
  <2>4. frames' \in Seq(FrameType) /\ DOMAIN frames' = {1} /\ frames'[1] = Frame("hello", 0, stream.after)
    BY <2>1, <2>3
  <2>5. NoPoll \in PollType /\ NoPoll.state = "none"
    <3>1. <<>> \in Seq(Events)
      BY EmptySeq
    <3> QED
      BY <3>1 DEF NoPoll, PollType
  <2>6. StoreTypes'
    BY <1>0, <2>1, <2>2, <2>4, <2>5 DEF StoreTypes
  <2>7. FrameInv'
    <3>1. shown' # None
      BY <1>0, <2>1 DEF FrameInv, Idle
    <3> QED
      BY <2>2, <2>3, <2>4, <3>1 DEF FrameInv
  <2>8. SeenOrSent \subseteq SeenOrSent'
    BY <2>1 DEF SeenOrSent, UnderWay
  <2>9. SyncInv'
    <3>1. Shows => /\ Reads(cursor')
                   /\ stream'.state # "off" => Reads(stream'.after)
                   /\ \A i \in DOMAIN frames' : frames'[i].kind # "end" => Reads(frames'[i].cursor)
                   /\ poll'.state # "none" => Reads(poll'.after)
                   /\ poll'.state = "answered" => poll.state = "answered" /\ poll' = poll
      BY <1>0, <2>1, <2>2, <2>3, <2>4, <2>5 DEF SyncInv
    <3> QED
      BY <2>1, <2>8, <3>1, KeepsSync
  <2> QED
    BY <1>l, <2>6, <2>7, <2>9 DEF FeedInv
<1>3. CASE EndStream
  <2>1. /\ stream.state = "open"
        /\ stream' = [stream EXCEPT !.state = "ended"]
        /\ frames' = Append(frames, Frame("end", 0, 0))
        /\ UNCHANGED <<log, project, answer, shown, cursor, ever, poll>>
    BY <1>3 DEF EndStream, store
  <2>2. stream' \in StreamType /\ stream'.state = "ended" /\ stream'.after = stream.after
    BY <1>t, <2>1 DEF StreamType
  <2>3. /\ Frame("end", 0, 0) \in FrameType /\ Frame("end", 0, 0).kind = "end" /\ Frame("end", 0, 0).event = 0
    BY DEF Frame, FrameType, FrameKinds
  <2>4. /\ frames' \in Seq(FrameType) /\ Len(frames') = Len(frames) + 1
        /\ \A i \in 1 .. Len(frames) : frames'[i] = frames[i]
        /\ frames'[Len(frames) + 1] = Frame("end", 0, 0)
    BY <1>t, <2>1, <2>3, AppendProperties
  <2>5. DOMAIN frames' = 1 .. Len(frames) + 1
    BY <2>4, LenProperties
  <2>6. StoreTypes'
    BY <1>0, <2>1, <2>2, <2>4 DEF StoreTypes
  <2>7. \A i \in DOMAIN frames' : \/ i \in DOMAIN frames /\ frames'[i] = frames[i] /\ i # Len(frames')
                                  \/ i = Len(frames') /\ frames'[i] = Frame("end", 0, 0)
    BY <1>s, <2>4, <2>5
  <2>8. FrameInv'
    <3>1. \A i \in DOMAIN frames : frames[i].kind # "end"
      BY <1>0, <2>1 DEF FrameInv
    <3>2. shown' # None
      BY <1>0, <2>1 DEF FrameInv, Idle
    <3>3. frames' # <<>>
      BY <1>s, <2>4
    <3>4. \A i \in DOMAIN frames' : frames'[i].kind = "end" <=> i = Len(frames')
      BY <2>3, <2>7, <3>1
    <3>5. \A i \in DOMAIN frames' : IF frames'[i].kind = "event" THEN frames'[i].event \in Events
                                                                 ELSE frames'[i].event = 0
      BY <1>0, <2>3, <2>7 DEF FrameInv
    <3> QED
      BY <2>2, <3>2, <3>3, <3>4, <3>5 DEF FrameInv
  <2>9. SeenOrSent \subseteq SeenOrSent'
    <3>1. \A i \in DOMAIN frames : i \in DOMAIN frames' /\ frames'[i] = frames[i]
      BY <1>s, <2>4, <2>5
    <3> QED
      BY <2>1, <3>1 DEF SeenOrSent, UnderWay
  <2>10. SyncInv'
    <3>1. Shows => /\ Reads(cursor')
                   /\ stream'.state # "off" => Reads(stream'.after)
                   /\ \A i \in DOMAIN frames' : frames'[i].kind # "end" => Reads(frames'[i].cursor)
                   /\ poll'.state # "none" => Reads(poll'.after)
                   /\ poll'.state = "answered" => poll.state = "answered" /\ poll' = poll
      BY <1>0, <2>1, <2>2, <2>3, <2>7 DEF SyncInv
    <3> QED
      BY <2>1, <2>9, <3>1, KeepsSync
  <2> QED
    BY <1>l, <2>6, <2>8, <2>10 DEF FeedInv
<1>4. CASE AskPoll
  <2>1. /\ shown # None /\ poll' = [NoPoll EXCEPT !.state = "asked", !.after = cursor]
        /\ UNCHANGED <<log, project, answer, shown, cursor, ever, stream, frames>>
    BY <1>4 DEF AskPoll, store
  <2>2. poll' \in PollType /\ poll'.state = "asked" /\ poll'.after = cursor
    <3>1. <<>> \in Seq(Events)
      BY EmptySeq
    <3> QED
      BY <1>t, <2>1, <3>1 DEF NoPoll, PollType
  <2>3. StoreTypes' /\ FrameInv'
    BY <1>0, <2>1, <2>2 DEF StoreTypes, FrameInv
  <2>4. SeenOrSent' = SeenOrSent
    BY <2>1 DEF SeenOrSent, UnderWay
  <2>5. SyncInv'
    <3>1. Shows => /\ Reads(cursor')
                   /\ stream'.state # "off" => Reads(stream'.after)
                   /\ \A i \in DOMAIN frames' : frames'[i].kind # "end" => Reads(frames'[i].cursor)
                   /\ Reads(poll'.after)
                   /\ poll'.state # "answered"
      BY <1>0, <2>1, <2>2 DEF SyncInv
    <3> QED
      BY <2>1, <2>4, <3>1, KeepsSync
  <2> QED
    BY <1>l, <2>3, <2>5 DEF FeedInv
<1> QED
  BY <1>1, <1>2, <1>3, <1>4

\* An event that is received is seen; the others are on their way still.
LEMMA ReceiveKeeps ==
  ASSUME FeedInv, Receive
  PROVE  FeedInv'
<1>0. ListInv /\ StoreTypes /\ FrameInv /\ SyncInv
  BY DEF FeedInv
<1> DEFINE f == Head(frames)
<1>1. /\ frames # <<>> /\ frames' = Tail(frames)
      /\ \/ f.kind = "hello" /\ cursor' = f.cursor /\ UNCHANGED <<ever, stream>>
         \/ f.kind = "event" /\ ever' = ever \cup {f.event} /\ cursor' = f.cursor /\ UNCHANGED stream
         \/ f.kind = "end" /\ stream' = Idle /\ UNCHANGED <<cursor, ever>>
      /\ UNCHANGED <<log, project, answer, shown, poll>>
  <2>1. ToSet(<<f.event>>) = {f.event}
    BY DEF ToSet
  <2> QED
    BY <2>1 DEF Receive, Apply
<1>2. cursor \in Nat /\ stream \in StreamType /\ frames \in Seq(FrameType) /\ poll \in PollType /\ ever \subseteq Events
  BY <1>0 DEF StoreTypes
<1>3. /\ Len(frames) \in Nat /\ DOMAIN frames = 1 .. Len(frames)
      /\ \A i \in DOMAIN frames : frames[i] \in FrameType
  BY <1>2, InSequence
<1>4. /\ f \in FrameType /\ f = frames[1] /\ 1 \in DOMAIN frames
      /\ frames' \in Seq(FrameType) /\ Len(frames') = Len(frames) - 1
      /\ \A i \in 1 .. Len(frames') : frames'[i] = frames[i + 1]
  <2>1. /\ Head(frames) \in FrameType /\ Tail(frames) \in Seq(FrameType)
        /\ Len(Tail(frames)) = Len(frames) - 1
        /\ \A i \in 1 .. Len(Tail(frames)) : Tail(frames)[i] = frames[i + 1]
    BY <1>1, <1>2, HeadTailProperties
  <2>2. Len(frames) \in Nat \ {0}
    BY <1>1, <1>2, EmptySeq
  <2>3. Head(frames) = frames[1]
    BY <1>2, <2>2
  <2> QED
    BY <1>1, <1>3, <2>1, <2>2, <2>3
<1>5. DOMAIN frames' = 1 .. Len(frames) - 1
  BY <1>4, LenProperties
<1> HIDE DEF f
<1>6. f.kind \in FrameKinds /\ f.event \in Nat /\ f.cursor \in Nat
  BY <1>4 DEF FrameType
<1>7. \A i \in DOMAIN frames' : i + 1 \in DOMAIN frames /\ frames'[i] = frames[i + 1]
                              /\ (i + 1 = Len(frames) <=> i = Len(frames'))
  BY <1>3, <1>4, <1>5
<1>8. \A i \in DOMAIN frames : i = 1 \/ (i - 1 \in DOMAIN frames' /\ frames'[i - 1] = frames[i])
  <2> TAKE i \in DOMAIN frames
  <2>1. i # 1 => i - 1 \in DOMAIN frames' /\ (i - 1) + 1 = i
    BY <1>3, <1>5
  <2> QED
    BY <1>7, <2>1
<1>9. stream' \in StreamType /\ ever' \subseteq Events /\ cursor' \in Nat
  <2>1. Idle \in StreamType
    BY DEF Idle, StreamType
  <2>2. f.kind = "event" => f.event \in Events
    BY <1>0, <1>4 DEF FrameInv
  <2> QED
    BY <1>1, <1>2, <1>6, <2>1, <2>2
<1>10. StoreTypes'
  BY <1>0, <1>1, <1>4, <1>9 DEF StoreTypes
<1>11. FrameInv'
  <2>0. shown' # None
    BY <1>0, <1>1 DEF FrameInv
  <2>1. \A i \in DOMAIN frames' : IF frames'[i].kind = "event" THEN frames'[i].event \in Events
                                                               ELSE frames'[i].event = 0
    BY <1>0, <1>7 DEF FrameInv
  <2>2. CASE f.kind = "end"
    <3>1. stream.state = "ended"
      <4>1. stream.state \in {"off", "connecting", "open", "ended"}
        BY <1>2 DEF StreamType
      <4> QED
        BY <1>0, <1>1, <1>4, <2>2, <4>1 DEF FrameInv
    <3>2. Len(frames) = 1
      BY <1>0, <1>4, <2>2, <3>1 DEF FrameInv
    <3>3. frames' = <<>>
      <4>1. Len(frames') = 0
        BY <1>4, <3>2
      <4> QED
        BY <1>4, <4>1, EmptySeq
    <3>4. stream' = Idle
      BY <1>1, <2>2
    <3>5. DOMAIN frames' = {}
      BY <1>5, <3>2
    <3> QED
      BY <2>0, <3>3, <3>4, <3>5 DEF FrameInv, Idle
  <2>3. CASE f.kind # "end"
    <3>1. stream' = stream
      BY <1>1, <2>3
    <3>2. stream.state \notin {"off", "connecting"}
      BY <1>0, <1>1 DEF FrameInv
    <3>3. stream.state = "open" => \A i \in DOMAIN frames' : frames'[i].kind # "end"
      BY <1>0, <1>7 DEF FrameInv
    <3>4. ASSUME stream.state = "ended"
          PROVE  frames' # <<>> /\ \A i \in DOMAIN frames' : frames'[i].kind = "end" <=> i = Len(frames')
      <4>1. \A i \in DOMAIN frames : frames[i].kind = "end" <=> i = Len(frames)
        BY <1>0, <3>4 DEF FrameInv
      <4>2. Len(frames) # 1
        BY <1>4, <2>3, <4>1
      <4>3. Len(frames') # 0
        BY <1>3, <1>4, <4>2
      <4>4. frames' # <<>>
        BY <4>3, EmptySeq
      <4> QED
        BY <1>7, <4>1, <4>4
    <3> QED
      BY <2>0, <2>1, <3>1, <3>2, <3>3, <3>4 DEF FrameInv
  <2> QED
    BY <2>2, <2>3
<1>12. SeenOrSent \subseteq SeenOrSent'
  <2> SUFFICES ASSUME NEW e \in SeenOrSent PROVE e \in SeenOrSent'
    OBVIOUS
  <2>1. e \in Events /\ e # 0
    BY FeedAssumption DEF SeenOrSent, Events
  <2>2. ever \subseteq ever'
    BY <1>1
  <2>3. CASE e \in ever
    BY <2>1, <2>2, <2>3 DEF SeenOrSent
  <2>4. ASSUME NEW i \in DOMAIN frames, frames[i].event = e PROVE e \in SeenOrSent'
    <3>1. CASE i = 1
      <4>1. f.kind = "event"
        BY <1>0, <1>4, <2>1, <2>4, <3>1 DEF FrameInv
      <4>2. e \in ever'
        BY <1>1, <1>4, <2>4, <3>1, <4>1
      <4> QED
        BY <2>1, <4>2 DEF SeenOrSent
    <3>2. CASE i - 1 \in DOMAIN frames' /\ frames'[i - 1] = frames[i]
      BY <2>1, <2>4, <3>2 DEF SeenOrSent, UnderWay
    <3> QED
      BY <1>8, <3>1, <3>2
  <2> QED
    BY <2>1, <2>3, <2>4 DEF SeenOrSent, UnderWay
<1>13. SyncInv'
  <2>1. ASSUME Shows
        PROVE  /\ Reads(cursor')
               /\ stream'.state # "off" => Reads(stream'.after)
               /\ \A i \in DOMAIN frames' : frames'[i].kind # "end" => Reads(frames'[i].cursor)
               /\ poll'.state # "none" => Reads(poll'.after)
               /\ poll'.state = "answered" => poll.state = "answered" /\ poll' = poll
    <3>1. /\ Reads(cursor)
          /\ stream.state # "off" => Reads(stream.after)
          /\ \A i \in DOMAIN frames : frames[i].kind # "end" => Reads(frames[i].cursor)
          /\ poll.state # "none" => Reads(poll.after)
      BY <1>0, <2>1 DEF SyncInv
    <3>2. Reads(cursor')
      BY <1>1, <1>4, <3>1
    <3>3. stream'.state # "off" => Reads(stream'.after)
      BY <1>1, <3>1 DEF Idle
    <3>4. \A i \in DOMAIN frames' : frames'[i].kind # "end" => Reads(frames'[i].cursor)
      BY <1>7, <3>1
    <3> QED
      BY <1>1, <3>1, <3>2, <3>3, <3>4
  <2> QED
    BY <1>1, <1>12, <2>1, KeepsSync
<1>14. ListInv'
  <2>1. project \in Projects \cup {None}
    BY <1>0 DEF ListInv, ListTypes
  <2> QED
    BY <1>0, <1>1, <2>1, ListStays
<1> QED
  BY <1>10, <1>11, <1>13, <1>14 DEF FeedInv

\* What a poll brings is seen, and what it had counted.
LEMMA ReceivePollKeeps ==
  ASSUME FeedInv, ReceivePoll
  PROVE  FeedInv'
<1>0. ListInv /\ StoreTypes /\ FrameInv /\ SyncInv
  BY DEF FeedInv
<1>1. /\ poll.state = "answered" /\ ever' = ever \cup ToSet(poll.got.events)
      /\ cursor' = poll.got.cursor /\ poll' = NoPoll
      /\ UNCHANGED <<log, project, answer, shown, stream, frames>>
  BY DEF ReceivePoll, Apply
<1>2. ever \subseteq Events /\ poll.got.events \in Seq(Events) /\ poll.got.cursor \in Nat
  BY <1>0 DEF StoreTypes, PollType
<1>3. ToSet(poll.got.events) \subseteq Events
  BY <1>2, InSequence
<1>4. NoPoll \in PollType /\ NoPoll.state = "none"
  <2>1. <<>> \in Seq(Events)
    BY EmptySeq
  <2> QED
    BY <2>1 DEF NoPoll, PollType
<1>5. StoreTypes' /\ FrameInv'
  BY <1>0, <1>1, <1>2, <1>3, <1>4 DEF StoreTypes, FrameInv
<1>6. SeenOrSent' = SeenOrSent \cup ToSet(poll.got.events)
  BY <1>1, <1>3 DEF SeenOrSent, UnderWay
<1>7. SyncInv'
  <2> SUFFICES ASSUME Shows' PROVE SyncInv'
    BY DEF SyncInv
  <2>1. Shows
    BY <1>1 DEF Shows
  <2>2. /\ stream.state # "off" => Reads(stream.after)
        /\ \A i \in DOMAIN frames : frames[i].kind # "end" => Reads(frames[i].cursor)
        /\ Covered(memory, hydrated = project, SeenOrSent \cup ToSet(poll.got.events), poll.got.cursor)
    BY <1>0, <1>1, <2>1 DEF SyncInv
  <2>3. memory' = memory /\ hydrated' = hydrated /\ project' = project
    BY <1>1 DEF log
  <2>4. Reads(cursor)'
    BY <1>1, <1>6, <2>2, <2>3 DEF Reads
  <2>5. \A c : Reads(c) => Covered(memory', hydrated' = project', SeenOrSent', c)
    BY <1>0, <1>1, <1>6, KeepsReads
  <2>6. stream'.state # "off" => Reads(stream.after)'
    BY <1>1, <2>2, <2>5 DEF Reads
  <2>7. ASSUME NEW i \in DOMAIN frames', frames'[i].kind # "end" PROVE Reads(frames[i].cursor)'
    BY <1>1, <2>2, <2>5, <2>7 DEF Reads
  <2> QED
    BY <1>1, <1>4, <2>4, <2>6, <2>7 DEF SyncInv
<1>8. ListInv'
  <2>1. project \in Projects \cup {None}
    BY <1>0 DEF ListInv, ListTypes
  <2> QED
    BY <1>0, <1>1, <2>1, ListStays
<1> QED
  BY <1>5, <1>7, <1>8 DEF FeedInv

\* After the list was looked at it is the merged one, and no number counts
\* anything else.
LEMMA HydrateReads ==
  ASSUME ListInv, ListInv', Hydrate, project' = project, SeenOrSent \subseteq SeenOrSent'
  PROVE  /\ project # None => hydrated' = project
         /\ \A c : Reads(c) => Covered(memory', hydrated' = project', SeenOrSent', c)
<1>1. memory \in Seq(Events) /\ Len(memory) \in Nat
  <2>1. memory \in Seq(Events)
    BY DEF ListInv, ListTypes
  <2> QED
    BY <2>1, LenProperties
<1>2. CASE project \in {None, hydrated}
  <2>1. memory' = memory /\ hydrated' = hydrated
    BY <1>2 DEF Hydrate
  <2>2. Len(memory) <= Len(memory') /\ \A i \in 1 .. Len(memory) : memory'[i] = memory[i]
    BY <1>1, <2>1
  <2>3. \A c : Reads(c) => Covered(memory', hydrated' = project', SeenOrSent', c)
    BY <2>1, <2>2, Onward
  <2> QED
    BY <1>2, <2>1, <2>3
<1>3. CASE project \notin {None, hydrated}
  <2>1. hydrated' = project /\ hydrated # project
    BY <1>3 DEF Hydrate
  <2>2. \A c : Reads(c) => Covered(memory', hydrated' = project', SeenOrSent', c)
    BY <2>1, Onward
  <2> QED
    BY <2>1, <2>2
<1> QED
  BY <1>2, <1>3

\* A poll is answered with what comes after the cursor it was asked with.
LEMMA ServePollKeeps ==
  ASSUME FeedInv, ServePoll
  PROVE  FeedInv'
<1>0. ListInv /\ StoreTypes /\ FrameInv /\ SyncInv
  BY DEF FeedInv
<1> DEFINE got == Listed(poll.after)
<1>1. /\ poll.state = "asked" /\ Hydrate /\ poll' = [poll EXCEPT !.state = "answered", !.got = got]
      /\ UNCHANGED <<logs, writing, born, boot, project, answer, shown, cursor, ever, stream, frames>>
  BY DEF ServePoll, store
<1>2. ListInv'
  BY <1>0, <1>1, HydrateKeeps
<1>3. memory' \in Seq(Events) /\ Len(memory') \in Nat
  <2>1. memory' \in Seq(Events)
    BY <1>2 DEF ListInv, ListTypes
  <2> QED
    BY <2>1, LenProperties
<1>4. poll \in PollType /\ poll.after \in Nat
  BY <1>0 DEF StoreTypes, PollType
<1>5. got.events = SubSeq(memory', poll.after + 1, Len(memory')) /\ got.cursor = Len(memory')
      /\ got = [events |-> got.events, cursor |-> got.cursor]
  BY DEF Listed
<1>6. got.events \in Seq(Events)
  BY <1>3, <1>4, <1>5, ListedAfter
<1> HIDE DEF got
<1>7. poll' \in PollType /\ poll'.state = "answered" /\ poll'.after = poll.after /\ poll'.got = got
  <2>1. got \in [events : Seq(Events), cursor : Nat]
    BY <1>3, <1>5, <1>6
  <2> QED
    BY <1>1, <1>4, <2>1 DEF PollType
<1>8. StoreTypes'
  BY <1>0, <1>1, <1>7 DEF StoreTypes
<1>9. FrameInv'
  <2>1. shown # None
    BY <1>0, <1>1 DEF FrameInv, NoPoll
  <2> QED
    BY <1>0, <1>1, <2>1 DEF FrameInv
<1>10. SeenOrSent' = SeenOrSent
  BY <1>1 DEF SeenOrSent, UnderWay
<1>11. SyncInv'
  <2> SUFFICES ASSUME Shows' PROVE SyncInv'
    BY DEF SyncInv
  <2>1. Shows /\ project' = project /\ project # None
    BY <1>1 DEF Shows
  <2>2. /\ Reads(cursor)
        /\ stream.state # "off" => Reads(stream.after)
        /\ \A i \in DOMAIN frames : frames[i].kind # "end" => Reads(frames[i].cursor)
        /\ Reads(poll.after)
    BY <1>0, <1>1, <2>1 DEF SyncInv
  <2>3. /\ hydrated' = project'
        /\ \A c : Reads(c) => Covered(memory', hydrated' = project', SeenOrSent', c)
    BY <1>0, <1>1, <1>2, <1>10, <2>1, HydrateReads
  <2>4. Reads(cursor)' /\ (stream'.state # "off" => Reads(stream.after)') /\ Reads(poll.after)'
    BY <1>1, <1>7, <2>2, <2>3 DEF Reads
  <2>5. ASSUME NEW i \in DOMAIN frames', frames'[i].kind # "end" PROVE Reads(frames[i].cursor)'
    BY <1>1, <2>2, <2>3, <2>5 DEF Reads
  <2>6. Covered(memory', hydrated' = project', SeenOrSent' \cup ToSet(poll'.got.events), poll'.got.cursor)
    <3> DEFINE z == SeenOrSent' \cup ToSet(got.events)
    <3>1. Covered(memory', TRUE, SeenOrSent', poll.after)
      BY <2>2, <2>3
    <3>2. SeenOrSent' \subseteq z
      OBVIOUS
    <3>3. \A k \in DOMAIN got.events : got.events[k] \in z
      BY <1>6, InSequence
    <3> HIDE DEF z
    <3>4. Covered(memory', TRUE, z, Len(memory'))
      BY <1>3, <1>4, <1>5, <3>1, <3>2, <3>3, AllCovered
    <3> QED
      BY <1>5, <1>7, <2>3, <3>4 DEF z
  <2> QED
    BY <2>4, <2>5, <2>6 DEF SyncInv
<1> QED
  BY <1>2, <1>8, <1>9, <1>11 DEF FeedInv

Twofold(s, to) == [i \in 1 .. 2 * Len(s) |-> Frame("event", s[(i + 1) \div 2], to)]

\* The frames of a list hold each event of it twice.
LEMMA TwiceEach ==
  ASSUME NEW s \in Seq(Events), NEW to \in Nat
  PROVE  /\ Twofold(s, to) \in Seq(FrameType)
         /\ \A i \in DOMAIN Twofold(s, to) :
                /\ Twofold(s, to)[i].kind = "event" /\ Twofold(s, to)[i].event \in Events
                /\ Twofold(s, to)[i].cursor = to
         /\ \A k \in DOMAIN s : \E i \in DOMAIN Twofold(s, to) : Twofold(s, to)[i].event = s[k]
<1> DEFINE t == Twofold(s, to)
<1>e. t = [i \in 1 .. 2 * Len(s) |-> Frame("event", s[(i + 1) \div 2], to)]
  BY DEF Twofold
<1> HIDE DEF t
<1>1. Len(s) \in Nat /\ DOMAIN s = 1 .. Len(s) /\ \A k \in DOMAIN s : s[k] \in Events
  BY InSequence
<1>2. ASSUME NEW i \in 1 .. 2 * Len(s) PROVE (i + 1) \div 2 \in 1 .. Len(s)
  <2> DEFINE n == Len(s)
  <2>1. n \in Nat /\ i \in 1 .. 2 * n
    BY <1>1
  <2> HIDE DEF n
  <2>2. i \in Nat /\ 1 <= i /\ i <= 2 * n
    BY <2>1
  <2>3. (i + 1) \div 2 \in 1 .. n
    BY <2>1, <2>2
  <2> QED
    BY <2>3 DEF n
<1>3. ASSUME NEW i \in 1 .. 2 * Len(s)
      PROVE  /\ t[i] \in FrameType /\ t[i].kind = "event"
             /\ t[i].event \in Events /\ t[i].cursor = to
  <2>1. s[(i + 1) \div 2] \in Events
    BY <1>1, <1>2
  <2>2. t[i] = Frame("event", s[(i + 1) \div 2], to)
    BY <1>e
  <2>3. s[(i + 1) \div 2] \in Nat
    BY <2>1, FeedAssumption DEF Events
  <2> QED
    BY <2>1, <2>2, <2>3 DEF Frame, FrameType, FrameKinds
<1>4. t \in [1 .. 2 * Len(s) -> FrameType]
  BY <1>3, <1>e
<1>5. t \in Seq(FrameType)
  <2>1. 2 * Len(s) \in Nat
    BY <1>1
  <2> QED
    BY <1>4, <2>1, SeqDef
<1>6. ASSUME NEW k \in DOMAIN s PROVE \E i \in DOMAIN t : t[i].event = s[k]
  <2>1. 2 * k \in 1 .. 2 * Len(s) /\ (2 * k + 1) \div 2 = k
    <3> DEFINE n == Len(s)
    <3>1. n \in Nat /\ k \in 1 .. n
      BY <1>1
    <3> HIDE DEF n
    <3>2. k \in Nat /\ 1 <= k /\ k <= n
      BY <3>1
    <3>3. 2 * k \in Nat /\ 1 <= 2 * k /\ 2 * k <= 2 * n
      BY <3>1, <3>2
    <3>4. (2 * k + 1) \div 2 = k
      <4> DEFINE q == (2 * k + 1) \div 2
      <4>1. q \in Int /\ 2 * q <= 2 * k + 1 /\ 2 * k + 1 < 2 * (q + 1)
        BY <3>2
      <4> HIDE DEF q
      <4>2. q = k
        BY <3>2, <4>1
      <4> QED
        BY <4>2 DEF q
    <3> QED
      BY <3>1, <3>3, <3>4 DEF n
  <2>2. t[2 * k] = Frame("event", s[k], to)
    BY <1>e, <2>1
  <2> QED
    BY <1>e, <2>1, <2>2 DEF Frame
<1>7. t \in Seq(FrameType) /\ DOMAIN t = 1 .. 2 * Len(s)
  BY <1>5, <1>e
<1> QED
  BY <1>3, <1>6, <1>7 DEF t

\* The stream sends what comes after what it has sent.
LEMMA ServeKeeps ==
  ASSUME FeedInv, Serve
  PROVE  FeedInv'
<1>0. ListInv /\ StoreTypes /\ FrameInv /\ SyncInv
  BY DEF FeedInv
<1> DEFINE got == Listed(stream.after)
           to == IF got.cursor = 0 THEN stream.after ELSE got.cursor
           new == Twofold(got.events, to)
<1>1. /\ stream.state = "open" /\ Hydrate
      /\ frames' = frames \o new
      /\ stream' = [stream EXCEPT !.after = to, !.served = TRUE]
      /\ UNCHANGED <<logs, writing, born, boot, project, answer, shown, cursor, ever, poll>>
  BY DEF Serve, store, Twofold
<1>2. ListInv'
  BY <1>0, <1>1, HydrateKeeps
<1>3. memory' \in Seq(Events) /\ Len(memory') \in Nat
  <2>1. memory' \in Seq(Events)
    BY <1>2 DEF ListInv, ListTypes
  <2> QED
    BY <2>1, LenProperties
<1>4. stream \in StreamType /\ stream.after \in Nat /\ frames \in Seq(FrameType)
  BY <1>0 DEF StoreTypes, StreamType
<1>5. got.events = SubSeq(memory', stream.after + 1, Len(memory')) /\ got.cursor = Len(memory')
  BY DEF Listed
<1>6. got.events \in Seq(Events)
  BY <1>3, <1>4, <1>5, ListedAfter
<1>7. to \in Nat
  BY <1>3, <1>4, <1>5
<1> HIDE DEF got, to
<1> HIDE DEF new
<1>8. /\ new \in Seq(FrameType)
      /\ \A i \in DOMAIN new : new[i].kind = "event" /\ new[i].event \in Events /\ new[i].cursor = to
      /\ \A k \in DOMAIN got.events : \E i \in DOMAIN new : new[i].event = got.events[k]
  BY <1>6, <1>7, TwiceEach DEF new
<1>9. /\ frames' \in Seq(FrameType)
      /\ \A i \in DOMAIN frames : i \in DOMAIN frames' /\ frames'[i] = frames[i]
      /\ \A i \in DOMAIN new : \E k \in DOMAIN frames' : frames'[k] = new[i]
      /\ \A i \in DOMAIN frames' : \/ i \in DOMAIN frames /\ frames'[i] = frames[i]
                                   \/ \E k \in DOMAIN new : frames'[i] = new[k]
  <2>1. /\ frames' \in Seq(FrameType)
        /\ DOMAIN frames' = 1 .. Len(frames) + Len(new)
        /\ \A i \in 1 .. Len(frames) : frames'[i] = frames[i]
        /\ \A i \in 1 .. Len(new) : frames'[Len(frames) + i] = new[i]
        /\ \A i \in 1 .. Len(frames) + Len(new) :
               i \in 1 .. Len(frames) \/ \E j \in 1 .. Len(new) : i = Len(frames) + j
    <3>1. frames \o new \in Seq(FrameType) /\ JoinOf(frames \o new, frames, new)
      BY <1>4, <1>8, Joined
    <3> QED
      BY <1>1, <3>1 DEF JoinOf
  <2>2. /\ DOMAIN frames = 1 .. Len(frames) /\ DOMAIN new = 1 .. Len(new)
        /\ Len(frames) \in Nat /\ Len(new) \in Nat
    BY <1>4, <1>8, LenProperties
  <2>3. \A i \in DOMAIN frames : i \in DOMAIN frames' /\ frames'[i] = frames[i]
    BY <2>1, <2>2
  <2>4. ASSUME NEW i \in DOMAIN new PROVE \E k \in DOMAIN frames' : frames'[k] = new[i]
    <3>1. Len(frames) + i \in DOMAIN frames'
      BY <2>1, <2>2
    <3> QED
      BY <2>1, <2>2, <3>1
  <2>5. ASSUME NEW i \in DOMAIN frames'
        PROVE  \/ i \in DOMAIN frames /\ frames'[i] = frames[i]
               \/ \E k \in DOMAIN new : frames'[i] = new[k]
    <3>1. CASE i \in 1 .. Len(frames)
      BY <2>1, <2>2, <3>1
    <3>2. ASSUME NEW j \in 1 .. Len(new), i = Len(frames) + j
          PROVE  \E k \in DOMAIN new : frames'[i] = new[k]
      BY <2>1, <2>2, <3>2
    <3>3. i \in 1 .. Len(frames) \/ \E j \in 1 .. Len(new) : i = Len(frames) + j
      BY <2>1
    <3> QED
      BY <3>1, <3>2, <3>3
  <2> QED
    BY <2>1, <2>3, <2>4, <2>5
<1>10. stream' \in StreamType /\ stream'.state = "open" /\ stream'.after = to
  BY <1>1, <1>4, <1>7 DEF StreamType
<1>11. StoreTypes'
  BY <1>0, <1>1, <1>9, <1>10 DEF StoreTypes
<1>12. FrameInv'
  <2>1. shown # None
    BY <1>0, <1>1 DEF FrameInv, Idle
  <2>2. \A i \in DOMAIN frames' : frames'[i].kind # "end"
    BY <1>0, <1>1, <1>8, <1>9 DEF FrameInv
  <2>3. \A i \in DOMAIN frames' : IF frames'[i].kind = "event" THEN frames'[i].event \in Events
                                                               ELSE frames'[i].event = 0
    BY <1>0, <1>8, <1>9 DEF FrameInv
  <2> QED
    BY <1>1, <1>10, <2>1, <2>2, <2>3 DEF FrameInv
<1>13. SeenOrSent \subseteq SeenOrSent'
  BY <1>1, <1>9 DEF SeenOrSent, UnderWay
<1>14. \A k \in DOMAIN got.events : got.events[k] \in SeenOrSent'
  <2> TAKE k \in DOMAIN got.events
  <2>1. PICK i \in DOMAIN new : new[i].event = got.events[k]
    BY <1>8
  <2>2. PICK j \in DOMAIN frames' : frames'[j] = new[i]
    BY <1>9
  <2>3. got.events[k] \in Events
    BY <1>6, InSequence
  <2> QED
    BY <2>1, <2>2, <2>3 DEF SeenOrSent, UnderWay
<1>15. SyncInv'
  <2> SUFFICES ASSUME Shows' PROVE SyncInv'
    BY DEF SyncInv
  <2>1. Shows /\ project' = project /\ project # None
    BY <1>1 DEF Shows
  <2>2. /\ Reads(cursor) /\ Reads(stream.after)
        /\ \A i \in DOMAIN frames : frames[i].kind # "end" => Reads(frames[i].cursor)
        /\ poll.state # "none" => Reads(poll.after)
    BY <1>0, <1>1, <2>1 DEF SyncInv
  <2>3. /\ hydrated' = project'
        /\ \A c : Reads(c) => Covered(memory', hydrated' = project', SeenOrSent', c)
    BY <1>0, <1>1, <1>2, <1>13, <2>1, HydrateReads
  <2>4. Covered(memory', TRUE, SeenOrSent', to)
    <3>1. Covered(memory', TRUE, SeenOrSent', stream.after)
      BY <2>2, <2>3
    <3>2. Covered(memory', TRUE, SeenOrSent', Len(memory'))
      BY <1>3, <1>4, <1>5, <1>14, <3>1, AllCovered
    <3> QED
      BY <1>5, <3>1, <3>2 DEF to
  <2>5. Reads(cursor)' /\ (poll'.state # "none" => Reads(poll.after)')
    BY <1>1, <2>2, <2>3 DEF Reads
  <2>6. Reads(stream.after)'
    BY <1>10, <2>3, <2>4 DEF Reads
  <2>7. ASSUME NEW i \in DOMAIN frames', frames'[i].kind # "end" PROVE Reads(frames[i].cursor)'
    <3>1. CASE i \in DOMAIN frames /\ frames'[i] = frames[i]
      BY <2>2, <2>3, <2>7, <3>1 DEF Reads
    <3>2. ASSUME NEW k \in DOMAIN new, frames'[i] = new[k] PROVE Reads(frames[i].cursor)'
      <4>1. frames'[i].cursor = to
        BY <1>8, <3>2
      <4> QED
        BY <2>3, <2>4, <4>1 DEF Reads
    <3> QED
      BY <1>9, <3>1, <3>2
  <2>8. poll'.state = "answered" =>
            Covered(memory', hydrated' = project', SeenOrSent' \cup ToSet(poll'.got.events), poll'.got.cursor)
    <3> SUFFICES ASSUME poll'.state = "answered"
                 PROVE  Covered(memory', hydrated' = project', SeenOrSent' \cup ToSet(poll'.got.events), poll'.got.cursor)
      OBVIOUS
    <3>1. Covered(memory, hydrated = project, SeenOrSent \cup ToSet(poll.got.events), poll.got.cursor)
      BY <1>0, <1>1, <2>1 DEF SyncInv
    <3>2. \/ hydrated # project
          \/ /\ hydrated' = hydrated /\ Len(memory) <= Len(memory')
             /\ \A i \in 1 .. Len(memory) : memory'[i] = memory[i]
      <4>1. hydrated = project => memory' = memory /\ hydrated' = hydrated
        BY <1>1 DEF Hydrate
      <4> QED
        BY <1>3, <4>1
    <3>3. \A c, z : Covered(memory, hydrated = project, SeenOrSent \cup z, c)
                         => Covered(memory', hydrated' = project', SeenOrSent' \cup z, c)
      BY <1>0, <1>2, <1>13, <2>1, <3>2, Onward
    <3> QED
      BY <1>1, <3>1, <3>3
  <2> QED
    BY <2>5, <2>6, <2>7, <2>8 DEF SyncInv
<1> QED
  BY <1>2, <1>11, <1>12, <1>15 DEF FeedInv

LEMMA FeedStart ==
  ASSUME Init
  PROVE  FeedInv
<1>1. ListInv
  BY ListStart
<1>2. /\ answer = {project} /\ shown = None /\ cursor = 0 /\ ever = {}
      /\ stream = Idle /\ frames = <<>> /\ poll = NoPoll
  BY DEF Init
<1>3. NoPoll \in PollType /\ Idle \in StreamType /\ <<>> \in Seq(FrameType) /\ DOMAIN <<>> = {}
  <2>1. <<>> \in Seq(Events) /\ <<>> \in Seq(FrameType)
    BY EmptySeq
  <2> QED
    BY <2>1 DEF NoPoll, Idle, PollType, StreamType
<1>4. StoreTypes
  BY <1>2, <1>3 DEF StoreTypes
<1>5. FrameInv
  BY <1>2, <1>3 DEF FrameInv, Idle
<1>6. SyncInv
  BY <1>2 DEF SyncInv, Shows
<1> QED
  BY <1>1, <1>4, <1>5, <1>6 DEF FeedInv

LEMMA FeedStep ==
  ASSUME FeedInv, Next
  PROVE  FeedInv'
<1>1. ListInv'
  BY ListStep DEF FeedInv
<1>2. CASE Record \/ (\E e \in writing : WriteLine(e)) \/ Look
  BY <1>1, <1>2, LogSteps
<1>3. CASE \E p \in Projects \cup {None} : Ask(p) \/ Show(p)
  BY <1>1, <1>3, AskKeeps, ShowKeeps
<1>4. CASE Restart
  BY <1>1, <1>4, RestartFollows
<1>5. CASE Connect \/ OpenStream \/ EndStream \/ AskPoll
  BY <1>5, StreamSteps
<1>6. CASE Serve \/ Receive \/ ServePoll \/ ReceivePoll
  BY <1>6, ServeKeeps, ReceiveKeeps, ServePollKeeps, ReceivePollKeeps
<1> QED
  BY <1>2, <1>3, <1>4, <1>5, <1>6 DEF Next

LEMMA FeedStays ==
  ASSUME FeedInv, UNCHANGED vars
  PROVE  FeedInv'
<1>1. UNCHANGED log /\ project' = project
  BY DEF vars
<1>2. ListInv'
  BY <1>1, ListStays DEF FeedInv, ListInv, ListTypes
<1>3. StoreTypes' /\ FrameInv'
  BY DEF FeedInv, StoreTypes, FrameInv, vars, store
<1>4. SyncInv'
  BY <1>1 DEF FeedInv, SyncInv, Shows, Reads, SeenOrSent, UnderWay, vars, store, log
<1> QED
  BY <1>2, <1>3, <1>4 DEF FeedInv

\* Nothing before the cursor has been missed.
LEMMA NothingMissed == ASSUME FeedInv PROVE NoGap
<1> SUFFICES ASSUME Following, NEW i \in DOMAIN memory, i <= cursor
             PROVE  memory[i] \in ever \cup UnderWay
  BY DEF NoGap
<1>1. Reads(cursor)
  BY DEF FeedInv, SyncInv, Shows, Following
<1>2. i \in 1 .. cursor
  <2>1. DOMAIN memory = 1 .. Len(memory) /\ Len(memory) \in Nat
    BY LenProperties DEF FeedInv, ListInv, ListTypes
  <2>2. cursor \in Nat
    BY DEF FeedInv, StoreTypes
  <2> QED
    BY <2>1, <2>2
<1> QED
  BY <1>1, <1>2 DEF Reads, Covered, SeenOrSent

LEMMA FeedTypes == ASSUME FeedInv PROVE TypeOK
<1> USE DEF FeedInv
<1>0. ListTypes /\ StoreTypes
  BY DEF ListInv
<1>1. ASSUME NEW p \in Projects, NEW i \in 1 .. MaxEvents, i \in DOMAIN logs[p]
      PROVE  logs[p][i] \in [event : Events, index : Nat]
  <2>1. logs[p] \in Seq(LogLine)
    BY <1>0 DEF ListTypes
  <2> QED
    BY <1>1, <2>1, InSequence DEF LogLine
<1>2. /\ memory \in Seq(Events)
      /\ {hydrated, project, shown} \subseteq Projects \cup {None}
      /\ merged \subseteq Projects
      /\ writing \subseteq boot + 1 .. born
      /\ boot <= born /\ born <= MaxEvents
  BY <1>0 DEF ListTypes, StoreTypes
<1>3. Cardinality(answer) <= 1 /\ answer \subseteq Projects \cup {None}
  <2>1. Cardinality({}) = 0 /\ Cardinality({project}) = 1
    BY FS_EmptySet, FS_Singleton
  <2>2. answer = {} \/ answer = {project}
    BY <1>0 DEF StoreTypes
  <2>3. Cardinality(answer) = 0 \/ Cardinality(answer) = 1
    BY <2>1, <2>2
  <2> QED
    BY <1>2, <2>2, <2>3
<1>4. ever \subseteq Events /\ cursor \in Nat
  BY <1>0 DEF StoreTypes
<1>5. stream \in [state : {"off", "connecting", "open", "ended"}, after : Nat, served : BOOLEAN]
  BY <1>0 DEF StoreTypes, StreamType
<1>6. \A i \in DOMAIN frames : frames[i] \in [kind : FrameKinds, event : Nat, cursor : Nat]
  <2>1. frames \in Seq(FrameType)
    BY <1>0 DEF StoreTypes
  <2> QED
    BY <2>1, InSequence DEF FrameType
<1>7. poll.state \in {"none", "asked", "answered"}
  BY <1>0 DEF StoreTypes, PollType
<1> QED
  BY <1>1, <1>2, <1>3, <1>4, <1>5, <1>6, <1>7 DEF TypeOK

LEMMA Whole == ASSUME FeedInv PROVE ListIsWhole
<1>1. memory \in Seq(Events)
  BY DEF FeedInv, ListInv, ListTypes
<1>2. NothingForgotten
  <2>1. ToSet(memory) = {memory[i] : i \in DOMAIN memory}
    BY <1>1, InSequence
  <2> QED
    BY <2>1 DEF NothingForgotten, FeedInv, ListInv, WholeInv
<1> QED
  BY <1>2, FeedTypes DEF ListIsWhole, FeedInv, ListInv

-----------------------------------------------------------------------------
(* ThreadView: what is made of the items of a turn.                        *)

\* Items, as the app-server has them and as they are told of.
Commands == {Command("inProgress"), Command("completed")}
CallItems == {Call(id, "inProgress", "nothing") : id \in Nat}
             \cup {Call(id, "completed", tells) : id \in Nat, tells \in {"values", "marker"}}
Items == Messages \cup Commands \cup CallItems

\* A call is told of as it begins, and then as it is complete.
InOrder(events) == \A i, j \in DOMAIN events :
    i < j /\ events[i].id = events[j].id => events[i].state = "inProgress"

\* Each call is there once.
Apart(items) == \A i, j \in Calls(items) : items[i].id = items[j].id => i = j

\* An item of a turn, as it was earlier.
Earlier(x, y) == x = y \/ (x.kind # "message" /\ x.kind = y.kind /\ x.state = "inProgress"
                           /\ (IsCall(y) => x = Call(y.id, "inProgress", "nothing")))

-----------------------------------------------------------------------------
LEMMA ItemsOf ==
  ASSUME NEW x \in Items
  PROVE  /\ x.kind \in {"message", "command", "call"}
         /\ IsCall(x) <=> x \in CallItems
         /\ IsCall(x) => x.id \in Nat /\ x.state \in {"inProgress", "completed"}
         /\ x.kind = "message" <=> x \in Messages
         /\ Verified(x) => x.state = "completed"
         /\ IsCall(x) /\ x.state = "inProgress" => x = Call(x.id, "inProgress", "nothing")
BY DEF Items, Messages, Message, Commands, Command, CallItems, Call, IsCall, Verified

\* A set of numbers up to another that is not empty has a greatest one.
LEMMA Greatest ==
  ASSUME NEW n \in Nat, NEW T, T \subseteq 0 .. n, T # {}
  PROVE  \E x \in T : \A y \in T : y <= x
<1> DEFINE U == {n - y : y \in T}
<1>1. U \subseteq Nat /\ U # {}
  <2>1. ASSUME NEW y \in T PROVE n - y \in Nat
    <3>1. y \in 0 .. n
      OBVIOUS
    <3> QED
      BY <3>1
  <2> QED
    BY <2>1
<1>2. PICK u \in U : \A w \in U : u <= w
  BY <1>1, Least
<1>3. PICK x \in T : u = n - x
  OBVIOUS
<1>4. ASSUME NEW y \in T PROVE y <= x
  <2>1. n - x <= n - y
    BY <1>2, <1>3
  <2> QED
    BY <2>1
<1> QED
  BY <1>4

\* The latest event of each call is what the call is complete with, if one is.
LEMMA LatestEvents ==
  ASSUME NEW events \in Seq(CallItems), InOrder(events)
  PROVE  /\ LatestOf(events) \in Seq(CallItems)
         /\ \A n, k \in DOMAIN LatestOf(events) :
                LatestOf(events)[n].id = LatestOf(events)[k].id => n = k
         /\ \A n \in DOMAIN LatestOf(events) : \E i \in DOMAIN events : LatestOf(events)[n] = events[i]
         /\ \A i \in DOMAIN events : \E n \in DOMAIN LatestOf(events) :
                /\ LatestOf(events)[n].id = events[i].id
                /\ events[i].state = "completed" => LatestOf(events)[n] = events[i]
<1> DEFINE last == {i \in DOMAIN events : \A j \in Named(events, events[i].id) : j <= i}
           latest == Chosen(events, last)
<1>1. LatestOf(events) = latest
  BY DEF LatestOf
<1>2. /\ Len(events) \in Nat /\ DOMAIN events = 1 .. Len(events)
      /\ \A i \in DOMAIN events : events[i] \in CallItems
  BY InSequence
<1>3. \A i \in DOMAIN events : IsCall(events[i]) /\ events[i].state \in {"inProgress", "completed"}
  BY <1>2 DEF CallItems, Call, IsCall
<1>4. last \subseteq DOMAIN events
  OBVIOUS
<1>5. \A i \in last : \A j \in DOMAIN events : events[j].id = events[i].id => j <= i
  BY <1>3 DEF Named
<1>6. \A i \in DOMAIN events :
          (\A j \in DOMAIN events : events[j].id = events[i].id => j <= i) => i \in last
  BY DEF Named
<1> HIDE DEF last
<1>7. /\ latest \in Seq(CallItems)
      /\ \A n \in DOMAIN latest : Nth(last, n) \in last /\ latest[n] = events[Nth(last, n)]
      /\ \A i \in last : \E n \in DOMAIN latest : Nth(last, n) = i /\ latest[n] = events[i]
      /\ \A n, k \in DOMAIN latest : n < k => Nth(last, n) < Nth(last, k)
  BY <1>4, ChosenOf
<1> HIDE DEF latest
<1>8. ASSUME NEW n \in DOMAIN latest, NEW k \in DOMAIN latest, latest[n].id = latest[k].id
      PROVE  n = k
  <2>1. Nth(last, n) <= Nth(last, k) /\ Nth(last, k) <= Nth(last, n)
    BY <1>4, <1>5, <1>7, <1>8
  <2>2. Nth(last, n) \in Nat /\ Nth(last, k) \in Nat
    BY <1>2, <1>4, <1>7
  <2>3. ~(n < k) /\ ~(k < n)
    BY <1>7, <2>1, <2>2
  <2>4. n \in Nat /\ k \in Nat
    BY <1>7, LenProperties
  <2> QED
    BY <2>3, <2>4
<1>9. ASSUME NEW i \in DOMAIN events
      PROVE  \E n \in DOMAIN latest : /\ latest[n].id = events[i].id
                                      /\ events[i].state = "completed" => latest[n] = events[i]
  <2> DEFINE T == {j \in DOMAIN events : events[j].id = events[i].id}
  <2>1. T \subseteq 0 .. Len(events) /\ i \in T
    BY <1>2
  <2>2. PICK l \in T : \A y \in T : y <= l
    BY <1>2, <2>1, Greatest
  <2>3. l \in last /\ events[l].id = events[i].id /\ i <= l
    BY <1>6, <2>1, <2>2
  <2>4. PICK n \in DOMAIN latest : latest[n] = events[l]
    BY <1>7, <2>3
  <2>5. events[i].state = "completed" => i = l
    <3>1. i \in Nat /\ l \in Nat /\ l \in DOMAIN events
      BY <1>2, <2>2
    <3>2. i < l => events[i].state = "inProgress"
      BY <2>3, <3>1 DEF InOrder
    <3> QED
      BY <2>3, <3>1, <3>2
  <2> QED
    BY <2>3, <2>4, <2>5
<1> QED
  BY <1>1, <1>4, <1>7, <1>8, <1>9

\* What Overlaid makes of the items it is given, what it adds to them, and where.
Brought(items, latest) ==
    [i \in DOMAIN items |->
        IF IsCall(items[i]) /\ Named(latest, items[i].id) # {}
        THEN latest[CHOOSE n \in Named(latest, items[i].id) : TRUE] ELSE items[i]]
Missing(items, latest) ==
    Chosen(latest, {i \in DOMAIN latest : Named(items, latest[i].id) = {}})
Inserted(s, t, here) == SubSeq(s, 1, here - 1) \o t \o SubSeq(s, here, Len(s))

\* Where r, s with t put in before position h, holds what both hold.
HoldsBoth(r, s, t, h) ==
    /\ \A i \in 1 .. Len(s) : i < h => r[i] = s[i]
    /\ \A i \in 1 .. Len(s) : i >= h => r[Len(t) + i] = s[i]
    /\ \A n \in 1 .. Len(t) : r[h - 1 + n] = t[n]
    /\ \A k \in 1 .. Len(s) + Len(t) :
           \/ k \in 1 .. Len(s) /\ k < h
           \/ \E i \in 1 .. Len(s) : i >= h /\ k = Len(t) + i
           \/ \E n \in 1 .. Len(t) : k = h - 1 + n

LEMMA OverlaidIs ==
  ASSUME NEW items, NEW events
  PROVE  Overlaid(items, events) =
             Inserted(Brought(items, LatestOf(events)), Missing(items, LatestOf(events)),
                      FirstMessage(Brought(items, LatestOf(events))))
BY DEF Overlaid, Inserted, Brought, Missing

LEMMA InsertedHolds ==
  ASSUME NEW S, NEW s \in Seq(S), NEW t \in Seq(S), NEW h \in 1 .. Len(s) + 1
  PROVE  /\ Inserted(s, t, h) \in Seq(S) /\ Len(Inserted(s, t, h)) = Len(s) + Len(t)
         /\ HoldsBoth(Inserted(s, t, h), s, t, h)
<1> DEFINE l == Len(s)
           m == Len(t)
           a == SubSeq(s, 1, h - 1)
           b == SubSeq(s, h, l)
<1>1. l \in Nat /\ m \in Nat /\ h \in 1 .. l + 1 /\ \A i \in 1 .. l : s[i] \in S
  BY LenProperties, ElementOfSeq
<1>2. a \in Seq(S) /\ Len(a) = h - 1 /\ \A i \in 1 .. h - 1 : a[i] = s[i]
  <2>1. h - 1 \in Int /\ \A i \in 1 .. h - 1 : s[i] \in S
    BY <1>1
  <2>2. /\ a \in Seq(S) /\ Len(a) = IF 1 <= h - 1 THEN h - 1 - 1 + 1 ELSE 0
        /\ \A i \in 1 .. h - 1 - 1 + 1 : a[i] = s[1 + i - 1]
    BY <2>1, SubSeqProperties
  <2> HIDE DEF l
  <2>3. h \in Nat /\ h >= 1
    BY <1>1
  <2>4. Len(a) = h - 1
    BY <2>2, <2>3
  <2>5. ASSUME NEW i \in 1 .. h - 1 PROVE a[i] = s[i]
    <3>1. i \in 1 .. h - 1 - 1 + 1 /\ 1 + i - 1 = i
      BY <2>3
    <3> QED
      BY <2>2, <3>1
  <2> QED
    BY <2>2, <2>4, <2>5
<1>3. b \in Seq(S) /\ Len(b) = l - h + 1 /\ \A i \in 1 .. l - h + 1 : b[i] = s[h + i - 1]
  <2>1. h \in Int /\ l \in Int /\ \A i \in h .. l : s[i] \in S
    BY <1>1
  <2>2. /\ b \in Seq(S) /\ Len(b) = IF h <= l THEN l - h + 1 ELSE 0
        /\ \A i \in 1 .. l - h + 1 : b[i] = s[h + i - 1]
    BY <2>1, SubSeqProperties
  <2> HIDE DEF l
  <2>3. Len(b) = l - h + 1
    BY <1>1, <2>2
  <2> QED
    BY <2>2, <2>3
<1> DEFINE c == a \o t
           r == c \o b
<1>4. Inserted(s, t, h) = r
  BY DEF Inserted
<1>5. /\ c \in Seq(S) /\ Len(c) = Len(a) + m
      /\ \A i \in 1 .. Len(a) : c[i] = a[i]
      /\ \A i \in 1 .. m : c[Len(a) + i] = t[i]
  <2>1. c \in Seq(S) /\ JoinOf(c, a, t)
    BY <1>2, Joined
  <2> QED
    BY <2>1 DEF JoinOf
<1> HIDE DEF a, b, c, l, m
<1>6. /\ r \in Seq(S) /\ Len(r) = Len(c) + Len(b)
      /\ \A i \in 1 .. Len(c) : r[i] = c[i]
      /\ \A i \in 1 .. Len(b) : r[Len(c) + i] = b[i]
  <2>1. c \in Seq(S) /\ b \in Seq(S)
    BY <1>3, <1>5
  <2>2. c \o b \in Seq(S) /\ JoinOf(c \o b, c, b)
    BY <2>1, Joined
  <2> QED
    BY <2>2 DEF JoinOf
<1> HIDE DEF r
<1>7. h \in Nat /\ 1 <= h /\ h <= l + 1
  BY <1>1
<1>8. Len(a) = h - 1 /\ Len(c) = h - 1 + m /\ Len(b) = l - h + 1
  BY <1>2, <1>3, <1>5
<1>9. Len(r) = l + m
  <2>1. l \in Nat /\ m \in Nat
    BY <1>1
  <2>2. Len(r) = (h - 1 + m) + (l - h + 1)
    BY <1>6, <1>8
  <2> QED
    BY <1>7, <2>1, <2>2
<1>10. ASSUME NEW i \in 1 .. l, i < h PROVE r[i] = s[i]
  <2>1. i \in 1 .. h - 1 /\ i \in 1 .. h - 1 + m
    BY <1>1, <1>7, <1>10
  <2> QED
    BY <1>2, <1>5, <1>6, <1>8, <2>1
<1>11. ASSUME NEW i \in 1 .. l, i >= h PROVE r[m + i] = s[i]
  <2>1. i \in Nat /\ i <= l
    BY <1>1
  <2>2. i - h + 1 \in 1 .. l - h + 1
    BY <1>1, <1>7, <1>11, <2>1
  <2>3. (h - 1 + m) + (i - h + 1) = m + i /\ h + (i - h + 1) - 1 = i
    BY <1>1, <1>7, <2>1
  <2>4. r[(h - 1 + m) + (i - h + 1)] = b[i - h + 1]
    BY <1>6, <1>8, <2>2
  <2>5. b[i - h + 1] = s[h + (i - h + 1) - 1]
    BY <1>3, <2>2
  <2> QED
    BY <2>3, <2>4, <2>5
<1>12. ASSUME NEW n \in 1 .. m PROVE r[h - 1 + n] = t[n]
  <2>1. h - 1 + n \in 1 .. h - 1 + m
    BY <1>1, <1>7
  <2> QED
    BY <1>5, <1>6, <1>8, <2>1
<1>13. ASSUME NEW k \in 1 .. l + m
       PROVE  \/ k \in 1 .. l /\ k < h
              \/ \E i \in 1 .. l : i >= h /\ k = m + i
              \/ \E n \in 1 .. m : k = h - 1 + n
  <2>1. k \in Nat /\ 1 <= k /\ k <= l + m
    BY <1>1
  <2>2. CASE k < h
    BY <1>1, <1>7, <2>1, <2>2
  <2>3. CASE k >= h /\ k < h + m
    <3>1. k - h + 1 \in 1 .. m /\ k = h - 1 + (k - h + 1)
      BY <1>1, <1>7, <2>1, <2>3
    <3> QED
      BY <3>1
  <2>4. CASE k >= h + m
    <3>1. k - m \in 1 .. l /\ k - m >= h /\ k = m + (k - m)
      BY <1>1, <1>7, <2>1, <2>4
    <3> QED
      BY <3>1
  <2> QED
    BY <1>1, <1>7, <2>1, <2>2, <2>3, <2>4
<1> QED
  BY <1>4, <1>6, <1>9, <1>10, <1>11, <1>12, <1>13 DEF l, m, HoldsBoth

Single(latest) == \A n, k \in DOMAIN latest : latest[n].id = latest[k].id => n = k

LEMMA BroughtIs ==
  ASSUME NEW items \in Seq(Items), NEW latest \in Seq(CallItems), Single(latest)
  PROVE  /\ Brought(items, latest) \in Seq(Items) /\ Len(Brought(items, latest)) = Len(items)
         /\ \A i \in DOMAIN items :
               /\ Brought(items, latest)[i].kind = items[i].kind
               /\ ~IsCall(items[i]) => Brought(items, latest)[i] = items[i]
               /\ IsCall(items[i]) =>
                     /\ Brought(items, latest)[i].id = items[i].id
                     /\ \/ Brought(items, latest)[i] = items[i]
                        \/ \E n \in DOMAIN latest : Brought(items, latest)[i] = latest[n]
                     /\ \A n \in DOMAIN latest :
                           latest[n].id = items[i].id => Brought(items, latest)[i] = latest[n]
<1> DEFINE m == Brought(items, latest)
<1>1. /\ Len(items) \in Nat /\ DOMAIN items = 1 .. Len(items)
      /\ \A i \in DOMAIN items : items[i] \in Items
  BY InSequence
<1>2. \A n \in DOMAIN latest : latest[n] \in CallItems /\ latest[n] \in Items /\ latest[n].kind = "call"
  <2>1. \A n \in DOMAIN latest : latest[n] \in CallItems
    BY InSequence
  <2> QED
    BY <2>1 DEF Items, CallItems, Call
<1>3. \A id : \A n \in Named(latest, id) : n \in DOMAIN latest /\ latest[n].id = id
  BY DEF Named
<1>4. \A id : \A n \in DOMAIN latest : latest[n].id = id => n \in Named(latest, id)
  BY <1>2 DEF Named, IsCall
<1>5. /\ DOMAIN m = DOMAIN items
      /\ m = [i \in 1 .. Len(items) |-> m[i]]
      /\ \A i \in DOMAIN items : m[i] =
            IF IsCall(items[i]) /\ Named(latest, items[i].id) # {}
            THEN latest[CHOOSE n \in Named(latest, items[i].id) : TRUE] ELSE items[i]
  BY <1>1 DEF Brought
<1> HIDE DEF m
<1>6. ASSUME NEW i \in DOMAIN items
      PROVE  /\ m[i] \in Items /\ m[i].kind = items[i].kind
             /\ ~IsCall(items[i]) => m[i] = items[i]
             /\ IsCall(items[i]) =>
                   /\ m[i].id = items[i].id
                   /\ m[i] = items[i] \/ \E n \in DOMAIN latest : m[i] = latest[n]
                   /\ \A n \in DOMAIN latest : latest[n].id = items[i].id => m[i] = latest[n]
  <2>1. CASE IsCall(items[i]) /\ Named(latest, items[i].id) # {}
    <3> DEFINE n == CHOOSE n \in Named(latest, items[i].id) : TRUE
    <3>1. n \in Named(latest, items[i].id)
      BY <2>1
    <3>2. m[i] = latest[n]
      BY <1>5, <2>1
    <3> HIDE DEF n
    <3>3. n \in DOMAIN latest /\ latest[n].id = items[i].id
      BY <1>3, <3>1
    <3>4. ASSUME NEW k \in DOMAIN latest, latest[k].id = items[i].id PROVE m[i] = latest[k]
      BY <3>2, <3>3, <3>4 DEF Single
    <3>5. items[i].kind = "call"
      BY <2>1 DEF IsCall
    <3> QED
      BY <1>2, <2>1, <3>2, <3>3, <3>4, <3>5
  <2>2. CASE ~(IsCall(items[i]) /\ Named(latest, items[i].id) # {})
    <3>1. m[i] = items[i]
      BY <1>5, <2>2
    <3>2. IsCall(items[i]) => \A n \in DOMAIN latest : latest[n].id # items[i].id
      BY <1>4, <2>2
    <3> QED
      BY <1>1, <3>1, <3>2
  <2> QED
    BY <2>1, <2>2
<1>7. m \in [1 .. Len(items) -> Items]
  BY <1>1, <1>5, <1>6
<1>8. m \in Seq(Items)
  BY <1>1, <1>7, SeqDef
<1>9. Len(m) = Len(items)
  <2>1. DOMAIN m = 1 .. Len(m) /\ Len(m) \in Nat
    BY <1>8, LenProperties
  <2> QED
    BY <1>1, <1>5, <2>1
<1> QED
  BY <1>6, <1>8, <1>9 DEF m

LEMMA MissingIs ==
  ASSUME NEW items \in Seq(Items), NEW latest \in Seq(CallItems), Single(latest)
  PROVE  /\ Missing(items, latest) \in Seq(CallItems) /\ Single(Missing(items, latest))
         /\ \A n \in DOMAIN Missing(items, latest) :
               /\ \E k \in DOMAIN latest : Missing(items, latest)[n] = latest[k]
               /\ Named(items, Missing(items, latest)[n].id) = {}
         /\ \A k \in DOMAIN latest : Named(items, latest[k].id) = {} =>
               \E n \in DOMAIN Missing(items, latest) : Missing(items, latest)[n] = latest[k]
<1> DEFINE those == {i \in DOMAIN latest : Named(items, latest[i].id) = {}}
           q == Chosen(latest, those)
<1>1. Missing(items, latest) = q
  BY DEF Missing
<1>2. those \subseteq DOMAIN latest /\ \A i \in DOMAIN latest : i \in those <=> Named(items, latest[i].id) = {}
  OBVIOUS
<1> HIDE DEF those
<1>3. /\ q \in Seq(CallItems)
      /\ \A n \in DOMAIN q : Nth(those, n) \in those /\ q[n] = latest[Nth(those, n)]
      /\ \A i \in those : \E n \in DOMAIN q : Nth(those, n) = i /\ q[n] = latest[i]
      /\ \A n, k \in DOMAIN q : n < k => Nth(those, n) < Nth(those, k)
  BY <1>2, ChosenOf
<1> HIDE DEF q
<1>4. ASSUME NEW n \in DOMAIN q, NEW k \in DOMAIN q, q[n].id = q[k].id PROVE n = k
  <2>1. Nth(those, n) = Nth(those, k) /\ Nth(those, n) \in DOMAIN latest
    BY <1>2, <1>3, <1>4 DEF Single
  <2>2. Nth(those, n) \in Nat
    <3>1. DOMAIN latest = 1 .. Len(latest) /\ Len(latest) \in Nat
      BY LenProperties
    <3> QED
      BY <2>1, <3>1
  <2>3. n \in Nat /\ k \in Nat
    BY <1>3, LenProperties
  <2>4. ~(n < k) /\ ~(k < n)
    BY <1>3, <2>1, <2>2
  <2> QED
    BY <2>3, <2>4
<1> QED
  BY <1>1, <1>2, <1>3, <1>4 DEF Single

\* What is put in comes before every message.
LEMMA MessagesAfter ==
  ASSUME NEW items \in Seq(Items)
  PROVE  /\ FirstMessage(items) \in 1 .. Len(items) + 1
         /\ \A i \in Messaged(items) : i >= FirstMessage(items)
<1>1. Len(items) \in Nat /\ DOMAIN items = 1 .. Len(items)
  BY LenProperties
<1>2. CASE Messaged(items) = {}
  BY <1>1, <1>2 DEF FirstMessage
<1>3. CASE Messaged(items) # {}
  <2>1. Messaged(items) \subseteq 1 .. Len(items)
    BY <1>1 DEF Messaged
  <2>2. Messaged(items) \subseteq Nat
    BY <1>1, <2>1
  <2>3. \E x \in Messaged(items) : \A y \in Messaged(items) : x <= y
    BY <1>3, <2>2, Least
  <2> DEFINE f == CHOOSE i \in Messaged(items) : \A j \in Messaged(items) : i <= j
  <2>4. f \in Messaged(items) /\ \A j \in Messaged(items) : f <= j
    BY <2>3
  <2>5. FirstMessage(items) = f
    BY <1>3 DEF FirstMessage
  <2> HIDE DEF f
  <2>6. f \in 1 .. Len(items) + 1
    BY <1>1, <2>1, <2>4
  <2>7. \A j \in Messaged(items) : j >= f
    BY <2>2, <2>4
  <2> QED
    BY <2>5, <2>6, <2>7
<1> QED
  BY <1>2, <1>3

\* What is shown of items that were read, with those of them that were missing:
\* each call once, as it was read or as it was told of last; each call told of;
\* the messages, in their order.
ShowsAll(items, events, r, q) ==
    /\ r \in Seq(Items) /\ Apart(r) /\ Len(r) = Len(items) + Len(q) /\ Len(q) \in Nat
    /\ \A k \in Calls(r) : \/ \E i \in Calls(items) : r[k] = items[i]
                           \/ \E j \in DOMAIN events : r[k] = events[j]
    /\ \A j \in DOMAIN events : \E k \in Calls(r) :
           r[k].id = events[j].id /\ (events[j].state = "completed" => r[k] = events[j])
    /\ \A j \in DOMAIN events : Named(items, events[j].id) = {} =>
           \E n \in 1 .. Len(q) : q[n].id = events[j].id
    /\ \A n, k \in 1 .. Len(q) : q[n].id = q[k].id => n = k
    /\ \A i \in Messaged(items) : Len(q) + i \in Messaged(r) /\ r[Len(q) + i] = items[i]
    /\ \A k \in Messaged(r) : \E i \in Messaged(items) : k = Len(q) + i
    /\ Messaged(items) # DOMAIN items => Messaged(r) # DOMAIN r
    /\ Messaged(r) # DOMAIN r => Len(q) > 0 \/ Messaged(items) # DOMAIN items
    /\ Len(q) > 0 => Messaged(r) # DOMAIN r

LEMMA OverlayShows ==
  ASSUME NEW items \in Seq(Items), Apart(items), NEW events \in Seq(CallItems), InOrder(events)
  PROVE  ShowsAll(items, events, Overlaid(items, events), Missing(items, LatestOf(events)))
<1> DEFINE r == Overlaid(items, events)
           q == Missing(items, LatestOf(events))
<1> DEFINE latest == LatestOf(events)
           m == Brought(items, latest)
           h == FirstMessage(m)
<1>1. /\ latest \in Seq(CallItems) /\ Single(latest)
      /\ \A n \in DOMAIN latest : \E i \in DOMAIN events : latest[n] = events[i]
      /\ \A i \in DOMAIN events : \E n \in DOMAIN latest :
                /\ latest[n].id = events[i].id
                /\ events[i].state = "completed" => latest[n] = events[i]
  BY LatestEvents DEF Single
<1>2. r = Inserted(m, q, h) /\ q = Missing(items, latest)
  BY OverlaidIs
<1> HIDE DEF latest, r, q
<1>3. /\ m \in Seq(Items) /\ Len(m) = Len(items)
      /\ \A i \in DOMAIN items :
            /\ m[i].kind = items[i].kind
            /\ ~IsCall(items[i]) => m[i] = items[i]
            /\ IsCall(items[i]) =>
                  /\ m[i].id = items[i].id
                  /\ m[i] = items[i] \/ \E n \in DOMAIN latest : m[i] = latest[n]
                  /\ \A n \in DOMAIN latest : latest[n].id = items[i].id => m[i] = latest[n]
  BY <1>1, BroughtIs
<1>4. /\ q \in Seq(CallItems) /\ Single(q)
      /\ \A n \in DOMAIN q : (\E k \in DOMAIN latest : q[n] = latest[k]) /\ Named(items, q[n].id) = {}
      /\ \A k \in DOMAIN latest : Named(items, latest[k].id) = {} => \E n \in DOMAIN q : q[n] = latest[k]
  <2> DEFINE p == Missing(items, latest)
  <2>1. /\ p \in Seq(CallItems) /\ Single(p)
        /\ \A n \in DOMAIN p : (\E k \in DOMAIN latest : p[n] = latest[k]) /\ Named(items, p[n].id) = {}
        /\ \A k \in DOMAIN latest : Named(items, latest[k].id) = {} => \E n \in DOMAIN p : p[n] = latest[k]
    BY <1>1, MissingIs
  <2> QED
    BY <1>2, <2>1
<1> HIDE DEF m
<1>5. h \in 1 .. Len(m) + 1 /\ \A i \in Messaged(m) : i >= h
  BY <1>3, MessagesAfter
<1> HIDE DEF h
<1>6. /\ Len(items) \in Nat /\ DOMAIN items = 1 .. Len(items) /\ Len(q) \in Nat /\ DOMAIN q = 1 .. Len(q)
      /\ DOMAIN m = 1 .. Len(items) /\ h \in Nat /\ 1 <= h /\ h <= Len(items) + 1
      /\ \A n \in DOMAIN q : q[n] \in CallItems
      /\ \A i \in DOMAIN items : items[i] \in Items
  BY <1>3, <1>4, <1>5, InSequence
<1>7. \A n \in DOMAIN q : q[n].kind = "call" /\ q[n].id \in Nat /\ q[n] \in Items
  BY <1>6 DEF CallItems, Call, Items
<1>8. q \in Seq(Items)
  <2>1. \A n \in 1 .. Len(q) : q[n] \in Items
    BY <1>6, <1>7
  <2>2. CallItems \subseteq Items
    BY DEF Items
  <2> QED
    BY <1>4, <2>2, SeqMonotonic
<1>9. /\ Inserted(m, q, h) \in Seq(Items) /\ Len(Inserted(m, q, h)) = Len(m) + Len(q)
      /\ \A i \in 1 .. Len(m) : i < h => Inserted(m, q, h)[i] = m[i]
      /\ \A i \in 1 .. Len(m) : i >= h => Inserted(m, q, h)[Len(q) + i] = m[i]
      /\ \A n \in 1 .. Len(q) : Inserted(m, q, h)[h - 1 + n] = q[n]
      /\ \A k \in 1 .. Len(m) + Len(q) :
             \/ k \in 1 .. Len(m) /\ k < h
             \/ \E i \in 1 .. Len(m) : i >= h /\ k = Len(q) + i
             \/ \E n \in 1 .. Len(q) : k = h - 1 + n
  <2>1. m \in Seq(Items) /\ q \in Seq(Items) /\ h \in 1 .. Len(m) + 1
    BY <1>3, <1>5, <1>8
  <2> QED
    <3>1. /\ Inserted(m, q, h) \in Seq(Items) /\ Len(Inserted(m, q, h)) = Len(m) + Len(q)
          /\ HoldsBoth(Inserted(m, q, h), m, q, h)
      BY <2>1, InsertedHolds
    <3> QED
      BY <3>1 DEF HoldsBoth
<1> DEFINE At(i) == IF i < h THEN i ELSE Len(q) + i
           In(n) == h - 1 + n
<1>10. /\ r \in Seq(Items) /\ Len(r) = Len(items) + Len(q) /\ DOMAIN r = 1 .. Len(items) + Len(q)
       /\ \A i \in DOMAIN items : r[At(i)] = m[i]
       /\ \A n \in DOMAIN q : r[In(n)] = q[n]
       /\ \A k \in DOMAIN r : (\E i \in DOMAIN items : k = At(i)) \/ (\E n \in DOMAIN q : k = In(n))
  <2>1. r \in Seq(Items) /\ Len(r) = Len(items) + Len(q) /\ DOMAIN r = 1 .. Len(items) + Len(q)
    <3>1. r \in Seq(Items) /\ Len(r) = Len(items) + Len(q)
      BY <1>2, <1>3, <1>9
    <3> QED
      BY <3>1, LenProperties
  <2>2. ASSUME NEW i \in DOMAIN items PROVE r[At(i)] = m[i]
    <3>1. i \in 1 .. Len(m) /\ i \in Nat
      BY <1>3, <1>6
    <3>2. CASE i < h
      BY <1>2, <1>9, <3>1, <3>2
    <3>3. CASE ~(i < h)
      <4>1. i >= h
        BY <1>6, <3>1, <3>3
      <4> QED
        BY <1>2, <1>9, <3>1, <3>3, <4>1
    <3> QED
      BY <3>2, <3>3
  <2>3. \A n \in DOMAIN q : r[In(n)] = q[n]
    BY <1>2, <1>6, <1>9
  <2>4. ASSUME NEW k \in DOMAIN r
        PROVE  (\E i \in DOMAIN items : k = At(i)) \/ (\E n \in DOMAIN q : k = In(n))
    <3>1. \/ k \in 1 .. Len(m) /\ k < h
          \/ \E i \in 1 .. Len(m) : i >= h /\ k = Len(q) + i
          \/ \E n \in 1 .. Len(q) : k = h - 1 + n
      BY <1>3, <1>9, <2>1
    <3>2. CASE k \in 1 .. Len(m) /\ k < h
      BY <1>3, <1>6, <3>2
    <3>3. ASSUME NEW i \in 1 .. Len(m), i >= h, k = Len(q) + i
          PROVE  \E j \in DOMAIN items : k = At(j)
      <4>1. i \in DOMAIN items /\ ~(i < h)
        BY <1>3, <1>6, <3>3
      <4> QED
        BY <3>3, <4>1
    <3>4. CASE \E n \in 1 .. Len(q) : k = h - 1 + n
      BY <1>6, <3>4
    <3> QED
      BY <3>1, <3>2, <3>3, <3>4
  <2> QED
    BY <2>1, <2>2, <2>3, <2>4
<1>11. /\ \A i \in DOMAIN items : At(i) \in DOMAIN r
       /\ \A n \in DOMAIN q : In(n) \in DOMAIN r
  BY <1>6, <1>10
<1>12. \A i \in Messaged(m) : At(i) = Len(q) + i
  BY <1>5, <1>6 DEF Messaged
<1> HIDE DEF At, In
<1>13. \A i \in DOMAIN items : IsCall(m[i]) <=> IsCall(items[i])
  BY <1>3 DEF IsCall
<1>14. Apart(r)
  <2> SUFFICES ASSUME NEW k \in Calls(r), NEW l \in Calls(r), r[k].id = r[l].id PROVE k = l
    BY DEF Apart
  <2>0. k \in DOMAIN r /\ l \in DOMAIN r /\ IsCall(r[k]) /\ IsCall(r[l])
    BY DEF Calls
  <2>1. ASSUME NEW i \in DOMAIN items, k = At(i), NEW j \in DOMAIN items, l = At(j) PROVE k = l
    <3>1. IsCall(items[i]) /\ IsCall(items[j]) /\ m[i].id = m[j].id
      BY <1>10, <1>13, <2>0, <2>1
    <3>2. items[i].id = items[j].id
      BY <1>3, <3>1
    <3>3. i = j
      BY <3>1, <3>2 DEF Apart, Calls
    <3> QED
      BY <2>1, <3>3
  <2>2. ASSUME NEW i \in DOMAIN items, NEW n \in DOMAIN q, IsCall(r[At(i)]), r[At(i)].id = r[In(n)].id PROVE FALSE
    <3>1. IsCall(items[i]) /\ items[i].id = q[n].id
      BY <1>3, <1>10, <1>13, <2>2
    <3>2. i \in Named(items, q[n].id)
      BY <3>1 DEF Named
    <3> QED
      BY <1>4, <3>2
  <2>3. ASSUME NEW n \in DOMAIN q, k = In(n), NEW p \in DOMAIN q, l = In(p) PROVE k = l
    <3>1. q[n].id = q[p].id
      BY <1>10, <2>3
    <3> QED
      BY <1>4, <2>3, <3>1 DEF Single
  <2> QED
    BY <1>10, <2>0, <2>1, <2>2, <2>3
<1>15. ASSUME NEW k \in Calls(r)
       PROVE  (\E i \in Calls(items) : r[k] = items[i]) \/ (\E j \in DOMAIN events : r[k] = events[j])
  <2>0. k \in DOMAIN r /\ IsCall(r[k])
    BY DEF Calls
  <2>1. ASSUME NEW i \in DOMAIN items, k = At(i)
        PROVE  (\E j \in Calls(items) : r[k] = items[j]) \/ (\E j \in DOMAIN events : r[k] = events[j])
    <3>1. IsCall(items[i]) /\ r[k] = m[i]
      BY <1>10, <1>13, <2>0, <2>1
    <3>2. i \in Calls(items)
      BY <3>1 DEF Calls
    <3> QED
      BY <1>1, <1>3, <3>1, <3>2
  <2>2. ASSUME NEW n \in DOMAIN q, k = In(n) PROVE \E j \in DOMAIN events : r[k] = events[j]
    <3>1. PICK p \in DOMAIN latest : q[n] = latest[p]
      BY <1>4, <2>2
    <3>2. PICK j \in DOMAIN events : latest[p] = events[j]
      BY <1>1
    <3> QED
      BY <1>10, <2>2, <3>1, <3>2
  <2> QED
    BY <1>10, <2>0, <2>1, <2>2
<1>16. ASSUME NEW j \in DOMAIN events
       PROVE  \E k \in Calls(r) : r[k].id = events[j].id /\ (events[j].state = "completed" => r[k] = events[j])
  <2>1. PICK n \in DOMAIN latest : /\ latest[n].id = events[j].id
                                   /\ events[j].state = "completed" => latest[n] = events[j]
    BY <1>1
  <2>2. CASE Named(items, latest[n].id) = {}
    <3>1. PICK p \in DOMAIN q : q[p] = latest[n]
      BY <1>4, <2>2
    <3>2. In(p) \in DOMAIN r /\ r[In(p)] = latest[n] /\ IsCall(latest[n])
      BY <1>7, <1>10, <1>11, <3>1 DEF IsCall
    <3> QED
      BY <2>1, <3>2 DEF Calls
  <2>3. CASE Named(items, latest[n].id) # {}
    <3>1. PICK i \in DOMAIN items : IsCall(items[i]) /\ items[i].id = latest[n].id
      BY <2>3 DEF Named
    <3>2. m[i] = latest[n] /\ IsCall(m[i])
      BY <1>3, <1>13, <3>1
    <3>3. At(i) \in DOMAIN r /\ r[At(i)] = latest[n]
      BY <1>10, <1>11, <3>2
    <3> QED
      BY <2>1, <3>2, <3>3 DEF Calls
  <2> QED
    BY <2>2, <2>3
<1>17. ASSUME NEW j \in DOMAIN events, Named(items, events[j].id) = {}
       PROVE  \E n \in 1 .. Len(q) : q[n].id = events[j].id
  <2>1. PICK n \in DOMAIN latest : latest[n].id = events[j].id
    BY <1>1
  <2> QED
    BY <1>4, <1>6, <1>17, <2>1
<1>18. \A n, k \in 1 .. Len(q) : q[n].id = q[k].id => n = k
  BY <1>4, <1>6 DEF Single
<1>19. \A i \in DOMAIN items : m[i].kind = "message" <=> i \in Messaged(items)
  BY <1>3 DEF Messaged
<1>20. \A i \in Messaged(items) : i \in DOMAIN items /\ i \in Messaged(m) /\ m[i] = items[i]
  <2> TAKE i \in Messaged(items)
  <2>1. i \in DOMAIN items /\ items[i].kind = "message" /\ ~IsCall(items[i])
    BY DEF Messaged, IsCall
  <2> QED
    BY <1>3, <1>6, <2>1 DEF Messaged
<1>21. ASSUME NEW i \in Messaged(items)
       PROVE  Len(q) + i \in Messaged(r) /\ r[Len(q) + i] = items[i]
  <2>1. At(i) = Len(q) + i /\ At(i) \in DOMAIN r /\ r[At(i)] = items[i]
    BY <1>10, <1>11, <1>12, <1>20
  <2>2. items[i].kind = "message"
    BY DEF Messaged
  <2> QED
    BY <2>1, <2>2 DEF Messaged
<1>22. ASSUME NEW k \in Messaged(r) PROVE \E i \in Messaged(items) : k = Len(q) + i
  <2>1. k \in DOMAIN r /\ r[k].kind = "message"
    BY DEF Messaged
  <2>2. ASSUME NEW i \in DOMAIN items, k = At(i) PROVE i \in Messaged(items) /\ k = Len(q) + i
    <3>1. m[i].kind = "message"
      BY <1>10, <2>1, <2>2
    <3> QED
      BY <1>12, <1>19, <1>20, <2>2, <3>1
  <2>3. ASSUME NEW n \in DOMAIN q, k = In(n) PROVE FALSE
    BY <1>7, <1>10, <2>1, <2>3
  <2> QED
    BY <1>10, <2>1, <2>2, <2>3
<1>23. ASSUME NEW i \in DOMAIN items, i \notin Messaged(items) PROVE Messaged(r) # DOMAIN r
  <2>1. At(i) \in DOMAIN r /\ r[At(i)].kind # "message"
    BY <1>10, <1>11, <1>19, <1>23
  <2> QED
    BY <2>1 DEF Messaged
<1>24. ASSUME Len(q) > 0 PROVE Messaged(r) # DOMAIN r
  <2>1. 1 \in DOMAIN q
    BY <1>6, <1>24
  <2>2. In(1) \in DOMAIN r /\ r[In(1)].kind # "message"
    BY <1>7, <1>10, <1>11, <2>1
  <2> QED
    BY <2>2 DEF Messaged
<1>25. ASSUME Messaged(r) # DOMAIN r, Messaged(items) = DOMAIN items PROVE Len(q) > 0
  <2>1. PICK k \in DOMAIN r : k \notin Messaged(r)
    BY <1>25 DEF Messaged
  <2>2. ASSUME NEW i \in DOMAIN items, k = At(i) PROVE FALSE
    <3>1. k = Len(q) + i
      BY <1>12, <1>20, <1>25, <2>2
    <3> QED
      BY <1>21, <1>25, <2>1, <3>1
  <2>3. PICK n \in DOMAIN q : k = In(n)
    BY <1>10, <2>1, <2>2
  <2> QED
    BY <1>6, <2>3
<1>26. Messaged(items) # DOMAIN items => Messaged(r) # DOMAIN r
  BY <1>23 DEF Messaged
<1> QED
  BY <1>6, <1>10, <1>14, <1>15, <1>16, <1>17, <1>18, <1>21, <1>22, <1>24, <1>25, <1>26
     DEF r, q, ShowsAll

\* What counts of the messages of a turn, besides what else there is.
Sizes(items) == {items[i].size : i \in Messaged(items)}
Noted(items) == \E i \in Messaged(items) :
    items[i].note /\ \A j \in Messaged(items) : j <= i
Alike(s, t) == Sizes(s) = Sizes(t) /\ (Noted(s) <=> Noted(t))

LEMMA SuspectAlike ==
  ASSUME NEW s, NEW t, NEW state, Alike(s, t),
         Messaged(s) # DOMAIN s <=> Messaged(t) # DOMAIN t
  PROVE  Suspect(s, state) = Suspect(t, state)
<1>1. \A u : (\E i \in DOMAIN u : i \notin Messaged(u)) <=> Messaged(u) # DOMAIN u
  BY DEF Messaged
<1>2. Suspect(s, state) <=>
          state = "completed" /\ Messaged(s) # DOMAIN s /\ "long" \notin Sizes(s)
          /\ (Noted(s) \/ "medium" \notin Sizes(s))
  BY <1>1 DEF Suspect, Sizes, Noted
<1>3. Suspect(t, state) <=>
          state = "completed" /\ Messaged(t) # DOMAIN t /\ "long" \notin Sizes(t)
          /\ (Noted(t) \/ "medium" \notin Sizes(t))
  BY <1>1 DEF Suspect, Sizes, Noted
<1>4. Suspect(s, state) \in BOOLEAN /\ Suspect(t, state) \in BOOLEAN
  BY DEF Suspect
<1> QED
  BY <1>2, <1>3, <1>4 DEF Alike

\* Messages moved by the same distance.
LEMMA Moved ==
  ASSUME NEW s \in Seq(Items), NEW t \in Seq(Items), NEW d \in Nat,
         \A i \in Messaged(s) : d + i \in Messaged(t) /\ t[d + i] = s[i],
         \A k \in Messaged(t) : \E i \in Messaged(s) : k = d + i
  PROVE  Alike(s, t)
<1>1. \A i \in Messaged(s) : i \in Nat
  <2>1. DOMAIN s = 1 .. Len(s) /\ Len(s) \in Nat
    BY LenProperties
  <2> QED
    BY <2>1 DEF Messaged
<1>2. Sizes(s) = Sizes(t)
  <2>1. ASSUME NEW i \in Messaged(s) PROVE s[i].size \in Sizes(t)
    <3>1. d + i \in Messaged(t) /\ t[d + i].size = s[i].size
      OBVIOUS
    <3> QED
      BY <3>1 DEF Sizes
  <2>2. ASSUME NEW k \in Messaged(t) PROVE t[k].size \in Sizes(s)
    <3>1. PICK i \in Messaged(s) : k = d + i
      OBVIOUS
    <3>2. t[k] = s[i]
      BY <3>1
    <3> QED
      BY <3>2 DEF Sizes
  <2> QED
    BY <2>1, <2>2 DEF Sizes
<1>3. ASSUME Noted(s) PROVE Noted(t)
  <2>1. PICK i \in Messaged(s) : s[i].note /\ \A j \in Messaged(s) : j <= i
    BY <1>3 DEF Noted
  <2>2. d + i \in Messaged(t) /\ t[d + i].note
    BY <2>1
  <2>3. ASSUME NEW k \in Messaged(t) PROVE k <= d + i
    <3>1. PICK j \in Messaged(s) : k = d + j
      OBVIOUS
    <3>2. j <= i /\ j \in Nat /\ i \in Nat
      BY <1>1, <2>1
    <3> QED
      BY <3>1, <3>2
  <2> QED
    BY <2>2, <2>3 DEF Noted
<1>4. ASSUME Noted(t) PROVE Noted(s)
  <2>1. PICK k \in Messaged(t) : t[k].note /\ \A j \in Messaged(t) : j <= k
    BY <1>4 DEF Noted
  <2>2. PICK i \in Messaged(s) : k = d + i
    OBVIOUS
  <2>3. s[i].note
    BY <2>1, <2>2
  <2>4. ASSUME NEW j \in Messaged(s) PROVE j <= i
    <3>1. d + j <= d + i
      BY <2>1, <2>2
    <3> QED
      BY <1>1, <3>1
  <2> QED
    BY <2>3, <2>4 DEF Noted
<1> QED
  BY <1>2, <1>3, <1>4 DEF Alike

\* What is left of a turn when its calls are left out.
LEMMA WithoutCalls ==
  ASSUME NEW s \in Seq(Items), NEW t, t = Chosen(s, DOMAIN s \ Calls(s))
  PROVE  /\ t \in Seq(Items) /\ Calls(t) = {} /\ Alike(t, s)
         /\ Len(t) + Cardinality(Calls(s)) = Len(s) /\ IsFiniteSet(Calls(s))
         /\ Cardinality(Calls(s)) \in Nat
         /\ Calls(s) = {} => (Messaged(t) = DOMAIN t <=> Messaged(s) = DOMAIN s)
         /\ Calls(s) # {} => Messaged(s) # DOMAIN s
<1> DEFINE S == DOMAIN s \ Calls(s)
<1>1. /\ Chosen(s, S) \in Seq(Items) /\ DOMAIN Chosen(s, S) = 1 .. Cardinality(S)
      /\ \A n \in DOMAIN Chosen(s, S) : Nth(S, n) \in S /\ Chosen(s, S)[n] = s[Nth(S, n)]
      /\ \A i \in S : \E n \in DOMAIN Chosen(s, S) : Nth(S, n) = i /\ Chosen(s, S)[n] = s[i]
      /\ \A n, k \in DOMAIN Chosen(s, S) : n < k => Nth(S, n) < Nth(S, k)
  <2>1. S \subseteq DOMAIN s
    OBVIOUS
  <2> HIDE DEF S
  <2> QED
    BY <2>1, ChosenOf
<1>2. Len(s) \in Nat /\ DOMAIN s = 1 .. Len(s) /\ Calls(s) \subseteq DOMAIN s
  BY LenProperties DEF Calls
<1>3. S \subseteq DOMAIN s /\ \A i \in DOMAIN s : i \in S <=> ~IsCall(s[i])
  BY DEF Calls
<1>4. \A i \in Messaged(s) : i \in S
  BY <1>3 DEF Messaged, IsCall
<1>5. /\ IsFiniteSet(Calls(s)) /\ Cardinality(Calls(s)) \in Nat /\ Cardinality(S) \in Nat
      /\ Cardinality(S) + Cardinality(Calls(s)) = Len(s)
  <2>1. IsFiniteSet(DOMAIN s) /\ Cardinality(DOMAIN s) = Len(s)
    <3>1. IsFiniteSet(1 .. Len(s)) /\ Cardinality(1 .. Len(s)) = IF 1 > Len(s) THEN 0 ELSE Len(s) - 1 + 1
      BY <1>2, FS_Interval
    <3>2. Cardinality(1 .. Len(s)) = Len(s)
      BY <1>2, <3>1
    <3> QED
      BY <1>2, <3>1, <3>2
  <2>2. IsFiniteSet(Calls(s))
    BY <1>2, <2>1, FS_Subset
  <2>3. IsFiniteSet(S) /\ Cardinality(S) = Cardinality(DOMAIN s) - Cardinality(DOMAIN s \cap Calls(s))
    BY <2>1, FS_Difference
  <2>4. DOMAIN s \cap Calls(s) = Calls(s)
    BY <1>2
  <2>5. Cardinality(Calls(s)) \in Nat /\ Cardinality(S) \in Nat
    BY <2>2, <2>3, FS_CardinalityType
  <2>6. Cardinality(S) = Len(s) - Cardinality(Calls(s))
    BY <2>1, <2>3, <2>4
  <2> HIDE DEF S
  <2> DEFINE x == Cardinality(S)
             y == Cardinality(Calls(s))
             z == Len(s)
  <2>7. x \in Nat /\ y \in Nat /\ z \in Nat /\ x = z - y
    BY <1>2, <2>5, <2>6
  <2> HIDE DEF x, y, z
  <2>8. x + y = z
    BY <2>7
  <2> QED
    BY <2>2, <2>5, <2>8 DEF x, y, z
<1>6. t = Chosen(s, S)
  OBVIOUS
<1> HIDE DEF S
<1>7. /\ t \in Seq(Items) /\ DOMAIN t = 1 .. Cardinality(S)
      /\ \A n \in DOMAIN t : Nth(S, n) \in S /\ t[n] = s[Nth(S, n)]
      /\ \A i \in S : \E n \in DOMAIN t : Nth(S, n) = i /\ t[n] = s[i]
      /\ \A n, k \in DOMAIN t : n < k => Nth(S, n) < Nth(S, k)
  BY <1>1, <1>6
<1>8. Len(t) = Cardinality(S)
  <2>1. Len(t) \in Nat /\ DOMAIN t = 1 .. Len(t)
    BY <1>7, LenProperties
  <2> QED
    BY <1>5, <1>7, <2>1
<1>9. Calls(t) = {}
  BY <1>3, <1>7 DEF Calls
<1>10. \A n \in DOMAIN t : n \in Nat /\ Nth(S, n) \in Nat /\ Nth(S, n) \in DOMAIN s
  <2> TAKE n \in DOMAIN t
  <2>1. n \in 1 .. Cardinality(S)
    BY <1>7
  <2>2. n \in Nat
    BY <1>5, <2>1
  <2>3. Nth(S, n) \in DOMAIN s
    BY <1>3, <1>7
  <2>4. Nth(S, n) \in Nat
    BY <1>2, <2>3
  <2> QED
    BY <2>2, <2>3, <2>4
<1>11. \A n \in Messaged(t) : n \in DOMAIN t /\ Nth(S, n) \in Messaged(s) /\ s[Nth(S, n)] = t[n]
  BY <1>7, <1>10 DEF Messaged
<1>12. \A i \in Messaged(s) : \E n \in Messaged(t) : Nth(S, n) = i /\ t[n] = s[i]
  BY <1>4, <1>7 DEF Messaged
<1>13. Sizes(t) = Sizes(s)
  <2>1. ASSUME NEW n \in Messaged(t) PROVE t[n].size \in Sizes(s)
    BY <1>11 DEF Sizes
  <2>2. ASSUME NEW i \in Messaged(s) PROVE s[i].size \in Sizes(t)
    BY <1>12 DEF Sizes
  <2> QED
    BY <2>1, <2>2 DEF Sizes
<1>14. ASSUME Noted(t) PROVE Noted(s)
  <2>1. PICK n \in Messaged(t) : t[n].note /\ \A k \in Messaged(t) : k <= n
    BY <1>14 DEF Noted
  <2>2. Nth(S, n) \in Messaged(s) /\ s[Nth(S, n)].note
    BY <1>11, <2>1
  <2>3. ASSUME NEW j \in Messaged(s) PROVE j <= Nth(S, n)
    <3>1. PICK k \in Messaged(t) : Nth(S, k) = j
      BY <1>12
    <3>2. k \in DOMAIN t /\ n \in DOMAIN t /\ k <= n
      BY <1>11, <2>1
    <3>3. k < n \/ k = n
      BY <1>10, <3>2
    <3>4. Nth(S, k) <= Nth(S, n)
      <4>1. k < n => Nth(S, k) < Nth(S, n)
        BY <1>7, <3>2
      <4>2. Nth(S, k) \in Nat /\ Nth(S, n) \in Nat
        BY <1>10, <3>2
      <4>3. k = n => Nth(S, k) = Nth(S, n)
        OBVIOUS
      <4> QED
        BY <3>3, <4>1, <4>2, <4>3
    <3> QED
      BY <3>1, <3>4
  <2> QED
    BY <2>2, <2>3 DEF Noted
<1>15. ASSUME Noted(s) PROVE Noted(t)
  <2>1. PICK i \in Messaged(s) : s[i].note /\ \A j \in Messaged(s) : j <= i
    BY <1>15 DEF Noted
  <2>2. PICK n \in Messaged(t) : Nth(S, n) = i /\ t[n] = s[i]
    BY <1>12
  <2>3. ASSUME NEW k \in Messaged(t) PROVE k <= n
    <3>1. Nth(S, k) <= Nth(S, n) /\ k \in DOMAIN t /\ n \in DOMAIN t
      BY <1>11, <2>1, <2>2
    <3>2. ~(n < k)
      <4>1. n < k => Nth(S, n) < Nth(S, k)
        BY <1>7, <3>1
      <4>2. Nth(S, k) \in Nat /\ Nth(S, n) \in Nat
        BY <1>10, <3>1
      <4> QED
        BY <3>1, <4>1, <4>2
    <3> QED
      BY <1>10, <3>1, <3>2
  <2> QED
    BY <2>1, <2>2, <2>3 DEF Noted
<1>16. ASSUME Calls(s) = {} PROVE Messaged(t) = DOMAIN t <=> Messaged(s) = DOMAIN s
  <2>1. ASSUME Messaged(t) = DOMAIN t, NEW i \in DOMAIN s PROVE i \in Messaged(s)
    <3>1. i \in S
      BY <1>3, <1>16 DEF Calls
    <3> QED
      BY <1>7, <1>11, <2>1, <3>1
  <2>2. ASSUME Messaged(s) = DOMAIN s, NEW n \in DOMAIN t PROVE n \in Messaged(t)
    BY <1>7, <1>10, <2>2 DEF Messaged
  <2>3. Messaged(s) \subseteq DOMAIN s /\ Messaged(t) \subseteq DOMAIN t
    BY DEF Messaged
  <2> QED
    BY <2>1, <2>2, <2>3
<1>17. ASSUME Calls(s) # {} PROVE Messaged(s) # DOMAIN s
  BY <1>17 DEF Calls, Messaged, IsCall
<1> QED
  BY <1>5, <1>7, <1>8, <1>9, <1>13, <1>14, <1>15, <1>16, <1>17 DEF Alike

-----------------------------------------------------------------------------
(* ThreadView: the turn, what is told of it and what is answered.          *)

TurnType == [items : Seq(Items), state : {"inProgress", "completed", "failed"}]

\* The turn of the app-server, which numbers its calls.
AppTurnInv ==
    /\ turn \in TurnType
    /\ Apart(turn.items) /\ \E n \in Nat : CallsOf(turn.items) = 1 .. n
    /\ turn.state = "failed" => status = "systemError"

\* What is told of is a call as it is, or as it began.
Told(x) == \E j \in Calls(turn.items) :
    x = turn.items[j] \/ x = Call(turn.items[j].id, "inProgress", "nothing")

\* What waits to be recorded comes after what has been.
TellInv ==
    /\ heard \in Seq(CallItems) /\ sent \in Seq(CallItems)
    /\ InOrder(heard) /\ InOrder(sent)
    /\ \A i \in DOMAIN heard, j \in DOMAIN sent :
           heard[i].id = sent[j].id => heard[i].state = "inProgress"
    /\ \A i \in DOMAIN heard : Told(heard[i])
    /\ \A j \in DOMAIN sent : Told(sent[j])

\* An answer has the turn as it was, with its calls or without them.
ReplyInv == \A told \in reply :
    /\ told.truth \in TurnType /\ Apart(told.truth.items)
    /\ told.state = told.truth.state
    /\ \/ told.items = told.truth.items
       \/ told.items = Chosen(told.truth.items, DOMAIN told.truth.items \ Calls(told.truth.items))
    /\ Len(told.truth.items) <= Len(turn.items)
    /\ \A i \in DOMAIN told.truth.items : Earlier(told.truth.items[i], turn.items[i])
    /\ told.state = "failed" => told.status = "systemError"

ThreadInv == AppTurnInv /\ TellInv /\ ReplyInv /\ TurnIsTrue /\ FailuresAreShown

-----------------------------------------------------------------------------
\* What TurnIsTrue says of what is shown of a read.
IsTrue(v, truth) ==
    /\ \A id \in CallsOf(v.items) \cup CallsOf(truth) :
          /\ \A i, j \in Named(v.items, id) : i = j
          /\ \A i \in Named(v.items, id) : \E j \in Named(turn.items, id) :
                v.items[i] \in {turn.items[j], Call(id, "inProgress", "nothing")}
          /\ \A j \in Named(truth, id) :
                Heard(v, truth[j]) => \E i \in Named(v.items, id) :
                    truth[j].state = "completed" => v.items[i] = truth[j]
    /\ \A i \in v.verified : v.items[i].state = "completed"
    /\ Len(v.items) >= Len(truth) \/ \E i \in DOMAIN truth : IsCall(truth[i]) /\ ~Heard(v, truth[i])
    /\ Len(v.items) = Len(truth) => v.suspect = Suspect(truth, v.told.state)

\* What was read is shown with all that has been recorded of it.
LEMMA ReadIsTrue ==
  ASSUME AppTurnInv, TellInv, ReplyInv, NEW told \in reply, NEW v,
         v.items = Overlaid(told.items, heard), v.told = told, v.events = heard,
         v.suspect = Suspect(v.items, told.state),
         v.verified = {i \in DOMAIN v.items : Verified(v.items[i])}
  PROVE  IsTrue(v, told.truth.items)
<1> DEFINE truth == told.truth.items
           items == told.items
           r == v.items
           q == Missing(items, LatestOf(heard))
<1>1. /\ truth \in Seq(Items) /\ Apart(truth) /\ Len(truth) <= Len(turn.items)
      /\ \A i \in DOMAIN truth : Earlier(truth[i], turn.items[i])
      /\ items = truth \/ items = Chosen(truth, DOMAIN truth \ Calls(truth))
  BY DEF ReplyInv, TurnType
<1>2. turn.items \in Seq(Items) /\ Apart(turn.items)
  BY DEF AppTurnInv, TurnType
<1>3. heard \in Seq(CallItems) /\ InOrder(heard) /\ \A i \in DOMAIN heard : Told(heard[i])
  BY DEF TellInv
<1> HIDE DEF truth, items
<1> DEFINE less == Chosen(truth, DOMAIN truth \ Calls(truth))
<1>4. /\ less \in Seq(Items) /\ Calls(less) = {} /\ Alike(less, truth)
      /\ Len(less) + Cardinality(Calls(truth)) = Len(truth) /\ IsFiniteSet(Calls(truth))
      /\ Cardinality(Calls(truth)) \in Nat
      /\ Calls(truth) = {} => (Messaged(less) = DOMAIN less <=> Messaged(truth) = DOMAIN truth)
      /\ Calls(truth) # {} => Messaged(truth) # DOMAIN truth
  BY <1>1, WithoutCalls
<1>5. items = truth \/ items = less
  BY <1>1
<1> HIDE DEF less
<1>6. items \in Seq(Items) /\ Apart(items)
  <2>1. Apart(less)
    BY <1>4 DEF Apart
  <2> QED
    BY <1>1, <1>4, <1>5, <2>1
<1>7. r = Overlaid(items, heard)
  BY DEF items
<1> HIDE DEF r, q
<1>8. /\ r \in Seq(Items) /\ Apart(r) /\ Len(r) = Len(items) + Len(q) /\ Len(q) \in Nat
      /\ \A k \in Calls(r) : \/ \E i \in Calls(items) : r[k] = items[i]
                             \/ \E j \in DOMAIN heard : r[k] = heard[j]
      /\ \A j \in DOMAIN heard : \E k \in Calls(r) :
             r[k].id = heard[j].id /\ (heard[j].state = "completed" => r[k] = heard[j])
      /\ \A j \in DOMAIN heard : Named(items, heard[j].id) = {} =>
             \E n \in 1 .. Len(q) : q[n].id = heard[j].id
      /\ \A n, k \in 1 .. Len(q) : q[n].id = q[k].id => n = k
      /\ \A i \in Messaged(items) : Len(q) + i \in Messaged(r) /\ r[Len(q) + i] = items[i]
      /\ \A k \in Messaged(r) : \E i \in Messaged(items) : k = Len(q) + i
      /\ Messaged(items) # DOMAIN items => Messaged(r) # DOMAIN r
      /\ Messaged(r) # DOMAIN r => Len(q) > 0 \/ Messaged(items) # DOMAIN items
      /\ Len(q) > 0 => Messaged(r) # DOMAIN r
  <2>1. ShowsAll(items, heard, r, q)
    BY <1>3, <1>6, <1>7, OverlayShows DEF q
  <2> QED
    BY <2>1 DEF ShowsAll
<1>9. \A x : Heard(v, x) <=> \E j \in DOMAIN heard : heard[j] = x
  BY DEF Heard
<1>10. ASSUME NEW k \in Calls(r)
       PROVE  \E j \in Named(turn.items, r[k].id) :
                  r[k] \in {turn.items[j], Call(r[k].id, "inProgress", "nothing")}
  <2>1. ASSUME NEW i \in Calls(items), r[k] = items[i]
        PROVE  \E j \in Named(turn.items, r[k].id) :
                  r[k] \in {turn.items[j], Call(r[k].id, "inProgress", "nothing")}
    <3>1. items = truth
      BY <1>4, <1>5
    <3>2. i \in DOMAIN truth /\ IsCall(truth[i]) /\ r[k] = truth[i]
      BY <2>1, <3>1 DEF Calls
    <3>3. i \in DOMAIN turn.items
      <4>1. /\ DOMAIN truth = 1 .. Len(truth) /\ Len(truth) \in Nat
            /\ DOMAIN turn.items = 1 .. Len(turn.items) /\ Len(turn.items) \in Nat
        BY <1>1, <1>2, LenProperties
      <4> QED
        BY <1>1, <3>2, <4>1
    <3>4. Earlier(truth[i], turn.items[i])
      BY <1>1, <3>2
    <3>5. CASE truth[i] = turn.items[i]
      BY <3>2, <3>3, <3>5 DEF Named
    <3>6. CASE IsCall(turn.items[i]) /\ truth[i] = Call(turn.items[i].id, "inProgress", "nothing")
      <4>1. truth[i].id = turn.items[i].id
        BY <3>6 DEF Call
      <4> QED
        BY <3>2, <3>3, <3>6, <4>1 DEF Named
    <3> QED
      BY <3>2, <3>4, <3>5, <3>6 DEF Earlier, IsCall
  <2>2. ASSUME NEW i \in DOMAIN heard, r[k] = heard[i]
        PROVE  \E j \in Named(turn.items, r[k].id) :
                  r[k] \in {turn.items[j], Call(r[k].id, "inProgress", "nothing")}
    <3>1. PICK j \in Calls(turn.items) :
              r[k] = turn.items[j] \/ r[k] = Call(turn.items[j].id, "inProgress", "nothing")
      BY <1>3, <2>2 DEF Told
    <3>2. r[k].id = turn.items[j].id
      BY <3>1 DEF Call
    <3>3. j \in Named(turn.items, r[k].id)
      BY <3>2 DEF Named, Calls
    <3> QED
      BY <3>1, <3>2, <3>3
  <2> QED
    BY <1>8, <2>1, <2>2
<1>11. ASSUME NEW id
       PROVE  /\ \A i, j \in Named(r, id) : i = j
              /\ \A i \in Named(r, id) : \E j \in Named(turn.items, id) :
                    r[i] \in {turn.items[j], Call(id, "inProgress", "nothing")}
              /\ \A j \in Named(truth, id) :
                    Heard(v, truth[j]) => \E i \in Named(r, id) :
                        truth[j].state = "completed" => r[i] = truth[j]
  <2>1. \A i \in Named(r, id) : i \in Calls(r) /\ r[i].id = id
    BY DEF Named, Calls
  <2>2. \A i, j \in Named(r, id) : i = j
    BY <1>8, <2>1 DEF Apart
  <2>3. \A i \in Named(r, id) : \E j \in Named(turn.items, id) :
            r[i] \in {turn.items[j], Call(id, "inProgress", "nothing")}
    BY <1>10, <2>1
  <2>4. ASSUME NEW j \in Named(truth, id), Heard(v, truth[j])
        PROVE  \E i \in Named(r, id) : truth[j].state = "completed" => r[i] = truth[j]
    <3>1. PICK n \in DOMAIN heard : heard[n] = truth[j]
      BY <1>9, <2>4
    <3>2. PICK k \in Calls(r) : r[k].id = heard[n].id /\ (heard[n].state = "completed" => r[k] = heard[n])
      BY <1>8
    <3>3. heard[n].id = id
      BY <3>1 DEF Named
    <3>4. k \in Named(r, id)
      BY <3>2, <3>3 DEF Named, Calls
    <3> QED
      BY <3>1, <3>2, <3>4
  <2> QED
    BY <2>2, <2>3, <2>4
<1>12. \A i \in v.verified : r[i].state = "completed"
  <2>1. \A i \in DOMAIN r : r[i] \in Items
    BY <1>8, InSequence
  <2>2. \A i \in v.verified : i \in DOMAIN r /\ Verified(r[i])
    BY DEF r
  <2> QED
    BY <2>1, <2>2, ItemsOf
<1>13. Len(truth) \in Nat /\ Len(items) \in Nat /\ Len(less) \in Nat /\ Len(q) \in Nat
  BY <1>1, <1>4, <1>6, <1>8, LenProperties
<1>14. ASSUME \A i \in DOMAIN truth : IsCall(truth[i]) => Heard(v, truth[i]), items = less
       PROVE  Cardinality(Calls(truth)) <= Len(q)
  <2>1. ASSUME NEW i \in Calls(truth) PROVE \E n \in 1 .. Len(q) : q[n].id = truth[i].id
    <3>1. PICK j \in DOMAIN heard : heard[j] = truth[i]
      BY <1>9, <1>14 DEF Calls
    <3>2. Named(items, heard[j].id) = {}
      BY <1>4, <1>14 DEF Named, Calls
    <3> QED
      BY <1>8, <3>1, <3>2
  <2> DEFINE f == [i \in Calls(truth) |-> CHOOSE n \in 1 .. Len(q) : q[n].id = truth[i].id]
  <2>2. \A i \in Calls(truth) : f[i] \in 1 .. Len(q) /\ q[f[i]].id = truth[i].id
    BY <2>1
  <2>3. f \in [Calls(truth) -> 1 .. Len(q)]
    BY <2>2
  <2> HIDE DEF f
  <2>4. \A i, j \in Calls(truth) : f[i] = f[j] => i = j
    BY <1>1, <2>2 DEF Apart
  <2>5. f \in Injection(Calls(truth), 1 .. Len(q))
    BY <2>3, <2>4 DEF Injection, IsInjective
  <2>6. IsFiniteSet(1 .. Len(q)) /\ Cardinality(1 .. Len(q)) = Len(q)
    <3>1. /\ IsFiniteSet(1 .. Len(q))
          /\ Cardinality(1 .. Len(q)) = IF 1 > Len(q) THEN 0 ELSE Len(q) - 1 + 1
      <4>1. 1 \in Int /\ Len(q) \in Int
        BY <1>13
      <4> QED
        BY <4>1, FS_Interval
    <3> QED
      BY <1>13, <3>1
  <2>7. Cardinality(Calls(truth)) <= Cardinality(1 .. Len(q))
    BY <2>5, <2>6, FS_Injection
  <2> QED
    BY <2>6, <2>7
<1>15. Len(r) >= Len(truth) \/ \E i \in DOMAIN truth : IsCall(truth[i]) /\ ~Heard(v, truth[i])
  <2>1. CASE items = truth
    <3>1. Len(r) = Len(truth) + Len(q)
      BY <1>8, <2>1
    <3> QED
      BY <1>13, <3>1
  <2>2. ASSUME items = less, \A i \in DOMAIN truth : IsCall(truth[i]) => Heard(v, truth[i])
        PROVE  Len(r) >= Len(truth)
    <3> DEFINE c == Cardinality(Calls(truth))
    <3>1. c \in Nat /\ c <= Len(q) /\ Len(less) + c = Len(truth) /\ Len(r) = Len(less) + Len(q)
      BY <1>4, <1>8, <1>14, <2>2
    <3> HIDE DEF c
    <3> QED
      BY <1>13, <3>1
  <2> QED
    BY <1>5, <2>1, <2>2
<1>16. ASSUME Len(r) = Len(truth) PROVE Suspect(r, told.state) = Suspect(truth, told.state)
  <2>1. Alike(items, r)
    BY <1>6, <1>8, <1>13, Moved
  <2>2. CASE items = truth
    <3>1. Len(q) = 0
      <4>1. Len(truth) = Len(truth) + Len(q)
        BY <1>8, <1>16, <2>2
      <4> QED
        BY <1>13, <4>1
    <3>2. Alike(r, truth) /\ (Messaged(r) # DOMAIN r <=> Messaged(truth) # DOMAIN truth)
      BY <1>8, <1>13, <2>1, <2>2, <3>1 DEF Alike
    <3> QED
      BY <3>2, SuspectAlike
  <2>3. CASE items = less
    <3> DEFINE c == Cardinality(Calls(truth))
    <3>1. Len(q) = c
      <4>1. c \in Nat /\ Len(less) + c = Len(truth) /\ Len(truth) = Len(less) + Len(q)
        BY <1>4, <1>8, <1>16, <2>3
      <4> HIDE DEF c
      <4> QED
        BY <1>13, <4>1
    <3>2. Alike(r, truth)
      BY <1>4, <2>1, <2>3 DEF Alike
    <3>3. CASE Calls(truth) = {}
      <4>1. Len(q) = 0
        BY <3>1, <3>3, FS_EmptySet
      <4>2. Messaged(r) # DOMAIN r <=> Messaged(truth) # DOMAIN truth
        BY <1>4, <1>8, <2>3, <3>3, <4>1
      <4> QED
        BY <3>2, <4>2, SuspectAlike
    <3>4. CASE Calls(truth) # {}
      <4>1. c # 0
        BY <1>4, <3>4, FS_EmptySet
      <4>2. Len(q) > 0
        BY <1>13, <3>1, <4>1
      <4>3. Messaged(r) # DOMAIN r /\ Messaged(truth) # DOMAIN truth
        BY <1>4, <1>8, <3>4, <4>2
      <4> QED
        BY <3>2, <4>3, SuspectAlike
    <3> QED
      BY <3>3, <3>4
  <2> QED
    BY <1>5, <2>2, <2>3
<1> QED
  BY <1>11, <1>12, <1>15, <1>16 DEF r, truth, IsTrue

\* A turn that grows or completes a call still has what was told of, and is what
\* was answered of it earlier.
Grows == Len(turn.items) <= Len(turn'.items)
         /\ \A i \in DOMAIN turn.items : Earlier(turn.items[i], turn'.items[i])

LEMMA EarlierStill ==
  ASSUME NEW x \in Items, NEW y \in Items, NEW z \in Items, Earlier(x, y), Earlier(y, z)
  PROVE  Earlier(x, z)
<1>1. CASE x = y \/ y = z
  BY <1>1
<1>2. CASE x # y /\ y # z
  <2>1. /\ x.kind # "message" /\ x.kind = y.kind /\ x.state = "inProgress"
        /\ IsCall(y) => x = Call(y.id, "inProgress", "nothing")
        /\ y.kind = z.kind
        /\ IsCall(z) => y = Call(z.id, "inProgress", "nothing")
    BY <1>2 DEF Earlier
  <2>2. IsCall(z) => IsCall(y) /\ y.id = z.id
    BY <2>1 DEF IsCall, Call
  <2> QED
    BY <2>1, <2>2 DEF Earlier
<1> QED
  BY <1>1, <1>2

LEMMA ToldStill ==
  ASSUME AppTurnInv, AppTurnInv', Grows, NEW x, Told(x)
  PROVE  Told(x)'
<1>1. /\ turn.items \in Seq(Items) /\ turn'.items \in Seq(Items)
  BY DEF AppTurnInv, TurnType
<1>2. PICK j \in Calls(turn.items) :
          x = turn.items[j] \/ x = Call(turn.items[j].id, "inProgress", "nothing")
  BY DEF Told
<1>3. j \in DOMAIN turn.items /\ IsCall(turn.items[j]) /\ Earlier(turn.items[j], turn'.items[j])
  BY DEF Grows, Calls
<1>4. j \in DOMAIN turn'.items
  <2>1. /\ DOMAIN turn.items = 1 .. Len(turn.items) /\ Len(turn.items) \in Nat
        /\ DOMAIN turn'.items = 1 .. Len(turn'.items) /\ Len(turn'.items) \in Nat
    BY <1>1, LenProperties
  <2> QED
    BY <1>3, <2>1 DEF Grows
<1>5. CASE turn.items[j] = turn'.items[j]
  BY <1>2, <1>3, <1>4, <1>5 DEF Told, Calls
<1>6. CASE turn.items[j] # turn'.items[j]
  <2>1. IsCall(turn'.items[j]) /\ turn.items[j] = Call(turn'.items[j].id, "inProgress", "nothing")
    BY <1>3, <1>6 DEF Earlier, IsCall
  <2>2. x = Call(turn'.items[j].id, "inProgress", "nothing")
    BY <1>2, <2>1 DEF Call
  <2>3. j \in Calls(turn'.items)
    BY <1>4, <2>1 DEF Calls
  <2> QED
    BY <2>2, <2>3 DEF Told
<1> QED
  BY <1>5, <1>6

LEMMA ReplyStill ==
  ASSUME AppTurnInv, AppTurnInv', ReplyInv, Grows, reply' = reply
  PROVE  ReplyInv'
<1> SUFFICES ASSUME NEW told \in reply
             PROVE  /\ Len(told.truth.items) <= Len(turn'.items)
                    /\ \A i \in DOMAIN told.truth.items : Earlier(told.truth.items[i], turn'.items[i])
  BY DEF ReplyInv
<1> DEFINE truth == told.truth.items
<1>1. /\ turn.items \in Seq(Items) /\ turn'.items \in Seq(Items) /\ truth \in Seq(Items)
      /\ Len(truth) <= Len(turn.items) /\ Len(turn.items) <= Len(turn'.items)
      /\ \A i \in DOMAIN truth : Earlier(truth[i], turn.items[i])
  BY DEF AppTurnInv, TurnType, ReplyInv, Grows
<1> HIDE DEF truth
<1>2. /\ Len(truth) \in Nat /\ Len(turn.items) \in Nat /\ Len(turn'.items) \in Nat
      /\ DOMAIN truth = 1 .. Len(truth) /\ DOMAIN turn.items = 1 .. Len(turn.items)
      /\ DOMAIN turn'.items = 1 .. Len(turn'.items)
      /\ \A i \in DOMAIN truth : truth[i] \in Items
      /\ \A i \in DOMAIN turn.items : turn.items[i] \in Items
      /\ \A i \in DOMAIN turn'.items : turn'.items[i] \in Items
  BY <1>1, InSequence
<1>3. ASSUME NEW i \in DOMAIN truth PROVE Earlier(truth[i], turn'.items[i])
  <2>1. i \in DOMAIN turn.items /\ i \in DOMAIN turn'.items
    BY <1>1, <1>2
  <2>2. Earlier(turn.items[i], turn'.items[i])
    BY <2>1 DEF Grows
  <2> QED
    BY <1>1, <1>2, <2>1, <2>2, EarlierStill
<1> QED
  BY <1>1, <1>2, <1>3 DEF truth

\* What is told of next comes after what has been told.
LEMMA TellNext ==
  ASSUME TellInv, NEW x \in CallItems, sent' = Append(sent, x), heard' = heard,
         \A y : Told(y) => Told(y)', Told(x)',
         \A y : Told(y) /\ y.id = x.id => y.state = "inProgress"
  PROVE  TellInv'
<1>1. /\ heard \in Seq(CallItems) /\ sent \in Seq(CallItems)
      /\ InOrder(heard) /\ InOrder(sent)
      /\ \A i \in DOMAIN heard, j \in DOMAIN sent :
            heard[i].id = sent[j].id => heard[i].state = "inProgress"
      /\ \A i \in DOMAIN heard : Told(heard[i])
      /\ \A j \in DOMAIN sent : Told(sent[j])
  BY DEF TellInv
<1>2. /\ sent' \in Seq(CallItems) /\ Len(sent) \in Nat
      /\ DOMAIN sent = 1 .. Len(sent) /\ DOMAIN sent' = 1 .. Len(sent) + 1
      /\ \A j \in DOMAIN sent : sent'[j] = sent[j]
      /\ sent'[Len(sent) + 1] = x
  <2>1. /\ sent' \in Seq(CallItems) /\ Len(sent') = Len(sent) + 1
        /\ \A i \in 1 .. Len(sent) : sent'[i] = sent[i]
        /\ sent'[Len(sent) + 1] = x
    BY <1>1, AppendProperties
  <2>2. /\ Len(sent) \in Nat /\ DOMAIN sent = 1 .. Len(sent) /\ DOMAIN sent' = 1 .. Len(sent')
    BY <1>1, <2>1, LenProperties
  <2> QED
    BY <2>1, <2>2
<1>3. ASSUME NEW j \in DOMAIN sent'
      PROVE  j \in DOMAIN sent \/ j = Len(sent) + 1
  BY <1>2
<1>4. InOrder(sent')
  <2> SUFFICES ASSUME NEW i \in DOMAIN sent', NEW j \in DOMAIN sent', i < j, sent'[i].id = sent'[j].id
               PROVE  sent'[i].state = "inProgress"
    BY DEF InOrder
  <2>1. i \in DOMAIN sent
    BY <1>2
  <2>2. CASE j \in DOMAIN sent
    BY <1>1, <1>2, <2>1, <2>2 DEF InOrder
  <2>3. CASE j = Len(sent) + 1
    BY <1>1, <1>2, <2>1, <2>3
  <2> QED
    BY <1>3, <2>2, <2>3
<1>5. ASSUME NEW i \in DOMAIN heard', NEW j \in DOMAIN sent', heard'[i].id = sent'[j].id
      PROVE  heard'[i].state = "inProgress"
  <2>1. CASE j \in DOMAIN sent
    BY <1>1, <1>2, <1>5, <2>1
  <2>2. CASE j = Len(sent) + 1
    BY <1>1, <1>2, <1>5, <2>2
  <2> QED
    BY <1>3, <2>1, <2>2
<1>6. \A i \in DOMAIN heard' : Told(heard[i])'
  BY <1>1
<1>7. ASSUME NEW j \in DOMAIN sent' PROVE Told(sent[j])'
  <2>1. CASE j \in DOMAIN sent
    <3>1. Told(sent[j])
      BY <1>1, <2>1
    <3>2. sent'[j] = sent[j]
      BY <1>2, <2>1
    <3> QED
      BY <3>1, <3>2
  <2>2. CASE j = Len(sent) + 1
    BY <1>2, <2>2
  <2> QED
    BY <1>3, <2>1, <2>2
<1> QED
  BY <1>1, <1>2, <1>4, <1>5, <1>6, <1>7 DEF TellInv

LEMMA TellStays ==
  ASSUME TellInv, UNCHANGED <<heard, sent>>, \A y : Told(y) => Told(y)'
  PROVE  TellInv'
BY DEF TellInv

LEMMA NothingShown ==
  ASSUME view' = {}
  PROVE  TurnIsTrue' /\ FailuresAreShown'
BY DEF TurnIsTrue, FailuresAreShown

LEMMA BeginItemKeeps ==
  ASSUME ThreadInv, BeginItem
  PROVE  ThreadInv'
<1> DEFINE c == Cardinality(CallsOf(turn.items)) + 1
           new == Call(c, "inProgress", "nothing")
<1>0. AppTurnInv /\ TellInv /\ ReplyInv
  BY DEF ThreadInv
<1>1. /\ turn \in TurnType /\ turn.items \in Seq(Items) /\ turn.state = "inProgress"
      /\ Apart(turn.items)
  BY <1>0 DEF AppTurnInv, TurnType, BeginItem
<1>2. PICK n \in Nat : CallsOf(turn.items) = 1 .. n
  BY <1>0 DEF AppTurnInv
<1>3. c = n + 1 /\ new \in CallItems /\ IsCall(new) /\ new.id = c /\ new.state = "inProgress"
  <2>1. Cardinality(CallsOf(turn.items)) = n
    <3>1. Cardinality(1 .. n) = IF 1 > n THEN 0 ELSE n - 1 + 1
      BY FS_Interval
    <3> QED
      BY <1>2, <3>1
  <2> QED
    BY <2>1 DEF CallItems, Call, IsCall
<1> HIDE DEF c, new
<1>4. PICK item \in Messages \cup {Command("inProgress"), new} :
          /\ turn' = [turn EXCEPT !.items = Append(@, item)]
          /\ IF IsCall(item) THEN TellOf(item) ELSE UNCHANGED sent
  BY DEF BeginItem, c, new
<1>5. /\ UNCHANGED <<status, heard, reply, cached, reads, turns>> /\ view' = {}
  BY DEF BeginItem
<1>6. item \in Items /\ (IsCall(item) <=> item = new)
  BY <1>3 DEF Items, Commands, Messages, Message, Command, IsCall
<1>7. /\ turn' \in TurnType /\ turn'.items = Append(turn.items, item) /\ turn'.state = turn.state
  <2>1. Append(turn.items, item) \in Seq(Items)
    BY <1>1, <1>6, AppendProperties
  <2> QED
    BY <1>1, <1>4, <2>1 DEF TurnType
<1>8. /\ Len(turn.items) \in Nat /\ DOMAIN turn.items = 1 .. Len(turn.items)
      /\ DOMAIN turn'.items = 1 .. Len(turn.items) + 1 /\ Len(turn'.items) = Len(turn.items) + 1
      /\ \A i \in DOMAIN turn.items : turn'.items[i] = turn.items[i]
      /\ turn'.items[Len(turn.items) + 1] = item
  <2>1. /\ turn'.items \in Seq(Items) /\ Len(turn'.items) = Len(turn.items) + 1
        /\ \A i \in 1 .. Len(turn.items) : turn'.items[i] = turn.items[i]
        /\ turn'.items[Len(turn.items) + 1] = item
    BY <1>1, <1>6, <1>7, AppendProperties
  <2>2. Len(turn.items) \in Nat /\ DOMAIN turn.items = 1 .. Len(turn.items) /\ DOMAIN turn'.items = 1 .. Len(turn'.items)
    BY <1>1, <2>1, LenProperties
  <2> QED
    BY <2>1, <2>2
<1>9. \A i \in DOMAIN turn'.items : i \in DOMAIN turn.items \/ i = Len(turn.items) + 1
  BY <1>8
<1>10. \A i \in Calls(turn.items) : turn.items[i].id \in 1 .. n
  BY <1>2 DEF CallsOf
<1>11. Calls(turn'.items) = IF IsCall(item) THEN Calls(turn.items) \cup {Len(turn.items) + 1} ELSE Calls(turn.items)
  BY <1>8, <1>9 DEF Calls
<1>12. Apart(turn'.items)
  <2> SUFFICES ASSUME NEW i \in Calls(turn'.items), NEW j \in Calls(turn'.items),
                      turn'.items[i].id = turn'.items[j].id
               PROVE  i = j
    BY DEF Apart
  <2>1. \A k \in Calls(turn.items) : turn'.items[k].id = turn.items[k].id /\ turn'.items[k].id # n + 1
    BY <1>8, <1>10 DEF Calls
  <2>2. IsCall(item) => turn'.items[Len(turn.items) + 1].id = n + 1
    BY <1>3, <1>6, <1>8
  <2> QED
    BY <1>1, <1>11, <2>1, <2>2 DEF Apart
<1>13. \E k \in Nat : CallsOf(turn'.items) = 1 .. k
  <2>1. CASE IsCall(item)
    <3>1. CallsOf(turn'.items) = CallsOf(turn.items) \cup {n + 1}
      <4>1. \A k \in Calls(turn.items) : turn'.items[k].id = turn.items[k].id
        BY <1>8 DEF Calls
      <4>2. turn'.items[Len(turn.items) + 1].id = n + 1
        BY <1>3, <1>6, <1>8, <2>1
      <4> QED
        BY <1>11, <2>1, <4>1, <4>2 DEF CallsOf
    <3>2. (1 .. n) \cup {n + 1} = 1 .. n + 1
      OBVIOUS
    <3> QED
      BY <1>2, <3>1, <3>2
  <2>2. CASE ~IsCall(item)
    <3>1. CallsOf(turn'.items) = CallsOf(turn.items)
      <4>1. \A k \in Calls(turn.items) : turn'.items[k].id = turn.items[k].id
        BY <1>8 DEF Calls
      <4> QED
        BY <1>11, <2>2, <4>1 DEF CallsOf
    <3> QED
      BY <1>2, <3>1
  <2> QED
    BY <2>1, <2>2
<1>14. AppTurnInv'
  BY <1>1, <1>7, <1>12, <1>13 DEF AppTurnInv
<1>15. Grows
  BY <1>8 DEF Grows, Earlier
<1>16. \A y : Told(y) => Told(y)'
  BY <1>0, <1>14, <1>15, ToldStill
<1>17. TellInv'
  <2>1. CASE IsCall(item)
    <3>1. sent' = Append(sent, item) /\ heard' = heard /\ item \in CallItems /\ item.id = n + 1
      BY <1>3, <1>4, <1>5, <1>6, <2>1 DEF TellOf
    <3>2. Told(item)'
      <4>1. Len(turn.items) + 1 \in Calls(turn'.items) /\ turn'.items[Len(turn.items) + 1] = item
        BY <1>8, <1>11, <2>1
      <4> QED
        BY <4>1 DEF Told
    <3>3. \A y : Told(y) => y.id # n + 1
      <4> SUFFICES ASSUME NEW y, Told(y) PROVE y.id # n + 1
        OBVIOUS
      <4>1. PICK j \in Calls(turn.items) : y.id = turn.items[j].id
        BY DEF Told, Call
      <4> QED
        BY <1>10, <4>1
    <3>4. \A y : Told(y) /\ y.id = item.id => y.state = "inProgress"
      BY <3>1, <3>3
    <3> QED
      BY <1>0, <1>16, <3>1, <3>2, <3>4, TellNext
  <2>2. CASE ~IsCall(item)
    BY <1>0, <1>4, <1>5, <1>16, <2>2, TellStays
  <2> QED
    BY <2>1, <2>2
<1>18. ReplyInv'
  BY <1>0, <1>5, <1>14, <1>15, ReplyStill
<1> QED
  BY <1>5, <1>14, <1>17, <1>18, NothingShown DEF ThreadInv

LEMMA CompleteItemKeeps ==
  ASSUME ThreadInv, CompleteItem
  PROVE  ThreadInv'
<1>0. AppTurnInv /\ TellInv /\ ReplyInv
  BY DEF ThreadInv
<1>1. /\ turn \in TurnType /\ turn.items \in Seq(Items) /\ turn.state = "inProgress"
      /\ Apart(turn.items)
  BY <1>0 DEF AppTurnInv, TurnType, CompleteItem
<1>2. PICK n \in Nat : CallsOf(turn.items) = 1 .. n
  BY <1>0 DEF AppTurnInv
<1>3. PICK i \in DOMAIN turn.items, tells \in {"values", "marker"} :
          /\ turn.items[i].kind # "message" /\ turn.items[i].state = "inProgress"
          /\ IF IsCall(turn.items[i])
             THEN LET done == Call(turn.items[i].id, "completed", tells)
                  IN  turn' = [turn EXCEPT !.items[i] = done] /\ TellOf(done)
             ELSE tells = "values" /\ turn' = [turn EXCEPT !.items[i] = Command("completed")] /\ UNCHANGED sent
  BY DEF CompleteItem
<1>4. UNCHANGED <<status, heard, reply, cached, reads, turns>> /\ view' = {}
  BY DEF CompleteItem
<1> DEFINE old == turn.items[i]
<1>5. PICK done :
          /\ done = IF IsCall(old) THEN Call(old.id, "completed", tells) ELSE Command("completed")
          /\ turn' = [turn EXCEPT !.items[i] = done]
          /\ IsCall(old) => sent' = Append(sent, done)
          /\ ~IsCall(old) => sent' = sent
  BY <1>3 DEF TellOf
<1>6. old \in Items /\ old.kind # "message" /\ old.state = "inProgress"
  <2>1. \A k \in DOMAIN turn.items : turn.items[k] \in Items
    BY <1>1, InSequence
  <2> QED
    BY <1>3, <2>1
<1>7. /\ old.kind \in {"command", "call"}
      /\ IsCall(old) => old.id \in Nat /\ old = Call(old.id, "inProgress", "nothing")
  BY <1>6, ItemsOf
<1>8. /\ done \in Items /\ done.kind = old.kind /\ (IsCall(done) <=> IsCall(old))
      /\ IsCall(old) => done \in CallItems /\ done.id = old.id /\ done.state = "completed"
                        /\ done = Call(old.id, "completed", tells)
  <2>1. CASE IsCall(old)
    <3>1. done = Call(old.id, "completed", tells)
      BY <1>5, <2>1
    <3> QED
      BY <1>7, <2>1, <3>1 DEF Items, CallItems, Call, IsCall
  <2>2. CASE ~IsCall(old)
    <3>1. done = Command("completed")
      BY <1>5, <2>2
    <3> QED
      BY <1>7, <2>2, <3>1 DEF Items, Commands, Command, IsCall
  <2> QED
    BY <2>1, <2>2
<1>9. Earlier(old, done)
  BY <1>6, <1>7, <1>8 DEF Earlier
<1>10. /\ Len(turn.items) \in Nat /\ DOMAIN turn.items = 1 .. Len(turn.items)
       /\ turn'.items = [turn.items EXCEPT ![i] = done] /\ turn'.state = turn.state
  BY <1>1, <1>5, LenProperties DEF TurnType
<1>11. /\ turn'.items \in Seq(Items) /\ DOMAIN turn'.items = DOMAIN turn.items
       /\ Len(turn'.items) = Len(turn.items) /\ turn'.items[i] = done
       /\ \A k \in DOMAIN turn.items : k # i => turn'.items[k] = turn.items[k]
  <2>1. turn'.items \in Seq(Items) /\ Len(turn'.items) = Len(turn.items)
    BY <1>1, <1>8, <1>10, ExceptSeq
  <2> QED
    BY <1>10, <2>1
<1>12. turn' \in TurnType
  BY <1>1, <1>5, <1>10, <1>11 DEF TurnType
<1>13. /\ Calls(turn'.items) = Calls(turn.items)
       /\ \A k \in Calls(turn.items) : turn'.items[k].id = turn.items[k].id
  BY <1>8, <1>11 DEF Calls
<1>14. Apart(turn'.items) /\ CallsOf(turn'.items) = CallsOf(turn.items)
  BY <1>1, <1>13 DEF Apart, CallsOf
<1>15. AppTurnInv'
  BY <1>1, <1>2, <1>10, <1>12, <1>14 DEF AppTurnInv
<1>16. Grows
  BY <1>9, <1>10, <1>11 DEF Grows, Earlier
<1>17. \A y : Told(y) => Told(y)'
  BY <1>0, <1>15, <1>16, ToldStill
<1>18. TellInv'
  <2>1. CASE IsCall(old)
    <3>1. i \in Calls(turn.items)
      BY <2>1 DEF Calls
    <3>2. Told(done)'
      BY <1>11, <1>13, <3>1 DEF Told
    <3>3. ASSUME NEW y, Told(y), y.id = done.id PROVE y.state = "inProgress"
      <4>1. PICK j \in Calls(turn.items) :
                y = turn.items[j] \/ y = Call(turn.items[j].id, "inProgress", "nothing")
        BY <3>3 DEF Told
      <4>2. turn.items[j].id = old.id
        BY <1>8, <2>1, <3>3, <4>1 DEF Call
      <4>3. j = i
        BY <1>1, <3>1, <4>2 DEF Apart
      <4> QED
        BY <1>6, <4>1, <4>3 DEF Call
    <3> QED
      BY <1>0, <1>4, <1>5, <1>8, <1>17, <2>1, <3>2, <3>3, TellNext
  <2>2. CASE ~IsCall(old)
    BY <1>0, <1>4, <1>5, <1>17, <2>2, TellStays
  <2> QED
    BY <2>1, <2>2
<1>19. ReplyInv'
  BY <1>0, <1>4, <1>15, <1>16, ReplyStill
<1> QED
  BY <1>4, <1>15, <1>18, <1>19, NothingShown DEF ThreadInv

\* Everything but the turn and the lists of items stays.
LEMMA SameItems ==
  ASSUME AppTurnInv, turn'.items = turn.items
  PROVE  \A y : Told(y) => Told(y)'
BY DEF Told

LEMMA EndTurnKeeps ==
  ASSUME ThreadInv, EndTurn
  PROVE  ThreadInv'
<1>0. AppTurnInv /\ TellInv /\ ReplyInv
  BY DEF ThreadInv
<1>1. PICK state \in {"completed", "failed"} :
          /\ turn' = [turn EXCEPT !.state = state]
          /\ status' \in IF state = "failed" THEN {"systemError"} ELSE {"idle", "systemError", "notLoaded"}
  BY DEF EndTurn
<1>2. UNCHANGED <<sent, heard, reply, cached, reads, turns>> /\ view' = {}
  BY DEF EndTurn
<1>3. turn' \in TurnType /\ turn'.items = turn.items /\ turn'.state = state
  BY <1>0, <1>1 DEF AppTurnInv, TurnType
<1>4. AppTurnInv'
  BY <1>0, <1>1, <1>3 DEF AppTurnInv
<1>5. TellInv'
  BY <1>0, <1>2, <1>3, SameItems, TellStays
<1>6. ReplyInv'
  BY <1>0, <1>2, <1>3 DEF ReplyInv
<1> QED
  BY <1>2, <1>4, <1>5, <1>6, NothingShown DEF ThreadInv

LEMMA EmptyLists ==
  /\ <<>> \in Seq(CallItems) /\ <<>> \in Seq(Items) /\ DOMAIN <<>> = {}
  /\ NewTurn \in TurnType /\ NewTurn.items = <<>> /\ NewTurn.state = "inProgress"
<1>1. <<>> \in Seq(CallItems) /\ <<>> \in Seq(Items)
  BY EmptySeq
<1> QED
  BY <1>1 DEF NewTurn, TurnType

\* A turn that begins has no item.
LEMMA NothingYet ==
  ASSUME turn = NewTurn
  PROVE  AppTurnInv
<1>1. Calls(turn.items) = {} /\ CallsOf(turn.items) = {}
  BY EmptyLists DEF Calls, CallsOf
<1>2. {} = 1 .. 0
  OBVIOUS
<1>3. \E n \in Nat : CallsOf(turn.items) = 1 .. n
  BY <1>1, <1>2
<1> QED
  BY <1>1, <1>3, EmptyLists DEF AppTurnInv, Apart

LEMMA NothingTold ==
  ASSUME sent = <<>>, heard = <<>>
  PROVE  TellInv
BY EmptyLists DEF TellInv, InOrder

LEMMA BeginTurnKeeps ==
  ASSUME ThreadInv, BeginTurn
  PROVE  ThreadInv'
<1>1. /\ reply = {} /\ reply' = reply /\ turn' = NewTurn /\ sent' = <<>> /\ heard' = <<>> /\ view' = {}
  BY DEF BeginTurn
<1>2. AppTurnInv'
  <2>1. Calls(turn'.items) = {} /\ CallsOf(turn'.items) = {}
    BY <1>1, EmptyLists DEF Calls, CallsOf
  <2>2. {} = 1 .. 0
    OBVIOUS
  <2>3. \E n \in Nat : CallsOf(turn'.items) = 1 .. n
    BY <2>1, <2>2
  <2> QED
    BY <1>1, <2>1, <2>3, EmptyLists DEF AppTurnInv, Apart
<1>3. TellInv'
  BY <1>1, EmptyLists DEF TellInv, InOrder
<1>4. ReplyInv'
  BY <1>1 DEF ReplyInv
<1> QED
  BY <1>1, <1>2, <1>3, <1>4, NothingShown DEF ThreadInv

LEMMA RecordItemKeeps ==
  ASSUME ThreadInv, RecordItem
  PROVE  ThreadInv'
<1>0. AppTurnInv /\ TellInv /\ ReplyInv
  BY DEF ThreadInv
<1>1. /\ sent # <<>> /\ heard' = Append(heard, Head(sent)) /\ sent' = Tail(sent)
      /\ UNCHANGED <<turn, status, reply, cached, reads, turns>> /\ view' = {}
  BY DEF RecordItem
<1>2. /\ heard \in Seq(CallItems) /\ sent \in Seq(CallItems)
      /\ InOrder(heard) /\ InOrder(sent)
      /\ \A i \in DOMAIN heard, j \in DOMAIN sent :
             heard[i].id = sent[j].id => heard[i].state = "inProgress"
      /\ \A i \in DOMAIN heard : Told(heard[i])
      /\ \A j \in DOMAIN sent : Told(sent[j])
  BY <1>0 DEF TellInv
<1>3. /\ sent' \in Seq(CallItems) /\ Len(sent) \in Nat /\ DOMAIN sent = 1 .. Len(sent)
      /\ 1 \in DOMAIN sent /\ Head(sent) = sent[1] /\ sent[1] \in CallItems
      /\ DOMAIN sent' = 1 .. Len(sent) - 1
      /\ \A j \in DOMAIN sent' : sent'[j] = sent[j + 1] /\ j + 1 \in DOMAIN sent /\ 1 < j + 1 /\ j \in Nat
  <2>1. /\ Head(sent) \in CallItems /\ Tail(sent) \in Seq(CallItems)
        /\ Len(Tail(sent)) = Len(sent) - 1
        /\ \A j \in 1 .. Len(Tail(sent)) : Tail(sent)[j] = sent[j + 1]
    BY <1>1, <1>2, HeadTailProperties
  <2>2. /\ Len(sent) \in Nat /\ DOMAIN sent = 1 .. Len(sent) /\ Len(sent) # 0
        /\ DOMAIN Tail(sent) = 1 .. Len(Tail(sent))
    BY <1>1, <1>2, <2>1, LenProperties, EmptySeq
  <2>3. 1 \in DOMAIN sent /\ Head(sent) = sent[1]
    BY <1>1, <1>2, <2>2
  <2>4. ASSUME NEW j \in 1 .. Len(sent) - 1 PROVE j + 1 \in DOMAIN sent /\ 1 < j + 1 /\ j \in Nat
    BY <2>2
  <2> QED
    BY <1>1, <2>1, <2>2, <2>3, <2>4
<1>4. /\ heard' \in Seq(CallItems) /\ Len(heard) \in Nat /\ DOMAIN heard = 1 .. Len(heard)
      /\ DOMAIN heard' = 1 .. Len(heard) + 1
      /\ \A i \in DOMAIN heard : heard'[i] = heard[i]
      /\ heard'[Len(heard) + 1] = sent[1]
  <2>1. /\ heard' \in Seq(CallItems) /\ Len(heard') = Len(heard) + 1
        /\ \A i \in 1 .. Len(heard) : heard'[i] = heard[i]
        /\ heard'[Len(heard) + 1] = sent[1]
    BY <1>1, <1>2, <1>3, AppendProperties
  <2>2. Len(heard) \in Nat /\ DOMAIN heard = 1 .. Len(heard) /\ DOMAIN heard' = 1 .. Len(heard')
    BY <1>2, <2>1, LenProperties
  <2> QED
    BY <2>1, <2>2
<1>5. \A i \in DOMAIN heard' : i \in DOMAIN heard \/ i = Len(heard) + 1
  BY <1>4
<1>6. InOrder(sent')
  <2> SUFFICES ASSUME NEW i \in DOMAIN sent', NEW j \in DOMAIN sent', i < j, sent'[i].id = sent'[j].id
               PROVE  sent'[i].state = "inProgress"
    BY DEF InOrder
  <2>1. i + 1 < j + 1
    BY <1>3
  <2> QED
    BY <1>2, <1>3, <2>1 DEF InOrder
<1>7. InOrder(heard')
  <2> SUFFICES ASSUME NEW i \in DOMAIN heard', NEW j \in DOMAIN heard', i < j, heard'[i].id = heard'[j].id
               PROVE  heard'[i].state = "inProgress"
    BY DEF InOrder
  <2>1. i \in DOMAIN heard
    BY <1>4
  <2>2. CASE j \in DOMAIN heard
    BY <1>2, <1>4, <2>1, <2>2 DEF InOrder
  <2>3. CASE j = Len(heard) + 1
    BY <1>2, <1>3, <1>4, <2>1, <2>3
  <2> QED
    BY <1>5, <2>2, <2>3
<1>8. ASSUME NEW i \in DOMAIN heard', NEW j \in DOMAIN sent', heard'[i].id = sent'[j].id
      PROVE  heard'[i].state = "inProgress"
  <2>0. sent'[j] = sent[j + 1] /\ j + 1 \in DOMAIN sent /\ 1 < j + 1
    BY <1>3
  <2>1. CASE i \in DOMAIN heard
    BY <1>2, <1>4, <1>8, <2>0, <2>1
  <2>2. CASE i = Len(heard) + 1
    BY <1>2, <1>3, <1>4, <1>8, <2>0, <2>2 DEF InOrder
  <2> QED
    BY <1>5, <2>1, <2>2
<1>9. \A y : Told(y) => Told(y)'
  BY <1>0, <1>1, SameItems
<1>10. ASSUME NEW i \in DOMAIN heard' PROVE Told(heard[i])'
  <2>1. CASE i \in DOMAIN heard
    <3>1. Told(heard[i]) /\ heard'[i] = heard[i]
      BY <1>2, <1>4, <2>1
    <3> QED
      BY <1>9, <3>1
  <2>2. CASE i = Len(heard) + 1
    <3>1. Told(sent[1]) /\ heard'[i] = sent[1]
      BY <1>2, <1>3, <1>4, <2>2
    <3> QED
      BY <1>9, <3>1
  <2> QED
    BY <1>5, <2>1, <2>2
<1>11. ASSUME NEW j \in DOMAIN sent' PROVE Told(sent[j])'
  <2>1. Told(sent[j + 1]) /\ sent'[j] = sent[j + 1]
    BY <1>2, <1>3
  <2> QED
    BY <1>9, <2>1
<1>12. TellInv'
  BY <1>3, <1>4, <1>6, <1>7, <1>8, <1>10, <1>11 DEF TellInv
<1>13. AppTurnInv' /\ ReplyInv'
  BY <1>0, <1>1 DEF AppTurnInv, ReplyInv
<1> QED
  BY <1>1, <1>12, <1>13, NothingShown DEF ThreadInv

LEMMA EndSidecarKeeps ==
  ASSUME ThreadInv, EndSidecar
  PROVE  ThreadInv'
<1>0. AppTurnInv /\ TellInv
  BY DEF ThreadInv
<1>1. sent' = <<>> /\ reply' = {} /\ UNCHANGED <<turn, status, heard>> /\ view' = {}
  BY DEF EndSidecar
<1>2. AppTurnInv' /\ ReplyInv'
  BY <1>0, <1>1 DEF AppTurnInv, ReplyInv
<1>3. \A y : Told(y) => Told(y)'
  BY <1>0, <1>1, SameItems
<1>4. TellInv'
  <2>1. /\ heard \in Seq(CallItems) /\ InOrder(heard) /\ \A i \in DOMAIN heard : Told(heard[i])
    BY <1>0 DEF TellInv
  <2>2. \A i \in DOMAIN heard' : Told(heard[i])'
    BY <1>1, <1>3, <2>1
  <2>3. sent' \in Seq(CallItems) /\ DOMAIN sent' = {}
    BY <1>1, EmptyLists
  <2> QED
    BY <1>1, <2>1, <2>2, <2>3 DEF TellInv, InOrder
<1> QED
  BY <1>1, <1>2, <1>4, NothingShown DEF ThreadInv

LEMMA AnswerReadKeeps ==
  ASSUME ThreadInv, AnswerRead
  PROVE  ThreadInv'
<1>0. AppTurnInv /\ TellInv
  BY DEF ThreadInv
<1>1. /\ UNCHANGED <<turn, status, sent, heard, cached, reads, turns>> /\ view' = {}
  BY DEF AnswerRead
<1>2. PICK items \in {turn.items, Chosen(turn.items, DOMAIN turn.items \ Calls(turn.items))} :
          reply' = {[items |-> items, state |-> turn.state, status |-> status, truth |-> turn]}
  BY DEF AnswerRead
<1>3. AppTurnInv' /\ TellInv'
  <2>1. \A y : Told(y) => Told(y)'
    BY <1>0, <1>1, SameItems
  <2> QED
    BY <1>0, <1>1, <2>1, TellStays DEF AppTurnInv
<1>4. ReplyInv'
  <2> SUFFICES ASSUME NEW told \in reply'
               PROVE  /\ told.truth \in TurnType /\ Apart(told.truth.items)
                      /\ told.state = told.truth.state
                      /\ \/ told.items = told.truth.items
                         \/ told.items = Chosen(told.truth.items, DOMAIN told.truth.items \ Calls(told.truth.items))
                      /\ Len(told.truth.items) <= Len(turn'.items)
                      /\ \A i \in DOMAIN told.truth.items : Earlier(told.truth.items[i], turn'.items[i])
                      /\ told.state = "failed" => told.status = "systemError"
    BY DEF ReplyInv
  <2>1. told.items = items /\ told.state = turn.state /\ told.status = status /\ told.truth = turn
    BY <1>2
  <2>2. turn \in TurnType /\ Apart(turn.items) /\ (turn.state = "failed" => status = "systemError")
    BY <1>0 DEF AppTurnInv
  <2>3. Len(turn.items) \in Nat
    BY <2>2, LenProperties DEF TurnType
  <2> QED
    BY <1>1, <1>2, <2>1, <2>2, <2>3 DEF Earlier
<1> QED
  BY <1>1, <1>3, <1>4, NothingShown DEF ThreadInv

LEMMA ShowReadKeeps ==
  ASSUME ThreadInv, ShowRead
  PROVE  ThreadInv'
<1>0. AppTurnInv /\ TellInv /\ ReplyInv
  BY DEF ThreadInv
<1>1. UNCHANGED <<turn, status, sent, heard, turns>> /\ reply' = {}
  BY DEF ShowRead
<1>2. PICK told \in reply :
          LET items == Overlaid(told.items, heard) IN
          view' = {[items |-> items, suspect |-> Suspect(items, told.state),
                    verified |-> {i \in DOMAIN items : Verified(items[i])},
                    status |-> ShownStatus(told), told |-> told,
                    before |-> cached, events |-> heard]}
  BY DEF ShowRead
<1>3. PICK v : /\ view' = {v} /\ v.items = Overlaid(told.items, heard)
               /\ v.suspect = Suspect(v.items, told.state)
               /\ v.verified = {i \in DOMAIN v.items : Verified(v.items[i])}
               /\ v.status = ShownStatus(told) /\ v.told = told
               /\ v.before = cached /\ v.events = heard
  <2> DEFINE items == Overlaid(told.items, heard)
             labelled == {i \in DOMAIN items : Verified(items[i])}
             shows == [items |-> items, suspect |-> Suspect(items, told.state),
                       verified |-> labelled, status |-> ShownStatus(told), told |-> told,
                       before |-> cached, events |-> heard]
  <2>1. view' = {shows}
    BY <1>2
  <2>2. labelled = {i \in DOMAIN items : Verified(items[i])}
    OBVIOUS
  <2> HIDE DEF items, labelled
  <2>3. /\ shows.items = items /\ shows.suspect = Suspect(items, told.state)
        /\ shows.verified = labelled /\ shows.status = ShownStatus(told) /\ shows.told = told
        /\ shows.before = cached /\ shows.events = heard
    OBVIOUS
  <2> HIDE DEF shows
  <2> QED
    BY <2>1, <2>2, <2>3 DEF items
<1>4. AppTurnInv' /\ TellInv' /\ ReplyInv'
  <2>1. \A y : Told(y) => Told(y)'
    BY <1>0, <1>1, SameItems
  <2> QED
    BY <1>0, <1>1, <2>1, TellStays DEF AppTurnInv, ReplyInv
<1>5. TurnIsTrue'
  <2>1. IsTrue(v, told.truth.items)
    BY <1>0, <1>3, ReadIsTrue
  <2>2. IsTrue(v, v.told.truth.items)'
    BY <1>1, <1>3, <2>1 DEF IsTrue, Heard
  <2> QED
    BY <1>3, <2>2 DEF IsTrue, TurnIsTrue
<1>6. FailuresAreShown'
  <2> SUFFICES ASSUME told.state = "failed"
               PROVE  v.status = "systemError" \/ v.before = "normalized"
    BY <1>3 DEF FailuresAreShown
  <2>1. told.status = "systemError" /\ told.truth.state = "failed"
    BY <1>0 DEF ReplyInv
  <2>2. ~IsStale(told)
    BY <2>1 DEF IsStale
  <2>3. ShownStatus(told) = IF cached = "normalized" THEN "normalized" ELSE "systemError"
    BY <2>1, <2>2 DEF ShownStatus
  <2> QED
    BY <1>3, <2>3
<1> QED
  BY <1>4, <1>5, <1>6 DEF ThreadInv

LEMMA ThreadStart ==
  ASSUME ViewInit
  PROVE  ThreadInv
<1>1. turn = NewTurn /\ sent = <<>> /\ heard = <<>> /\ reply = {} /\ view = {}
  BY DEF ViewInit
<1> QED
  BY <1>1, NothingYet, NothingTold DEF ThreadInv, ReplyInv, TurnIsTrue, FailuresAreShown

LEMMA ThreadStep ==
  ASSUME ThreadInv, ViewNext
  PROVE  ThreadInv'
BY BeginItemKeeps, CompleteItemKeeps, EndTurnKeeps, BeginTurnKeeps, RecordItemKeeps,
   EndSidecarKeeps, AnswerReadKeeps, ShowReadKeeps DEF ViewNext

LEMMA ThreadStays ==
  ASSUME ThreadInv, UNCHANGED threadView
  PROVE  ThreadInv'
<1>1. UNCHANGED <<turn, status, sent, heard, reply, view>>
  BY DEF threadView
<1>2. AppTurnInv' /\ ReplyInv' /\ FailuresAreShown'
  BY <1>1 DEF ThreadInv, AppTurnInv, ReplyInv, FailuresAreShown
<1>3. \A y : Told(y) => Told(y)'
  BY <1>1 DEF Told
<1>4. TellInv'
  BY <1>1, <1>3, TellStays DEF ThreadInv
<1>5. TurnIsTrue'
  <2> SUFFICES ASSUME NEW v \in view PROVE IsTrue(v, v.told.truth.items)'
    BY <1>1 DEF TurnIsTrue, IsTrue
  <2>1. IsTrue(v, v.told.truth.items)
    BY DEF ThreadInv, TurnIsTrue, IsTrue
  <2> QED
    BY <1>1, <2>1 DEF IsTrue, Heard
<1> QED
  BY <1>2, <1>4, <1>5 DEF ThreadInv

-----------------------------------------------------------------------------
(* Launch.                                                                 *)

Serving == {"restored", "open"}

\* What the variables of Launch are.
LaunchType ==
    /\ step \in [Sidecars -> {"none", "spawned", "checked", "routed", "restored",
                              "open", "gone"}]
    /\ stage \in [Sidecars -> {"none", "render", "terminate", "probe", "copy", "start"}]
    /\ desk \subseteq Sidecars /\ overlapped \subseteq Sidecars
    /\ router \in [Sidecars -> Ports \cup {Nowhere}]
    /\ \A s \in Sidecars : router[s] \in {Nowhere, Default, s}
    /\ rendered \in Ports \cup {Nowhere}
    /\ DOMAIN token = Sidecars
    /\ app = [s \in Sidecars |-> app[s]] /\ \A s \in Sidecars : app[s].alone \in BOOLEAN
    /\ strays \subseteq Sidecars \X BOOLEAN

\* Who has a router, launches, or has an app-server.
LifeInv == \A s \in Sidecars :
    /\ router[s] # Nowhere <=> step[s] \in {"routed"} \cup Serving
    /\ Launching(s) \/ app[s] # NoApp => step[s] \in Serving

\* A launch that nobody has overlapped so far.
Lone(s) == Launching(s) /\ s \notin overlapped
Here(s) == [host |-> "here", port |-> router[s]]

LoneInv == \A s \in Sidecars : Lone(s) =>
    /\ \A t \in Sidecars \ {s} : ~Launching(t)
    /\ stage[s] # "render" => rendered = router[s]
    /\ stage[s] = "copy" => translated = Here(s)
    /\ wsl /\ stage[s] = "start" => installed = Here(s)

ReachInv == \A s \in Sidecars : app[s].alone =>
    app[s].host = "here" /\ app[s].port = router[s]

\* Of app-servers in WSL one that is alone is the only one; none is while others
\* have been terminated for one to come.
OneInv == wsl =>
    /\ \A s \in Sidecars : app[s].alone =>
           strays = {} /\ \A t \in Sidecars \ {s} : app[t] = NoApp
    /\ \A x \in strays : x[2] => strays = {x} /\ \A t \in Sidecars : app[t] = NoApp
    /\ \A s \in Sidecars : stage[s] \in {"probe", "copy", "start"} =>
           /\ \A t \in Sidecars : ~app[t].alone
           /\ \A x \in strays : ~x[2]
           /\ Lone(s) => strays = {} /\ \A t \in Sidecars : app[t] = NoApp

LaunchInv ==
    LaunchType /\ LifeInv /\ RoutersApart /\ LoneInv /\ ReachInv /\ OneInv

-----------------------------------------------------------------------------
(* Sidecars that start and end.                                            *)

\* A sidecar that has no router and no app-server before and after a step.
LEMMA StepOnly ==
    ASSUME LaunchInv, UNCHANGED <<hosts, stage, router, configs, processes>>,
           desk' \subseteq Sidecars, LaunchType => LaunchType',
           \A t \in Sidecars :
               /\ step'[t] \in Serving <=> step[t] \in Serving
               /\ step'[t] = "routed" <=> step[t] = "routed"
    PROVE  LaunchInv'
<1> USE DEF LaunchInv, configs, processes
<1>1. LifeInv'
  BY DEF LifeInv, Launching
<1>2. RoutersApart'
  BY DEF RoutersApart, Alive, LifeInv, Serving
<1>3. LoneInv' /\ ReachInv' /\ OneInv'
  BY DEF LoneInv, ReachInv, OneInv, Lone, Here, Launching, wsl
<1>. QED  BY <1>1, <1>2, <1>3

\* What is left of an app-server in WSL when its sidecar lets it go.
LEMMA LeaveOne ==
    ASSUME OneInv, NEW k \in Sidecars, Leave(k), app'[k] = NoApp, UNCHANGED hosts,
           \A t \in Sidecars \ {k} : app'[t] = app[t],
           \A t \in Sidecars : stage'[t] \in {"probe", "copy", "start"} =>
               stage[t] = stage'[t] /\ (Lone(t)' => Lone(t))
    PROVE  OneInv'
<1> SUFFICES ASSUME wsl
             PROVE  /\ \A s \in Sidecars : app'[s].alone =>
                         strays' = {} /\ \A t \in Sidecars \ {s} : app'[t] = NoApp
                    /\ \A x \in strays' : x[2] =>
                         strays' = {x} /\ \A t \in Sidecars : app'[t] = NoApp
                    /\ \A s \in Sidecars : stage'[s] \in {"probe", "copy", "start"} =>
                         /\ \A t \in Sidecars : ~app'[t].alone
                         /\ \A x \in strays' : ~x[2]
                         /\ Lone(s)' => strays' = {} /\ \A t \in Sidecars : app'[t] = NoApp
  BY DEF OneInv, wsl
<1>0. ~NoApp.alone /\ wsl
  BY DEF NoApp
<1>1. ASSUME NEW s \in Sidecars, app'[s].alone
      PROVE  strays' = {} /\ \A t \in Sidecars \ {s} : app'[t] = NoApp
  BY <1>0, <1>1 DEF OneInv, Leave
<1>2. ASSUME NEW x \in strays', x[2]
      PROVE  strays' = {x} /\ \A t \in Sidecars : app'[t] = NoApp
  <2>1. CASE x \in strays
    BY <1>0, <1>2, <2>1 DEF OneInv, Leave
  <2>2. CASE x \notin strays
    <3>1. x = <<k, app[k].alone>> /\ strays' = strays \cup {x}
      BY <1>2, <2>2 DEF Leave
    <3>2. app[k].alone
      BY <1>2, <3>1
    <3>3. strays = {} /\ \A t \in Sidecars \ {k} : app[t] = NoApp
      BY <1>0, <3>2 DEF OneInv
    <3>. QED  BY <3>1, <3>3
  <2>. QED  BY <2>1, <2>2
<1>3. ASSUME NEW s \in Sidecars, stage'[s] \in {"probe", "copy", "start"}
      PROVE  /\ \A t \in Sidecars : ~app'[t].alone
             /\ \A x \in strays' : ~x[2]
             /\ Lone(s)' => strays' = {} /\ \A t \in Sidecars : app'[t] = NoApp
  <2>1. stage[s] = stage'[s] /\ (Lone(s)' => Lone(s))
    BY <1>3
  <2>2. /\ \A t \in Sidecars : ~app[t].alone
        /\ \A x \in strays : ~x[2]
        /\ Lone(s) => strays = {} /\ \A t \in Sidecars : app[t] = NoApp
    BY <1>0, <1>3, <2>1 DEF OneInv
  <2>3. \A x \in strays' : ~x[2]
    BY <2>2 DEF Leave
  <2>4. Lone(s)' => strays' = {} /\ \A t \in Sidecars : app'[t] = NoApp
    BY <2>1, <2>2 DEF Leave
  <2>. QED  BY <1>0, <2>2, <2>3, <2>4
<1>. QED  BY <1>1, <1>2, <1>3

LEMMA EndStep ==
    ASSUME LaunchInv, NEW k \in Sidecars, Leave(k), LaunchType',
           UNCHANGED <<hosts, token, configs, overlapped>>,
           step'[k] = "gone", stage'[k] = "none", router'[k] = Nowhere, app'[k] = NoApp,
           \A t \in Sidecars \ {k} :
               /\ stage'[t] = stage[t] /\ router'[t] = router[t] /\ app'[t] = app[t]
               /\ step'[t] \in Serving <=> step[t] \in Serving
               /\ step'[t] = "routed" <=> step[t] = "routed"
    PROVE  LaunchInv'
<1> USE DEF LaunchInv, configs
<1>1. LifeInv'
  BY DEF LifeInv, Launching, Serving
<1>2. RoutersApart'
  BY <1>1 DEF RoutersApart, Alive, LifeInv, Serving
<1>3. LoneInv'
  BY DEF LoneInv, Lone, Here, Launching, wsl
<1>4. ReachInv'
  BY DEF ReachInv, NoApp
<1>5. OneInv'
  BY LeaveOne DEF Lone, Launching, wsl
<1>. QED  BY <1>1, <1>2, <1>3, <1>4, <1>5

LEMMA EndInv ==
    ASSUME LaunchInv, NEW k \in Sidecars, End(k), UNCHANGED <<hosts, token, configs, overlapped>>
    PROVE  LaunchInv'
<1> USE DEF LaunchInv
<1>1. /\ step'[k] = "gone" /\ stage'[k] = "none" /\ router'[k] = Nowhere /\ app'[k] = NoApp
      /\ \A t \in Sidecars \ {k} : /\ stage'[t] = stage[t] /\ router'[t] = router[t]
                                   /\ app'[t] = app[t] /\ step'[t] = step[t]
  BY DEF End, LaunchType
<1>2. LaunchType'
  <2>1. strays' \subseteq Sidecars \X BOOLEAN
    BY DEF LaunchType, End, Leave
  <2>2. app' = [app EXCEPT ![k] = NoApp]
    BY DEF End
  <2>3. /\ app' = [s \in Sidecars |-> app'[s]]
        /\ \A s \in Sidecars : app'[s].alone \in BOOLEAN
    BY <2>2 DEF LaunchType, NoApp
  <2>. QED  BY <2>1, <2>3 DEF End, LaunchType, configs
<1>3. Leave(k)
  BY DEF End
<1>. QED  BY <1>1, <1>2, <1>3, EndStep

LEMMA SpawnInv ==
    ASSUME LaunchInv, NEW s \in Sidecars, Spawn(s) PROVE LaunchInv'
<1> USE DEF LaunchInv
<1> DEFINE Dies(killed, f, end) == [t \in Sidecars |-> IF t \in killed THEN end ELSE f[t]]
<1>1. PICK killed :
          /\ killed = {} \/ \E k \in desk : killed = {k}
          /\ desk' = desk \ killed
          /\ router' = Dies(killed, router, Nowhere)
          /\ app' = Dies(killed, app, NoApp)
          /\ step' = Dies(killed, [step EXCEPT ![s] = "spawned"], "gone")
          /\ stage' = Dies(killed, stage, "none")
          /\ IF killed = {} THEN strays' = strays ELSE \A t \in killed : Leave(t)
  BY DEF Spawn
<1>2. step[s] = "none" /\ UNCHANGED <<hosts, token, configs, overlapped>>
  BY DEF Spawn, machine
<1>3. LaunchType'
  <2>1. strays' \subseteq Sidecars \X BOOLEAN
    BY <1>1 DEF LaunchType, Leave
  <2>. QED  BY <1>1, <1>2, <2>1, LaunchAssumption DEF LaunchType, NoApp, configs
<1>4. CASE killed = {}
  <2>1. UNCHANGED <<stage, router, app, strays>>
    <3>1. /\ router' = [t \in Sidecars |-> router[t]] /\ app' = [t \in Sidecars |-> app[t]]
          /\ stage' = [t \in Sidecars |-> stage[t]] /\ strays' = strays
      BY <1>1, <1>4
    <3>. QED  BY <3>1 DEF LaunchType
  <2>. QED
    BY <1>1, <1>2, <1>3, <1>4, <2>1, StepOnly DEF processes, Serving, LaunchType
<1>5. ASSUME NEW k \in desk, killed = {k} PROVE LaunchInv'
  <2>1. k \in Sidecars /\ Leave(k)
    BY <1>1, <1>5 DEF LaunchType
  <2>2. /\ step'[k] = "gone" /\ stage'[k] = "none" /\ router'[k] = Nowhere /\ app'[k] = NoApp
        /\ \A t \in Sidecars \ {k} :
               /\ stage'[t] = stage[t] /\ router'[t] = router[t] /\ app'[t] = app[t]
               /\ step'[t] = IF t = s THEN "spawned" ELSE step[t]
    BY <1>1, <1>5, <2>1 DEF LaunchType
  <2>. QED  BY <1>2, <1>3, <2>1, <2>2, EndStep DEF Serving
<1>. QED  BY <1>1, <1>4, <1>5

LEMMA StartRouterInv ==
    ASSUME LaunchInv, NEW s \in Sidecars, StartRouter(s) PROVE LaunchInv'
<1> USE DEF LaunchInv
<1>1. /\ step[s] = "checked" /\ step'[s] = "routed" /\ router'[s] = PortFor(s)
      /\ \A t \in Sidecars \ {s} : step'[t] = step[t] /\ router'[t] = router[t]
      /\ UNCHANGED <<hosts, stage, desk, token, configs, processes>>
  BY DEF StartRouter, LaunchType, machine
<1>2. router'[s] \in {Default, s} /\ Nowhere \notin {Default, s}
  BY <1>1, LaunchAssumption DEF PortFor
<1>3. LaunchType'
  BY <1>1, <1>2 DEF StartRouter, LaunchType, Ports, configs, processes
<1>4. ~Launching(s) /\ app[s] = NoApp
  BY <1>1 DEF LifeInv, Serving
<1>5. LifeInv'
  BY <1>1, <1>2, <1>4 DEF LifeInv, Launching, Serving, processes
<1>6. RoutersApart'
  <2>1. ASSUME NEW t \in Sidecars \ {s}, Alive(t) PROVE router[t] # router'[s]
    <3>1. CASE router'[s] = Default
      <4>1. ~InUse(Default) \/ s = Default
        BY <1>1, <3>1 DEF PortFor
      <4>. QED  BY <2>1, <4>1, <3>1, LaunchAssumption DEF InUse, Answers
    <3>2. CASE router'[s] = s
      BY <3>2, LaunchAssumption DEF LaunchType
    <3>. QED  BY <1>2, <3>1, <3>2
  <2>. QED  BY <1>1, <1>2, <2>1 DEF RoutersApart, Alive
<1>7. LoneInv'
  <2>1. \A t \in Sidecars : Lone(t)' => Lone(t) /\ t # s /\ Here(t)' = Here(t)
    BY <1>1, <1>4 DEF Lone, Launching, Here, processes
  <2>2. UNCHANGED <<rendered, translated, installed, wsl>>
    BY <1>1 DEF configs, wsl
  <2>. QED  BY <1>1, <2>1, <2>2 DEF LoneInv, Launching
<1>8. ReachInv'
  <2>1. UNCHANGED app /\ ~app[s].alone
    BY <1>1, <1>4 DEF processes, NoApp
  <2>. QED  BY <1>1, <2>1 DEF ReachInv
<1>9. OneInv'
  BY <1>1 DEF OneInv, Lone, Launching, wsl, processes
<1>. QED  BY <1>3, <1>5, <1>6, <1>7, <1>8, <1>9

-----------------------------------------------------------------------------
(* The launch of an app-server.                                            *)

LEMMA BeginInv ==
    ASSUME LaunchInv, NEW s \in Sidecars, BeginLaunch(s), Leave(s), ~Launching(s),
           step[s] \in {"routed", "restored", "open"}, step'[s] \in Serving,
           \A t \in Sidecars \ {s} : step'[t] = step[t] /\ app'[t] = app[t],
           app'[s] = NoApp, LaunchType', UNCHANGED <<hosts, router, configs>>
    PROVE  LaunchInv'
<1> USE DEF LaunchInv
<1> DEFINE others == {t \in Sidecars \ {s} : Launching(t)}
<1>1. /\ stage'[s] = "render" /\ \A t \in Sidecars \ {s} : stage'[t] = stage[t]
      /\ overlapped' = IF others = {} THEN overlapped \ {s}
                       ELSE overlapped \cup others \cup {s}
  BY DEF BeginLaunch, To, LaunchType
<1>2. LifeInv'
  BY <1>1 DEF LifeInv, Launching, Serving
<1>3. RoutersApart'
  BY DEF RoutersApart, Alive, Serving
<1>4. ASSUME NEW t \in Sidecars, Lone(t)' PROVE t = s /\ others = {}
  BY <1>1, <1>4 DEF Lone, Launching
<1>5. LoneInv'
  BY <1>1, <1>4 DEF LoneInv, Launching
<1>6. ReachInv'
  BY DEF ReachInv, NoApp
<1>7. OneInv'
  <2>1. \A t \in Sidecars : stage'[t] \in {"probe", "copy", "start"} =>
            stage[t] = stage'[t] /\ (Lone(t)' => Lone(t))
    BY <1>1, <1>4
  <2>. QED  BY <2>1, LeaveOne
<1>. QED  BY <1>2, <1>3, <1>5, <1>6, <1>7

LEMMA RestoreInv ==
    ASSUME LaunchInv, NEW s \in Sidecars, Restore(s) PROVE LaunchInv'
<1> USE DEF LaunchInv
<1>1. /\ step[s] = "routed" /\ step'[s] = "restored"
      /\ \A t \in Sidecars \ {s} : step'[t] = step[t]
      /\ UNCHANGED <<hosts, desk, router, token, configs, app, strays>>
  BY DEF Restore, LaunchType, machine
<1>2. LaunchType'
  BY <1>1 DEF Restore, BeginLaunch, To, LaunchType, configs
<1>3. ~Launching(s) /\ app[s] = NoApp
  BY <1>1 DEF LifeInv, Serving
<1>4. CASE BeginLaunch(s)
  BY <1>1, <1>2, <1>3, <1>4, BeginInv DEF Leave, Serving
<1>5. CASE UNCHANGED <<stage, overlapped>>
  <2>1. LifeInv'
    BY <1>1, <1>5 DEF LifeInv, Launching, Serving
  <2>2. RoutersApart'
    BY <1>1 DEF RoutersApart, Alive
  <2>3. LoneInv' /\ ReachInv' /\ OneInv'
    BY <1>1, <1>5 DEF LoneInv, ReachInv, OneInv, Lone, Here, Launching, wsl, configs
  <2>. QED  BY <1>2, <2>1, <2>2, <2>3
<1>. QED  BY <1>4, <1>5 DEF Restore

LEMMA RelaunchInv ==
    ASSUME LaunchInv, NEW s \in Sidecars, Relaunch(s) PROVE LaunchInv'
<1> USE DEF LaunchInv
<1>1. /\ app' = [app EXCEPT ![s] = NoApp] /\ step[s] = "open" /\ ~Launching(s)
      /\ UNCHANGED <<hosts, step, desk, router, token, configs>>
      /\ BeginLaunch(s) /\ Leave(s)
  BY DEF Relaunch, machine
<1>2. strays' \subseteq Sidecars \X BOOLEAN
  BY <1>1 DEF Leave, LaunchType
<1>3. LaunchType'
  BY <1>1, <1>2 DEF BeginLaunch, To, LaunchType, NoApp, configs
<1>. QED  BY <1>1, <1>3, BeginInv DEF LaunchType, Serving

\* The steps of a launch, by what they leave alone.
LEMMA StageStep ==
    ASSUME LaunchInv, NEW s \in Sidecars, Launching(s),
           UNCHANGED <<hosts, step, desk, router, token, overlapped>>,
           LaunchType', \A t \in Sidecars \ {s} : stage'[t] = stage[t],
           \A t \in Sidecars : app'[t] = app[t] \/ app'[t] = NoApp \/ t = s,
           Lone(s)' => /\ stage'[s] # "render" => rendered' = router[s]
                       /\ stage'[s] = "copy" => translated' = Here(s)
                       /\ wsl /\ stage'[s] = "start" => installed' = Here(s),
           app'[s] # app[s] => ReachInv', OneInv'
    PROVE  LaunchInv'
<1> USE DEF LaunchInv
<1>1. LifeInv'
  BY DEF LifeInv, Launching
<1>2. RoutersApart'
  BY DEF RoutersApart, Alive
<1>3. ASSUME NEW t \in Sidecars, Lone(t)' PROVE Lone(s) /\ t = s
  BY <1>3 DEF LoneInv, Lone, Launching
<1>4. LoneInv'
  <2>1. Lone(s) => \A t \in Sidecars \ {s} : ~Launching(t)'
    BY DEF LoneInv, Launching
  <2>. QED  BY <1>3, <2>1 DEF LoneInv, Here, wsl
<1>5. ReachInv'
  BY DEF ReachInv, NoApp
<1>. QED  BY <1>1, <1>2, <1>4, <1>5

LEMMA LaunchFailsInv ==
    ASSUME LaunchInv, NEW s \in Sidecars, LaunchFails(s) PROVE LaunchInv'
<1> USE DEF LaunchInv
<1>1. /\ stage' = [stage EXCEPT ![s] = "none"] /\ Launching(s)
      /\ UNCHANGED <<hosts, step, desk, router, token, configs, processes>>
  BY DEF LaunchFails, To, machine
<1>2. LaunchType'
  BY <1>1 DEF LaunchType, configs, processes
<1>3. OneInv'
  BY <1>1 DEF OneInv, Lone, Launching, wsl, LaunchType, processes
<1>. QED  BY <1>1, <1>2, <1>3, StageStep DEF LaunchType, Lone, Launching, processes

LEMMA RenderInv ==
    ASSUME LaunchInv, NEW s \in Sidecars, Render(s) PROVE LaunchInv'
<1> USE DEF LaunchInv
<1>1. /\ stage[s] = "render" /\ rendered' = router[s]
      /\ stage' = [stage EXCEPT ![s] = IF wsl THEN "terminate" ELSE "start"]
      /\ UNCHANGED <<hosts, step, desk, router, token, translated, installed, processes>>
  BY DEF Render, To, machine
<1>2. LaunchType'
  BY <1>1 DEF LaunchType, processes
<1>3. OneInv'
  BY <1>1 DEF OneInv, Lone, Launching, wsl, LaunchType, processes
<1>. QED  BY <1>1, <1>2, <1>3, StageStep DEF LaunchType, Launching, processes, wsl

LEMMA TerminateInv ==
    ASSUME LaunchInv, NEW s \in Sidecars, Terminate(s) PROVE LaunchInv'
<1> USE DEF LaunchInv
<1>1. /\ stage[s] = "terminate" /\ app' = [t \in Sidecars |-> NoApp] /\ strays' = {}
      /\ stage' = [stage EXCEPT ![s] = "probe"]
      /\ UNCHANGED <<hosts, step, desk, router, token, configs, overlapped>>
  BY DEF Terminate, To, machine
<1>2. LaunchType'
  BY <1>1 DEF LaunchType, configs, NoApp
<1>3. OneInv' /\ ReachInv'
  BY <1>1 DEF OneInv, ReachInv, NoApp
<1>4. Lone(s)' => Lone(s)
  BY <1>1 DEF Lone, Launching
<1>5. Lone(s) => rendered' = router[s]
  BY <1>1 DEF LoneInv, configs
<1>. QED  BY <1>1, <1>2, <1>3, <1>4, <1>5, StageStep DEF LaunchType, Launching

LEMMA ProbeInv ==
    ASSUME LaunchInv, NEW s \in Sidecars, Probe(s) PROVE LaunchInv'
<1> USE DEF LaunchInv
<1>1. /\ stage[s] = "probe" /\ stage' = [stage EXCEPT ![s] = "copy"]
      /\ UNCHANGED <<hosts, step, desk, router, token, rendered, installed, processes>>
  BY DEF Probe, To, machine
<1>2. translated' = [host |-> "here", port |-> rendered]
  <2>1. PICK i \in DOMAIN hosts : IsOwn(s, hosts[i]) /\ translated' = Translated(hosts[i])
    BY DEF Probe, Found
  <2>. QED  BY <2>1 DEF IsOwn, Answers, Translated
<1>3. LaunchType'
  BY <1>1 DEF LaunchType, processes
<1>4. OneInv'
  BY <1>1 DEF OneInv, Lone, Launching, wsl, LaunchType, processes
<1>5. Lone(s)' => Lone(s)
  BY <1>1 DEF Lone, Launching, processes
<1>6. Lone(s) => rendered' = router[s] /\ translated' = Here(s)
  BY <1>1, <1>2 DEF LoneInv, Here
<1>. QED  BY <1>1, <1>3, <1>4, <1>5, <1>6, StageStep DEF LaunchType, Launching, processes

LEMMA CopyInv ==
    ASSUME LaunchInv, NEW s \in Sidecars, Copy(s) PROVE LaunchInv'
<1> USE DEF LaunchInv
<1>1. /\ stage[s] = "copy" /\ stage' = [stage EXCEPT ![s] = "start"]
      /\ installed' = translated
      /\ UNCHANGED <<hosts, step, desk, router, token, rendered, translated, processes>>
  BY DEF Copy, To, machine
<1>2. LaunchType'
  BY <1>1 DEF LaunchType, processes
<1>3. OneInv'
  BY <1>1 DEF OneInv, Lone, Launching, wsl, LaunchType, processes
<1>4. Lone(s)' => Lone(s)
  BY <1>1 DEF Lone, Launching, processes
<1>5. Lone(s) => rendered' = router[s] /\ installed' = Here(s)
  BY <1>1 DEF LoneInv
<1>. QED  BY <1>1, <1>2, <1>3, <1>4, <1>5, StageStep DEF LaunchType, Launching, processes

LEMMA StartInv ==
    ASSUME LaunchInv, NEW s \in Sidecars, Start(s) PROVE LaunchInv'
<1> USE DEF LaunchInv
<1>1. /\ stage[s] = "start" /\ stage' = [stage EXCEPT ![s] = "none"] /\ Launching(s)
      /\ app' = [app EXCEPT ![s] = [host |-> Read.host, port |-> Read.port,
                                    alone |-> s \notin overlapped]]
      /\ UNCHANGED <<hosts, step, desk, router, token, configs, strays, overlapped>>
  BY DEF Start, To, machine, Launching
<1>2. /\ app'[s].host = Read.host /\ app'[s].port = Read.port
      /\ app'[s].alone <=> Lone(s)
      /\ \A t \in Sidecars \ {s} : app'[t] = app[t] /\ stage'[t] = stage[t]
  BY <1>1 DEF LaunchType, Lone
<1>3. LaunchType'
  <2>1. app' = [t \in Sidecars |-> app'[t]] /\ \A t \in Sidecars : app'[t].alone \in BOOLEAN
    BY <1>1 DEF LaunchType
  <2>. QED  BY <1>1, <2>1 DEF LaunchType, configs
<1>4. ReachInv'
  <2>1. ASSUME Lone(s) PROVE Read.host = "here" /\ Read.port = router[s]
    BY <1>1, <2>1 DEF LoneInv, Read, Here
  <2>. QED  BY <1>1, <1>2, <2>1 DEF ReachInv
<1>5. OneInv'
  <2>1. ASSUME wsl
        PROVE  /\ \A t \in Sidecars : ~app[t].alone
               /\ \A x \in strays : ~x[2]
               /\ Lone(s) => strays = {} /\ \A t \in Sidecars : app[t] = NoApp
    BY <1>1, <2>1 DEF OneInv
  <2>2. ASSUME NEW t \in Sidecars, stage'[t] \in {"probe", "copy", "start"}
        PROVE  t # s /\ stage[t] = stage'[t] /\ ~Lone(s) /\ ~Lone(t)'
    <3>1. t # s /\ stage[t] = stage'[t] /\ Launching(t)
      BY <1>1, <1>2, <2>2 DEF Launching, LaunchType
    <3>2. ~Lone(s) /\ ~Lone(t)
      BY <1>1, <3>1 DEF LoneInv
    <3>. QED  BY <1>1, <3>1, <3>2 DEF Lone, Launching
  <2>. QED  BY <1>1, <1>2, <2>1, <2>2 DEF OneInv, wsl
<1>. QED
  BY <1>1, <1>2, <1>3, <1>4, <1>5, StageStep DEF Lone, Launching, LaunchType

-----------------------------------------------------------------------------
LEMMA LaunchStep == ASSUME LaunchInv, LaunchNext PROVE LaunchInv'
<1> USE DEF LaunchInv
<1>1. PICK s \in Sidecars :
          \/ Spawn(s) \/ CheckPort(s) \/ StartRouter(s) \/ Restore(s) \/ BindPort(s)
          \/ Relaunch(s) \/ LaunchFails(s) \/ Render(s) \/ Terminate(s) \/ Probe(s)
          \/ Copy(s) \/ Start(s) \/ RotateToken(s) \/ Crash(s)
  BY DEF LaunchNext
<1>2. CASE CheckPort(s)
  <2>1. /\ step[s] = "spawned" /\ step'[s] \in {"gone", "checked"}
        /\ \A t \in Sidecars \ {s} : step'[t] = step[t]
        /\ UNCHANGED <<hosts, stage, desk, router, token, configs, processes>>
    BY <1>2 DEF CheckPort, LaunchType, machine
  <2>2. LaunchType'
    BY <1>2, <2>1 DEF CheckPort, LaunchType, configs, processes
  <2>. QED  BY <2>1, <2>2, StepOnly DEF Serving, LaunchType
<1>3. CASE BindPort(s)
  <2>1. step[s] = "restored" /\ UNCHANGED <<hosts, token, configs>>
    BY <1>3 DEF BindPort, machine
  <2>2. CASE End(s) /\ UNCHANGED overlapped
    BY <2>1, <2>2, EndInv
  <2>3. CASE step' = [step EXCEPT ![s] = "open"]
    <3>1. /\ desk' \subseteq Sidecars /\ UNCHANGED <<stage, router, processes>>
      BY <1>3, <2>1, <2>3 DEF BindPort, End, LaunchType
    <3>2. LaunchType'
      BY <2>1, <2>3, <3>1 DEF LaunchType, configs, processes
    <3>. QED  BY <2>1, <2>3, <3>1, <3>2, StepOnly DEF Serving, LaunchType
  <2>. QED  BY <1>3, <2>2, <2>3 DEF BindPort
<1>4. CASE RotateToken(s)
  <2>1. UNCHANGED <<hosts, step, stage, desk, router, configs, processes>>
    BY <1>4 DEF RotateToken, machine
  <2>2. LaunchType'
    BY <1>4, <2>1 DEF RotateToken, LaunchType, configs, processes
  <2>. QED  BY <2>1, <2>2, StepOnly DEF LaunchType
<1>5. CASE Crash(s)
  BY <1>5, EndInv DEF Crash, machine
<1>. QED
  BY <1>1, <1>2, <1>3, <1>4, <1>5, SpawnInv, StartRouterInv, RestoreInv, RelaunchInv,
     LaunchFailsInv, RenderInv, TerminateInv, ProbeInv, CopyInv, StartInv

\* The feed and the threads are looked at apart.
LEMMA OthersStep == ASSUME LaunchInv, UNCHANGED launch PROVE LaunchInv'
<1> USE DEF LaunchInv, launch, machine, configs, processes
<1>1. LaunchType' /\ LifeInv' /\ RoutersApart'
  BY DEF LaunchType, LifeInv, RoutersApart, Alive, Launching
<1>2. LoneInv' /\ ReachInv' /\ OneInv'
  BY DEF LoneInv, ReachInv, OneInv, Lone, Here, Launching, wsl
<1>. QED  BY <1>1, <1>2

LEMMA LaunchStart == ASSUME LaunchInit PROVE LaunchInv
<1> USE LaunchAssumption DEF LaunchInit
<1>1. LaunchType /\ LifeInv /\ RoutersApart
  BY DEF LaunchType, Ports, LifeInv, RoutersApart, Alive, Launching, NoApp, Serving
<1>2. LoneInv /\ ReachInv /\ OneInv
  BY DEF LoneInv, ReachInv, OneInv, Lone, Launching, NoApp
<1>. QED  BY <1>1, <1>2 DEF LaunchInv

LEMMA OneOfAll == ASSUME LaunchInv PROVE OneAppServer
<1> USE DEF LaunchInv
<1>1. ASSUME wsl, NEW i \in Instances, NEW j \in Instances, i # j, i[2] PROVE FALSE
  <2>1. CASE \E s \in Sidecars : app[s] # NoApp /\ i = <<s, app[s].alone, TRUE>>
    <3>1. PICK s \in Sidecars : app[s].alone /\ i = <<s, app[s].alone, TRUE>>
      BY <1>1, <2>1
    <3>2. strays = {} /\ \A t \in Sidecars \ {s} : app[t] = NoApp
      BY <1>1, <3>1 DEF OneInv
    <3>. QED  BY <1>1, <3>1, <3>2 DEF Instances
  <2>2. CASE \E x \in strays : i = <<x[1], x[2], FALSE>>
    <3>1. PICK x \in strays : x[2] /\ i = <<x[1], x[2], FALSE>>
      BY <1>1, <2>2
    <3>2. strays = {x} /\ \A t \in Sidecars : app[t] = NoApp
      BY <1>1, <3>1 DEF OneInv
    <3>. QED  BY <1>1, <3>1, <3>2 DEF Instances
  <2>. QED  BY <1>1, <2>1, <2>2 DEF Instances
<1>. QED  BY <1>1 DEF OneAppServer

-----------------------------------------------------------------------------
(* Desktop.                                                                *)

DesktopInv == FeedInv /\ ThreadInv /\ LaunchInv

\* Each of the three is looked at while the others stand still.
LEMMA DesktopStep ==
  ASSUME DesktopInv, [DesktopNext]_desktop
  PROVE  DesktopInv'
<1>1. CASE Follow
  BY <1>1, FeedStep, ThreadStays, OthersStep DEF Follow, DesktopInv
<1>2. CASE StartUp
  BY <1>2, FeedStays, ThreadStays, LaunchStep DEF StartUp, DesktopInv
<1>3. CASE ReadThread
  BY <1>3, FeedStays, ThreadStep, OthersStep DEF ReadThread, DesktopInv
<1>4. CASE UNCHANGED desktop
  BY <1>4, FeedStays, ThreadStays, OthersStep DEF desktop, DesktopInv
<1>. QED  BY <1>1, <1>2, <1>3, <1>4 DEF DesktopNext

\* The invariant holds in every reachable state.
THEOREM Invariant == DesktopSpec => []DesktopInv
<1>1. DesktopInit => DesktopInv
  BY FeedStart, ThreadStart, LaunchStart DEF DesktopInit, DesktopInv
<1>2. DesktopInv /\ [DesktopNext]_desktop => DesktopInv'
  BY DesktopStep
<1>. QED  BY <1>1, <1>2, PTL DEF DesktopSpec

\* list_events and the desktop's cursor: every event before the cursor has been
\* seen or is on its way, through any streams, polls, merges and restarts.
THEOREM NothingIsSkipped == DesktopSpec => []NoGap
<1>1. DesktopInv => NoGap
  BY NothingMissed DEF DesktopInv
<1>. QED  BY <1>1, Invariant, PTL

\* _hydrate_events_from_disk_locked and read_thread: the list holds every event
\* of the process, once as long as it has had one project; a read shows every
\* call of a turn once, no less complete than what was recorded, judges the turn
\* as it was, and shows a turn that failed.
THEOREM ShownTrue == DesktopSpec => []ShownIsTrue
<1>1. DesktopInv => ShownIsTrue
  BY Whole DEF DesktopInv, ThreadInv, ShownIsTrue
<1>. QED  BY <1>1, Invariant, PTL

\* _resolve_launch_target and _terminate_stale_astrabridge_wsl_app_servers: an
\* app-server whose launch no other overlapped is connected to the router of its
\* sidecar and the only one, for any sidecars that start, end and share a port.
THEOREM AppServersOwn == DesktopSpec => []AppServersAreOwn
<1>1. ASSUME LaunchInv PROVE LaunchTypeOK
  BY <1>1 DEF LaunchInv, LaunchType, LaunchTypeOK
<1>2. ASSUME LaunchInv PROVE RequestsReachOwnRouter
  <2>1. ASSUME NEW s \in Sidecars, app[s].alone
        PROVE  Answers(app[s].host, app[s].port) = {s}
    <3>1. app[s].host = "here" /\ app[s].port = router[s] /\ app[s] # NoApp
      BY <1>2, <2>1 DEF LaunchInv, ReachInv, NoApp
    <3>2. Alive(s) /\ router[s] # Nowhere
      BY <1>2, <3>1 DEF LaunchInv, LifeInv, Serving, Alive
    <3>3. \A t \in Sidecars : Alive(t) /\ router[t] = router[s] => t = s
      BY <1>2, <3>2 DEF LaunchInv, RoutersApart
    <3>. QED  BY <3>1, <3>2, <3>3 DEF Answers
  <2>. QED  BY <2>1 DEF RequestsReachOwnRouter
<1>3. LaunchInv => AppServersAreOwn
  BY <1>1, <1>2, OneOfAll DEF LaunchInv, AppServersAreOwn
<1>4. DesktopInv => AppServersAreOwn
  BY <1>3 DEF DesktopInv
<1>. QED  BY <1>4, Invariant, PTL
=============================================================================
