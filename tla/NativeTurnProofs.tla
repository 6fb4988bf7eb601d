-------------------------- MODULE NativeTurnProofs --------------------------
(***************************************************************************)
(* Proofs about NativeTurn, for any turns, demos, requests, responses and  *)
(* bounds: what becomes of edits, of the router, and of the messages that  *)
(* are sent to a provider.                                                 *)
(*                                                                         *)
(* The argument: the operation lock is of the turn that is between its     *)
(* begin and its end (Exclusive), so from the read of a file to its write  *)
(* nobody but a request changes it (KeepInv).  Whoever is about to write   *)
(* has saved what there was, and what came since was written under its     *)
(* eyes (EditInv).  A demo keeps what it will put back, and with no other  *)
(* demo under way that is what there was at first (RouterInv).             *)
(*                                                                         *)
(* For messages there are two halves.  The repair returns a list with      *)
(* every call answered and every result after its calls whatever list it   *)
(* gets, and no unwanted result if each one of its argument answers the    *)
(* calls before it (RepairIsAccepted); that is shown along the list, for   *)
(* which Recursion says that what a step makes of a value, again and       *)
(* again, exists.  And the messages of chat turns are such a list, however *)
(* rounds, failures, histories of other turns and the cut of the history   *)
(* follow each other (PlainInv).                                           *)
(***************************************************************************)
EXTENDS NativeTurn, SequenceTheorems, WellFoundedInduction, TLAPS

TurnSteps == {"ask", "tool", "approval", "command", "save", "write", "finish"}

\* What every variable the argument is about is a function of.
Shape ==
    /\ pc \in [Actors -> Steps]
    /\ DOMAIN todo = Actors /\ DOMAIN base = Actors /\ DOMAIN kept = Demos

\* A turn that is under way has the operation lock.
Exclusive == \A h \in Handlers : pc[h] \in TurnSteps => lock = h

\* While somebody is about to write, every edit is saved or raced.
EditInv ==
    /\ EditsCanBeFound
    /\ (\E a \in Actors : At(a, "write")) => written \subseteq saved \cup raced

\* What a turn has not read was brought by a request.
KeepInv == \A h \in Handlers :
    pc[h] \in {"save", "write"} => file \subseteq base[h] \cup brought

\* The one demo under way will put back what there was at first.
RouterInv == ~overlap =>
    /\ RouterComesBack
    /\ \A d, e \in Demos : Underway(d) /\ Underway(e) => d = e
    /\ \A d \in Demos : Underway(d) =>
           kept[d].router = Real /\ kept[d].enabled = Enabled
    /\ \A d \in Demos : At(d, "reattach") => loop = None /\ enabled = Enabled

-----------------------------------------------------------------------------
(* The steps of an actor, whoever it is.                                   *)

Act(a) ==
    \/ Proceed(a)
    \/ a \in Handlers /\ Begin(a)
    \/ a \in Requests /\ \E kind \in Kinds : Request(a, kind)
    \/ a \in Demos /\ TakeOut(a)

LEMMA StepsAreActs == Next => \E a \in Actors : Act(a)
  BY DEF Next, Act, Actors, Handlers

\* Steps that leave the file, its checkpoints and what was read alone.
LEMMA ActCases ==
    ASSUME NEW a \in Actors, Act(a)
    PROVE  \/ \E proposed \in BOOLEAN : ReadFile(a, proposed)
           \/ Save(a) \/ WriteFile(a)
           \/ UNCHANGED workspace
  BY DEF Act, Proceed, Tool, Look, RunCommand, Classify, Decide, Fail, Finish, Ask,
     PutIn, Restore, Reattach, Begin, Request, TakeOut

\* The steps that are not about the router.
TurnAct(a) ==
    \/ Tool(a) \/ Fail(a)
    \/ a \in Handlers /\ (Begin(a) \/ Finish(a) \/ \E kinds \in Responses : Ask(a, kinds))
    \/ a \in Requests /\ \E kind \in Kinds : Request(a, kind)

LEMMA KernelCases ==
    ASSUME NEW a \in Actors, Act(a)
    PROVE  \/ a \in Demos /\ (TakeOut(a) \/ PutIn(a) \/ Restore(a) \/ Reattach(a))
           \/ TurnAct(a)
  BY DEF Act, Proceed, TurnAct

\* An actor moves alone, and has the lock while its turn is under way.
LEMMA ActStep ==
    ASSUME Shape, Exclusive, NEW a \in Actors, Act(a)
    PROVE  /\ Shape'
           /\ \A b \in Actors \ {a} :
                 pc'[b] = pc[b] /\ todo'[b] = todo[b] /\ base'[b] = base[b]
           /\ a \in Handlers /\ pc'[a] \in TurnSteps => lock' = a
           /\ \/ lock' = lock
              \/ a \in Handlers /\ lock = None /\ lock' = a
              \/ a \in Handlers /\ lock \in {None, a} /\ lock' = None
<1> USE NativeAssumption DEF Shape, Goto, At, turn, kernel, workspace
<1> DEFINE Good ==
        /\ Shape'
        /\ \A b \in Actors \ {a} :
              pc'[b] = pc[b] /\ todo'[b] = todo[b] /\ base'[b] = base[b]
        /\ a \in Handlers /\ pc'[a] \in TurnSteps => lock' = a
        /\ \/ lock' = lock
           \/ a \in Handlers /\ lock = None /\ lock' = a
           \/ a \in Handlers /\ lock \in {None, a} /\ lock' = None
<1>1. a \in Handlers /\ pc[a] \in TurnSteps => lock = a
  BY DEF Exclusive
<1>2. ASSUME NEW step \in {"done", "failed"}, End(a, step),
             a \in Handlers => lock \in {None, a},
             UNCHANGED kept, DOMAIN base' = Actors,
             \A b \in Actors \ {a} : base'[b] = base[b]
      PROVE  Good
  BY <1>2 DEF End, Steps, TurnSteps
<1>3. ASSUME Answered(a), pc[a] \in TurnSteps, DOMAIN base' = Actors,
             \A b \in Actors \ {a} : base'[b] = base[b]
      PROVE  Good
  <2>1. CASE a \in Requests
    BY <1>1, <1>2, <1>3, <2>1 DEF Answered
  <2>2. CASE a \notin Requests
    BY <1>1, <1>3, <2>2 DEF Answered, Steps, TurnSteps
  <2>. QED  BY <2>1, <2>2
<1>4. CASE Look(a) \/ RunCommand(a)
  BY <1>3, <1>4 DEF Look, RunCommand, Calls1, TurnSteps
<1>5. CASE Save(a)
  BY <1>1, <1>5 DEF Save, Steps, TurnSteps
<1>6. CASE WriteFile(a)
  BY <1>3, <1>6 DEF WriteFile, TurnSteps
<1>7. ASSUME NEW x \in BOOLEAN, Classify(a, x) \/ Decide(a, x) \/ ReadFile(a, x)
      PROVE  Good
  <2>1. CASE Classify(a, x)
    BY <1>1, <2>1 DEF Classify, Calls1, Steps, TurnSteps
  <2>2. CASE Decide(a, x)
    <3>1. CASE x
      BY <1>1, <2>2, <3>1 DEF Decide, Steps, TurnSteps
    <3>2. CASE ~x
      BY <1>3, <2>2, <3>2 DEF Decide, TurnSteps
    <3>. QED  BY <3>1, <3>2
  <2>3. CASE ReadFile(a, x)
    <3>1. CASE x
      BY <1>3, <2>3, <3>1 DEF ReadFile, Calls1, TurnSteps
    <3>2. CASE ~x
      BY <1>1, <2>3, <3>2 DEF ReadFile, Calls1, Steps, TurnSteps
    <3>. QED  BY <3>1, <3>2
  <2>. QED  BY <1>7, <2>1, <2>2, <2>3
<1>8. CASE Fail(a)
  BY <1>1, <1>2, <1>8 DEF Fail, TurnSteps
<1>9. CASE a \in Handlers /\ Finish(a)
  BY <1>1, <1>2, <1>9 DEF Finish, TurnSteps
<1>10. ASSUME a \in Handlers, NEW kinds \in Responses, Ask(a, kinds) PROVE Good
  BY <1>1, <1>10 DEF Ask, Steps, TurnSteps
<1>11. CASE a \in Demos /\ (PutIn(a) \/ Restore(a) \/ Reattach(a) \/ TakeOut(a))
  BY <1>11 DEF PutIn, Restore, Reattach, TakeOut, Steps, TurnSteps
<1>12. CASE a \in Handlers /\ Begin(a)
  <2>1. CASE enabled /\ loop # None
    BY <1>12, <2>1 DEF Begin, LockFree, Steps, TurnSteps
  <2>2. CASE ~(enabled /\ loop # None)
    BY <1>2, <1>12, <2>2 DEF Begin, LockFree
  <2>. QED  BY <2>1, <2>2
<1>13. ASSUME a \in Requests, NEW kind \in Kinds, Request(a, kind) PROVE Good
  BY <1>13 DEF Request, Steps, TurnSteps, Actors
<1>. QED
  BY <1>4, <1>5, <1>6, <1>7, <1>8, <1>9, <1>10, <1>11, <1>12, <1>13
  DEF Act, Proceed, Tool

LEMMA ExclusiveStep ==
    ASSUME Shape, Exclusive, NEW a \in Actors, Act(a) PROVE Exclusive'
<1>1. ASSUME NEW h \in Handlers, pc'[h] \in TurnSteps PROVE lock' = h
  <2>1. CASE h = a
    BY <1>1, <2>1, ActStep
  <2>2. CASE h # a
    <3>1. lock = h /\ h # None
      BY <1>1, <2>2, ActStep, NativeAssumption DEF Exclusive, Actors
    <3>. QED  BY <2>2, <3>1, ActStep
  <2>. QED  BY <2>1, <2>2
<1>. QED  BY <1>1 DEF Exclusive

-----------------------------------------------------------------------------
(* Edits.                                                                  *)

LEMMA EditStep ==
    ASSUME Shape, Exclusive, EditInv, NEW a \in Actors, Act(a) PROVE EditInv'
<1> USE DEF EditInv, EditsCanBeFound
<1>0. /\ pc \in [Actors -> Steps] /\ pc' \in [Actors -> Steps]
      /\ \A b \in Actors \ {a} : pc'[b] = pc[b]
  BY ActStep DEF Shape
<1>1. CASE Save(a)
  BY <1>0, <1>1 DEF Save
<1>2. CASE WriteFile(a)
  <2>1. PICK edit : /\ edit = Head(todo[a]).id
                    /\ file' = base[a] \cup {edit}
                    /\ written' = written \cup {edit}
                    /\ raced' = IF \E b \in Actors \ {a} : At(b, "write")
                                THEN raced \cup {edit} ELSE raced
                    /\ saved' = saved
    BY <1>2 DEF WriteFile
  <2>2. written \subseteq saved \cup raced
    BY <1>2 DEF WriteFile
  <2>3. pc'[a] # "write"
    BY <1>0, <1>2 DEF WriteFile, Answered, End, Goto
  <2>4. (\E b \in Actors : At(b, "write")') => \E b \in Actors \ {a} : At(b, "write")
    BY <1>0, <2>3 DEF At
  <2>. QED  BY <2>1, <2>2, <2>4
<1>3. ASSUME NEW proposed \in BOOLEAN, ReadFile(a, proposed) \/ UNCHANGED workspace
      PROVE  EditInv'
  <2>1. UNCHANGED <<file, saved, written, raced>>
    BY <1>3 DEF ReadFile, workspace
  <2>2. CASE pc'[a] = "write"
    <3>1. At(a, "write") \/ Save(a)
      BY <1>0, <2>2, <1>3 DEF Act, Proceed, Tool, Look, RunCommand, Classify, Decide,
         ReadFile, WriteFile, Fail, Finish, Ask, PutIn, Restore, Reattach, Begin,
         Request, TakeOut, Answered, End, Goto, At, Calls1
    <3>. QED  BY <1>0, <1>1, <2>1, <3>1 DEF At
  <2>3. CASE pc'[a] # "write"
    BY <1>0, <2>1, <2>3 DEF At
  <2>. QED  BY <2>2, <2>3
<1>. QED  BY <1>1, <1>2, <1>3, ActCases

\* From the read of a file to its write only requests change it.
LEMMA KeepStep ==
    ASSUME Shape, Exclusive, KeepInv, NEW a \in Actors, Act(a) PROVE KeepInv'
<1> DEFINE Reads(h) == pc[h] \in {"save", "write"} => file \subseteq base[h] \cup brought
<1>0. /\ Shape /\ Shape'
      /\ \A b \in Actors \ {a} : pc'[b] = pc[b] /\ base'[b] = base[b]
  BY ActStep
<1>1. ASSUME NEW h \in Handlers, h # a PROVE Reads(h)'
  <2>1. CASE WriteFile(a)
    <3>1. CASE a \in Requests
      <4>1. brought' = brought \cup (file' \ file)
        BY <2>1, <3>1 DEF WriteFile
      <4>. QED  BY <1>0, <1>1, <4>1 DEF KeepInv, Actors
    <3>2. CASE a \notin Requests
      <4>1. lock = a
        BY <2>1, <3>2 DEF WriteFile, Exclusive, Actors, TurnSteps, At
      <4>2. pc[h] \notin {"save", "write"}
        BY <1>1, <4>1 DEF Exclusive, TurnSteps
      <4>. QED  BY <1>0, <1>1, <4>2 DEF Actors
    <3>. QED  BY <3>1, <3>2
  <2>2. CASE ~WriteFile(a)
    <3>1. UNCHANGED <<file, brought>>
      BY <2>2, ActCases DEF ReadFile, Save, workspace
    <3>. QED  BY <1>0, <1>1, <3>1 DEF KeepInv, Actors
  <2>. QED  BY <2>1, <2>2
<1>2. ASSUME a \in Handlers PROVE Reads(a)'
  <2>1. CASE WriteFile(a)
    <3>1. pc'[a] \notin {"save", "write"}
      BY <1>0, <2>1 DEF WriteFile, Answered, End, Goto, Shape
    <3>. QED  BY <3>1
  <2>2. ASSUME NEW proposed \in BOOLEAN, ReadFile(a, proposed) PROVE Reads(a)'
    <3>1. CASE proposed
      <4>1. pc'[a] \notin {"save", "write"}
        BY <1>0, <2>2, <3>1 DEF ReadFile, Answered, End, Goto, Shape
      <4>. QED  BY <4>1
    <3>2. CASE ~proposed
      BY <1>0, <2>2, <3>2 DEF ReadFile, Shape
    <3>. QED  BY <3>1, <3>2
  <2>3. CASE Save(a)
    BY <1>2, <2>3 DEF Save, At, KeepInv
  <2>4. CASE UNCHANGED workspace
    <3>1. CASE pc'[a] \in {"save", "write"}
      <4>1. pc[a] \in {"save", "write"} \/ \E proposed \in BOOLEAN : ReadFile(a, proposed)
        BY <1>0, <3>1 DEF Act, Proceed, Tool, Look, RunCommand, Classify, Decide,
           Save, WriteFile, Fail, Finish, Ask, PutIn, Restore, Reattach, Begin,
           Request, TakeOut, Answered, End, Goto, At, Calls1, Shape
      <4>. QED  BY <1>2, <2>2, <2>4, <4>1 DEF KeepInv, workspace
    <3>2. CASE pc'[a] \notin {"save", "write"}
      BY <3>2
    <3>. QED  BY <3>1, <3>2
  <2>. QED  BY <2>1, <2>2, <2>3, <2>4, ActCases
<1>. QED  BY <1>1, <1>2 DEF KeepInv

-----------------------------------------------------------------------------
(* The router.                                                             *)

\* A demo that runs its turn goes on from it to the restore.
LEMMA TurnActStep ==
    ASSUME Shape, NEW a \in Actors, TurnAct(a)
    PROVE  /\ UNCHANGED kernel
           /\ a \in Demos => /\ pc[a] \in TurnSteps \cup {"swapped"}
                             /\ pc'[a] \in TurnSteps \cup {"restore"}
<1> USE NativeAssumption DEF Shape, TurnSteps, Goto, At, Calls1, Handlers
<1>1. UNCHANGED kernel
  BY DEF TurnAct, Tool, Look, RunCommand, Classify, Decide, ReadFile, Save,
     WriteFile, Answered, Fail, Finish, Ask, Begin, Request, kernel
<1>2. ASSUME a \in Demos, NEW step, End(a, step) PROVE pc'[a] = "restore"
  BY <1>2 DEF End
<1>3. ASSUME a \in Demos, Answered(a) PROVE pc'[a] \in TurnSteps \cup {"restore"}
  BY <1>2, <1>3 DEF Answered
<1>4. CASE Tool(a)
  BY <1>1, <1>3, <1>4 DEF Tool, Look, RunCommand, Classify, Decide, ReadFile, Save,
     WriteFile
<1>5. CASE Fail(a)
  BY <1>1, <1>2, <1>5 DEF Fail
<1>6. ASSUME a \in Demos,
             Begin(a) \/ Finish(a) \/ \E kinds \in Responses : Ask(a, kinds)
      PROVE  /\ pc[a] \in TurnSteps \cup {"swapped"}
             /\ pc'[a] \in TurnSteps \cup {"restore"}
  BY <1>2, <1>6 DEF Begin, Finish, Ask
<1>7. a \in Requests => a \notin Demos
  OBVIOUS
<1>. QED  BY <1>1, <1>4, <1>5, <1>6, <1>7 DEF TurnAct

LEMMA RouterStep ==
    ASSUME Shape, Exclusive, RouterInv, NEW a \in Actors, Act(a) PROVE RouterInv'
<1> USE DEF RouterInv, RouterComesBack, Underway, At
<1>0. /\ Shape /\ Shape'
      /\ \A b \in Actors \ {a} : pc'[b] = pc[b]
      /\ Demos \subseteq Actors
  BY ActStep DEF Actors, Handlers
<1>1. CASE a \in Demos /\ TakeOut(a)
  <2>1. /\ pc'[a] = "swap" /\ pc[a] = "idle"
        /\ kept'[a] = [router |-> router, enabled |-> enabled]
        /\ overlap' = (overlap \/ \E e \in Demos : Underway(e))
    BY <1>0, <1>1 DEF TakeOut, Goto, Shape
  <2> SUFFICES ASSUME ~overlap' PROVE
          /\ \A d \in Demos : Underway(d)' => d = a
          /\ kept'[a].router = Real /\ kept'[a].enabled = Enabled
    BY <1>1, <2>1
  <2>2. ~overlap /\ \A d \in Demos : ~Underway(d)
    BY <2>1
  <2>3. router = Real /\ enabled = Enabled
    BY <2>2
  <2>. QED  BY <1>0, <2>1, <2>2, <2>3
<1>2. CASE a \in Demos /\ (PutIn(a) \/ Restore(a))
  <2>1. /\ pc[a] \in {"swap", "restore"} /\ UNCHANGED <<kept, overlap>>
        /\ pc'[a] \in {"swapped", "reattach"}
    BY <1>0, <1>2 DEF PutIn, Restore, Goto, Shape
  <2>2. pc'[a] = "reattach" => loop' = None /\ enabled' = kept[a].enabled
    BY <1>0, <1>2 DEF PutIn, Restore, Goto, Shape
  <2>. QED  BY <1>0, <1>2, <2>1, <2>2
<1>3. CASE a \in Demos /\ Reattach(a)
  <2>1. /\ pc[a] = "reattach" /\ pc'[a] = "done"
        /\ UNCHANGED <<kept, overlap, enabled>>
        /\ router' = kept[a].router
        /\ loop' = IF loop = None THEN kept[a].router ELSE loop
    BY <1>0, <1>3 DEF Reattach, Attach, Goto, Shape
  <2>. QED  BY <1>0, <1>3, <2>1
<1>4. CASE TurnAct(a)
  <2>1. UNCHANGED <<router, loop, enabled, kept, overlap>>
    BY <1>4, TurnActStep DEF kernel, Shape
  <2>2. a \in Demos => /\ pc[a] \in TurnSteps \cup {"swapped"}
                       /\ pc'[a] \in TurnSteps \cup {"restore"}
    BY <1>0, <1>4, TurnActStep
  <2>3. \A d \in Demos : /\ Underway(d)' <=> Underway(d)
                         /\ pc'[d] = "reattach" => pc[d] = "reattach"
    BY <1>0, <2>2 DEF TurnSteps
  <2>. QED  BY <2>1, <2>3
<1>. QED  BY <1>1, <1>2, <1>3, <1>4, KernelCases

-----------------------------------------------------------------------------
(* Definitions by recursion along a sequence.                              *)

LEMMA Least ==
  ASSUME NEW T, T \subseteq Nat, T # {}
  PROVE  \E x \in T : \A y \in T : x <= y
<1> DEFINE R == OpToRel(<, Nat)
<1>1. IsWellFoundedOn(R, Nat)
  BY NatLessThanWellFounded
<1> HIDE DEF R
<1>2. PICK x \in T : \A y \in T : ~(<<y, x>> \in R)
  BY <1>1, WFMin
<1>3. ASSUME NEW y \in T PROVE x <= y
  <2>1. x \in Nat /\ y \in Nat
    OBVIOUS
  <2>2. ~(y < x)
    <3> SUFFICES ASSUME y < x PROVE FALSE
      OBVIOUS
    <3>1. <<y, x>> \in Nat \X Nat
      BY <2>1
    <3>2. <<y, x>>[1] < <<y, x>>[2]
      OBVIOUS
    <3> QED
      BY <1>2, <3>1, <3>2 DEF R, OpToRel
  <2> QED
    BY <2>1, <2>2
<1> QED
  BY <1>3

\* Induction over the numbers, for a property given by the set of those that
\* have it.
LEMMA Induction ==
  ASSUME NEW S, 0 \in S, \A n \in Nat : n \in S => n + 1 \in S
  PROVE  \A n \in Nat : n \in S
<1> SUFFICES ASSUME NEW k \in Nat, k \notin S PROVE FALSE
  OBVIOUS
<1> DEFINE T == {n \in Nat : n \notin S}
<1>1. PICK x \in T : \A y \in T : x <= y
  <2>1. T \subseteq Nat /\ T # {}
    OBVIOUS
  <2> HIDE DEF T
  <2> QED
    BY <2>1, Least
<1>2. x \in Nat /\ x # 0 /\ x - 1 \in Nat
  BY <1>1
<1>3. x - 1 \in S
  BY <1>1, <1>2
<1>4. (x - 1) + 1 \in S
  BY <1>2, <1>3
<1> QED
  BY <1>1, <1>2, <1>4

\* What a step F makes of a value of S, N times over, exists.
RunOf(f, a, N, F) == f[0] = a /\ \A i \in 1 .. N : f[i] = F[<<i, f[i - 1]>>]

LEMMA Recursion ==
  ASSUME NEW S, NEW a \in S, NEW N \in Nat, NEW F \in [(1 .. N) \X S -> S]
  PROVE  \E f \in [0 .. N -> S] : RunOf(f, a, N, F)
<1> DEFINE Runs(f, n) == f[0] = a /\ \A i \in 1 .. n : f[i] = F[<<i, f[i - 1]>>]
           G == {n \in Nat : n <= N => \E f \in [0 .. n -> S] : Runs(f, n)}
<1>1. 0 \in G
  <2>1. [x \in 0 .. 0 |-> a] \in [0 .. 0 -> S] /\ Runs([x \in 0 .. 0 |-> a], 0)
    OBVIOUS
  <2> QED
    BY <2>1
<1>2. ASSUME NEW n \in Nat, n \in G PROVE n + 1 \in G
  <2> SUFFICES ASSUME n + 1 <= N PROVE \E f \in [0 .. n + 1 -> S] : Runs(f, n + 1)
    OBVIOUS
  <2>1. PICK f \in [0 .. n -> S] : Runs(f, n)
    BY <1>2
  <2> DEFINE g == [x \in 0 .. n + 1 |-> IF x = n + 1 THEN F[<<n + 1, f[n]>>] ELSE f[x]]
  <2>2. <<n + 1, f[n]>> \in (1 .. N) \X S
    OBVIOUS
  <2>3. F[<<n + 1, f[n]>>] \in S
    BY <2>2
  <2>4. g \in [0 .. n + 1 -> S]
    BY <2>3
  <2>5. \A x \in 0 .. n : g[x] = f[x] /\ x \in 0 .. n + 1
    OBVIOUS
  <2>6. g[n + 1] = F[<<n + 1, f[n]>>] /\ (n + 1) - 1 = n
    OBVIOUS
  <2>7. ASSUME NEW i \in 1 .. n + 1 PROVE g[i] = F[<<i, g[i - 1]>>]
    <3>1. CASE i = n + 1
      <4>1. g[n] = f[n]
        BY <2>5
      <4> HIDE DEF g
      <4> QED
        BY <2>6, <3>1, <4>1
    <3>2. CASE i \in 1 .. n
      <4>1. i \in 0 .. n /\ i - 1 \in 0 .. n
        BY <3>2
      <4> QED
        BY <2>1, <2>5, <3>2, <4>1
    <3> QED
      BY <3>1, <3>2
  <2>8. g[0] = a
    BY <2>1, <2>5
  <2> HIDE DEF g
  <2> QED
    BY <2>4, <2>7, <2>8
<1>3. N \in G
  <2> HIDE DEF G
  <2>1. \A n \in Nat : n \in G => n + 1 \in G
    BY <1>2
  <2> QED
    BY <1>1, <2>1, Induction
<1> QED
  BY <1>3 DEF RunOf

-----------------------------------------------------------------------------
(* Messages and the states of their repair.                                *)

Message(I) == {m \in [role : {"user", "assistant", "tool"}, calls : Seq(I), id : I] :
                  m.calls # <<>> => m.role = "assistant"}

\* The part of a sequence before n is that of another.
SameUpTo(n, o, t) == \A k \in 1 .. n : t[k] = o[k]

\* Each call made before n is answered.
AnsweredUpTo(n, o) == \A i \in 1 .. n : \A c \in ToSet(o[i].calls) :
    \E k \in DOMAIN o : Follows(o, k, i) /\ o[k].id = c

\* The last message that is no result makes these calls.
LastCalls(o, j, calls) ==
    /\ j \in DOMAIN o /\ IsCalling(o[j]) /\ o[j].calls = calls
    /\ \A k \in j + 1 .. Len(o) : o[k].role = "tool"

GoodState(s) ==
    /\ EveryResultFollows(s.out)
    /\ IF s.in = "none" THEN EveryCallAnswered(s.out) /\ s.open = <<>>
       ELSE \E j \in DOMAIN s.out :
               /\ LastCalls(s.out, j, s.open) /\ AnsweredUpTo(j - 1, s.out)
               /\ \A c \in s.seen : \E k \in j + 1 .. Len(s.out) : s.out[k].id = c
               /\ s.in = "calls" => j = Len(s.out)

State(I) == {s \in [out : Seq(Message(I)), open : Seq(I), seen : SUBSET I,
                    in : {"none", "calls", "results"}] : GoodState(s)}

\* What flushing adds: results of the calls that are open.
Adds(s, t) ==
    /\ Len(s.out) <= Len(t) /\ SameUpTo(Len(s.out), s.out, t)
    /\ \A k \in Len(s.out) + 1 .. Len(t) :
          t[k].role = "tool" /\ t[k].calls = <<>> /\ t[k].id \in ToSet(s.open)

LEMMA Listed ==
  ASSUME NEW S, NEW s \in Seq(S)
  PROVE  /\ Len(s) \in Nat /\ DOMAIN s = 1 .. Len(s)
         /\ \A i \in DOMAIN s : s[i] \in S
         /\ ToSet(s) = {s[i] : i \in DOMAIN s}
BY LenProperties, ElementOfSeq DEF ToSet

LEMMA FollowsKept ==
  ASSUME NEW n \in Nat, NEW o, NEW t, SameUpTo(n, o, t), NEW i \in 1 .. n, NEW j \in 1 .. n, Follows(o, i, j)
  PROVE  Follows(t, i, j)
<1>1. \A k \in j + 1 .. i : k \in 1 .. n
  OBVIOUS
<1> QED
  BY <1>1 DEF Follows, SameUpTo, IsCalling

LEMMA AnsweredCall ==
  ASSUME NEW n, NEW o, AnsweredUpTo(n, o), NEW i \in 1 .. n, NEW c \in ToSet(o[i].calls)
  PROVE  \E k \in DOMAIN o : Follows(o, k, i) /\ o[k].id = c
BY DEF AnsweredUpTo

LEMMA ResultMessage ==
  ASSUME NEW I, NoId \in I, NEW c \in I
  PROVE  Result(c) \in Message(I) /\ Result(c).role = "tool" /\ Result(c).calls = <<>> /\ Result(c).id = c
BY EmptySeq DEF Result, Said, Message

\* Flushing answers what is open.
LEMMA FlushedOf ==
  ASSUME NEW I, NoId \in I, NEW s \in State(I)
  PROVE  /\ Flushed(s) \in Seq(Message(I)) /\ Adds(s, Flushed(s))
         /\ \A c \in ToSet(s.open) : c \in s.seen \/
               \E k \in Len(s.out) + 1 .. Len(Flushed(s)) : Flushed(s)[k].id = c
<1>0. s.out \in Seq(Message(I)) /\ s.open \in Seq(I)
  BY DEF State
<1>1. Len(s.open) \in Nat /\ DOMAIN s.open = 1 .. Len(s.open) /\ \A i \in DOMAIN s.open : s.open[i] \in I
  BY <1>0, Listed
<1> DEFINE N == Len(s.open)
           Told(n, t) ==
              /\ Adds(s, t)
              /\ \A i \in 1 .. n : s.open[i] \in s.seen \/
                    \E k \in Len(s.out) + 1 .. Len(t) : t[k].id = s.open[i]
           S == Seq(Message(I))
           Further(i, t) == IF s.open[i] \in s.seen THEN t ELSE Append(t, Result(s.open[i]))
           F == [x \in (1 .. N) \X S |-> Further(x[1], x[2])]
           Is(f) == f = [n \in 0 .. N |-> IF n = 0 THEN s.out ELSE Further(n, f[n - 1])]
<1>2. ASSUME NEW i \in 1 .. N, NEW t \in S PROVE Further(i, t) \in S
  <2>1. Result(s.open[i]) \in Message(I)
    BY <1>1, ResultMessage
  <2> QED
    BY <2>1, AppendProperties
<1>3. F \in [(1 .. N) \X S -> S]
  BY <1>2
<1>4. PICK f \in [0 .. N -> S] : RunOf(f, s.out, N, F)
  <2>1. s.out \in S /\ N \in Nat
    BY <1>0, <1>1
  <2> HIDE DEF F, S, N
  <2> QED
    BY <1>3, <2>1, Recursion
<1>5. \A i \in 1 .. N : f[i] = Further(i, f[i - 1])
  <2> TAKE i \in 1 .. N
  <2>1. i - 1 \in 0 .. N
    BY <1>1
  <2>2. <<i, f[i - 1]>> \in (1 .. N) \X S
    BY <1>4, <2>1
  <2>3. f[i] = F[<<i, f[i - 1]>>]
    BY <1>4 DEF RunOf
  <2> QED
    BY <2>2, <2>3
<1>6. Is(f)
  <2> DEFINE g == [n \in 0 .. N |-> IF n = 0 THEN s.out ELSE Further(n, f[n - 1])]
  <2>1. \A n \in 0 .. N : f[n] = g[n]
    <3> TAKE n \in 0 .. N
    <3>1. n = 0 \/ n \in 1 .. N
      BY <1>1
    <3>2. f[0] = s.out
      BY <1>4 DEF RunOf
    <3> QED
      BY <1>5, <3>1, <3>2
  <2> QED
    BY <1>4, <2>1
<1>7. PICK told : Is(told) /\ Flushed(s) = told[N]
  <2>1. Flushed(s) = (CHOOSE g : Is(g))[N]
    BY DEF Flushed
  <2> HIDE DEF Is
  <2> QED
    BY <1>6, <2>1
<1>8. told[0] = s.out /\ \A i \in 1 .. N : told[i] = Further(i, told[i - 1])
  <2>1. \A n \in 0 .. N : told[n] = IF n = 0 THEN s.out ELSE Further(n, told[n - 1])
    <3> HIDE DEF Further
    <3> QED
      BY <1>7
  <2>2. 0 \in 0 .. N /\ \A i \in 1 .. N : i \in 0 .. N /\ i # 0
    BY <1>1
  <2> HIDE DEF N, Further
  <2> QED
    BY <2>1, <2>2
<1> DEFINE G == {n \in Nat : n <= N => told[n] \in S /\ Told(n, told[n])}
<1>9. 0 \in G
  <2>1. Len(s.out) \in Nat
    BY <1>0, LenProperties
  <2> QED
    BY <1>0, <1>8, <2>1 DEF Adds, SameUpTo
<1>10. ASSUME NEW n \in Nat, n \in G PROVE n + 1 \in G
  <2> SUFFICES ASSUME n + 1 <= N PROVE told[n + 1] \in S /\ Told(n + 1, told[n + 1])
    OBVIOUS
  <2> DEFINE t == told[n]
             c == s.open[n + 1]
             u == told[n + 1]
  <2>1. t \in S /\ Told(n, t) /\ n + 1 \in 1 .. N /\ (n + 1) - 1 = n
    BY <1>1, <1>10
  <2>2. u = IF c \in s.seen THEN t ELSE Append(t, Result(c))
    BY <1>8, <2>1
  <2>3. c \in I /\ c \in ToSet(s.open)
    BY <1>0, <1>1, <2>1, Listed
  <2> HIDE DEF t, u
  <2>4. CASE c \in s.seen
    <3>1. \A i \in 1 .. n + 1 : i \in 1 .. n \/ i = n + 1
      OBVIOUS
    <3> QED
      BY <2>1, <2>2, <2>4, <3>1 DEF t, u
  <2>5. CASE c \notin s.seen
    <3>1. Result(c) \in Message(I) /\ Result(c).role = "tool" /\ Result(c).calls = <<>> /\ Result(c).id = c
      BY <2>3, ResultMessage
    <3>2. /\ u \in S /\ Len(u) = Len(t) + 1 /\ Len(t) \in Nat /\ Len(s.out) \in Nat
          /\ \A i \in 1 .. Len(t) : u[i] = t[i]
          /\ u[Len(t) + 1] = Result(c)
      BY <1>0, <2>1, <2>2, <2>5, <3>1, AppendProperties, LenProperties
    <3> DEFINE l == Len(s.out)
               m == Len(t)
    <3>3. l <= m /\ SameUpTo(l, s.out, t)
          /\ \A k \in l + 1 .. m : t[k].role = "tool" /\ t[k].calls = <<>> /\ t[k].id \in ToSet(s.open)
      BY <2>1 DEF Adds
    <3> HIDE DEF l, m, c
    <3>4. l \in Nat /\ m \in Nat /\ Len(u) = m + 1 /\ (\A i \in 1 .. m : u[i] = t[i]) /\ u[m + 1] = Result(c)
      BY <3>2 DEF l, m
    <3>5. SameUpTo(l, s.out, u)
      <4>1. \A k \in 1 .. l : k \in 1 .. m
        BY <3>3, <3>4
      <4> QED
        BY <3>3, <3>4, <4>1 DEF SameUpTo
    <3>6. \A k \in l + 1 .. m + 1 : u[k].role = "tool" /\ u[k].calls = <<>> /\ u[k].id \in ToSet(s.open)
      <4> TAKE k \in l + 1 .. m + 1
      <4>1. k = m + 1 \/ (k \in 1 .. m /\ k \in l + 1 .. m)
        BY <3>4
      <4> QED
        BY <2>3, <3>1, <3>3, <3>4, <4>1
    <3>7. ASSUME NEW i \in 1 .. n + 1
          PROVE  s.open[i] \in s.seen \/ \E k \in l + 1 .. m + 1 : u[k].id = s.open[i]
      <4>1. CASE i \in 1 .. n
        <5>1. s.open[i] \in s.seen \/ \E k \in l + 1 .. m : t[k].id = s.open[i]
          BY <2>1, <4>1 DEF l, m
        <5>2. \A k \in l + 1 .. m : k \in l + 1 .. m + 1 /\ k \in 1 .. m
          BY <3>4
        <5> QED
          BY <3>4, <5>1, <5>2
      <4>2. CASE i = n + 1
        <5>1. m + 1 \in l + 1 .. m + 1
          BY <3>3, <3>4
        <5> QED
          BY <3>1, <3>4, <4>2, <5>1 DEF c
      <4> QED
        BY <4>1, <4>2
    <3>8. Told(n + 1, u)
      BY <3>3, <3>4, <3>5, <3>6, <3>7 DEF Adds, l
    <3> QED
      BY <3>2, <3>8 DEF u
  <2> QED
    BY <2>4, <2>5
<1>11. N \in G
  <2> HIDE DEF G
  <2>1. \A n \in Nat : n \in G => n + 1 \in G
    BY <1>10
  <2> QED
    BY <1>1, <1>9, <2>1, Induction
<1>12. told[N] \in S /\ Told(N, told[N])
  BY <1>1, <1>11
<1>13. ASSUME NEW c \in ToSet(s.open) PROVE \E i \in 1 .. N : s.open[i] = c
  BY <1>0, Listed
<1> QED
  BY <1>7, <1>12, <1>13

Settled(o) == EveryCallAnswered(o) /\ EveryResultFollows(o)

LEMMA NoCalls ==
  ASSUME NEW I, NEW m \in Message(I), m.role # "assistant"
  PROVE  ToSet(m.calls) = {}
<1>1. m.calls = <<>>
  BY DEF Message
<1> QED
  BY <1>1 DEF ToSet

\* A flushed list has every call answered and every result after its call.
LEMMA FlushedIsSettled ==
  ASSUME NEW I, NoId \in I, NEW s \in State(I)
  PROVE  /\ Settled(Flushed(s))
         /\ EveryResultWanted(s.out) => EveryResultWanted(Flushed(s))
<1> DEFINE o == s.out
           t == Flushed(s)
           n == Len(o)
           m == Len(t)
<1>1. /\ o \in Seq(Message(I)) /\ t \in Seq(Message(I)) /\ Adds(s, t) /\ GoodState(s)
      /\ s.open \in Seq(I) /\ s.in \in {"none", "calls", "results"}
      /\ \A c \in ToSet(s.open) : c \in s.seen \/ \E k \in n + 1 .. m : t[k].id = c
  BY FlushedOf DEF State
<1> HIDE DEF o, t
<1>2. /\ n \in Nat /\ m \in Nat /\ DOMAIN o = 1 .. n /\ DOMAIN t = 1 .. m
      /\ (\A i \in 1 .. n : o[i] \in Message(I)) /\ \A i \in 1 .. m : t[i] \in Message(I)
  BY <1>1, Listed
<1>3. /\ n <= m /\ SameUpTo(n, o, t)
      /\ \A k \in n + 1 .. m : t[k].role = "tool" /\ t[k].calls = <<>> /\ t[k].id \in ToSet(s.open)
  BY <1>1 DEF Adds, o
<1>4. EveryResultFollows(o)
  BY <1>1 DEF GoodState, o
<1> HIDE DEF n, m
<1>5. \A i \in 1 .. n : i \in 1 .. m /\ t[i] = o[i]
  BY <1>2, <1>3 DEF SameUpTo
<1>6. CASE s.in = "none"
  <2>1. EveryCallAnswered(o) /\ s.open = <<>>
    BY <1>1, <1>6 DEF GoodState, o
  <2>2. ToSet(s.open) = {}
    BY <2>1 DEF ToSet
  <2>3. m = n
    <3> SUFFICES ASSUME n + 1 <= m PROVE FALSE
      BY <1>2, <1>3
    <3>1. n + 1 \in n + 1 .. m
      BY <1>2
    <3> QED
      BY <1>3, <2>2, <3>1
  <2>4. \A i, j \in 1 .. n : Follows(o, i, j) => Follows(t, i, j)
    BY <1>2, <1>3, FollowsKept
  <2>5. EveryCallAnswered(t)
    BY <1>2, <1>5, <2>1, <2>3, <2>4 DEF EveryCallAnswered
  <2>6. EveryResultFollows(t)
    BY <1>2, <1>4, <1>5, <2>3, <2>4 DEF EveryResultFollows
  <2>7. EveryResultWanted(o) => EveryResultWanted(t)
    BY <1>2, <1>5, <2>3, <2>4 DEF EveryResultWanted
  <2> QED
    BY <2>5, <2>6, <2>7 DEF Settled, o, t
<1>7. CASE s.in # "none"
  <2>1. PICK j \in DOMAIN o :
           /\ LastCalls(o, j, s.open) /\ AnsweredUpTo(j - 1, o)
           /\ \A c \in s.seen : \E k \in j + 1 .. n : o[k].id = c
    BY <1>1, <1>7 DEF GoodState, o, n
  <2>2. j \in 1 .. n /\ j \in 1 .. m /\ IsCalling(o[j]) /\ IsCalling(t[j]) /\ t[j].calls = s.open
    BY <1>2, <1>5, <2>1 DEF LastCalls
  <2>3. \A k \in j + 1 .. n : o[k].role = "tool"
    BY <2>1 DEF LastCalls, n
  <2>4. \A k \in j + 1 .. m : t[k].role = "tool"
    <3> TAKE k \in j + 1 .. m
    <3>1. k \in n + 1 .. m \/ (k \in j + 1 .. n /\ k \in 1 .. n)
      BY <1>2, <2>2
    <3> QED
      BY <1>3, <1>5, <2>3, <3>1
  <2>5. \A k \in j + 1 .. m : Follows(t, k, j)
    <3> TAKE k \in j + 1 .. m
    <3>1. j < k /\ \A l \in j + 1 .. k : l \in j + 1 .. m
      BY <1>2, <2>2
    <3> QED
      BY <2>2, <2>4, <3>1 DEF Follows
  <2>6. \A i, l \in 1 .. n : Follows(o, i, l) => Follows(t, i, l)
    BY <1>2, <1>3, FollowsKept
  <2>7. ASSUME NEW i \in 1 .. m, t[i].role = "tool"
        PROVE  \E l \in 1 .. m : Follows(t, i, l)
    <3>1. CASE i \in 1 .. n
      <4>1. PICK l \in 1 .. n : Follows(o, i, l)
        BY <1>2, <1>4, <1>5, <2>7, <3>1 DEF EveryResultFollows
      <4> QED
        BY <1>5, <2>6, <3>1, <4>1
    <3>2. CASE i \in n + 1 .. m
      <4>1. i \in j + 1 .. m
        BY <1>2, <2>2, <3>2
      <4> QED
        BY <2>2, <2>5, <4>1
    <3> QED
      BY <1>2, <3>1, <3>2
  <2>8. ASSUME NEW i \in 1 .. m, NEW c \in ToSet(t[i].calls)
        PROVE  \E k \in 1 .. m : Follows(t, k, i) /\ t[k].id = c
    <3>1. CASE i \in 1 .. j - 1
      <4>1. i \in 1 .. n
        BY <1>2, <2>2, <3>1
      <4>a. c \in ToSet(o[i].calls)
        BY <1>5, <2>8, <4>1
      <4>b. AnsweredUpTo(j - 1, o)
        BY <2>1
      <4>c. \E k \in DOMAIN o : Follows(o, k, i) /\ o[k].id = c
        BY <3>1, <4>a, <4>b, AnsweredCall
      <4>2. PICK k \in 1 .. n : Follows(o, k, i) /\ o[k].id = c
        BY <1>2, <4>c
      <4> QED
        BY <1>5, <2>6, <4>1, <4>2
    <3>2. CASE i = j
      <4>1. c \in ToSet(s.open)
        BY <2>2, <2>8, <3>2
      <4>2. CASE \E k \in n + 1 .. m : t[k].id = c
        <5>1. PICK k \in n + 1 .. m : t[k].id = c
          BY <4>2
        <5>2. k \in j + 1 .. m /\ k \in 1 .. m
          BY <1>2, <2>2, <5>1
        <5> QED
          BY <2>5, <3>2, <5>1, <5>2
      <4>3. CASE c \in s.seen
        <5>1. PICK k \in j + 1 .. n : o[k].id = c
          BY <2>1, <4>3
        <5>2. k \in j + 1 .. m /\ k \in 1 .. n
          BY <1>2, <1>3, <2>2, <5>1
        <5> QED
          BY <1>5, <2>5, <3>2, <5>1, <5>2
      <4> QED
        BY <1>1, <4>1, <4>2, <4>3
    <3>3. CASE i \in j + 1 .. m
      <4>1. t[i].role = "tool" /\ t[i] \in Message(I)
        BY <1>2, <2>4, <3>3
      <4> QED
        BY <2>8, <4>1, NoCalls
    <3> QED
      BY <1>2, <2>2, <3>1, <3>2, <3>3
  <2>9. ASSUME EveryResultWanted(o), NEW i \in 1 .. m, t[i].role = "tool"
        PROVE  \E l \in 1 .. m : Follows(t, i, l) /\ t[i].id \in ToSet(t[l].calls)
    <3>1. CASE i \in 1 .. n
      <4>1. PICK l \in 1 .. n : Follows(o, i, l) /\ o[i].id \in ToSet(o[l].calls)
        BY <1>2, <1>5, <2>9, <3>1 DEF EveryResultWanted
      <4> QED
        BY <1>5, <2>6, <3>1, <4>1
    <3>2. CASE i \in n + 1 .. m
      <4>1. i \in j + 1 .. m
        BY <1>2, <2>2, <3>2
      <4> QED
        BY <1>3, <2>2, <2>5, <3>2, <4>1
    <3> QED
      BY <1>2, <3>1, <3>2
  <2> QED
    BY <1>2, <2>7, <2>8, <2>9 DEF Settled, EveryCallAnswered, EveryResultFollows, EveryResultWanted, o, t
<1> QED
  BY <1>6, <1>7

\* A message that is no result may be appended.
LEMMA AppendMessage ==
  ASSUME NEW I, NEW t \in Seq(Message(I)), Settled(t), NEW m \in Message(I), m.role # "tool"
  PROVE  /\ EveryResultFollows(Append(t, m)) /\ AnsweredUpTo(Len(t), Append(t, m))
         /\ m.calls = <<>> => EveryCallAnswered(Append(t, m))
         /\ EveryResultWanted(t) => EveryResultWanted(Append(t, m))
<1> DEFINE u == Append(t, m)
           n == Len(t)
<1>1. /\ n \in Nat /\ DOMAIN t = 1 .. n /\ DOMAIN u = 1 .. n + 1 /\ SameUpTo(n, t, u) /\ u[n + 1] = m
  <2>1. /\ u \in Seq(Message(I)) /\ Len(u) = n + 1 /\ (\A i \in 1 .. n : u[i] = t[i]) /\ u[n + 1] = m
    BY AppendProperties
  <2>2. n \in Nat /\ DOMAIN t = 1 .. n /\ DOMAIN u = 1 .. Len(u)
    BY <2>1, LenProperties
  <2> QED
    BY <2>1, <2>2 DEF SameUpTo
<1> HIDE DEF n, u
<1>2. \A i \in 1 .. n + 1 : i \in 1 .. n \/ i = n + 1
  BY <1>1
<1>3. \A i \in 1 .. n : i \in 1 .. n + 1 /\ u[i] = t[i]
  BY <1>1 DEF SameUpTo
<1>4. \A i, j \in 1 .. n : Follows(t, i, j) => Follows(u, i, j)
  BY <1>1, FollowsKept
<1>5. EveryResultFollows(u)
  BY <1>1, <1>2, <1>3, <1>4 DEF EveryResultFollows, Settled
<1>6. AnsweredUpTo(n, u)
  <2> SUFFICES ASSUME NEW i \in 1 .. n, NEW c \in ToSet(u[i].calls)
               PROVE  \E k \in DOMAIN u : Follows(u, k, i) /\ u[k].id = c
    BY DEF AnsweredUpTo
  <2>1. c \in ToSet(t[i].calls)
    BY <1>3
  <2>2. PICK k \in 1 .. n : Follows(t, k, i) /\ t[k].id = c
    BY <1>1, <2>1 DEF EveryCallAnswered, Settled
  <2> QED
    BY <1>1, <1>3, <1>4, <2>2
<1>7. ASSUME m.calls = <<>> PROVE EveryCallAnswered(u)
  <2>1. ToSet(u[n + 1].calls) = {}
    BY <1>1, <1>7 DEF ToSet
  <2> QED
    BY <1>1, <1>2, <1>6, <2>1 DEF EveryCallAnswered, AnsweredUpTo
<1>8. EveryResultWanted(t) => EveryResultWanted(u)
  BY <1>1, <1>2, <1>3, <1>4 DEF EveryResultWanted
<1> QED
  BY <1>5, <1>6, <1>7, <1>8 DEF u, n

-----------------------------------------------------------------------------
(* One message more.                                                       *)

\* Calls in a row are merged.
LEMMA MergeStep ==
  ASSUME NEW I, NoId \in I, NEW s \in State(I), NEW m \in Message(I), IsCalling(m), s.in = "calls"
  PROVE  /\ RepairStep(s, m) \in State(I)
         /\ RepairStep(s, m).open = s.open \o m.calls /\ RepairStep(s, m).in = "calls"
         /\ EveryResultWanted(s.out) => EveryResultWanted(RepairStep(s, m).out)
<1> DEFINE o == s.out
           n == Len(o)
           calls == s.open \o m.calls
           u == [o EXCEPT ![n].calls = calls]
           r == RepairStep(s, m)
<1>1. r = [s EXCEPT !.open = calls, !.out[Len(s.out)].calls = calls]
  BY DEF RepairStep
<1>2. /\ o \in Seq(Message(I)) /\ GoodState(s) /\ s.open \in Seq(I) /\ m.calls \in Seq(I) /\ m.calls # <<>>
      /\ s \in [out : Seq(Message(I)), open : Seq(I), seen : SUBSET I, in : {"none", "calls", "results"}]
      /\ s.seen \in SUBSET I
  BY DEF State, Message, IsCalling
<1>3. n \in Nat /\ DOMAIN o = 1 .. n /\ \A i \in 1 .. n : o[i] \in Message(I)
  BY <1>2, Listed
<1>4. calls \in Seq(I) /\ calls # <<>>
  BY <1>2, ConcatProperties, EmptySeq, LenProperties
<1>5. PICK j \in DOMAIN o :
         /\ LastCalls(o, j, s.open) /\ AnsweredUpTo(j - 1, o)
         /\ \A c \in s.seen : \E k \in j + 1 .. n : o[k].id = c
         /\ j = n
  BY <1>2 DEF GoodState
<1>6. r = [out |-> u, open |-> calls, seen |-> s.seen, in |-> "calls"]
  BY <1>1, <1>2
<1> HIDE DEF o, n, calls, r
<1>7. IsCalling(o[n]) /\ n \in 1 .. n
  BY <1>3, <1>5 DEF LastCalls
<1>8. /\ DOMAIN u = 1 .. n /\ (\A i \in 1 .. n : i # n => u[i] = o[i])
      /\ u[n] = [o[n] EXCEPT !.calls = calls]
  BY <1>3, <1>7
<1>9. u[n] \in Message(I) /\ u[n].role = "assistant" /\ u[n].calls = calls
  BY <1>3, <1>4, <1>7, <1>8 DEF Message, IsCalling
<1> HIDE DEF u
<1>10. u \in Seq(Message(I)) /\ Len(u) = n
  <2>1. u \in [1 .. n -> Message(I)]
    BY <1>3, <1>8, <1>9, <1>6 DEF u
  <2>2. u \in Seq(Message(I))
    BY <1>3, <2>1, SeqDef
  <2>3. DOMAIN u = 1 .. Len(u) /\ Len(u) \in Nat
    BY <2>2, LenProperties
  <2> QED
    BY <1>3, <1>8, <2>2, <2>3
<1>11. \A i \in 1 .. n : (u[i].role = "tool" <=> o[i].role = "tool") /\ (i # n => u[i] = o[i])
  BY <1>7, <1>8, <1>9 DEF IsCalling
<1>12. ASSUME NEW i \in 1 .. n, NEW l \in 1 .. n, Follows(o, i, l) PROVE Follows(u, i, l) /\ l # n /\ i # n
  <2>1. l < i /\ IsCalling(o[l]) /\ \A k \in l + 1 .. i : o[k].role = "tool"
    BY <1>12 DEF Follows
  <2>a. i \in Nat /\ l \in Nat /\ i <= n /\ 1 <= l /\ l < i
    BY <1>3, <2>1
  <2>2. i \in l + 1 .. i /\ l # n /\ \A k \in l + 1 .. i : k \in 1 .. n
    BY <1>3, <2>a
  <2>3. i # n
    BY <1>7, <2>1, <2>2 DEF IsCalling
  <2> QED
    BY <1>11, <2>1, <2>2, <2>3 DEF Follows
<1>13. EveryResultFollows(u)
  BY <1>2, <1>3, <1>8, <1>11, <1>12 DEF EveryResultFollows, GoodState, o
<1>14. EveryResultWanted(o) => EveryResultWanted(u)
  BY <1>3, <1>8, <1>11, <1>12 DEF EveryResultWanted
<1>15. AnsweredUpTo(n - 1, u)
  <2> SUFFICES ASSUME NEW i \in 1 .. n - 1, NEW c \in ToSet(u[i].calls)
               PROVE  \E k \in DOMAIN u : Follows(u, k, i) /\ u[k].id = c
    BY DEF AnsweredUpTo
  <2>0. i \in 1 .. n /\ i # n
    BY <1>3
  <2>1. u[i] = o[i] /\ c \in ToSet(o[i].calls) /\ i \in 1 .. j - 1
    BY <1>5, <1>11, <2>0
  <2>a. i \in 1 .. j - 1 /\ c \in ToSet(o[i].calls)
    BY <2>1
  <2>b. AnsweredUpTo(j - 1, o)
    BY <1>5
  <2>c. \E k \in DOMAIN o : Follows(o, k, i) /\ o[k].id = c
    BY <2>a, <2>b DEF AnsweredUpTo
  <2>2. PICK k \in 1 .. n : Follows(o, k, i) /\ o[k].id = c
    BY <1>3, <1>5, <2>c
  <2> QED
    BY <1>8, <1>11, <1>12, <2>0, <2>1, <2>2
<1>16. LastCalls(u, n, calls)
  <2>1. \A k \in n + 1 .. n : FALSE
    BY <1>3
  <2> QED
    BY <1>4, <1>7, <1>8, <1>9, <1>10, <2>1 DEF LastCalls, IsCalling
<1>17. \A c \in s.seen : FALSE
  <2>1. \A k \in n + 1 .. n : FALSE
    BY <1>3
  <2> QED
    BY <1>5, <2>1
<1>18. GoodState([out |-> u, open |-> calls, seen |-> s.seen, in |-> "calls"])
  BY <1>7, <1>8, <1>10, <1>13, <1>15, <1>16, <1>17 DEF GoodState
<1>19. [out |-> u, open |-> calls, seen |-> s.seen, in |-> "calls"] \in State(I)
  BY <1>2, <1>4, <1>10, <1>18 DEF State
<1>20. RepairStep(s, m) = [out |-> u, open |-> calls, seen |-> s.seen, in |-> "calls"]
  BY <1>6 DEF r
<1>21. RepairStep(s, m) \in State(I)
  BY <1>19, <1>20
<1>22. RepairStep(s, m).open = calls /\ RepairStep(s, m).in = "calls" /\ RepairStep(s, m).out = u
  BY <1>20
<1> QED
  BY <1>14, <1>21, <1>22 DEF o, calls

\* Calls after something else close what was open.
LEMMA CallStep ==
  ASSUME NEW I, NoId \in I, NEW s \in State(I), NEW m \in Message(I), IsCalling(m), s.in # "calls"
  PROVE  /\ RepairStep(s, m) \in State(I)
         /\ RepairStep(s, m).open = m.calls /\ RepairStep(s, m).in = "calls"
         /\ EveryResultWanted(s.out) => EveryResultWanted(RepairStep(s, m).out)
<1> DEFINE t == Flushed(s)
           u == Append(t, m)
           n == Len(t)
           r == [out |-> u, open |-> m.calls, seen |-> {}, in |-> "calls"]
<1>1. RepairStep(s, m) = r
  BY DEF RepairStep
<1>2. t \in Seq(Message(I)) /\ Settled(t) /\ (EveryResultWanted(s.out) => EveryResultWanted(t))
  BY FlushedOf, FlushedIsSettled
<1>3. m.role # "tool" /\ m.calls \in Seq(I) /\ m.calls # <<>>
  BY DEF IsCalling, Message
<1> HIDE DEF t
<1>4. /\ EveryResultFollows(u) /\ AnsweredUpTo(n, u) /\ (EveryResultWanted(t) => EveryResultWanted(u))
  BY <1>2, <1>3, AppendMessage
<1>5. /\ u \in Seq(Message(I)) /\ Len(u) = n + 1 /\ n \in Nat /\ DOMAIN u = 1 .. n + 1 /\ u[n + 1] = m
  <2>1. u \in Seq(Message(I)) /\ Len(u) = n + 1 /\ u[n + 1] = m
    BY <1>2, AppendProperties
  <2>2. n \in Nat /\ DOMAIN u = 1 .. Len(u)
    BY <1>2, <2>1, LenProperties
  <2> QED
    BY <2>1, <2>2
<1> HIDE DEF u, n
<1>6. LastCalls(u, n + 1, m.calls)
  <2>1. \A k \in n + 1 + 1 .. Len(u) : FALSE
    BY <1>5
  <2>2. n + 1 \in 1 .. n + 1
    BY <1>5
  <2> QED
    BY <1>5, <2>1, <2>2 DEF LastCalls
<1>7. n + 1 \in DOMAIN u /\ AnsweredUpTo((n + 1) - 1, u)
  BY <1>4, <1>5
<1>8. GoodState(r)
  BY <1>4, <1>5, <1>6, <1>7 DEF GoodState
<1>9. r \in State(I)
  BY <1>3, <1>5, <1>8 DEF State
<1> QED
  BY <1>1, <1>2, <1>4, <1>9

\* A result after calls, or after their results.
LEMMA ResultStep ==
  ASSUME NEW I, NoId \in I, NEW s \in State(I), NEW m \in Message(I), m.role = "tool", s.in # "none"
  PROVE  /\ RepairStep(s, m) \in State(I)
         /\ RepairStep(s, m).open = s.open /\ RepairStep(s, m).in = "results"
         /\ EveryResultWanted(s.out) /\ m.id \in ToSet(s.open) => EveryResultWanted(RepairStep(s, m).out)
<1> DEFINE o == s.out
           u == Append(o, m)
           n == Len(o)
           r == [out |-> u, open |-> s.open, seen |-> s.seen \cup {m.id}, in |-> "results"]
<1>1. RepairStep(s, m) = r
  <2>1. s = [out |-> s.out, open |-> s.open, seen |-> s.seen, in |-> s.in]
    BY DEF State
  <2>2. RepairStep(s, m) = [s EXCEPT !.out = Append(@, m), !.seen = @ \cup {m.id}, !.in = "results"]
    BY DEF RepairStep, IsCalling
  <2> QED
    BY <2>1, <2>2
<1>2. o \in Seq(Message(I)) /\ GoodState(s) /\ s.open \in Seq(I) /\ s.seen \in SUBSET I /\ m.id \in I
      /\ m.calls = <<>>
  BY DEF State, Message
<1>3. PICK j \in DOMAIN o :
         /\ LastCalls(o, j, s.open) /\ AnsweredUpTo(j - 1, o)
         /\ \A c \in s.seen : \E k \in j + 1 .. n : o[k].id = c
  BY <1>2 DEF GoodState
<1>4. EveryResultFollows(o)
  BY <1>2 DEF GoodState
<1> HIDE DEF o
<1>5. /\ u \in Seq(Message(I)) /\ Len(u) = n + 1 /\ n \in Nat /\ DOMAIN u = 1 .. n + 1 /\ u[n + 1] = m
      /\ DOMAIN o = 1 .. n /\ SameUpTo(n, o, u)
  <2>1. u \in Seq(Message(I)) /\ Len(u) = n + 1 /\ u[n + 1] = m /\ \A i \in 1 .. n : u[i] = o[i]
    BY <1>2, AppendProperties
  <2>2. n \in Nat /\ DOMAIN u = 1 .. Len(u) /\ DOMAIN o = 1 .. n
    BY <1>2, <2>1, LenProperties
  <2> QED
    BY <2>1, <2>2 DEF SameUpTo
<1>6. /\ j \in 1 .. n /\ IsCalling(o[j]) /\ o[j].calls = s.open
      /\ \A k \in j + 1 .. n : o[k].role = "tool"
  BY <1>3, <1>5 DEF LastCalls, n
<1> HIDE DEF u, n
<1>7. \A i \in 1 .. n : i \in 1 .. n + 1 /\ u[i] = o[i]
  BY <1>5 DEF SameUpTo
<1>8. \A i, l \in 1 .. n : Follows(o, i, l) => Follows(u, i, l)
  BY <1>5, FollowsKept
<1>9. LastCalls(u, j, s.open)
  <2>1. \A k \in j + 1 .. n + 1 : k = n + 1 \/ (k \in 1 .. n /\ k \in j + 1 .. n)
    BY <1>5, <1>6
  <2>2. \A k \in j + 1 .. n + 1 : u[k].role = "tool"
    BY <1>5, <1>6, <1>7, <2>1
  <2> QED
    BY <1>5, <1>6, <1>7, <2>2 DEF LastCalls
<1>10. Follows(u, n + 1, j)
  BY <1>5, <1>6, <1>9 DEF Follows, LastCalls
<1>11. \A i \in 1 .. n + 1 : i \in 1 .. n \/ i = n + 1
  BY <1>5
<1>12. EveryResultFollows(u)
  BY <1>4, <1>5, <1>6, <1>7, <1>8, <1>10, <1>11 DEF EveryResultFollows
<1>13. ASSUME EveryResultWanted(o), m.id \in ToSet(s.open) PROVE EveryResultWanted(u)
  BY <1>5, <1>6, <1>7, <1>8, <1>10, <1>11, <1>13 DEF EveryResultWanted
<1>14. AnsweredUpTo(j - 1, u)
  <2> SUFFICES ASSUME NEW i \in 1 .. j - 1, NEW c \in ToSet(u[i].calls)
               PROVE  \E k \in DOMAIN u : Follows(u, k, i) /\ u[k].id = c
    BY DEF AnsweredUpTo
  <2>0. i \in 1 .. n
    BY <1>5, <1>6
  <2>1. u[i] = o[i] /\ c \in ToSet(o[i].calls)
    BY <1>7, <2>0
  <2>a. i \in 1 .. j - 1 /\ c \in ToSet(o[i].calls)
    BY <2>1
  <2>b. AnsweredUpTo(j - 1, o)
    BY <1>3
  <2>c. \E k \in DOMAIN o : Follows(o, k, i) /\ o[k].id = c
    BY <2>a, <2>b, AnsweredCall
  <2>2. PICK k \in 1 .. n : Follows(o, k, i) /\ o[k].id = c
    BY <1>3, <1>5, <2>c
  <2> QED
    BY <1>5, <1>7, <1>8, <2>0, <2>1, <2>2
<1>15. ASSUME NEW c \in s.seen \cup {m.id} PROVE \E k \in j + 1 .. n + 1 : u[k].id = c
  <2>1. CASE c = m.id
    <3>1. n + 1 \in j + 1 .. n + 1
      BY <1>5, <1>6
    <3> QED
      BY <1>5, <2>1, <3>1
  <2>2. CASE c \in s.seen
    <3>1. PICK k \in j + 1 .. n : o[k].id = c
      BY <1>3, <2>2 DEF n
    <3>2. k \in 1 .. n /\ k \in j + 1 .. n + 1
      BY <1>5, <1>6, <3>1
    <3> QED
      BY <1>7, <3>1, <3>2
  <2> QED
    BY <1>15, <2>1, <2>2
<1>16. GoodState(r)
  <2>1. j \in DOMAIN u
    BY <1>5, <1>6
  <2> QED
    BY <1>5, <1>9, <1>12, <1>14, <1>15, <2>1 DEF GoodState
<1>17. r \in State(I)
  BY <1>2, <1>5, <1>16 DEF State
<1> QED
  BY <1>1, <1>13, <1>17 DEF u, o

\* Anything else ends the calls; a result that follows none is no result any more.
LEMMA OtherStep ==
  ASSUME NEW I, NoId \in I, NEW s \in State(I), NEW m \in Message(I), ~IsCalling(m),
         m.role = "tool" => s.in = "none"
  PROVE  /\ RepairStep(s, m) \in State(I) /\ RepairStep(s, m).in = "none"
         /\ EveryResultWanted(s.out) => EveryResultWanted(RepairStep(s, m).out)
<1> DEFINE t == Flushed(s)
           p == IF m.role = "tool" THEN Orphaned(m) ELSE m
           u == Append(t, p)
<1>1. RepairStep(s, m) = [out |-> u, open |-> <<>>, seen |-> {}, in |-> "none"]
  BY DEF RepairStep, Closed
<1>2. t \in Seq(Message(I)) /\ Settled(t) /\ (EveryResultWanted(s.out) => EveryResultWanted(t))
  BY FlushedOf, FlushedIsSettled
<1>3. p \in Message(I) /\ p.role # "tool" /\ p.calls = <<>>
  BY DEF Message, Orphaned, IsCalling
<1> HIDE DEF t, p
<1>4. /\ EveryResultFollows(u) /\ EveryCallAnswered(u) /\ (EveryResultWanted(t) => EveryResultWanted(u))
  BY <1>2, <1>3, AppendMessage
<1>5. u \in Seq(Message(I))
  BY <1>2, <1>3, AppendProperties
<1> HIDE DEF u
<1>6. [out |-> u, open |-> <<>>, seen |-> {}, in |-> "none"] \in State(I)
  <2>1. <<>> \in Seq(I)
    BY EmptySeq
  <2> QED
    BY <1>4, <1>5, <2>1 DEF State, GoodState
<1> QED
  BY <1>1, <1>2, <1>4, <1>6

-----------------------------------------------------------------------------
(* A repaired list.                                                        *)

LEMMA RepairsRun ==
  ASSUME NEW I, NoId \in I, NEW ms \in Seq(Message(I))
  PROVE  /\ Repairs(ms)[0] = Closed(<<>>)
         /\ \A i \in 0 .. Len(ms) : Repairs(ms)[i] \in State(I)
         /\ \A i \in 1 .. Len(ms) : Repairs(ms)[i] = RepairStep(Repairs(ms)[i - 1], ms[i])
<1> DEFINE N == Len(ms)
           S == State(I)
           a == Closed(<<>>)
           F == [x \in (1 .. N) \X S |-> RepairStep(x[2], ms[x[1]])]
           Is(f) == f = [n \in 0 .. N |-> IF n = 0 THEN a ELSE RepairStep(f[n - 1], ms[n])]
<1>1. N \in Nat /\ \A i \in 1 .. N : ms[i] \in Message(I)
  BY Listed
<1>2. a \in S
  <2>1. <<>> \in Seq(Message(I)) /\ <<>> \in Seq(I)
    BY EmptySeq
  <2>2. EveryResultFollows(<<>>) /\ EveryCallAnswered(<<>>)
    BY DEF EveryResultFollows, EveryCallAnswered
  <2> QED
    BY <2>1, <2>2 DEF Closed, State, GoodState
<1>3. ASSUME NEW s \in S, NEW m \in Message(I) PROVE RepairStep(s, m) \in S
  <2> HIDE DEF S
  <2>0. s \in State(I)
    BY DEF S
  <2>1. CASE IsCalling(m) /\ s.in = "calls"
    BY <2>0, <2>1, MergeStep DEF S
  <2>2. CASE IsCalling(m) /\ s.in # "calls"
    BY <2>0, <2>2, CallStep DEF S
  <2>3. CASE m.role = "tool" /\ s.in # "none"
    BY <2>0, <2>3, ResultStep DEF S
  <2>4. CASE ~IsCalling(m) /\ (m.role = "tool" => s.in = "none")
    BY <2>0, <2>4, OtherStep DEF S
  <2> QED
    BY <2>1, <2>2, <2>3, <2>4
<1>4. F \in [(1 .. N) \X S -> S]
  <2> HIDE DEF S
  <2>1. \A x \in (1 .. N) \X S : RepairStep(x[2], ms[x[1]]) \in S
    BY <1>1, <1>3
  <2> QED
    BY <2>1
<1>5. PICK f \in [0 .. N -> S] : RunOf(f, a, N, F)
  <2> HIDE DEF F, S, N, a
  <2> QED
    BY <1>1, <1>2, <1>4, Recursion
<1> HIDE DEF S, a
<1>6. ASSUME NEW i \in 1 .. N PROVE f[i] = RepairStep(f[i - 1], ms[i])
  <2>1. i - 1 \in 0 .. N
    BY <1>1
  <2>2. <<i, f[i - 1]>> \in (1 .. N) \X S
    BY <1>5, <2>1
  <2>3. f[i] = F[<<i, f[i - 1]>>]
    BY <1>5 DEF RunOf
  <2> QED
    BY <2>2, <2>3
<1>7. Is(f)
  <2> DEFINE g == [n \in 0 .. N |-> IF n = 0 THEN a ELSE RepairStep(f[n - 1], ms[n])]
  <2>1. \A n \in 0 .. N : f[n] = g[n]
    <3> TAKE n \in 0 .. N
    <3>1. n = 0 \/ n \in 1 .. N
      BY <1>1
    <3>2. f[0] = a
      BY <1>5 DEF RunOf
    <3> QED
      BY <1>6, <3>1, <3>2
  <2> QED
    BY <1>5, <2>1
<1> DEFINE r == Repairs(ms)
<1>8. Is(r)
  <2>1. r = CHOOSE g : Is(g)
    BY DEF Repairs, a
  <2> HIDE DEF Is, r
  <2> QED
    BY <1>7, <2>1
<1> HIDE DEF r
<1>9. r[0] = a /\ \A i \in 1 .. N : r[i] = RepairStep(r[i - 1], ms[i])
  <2>1. \A n \in 0 .. N : r[n] = IF n = 0 THEN a ELSE RepairStep(r[n - 1], ms[n])
    BY <1>8
  <2>2. 0 \in 0 .. N /\ \A i \in 1 .. N : i \in 0 .. N /\ i # 0
    BY <1>1
  <2> HIDE DEF N
  <2> QED
    BY <2>1, <2>2
<1> DEFINE G == {n \in Nat : n <= N => r[n] \in S}
<1>10. ASSUME NEW n \in Nat, n \in G PROVE n + 1 \in G
  <2> SUFFICES ASSUME n + 1 <= N PROVE r[n + 1] \in S
    OBVIOUS
  <2>1. n <= N /\ n + 1 \in 1 .. N /\ (n + 1) - 1 = n
    BY <1>1
  <2>2. r[n + 1] = RepairStep(r[n], ms[n + 1]) /\ r[n] \in S /\ ms[n + 1] \in Message(I)
    BY <1>1, <1>9, <1>10, <2>1
  <2> QED
    BY <1>3, <2>2
<1>11. 0 \in G
  BY <1>2, <1>9
<1>12. \A n \in Nat : n \in G
  <2> HIDE DEF G
  <2>1. \A n \in Nat : n \in G => n + 1 \in G
    BY <1>10
  <2> QED
    BY <1>11, <2>1, Induction
<1>13. \A i \in 0 .. N : r[i] \in S
  BY <1>1, <1>12
<1> QED
  BY <1>9, <1>13 DEF r, S, a

\* The calls that message i answers, or makes.
CallsAt(ms, i, j) == j \in 1 .. i /\ IsCalling(ms[j]) /\ \A k \in j + 1 .. i : ms[k].role = "tool"

\* Each result answers the last calls before it, but for those of a history of
\* which the calls were cut off.
Answering(ms) == \A i \in DOMAIN ms : ms[i].role = "tool" =>
    \/ \A k \in 1 .. i : ms[k].role = "tool"
    \/ \E j \in DOMAIN ms : Follows(ms, i, j) /\ ms[i].id \in ToSet(ms[j].calls)

\* What is open is what was called last.
OpenIs(ms, i, s) ==
    /\ \A j \in 1 .. i : CallsAt(ms, i, j) => s.in # "none" /\ ToSet(ms[j].calls) \subseteq ToSet(s.open)
    /\ s.in # "none" => \E j \in 1 .. i : CallsAt(ms, i, j)

LEMMA CallsAtNext ==
  ASSUME NEW ms, NEW i \in Nat
  PROVE  /\ IsCalling(ms[i + 1]) => CallsAt(ms, i + 1, i + 1)
         /\ ms[i + 1].role = "tool" => \A j \in 1 .. i : CallsAt(ms, i, j) => CallsAt(ms, i + 1, j)
         /\ \A j \in 1 .. i + 1 : CallsAt(ms, i + 1, j) =>
                \/ j = i + 1 /\ IsCalling(ms[i + 1])
                \/ j \in 1 .. i /\ CallsAt(ms, i, j) /\ ms[i + 1].role = "tool"
<1>1. ASSUME IsCalling(ms[i + 1]) PROVE CallsAt(ms, i + 1, i + 1)
  <2>1. \A k \in i + 1 + 1 .. i + 1 : FALSE
    OBVIOUS
  <2>2. i + 1 \in 1 .. i + 1
    OBVIOUS
  <2> QED
    BY <1>1, <2>1, <2>2 DEF CallsAt
<1>2. ASSUME ms[i + 1].role = "tool", NEW j \in 1 .. i, CallsAt(ms, i, j) PROVE CallsAt(ms, i + 1, j)
  <2>1. j \in 1 .. i + 1 /\ \A k \in j + 1 .. i + 1 : k = i + 1 \/ k \in j + 1 .. i
    OBVIOUS
  <2> QED
    BY <1>2, <2>1 DEF CallsAt
<1>3. ASSUME NEW j \in 1 .. i + 1, CallsAt(ms, i + 1, j), j # i + 1
      PROVE  j \in 1 .. i /\ CallsAt(ms, i, j) /\ ms[i + 1].role = "tool"
  <2>1. j \in 1 .. i /\ i + 1 \in j + 1 .. i + 1 /\ \A k \in j + 1 .. i : k \in j + 1 .. i + 1
    BY <1>3
  <2> QED
    BY <1>3, <2>1 DEF CallsAt
<1>4. CallsAt(ms, i + 1, i + 1) => IsCalling(ms[i + 1])
  BY DEF CallsAt
<1> QED
  BY <1>1, <1>2, <1>3, <1>4

LEMMA Shifted ==
  ASSUME NEW p \in Nat, NEW q \in Nat, NEW k \in 1 .. q
  PROVE  p + k \in 1 .. p + q /\ ~(p + k <= p) /\ (p + k) - p = k
OBVIOUS

LEMMA OpenStep ==
  ASSUME NEW I, NoId \in I, NEW ms \in Seq(Message(I)), Answering(ms),
         NEW i \in Nat, i + 1 <= Len(ms), NEW s \in State(I), OpenIs(ms, i, s), EveryResultWanted(s.out)
  PROVE  /\ OpenIs(ms, i + 1, RepairStep(s, ms[i + 1]))
         /\ EveryResultWanted(RepairStep(s, ms[i + 1]).out)
<1> DEFINE m == ms[i + 1]
           r == RepairStep(s, m)
<1>1. i + 1 \in DOMAIN ms /\ DOMAIN ms = 1 .. Len(ms) /\ Len(ms) \in Nat
  BY LenProperties
<1>2. m \in Message(I)
  BY <1>1, Listed
<1>a. m.calls \in Seq(I) /\ s.open \in Seq(I)
  BY <1>2 DEF Message, State
<1>n. i + 1 \in Nat /\ i + 1 \in 1 .. i + 1
  OBVIOUS
<1>3. /\ IsCalling(m) => CallsAt(ms, i + 1, i + 1)
      /\ m.role = "tool" => \A j \in 1 .. i : CallsAt(ms, i, j) => CallsAt(ms, i + 1, j)
      /\ \A j \in 1 .. i + 1 : CallsAt(ms, i + 1, j) =>
                \/ j = i + 1 /\ IsCalling(m)
                \/ j \in 1 .. i /\ CallsAt(ms, i, j) /\ m.role = "tool"
  BY CallsAtNext
<1>4. ASSUME IsCalling(m), ToSet(m.calls) \subseteq ToSet(r.open), r.in = "calls"
      PROVE  OpenIs(ms, i + 1, r)
  <2>1. m.role # "tool"
    BY <1>4 DEF IsCalling
  <2> HIDE DEF r
  <2> QED
    BY <1>3, <1>4, <1>n, <2>1 DEF OpenIs
<1>5. CASE IsCalling(m) /\ s.in = "calls"
  <2>1. /\ r.open = s.open \o m.calls /\ r.in = "calls"
        /\ EveryResultWanted(r.out)
    BY <1>2, <1>5, MergeStep
  <2>2. ToSet(m.calls) \subseteq ToSet(s.open \o m.calls)
    <3> SUFFICES ASSUME NEW c \in ToSet(m.calls) PROVE c \in ToSet(s.open \o m.calls)
      OBVIOUS
    <3>1. PICK k \in 1 .. Len(m.calls) : m.calls[k] = c
      BY <1>a, Listed
    <3>2. PICK p \in Nat, q \in Nat : p = Len(s.open) /\ q = Len(m.calls)
      BY <1>a, LenProperties
    <3>3. /\ s.open \o m.calls \in Seq(I) /\ Len(s.open \o m.calls) = p + q
          /\ \A i1 \in 1 .. p + q : (s.open \o m.calls)[i1] =
                 IF i1 <= p THEN s.open[i1] ELSE m.calls[i1 - p]
      BY <1>a, <3>2, ConcatProperties
    <3>4. k \in 1 .. q
      BY <3>2
    <3>5. p + k \in 1 .. p + q /\ ~(p + k <= p) /\ (p + k) - p = k
      BY <3>4, Shifted
    <3>6. (s.open \o m.calls)[p + k] = m.calls[k]
      BY <3>3, <3>5
    <3>7. DOMAIN (s.open \o m.calls) = 1 .. p + q
      BY <3>3, LenProperties
    <3> QED
      BY <3>1, <3>5, <3>6, <3>7 DEF ToSet
  <2> QED
    BY <1>4, <1>5, <2>1, <2>2
<1>6. CASE IsCalling(m) /\ s.in # "calls"
  <2>1. r.open = m.calls /\ r.in = "calls" /\ EveryResultWanted(r.out)
    BY <1>2, <1>6, CallStep
  <2> QED
    BY <1>4, <1>6, <2>1
<1>7. CASE m.role = "tool" /\ s.in # "none"
  <2>1. PICK j \in 1 .. i : CallsAt(ms, i, j)
    BY <1>7 DEF OpenIs
  <2>2. ~IsCalling(m)
    BY <1>7 DEF IsCalling
  <2>3. m.id \in ToSet(s.open)
    <3>1. ~\A k \in 1 .. i + 1 : ms[k].role = "tool"
      <4>1. j \in 1 .. i + 1 /\ ms[j].role = "assistant"
        BY <2>1 DEF CallsAt, IsCalling
      <4> QED
        BY <4>1
    <3>2. PICK l \in DOMAIN ms : Follows(ms, i + 1, l) /\ m.id \in ToSet(ms[l].calls)
      BY <1>1, <1>7, <3>1 DEF Answering
    <3>3. l \in 1 .. i /\ \A k \in l + 1 .. i : k \in l + 1 .. i + 1
      BY <1>1, <3>2 DEF Follows
    <3>4. CallsAt(ms, i, l)
      BY <3>2, <3>3 DEF CallsAt, Follows
    <3> QED
      BY <3>2, <3>3, <3>4 DEF OpenIs
  <2>4. r.open = s.open /\ r.in = "results" /\ EveryResultWanted(r.out)
    BY <1>2, <1>7, <2>3, ResultStep
  <2> HIDE DEF r
  <2>5. j \in 1 .. i + 1 /\ CallsAt(ms, i + 1, j)
    BY <1>3, <1>7, <2>1
  <2> QED
    BY <1>3, <2>2, <2>4, <2>5 DEF OpenIs, r
<1>8. CASE ~IsCalling(m) /\ (m.role = "tool" => s.in = "none")
  <2>1. r.in = "none" /\ EveryResultWanted(r.out)
    BY <1>2, <1>8, OtherStep
  <2>2. \A j \in 1 .. i + 1 : ~CallsAt(ms, i + 1, j)
    BY <1>3, <1>8 DEF OpenIs
  <2> HIDE DEF r
  <2> QED
    BY <2>1, <2>2 DEF OpenIs, r
<1> QED
  BY <1>5, <1>6, <1>7, <1>8

\* enforce_tool_message_sequence: whatever messages it gets, it returns a list
\* with every call answered and every result after its calls; and if each result
\* of the messages answers the last calls, or follows none, no result is left
\* that nobody wanted.
THEOREM RepairIsAccepted ==
  ASSUME NEW I, NoId \in I, NEW ms \in Seq(Message(I))
  PROVE  /\ EveryCallAnswered(Repaired(ms)) /\ EveryResultFollows(Repaired(ms))
         /\ Answering(ms) => EveryResultWanted(Repaired(ms))
<1> DEFINE r == Repairs(ms)
           N == Len(ms)
<1>1. /\ r[0] = Closed(<<>>)
      /\ \A i \in 0 .. N : r[i] \in State(I)
      /\ \A i \in 1 .. N : r[i] = RepairStep(r[i - 1], ms[i])
  BY RepairsRun
<1>2. Repaired(ms) = Flushed(r[N])
  BY DEF Repaired
<1>3. N \in Nat
  BY LenProperties
<1> HIDE DEF r, N
<1>4. r[N] \in State(I)
  BY <1>1, <1>3
<1>5. Settled(Repaired(ms)) /\ (EveryResultWanted(r[N].out) => EveryResultWanted(Repaired(ms)))
  BY <1>2, <1>4, FlushedIsSettled
<1>6. ASSUME Answering(ms) PROVE EveryResultWanted(r[N].out)
  <2> DEFINE G == {n \in Nat : n <= N => OpenIs(ms, n, r[n]) /\ EveryResultWanted(r[n].out)}
  <2>1. 0 \in G
    <3>1. r[0].in = "none" /\ r[0].out = <<>>
      BY <1>1 DEF Closed
    <3>2. \A j \in 1 .. 0 : FALSE
      OBVIOUS
    <3>3. OpenIs(ms, 0, r[0])
      BY <3>1, <3>2 DEF OpenIs
    <3>4. EveryResultWanted(r[0].out)
      BY <3>1 DEF EveryResultWanted
    <3> QED
      BY <3>3, <3>4
  <2>2. ASSUME NEW n \in Nat, n \in G PROVE n + 1 \in G
    <3> SUFFICES ASSUME n + 1 <= N PROVE OpenIs(ms, n + 1, r[n + 1]) /\ EveryResultWanted(r[n + 1].out)
      OBVIOUS
    <3>1. n <= N /\ n \in 0 .. N /\ n + 1 \in 1 .. N /\ (n + 1) - 1 = n
      BY <1>3
    <3>2. r[n + 1] = RepairStep(r[n], ms[n + 1]) /\ r[n] \in State(I)
      BY <1>1, <3>1
    <3>3. OpenIs(ms, n, r[n]) /\ EveryResultWanted(r[n].out) /\ n + 1 <= Len(ms)
      BY <2>2, <3>1 DEF N
    <3> QED
      BY <1>6, <3>2, <3>3, OpenStep
  <2>3. N \in G
    <3> HIDE DEF G
    <3>1. \A n \in Nat : n \in G => n + 1 \in G
      BY <2>2
    <3> QED
      BY <1>3, <2>1, <3>1, Induction
  <2> QED
    BY <1>3, <2>3
<1> QED
  BY <1>5, <1>6 DEF Settled

-----------------------------------------------------------------------------
(* The messages of turns.                                                  *)

Ids == {NoId} \cup (Actors \X Nat \X Nat)
Call == [id : Ids, kind : Kinds]
ToolSteps == {"tool", "approval", "command", "save", "write"}

\* The rounds of a turn, its calls and its messages.
TurnInv ==
    /\ rounds \in [Actors -> 0 .. MaxRounds]
    /\ todo \in [Actors -> Seq(Call)]
    /\ work \in [Actors -> Seq(Message(Ids))]
    /\ \A a \in Actors :
          /\ todo[a] # <<>> <=> pc[a] \in ToolSteps
          /\ pc[a] = "ask" => rounds[a] < MaxRounds
          /\ pc[a] \notin TurnSteps => rounds[a] = 0

WorkspaceInv ==
    /\ base \in [Actors -> SUBSET written]
    /\ UNION {raced, brought, file} \subseteq written

KernelInv ==
    /\ {router, loop} \subseteq {Real, None} \cup Demos
    /\ {enabled, overlap} \subseteq BOOLEAN
    /\ kept \in [Demos -> [router : {Real, None} \cup Demos, enabled : BOOLEAN]]

HistoryInv ==
    /\ history \in [Threads -> Seq(Message(Ids))]
    /\ spoken \in [Threads -> SUBSET {"responses", "chat"}]
    /\ \A t \in Threads : Len(history[t]) <= MaxHistory

\* One call at most in a message, and each result right after its call, but
\* for one whose call was cut off the history.
Plain(ms) == \A i \in DOMAIN ms :
    /\ Len(ms[i].calls) <= 1
    /\ ms[i].role = "tool" => i = 1 \/ ms[i - 1].calls = <<ms[i].id>>

\* The one call of the last message is executed.
PlainCall(ms, cs) ==
    /\ Plain(ms) /\ ms # <<>> /\ Len(cs) = 1
    /\ ms[Len(ms)].calls = <<Head(cs).id>>

\* Messages of chat turns, after no turn but chat turns.
PlainWork(h) == WireOf[h] = "chat" /\ "responses" \notin spoken[ThreadOf[h]] =>
    /\ pc[h] \in {"ask", "finish"} => Plain(work[h])
    /\ pc[h] \in ToolSteps => PlainCall(work[h], todo[h])

PlainInv ==
    /\ \A t \in Threads : "responses" \notin spoken[t] => Plain(history[t])
    /\ \A h \in Handlers : PlainWork(h)

LockInv == lock \in Handlers \cup {None}


LEMMA SerialOf ==
  ASSUME NEW I, NEW ids \in Seq(I)
  PROVE  /\ SerialCalls(ids) \in Seq(I) /\ Len(SerialCalls(ids)) <= 1
         /\ DOMAIN SerialCalls(ids) \subseteq DOMAIN ids
         /\ Len(ids) <= 1 => SerialCalls(ids) = ids
<1>1. CASE ids = <<>>
  BY <1>1, EmptySeq DEF SerialCalls
<1>2. CASE ids # <<>>
  <2>1. SerialCalls(ids) = <<Head(ids)>> /\ Head(ids) \in I /\ Head(ids) = ids[1]
    BY <1>2, HeadTailProperties DEF SerialCalls
  <2>2. Len(ids) \in Nat \ {0} /\ DOMAIN ids = 1 .. Len(ids) /\ ids \in [1 .. Len(ids) -> I]
    BY <1>2, EmptySeq, LenProperties
  <2>3. Len(ids) <= 1 => <<Head(ids)>> = ids
    <3> SUFFICES ASSUME Len(ids) <= 1 PROVE <<Head(ids)>> = ids
      OBVIOUS
    <3>1. Len(ids) = 1
      BY <2>2
    <3> QED
      BY <2>1, <2>2, <3>1
  <2> QED
    BY <2>1, <2>2, <2>3
<1> QED
  BY <1>1, <1>2

\* Chat transports leave plain messages as they are.
LEMMA PlainConverted ==
  ASSUME NEW I, NEW ms \in Seq(Message(I)), Plain(ms)
  PROVE  Converted(ms) = ms
<1>1. DOMAIN ms = 1 .. Len(ms) /\ ms \in [1 .. Len(ms) -> Message(I)]
  BY LenProperties
<1>2. ASSUME NEW i \in DOMAIN ms PROVE [ms[i] EXCEPT !.calls = SerialCalls(@)] = ms[i]
  <2>1. ms[i] \in Message(I) /\ ms[i].calls \in Seq(I) /\ Len(ms[i].calls) <= 1
    BY <1>1 DEF Plain, Message
  <2>2. SerialCalls(ms[i].calls) = ms[i].calls
    BY <2>1, SerialOf
  <2> QED
    BY <2>1, <2>2 DEF Message
<1> QED
  BY <1>1, <1>2 DEF Converted

LEMMA PlainAnswering ==
  ASSUME NEW I, NEW ms \in Seq(Message(I)), Plain(ms)
  PROVE  Answering(ms)
<1>1. DOMAIN ms = 1 .. Len(ms) /\ Len(ms) \in Nat
  BY LenProperties
<1> SUFFICES ASSUME NEW i \in 1 .. Len(ms), ms[i].role = "tool", i # 1
             PROVE  \E j \in DOMAIN ms : Follows(ms, i, j) /\ ms[i].id \in ToSet(ms[j].calls)
  <2>1. \A k \in 1 .. 1 : k = 1
    OBVIOUS
  <2> QED
    BY <1>1, <2>1 DEF Answering
<1>2. i - 1 \in 1 .. Len(ms) /\ i - 1 < i /\ \A k \in (i - 1) + 1 .. i : k = i
  BY <1>1
<1>3. ms[i - 1].calls = <<ms[i].id>>
  BY <1>1 DEF Plain
<1>4. ms[i - 1] \in Message(I)
  BY <1>2, ElementOfSeq
<1>5. IsCalling(ms[i - 1])
  <2>1. <<ms[i].id>> # <<>>
    OBVIOUS
  <2> QED
    BY <1>3, <1>4, <2>1 DEF Message, IsCalling
<1>6. Follows(ms, i, i - 1)
  BY <1>2, <1>5 DEF Follows
<1>7. ms[i].id \in ToSet(ms[i - 1].calls)
  BY <1>3 DEF ToSet
<1> QED
  BY <1>1, <1>2, <1>6, <1>7

LEMMA PlainAppend ==
  ASSUME NEW I, NEW ms \in Seq(Message(I)), Plain(ms), NEW m \in Message(I), Len(m.calls) <= 1,
         m.role = "tool" => ms # <<>> /\ ms[Len(ms)].calls = <<m.id>>
  PROVE  Plain(Append(ms, m))
<1> DEFINE u == Append(ms, m)
           n == Len(ms)
<1>1. /\ n \in Nat /\ DOMAIN ms = 1 .. n /\ DOMAIN u = 1 .. n + 1
      /\ (\A i \in 1 .. n : u[i] = ms[i]) /\ u[n + 1] = m
      /\ ms # <<>> => n # 0
  <2>1. /\ u \in Seq(Message(I)) /\ Len(u) = n + 1 /\ (\A i \in 1 .. n : u[i] = ms[i]) /\ u[n + 1] = m
    BY AppendProperties
  <2>2. n \in Nat /\ DOMAIN ms = 1 .. n /\ DOMAIN u = 1 .. Len(u) /\ (ms # <<>> => n # 0)
    BY <2>1, LenProperties, EmptySeq
  <2> QED
    BY <2>1, <2>2
<1>2. m.role = "tool" => n # 0 /\ ms[n].calls = <<m.id>>
  BY <1>1
<1> HIDE DEF u, n
<1> SUFFICES ASSUME NEW i \in 1 .. n + 1
             PROVE  /\ Len(u[i].calls) <= 1
                    /\ u[i].role = "tool" => i = 1 \/ u[i - 1].calls = <<u[i].id>>
  BY <1>1 DEF Plain, u
<1>3. CASE i \in 1 .. n
  <2>1. i = 1 \/ i - 1 \in 1 .. n
    BY <1>1, <1>3
  <2> QED
    BY <1>1, <1>3, <2>1 DEF Plain
<1>4. CASE i = n + 1
  <2>1. i - 1 = n /\ (n # 0 => n \in 1 .. n)
    BY <1>1, <1>4
  <2>2. m.role = "tool" => u[i - 1].calls = <<u[i].id>>
    BY <1>1, <1>2, <1>4, <2>1
  <2> QED
    BY <1>1, <1>4, <2>2
<1> QED
  BY <1>1, <1>3, <1>4

LEMMA MaxOfTwo ==
  ASSUME NEW x \in Int, NEW y \in Int
  PROVE  Max({x, y}) \in {x, y} /\ Max({x, y}) >= x /\ Max({x, y}) >= y
<1>1. \E z \in {x, y} : \A w \in {x, y} : z >= w
  <2>1. x >= y \/ y >= x
    OBVIOUS
  <2>2. x >= x /\ y >= y
    OBVIOUS
  <2> QED
    BY <2>1, <2>2
<1> DEFINE z == Max({x, y})
<1>2. z \in {x, y} /\ \A w \in {x, y} : z >= w
  BY <1>1 DEF Max
<1> QED
  BY <1>2

\* native_history[-120:] cuts messages off the front.
LEMMA KeptIsPlain ==
  ASSUME NEW I, NEW ms \in Seq(Message(I)), ms # <<>>
  PROVE  /\ KeptHistory(ms) \in Seq(Message(I)) /\ Len(KeptHistory(ms)) <= MaxHistory
         /\ Plain(ms) => Plain(KeptHistory(ms))
<1> DEFINE n == Len(ms)
           f == Max({1, n - MaxHistory + 1})
           u == KeptHistory(ms)
<1>1. n \in Nat /\ n # 0 /\ DOMAIN ms = 1 .. n /\ \A i \in 1 .. n : ms[i] \in Message(I)
  BY LenProperties, EmptySeq, ElementOfSeq
<1>2. MaxHistory \in Nat /\ MaxHistory # 0
  BY NativeAssumption
<1>3. f \in {1, n - MaxHistory + 1} /\ f >= 1 /\ f >= n - MaxHistory + 1
  <2>1. 1 \in Int /\ n - MaxHistory + 1 \in Int
    BY <1>1, <1>2
  <2> HIDE DEF n
  <2> QED
    BY <2>1, MaxOfTwo
<1>u. u = SubSeq(ms, f, n)
  BY DEF KeptHistory
<1> HIDE DEF n, f, u
<1>4. f \in Nat /\ 1 <= f /\ f <= n /\ n - f + 1 <= MaxHistory /\ n - f + 1 \in Nat
  BY <1>1, <1>2, <1>3
<1>5. /\ u \in Seq(Message(I)) /\ Len(u) = n - f + 1
      /\ \A i \in 1 .. n - f + 1 : u[i] = ms[f + i - 1]
  <2>1. f \in Int /\ n \in Int /\ \A i \in f .. n : ms[i] \in Message(I)
    BY <1>1, <1>4
  <2> QED
    BY <1>4, <1>u, <2>1, SubSeqProperties
<1>6. DOMAIN u = 1 .. n - f + 1
  BY <1>5, LenProperties
<1>7. ASSUME Plain(ms), NEW i \in 1 .. n - f + 1
      PROVE  /\ Len(u[i].calls) <= 1
             /\ u[i].role = "tool" => i = 1 \/ u[i - 1].calls = <<u[i].id>>
  <2>1. f + i - 1 \in 1 .. n /\ (i # 1 => i - 1 \in 1 .. n - f + 1 /\ f + (i - 1) - 1 = (f + i - 1) - 1 /\ f + i - 1 # 1)
    BY <1>1, <1>4
  <2>2. i # 1 => u[i - 1] = ms[(f + i - 1) - 1]
    BY <1>5, <2>1
  <2> QED
    BY <1>1, <1>5, <1>7, <2>1, <2>2 DEF Plain
<1>8. Plain(ms) => Plain(u)
  BY <1>6, <1>7 DEF Plain
<1> QED
  BY <1>4, <1>5, <1>8 DEF u

-----------------------------------------------------------------------------
(* The steps of turns, and the messages.                                   *)

LEMMA CallsOf ==
  ASSUME NEW h \in Handlers, rounds[h] \in Nat, NEW kinds \in Seq(Kinds)
  PROVE  /\ Calls(h, kinds) \in Seq(Ids) /\ DOMAIN Calls(h, kinds) \subseteq DOMAIN kinds
         /\ WireOf[h] = "chat" => Len(Calls(h, kinds)) <= 1
<1> DEFINE ids == [i \in DOMAIN kinds |-> <<h, rounds[h], i>>]
<1>1. ids \in Seq(Ids) /\ DOMAIN ids = DOMAIN kinds
  <2>1. DOMAIN kinds = 1 .. Len(kinds) /\ Len(kinds) \in Nat
    BY LenProperties
  <2>2. \A i \in 1 .. Len(kinds) : <<h, rounds[h], i>> \in Ids
    BY DEF Ids, Actors
  <2>3. ids \in [1 .. Len(kinds) -> Ids]
    BY <2>1, <2>2
  <2> QED
    BY <2>1, <2>3, SeqDef
<1>2. Calls(h, kinds) = IF WireOf[h] = "chat" THEN SerialCalls(ids) ELSE ids
  BY DEF Calls
<1> HIDE DEF ids
<1> QED
  BY <1>1, <1>2, SerialOf

\* The calls of a response and the message that makes them.
LEMMA AskedCalls ==
  ASSUME NEW h \in Handlers, rounds[h] \in Nat, NEW kinds \in Seq(Kinds),
         NEW ids, ids = Calls(h, kinds)
  PROVE  /\ ids \in Seq(Ids)
         /\ [i \in DOMAIN ids |-> [id |-> ids[i], kind |-> kinds[i]]] \in Seq(Call)
         /\ Len([i \in DOMAIN ids |-> [id |-> ids[i], kind |-> kinds[i]]]) = Len(ids)
<1> DEFINE cs == [i \in DOMAIN ids |-> [id |-> ids[i], kind |-> kinds[i]]]
<1>1. ids \in Seq(Ids) /\ DOMAIN ids \subseteq DOMAIN kinds
  BY CallsOf
<1>2. DOMAIN ids = 1 .. Len(ids) /\ Len(ids) \in Nat /\ \A i \in 1 .. Len(ids) : ids[i] \in Ids
  BY <1>1, LenProperties, ElementOfSeq
<1>3. DOMAIN kinds = 1 .. Len(kinds) /\ \A i \in 1 .. Len(kinds) : kinds[i] \in Kinds
  BY LenProperties, ElementOfSeq
<1>4. cs \in [1 .. Len(ids) -> Call]
  BY <1>1, <1>2, <1>3 DEF Call
<1> HIDE DEF cs
<1>5. cs \in Seq(Call)
  BY <1>2, <1>4, SeqDef
<1>6. DOMAIN cs = 1 .. Len(cs) /\ Len(cs) \in Nat /\ DOMAIN cs = 1 .. Len(ids)
  BY <1>4, <1>5, LenProperties
<1>7. Len(cs) = Len(ids)
  <2> DEFINE p == Len(cs)
             q == Len(ids)
  <2>1. p \in Nat /\ q \in Nat /\ 1 .. p = 1 .. q
    BY <1>2, <1>6
  <2> HIDE DEF p, q
  <2>2. p = q
    BY <2>1
  <2> QED
    BY <2>2 DEF p, q
<1> QED
  BY <1>1, <1>5, <1>7 DEF cs

LEMMA SaidMessage ==
  /\ Said("user") \in Message(Ids) /\ Said("assistant") \in Message(Ids)
  /\ Said("user").calls = <<>> /\ Said("assistant").calls = <<>>
  /\ Said("user").role = "user" /\ Said("assistant").role = "assistant"
<1>1. <<>> \in Seq(Ids) /\ NoId \in Ids
  BY EmptySeq DEF Ids
<1> QED
  BY <1>1 DEF Said, Message

LEMMA CallingMessage ==
  ASSUME NEW ids \in Seq(Ids)
  PROVE  Calling(ids) \in Message(Ids) /\ Calling(ids).calls = ids /\ Calling(ids).role = "assistant"
BY DEF Calling, Said, Message, Ids

LEMMA EndTurn ==
  ASSUME Shape, Shape', TurnInv, NEW a \in Actors, NEW step \in {"done", "failed"}, End(a, step)
  PROVE  TurnInv'
<1>1. <<>> \in Seq(Call) /\ <<>> \in Seq(Message(Ids))
  BY EmptySeq
<1>2. 0 \in 0 .. MaxRounds
  BY NativeAssumption
<1>3. pc' = [pc EXCEPT ![a] = IF a \in Demos THEN "restore" ELSE step]
  BY DEF End, Goto
<1>4. pc'[a] \notin ToolSteps /\ pc'[a] # "ask"
  BY <1>3 DEF ToolSteps, Shape
<1> QED
  BY <1>1, <1>2, <1>3, <1>4 DEF TurnInv, End, Shape

\* The result of the call that is executed.
LEMMA HeadResult ==
  ASSUME TurnInv, NEW a \in Actors, pc[a] \in ToolSteps
  PROVE  /\ todo[a] \in Seq(Call) /\ todo[a] # <<>> /\ Head(todo[a]) \in Call /\ Tail(todo[a]) \in Seq(Call)
         /\ Head(todo[a]).id \in Ids
         /\ Result(Head(todo[a]).id) \in Message(Ids)
         /\ work[a] \in Seq(Message(Ids))
<1>1. todo[a] \in Seq(Call) /\ todo[a] # <<>> /\ work[a] \in Seq(Message(Ids))
  BY DEF TurnInv
<1>2. Head(todo[a]) \in Call /\ Tail(todo[a]) \in Seq(Call)
  BY <1>1, HeadTailProperties
<1>3. Head(todo[a]).id \in Ids /\ NoId \in Ids
  BY <1>2 DEF Call, Ids
<1> QED
  BY <1>1, <1>2, <1>3, ResultMessage

LEMMA AnsweredTurn ==
  ASSUME Shape, Shape', TurnInv, NEW a \in Actors, pc[a] \in ToolSteps, Answered(a)
  PROVE  TurnInv'
<1>1. CASE a \in Requests
  BY <1>1, EndTurn DEF Answered
<1>2. CASE a \notin Requests
  <2>1. /\ todo' = [todo EXCEPT ![a] = Tail(@)]
        /\ work' = [work EXCEPT ![a] = Append(@, Result(Head(todo[a]).id))]
        /\ pc' = [pc EXCEPT ![a] = IF Tail(todo[a]) # <<>> THEN "tool"
                                   ELSE IF rounds[a] = MaxRounds THEN "finish" ELSE "ask"]
        /\ rounds' = rounds
    BY <1>2 DEF Answered, Goto
  <2>2. Append(work[a], Result(Head(todo[a]).id)) \in Seq(Message(Ids)) /\ Tail(todo[a]) \in Seq(Call)
    BY HeadResult, AppendProperties
  <2>3. /\ pc'[a] = IF Tail(todo[a]) # <<>> THEN "tool"
                    ELSE IF rounds[a] = MaxRounds THEN "finish" ELSE "ask"
        /\ todo'[a] = Tail(todo[a])
        /\ \A b \in Actors \ {a} : pc'[b] = pc[b] /\ todo'[b] = todo[b]
    BY <2>1 DEF Shape, TurnInv
  <2>4. rounds[a] \in 0 .. MaxRounds /\ MaxRounds \in Nat
    BY NativeAssumption DEF TurnInv
  <2>5. /\ todo'[a] # <<>> <=> pc'[a] \in ToolSteps
        /\ pc'[a] = "ask" => rounds[a] < MaxRounds
        /\ pc'[a] \in TurnSteps
    BY <2>3, <2>4 DEF ToolSteps, TurnSteps
  <2>6. /\ todo' \in [Actors -> Seq(Call)] /\ work' \in [Actors -> Seq(Message(Ids))]
    BY <2>1, <2>2 DEF TurnInv
  <2> QED
    BY <2>1, <2>3, <2>5, <2>6 DEF TurnInv
<1> QED
  BY <1>1, <1>2

\* An actor goes from a step of a tool to another one.
LEMMA GoneTurn ==
  ASSUME Shape, TurnInv, NEW a \in Actors, pc[a] \in ToolSteps, NEW step \in ToolSteps,
         Goto(a, step), UNCHANGED turn
  PROVE  TurnInv'
<1>1. pc' = [pc EXCEPT ![a] = step] /\ UNCHANGED <<rounds, todo, work>>
  BY DEF Goto, turn
<1>2. ToolSteps \subseteq TurnSteps /\ "ask" \notin ToolSteps
  BY DEF ToolSteps, TurnSteps
<1> QED
  BY <1>1, <1>2 DEF TurnInv, Shape

\* The router's steps of a demo.
LEMMA DemoTurn ==
  ASSUME Shape, TurnInv, NEW a \in Actors, pc[a] \notin TurnSteps, NEW step \in Steps,
         step \notin TurnSteps, Goto(a, step), UNCHANGED turn
  PROVE  TurnInv'
<1>1. pc' = [pc EXCEPT ![a] = step] /\ UNCHANGED <<rounds, todo, work>>
  BY DEF Goto, turn
<1>2. ToolSteps \subseteq TurnSteps /\ "ask" \in TurnSteps
  BY DEF ToolSteps, TurnSteps
<1> QED
  BY <1>1, <1>2 DEF TurnInv, Shape

LEMMA AskTurn ==
  ASSUME Shape, Shape', TurnInv, NEW a \in Handlers, NEW kinds \in Responses, Ask(a, kinds)
  PROVE  TurnInv'
<1> DEFINE ids == Calls(a, kinds)
           cs == [i \in DOMAIN ids |-> [id |-> ids[i], kind |-> kinds[i]]]
<1>1. a \in Actors /\ kinds \in Seq(Kinds) /\ MaxRounds \in Nat
  BY NativeAssumption DEF Actors
<1>2. pc[a] = "ask" /\ rounds[a] \in 0 .. MaxRounds /\ rounds[a] < MaxRounds
  BY <1>1 DEF Ask, At, TurnInv
<1>3. rounds[a] \in Nat /\ rounds[a] + 1 \in 0 .. MaxRounds
  BY <1>1, <1>2
<1>4. ids \in Seq(Ids) /\ cs \in Seq(Call) /\ Len(cs) = Len(ids)
  BY <1>1, <1>3, AskedCalls
<1>5. /\ rounds' = [rounds EXCEPT ![a] = @ + 1]
      /\ todo' = [todo EXCEPT ![a] = cs]
      /\ work' = [work EXCEPT ![a] = IF ids = <<>> THEN @ ELSE Append(@, Calling(ids))]
      /\ pc' = [pc EXCEPT ![a] = IF ids = <<>> THEN "finish" ELSE "tool"]
  BY DEF Ask, Goto
<1> HIDE DEF ids, cs
<1>6. ids = <<>> <=> cs = <<>>
  BY <1>4, EmptySeq
<1>7. (IF ids = <<>> THEN work[a] ELSE Append(work[a], Calling(ids))) \in Seq(Message(Ids))
  BY <1>1, <1>4, CallingMessage, AppendProperties DEF TurnInv
<1>8. /\ todo'[a] = cs /\ pc'[a] = IF ids = <<>> THEN "finish" ELSE "tool"
      /\ \A b \in Actors \ {a} : pc'[b] = pc[b] /\ todo'[b] = todo[b] /\ rounds'[b] = rounds[b]
  BY <1>1, <1>5 DEF Shape, TurnInv
<1>9. /\ todo'[a] # <<>> <=> pc'[a] \in ToolSteps
      /\ pc'[a] # "ask" /\ pc'[a] \in TurnSteps
  BY <1>6, <1>8 DEF ToolSteps, TurnSteps
<1>10. /\ rounds' \in [Actors -> 0 .. MaxRounds] /\ todo' \in [Actors -> Seq(Call)]
       /\ work' \in [Actors -> Seq(Message(Ids))]
  BY <1>1, <1>3, <1>4, <1>5, <1>7 DEF TurnInv
<1> QED
  BY <1>8, <1>9, <1>10 DEF TurnInv

LEMMA BeginTurn ==
  ASSUME Shape, Shape', TurnInv, HistoryInv, NEW a \in Handlers, Begin(a)
  PROVE  TurnInv'
<1>1. a \in Actors /\ ThreadOf[a] \in Threads /\ MaxRounds \in Nat /\ MaxRounds # 0
  BY NativeAssumption DEF Actors, Threads
<1>2. CASE enabled /\ loop # None
  <2>1. /\ pc' = [pc EXCEPT ![a] = "ask"]
        /\ work' = [work EXCEPT ![a] = Append(history[ThreadOf[a]], Said("user"))]
        /\ rounds' = rounds /\ todo' = todo
    BY <1>2 DEF Begin, Goto
  <2>2. pc[a] \notin TurnSteps /\ pc[a] \notin ToolSteps
    BY DEF Begin, At, TurnSteps, ToolSteps
  <2>3. rounds[a] = 0 /\ todo[a] = <<>>
    BY <1>1, <2>2 DEF TurnInv
  <2>4. Append(history[ThreadOf[a]], Said("user")) \in Seq(Message(Ids))
    BY <1>1, SaidMessage, AppendProperties DEF HistoryInv
  <2>5. 0 < MaxRounds /\ "ask" \notin ToolSteps /\ "ask" \in TurnSteps
    BY <1>1 DEF ToolSteps, TurnSteps
  <2>6. work' \in [Actors -> Seq(Message(Ids))]
    BY <2>1, <2>4 DEF TurnInv
  <2>7. pc'[a] = "ask" /\ \A b \in Actors \ {a} : pc'[b] = pc[b]
    BY <1>1, <2>1 DEF Shape
  <2> QED
    BY <2>1, <2>3, <2>5, <2>6, <2>7 DEF TurnInv
<1>3. CASE ~(enabled /\ loop # None)
  BY <1>1, <1>3, EndTurn DEF Begin
<1> QED
  BY <1>2, <1>3

LEMMA RequestTurn ==
  ASSUME Shape, Shape', TurnInv, NEW a \in Requests, NEW kind \in Kinds, Request(a, kind)
  PROVE  TurnInv'
<1> DEFINE cs == <<[id |-> <<a, 0, 1>>, kind |-> kind]>>
<1>1. a \in Actors
  BY DEF Actors
<1>2. /\ pc' = [pc EXCEPT ![a] = "tool"] /\ todo' = [todo EXCEPT ![a] = cs]
      /\ rounds' = rounds /\ work' = work
  BY DEF Request, Goto
<1>3. cs \in Seq(Call) /\ cs # <<>>
  <2>1. [id |-> <<a, 0, 1>>, kind |-> kind] \in Call
    BY <1>1 DEF Call, Ids
  <2> QED
    BY <2>1
<1> HIDE DEF cs
<1>4. pc'[a] = "tool" /\ todo'[a] = cs /\ \A b \in Actors \ {a} : pc'[b] = pc[b] /\ todo'[b] = todo[b]
  BY <1>1, <1>2 DEF Shape, TurnInv
<1>5. "tool" \in ToolSteps /\ "tool" \in TurnSteps
  BY DEF ToolSteps, TurnSteps
<1>6. todo' \in [Actors -> Seq(Call)]
  BY <1>2, <1>3 DEF TurnInv
<1> QED
  BY <1>2, <1>3, <1>4, <1>5, <1>6 DEF TurnInv

LEMMA TurnStep ==
  ASSUME Shape, Shape', TurnInv, HistoryInv, NEW a \in Actors, Act(a)
  PROVE  TurnInv'
<1>1. CASE Look(a) \/ RunCommand(a) \/ WriteFile(a)
  BY <1>1, AnsweredTurn DEF Look, RunCommand, WriteFile, Calls1, At, ToolSteps
<1>2. CASE Save(a)
  BY <1>2, GoneTurn DEF Save, At, ToolSteps
<1>3. ASSUME NEW x \in BOOLEAN, Classify(a, x) PROVE TurnInv'
  BY <1>3, GoneTurn DEF Classify, Calls1, At, ToolSteps
<1>4. ASSUME NEW x \in BOOLEAN, Decide(a, x) PROVE TurnInv'
  BY <1>4, GoneTurn, AnsweredTurn DEF Decide, At, ToolSteps
<1>5. ASSUME NEW x \in BOOLEAN, ReadFile(a, x) PROVE TurnInv'
  BY <1>5, GoneTurn, AnsweredTurn DEF ReadFile, Calls1, At, ToolSteps
<1>6. CASE Fail(a)
  BY <1>6, EndTurn DEF Fail
<1>7. CASE a \in Handlers /\ Finish(a)
  BY <1>7, EndTurn DEF Finish
<1>8. ASSUME a \in Handlers, NEW kinds \in Responses, Ask(a, kinds) PROVE TurnInv'
  BY <1>8, AskTurn
<1>9. CASE a \in Handlers /\ Begin(a)
  BY <1>9, BeginTurn
<1>10. ASSUME a \in Requests, NEW kind \in Kinds, Request(a, kind) PROVE TurnInv'
  BY <1>10, RequestTurn
<1>11. CASE a \in Demos /\ (PutIn(a) \/ Restore(a) \/ Reattach(a) \/ TakeOut(a))
  BY <1>11, DemoTurn DEF PutIn, Restore, Reattach, TakeOut, At, Steps, TurnSteps
<1> QED
  BY <1>1, <1>2, <1>3, <1>4, <1>5, <1>6, <1>7, <1>8, <1>9, <1>10, <1>11 DEF Act, Proceed, Tool

-----------------------------------------------------------------------------
(* The other variables.                                                    *)

LEMMA WorkspaceStep ==
  ASSUME Shape, WorkspaceInv, NEW a \in Actors, Act(a) PROVE WorkspaceInv'
<1>1. CASE WriteFile(a)
  <2>1. PICK edit : /\ file' = base[a] \cup {edit} /\ written' = written \cup {edit}
                    /\ raced' \subseteq raced \cup {edit}
                    /\ brought' \subseteq brought \cup (file' \ file)
                    /\ base' = [base EXCEPT ![a] = {}]
    BY <1>1 DEF WriteFile
  <2> QED
    BY <2>1 DEF WorkspaceInv
<1>2. ASSUME NEW proposed \in BOOLEAN, ReadFile(a, proposed) PROVE WorkspaceInv'
  BY <1>2 DEF ReadFile, WorkspaceInv
<1>3. CASE Save(a) \/ UNCHANGED workspace
  BY <1>3 DEF Save, workspace, WorkspaceInv
<1> QED
  BY <1>1, <1>2, <1>3, ActCases

LEMMA KernelStep ==
  ASSUME Shape, KernelInv, NEW a \in Actors, Act(a) PROVE KernelInv'
<1>1. CASE a \in Demos /\ TakeOut(a)
  <2>1. [router |-> router, enabled |-> enabled] \in [router : {Real, None} \cup Demos, enabled : BOOLEAN]
    BY DEF KernelInv
  <2>2. kept' \in [Demos -> [router : {Real, None} \cup Demos, enabled : BOOLEAN]]
    BY <1>1, <2>1 DEF TakeOut, KernelInv
  <2>3. router' = router /\ loop' = None /\ enabled' = TRUE /\ overlap' \in BOOLEAN
    BY <1>1 DEF TakeOut, KernelInv
  <2> QED
    BY <2>2, <2>3 DEF KernelInv
<1>2. CASE a \in Demos /\ (PutIn(a) \/ Restore(a) \/ Reattach(a))
  <2>1. kept[a].router \in {Real, None} \cup Demos /\ kept[a].enabled \in BOOLEAN
    BY <1>2 DEF KernelInv
  <2> QED
    BY <1>2, <2>1 DEF PutIn, Restore, Reattach, Attach, KernelInv
<1>3. CASE TurnAct(a)
  <2>1. UNCHANGED kernel
    BY <1>3, TurnActStep
  <2> QED
    BY <2>1 DEF kernel, KernelInv
<1> QED
  BY <1>1, <1>2, <1>3, KernelCases

LEMMA HistoryCases ==
  ASSUME NEW a \in Actors, Act(a)
  PROVE  (a \in Handlers /\ Finish(a)) \/ UNCHANGED <<history, spoken>>
BY DEF Act, Proceed, Tool, Look, RunCommand, Classify, Decide, ReadFile, Save, WriteFile,
   Answered, Fail, Ask, PutIn, Restore, Reattach, Begin, Request, TakeOut

\* What a turn adds to the history of its thread.
LEMMA FinishedHistory ==
  ASSUME TurnInv, HistoryInv, NEW h \in Handlers, Finish(h)
  PROVE  LET ms == Append(work[h], Said("assistant")) IN
         /\ ms \in Seq(Message(Ids)) /\ ms # <<>>
         /\ ThreadOf[h] \in Threads
         /\ history' = [history EXCEPT ![ThreadOf[h]] = KeptHistory(ms)]
         /\ spoken' = [spoken EXCEPT ![ThreadOf[h]] = @ \cup {WireOf[h]}]
<1>1. h \in Actors /\ work[h] \in Seq(Message(Ids)) /\ ThreadOf[h] \in Threads
  BY DEF TurnInv, Actors, Threads
<1> QED
  BY <1>1, SaidMessage, AppendProperties DEF Finish

LEMMA HistoryStep ==
  ASSUME TurnInv, HistoryInv, NEW a \in Actors, Act(a) PROVE HistoryInv'
<1>1. CASE a \in Handlers /\ Finish(a)
  <2> DEFINE ms == Append(work[a], Said("assistant"))
             t == ThreadOf[a]
  <2>1. /\ ms \in Seq(Message(Ids)) /\ ms # <<>> /\ t \in Threads
        /\ history' = [history EXCEPT ![t] = KeptHistory(ms)]
        /\ spoken' = [spoken EXCEPT ![t] = @ \cup {WireOf[a]}]
    BY <1>1, FinishedHistory
  <2> HIDE DEF ms, t
  <2>2. KeptHistory(ms) \in Seq(Message(Ids)) /\ Len(KeptHistory(ms)) <= MaxHistory
    BY <2>1, KeptIsPlain
  <2>3. WireOf[a] \in {"responses", "chat"}
    BY <1>1, NativeAssumption
  <2> QED
    BY <2>1, <2>2, <2>3 DEF HistoryInv
<1>2. CASE UNCHANGED <<history, spoken>>
  BY <1>2 DEF HistoryInv
<1> QED
  BY <1>1, <1>2, HistoryCases

-----------------------------------------------------------------------------
(* Messages stay plain.                                                    *)

LEMMA WorkOfOthers ==
  ASSUME TurnInv, NEW a \in Actors, Act(a), NEW b \in Actors \ {a} PROVE work'[b] = work[b]
<1>1. (\E v : work' = [work EXCEPT ![a] = v]) \/ UNCHANGED work
  BY DEF Act, Proceed, Tool, Look, RunCommand, Classify, Decide, ReadFile, Save, WriteFile,
     Answered, End, Fail, Finish, Ask, PutIn, Restore, Reattach, Begin, Request, TakeOut, turn
<1>2. DOMAIN work = Actors
  BY DEF TurnInv
<1> QED
  BY <1>1, <1>2

\* The turn of a chat provider, after no turn but chat turns.
ChatTurn(h) == WireOf[h] = "chat" /\ "responses" \notin spoken[ThreadOf[h]]

LEMMA ChatTurnBefore ==
  ASSUME HistoryInv, NEW a \in Actors, Act(a), NEW h \in Handlers, ChatTurn(h)'
  PROVE  ChatTurn(h)
<1>1. ThreadOf[h] \in Threads
  BY DEF Threads
<1>2. CASE a \in Handlers /\ Finish(a)
  <2>1. spoken' = [spoken EXCEPT ![ThreadOf[a]] = @ \cup {WireOf[a]}]
    BY <1>2 DEF Finish
  <2> QED
    BY <1>1, <2>1 DEF ChatTurn, HistoryInv
<1>3. CASE UNCHANGED <<history, spoken>>
  BY <1>3 DEF ChatTurn
<1> QED
  BY <1>2, <1>3, HistoryCases

\* The end of a turn leaves no messages to speak of.
LEMMA EndPlain ==
  ASSUME Shape, NEW a \in Actors, NEW step \in {"done", "failed"}, End(a, step)
  PROVE  PlainWork(a)'
<1>1. pc'[a] \in {"restore", "done", "failed"}
  BY DEF End, Goto, Shape
<1> QED
  BY <1>1 DEF PlainWork, ToolSteps

LEMMA AnsweredPlain ==
  ASSUME Shape, TurnInv, PlainInv, NEW a \in Actors, a \in Handlers, pc[a] \in ToolSteps, Answered(a),
         ChatTurn(a)' => ChatTurn(a)
  PROVE  PlainWork(a)'
<1> DEFINE id == Head(todo[a]).id
<1>1. /\ todo[a] \in Seq(Call) /\ todo[a] # <<>> /\ Tail(todo[a]) \in Seq(Call)
      /\ Result(id) \in Message(Ids) /\ work[a] \in Seq(Message(Ids)) /\ id \in Ids
  BY HeadResult
<1>2. a \notin Requests /\ NoId \in Ids
  BY NativeAssumption DEF Ids
<1>3. /\ work' = [work EXCEPT ![a] = Append(@, Result(id))]
      /\ pc' = [pc EXCEPT ![a] = IF Tail(todo[a]) # <<>> THEN "tool"
                                 ELSE IF rounds[a] = MaxRounds THEN "finish" ELSE "ask"]
  BY <1>2 DEF Answered, Goto
<1> SUFFICES ASSUME ChatTurn(a) PROVE pc'[a] \notin ToolSteps /\ Plain(work'[a])
  BY DEF PlainWork, ChatTurn
<1>4. PlainCall(work[a], todo[a])
  BY DEF PlainInv, PlainWork, ChatTurn
<1>5. Tail(todo[a]) = <<>>
  <2>1. Len(Tail(todo[a])) = Len(todo[a]) - 1 /\ Len(todo[a]) = 1
    BY <1>1, <1>4, HeadTailProperties DEF PlainCall
  <2>2. Len(Tail(todo[a])) = 0
    BY <2>1
  <2> QED
    BY <1>1, <2>2, EmptySeq
<1>6. pc'[a] \in {"finish", "ask"} /\ work'[a] = Append(work[a], Result(id))
  BY <1>3, <1>5 DEF Shape, TurnInv
<1>7. /\ Result(id).calls = <<>> /\ Result(id).id = id
      /\ Plain(work[a]) /\ work[a] # <<>> /\ work[a][Len(work[a])].calls = <<id>>
  BY <1>1, <1>2, <1>4, ResultMessage DEF PlainCall
<1> HIDE DEF id
<1>8. Len(Result(id).calls) <= 1
  BY <1>7, EmptySeq
<1>9. Plain(Append(work[a], Result(id)))
  BY <1>1, <1>7, <1>8, PlainAppend
<1> QED
  BY <1>6, <1>9 DEF ToolSteps

LEMMA GonePlain ==
  ASSUME Shape, PlainInv, NEW a \in Actors, a \in Handlers, pc[a] \in ToolSteps, NEW step \in ToolSteps,
         Goto(a, step), UNCHANGED turn, ChatTurn(a)' => ChatTurn(a)
  PROVE  PlainWork(a)'
<1>1. UNCHANGED <<work, todo>> /\ pc'[a] = step /\ step \notin {"ask", "finish"}
  BY DEF turn, Goto, Shape, ToolSteps
<1> QED
  BY <1>1 DEF PlainInv, PlainWork, ChatTurn

LEMMA AskPlain ==
  ASSUME Shape, TurnInv, PlainInv, NEW a \in Handlers, NEW kinds \in Responses, Ask(a, kinds),
         ChatTurn(a)' => ChatTurn(a)
  PROVE  PlainWork(a)'
<1> DEFINE ids == Calls(a, kinds)
           cs == [i \in DOMAIN ids |-> [id |-> ids[i], kind |-> kinds[i]]]
           m == Calling(ids)
<1>1. /\ a \in Actors /\ kinds \in Seq(Kinds) /\ rounds[a] \in Nat /\ work[a] \in Seq(Message(Ids))
      /\ pc[a] = "ask"
  BY NativeAssumption DEF Actors, TurnInv, Ask, At
<1>2. /\ ids \in Seq(Ids) /\ cs \in Seq(Call) /\ Len(cs) = Len(ids)
  BY <1>1, AskedCalls
<1>3. /\ work' = [work EXCEPT ![a] = IF ids = <<>> THEN @ ELSE Append(@, m)]
      /\ todo' = [todo EXCEPT ![a] = cs]
      /\ pc' = [pc EXCEPT ![a] = IF ids = <<>> THEN "finish" ELSE "tool"]
  BY DEF Ask, Goto
<1>4. /\ work'[a] = IF ids = <<>> THEN work[a] ELSE Append(work[a], m)
      /\ todo'[a] = cs
      /\ pc'[a] = IF ids = <<>> THEN "finish" ELSE "tool"
  BY <1>1, <1>3 DEF Shape, TurnInv
<1> SUFFICES ASSUME ChatTurn(a)
             PROVE  /\ ids = <<>> => Plain(work[a])
                    /\ ids # <<>> => PlainCall(Append(work[a], m), cs)
  BY <1>4 DEF PlainWork, ChatTurn, ToolSteps
<1>5. Plain(work[a]) /\ Len(ids) <= 1
  BY <1>1, CallsOf DEF PlainInv, PlainWork, ChatTurn
<1>6. m \in Message(Ids) /\ m.calls = ids /\ m.role = "assistant"
  BY <1>2, CallingMessage
<1>7. \A i \in DOMAIN ids : cs[i].id = ids[i]
  OBVIOUS
<1> HIDE DEF ids, cs, m
<1>8. ASSUME ids # <<>> PROVE PlainCall(Append(work[a], m), cs)
  <2>1. Len(ids) = 1 /\ DOMAIN ids = 1 .. Len(ids) /\ ids \in [1 .. Len(ids) -> Ids]
    <3>1. Len(ids) \in Nat \ {0}
      BY <1>2, <1>8, EmptySeq
    <3> QED
      BY <1>2, <1>5, <3>1, LenProperties
  <2>2. Head(cs).id = ids[1]
    BY <1>7, <2>1
  <2>3. ids = <<ids[1]>>
    BY <2>1
  <2>4. Plain(Append(work[a], m))
    BY <1>1, <1>5, <1>6, PlainAppend
  <2>5. Append(work[a], m) # <<>> /\ Append(work[a], m)[Len(Append(work[a], m))] = m
    BY <1>1, <1>6, AppendProperties
  <2>6. Len(cs) = 1
    BY <1>2, <2>1
  <2> QED
    BY <1>6, <2>2, <2>3, <2>4, <2>5, <2>6 DEF PlainCall
<1> QED
  BY <1>5, <1>8

LEMMA BeginPlain ==
  ASSUME Shape, TurnInv, HistoryInv, PlainInv, NEW a \in Handlers, Begin(a), ChatTurn(a)' => ChatTurn(a)
  PROVE  PlainWork(a)'
<1>1. a \in Actors /\ ThreadOf[a] \in Threads
  BY DEF Actors, Threads
<1>2. CASE enabled /\ loop # None
  <2>1. /\ pc'[a] = "ask"
        /\ work'[a] = Append(history[ThreadOf[a]], Said("user"))
    BY <1>1, <1>2 DEF Begin, Goto, Shape, TurnInv
  <2> SUFFICES ASSUME ChatTurn(a) PROVE Plain(work'[a])
    BY <2>1 DEF PlainWork, ChatTurn, ToolSteps
  <2>2. Plain(history[ThreadOf[a]]) /\ history[ThreadOf[a]] \in Seq(Message(Ids))
    BY <1>1 DEF PlainInv, ChatTurn, HistoryInv
  <2>3. Len(Said("user").calls) <= 1
    BY SaidMessage, EmptySeq
  <2> QED
    BY <2>1, <2>2, <2>3, SaidMessage, PlainAppend
<1>3. CASE ~(enabled /\ loop # None)
  BY <1>1, <1>3, EndPlain DEF Begin
<1> QED
  BY <1>2, <1>3

LEMMA PlainWorkStep ==
  ASSUME Shape, Exclusive, TurnInv, HistoryInv, PlainInv, NEW a \in Actors, Act(a), NEW h \in Handlers
  PROVE  PlainWork(h)'
<1>1. ChatTurn(h)' => ChatTurn(h)
  BY ChatTurnBefore
<1>2. CASE h # a
  <2>1. h \in Actors
    BY DEF Actors
  <2>2. pc'[h] = pc[h] /\ todo'[h] = todo[h] /\ work'[h] = work[h]
    BY <1>2, <2>1, ActStep, WorkOfOthers
  <2> QED
    BY <1>1, <2>2 DEF PlainInv, PlainWork, ChatTurn
<1>3. ASSUME h = a PROVE PlainWork(a)'
  <2>0. a \in Handlers /\ a \notin Requests /\ (ChatTurn(a)' => ChatTurn(a))
    BY <1>1, <1>3, NativeAssumption
  <2>1. CASE Look(a) \/ RunCommand(a) \/ WriteFile(a)
    BY <2>0, <2>1, AnsweredPlain DEF Look, RunCommand, WriteFile, Calls1, At, ToolSteps
  <2>2. CASE Save(a)
    BY <2>0, <2>2, GonePlain DEF Save, At, ToolSteps
  <2>3. ASSUME NEW x \in BOOLEAN, Classify(a, x) PROVE PlainWork(a)'
    BY <2>0, <2>3, GonePlain DEF Classify, Calls1, At, ToolSteps
  <2>4. ASSUME NEW x \in BOOLEAN, Decide(a, x) PROVE PlainWork(a)'
    BY <2>0, <2>4, GonePlain, AnsweredPlain DEF Decide, At, ToolSteps
  <2>5. ASSUME NEW x \in BOOLEAN, ReadFile(a, x) PROVE PlainWork(a)'
    BY <2>0, <2>5, GonePlain, AnsweredPlain DEF ReadFile, Calls1, At, ToolSteps
  <2>6. CASE Fail(a)
    BY <2>6, EndPlain DEF Fail
  <2>7. CASE Finish(a)
    BY <2>7, EndPlain DEF Finish
  <2>8. ASSUME NEW kinds \in Responses, Ask(a, kinds) PROVE PlainWork(a)'
    BY <2>0, <2>8, AskPlain
  <2>9. CASE Begin(a)
    BY <2>0, <2>9, BeginPlain
  <2>10. CASE a \in Demos /\ (PutIn(a) \/ Restore(a) \/ Reattach(a) \/ TakeOut(a))
    <3>1. pc'[a] \in {"swapped", "reattach", "done", "swap"}
      BY <2>10 DEF PutIn, Restore, Reattach, TakeOut, Goto, Shape
    <3> QED
      BY <3>1 DEF PlainWork, ToolSteps
  <2> QED
    BY <2>0, <2>1, <2>2, <2>3, <2>4, <2>5, <2>6, <2>7, <2>8, <2>9, <2>10 DEF Act, Proceed, Tool
<1> QED
  BY <1>2, <1>3

LEMMA PlainHistoryStep ==
  ASSUME TurnInv, HistoryInv, PlainInv, NEW a \in Actors, Act(a), NEW t \in Threads, "responses" \notin spoken'[t]
  PROVE  Plain(history'[t])
<1>1. CASE a \in Handlers /\ Finish(a)
  <2> DEFINE ms == Append(work[a], Said("assistant"))
             own == ThreadOf[a]
  <2>1. /\ ms \in Seq(Message(Ids)) /\ ms # <<>> /\ own \in Threads
        /\ history' = [history EXCEPT ![own] = KeptHistory(ms)]
        /\ spoken' = [spoken EXCEPT ![own] = @ \cup {WireOf[a]}]
    BY <1>1, FinishedHistory
  <2>2. CASE t = own
    <3>1. "responses" \notin spoken[own] /\ WireOf[a] # "responses"
      BY <2>1, <2>2 DEF HistoryInv
    <3>2. ChatTurn(a) /\ pc[a] = "finish" /\ work[a] \in Seq(Message(Ids))
      BY <1>1, <3>1, NativeAssumption DEF ChatTurn, Finish, At, TurnInv
    <3>3. Plain(work[a])
      BY <1>1, <3>2 DEF PlainInv, PlainWork, ChatTurn
    <3>4. Len(Said("assistant").calls) <= 1
      BY SaidMessage, EmptySeq
    <3>5. Plain(ms)
      BY <3>2, <3>3, <3>4, SaidMessage, PlainAppend
    <3>6. Plain(KeptHistory(ms))
      <4> HIDE DEF ms
      <4> QED
        BY <2>1, <3>5, KeptIsPlain
    <3> HIDE DEF ms, own
    <3> QED
      BY <2>1, <2>2, <3>6 DEF HistoryInv
  <2>3. CASE t # own
    <3> HIDE DEF ms, own
    <3> QED
      BY <2>1, <2>3 DEF HistoryInv, PlainInv
  <2> QED
    BY <2>2, <2>3
<1>2. CASE UNCHANGED <<history, spoken>>
  BY <1>2 DEF PlainInv
<1> QED
  BY <1>1, <1>2, HistoryCases

LEMMA PlainStep ==
  ASSUME Shape, Exclusive, TurnInv, HistoryInv, PlainInv, NEW a \in Actors, Act(a)
  PROVE  PlainInv'
BY PlainWorkStep, PlainHistoryStep DEF PlainInv

LEMMA LockStep ==
  ASSUME Shape, Exclusive, LockInv, NEW a \in Actors, Act(a) PROVE LockInv'
BY ActStep DEF LockInv

-----------------------------------------------------------------------------
IInv ==
    /\ Shape /\ Exclusive /\ EditInv /\ KeepInv /\ RouterInv
    /\ TurnInv /\ WorkspaceInv /\ KernelInv /\ HistoryInv /\ PlainInv /\ LockInv

LEMMA InitInv == Init => IInv
<1> SUFFICES ASSUME Init PROVE IInv
  OBVIOUS
<1>1. Shape /\ Exclusive /\ EditInv /\ KeepInv /\ RouterInv
  BY NativeAssumption
  DEF Init, Shape, Steps, Exclusive, TurnSteps, EditInv, EditsCanBeFound,
      KeepInv, RouterInv, RouterComesBack, Underway, At, Actors, Handlers
<1>2. /\ <<>> \in Seq(Call) /\ <<>> \in Seq(Message(Ids)) /\ Len(<<>>) = 0
      /\ 0 \in 0 .. MaxRounds /\ 0 <= MaxHistory
  BY NativeAssumption, EmptySeq
<1>3. TurnInv
  BY <1>2 DEF Init, TurnInv, TurnSteps, ToolSteps
<1>4. WorkspaceInv /\ LockInv
  BY DEF Init, WorkspaceInv, LockInv
<1>5. KernelInv
  BY NativeAssumption DEF Init, KernelInv
<1>6. HistoryInv
  BY <1>2 DEF Init, HistoryInv
<1>7. Plain(<<>>)
  BY DEF Plain
<1>8. PlainInv
  BY <1>7 DEF Init, PlainInv, PlainWork, ToolSteps, Actors
<1> QED
  BY <1>1, <1>3, <1>4, <1>5, <1>6, <1>8 DEF IInv

LEMMA StutterInv == ASSUME IInv, UNCHANGED vars PROVE IInv'
<1> USE DEF vars, turn, kernel, workspace, IInv
<1>1. (Shape /\ Exclusive /\ EditInv /\ KeepInv /\ RouterInv)'
  BY DEF Shape, Exclusive, EditInv, EditsCanBeFound,
      KeepInv, RouterInv, RouterComesBack, Underway, At
<1>2. (TurnInv /\ WorkspaceInv /\ KernelInv /\ HistoryInv /\ PlainInv /\ LockInv)'
  BY DEF TurnInv, WorkspaceInv, KernelInv, HistoryInv, PlainInv, PlainWork, LockInv
<1> QED
  BY <1>1, <1>2

\* The invariant holds in every reachable state.
THEOREM Invariant == Spec => []IInv
<1>1. ASSUME IInv, [Next]_vars PROVE IInv'
  <2>1. ASSUME NEW a \in Actors, Act(a) PROVE IInv'
    <3>1. (Shape /\ Exclusive /\ EditInv /\ KeepInv /\ RouterInv)'
      BY <1>1, <2>1, ActStep, ExclusiveStep, EditStep, KeepStep, RouterStep DEF IInv
    <3>2. (WorkspaceInv /\ KernelInv /\ LockInv)'
      BY <1>1, <2>1, WorkspaceStep, KernelStep, LockStep DEF IInv
    <3>3. (TurnInv /\ HistoryInv /\ PlainInv)'
      BY <1>1, <2>1, <3>1, TurnStep, HistoryStep, PlainStep DEF IInv
    <3> QED
      BY <3>1, <3>2, <3>3 DEF IInv
  <2>. QED  BY <1>1, <2>1, StepsAreActs, StutterInv
<1>. QED  BY InitInv, <1>1, PTL DEF Spec

\* An edit that was written is shown by the file or a checkpoint, or was raced.
THEOREM EditsFound == Spec => []EditsCanBeFound
<1>1. IInv => EditsCanBeFound
  BY DEF IInv, EditInv
<1>. QED  BY Invariant, <1>1, PTL

\* The demo leaves the router, the loop and the flag as they were.
THEOREM RouterRestored == Spec => []RouterComesBack
<1>1. IInv => (~overlap => RouterComesBack)
  BY DEF IInv, RouterInv
<1>2. IInv => RouterComesBack
  BY <1>1 DEF RouterComesBack
<1>. QED  BY Invariant, <1>2, PTL

\* No turn writes over what another turn wrote.
THEOREM TurnsKeepEdits == Spec => TurnsKeepEachOthersEdits
<1>1. ASSUME IInv, [Next]_vars
      PROVE  [\A h \in Handlers : At(h, "write") /\ todo'[h] # todo[h]
                 => file \ file' \subseteq brought]_vars
  <2> SUFFICES ASSUME NEW h \in Handlers, At(h, "write"), todo'[h] # todo[h]
               PROVE  file \ file' \subseteq brought
    OBVIOUS
  <2>1. PICK a \in Actors : Act(a)
    BY <1>1, StepsAreActs DEF vars, turn
  <2>2. a = h
    BY <1>1, <2>1, ActStep DEF IInv, Actors
  <2>3. file \subseteq base[h] \cup brought
    BY <1>1 DEF IInv, KeepInv, At
  <2>4. WriteFile(h) \/ UNCHANGED file
    BY <2>1, <2>2, ActCases DEF ReadFile, Save, workspace
  <2>5. WriteFile(h) => base[h] \subseteq file'
    BY DEF WriteFile
  <2>. QED  BY <2>3, <2>4, <2>5
<1>. QED  BY Invariant, <1>1, PTL DEF Spec, TurnsKeepEachOthersEdits
\* The messages of a turn at a chat provider, after no turn but chat turns, have
\* a result for every call and every result after the calls that want it
\* (enforce_tool_message_sequence, native_history[-120:]).
THEOREM SentAccepted == Spec => []SentIsAccepted
<1>1. ASSUME IInv PROVE SentIsAccepted
  <2>1. TypeOK
    BY <1>1 DEF IInv, Shape, TurnInv, ToolSteps, HistoryInv, KernelInv, WorkspaceInv, LockInv, TypeOK
  <2>2. ASSUME NEW h \in Handlers, At(h, "ask"), ChatTurn(h) PROVE AcceptedBy(h)
    <3>1. Plain(work[h]) /\ work[h] \in Seq(Message(Ids))
      BY <1>1, <2>2 DEF IInv, PlainInv, PlainWork, ChatTurn, At, TurnInv, Actors
    <3>2. Sent(h) = Repaired(work[h]) /\ Answering(work[h])
      BY <3>1, PlainConverted, PlainAnswering DEF Sent
    <3>3. NoId \in Ids
      BY DEF Ids
    <3> QED
      BY <3>1, <3>2, <3>3, RepairIsAccepted DEF AcceptedBy
  <2> QED
    BY <2>1, <2>2 DEF SentIsAccepted, ChatTurn
<1> QED
  BY Invariant, <1>1, PTL
=============================================================================
