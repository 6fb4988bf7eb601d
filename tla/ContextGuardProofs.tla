------------------------- MODULE ContextGuardProofs -------------------------
(***************************************************************************)
(* Proofs about ContextGuard, for any threads, percentages and bounds.     *)
(*                                                                         *)
(* The argument for the guard: a usage that was recorded after the handler *)
(* began does not make its turn hot, and one that was recorded before is   *)
(* the token the handler has read; so whichever of the later reads lets    *)
(* the turn pass has found what relieves that token, and relief stays in   *)
(* the log.  The one way past a token that is high is the decision to      *)
(* continue, which is taken away in the same step.  For the supervisor:    *)
(* the status, which notifications set, and the turn that runs agree.      *)
(***************************************************************************)
EXTENDS ContextGuard, TLAPS

Tokens == [percent : Percents \cup {0}, turn : Nat, at : Nat]
StarterSteps == {"free", "missing", "completed", "running", "exists", "decide",
                 "send"}
Handler == [thread : Threads \cup {None}, step : StarterSteps, token : Tokens,
            since : Nat]

\* Whether t may be continued once, as a number.
Allowed(t) == IF t \in allowance THEN 1 ELSE 0

\* The usage of t is the one the handler has read, or younger than the handler.
Seen(t) == \/ at[t]["usage"] > starter.since
           \/ /\ at[t]["usage"] = starter.token.at
              /\ usage[t].percent = starter.token.percent

StarterType ==
    /\ starter \in Handler
    /\ starter.since <= clock
    /\ starter.step # "free" => starter.thread \in Threads

StarterInv ==
    LET t == starter.thread IN
    /\ starter.step # "free" => Seen(t)
    /\ starter.step = "send" /\ Hot(t) => hot[t] + Allowed(t) + 1 <= granted[t]

HotInv == \A t \in Threads : hot[t] + Allowed(t) <= granted[t]

\* The log shows a compaction that has not ended only if there is one.
BusyInv == \A t \in Threads :
    at[t]["started"] > at[t]["completed"] /\ at[t]["started"] > at[t]["compacted"]
        => t \in compacting \cup cut

\* The status is that of the turn that runs, or ran last.
WatchInv == \A t \in Threads :
    /\ running[t] # 0 =>
          /\ last[t] = "inProgress" /\ t \in alive
          /\ status[t] \in {"active", "waiting"}
          /\ at[t]["missing"] <= at[t]["status"] \/ at[t]["missing"] <= at[t]["failed"]
    /\ t \in modal => running[t] # 0
    /\ status[t] = "waiting" => t \in modal \/ running[t] = 0
    /\ status[t] \in {"active", "waiting"} => running[t] # 0 \/ t \in orphans
    /\ last[t] = "failed" => status[t] = "systemError" /\ at[t]["failed"] > 0

IInv == TypeOK /\ StarterType /\ StarterInv /\ HotInv /\ BusyInv /\ WatchInv

-----------------------------------------------------------------------------
(* The latest of two times.                                                *)

LEMMA MaxOfTwo ==
    ASSUME NEW a \in Int, NEW b \in Int
    PROVE  /\ Max({a, b}) \in {a, b}
           /\ Max({a, b}) >= a /\ Max({a, b}) >= b
<1>1. \E x \in {a, b} : \A y \in {a, b} : x >= y
  <2>1. CASE a >= b
    BY <2>1
  <2>2. CASE b >= a
    BY <2>2
  <2>. QED  BY <2>1, <2>2
<1>. QED  BY <1>1 DEF Max

LEMMA TimesAreNat ==
    ASSUME TypeOK
    PROVE  /\ clock \in Nat
           /\ \A t \in Threads, k \in Kinds : at[t][k] \in Nat /\ at[t][k] <= clock
  BY GuardAssumption DEF TypeOK

\* When a completion, or a status, was recorded last.
LEMMA LatestTimes ==
    ASSUME TypeOK, NEW t \in Threads
    PROVE  /\ CompletedAt(t) \in {at[t]["completed"], at[t]["compacted"]}
           /\ CompletedAt(t) >= at[t]["completed"]
           /\ CompletedAt(t) >= at[t]["compacted"]
           /\ StatusAt(t) \in {at[t]["status"], at[t]["failed"]}
           /\ StatusAt(t) >= at[t]["status"]
           /\ StatusAt(t) >= at[t]["failed"]
<1>1. /\ at[t]["completed"] \in Int /\ at[t]["compacted"] \in Int
      /\ at[t]["status"] \in Int /\ at[t]["failed"] \in Int
  BY TimesAreNat DEF Kinds
<1>. QED  BY <1>1, MaxOfTwo DEF CompletedAt, StatusAt

LEMMA MaxOfThree ==
    ASSUME NEW a \in Int, NEW b \in Int, NEW c \in Int, NEW d \in Int
    PROVE  Max({a, Max({b, c})}) <= d <=> a <= d /\ b <= d /\ c <= d
<1> DEFINE m == Max({b, c})
<1>1. m \in {b, c} /\ m >= b /\ m >= c
  BY MaxOfTwo
<1> HIDE DEF m
<1>2. Max({a, m}) \in {a, m} /\ Max({a, m}) >= a /\ Max({a, m}) >= m
  BY <1>1, MaxOfTwo
<1>. QED  BY <1>1, <1>2 DEF m

\* What it means to be hot, in terms of the log.
HotIn(t) ==
    /\ usage[t].percent >= 90
    /\ at[t]["usage"] \in 1 .. starter.since
    /\ at[t]["missing"] <= at[t]["usage"]
    /\ at[t]["completed"] <= at[t]["usage"]
    /\ at[t]["compacted"] <= at[t]["usage"]

LEMMA HotFacts ==
    ASSUME NEW t \in Threads, \A k \in Kinds : at[t][k] \in Int
    PROVE  Hot(t) <=> HotIn(t)
<1>1. /\ at[t]["missing"] \in Int /\ at[t]["usage"] \in Int
      /\ at[t]["completed"] \in Int /\ at[t]["compacted"] \in Int
  BY DEF Kinds
<1>. QED  BY <1>1, MaxOfThree DEF Hot, HotIn, MissingAt, CompletedAt

LEMMA HotFactsNext ==
    ASSUME NEW t \in Threads, \A k \in Kinds : at'[t][k] \in Int
    PROVE  Hot(t)' <=> HotIn(t)'
<1>1. /\ at'[t]["missing"] \in Int /\ at'[t]["usage"] \in Int
      /\ at'[t]["completed"] \in Int /\ at'[t]["compacted"] \in Int
  BY DEF Kinds
<1>. QED  BY <1>1, MaxOfThree DEF Hot, HotIn, MissingAt, CompletedAt

-----------------------------------------------------------------------------
(* The log grows.                                                          *)

LEMMA RecordedFacts ==
    ASSUME TypeOK, NEW t \in Threads, NEW k \in Kinds, Recorded(t, k)
    PROVE  /\ clock' = clock + 1 /\ clock' \in 0 .. MaxEvents
           /\ at' \in [Threads -> [Kinds -> 0 .. clock']]
           /\ at'[t][k] = clock'
           /\ \A u \in Threads, j \in Kinds : u # t \/ j # k => at'[u][j] = at[u][j]
           /\ silent' \in [Threads -> 0 .. 3]
<1>1. clock' = clock + 1 /\ clock' \in 0 .. MaxEvents /\ clock \in Nat
  BY GuardAssumption DEF Recorded, TypeOK
<1>2. at' = [at EXCEPT ![t] = [at[t] EXCEPT ![k] = clock']]
  BY DEF Recorded
<1>3. at[t] \in [Kinds -> 0 .. clock]
  BY DEF TypeOK
<1>4. [at[t] EXCEPT ![k] = clock'] \in [Kinds -> 0 .. clock']
  BY <1>1, <1>3
<1>5. \A u \in Threads : at[u] \in [Kinds -> 0 .. clock']
  BY <1>1 DEF TypeOK
<1>6. at' \in [Threads -> [Kinds -> 0 .. clock']]
  BY <1>2, <1>4, <1>5 DEF TypeOK
<1>7. /\ at'[t][k] = clock'
      /\ \A u \in Threads, j \in Kinds : u # t \/ j # k => at'[u][j] = at[u][j]
  BY <1>2, <1>3 DEF TypeOK
<1>8. silent' \in [Threads -> 0 .. 3]
  BY DEF Recorded, TypeOK
<1>. QED  BY <1>1, <1>6, <1>7, <1>8

\* Times only grow; a usage that changes is recorded now.
Grows ==
    /\ clock <= clock'
    /\ \A t \in Threads, k \in Kinds : at[t][k] <= at'[t][k]
    /\ \A t \in Threads : \/ at'[t]["usage"] = at[t]["usage"] /\ usage'[t] = usage[t]
                          \/ at'[t]["usage"] > clock

LEMMA RecordGrows ==
    ASSUME TypeOK, NEW t \in Threads, NEW k \in Kinds, Recorded(t, k),
           k = "usage" \/ UNCHANGED usage,
           \A u \in Threads \ {t} : usage'[u] = usage[u]
    PROVE  Grows
<1>1. /\ clock' = clock + 1
      /\ at'[t][k] = clock'
      /\ \A u \in Threads, j \in Kinds : u # t \/ j # k => at'[u][j] = at[u][j]
  BY RecordedFacts
<1>. QED  BY <1>1, TimesAreNat DEF Grows, Kinds

LEMMA QuietGrows ==
    ASSUME TypeOK, UNCHANGED <<clock, at, usage>> PROVE Grows
  BY TimesAreNat DEF Grows, Kinds

\* A thread may cease to be hot, and becomes so only for a new handler.
LEMMA HotFades ==
    ASSUME TypeOK, StarterType, Grows, starter'.since = starter.since,
           \A k \in Kinds, u \in Threads : at'[u][k] \in Nat,
           NEW t \in Threads, Hot(t)'
    PROVE  Hot(t) /\ at'[t]["usage"] = at[t]["usage"] /\ usage'[t] = usage[t]
<1>1. HotIn(t)'
  BY HotFactsNext
<1>2. starter.since \in Nat /\ clock \in Nat /\ starter.since <= clock
  BY TimesAreNat DEF StarterType, Handler
<1>3. \A k \in Kinds : at[t][k] \in Nat /\ at'[t][k] \in Nat /\ at[t][k] <= at'[t][k]
  BY TimesAreNat DEF Grows
<1>4. at'[t]["usage"] = at[t]["usage"] /\ usage'[t] = usage[t]
  BY <1>1, <1>2, <1>3 DEF Grows, HotIn
<1>5. HotIn(t)
  BY <1>1, <1>3, <1>4 DEF HotIn, Kinds
<1>. QED  BY <1>3, <1>4, <1>5, HotFacts

-----------------------------------------------------------------------------
(* Steps that leave the handler, its decisions and its count alone.        *)

Aside == UNCHANGED <<starter, allowance, granted, hot>>

LEMMA AsideKeeps ==
    ASSUME TypeOK, TypeOK', StarterType, StarterInv, HotInv, Grows, Aside
    PROVE  StarterType' /\ StarterInv' /\ HotInv'
<1>1. \A k \in Kinds, u \in Threads : at[u][k] \in Nat /\ at'[u][k] \in Nat
  BY GuardAssumption DEF TypeOK
<1>2. starter.since \in Nat /\ clock \in Nat /\ clock' \in Nat /\ clock <= clock'
  BY GuardAssumption DEF StarterType, Handler, TypeOK, Grows
<1>3. StarterType'
  BY <1>2 DEF StarterType, Aside
<1>4. HotInv'
  BY DEF HotInv, Allowed, Aside
<1>5. ASSUME starter.step # "free" PROVE Seen(starter.thread)'
  <2>1. starter.thread \in Threads /\ Seen(starter.thread) /\ starter.since <= clock
    BY <1>5 DEF StarterType, StarterInv
  <2>2. "usage" \in Kinds
    BY DEF Kinds
  <2>. QED  BY <1>1, <1>2, <2>1, <2>2 DEF Seen, Grows, Aside
<1>6. ASSUME starter.step = "send", Hot(starter.thread)'
      PROVE  hot[starter.thread] + Allowed(starter.thread) + 1 <= granted[starter.thread]
  <2>1. starter.thread \in Threads
    BY <1>6 DEF StarterType
  <2>2. Hot(starter.thread)
    BY <1>1, <1>6, <2>1, HotFades DEF Aside
  <2>. QED  BY <1>6, <2>2 DEF StarterInv
<1>. QED  BY <1>3, <1>4, <1>5, <1>6 DEF StarterInv, Allowed, Aside

LEMMA ReportUsageStep ==
    ASSUME IInv, NEW t \in Threads, NEW p \in Percents, ReportUsage(t, p)
    PROVE  IInv'
<1> USE DEF ReportUsage, Notify, server, runs
<1>1. Recorded(t, "usage") /\ TypeOK
  BY DEF IInv
<1>2. Grows
  BY <1>1, RecordGrows DEF Kinds, TypeOK
<1>3. /\ clock' \in 0 .. MaxEvents
      /\ at' \in [Threads -> [Kinds -> 0 .. clock']]
      /\ silent' \in [Threads -> 0 .. 3]
      /\ \A u \in Threads, j \in Kinds : j # "usage" => at'[u][j] = at[u][j]
  BY <1>1, RecordedFacts DEF Kinds
<1>4. TypeOK'
  BY <1>1, <1>3 DEF TypeOK
<1>5. BusyInv' /\ WatchInv'
  BY <1>3 DEF IInv, BusyInv, WatchInv, Kinds
<1>. QED  BY <1>1, <1>2, <1>4, <1>5, AsideKeeps DEF IInv, Aside

LEMMA BeginCompactionStep ==
    ASSUME IInv, NEW t \in Threads, BeginCompaction(t) PROVE IInv'
<1> USE DEF BeginCompaction, Notify, runs
<1>1. Recorded(t, "started") /\ TypeOK
  BY DEF IInv
<1>2. Grows
  BY <1>1, RecordGrows DEF Kinds
<1>3. /\ clock' \in 0 .. MaxEvents
      /\ at' \in [Threads -> [Kinds -> 0 .. clock']]
      /\ silent' \in [Threads -> 0 .. 3]
      /\ \A u \in Threads, j \in Kinds : u # t \/ j # "started" => at'[u][j] = at[u][j]
  BY <1>1, RecordedFacts DEF Kinds
<1>4. TypeOK'
  BY <1>1, <1>3 DEF TypeOK
<1>5. BusyInv' /\ WatchInv'
  BY <1>1, <1>3 DEF IInv, BusyInv, WatchInv, Kinds
<1>. QED  BY <1>1, <1>2, <1>4, <1>5, AsideKeeps DEF IInv, Aside

LEMMA EndCompactionStep ==
    ASSUME IInv, NEW t \in Threads, NEW k \in Kinds, EndCompaction(t, k)
    PROVE  IInv'
<1> USE DEF EndCompaction, Notify, runs
<1>1. Recorded(t, k) /\ TypeOK /\ k \in {"completed", "compacted"}
  BY DEF IInv
<1>2. Grows
  BY <1>1, RecordGrows
<1>3. /\ clock' = clock + 1 /\ clock' \in 0 .. MaxEvents
      /\ at' \in [Threads -> [Kinds -> 0 .. clock']]
      /\ silent' \in [Threads -> 0 .. 3]
      /\ at'[t][k] = clock'
      /\ \A u \in Threads, j \in Kinds : u # t \/ j # k => at'[u][j] = at[u][j]
  BY <1>1, RecordedFacts
<1>4. TypeOK'
  BY <1>1, <1>3 DEF TypeOK
<1>5. BusyInv'
  BY <1>1, <1>3, TimesAreNat DEF IInv, BusyInv, Kinds
<1>6. WatchInv'
  BY <1>1, <1>3 DEF IInv, WatchInv, Kinds
<1>. QED  BY <1>1, <1>2, <1>4, <1>5, <1>6, AsideKeeps DEF IInv, Aside

LEMMA OtherStep ==
    ASSUME IInv, NEW t \in Threads, OtherNotification(t) PROVE IInv'
<1> USE DEF OtherNotification, Notify, server, runs
<1>1. Recorded(t, "other") /\ TypeOK
  BY DEF IInv
<1>2. Grows
  BY <1>1, RecordGrows DEF Kinds
<1>3. /\ clock' \in 0 .. MaxEvents
      /\ at' \in [Threads -> [Kinds -> 0 .. clock']]
      /\ silent' \in [Threads -> 0 .. 3]
      /\ \A u \in Threads, j \in Kinds : j # "other" => at'[u][j] = at[u][j]
  BY <1>1, RecordedFacts DEF Kinds
<1>4. TypeOK'
  BY <1>1, <1>3 DEF TypeOK
<1>5. BusyInv' /\ WatchInv'
  BY <1>3 DEF IInv, BusyInv, WatchInv, Kinds
<1>. QED  BY <1>1, <1>2, <1>4, <1>5, AsideKeeps DEF IInv, Aside

LEMMA AskApprovalStep ==
    ASSUME IInv, NEW t \in Threads, NEW flagged \in BOOLEAN, AskApproval(t, flagged)
    PROVE  IInv'
<1> DEFINE k == IF flagged THEN "status" ELSE "other"
<1> USE DEF AskApproval, Notify, runs
<1>1. Recorded(t, k) /\ TypeOK /\ k \in Kinds /\ k \in {"status", "other"}
  BY DEF IInv, Kinds
<1>2. Grows
  BY <1>1, RecordGrows
<1>3. /\ clock' = clock + 1 /\ clock' \in 0 .. MaxEvents
      /\ at' \in [Threads -> [Kinds -> 0 .. clock']]
      /\ silent' \in [Threads -> 0 .. 3]
      /\ at'[t][k] = clock'
      /\ \A u \in Threads, j \in Kinds : u # t \/ j # k => at'[u][j] = at[u][j]
  BY <1>1, RecordedFacts
<1> HIDE DEF k
<1>4. TypeOK'
  BY <1>1, <1>3 DEF TypeOK
<1>5. BusyInv'
  BY <1>1, <1>3 DEF IInv, BusyInv, Kinds
<1>6. WatchInv'
  BY <1>1, <1>3, TimesAreNat DEF IInv, WatchInv, TypeOK, Kinds
<1>. QED  BY <1>1, <1>2, <1>4, <1>5, <1>6, AsideKeeps DEF IInv, Aside

LEMMA ApprovedStep ==
    ASSUME IInv, NEW t \in Threads, Approved(t) PROVE IInv'
<1> USE DEF Approved, Notify, runs
<1>1. Recorded(t, "status") /\ TypeOK
  BY DEF IInv
<1>2. Grows
  BY <1>1, RecordGrows DEF Kinds
<1>3. /\ clock' = clock + 1 /\ clock' \in 0 .. MaxEvents
      /\ at' \in [Threads -> [Kinds -> 0 .. clock']]
      /\ silent' \in [Threads -> 0 .. 3]
      /\ at'[t]["status"] = clock'
      /\ \A u \in Threads, j \in Kinds : u # t \/ j # "status" => at'[u][j] = at[u][j]
  BY <1>1, RecordedFacts DEF Kinds
<1>4. TypeOK'
  BY <1>1, <1>3 DEF TypeOK
<1>5. BusyInv'
  BY <1>1, <1>3 DEF IInv, BusyInv, Kinds
<1>6. WatchInv'
  BY <1>1, <1>3, TimesAreNat DEF IInv, WatchInv, TypeOK, Kinds
<1>. QED  BY <1>1, <1>2, <1>4, <1>5, <1>6, AsideKeeps DEF IInv, Aside

LEMMA EndTurnStep ==
    ASSUME IInv, NEW t \in Threads, NEW end \in {"completed", "failed"}, EndTurn(t, end)
    PROVE  IInv'
<1> DEFINE k == IF end = "failed" THEN "failed" ELSE "status"
<1> USE DEF EndTurn, Notify
<1>1. Recorded(t, k) /\ TypeOK /\ k \in Kinds /\ k \in {"status", "failed"}
  BY DEF IInv, Kinds
<1>2. Grows
  BY <1>1, RecordGrows
<1>3. /\ clock' = clock + 1 /\ clock' \in 0 .. MaxEvents
      /\ at' \in [Threads -> [Kinds -> 0 .. clock']]
      /\ silent' \in [Threads -> 0 .. 3]
      /\ at'[t][k] = clock'
      /\ \A u \in Threads, j \in Kinds : u # t \/ j # k => at'[u][j] = at[u][j]
  BY <1>1, RecordedFacts
<1>4. TypeOK'
  BY <1>1, <1>3 DEF TypeOK
<1>5. BusyInv'
  BY <1>1, <1>3 DEF IInv, BusyInv, Kinds
<1>6. WatchInv'
  BY <1>1, <1>3, TimesAreNat DEF IInv, WatchInv, TypeOK, Kinds
<1>. QED  BY <1>1, <1>2, <1>4, <1>5, <1>6, AsideKeeps DEF IInv, Aside

LEMMA TimePassesStep ==
    ASSUME IInv, TimePasses PROVE IInv'
<1> USE DEF TimePasses, server, runs, history
<1>1. TypeOK'
  <2>1. \A t \in Threads : Min({silent[t] + 1, 3}) \in 0 .. 3
    <3>1. ASSUME NEW t \in Threads PROVE Min({silent[t] + 1, 3}) \in 0 .. 3
      <4>0. silent[t] \in 0 .. 3
        BY DEF IInv, TypeOK
      <4>1. silent[t] + 1 \in 1 .. 4
        BY <4>0
      <4>2. \E x \in {silent[t] + 1, 3} : \A y \in {silent[t] + 1, 3} : x =< y
        <5>1. CASE silent[t] + 1 <= 3
          BY <4>1, <5>1
        <5>2. CASE 3 <= silent[t] + 1
          BY <4>1, <5>2
        <5>. QED  BY <4>1, <5>1, <5>2
      <4>3. /\ Min({silent[t] + 1, 3}) \in {silent[t] + 1, 3}
            /\ Min({silent[t] + 1, 3}) <= 3
        BY <4>2 DEF Min
      <4>. QED  BY <4>1, <4>3
    <3>. QED  BY <3>1
  <2>. QED  BY <2>1 DEF IInv, TypeOK
<1>2. Grows
  BY QuietGrows DEF IInv
<1>3. BusyInv' /\ WatchInv'
  BY DEF IInv, BusyInv, WatchInv
<1>. QED  BY <1>1, <1>2, <1>3, AsideKeeps DEF IInv, Aside

LEMMA ExitStep ==
    ASSUME IInv, NEW kept \in SUBSET Threads, Exit(kept)
    PROVE  TypeOK /\ BusyInv' /\ WatchInv' /\ Grows
           /\ UNCHANGED <<turns, granted, hot, events>>
           /\ running' \in [Threads -> 0 .. turns'] /\ turns' \in 0 .. MaxTurns
           /\ last' \in [Threads -> {"none", "inProgress", "completed", "failed",
                                     "interrupted"}]
           /\ modal' \subseteq Threads /\ alive' \subseteq Threads
           /\ compacting' \subseteq Threads /\ loaded' \subseteq Threads
           /\ cut' \subseteq Threads /\ orphans' \subseteq Threads
<1> USE DEF Exit, events
<1>1. TypeOK
  BY DEF IInv
<1>2. Grows
  BY <1>1, QuietGrows
<1>3. BusyInv'
  BY DEF IInv, BusyInv
<1>4. WatchInv'
  BY <1>1 DEF IInv, WatchInv, TypeOK
<1>5. running' \in [Threads -> 0 .. turns'] /\ turns' \in 0 .. MaxTurns
  BY <1>1 DEF TypeOK
<1>6. last' \in [Threads -> {"none", "inProgress", "completed", "failed",
                             "interrupted"}]
  BY <1>1 DEF TypeOK
<1>. QED  BY <1>1, <1>2, <1>3, <1>4, <1>5, <1>6 DEF TypeOK

LEMMA ServerExitsStep ==
    ASSUME IInv, ServerExits PROVE IInv'
<1>1. PICK kept \in SUBSET Threads : Exit(kept) /\ UNCHANGED <<allowance, starter>>
  BY DEF ServerExits
<1>2. TypeOK'
  BY <1>1, ExitStep DEF TypeOK, events
<1>. QED  BY <1>1, <1>2, ExitStep, AsideKeeps DEF IInv, Aside

\* Nothing is left of the handler and of the decisions.
LEMMA SidecarRestartsStep ==
    ASSUME IInv, SidecarRestarts PROVE IInv'
<1>1. PICK kept \in SUBSET Threads :
        Exit(kept) /\ allowance' = {} /\ starter' = Free
  BY DEF SidecarRestarts
<1>2. TypeOK'
  BY <1>1, ExitStep DEF TypeOK, events, Free
<1>3. StarterType' /\ StarterInv'
  BY <1>1, <1>2, GuardAssumption
  DEF StarterType, StarterInv, Free, NoToken, Handler, Tokens, StarterSteps, TypeOK
<1>4. HotInv'
  BY <1>1, ExitStep DEF IInv, HotInv, Allowed, TypeOK
<1>. QED  BY <1>1, <1>2, <1>3, <1>4, ExitStep DEF IInv

-----------------------------------------------------------------------------
(* The handler.                                                            *)

\* A read of the log or of an answer changes the handler only.
LEMMA QuietKeeps ==
    ASSUME IInv, Quiet
    PROVE  HotInv' /\ BusyInv' /\ WatchInv'
  BY DEF Quiet, events, server, runs, history, IInv, HotInv, Allowed, BusyInv, WatchInv

\* The next step of the handler, or its end.
LEMMA StepType ==
    ASSUME IInv, Quiet, starter.step # "free",
           NEW s \in StarterSteps, Step(s) \/ starter' = Free
    PROVE  TypeOK' /\ StarterType'
<1>1. starter \in Handler /\ starter.thread \in Threads /\ starter.since <= clock
  BY DEF IInv, StarterType
<1>2. starter' \in Handler /\ (starter' # Free => starter'.thread \in Threads)
      /\ starter'.since <= clock
  <2>1. CASE Step(s)
    BY <1>1, <2>1 DEF Step, Handler
  <2>2. CASE starter' = Free
    BY <2>2, TimesAreNat, GuardAssumption
    DEF Free, NoToken, Handler, Tokens, StarterSteps, IInv
  <2>. QED  BY <2>1, <2>2
<1>3. UNCHANGED <<clock, turns, at, usage, begun, running, status, silent, last, modal,
                  alive, compacting, loaded, allowance, cut, orphans, granted, hot>>
  BY DEF Quiet, events, server, runs, history
<1>4. TypeOK'
  BY <1>2, <1>3 DEF IInv, TypeOK, Handler, StarterSteps
<1>. QED  BY <1>2, <1>3, <1>4 DEF StarterType, Free

LEMMA ReadTokenStep ==
    ASSUME IInv, NEW t \in Threads, ReadToken(t) PROVE IInv'
<1> USE DEF ReadToken
<1>1. TypeOK /\ Quiet
  BY DEF IInv
<1>2. UNCHANGED <<clock, turns, at, usage, begun, running, status, silent, last, modal,
                  alive, compacting, loaded, allowance, cut, orphans, granted, hot>>
  BY <1>1 DEF Quiet, events, server, runs, history
<1>3. /\ LatestToken(t) \in Tokens
      /\ LatestToken(t).at = at[t]["usage"] /\ LatestToken(t).percent = usage[t].percent
  <2>1. usage[t] \in [percent : Percents \cup {0}, turn : 0 .. turns, at : {0}]
    BY <1>1 DEF TypeOK
  <2>2. at[t]["usage"] \in Nat
    BY <1>1, TimesAreNat DEF Kinds
  <2>3. 0 .. turns \subseteq Nat
    OBVIOUS
  <2>. QED  BY <2>1, <2>2, <2>3 DEF LatestToken, Tokens
<1>4. /\ starter'.thread = t /\ starter'.token = LatestToken(t)
      /\ starter'.since = clock
      /\ starter'.step = IF at[t]["usage"] = 0 THEN "send" ELSE "missing"
      /\ starter' \in Handler
  BY <1>1, <1>3, TimesAreNat DEF Handler, StarterSteps
<1>5. TypeOK'
  BY <1>1, <1>2, <1>4 DEF TypeOK
<1>6. StarterType'
  BY <1>1, <1>2, <1>4, TimesAreNat DEF StarterType
<1>7. StarterInv'
  <2>1. Seen(t)'
    BY <1>2, <1>3, <1>4 DEF Seen
  <2>2. ASSUME starter'.step = "send" PROVE ~Hot(t)'
    <3>1. at[t]["usage"] = 0
      BY <1>4, <2>2
    <3>. QED  BY <1>2, <1>4, <3>1 DEF Hot
  <2>. QED  BY <1>4, <2>1, <2>2 DEF StarterInv
<1>. QED  BY <1>1, <1>5, <1>6, <1>7, QuietKeeps DEF IInv

\* A read that lets the turn pass has found a reason.
LEMMA PassesCold ==
    ASSUME IInv, Quiet, starter.step \notin {"free", "send"},
           NEW s \in StarterSteps, Step(s) \/ starter' = Free,
           Step(s) /\ s = "send" => ~Hot(starter.thread)
    PROVE  IInv'
<1>1. TypeOK' /\ StarterType'
  BY StepType
<1>2. HotInv' /\ BusyInv' /\ WatchInv'
  BY QuietKeeps
<1>3. UNCHANGED <<at, usage, hot, allowance, granted>>
  BY DEF Quiet, events, history
<1>4. StarterInv'
  <2>1. CASE starter' = Free
    BY <2>1 DEF StarterInv, Free
  <2>2. CASE Step(s)
    <3>1. starter'.thread = starter.thread /\ starter'.token = starter.token
          /\ starter'.since = starter.since /\ starter'.step = s
      BY <2>2 DEF Step, IInv, StarterType, Handler
    <3>2. Seen(starter.thread)
      BY DEF IInv, StarterInv
    <3>3. Seen(starter.thread)' /\ (Hot(starter.thread)' <=> Hot(starter.thread))
      BY <1>3, <3>1, <3>2 DEF Seen, Hot, MissingAt, CompletedAt
    <3>. QED  BY <2>2, <3>1, <3>3 DEF StarterInv
  <2>. QED  BY <2>1, <2>2
<1>. QED  BY <1>1, <1>2, <1>4 DEF IInv

\* What is known of the token while the turn is hot.
LEMMA TokenOfHot ==
    ASSUME IInv, starter.step # "free", Hot(starter.thread)
    PROVE  LET t == starter.thread IN
           /\ starter.token.at = at[t]["usage"] /\ starter.token.at # 0
           /\ starter.token.percent >= 90
           /\ at[t]["missing"] <= starter.token.at
           /\ CompletedAt(t) <= starter.token.at
<1> DEFINE t == starter.thread
<1>1. TypeOK /\ t \in Threads /\ Seen(t) /\ starter.since \in Nat
  BY DEF IInv, StarterType, StarterInv, Handler
<1>2. \A k \in Kinds : at[t][k] \in Int
  BY <1>1, TimesAreNat
<1>3. HotIn(t)
  BY <1>1, <1>2, HotFacts
<1>4. CompletedAt(t) \in {at[t]["completed"], at[t]["compacted"]}
  BY <1>1, LatestTimes
<1>. QED  BY <1>1, <1>2, <1>3, <1>4 DEF HotIn, Seen, Kinds

LEMMA ReadMissingStep ==
    ASSUME IInv, ReadMissing PROVE IInv'
<1> DEFINE s == IF MissingAt(starter.thread) > starter.token.at THEN "send"
                ELSE "completed"
<1>1. /\ Quiet /\ Step(s) /\ starter.step = "missing" /\ s \in StarterSteps
  BY DEF ReadMissing, StarterSteps
<1>2. ASSUME Hot(starter.thread) PROVE s # "send"
  <2>1. at[starter.thread]["missing"] <= starter.token.at
    BY <1>1, <1>2, TokenOfHot
  <2>2. at[starter.thread]["missing"] \in Int /\ starter.token.at \in Int
    BY <1>1, TimesAreNat DEF IInv, StarterType, Handler, Tokens, Kinds
  <2>. QED  BY <2>1, <2>2 DEF MissingAt
<1> HIDE DEF s
<1>. QED  BY <1>1, <1>2, PassesCold

LEMMA ReadCompletedStep ==
    ASSUME IInv, ReadCompleted PROVE IInv'
<1> DEFINE s == IF CompletedAt(starter.thread) > starter.token.at THEN "send"
                ELSE "running"
<1>1. /\ Quiet /\ Step(s) /\ starter.step = "completed" /\ s \in StarterSteps
  BY DEF ReadCompleted, StarterSteps
<1>2. ASSUME Hot(starter.thread) PROVE s # "send"
  <2>1. CompletedAt(starter.thread) <= starter.token.at
    BY <1>1, <1>2, TokenOfHot
  <2>2. starter.thread \in Threads /\ starter.token.at \in Int /\ TypeOK
    BY <1>1 DEF IInv, StarterType, Handler, Tokens
  <2>3. CompletedAt(starter.thread) \in Int
    BY <2>2, LatestTimes, TimesAreNat DEF Kinds
  <2>. QED  BY <2>1, <2>2, <2>3
<1> HIDE DEF s
<1>. QED  BY <1>1, <1>2, PassesCold

LEMMA ReadRunningStep ==
    ASSUME IInv, ReadRunning PROVE IInv'
<1> DEFINE level == Judged(starter.token, 0, 0, RunningCompaction(starter.thread))
<1>1. /\ Quiet /\ starter.step = "running" /\ starter.token.at \in Nat
      /\ starter' = CASE level = "compacting" -> Free
                      [] level = "pause" -> [starter EXCEPT !.step = "exists"]
                      [] OTHER -> [starter EXCEPT !.step = "send"]
  BY DEF ReadRunning, IInv, StarterType, Handler, Tokens
<1>2. ASSUME Hot(starter.thread) PROVE level \in {"compacting", "pause"}
  <2>1. starter.token.at # 0 /\ starter.token.percent >= 90
    BY <1>1, <1>2, TokenOfHot
  <2>. QED  BY <1>1, <2>1 DEF Judged
<1> HIDE DEF level
<1>3. CASE level = "compacting"
  BY <1>1, <1>3, PassesCold DEF StarterSteps
<1>4. CASE level = "pause"
  <2>1. Step("exists") /\ "exists" \in StarterSteps
    BY <1>1, <1>4 DEF Step, StarterSteps
  <2>. QED  BY <1>1, <2>1, PassesCold
<1>5. CASE level \notin {"compacting", "pause"}
  <2>1. Step("send") /\ "send" \in StarterSteps
    BY <1>1, <1>5 DEF Step, StarterSteps
  <2>. QED  BY <1>1, <1>2, <1>5, <2>1, PassesCold
<1>. QED  BY <1>3, <1>4, <1>5

LEMMA AskExistsStep ==
    ASSUME IInv, AskExists PROVE IInv'
<1> DEFINE t == starter.thread
<1>1. /\ TypeOK /\ starter.step = "exists" /\ t \in Threads
      /\ starter \in Handler /\ starter.since <= clock /\ Seen(t)
  BY DEF AskExists, IInv, StarterType, StarterInv
<1>2. CASE t \in alive
  <2>1. Quiet /\ Step("decide") /\ "decide" \in StarterSteps
    BY <1>2 DEF AskExists, Quiet, StarterSteps
  <2>. QED  BY <1>1, <2>1, PassesCold
<1>3. CASE t \notin alive
  <2>1. /\ Recorded(t, "missing") /\ Step("send")
        /\ UNCHANGED <<usage, begun, status, running, last, loaded, turns, alive,
                       compacting, modal, allowance, granted, hot, cut, orphans>>
    BY <1>3 DEF AskExists, server, runs, history
  <2>2. Grows
    BY <1>1, <2>1, RecordGrows DEF Kinds
  <2>3. /\ clock' = clock + 1 /\ clock' \in 0 .. MaxEvents
        /\ at' \in [Threads -> [Kinds -> 0 .. clock']]
        /\ silent' \in [Threads -> 0 .. 3]
        /\ at'[t]["missing"] = clock'
        /\ \A u \in Threads, j \in Kinds : u # t \/ j # "missing" => at'[u][j] = at[u][j]
    BY <1>1, <2>1, RecordedFacts DEF Kinds
  <2>4. /\ starter'.thread = t /\ starter'.token = starter.token
        /\ starter'.since = starter.since /\ starter'.step = "send"
        /\ starter' \in Handler
    BY <1>1, <2>1 DEF Step, Handler, StarterSteps
  <2>5. TypeOK'
    BY <1>1, <2>1, <2>3, <2>4 DEF TypeOK
  <2>6. StarterType'
    BY <1>1, <2>3, <2>4, TimesAreNat DEF StarterType, Handler
  <2>7. StarterInv'
    <3>1. Seen(t)'
      BY <1>1, <2>1, <2>3, <2>4 DEF Seen, Kinds
    <3>2. ASSUME NEW u \in Threads, u = t PROVE ~Hot(u)'
      <4>1. \A k \in Kinds : at'[u][k] \in Nat /\ at[u][k] \in Nat /\ at[u][k] <= clock
        BY <1>1, <2>5, TimesAreNat DEF TypeOK
      <4>2. ~HotIn(u)'
        BY <1>1, <2>3, <3>2, <4>1, TimesAreNat DEF HotIn, Kinds
      <4>. QED  BY <4>1, <4>2, HotFactsNext
    <3>. QED  BY <1>1, <2>4, <3>1, <3>2 DEF StarterInv
  <2>8. HotInv' /\ BusyInv'
    BY <2>1, <2>3 DEF IInv, HotInv, Allowed, BusyInv, Kinds
  <2>9. WatchInv'
    BY <1>3, <2>1, <2>3 DEF IInv, WatchInv, Kinds
  <2>. QED  BY <2>5, <2>6, <2>7, <2>8, <2>9 DEF IInv
<1>. QED  BY <1>2, <1>3

LEMMA DecideStep ==
    ASSUME IInv, Decide PROVE IInv'
<1> DEFINE t == starter.thread
<1>1. /\ TypeOK /\ starter.step = "decide" /\ t \in Threads
      /\ starter \in Handler /\ starter.since <= clock /\ Seen(t)
  BY DEF Decide, IInv, StarterType, StarterInv
<1>2. CASE t \notin allowance
  <2>1. Quiet /\ starter' = Free
    BY <1>2 DEF Decide, Quiet
  <2>. QED  BY <1>1, <2>1, PassesCold DEF StarterSteps
<1>3. CASE t \in allowance
  <2>1. /\ Step("send") /\ allowance' = allowance \ {t}
        /\ UNCHANGED <<clock, at, usage, begun, status, silent, running, last, loaded,
                       turns, alive, compacting, modal, granted, hot, cut, orphans>>
    BY <1>3 DEF Decide, events, server, runs, history
  <2>2. /\ starter'.thread = t /\ starter'.token = starter.token
        /\ starter'.since = starter.since /\ starter'.step = "send"
        /\ starter' \in Handler
    BY <1>1, <2>1 DEF Step, Handler, StarterSteps
  <2>3. TypeOK'
    BY <1>1, <2>1, <2>2 DEF TypeOK
  <2>4. StarterType'
    BY <1>1, <2>1, <2>2 DEF StarterType
  <2>5. /\ \A u \in Threads : hot[u] \in Nat /\ granted[u] \in Nat
        /\ hot[t] + 1 <= granted[t]
    BY <1>1, <1>3, GuardAssumption DEF IInv, HotInv, Allowed, TypeOK
  <2>6. StarterInv'
    <3>1. Seen(t)'
      BY <1>1, <2>1, <2>2 DEF Seen
    <3>2. Allowed(t)' = 0
      BY <2>1, <2>2 DEF Allowed
    <3>. QED  BY <1>1, <2>1, <2>2, <2>5, <3>1, <3>2 DEF StarterInv
  <2>7. HotInv'
    BY <1>1, <2>1, <2>5 DEF IInv, HotInv, Allowed
  <2>8. BusyInv' /\ WatchInv'
    BY <2>1 DEF IInv, BusyInv, WatchInv
  <2>. QED  BY <2>3, <2>4, <2>6, <2>7, <2>8 DEF IInv
<1>. QED  BY <1>2, <1>3

\* A turn that begins, of the handler or of a compaction.
LEMMA BeginTurnFacts ==
    ASSUME TypeOK, NEW t \in Threads, BeginTurn(t)
    PROVE  /\ Grows
           /\ clock' = clock + 1 /\ clock' \in 0 .. MaxEvents
           /\ at' \in [Threads -> [Kinds -> 0 .. clock']]
           /\ silent' \in [Threads -> 0 .. 3]
           /\ at'[t]["status"] = clock'
           /\ \A u \in Threads, j \in Kinds : u # t \/ j # "status" => at'[u][j] = at[u][j]
           /\ turns' \in 0 .. MaxTurns /\ turns' # 0
           /\ usage' \in [Threads -> [percent : Percents \cup {0}, turn : 0 .. turns',
                                      at : {0}]]
           /\ begun' \in [Threads -> 0 .. turns']
           /\ running' \in [Threads -> 0 .. turns']
           /\ last' \in [Threads -> {"none", "inProgress", "completed", "failed",
                                     "interrupted"}]
           /\ status' \in [Threads -> {"unknown", "active", "waiting", "idle",
                                       "systemError"}]
           /\ loaded' \subseteq Threads /\ orphans' \subseteq Threads
           /\ running' = [running EXCEPT ![t] = turns']
           /\ last' = [last EXCEPT ![t] = "inProgress"]
           /\ status' = [status EXCEPT ![t] = "active"]
           /\ loaded' = loaded \cup {t} /\ orphans' = orphans \ {t}
           /\ UNCHANGED usage
<1> USE DEF BeginTurn
<1>1. Recorded(t, "status") /\ UNCHANGED usage
  OBVIOUS
<1>2. Grows
  BY <1>1, RecordGrows DEF Kinds
<1>3. turns' \in 0 .. MaxTurns /\ turns' # 0 /\ turns \in Nat /\ turns' = turns + 1
  BY GuardAssumption DEF TypeOK
<1>4. /\ usage' \in [Threads -> [percent : Percents \cup {0}, turn : 0 .. turns',
                                 at : {0}]]
      /\ begun' \in [Threads -> 0 .. turns']
      /\ running' \in [Threads -> 0 .. turns']
  <2>1. 0 .. turns \subseteq 0 .. turns' /\ turns' \in 0 .. turns'
    BY <1>3
  <2>. QED  BY <2>1 DEF TypeOK
<1>5. /\ last' \in [Threads -> {"none", "inProgress", "completed", "failed",
                                 "interrupted"}]
      /\ status' \in [Threads -> {"unknown", "active", "waiting", "idle",
                                   "systemError"}]
      /\ loaded' \subseteq Threads /\ orphans' \subseteq Threads
  BY DEF TypeOK
<1>. QED  BY <1>1, <1>2, <1>3, <1>4, <1>5, RecordedFacts DEF Kinds

LEMMA SendTurnStep ==
    ASSUME IInv, SendTurn PROVE IInv'
<1> DEFINE t == starter.thread
<1>1. /\ TypeOK /\ t \in Threads /\ starter' = Free
      /\ Hot(t) => hot[t] + Allowed(t) + 1 <= granted[t]
      /\ UNCHANGED <<alive, allowance, granted>>
  BY DEF SendTurn, IInv, StarterType, StarterInv
<1>2. StarterType' /\ StarterInv'
  <2>1. clock' \in Nat
    BY <1>1, BeginTurnFacts, TimesAreNat DEF SendTurn, events
  <2>. QED  BY <1>1, <2>1, GuardAssumption
       DEF StarterType, StarterInv, Free, NoToken, Handler, Tokens, StarterSteps
<1>3. CASE t \notin alive
  <2>1. UNCHANGED <<clock, at, usage, begun, status, silent, running, last, loaded,
                    turns, hot, cut, orphans, compacting, modal>>
    BY <1>3 DEF SendTurn, events, runs
  <2>2. TypeOK'
    BY <1>1, <2>1 DEF TypeOK, Free
  <2>3. HotInv' /\ BusyInv' /\ WatchInv'
    BY <1>1, <2>1 DEF IInv, HotInv, Allowed, BusyInv, WatchInv
  <2>. QED  BY <1>2, <2>2, <2>3 DEF IInv
<1>4. CASE t \in alive
  <2>1. /\ BeginTurn(t)
        /\ hot' = [hot EXCEPT ![t] = @ + (IF Hot(t) THEN 1 ELSE 0)]
        /\ cut' = cut \cup (compacting \cap {t})
        /\ compacting' = compacting \ {t}
        /\ modal' = modal \ {t}
    BY <1>4 DEF SendTurn
  <2>2. TypeOK'
    <3>1. hot' \in [Threads -> Nat]
      BY <1>1, <2>1 DEF TypeOK
    <3>. QED  BY <1>1, <2>1, <3>1, BeginTurnFacts DEF TypeOK, Free
  <2>3. HotInv'
    BY <1>1, <2>1, GuardAssumption DEF IInv, HotInv, Allowed, TypeOK
  <2>4. BusyInv'
    BY <1>1, <2>1, BeginTurnFacts DEF IInv, BusyInv, Kinds
  <2>5. WatchInv'
    <3>1. \A k \in Kinds : at'[t][k] <= clock'
      BY <1>1, <2>1, BeginTurnFacts
    <3>. QED  BY <1>1, <1>4, <2>1, <3>1, BeginTurnFacts DEF IInv, WatchInv, TypeOK, Kinds
  <2>. QED  BY <1>2, <2>2, <2>3, <2>4, <2>5 DEF IInv
<1>. QED  BY <1>3, <1>4

-----------------------------------------------------------------------------
(* Decisions of the user.                                                  *)

LEMMA ContinueOnceStep ==
    ASSUME IInv, NEW t \in Threads, ContinueOnce(t) PROVE IInv'
<1> USE DEF ContinueOnce, events, server, runs
<1>1. \A u \in Threads : hot[u] \in Nat /\ granted[u] \in Nat
  BY GuardAssumption DEF IInv, TypeOK
<1>2. TypeOK'
  BY GuardAssumption DEF IInv, TypeOK
<1>3. StarterType'
  BY DEF IInv, StarterType
<1>4. HotInv'
  BY <1>1 DEF IInv, HotInv, Allowed, TypeOK
<1>5. StarterInv'
  <2>1. ASSUME starter.step = "send", Hot(starter.thread)'
        PROVE  hot[starter.thread] + Allowed(starter.thread)' + 1
                   <= granted'[starter.thread]
    <3>1. starter.thread \in Threads /\ Hot(starter.thread)
      BY <2>1 DEF IInv, StarterType, Hot, MissingAt, CompletedAt
    <3>. QED  BY <1>1, <2>1, <3>1 DEF IInv, StarterInv, Allowed, TypeOK
  <2>2. starter.step # "free" => Seen(starter.thread)'
    BY DEF IInv, StarterInv, Seen
  <2>. QED  BY <2>1, <2>2 DEF StarterInv
<1>6. BusyInv' /\ WatchInv'
  BY DEF IInv, BusyInv, WatchInv
<1>. QED  BY <1>2, <1>3, <1>4, <1>5, <1>6 DEF IInv

LEMMA CompactThreadStep ==
    ASSUME IInv, NEW t \in Threads, CompactThread(t) PROVE IInv'
<1>1. TypeOK /\ UNCHANGED <<allowance, starter, granted, hot, cut>>
  BY DEF CompactThread, IInv
<1>2. CASE t \notin alive
  <2>1. /\ Recorded(t, "missing")
        /\ UNCHANGED <<usage, begun, status, running, last, loaded, turns, alive,
                       compacting, modal, orphans>>
    BY <1>2 DEF CompactThread, server, runs
  <2>2. Grows
    BY <1>1, <2>1, RecordGrows DEF Kinds
  <2>3. /\ clock' \in 0 .. MaxEvents
        /\ at' \in [Threads -> [Kinds -> 0 .. clock']]
        /\ silent' \in [Threads -> 0 .. 3]
        /\ \A u \in Threads, j \in Kinds : u # t \/ j # "missing" => at'[u][j] = at[u][j]
    BY <1>1, <2>1, RecordedFacts DEF Kinds
  <2>4. TypeOK'
    BY <1>1, <2>1, <2>3 DEF TypeOK
  <2>5. BusyInv' /\ WatchInv'
    BY <1>1, <1>2, <2>1, <2>3 DEF IInv, BusyInv, WatchInv, Kinds
  <2>. QED  BY <1>1, <2>2, <2>4, <2>5, AsideKeeps DEF IInv, Aside
<1>3. CASE t \in alive
  <2>1. BeginTurn(t) /\ UNCHANGED <<alive, compacting, modal>>
    BY <1>3 DEF CompactThread
  <2>2. TypeOK'
    BY <1>1, <2>1, BeginTurnFacts DEF TypeOK
  <2>3. BusyInv'
    BY <1>1, <2>1, BeginTurnFacts DEF IInv, BusyInv, Kinds
  <2>4. WatchInv'
    <3>1. \A k \in Kinds : at'[t][k] <= clock'
      BY <1>1, <2>1, BeginTurnFacts
    <3>. QED  BY <1>1, <1>3, <2>1, <3>1, BeginTurnFacts DEF IInv, WatchInv, TypeOK, Kinds
  <2>. QED  BY <1>1, <2>1, <2>2, <2>3, <2>4, BeginTurnFacts, AsideKeeps DEF IInv, Aside
<1>. QED  BY <1>2, <1>3

LEMMA InterruptStep ==
    ASSUME IInv, NEW t \in Threads, InterruptTurn(t) PROVE IInv'
<1> USE DEF InterruptTurn
<1>1. Recorded(t, "status") /\ TypeOK
  BY DEF IInv
<1>2. Grows
  BY <1>1, RecordGrows DEF Kinds
<1>3. /\ clock' = clock + 1 /\ clock' \in 0 .. MaxEvents
      /\ at' \in [Threads -> [Kinds -> 0 .. clock']]
      /\ silent' \in [Threads -> 0 .. 3]
      /\ at'[t]["status"] = clock'
      /\ \A u \in Threads, j \in Kinds : u # t \/ j # "status" => at'[u][j] = at[u][j]
  BY <1>1, RecordedFacts DEF Kinds
<1>4. TypeOK'
  BY <1>1, <1>3 DEF TypeOK
<1>5. BusyInv'
  BY <1>1, <1>3 DEF IInv, BusyInv, Kinds
<1>6. WatchInv'
  BY <1>1, <1>3, TimesAreNat DEF IInv, WatchInv, TypeOK, Kinds
<1>. QED  BY <1>1, <1>2, <1>4, <1>5, <1>6, AsideKeeps DEF IInv, Aside

-----------------------------------------------------------------------------
LEMMA InitInv == Init => IInv
<1> SUFFICES ASSUME Init PROVE IInv
  OBVIOUS
<1> USE GuardAssumption DEF Init
<1>1. TypeOK
  BY DEF TypeOK, NoToken, Free
<1>2. StarterType /\ StarterInv
  BY DEF StarterType, StarterInv, Free, NoToken, Handler, Tokens, StarterSteps
<1>3. HotInv /\ BusyInv /\ WatchInv
  BY DEF HotInv, Allowed, BusyInv, WatchInv, Kinds
<1>. QED  BY <1>1, <1>2, <1>3 DEF IInv

LEMMA StutterInv == IInv /\ UNCHANGED vars => IInv'
  BY DEF vars, events, server, runs, history, IInv, TypeOK, StarterType, StarterInv,
         Seen, Hot, MissingAt, CompletedAt, HotInv, Allowed, BusyInv, WatchInv

LEMMA NextInv == IInv /\ Next => IInv'
<1> SUFFICES ASSUME IInv, Next PROVE IInv'
  OBVIOUS
<1>1. CASE Serve
  BY <1>1, ReadMissingStep, ReadCompletedStep, ReadRunningStep, AskExistsStep,
     DecideStep, SendTurnStep DEF Serve
<1>2. CASE ServerExits \/ SidecarRestarts \/ TimePasses
  BY <1>2, ServerExitsStep, SidecarRestartsStep, TimePassesStep
<1>3. ASSUME NEW t \in Threads, ReadToken(t) \/ Decision(t)
      PROVE  IInv'
  BY <1>3, ReadTokenStep, ContinueOnceStep, CompactThreadStep, InterruptStep DEF Decision
<1>4. ASSUME NEW t \in Threads,
             \/ BeginCompaction(t) \/ OtherNotification(t) \/ Approved(t)
             \/ \E flagged \in BOOLEAN : AskApproval(t, flagged)
             \/ \E end \in {"completed", "failed"} : EndTurn(t, end)
             \/ \E p \in Percents : ReportUsage(t, p)
             \/ \E k \in Kinds : EndCompaction(t, k)
      PROVE  IInv'
  BY <1>4, BeginCompactionStep, OtherStep, ApprovedStep, AskApprovalStep, EndTurnStep,
     ReportUsageStep, EndCompactionStep
<1>. QED  BY <1>1, <1>2, <1>3, <1>4 DEF Next

\* The inductive invariant.
THEOREM Invariant == Spec => []IInv
<1>1. IInv /\ [Next]_vars => IInv'
  BY NextInv, StutterInv
<1>. QED  BY InitInv, <1>1, PTL DEF Spec

\* The state of the guard, of the app-server's threads and of the one handler
\* that starts a turn has its type, for any threads.
THEOREM TypeCorrect == Spec => []TypeOK
<1>1. IInv => TypeOK
  BY DEF IInv
<1>. QED  BY Invariant, <1>1, PTL

\* For any number of threads, turns and decisions, a decision to continue lets
\* one hot turn through (allow_context_guard_continue_once), however the four
\* reads of the log, the decisions and the notifications interleave.
THEOREM HotTurnsAllowed == Spec => []HotTurnsAreAllowed
<1>1. IInv => HotTurnsAreAllowed
  BY DEF IInv, HotInv, Allowed, HotTurnsAreAllowed
<1>. QED  BY Invariant, <1>1, PTL

\* The guard takes a compaction to be running only if it is, or was cut off, and
\* the supervisor explains each refusal (_latest_running_compaction, _guard).
THEOREM RefusalsExplained == Spec => []RefusalsAreExplained
<1>1. IInv => RefusalsAreExplained
  <2> SUFFICES ASSUME IInv PROVE RefusalsAreExplained
    OBVIOUS
  <2>1. TypeOK
    BY DEF IInv
  <2>2. ASSUME NEW t \in Threads, Level(t) = "compacting"
        PROVE  t \in compacting \cup cut
    <3>1. RunningCompaction(t) # 0
      BY <2>2 DEF Level, Judged
    <3>2. at[t]["started"] > CompletedAt(t)
      BY <3>1 DEF RunningCompaction
    <3>3. at[t]["started"] > at[t]["completed"] /\ at[t]["started"] > at[t]["compacted"]
      BY <2>1, <3>2, LatestTimes, TimesAreNat DEF Kinds
    <3>. QED  BY <3>3 DEF IInv, BusyInv
  <2>3. ASSUME NEW t \in Threads, Level(t) = "pause"
        PROVE  Guard(t) \in {"pause", "approval_wait"}
    <3>1. /\ LatestToken(t).percent = usage[t].percent
          /\ LatestToken(t).at = at[t]["usage"]
      BY <2>1 DEF LatestToken, TypeOK
    <3>2. usage[t].percent >= 90 /\ ~(CompletedAt(t) > at[t]["usage"])
      BY <2>3, <3>1 DEF Level, Judged
    <3>3. ~(at[t]["completed"] > at[t]["usage"])
      BY <2>1, <3>2, LatestTimes, TimesAreNat DEF Kinds
    <3>. QED  BY <3>2, <3>3 DEF Guard, Percent
  <2>. QED  BY <2>2, <2>3 DEF RefusalsAreExplained, BlockedMeansBusy, RefusalIsShown
<1>. QED  BY Invariant, <1>1, PTL

\* The watchdog tells stalled turns from those that wait for the user or have
\* ended, and a failure is not shown as idle (_turn_watchdog,
\* _latest_runtime_error), for any threads.
THEOREM TurnsWatched == Spec => []TurnsAreWatched
<1>1. IInv => TurnsAreWatched
  <2> SUFFICES ASSUME IInv, NEW t \in Threads
               PROVE  /\ running[t] # 0 /\ silent[t] = 3 /\ t \notin modal
                            => Watchdog(t) = "pause"
                      /\ Watchdog(t) = "pause"
                            => t \notin modal /\ (running[t] # 0 \/ t \in orphans)
                      /\ last[t] = "failed"
                            => RuntimeError(t) /\ ShownStatus(t) \notin {"idle", "active"}
    BY DEF TurnsAreWatched, StallsAreTold, FailuresAreShown
  <2>1. TypeOK /\ WatchInv
    BY DEF IInv
  <2>2. /\ MissingAt(t) \in Nat /\ StatusAt(t) \in Nat
        /\ StatusAt(t) >= at[t]["status"] /\ StatusAt(t) >= at[t]["failed"]
        /\ at[t]["status"] \in Nat /\ at[t]["failed"] \in Nat
    BY <2>1, LatestTimes, TimesAreNat DEF MissingAt, Kinds
  <2>3. ASSUME running[t] # 0, silent[t] = 3, t \notin modal
        PROVE  Watchdog(t) = "pause"
    <3>1. ~StaleFailure(t)
      BY <2>1, <2>3 DEF WatchInv, StaleFailure
    <3>2. ~(MissingAt(t) > StatusAt(t))
      BY <2>1, <2>2, <2>3 DEF WatchInv, MissingAt
    <3>3. ShownStatus(t) = "active"
      BY <2>1, <2>3, <3>1, <3>2 DEF WatchInv, ShownStatus, ThreadStatus
    <3>. QED  BY <2>3, <3>3 DEF Watchdog, Active, Waiting
  <2>4. ASSUME Watchdog(t) = "pause"
        PROVE  t \notin modal /\ (running[t] # 0 \/ t \in orphans)
    <3>1. Active(t) /\ ~Waiting(t)
      BY <2>4 DEF Watchdog
    <3>2. status[t] \in {"active", "waiting"}
      BY <3>1 DEF Active, ShownStatus, ThreadStatus
    <3>. QED  BY <2>1, <3>1, <3>2 DEF WatchInv, Waiting
  <2>5. ASSUME last[t] = "failed"
        PROVE  RuntimeError(t) /\ ShownStatus(t) \notin {"idle", "active"}
    <3>1. ~StaleFailure(t)
      BY <2>5 DEF StaleFailure
    <3>. QED  BY <2>1, <2>5, <3>1 DEF WatchInv, RuntimeError, ShownStatus, ThreadStatus
  <2>. QED  BY <2>3, <2>4, <2>5
<1>. QED  BY Invariant, <1>1, PTL
=============================================================================
