---------------------------- MODULE WorkbenchProofs ----------------------------
(***************************************************************************)
(* Proofs about requests that change the files of a workspace together:    *)
(* the list of images, the ledger, the threads, what a turn is sent, and   *)
(* the registry of assets.  Each part has an inductive invariant of its    *)
(* own over the invariant of the workers (WorkInv: what a worker at a step *)
(* is serving), and a step is looked at by who takes it: the request that  *)
(* the part is about, another one, or a crash.                             *)
(***************************************************************************)
EXTENDS Workbench, FiniteSetTheorems, SequenceTheorems, WellFoundedInduction, TLAPS

-----------------------------------------------------------------------------
(* What the workers serve.                                                 *)

Kind(w) == task[w].kind
Registering == {"look", "mark", "unmark", "promote"}
Noting == {"smoke", "milestone", "capture"}

\* The steps at which a request may be.
Serves(r, s) ==
    /\ s = "idle" => r = Idle
    /\ s \in {"post", "drawn", "fetch", "usage", "count"} => r.kind = "draw"
    /\ r.kind = "draw" =>
          /\ s \in {"post", "drawn", "fetch", "rebuild", "built", "usage", "count"}
          /\ s \in {"rebuild", "built", "usage", "count"} => r.tool
    /\ s \in {"rebuild", "built"} => r.kind \in {"draw", "rebuild"} \cup Registering
    /\ s \in {"snapshot", "normalise"} => r.kind \in Registering
    /\ s = "write" => r.kind \in {"mark", "unmark"}
    /\ s \in {"copy", "place", "enter"} => r.kind = "promote"
    /\ s \in {"ledger", "record"} => r.kind \in Noting
    /\ s = "browse" => r.kind = "smoke"
    /\ s \in {"check", "again", "reload", "sync"} => r.kind = "milestone"
    /\ s = "save" => r.kind = "save"
    /\ s \in {"start", "join"} => r.kind \in {"fork", "handoff"}
    /\ s \in {"ask", "turns", "keep"} => r.kind \in {"read", "fork"}
    /\ s = "hint" => r.kind \in {"read", "fork", "handoff"}
    /\ s = "plans" => r.kind = "plan"
    /\ s = "plan" => r.kind \in {"plan", "read", "fork", "handoff"}

WorkInv ==
    /\ asked \in Nat
    /\ pc = [w \in Workers |-> pc[w]]
    /\ task \in [Workers -> Requests \cup {Idle}]
    /\ \A w \in Workers : Serves(task[w], pc[w])

\* The requests of each kind.
LEMMA RequestKinds ==
    ASSUME NEW r \in Requests
    PROVE  /\ r.kind = "draw" => r \in Draws
           /\ r.kind \in {"mark", "unmark"} => r \in MarkRequests
           /\ r.kind = "promote" => r \in Promotions
           /\ r.kind = "smoke" => r \in Smokes
           /\ r.kind = "milestone" => r \in Milestones
           /\ r.kind = "read" => r \in Reads
           /\ r.kind = "plan" => r \in Plans
           /\ r.kind = "fork" => r \in Forks
           /\ r.kind = "handoff" => r \in Handoffs
           /\ r.kind \in {"draw", "rebuild", "save"} \cup Registering \cup Noting
                         \cup {"read", "plan", "fork", "handoff"}
BY RequestAssumption, SMTT(30)
DEF Draws, MarkRequests, Promotions, Looks, Rebuilds, Smokes, Milestones, Captures, Saves,
    ThreadRequests, Reads, Plans, Forks, Handoffs, Registering, Noting

\* The steps that follow one another.
LEMMA Moves ==
    ASSUME NEW r, NEW s, Serves(r, s)
    PROVE  /\ s = "post" => Serves(r, "drawn")
           /\ s = "drawn" => Serves(r, "fetch")
           /\ s = "fetch" /\ r.tool => Serves(r, "rebuild")
           /\ s = "rebuild" => Serves(r, "built")
           /\ s = "built" /\ r.kind = "draw" => Serves(r, "usage")
           /\ s = "built" /\ r.kind \notin {"draw", "rebuild"} => Serves(r, "snapshot")
           /\ s = "snapshot" => Serves(r, "rebuild") /\ Serves(r, "normalise")
           /\ s = "normalise" /\ r.kind # "look" =>
                 Serves(r, IF r.kind = "promote" THEN "copy" ELSE "write")
           /\ s = "copy" => Serves(r, "place")
           /\ s = "place" => Serves(r, "enter")
           /\ s = "ledger" => Serves(r, IF r.kind = "smoke" THEN "browse" ELSE "record")
           /\ s = "browse" => Serves(r, "record")
           /\ s = "record" /\ r.kind = "milestone" => Serves(r, "check")
           /\ s = "check" => Serves(r, "again")
           /\ s \in {"check", "again"} => Serves(r, "reload")
           /\ s = "reload" => Serves(r, "sync")
           /\ s = "usage" => Serves(r, "count")
           /\ s = "start" => Serves(r, "hint")
           /\ s = "join" /\ r.kind = "fork" => Serves(r, "ask")
           /\ s = "ask" => Serves(r, IF r.kind = "fork" THEN "turns" ELSE "hint") /\ Serves(r, "turns")
           /\ s \in {"hint", "plans"} => Serves(r, "plan")
           /\ s = "plan" /\ r.kind # "plan" => Serves(r, IF r.kind = "read" THEN "turns" ELSE "join")
           /\ s = "turns" => Serves(r, "keep")
BY SMTT(60) DEF Serves, Registering, Noting

LEMMA IdleServes == Serves(Idle, "idle")
BY DEF Serves, Idle, Registering, Noting

\* A step of a worker is no step of another.
OnlyMoves(w) ==
    /\ asked' >= asked
    /\ \A v \in Workers : v # w => pc'[v] = pc[v] /\ task'[v] = task[v]

LEMMA Changes ==
    ASSUME NEW w \in Workers, NEW r \in Requests \cup {Idle}, NEW s, WorkInv,
           pc' = [pc EXCEPT ![w] = s], task' = [task EXCEPT ![w] = r],
           asked' \in Nat, asked' >= asked,
           Serves(r, s)
    PROVE  WorkInv' /\ OnlyMoves(w) /\ pc'[w] = s /\ task'[w] = r
<1>1. (pc = [v \in Workers |-> pc[v]])'
  BY DEF WorkInv
<1>2. (task \in [Workers -> Requests \cup {Idle}])'
  BY DEF WorkInv
<1>3. ASSUME NEW v \in Workers PROVE Serves(task[v], pc[v])'
  <2>1. CASE v = w
    BY <2>1 DEF WorkInv
  <2>2. CASE v # w
    <3>1. task'[v] = task[v] /\ pc'[v] = pc[v]
      BY <2>2 DEF WorkInv
    <3> QED
      BY <3>1 DEF WorkInv
  <2> QED
    BY <2>1, <2>2
<1>4. pc'[w] = s /\ task'[w] = r
  BY DEF WorkInv
<1>5. OnlyMoves(w)
  BY DEF WorkInv, OnlyMoves
<1> QED
  BY <1>1, <1>2, <1>3, <1>4, <1>5 DEF WorkInv

LEMMA Goes ==
    ASSUME NEW w \in Workers, NEW s, WorkInv, Goto(w, s), asked' = asked, task' = task,
           Serves(task[w], s)
    PROVE  WorkInv' /\ OnlyMoves(w) /\ pc'[w] = s /\ task'[w] = task[w]
<1>1. task[w] \in Requests \cup {Idle} /\ task = [task EXCEPT ![w] = task[w]] /\ asked' \in Nat /\ asked' >= asked
  BY DEF WorkInv
<1> QED
  BY <1>1, Changes DEF Goto

LEMMA WorkEnds ==
    ASSUME NEW w \in Workers, WorkInv, Done(w), asked' = asked
    PROVE  WorkInv' /\ OnlyMoves(w) /\ pc'[w] = "idle" /\ task'[w] = Idle
<1>1. asked' \in Nat /\ asked' >= asked
  BY DEF WorkInv
<1> QED
  BY <1>1, IdleServes, Changes DEF Done, Goto

LEMMA Takes ==
    ASSUME NEW w \in Workers, NEW r \in Requests, NEW s, WorkInv, Take(w, r, s),
           Serves(r, s)
    PROVE  /\ WorkInv' /\ OnlyMoves(w) /\ pc'[w] = s /\ task'[w] = r
           /\ At(w, "idle") /\ task[w] = Idle /\ asked' = asked + 1
<1>1. asked' \in Nat /\ asked' >= asked /\ asked' = asked + 1
  BY DEF WorkInv, Take
<1> QED
  BY <1>1, Changes DEF Take, Goto, WorkInv, Serves, At

LEMMA SameWork ==
    ASSUME WorkInv, UNCHANGED <<pc, task, asked>>
    PROVE  WorkInv'
BY DEF WorkInv

LEMMA WorkStarts == Init => WorkInv
<1>1. [w \in Workers |-> Idle] \in [Workers -> Requests \cup {Idle}]
  OBVIOUS
<1> QED
  BY <1>1, IdleServes DEF Init, WorkInit, WorkInv

RegistrySteps == {"rebuild", "built", "snapshot", "normalise", "write", "copy", "place", "enter"}
RunSteps == {"ledger", "browse", "record", "check", "again", "reload", "sync", "save"}
ThreadSteps == {"ask", "plans", "start", "hint", "plan", "turns", "keep", "join"}

LEMMA AskMoves ==
    ASSUME NEW w \in Workers, NEW r \in Requests, WorkInv, Ask(w, r)
    PROVE  /\ WorkInv' /\ OnlyMoves(w)
           /\ At(w, "idle") /\ task[w] = Idle /\ task'[w] = r /\ asked' = asked + 1
           /\ BeginDraw(w, r) /\ r \in Draws => pc'[w] = "post"
           /\ r \in MarkRequests \cup Promotions \cup Looks \cup Rebuilds /\ BeginRegistry(w, r) =>
                 pc'[w] \in {"rebuild", "snapshot"} /\ r.kind \in {"rebuild"} \cup Registering
           /\ r \in Smokes \cup Milestones \cup Captures \cup Saves /\ BeginRun(w, r) =>
                 pc'[w] \in {"ledger", "save"} /\ r.kind \in {"save"} \cup Noting
           /\ r \in ThreadRequests /\ BeginThread(w, r) =>
                 /\ r.kind \in {"read", "plan", "fork", "handoff"}
                 /\ pc'[w] = CASE r.kind = "read" -> "ask" [] r.kind = "plan" -> "plans" [] OTHER -> "start"
<1> USE DEF Registering, Noting
<1>1. ASSUME BeginDraw(w, r), r \in Draws
      PROVE  /\ WorkInv' /\ OnlyMoves(w) /\ pc'[w] = "post"
             /\ At(w, "idle") /\ task[w] = Idle /\ task'[w] = r /\ asked' = asked + 1
  <2>1. Serves(r, "post")
    BY <1>1 DEF Draws, Serves
  <2> QED
    BY <1>1, <2>1, Takes DEF BeginDraw
<1>2. ASSUME BeginRegistry(w, r), r \in MarkRequests \cup Promotions \cup Looks \cup Rebuilds
      PROVE  /\ WorkInv' /\ OnlyMoves(w)
             /\ At(w, "idle") /\ task[w] = Idle /\ task'[w] = r /\ asked' = asked + 1
             /\ pc'[w] \in {"rebuild", "snapshot"} /\ r.kind \in {"rebuild"} \cup Registering
  <2> DEFINE s == IF r.kind = "rebuild" THEN "rebuild" ELSE "snapshot"
  <2>1. Serves(r, s)
    BY <1>2 DEF MarkRequests, Promotions, Looks, Rebuilds, Serves
  <2>2. Take(w, r, s)
    BY <1>2 DEF BeginRegistry
  <2>3. s \in {"rebuild", "snapshot"} /\ r.kind \in {"rebuild"} \cup Registering
    BY <1>2 DEF MarkRequests, Promotions, Looks, Rebuilds
  <2> HIDE DEF s
  <2> QED
    BY <2>1, <2>2, <2>3, Takes
<1>3. ASSUME BeginRun(w, r), r \in Smokes \cup Milestones \cup Captures \cup Saves
      PROVE  /\ WorkInv' /\ OnlyMoves(w)
             /\ At(w, "idle") /\ task[w] = Idle /\ task'[w] = r /\ asked' = asked + 1
             /\ pc'[w] \in {"ledger", "save"} /\ r.kind \in {"save"} \cup Noting
  <2> DEFINE s == IF r.kind = "save" THEN "save" ELSE "ledger"
  <2>1. Serves(r, s)
    BY <1>3 DEF Smokes, Milestones, Captures, Saves, Serves
  <2>2. Take(w, r, s)
    BY <1>3 DEF BeginRun
  <2>3. s \in {"ledger", "save"} /\ r.kind \in {"save"} \cup Noting
    BY <1>3 DEF Smokes, Milestones, Captures, Saves
  <2> HIDE DEF s
  <2> QED
    BY <2>1, <2>2, <2>3, Takes
<1>4. ASSUME BeginThread(w, r), r \in ThreadRequests
      PROVE  /\ WorkInv' /\ OnlyMoves(w)
             /\ At(w, "idle") /\ task[w] = Idle /\ task'[w] = r /\ asked' = asked + 1
             /\ r.kind \in {"read", "plan", "fork", "handoff"}
             /\ pc'[w] = CASE r.kind = "read" -> "ask" [] r.kind = "plan" -> "plans" [] OTHER -> "start"
  <2> DEFINE s == CASE r.kind = "read" -> "ask" [] r.kind = "plan" -> "plans" [] OTHER -> "start"
  <2>1. Serves(r, s)
    BY <1>4 DEF ThreadRequests, Reads, Plans, Forks, Handoffs, Serves
  <2>2. Take(w, r, s)
    BY <1>4 DEF BeginThread
  <2>3. r.kind \in {"read", "plan", "fork", "handoff"}
    BY <1>4 DEF ThreadRequests, Reads, Plans, Forks, Handoffs
  <2> HIDE DEF s
  <2>4. pc'[w] = s /\ WorkInv' /\ OnlyMoves(w) /\ At(w, "idle") /\ task[w] = Idle /\ task'[w] = r
        /\ asked' = asked + 1
    BY <2>1, <2>2, Takes
  <2> QED
    BY <2>3, <2>4 DEF s
<1> QED
  BY <1>1, <1>2, <1>3, <1>4 DEF Ask

\* What stays of its request when a worker is done: nothing, and a draw of a
\* tool ends otherwise.
Stays(w) == task'[w] = task[w] \/ (task'[w] = Idle /\ pc'[w] = "idle")

LEMMA DrawMoves ==
    ASSUME NEW w \in Workers, WorkInv, DrawStep(w)
    PROVE  /\ WorkInv' /\ OnlyMoves(w) /\ Stays(w) /\ asked' = asked
           /\ In(w, {"post", "drawn", "fetch"})
           /\ pc'[w] \in {"post", "drawn", "fetch", "rebuild", "idle"}
<1> USE DEF In
<1>a. Serves(task[w], pc[w])
  BY DEF WorkInv
<1>1. CASE Answered(w)
  BY <1>a, Moves, <1>1, Goes DEF Answered, At, bounds, Stays
<1>2. CASE TryAgain(w)
  <2>1. WorkInv' /\ OnlyMoves(w) /\ asked' = asked
    BY <1>2 DEF TryAgain, work, WorkInv, OnlyMoves
  <2> QED
    BY <1>2, <2>1 DEF TryAgain, work, At, Stays
<1>3. CASE GiveUp(w)
  BY <1>3, WorkEnds DEF GiveUp, bounds, At, Stays
<1>4. CASE ReadList(w)
  BY <1>a, Moves, <1>4, Goes DEF ReadList, At, bounds, Stays
<1>5. CASE WriteList(w)
  BY <1>a, Moves, <1>5, Goes, WorkEnds DEF WriteList, EndDraw, At, bounds, Stays
<1> QED
  BY <1>1, <1>2, <1>3, <1>4, <1>5 DEF DrawStep

LEMMA RegistryMoves ==
    ASSUME NEW w \in Workers, WorkInv, RegistryStep(w)
    PROVE  /\ WorkInv' /\ OnlyMoves(w) /\ Stays(w) /\ asked' = asked
           /\ pc[w] \in RegistrySteps
           /\ pc'[w] \in RegistrySteps \cup {"usage", "idle"}
           /\ pc'[w] = "idle" => Kind(w) # "draw"
<1> USE DEF RegistrySteps, Stays
<1>a. Serves(task[w], pc[w])
  BY DEF WorkInv
<1>1. CASE ReadSources(w)
  BY <1>a, Moves, <1>1, Goes DEF ReadSources, At, bounds
<1>2. CASE WriteBuilt(w)
  <2>1. CASE Kind(w) = "draw"
    BY <1>a, Moves, <1>2, <2>1, Goes DEF WriteBuilt, AfterRebuild, At, bounds, Kind
  <2>2. CASE Kind(w) = "rebuild"
    BY <1>2, <2>2, WorkEnds DEF WriteBuilt, AfterRebuild, bounds, Kind, At
  <2>3. CASE Kind(w) \notin {"draw", "rebuild"}
    BY <1>a, Moves, <1>2, <2>3, Goes DEF WriteBuilt, AfterRebuild, At, bounds, Kind
  <2> QED
    BY <2>1, <2>2, <2>3
<1>3. CASE ReadRegistry(w)
  BY <1>a, Moves, <1>3, Goes DEF ReadRegistry, At, bounds
<1>4. CASE Normalise(w)
  <2>1. CASE Possible(w)
    BY <1>a, Moves, <1>4, <2>1, Goes DEF Normalise, Possible, Known, At, bounds
  <2>2. CASE ~Possible(w)
    <3>1. Kind(w) # "draw"
      BY <1>a, <1>4 DEF Normalise, At, Kind, Serves, Registering
    <3> QED
      BY <1>4, <2>2, <3>1, WorkEnds DEF Normalise, bounds, At
  <2> QED
    BY <2>1, <2>2
<1>5. CASE Mark(w)
  <2>1. Kind(w) # "draw"
    BY <1>a, <1>5 DEF Mark, At, Kind, Serves
  <2> QED
    BY <1>5, <2>1, WorkEnds DEF Mark, WriteEntry, bounds, At
<1>6. CASE CopyFile(w)
  BY <1>a, Moves, <1>6, Goes DEF CopyFile, At, bounds
<1>7. CASE PlaceSprite(w)
  BY <1>a, Moves, <1>7, Goes DEF PlaceSprite, At, bounds
<1>8. CASE EnterPromotion(w)
  <2>1. Kind(w) # "draw"
    BY <1>a, <1>8 DEF EnterPromotion, At, Kind, Serves
  <2> QED
    BY <1>8, <2>1, WorkEnds DEF EnterPromotion, WriteEntry, bounds, At
<1> QED
  BY <1>1, <1>2, <1>3, <1>4, <1>5, <1>6, <1>7, <1>8 DEF RegistryStep

LEMMA RunMoves ==
    ASSUME NEW w \in Workers, WorkInv, RunStep(w)
    PROVE  /\ WorkInv' /\ OnlyMoves(w) /\ Stays(w) /\ asked' = asked
           /\ pc[w] \in RunSteps
           /\ pc'[w] \in RunSteps \cup {"idle"}
<1> USE DEF RunSteps, Stays
<1>a. Serves(task[w], pc[w])
  BY DEF WorkInv
<1>1. CASE ReadLedger(w)
  BY <1>a, Moves, <1>1, Goes DEF ReadLedger, At, bounds
<1>2. CASE Browse(w)
  BY <1>a, Moves, <1>2, Goes DEF Browse, At, bounds
<1>3. CASE Record(w)
  BY <1>a, Moves, <1>3, Goes, WorkEnds DEF Record, Synced, EndRun, At, bounds
<1>4. CASE CheckSummary(w)
  BY <1>a, Moves, <1>4, Goes, WorkEnds DEF CheckSummary, EndMilestone, EndRun, At, bounds
<1>5. CASE RepairSummary(w)
  BY <1>a, Moves, <1>5, Goes, WorkEnds DEF RepairSummary, EndMilestone, EndRun, At, bounds
<1>6. CASE ReadSummary(w)
  BY <1>a, Moves, <1>6, Goes DEF ReadSummary, At, bounds
<1>7. CASE SyncSummary(w)
  BY <1>7, WorkEnds DEF SyncSummary, EndRun, bounds, At
<1>8. CASE SaveDraft(w)
  BY <1>8, WorkEnds DEF SaveDraft, EndRun, bounds, At
<1> QED
  BY <1>1, <1>2, <1>3, <1>4, <1>5, <1>6, <1>7, <1>8 DEF RunStep

LEMMA ThreadMoves ==
    ASSUME NEW w \in Workers, WorkInv, ThreadStep(w)
    PROVE  /\ WorkInv' /\ OnlyMoves(w) /\ Stays(w) /\ asked' = asked
           /\ pc[w] \in ThreadSteps
           /\ pc'[w] \in ThreadSteps \cup {"idle"}
<1> USE DEF ThreadSteps, Stays
<1>a. Serves(task[w], pc[w])
  BY DEF WorkInv
<1>1. CASE StartThread(w)
  BY <1>a, Moves, <1>1, Goes DEF StartThread, At, bounds
<1>2. CASE Join(w)
  BY <1>a, Moves, <1>2, Goes, WorkEnds DEF Join, EndThread, At, bounds
<1>3. CASE Answer(w)
  BY <1>a, Moves, <1>3, Goes DEF Answer, At, bounds
<1>4. CASE FallBack(w)
  BY <1>a, Moves, <1>4, Goes DEF FallBack, At, bounds
<1>5. CASE ReadPlans(w)
  BY <1>a, Moves, <1>5, Goes DEF ReadPlans, In, bounds
<1>6. CASE WritePlans(w)
  BY <1>a, Moves, <1>6, Goes, WorkEnds DEF WritePlans, EndThread, At, bounds
<1>7. CASE ReadTranscripts(w)
  BY <1>a, Moves, <1>7, Goes, WorkEnds DEF ReadTranscripts, EndThread, At, bounds
<1>8. CASE WriteTranscript(w)
  BY <1>8, WorkEnds DEF WriteTranscript, EndThread, bounds, At
<1> QED
  BY <1>1, <1>2, <1>3, <1>4, <1>5, <1>6, <1>7, <1>8 DEF ThreadStep

LEMMA UsageMoves ==
    ASSUME NEW w \in Workers, WorkInv, SkipUsage(w) \/ BeginUsage(w) \/ EndUsage(w)
    PROVE  /\ WorkInv' /\ OnlyMoves(w) /\ Stays(w) /\ asked' = asked
           /\ pc[w] \in {"usage", "count"}
           /\ BeginUsage(w) => pc'[w] = "count" /\ task'[w] = task[w]
           /\ ~BeginUsage(w) => pc'[w] = "idle" /\ task'[w] = Idle
<1>a. Serves(task[w], pc[w])
  BY DEF WorkInv
<1>1. CASE SkipUsage(w)
  BY <1>1, WorkEnds DEF SkipUsage, BeginUsage, bounds, At, Stays
<1>2. CASE BeginUsage(w)
  BY <1>a, Moves, <1>2, Goes DEF BeginUsage, ReadUsage, At, bounds, Stays
<1>3. CASE EndUsage(w)
  BY <1>3, WorkEnds DEF EndUsage, BeginUsage, ReadUsage, CountUsage, EndRun, bounds, At, Stays
<1> QED
  BY <1>1, <1>2, <1>3

\* Every worker is idle after a crash.
LEMMA CrashMoves ==
    ASSUME WorkInv, Crash
    PROVE  WorkInv' /\ asked' = asked /\ \A w \in Workers : pc'[w] = "idle" /\ task'[w] = Idle
BY IdleServes DEF Crash, WorkInv, bounds

LEMMA WorkStep == WorkInv /\ [Next]_vars => WorkInv'
<1> SUFFICES ASSUME WorkInv, [Next]_vars PROVE WorkInv'
  OBVIOUS
<1>1. ASSUME NEW w \in Workers, Proceed(w) PROVE WorkInv'
  BY <1>1, DrawMoves, RegistryMoves, RunMoves, ThreadMoves, UsageMoves DEF Proceed, Draw
<1>2. ASSUME NEW w \in Workers, NEW r \in Requests, Ask(w, r) PROVE WorkInv'
  BY <1>2, AskMoves
<1>3. CASE OpenPanel
  BY <1>3, SameWork DEF OpenPanel, LoadDraft, work
<1>4. CASE ServeThreads
  BY <1>4, SameWork DEF ServeThreads, Tick, TakeTurn, work
<1>5. CASE Crash
  BY <1>5, CrashMoves
<1>6. CASE Send \/ UNCHANGED vars
  BY <1>6, SameWork DEF Send, vars, workbench, work
<1> QED
  BY <1>1, <1>2, <1>3, <1>4, <1>5, <1>6 DEF Next, Serve

-----------------------------------------------------------------------------
(* The list of images.  What is said of a list is said of sequences first: *)
(* each of its elements was recorded not before as many others as follow   *)
(* it in the list, they are in the order in which they were recorded, and  *)
(* the last that were recorded are in it, but for those of a set.          *)

Once(s) == \A i, j \in DOMAIN s : s[i] = s[j] => i = j
Apart(s, t) == \A i \in DOMAIN s : \A j \in DOMAIN t : s[i] # t[j]

Follows(list, rec) ==
    \A i \in DOMAIN list : \E k \in DOMAIN rec :
        rec[k] = list[i] /\ Len(list) - i <= Len(rec) - k
Ordered(list, rec) ==
    \A i, j \in DOMAIN list : i < j => \E k, l \in DOMAIN rec :
        k < l /\ rec[k] = list[i] /\ rec[l] = list[j]
HasLast(list, rec, but) ==
    \A k \in DOMAIN rec : Len(rec) - k < Kept =>
        rec[k] \in but \/ \E i \in DOMAIN list : list[i] = rec[k]

\* The last elements of a sequence.
LEMMA LastOfElements ==
    ASSUME NEW s \in Seq(Nat), NEW n \in Nat \ {0}
    PROVE  \E d \in Nat :
              /\ d = IF Len(s) <= n THEN 0 ELSE Len(s) - n
              /\ LastOf(s, n) \in Seq(Nat)
              /\ Len(LastOf(s, n)) = Len(s) - d
              /\ DOMAIN LastOf(s, n) = 1 .. Len(s) - d
              /\ \A i \in 1 .. Len(s) - d : LastOf(s, n)[i] = s[i + d]
<1>1. Len(s) \in Nat /\ DOMAIN s = 1 .. Len(s) /\ \A i \in 1 .. Len(s) : s[i] \in Nat
  BY LenProperties, ElementOfSeq
<1>2. CASE Len(s) <= n
  <2>1. LastOf(s, n) = s /\ Len(s) - 0 = Len(s) /\ \A i \in 1 .. Len(s) : i + 0 = i
    BY <1>1, <1>2 DEF LastOf
  <2> WITNESS 0 \in Nat
  <2> QED
    BY <1>1, <1>2, <2>1
<1>3. CASE Len(s) > n
  <2> DEFINE m == Len(s) - n + 1
             t == SubSeq(s, m, Len(s))
  <2>1. LastOf(s, n) = t
    BY <1>3, <1>1 DEF LastOf
  <2>2. m \in Int /\ Len(s) \in Int /\ m <= Len(s) /\ \A i \in m .. Len(s) : s[i] \in Nat
    BY <1>1, <1>3
  <2>3. /\ t \in Seq(Nat)
        /\ Len(t) = Len(s) - m + 1
        /\ \A i \in 1 .. Len(s) - m + 1 : t[i] = s[m + i - 1]
    <3> HIDE DEF m
    <3> QED
      BY <2>2, SubSeqProperties
  <2>4. /\ Len(t) = Len(s) - (Len(s) - n)
        /\ \A i \in 1 .. Len(s) - (Len(s) - n) : t[i] = s[i + (Len(s) - n)]
    <3>1. Len(s) - m + 1 = Len(s) - (Len(s) - n)
      BY <1>1
    <3>2. \A i \in 1 .. Len(s) - (Len(s) - n) : m + i - 1 = i + (Len(s) - n)
      BY <1>1
    <3> HIDE DEF t, m
    <3> QED
      BY <2>3, <3>1, <3>2
  <2>5. DOMAIN t = 1 .. Len(t)
    BY <2>3, LenProperties
  <2>6. Len(s) - n \in Nat
    BY <1>1, <1>3
  <2> HIDE DEF t
  <2>7. Len(s) - n = IF Len(s) <= n THEN 0 ELSE Len(s) - n
    <3>1. ~(Len(s) <= n)
      BY <1>1, <1>3
    <3> QED
      BY <3>1
  <2>8. DOMAIN t = 1 .. Len(s) - (Len(s) - n)
    BY <2>4, <2>5
  <2> WITNESS Len(s) - n \in Nat
  <2> QED
    BY <2>1, <2>3, <2>4, <2>7, <2>8
<1>4. Len(s) <= n \/ Len(s) > n
  BY <1>1
<1> QED
  BY <1>2, <1>3, <1>4

\* Both parts of a sequence that is put together.
LEMMA Joining ==
    ASSUME NEW s \in Seq(Nat), NEW t \in Seq(Nat)
    PROVE  /\ s \o t \in Seq(Nat)
           /\ Len(s) \in Nat /\ Len(t) \in Nat
           /\ Len(s \o t) = Len(s) + Len(t)
           /\ DOMAIN s = 1 .. Len(s) /\ DOMAIN t = 1 .. Len(t)
           /\ DOMAIN (s \o t) = 1 .. Len(s) + Len(t)
           /\ \A i \in 1 .. Len(s) : (s \o t)[i] = s[i]
           /\ \A i \in 1 .. Len(t) : (s \o t)[Len(s) + i] = t[i]
           /\ \A i \in 1 .. Len(s) + Len(t) :
                 i \in 1 .. Len(s) \/ \E j \in 1 .. Len(t) : i = Len(s) + j
BY ConcatProperties, LenProperties

\* More is recorded while a list is held.
LEMMA StaysTrue ==
    ASSUME NEW list \in Seq(Nat), NEW rec \in Seq(Nat), NEW got \in Seq(Nat), NEW but,
           Follows(list, rec), Ordered(list, rec), HasLast(list, rec, but)
    PROVE  /\ Follows(list, rec \o got)
           /\ Ordered(list, rec \o got)
           /\ HasLast(list, rec \o got, but \cup Elements(got))
<1>0. Len(list) \in Nat /\ DOMAIN list = 1 .. Len(list)
  BY LenProperties
<1>n. /\ Len(rec) \in Nat /\ Len(got) \in Nat /\ DOMAIN rec = 1 .. Len(rec)
      /\ Len(rec \o got) = Len(rec) + Len(got)
      /\ DOMAIN (rec \o got) = 1 .. Len(rec) + Len(got)
      /\ \A k \in 1 .. Len(rec) : (rec \o got)[k] = rec[k]
  BY Joining
<1>o. \A k \in DOMAIN rec : k \in DOMAIN (rec \o got) /\ (rec \o got)[k] = rec[k]
  BY <1>n
<1>1. Follows(list, rec \o got)
  <2> SUFFICES ASSUME NEW i \in DOMAIN list
               PROVE  \E k \in DOMAIN (rec \o got) :
                         (rec \o got)[k] = list[i] /\ Len(list) - i <= Len(rec \o got) - k
    BY DEF Follows
  <2>1. PICK k \in DOMAIN rec : rec[k] = list[i] /\ Len(list) - i <= Len(rec) - k
    BY DEF Follows
  <2>2. Len(list) - i <= Len(rec \o got) - k
    BY <1>0, <1>n, <2>1
  <2> QED
    BY <1>o, <2>1, <2>2
<1>2. Ordered(list, rec \o got)
  <2> SUFFICES ASSUME NEW i \in DOMAIN list, NEW j \in DOMAIN list, i < j
               PROVE  \E k, l \in DOMAIN (rec \o got) :
                         k < l /\ (rec \o got)[k] = list[i] /\ (rec \o got)[l] = list[j]
    BY DEF Ordered
  <2>1. PICK k \in DOMAIN rec, l \in DOMAIN rec : k < l /\ rec[k] = list[i] /\ rec[l] = list[j]
    BY DEF Ordered
  <2> QED
    BY <1>o, <2>1
<1>3. ASSUME NEW k \in DOMAIN (rec \o got), Len(rec \o got) - k < Kept
      PROVE  \/ (rec \o got)[k] \in but \cup Elements(got)
             \/ \E i \in DOMAIN list : list[i] = (rec \o got)[k]
  <2>1. CASE k \in 1 .. Len(rec)
    <3>1. Len(rec) - k < Kept
      BY <1>3, <2>1, Joining, DrawAssumption
    <3>2. (rec \o got)[k] = rec[k] /\ k \in DOMAIN rec
      BY <2>1, Joining
    <3> QED
      BY <3>1, <3>2 DEF HasLast
  <2>2. CASE \E j \in 1 .. Len(got) : k = Len(rec) + j
    <3>1. PICK j \in 1 .. Len(got) : k = Len(rec) + j
      BY <2>2
    <3>2. (rec \o got)[k] = got[j] /\ j \in DOMAIN got
      BY <3>1, Joining
    <3> QED
      BY <3>2 DEF Elements
  <2>3. k \in 1 .. Len(rec) + Len(got)
    BY Joining
  <2> QED
    BY <2>1, <2>2, <2>3, Joining
<1>4. HasLast(list, rec \o got, but \cup Elements(got))
  BY <1>3 DEF HasLast
<1> QED
  BY <1>1, <1>2, <1>4

\* What is got is put behind a list, of which the last are written.
LEMMA WrittenIsTrue ==
    ASSUME NEW list \in Seq(Nat), NEW rec \in Seq(Nat), NEW got \in Seq(Nat), NEW but,
           Once(rec),
           Follows(list, rec), Ordered(list, rec), HasLast(list, rec, but)
    PROVE  LET written == LastOf(list \o got, Kept) IN
           /\ Follows(written, rec \o got)
           /\ Ordered(written, rec \o got)
           /\ HasLast(written, rec \o got, but)
<1> DEFINE all == list \o got
           next == rec \o got
           written == LastOf(all, Kept)
<1>k. Kept \in Nat \ {0}
  BY DrawAssumption
<1>a. /\ all \in Seq(Nat) /\ Len(list) \in Nat /\ Len(got) \in Nat
      /\ Len(all) = Len(list) + Len(got)
      /\ DOMAIN list = 1 .. Len(list) /\ DOMAIN got = 1 .. Len(got)
      /\ DOMAIN all = 1 .. Len(list) + Len(got)
      /\ \A i \in 1 .. Len(list) : all[i] = list[i]
      /\ \A i \in 1 .. Len(got) : all[Len(list) + i] = got[i]
      /\ \A i \in 1 .. Len(list) + Len(got) :
            i \in 1 .. Len(list) \/ \E j \in 1 .. Len(got) : i = Len(list) + j
  BY Joining
<1>n. /\ next \in Seq(Nat) /\ Len(rec) \in Nat
      /\ Len(next) = Len(rec) + Len(got)
      /\ DOMAIN rec = 1 .. Len(rec)
      /\ DOMAIN next = 1 .. Len(rec) + Len(got)
      /\ \A i \in 1 .. Len(rec) : next[i] = rec[i]
      /\ \A i \in 1 .. Len(got) : next[Len(rec) + i] = got[i]
      /\ \A i \in 1 .. Len(rec) + Len(got) :
            i \in 1 .. Len(rec) \/ \E j \in 1 .. Len(got) : i = Len(rec) + j
  BY Joining
<1>w. PICK d \in Nat :
         /\ d = IF Len(all) <= Kept THEN 0 ELSE Len(all) - Kept
         /\ Len(written) = Len(all) - d
         /\ DOMAIN written = 1 .. Len(all) - d
         /\ \A i \in 1 .. Len(all) - d : written[i] = all[i + d]
  BY <1>a, <1>k, LastOfElements
<1> HIDE DEF all, next, written
<1>1. ASSUME NEW i \in 1 .. Len(all)
      PROVE  \E k \in DOMAIN next : next[k] = all[i] /\ Len(all) - i <= Len(next) - k
  <2>1. CASE i \in 1 .. Len(list)
    <3>1. PICK k \in DOMAIN rec : rec[k] = list[i] /\ Len(list) - i <= Len(rec) - k
      BY <1>a, <2>1 DEF Follows
    <3>2. k \in DOMAIN next
      BY <1>a, <1>n, <3>1
    <3>3. next[k] = all[i]
      BY <1>a, <1>n, <2>1, <3>1
    <3>4. Len(all) - i <= Len(next) - k
      BY <1>a, <1>n, <2>1, <3>1
    <3> QED
      BY <3>2, <3>3, <3>4
  <2>2. CASE \E j \in 1 .. Len(got) : i = Len(list) + j
    <3>1. PICK j \in 1 .. Len(got) : i = Len(list) + j
      BY <2>2
    <3>2. Len(rec) + j \in DOMAIN next /\ Len(all) - i <= Len(next) - (Len(rec) + j)
      BY <1>a, <1>n, <3>1
    <3>3. next[Len(rec) + j] = all[i]
      BY <1>a, <1>n, <3>1
    <3> QED
      BY <3>2, <3>3
  <2> QED
    BY <1>a, <2>1, <2>2
<1>2. ASSUME NEW i \in 1 .. Len(all), NEW j \in 1 .. Len(all), i < j
      PROVE  \E k, l \in DOMAIN next : k < l /\ next[k] = all[i] /\ next[l] = all[j]
  <2>1. CASE j \in 1 .. Len(list)
    <3>0. i \in 1 .. Len(list)
      BY <1>2, <2>1, <1>a
    <3>1. PICK k \in DOMAIN rec, l \in DOMAIN rec : k < l /\ rec[k] = list[i] /\ rec[l] = list[j]
      <4>1. i \in DOMAIN list /\ j \in DOMAIN list
        BY <1>a, <2>1, <3>0
      <4> QED
        BY <1>2, <4>1 DEF Ordered
    <3>2. k \in DOMAIN next /\ l \in DOMAIN next
      BY <1>a, <1>n, <3>1
    <3>3. next[k] = all[i]
      BY <1>a, <1>n, <3>0, <3>1
    <3>4. next[l] = all[j]
      BY <1>a, <1>n, <2>1, <3>1
    <3> QED
      BY <3>1, <3>2, <3>3, <3>4
  <2>2. CASE \E m \in 1 .. Len(got) : j = Len(list) + m
    <3>1. PICK m \in 1 .. Len(got) : j = Len(list) + m
      BY <2>2
    <3>2. Len(rec) + m \in DOMAIN next
      BY <1>a, <1>n, <3>1
    <3>3. next[Len(rec) + m] = all[j]
      BY <1>a, <1>n, <3>1
    <3>4. PICK k \in DOMAIN next : next[k] = all[i] /\ Len(all) - i <= Len(next) - k
      BY <1>1
    <3>5. k < Len(rec) + m
      BY <1>a, <1>n, <1>2, <3>1, <3>4
    <3> QED
      BY <3>2, <3>3, <3>4, <3>5
  <2> QED
    BY <1>a, <2>1, <2>2
<1>3. Follows(written, next)
  <2> SUFFICES ASSUME NEW i \in DOMAIN written
               PROVE  \E k \in DOMAIN next :
                         next[k] = written[i] /\ Len(written) - i <= Len(next) - k
    BY DEF Follows
  <2>0. i \in Nat /\ i >= 1 /\ i <= Len(all) - d /\ Len(all) \in Nat /\ d \in Nat
    BY <1>a, <1>w
  <2>1. i + d \in 1 .. Len(all) /\ Len(written) - i = Len(all) - (i + d) /\ written[i] = all[i + d]
    BY <2>0, <1>w
  <2>2. PICK k \in DOMAIN next : next[k] = all[i + d] /\ Len(all) - (i + d) <= Len(next) - k
    BY <1>1, <2>1
  <2> QED
    BY <2>1, <2>2
<1>4. Ordered(written, next)
  <2> SUFFICES ASSUME NEW i \in DOMAIN written, NEW j \in DOMAIN written, i < j
               PROVE  \E k, l \in DOMAIN next :
                         k < l /\ next[k] = written[i] /\ next[l] = written[j]
    BY DEF Ordered
  <2>0. i \in Nat /\ j \in Nat /\ Len(all) \in Nat /\ d \in Nat
    BY <1>a, <1>w
  <2>1. /\ i + d \in 1 .. Len(all) /\ written[i] = all[i + d]
        /\ j + d \in 1 .. Len(all) /\ written[j] = all[j + d]
    <3>1. i \in 1 .. Len(all) - d /\ j \in 1 .. Len(all) - d
      BY <1>w
    <3>2. written[i] = all[i + d] /\ written[j] = all[j + d]
      BY <3>1, <1>w
    <3>3. i + d \in 1 .. Len(all) /\ j + d \in 1 .. Len(all)
      BY <2>0, <3>1
    <3> QED
      BY <3>2, <3>3
  <2>2. i + d < j + d
    BY <2>0
  <2>3. PICK k \in DOMAIN next, l \in DOMAIN next :
           k < l /\ next[k] = all[i + d] /\ next[l] = all[j + d]
    BY <1>2, <2>1, <2>2
  <2> QED
    BY <2>1, <2>3
<1>5. ASSUME NEW k \in DOMAIN next, Len(next) - k < Kept
      PROVE  \/ next[k] \in but
             \/ \E m \in 1 .. Len(all) : all[m] = next[k] /\ Len(all) - m < Kept
  <2>1. CASE k \in 1 .. Len(rec)
    <3>1. Len(rec) - k < Kept /\ k \in DOMAIN rec /\ next[k] = rec[k]
      BY <1>n, <1>a, <1>k, <1>5, <2>1
    <3>2. CASE rec[k] \in but
      BY <3>1, <3>2
    <3>3. CASE \E i \in DOMAIN list : list[i] = rec[k]
      <4>1. PICK i \in DOMAIN list : list[i] = rec[k]
        BY <3>3
      <4>2. PICK l \in DOMAIN rec : rec[l] = list[i] /\ Len(list) - i <= Len(rec) - l
        BY DEF Follows
      <4>3. l = k
        BY <3>1, <4>1, <4>2 DEF Once
      <4>4. i \in 1 .. Len(all) /\ all[i] = next[k]
        BY <1>a, <3>1, <4>1
      <4>5. Len(list) - i <= Len(rec) - k
        BY <4>2, <4>3
      <4>6. Len(all) - i < Kept
        BY <1>n, <1>a, <1>k, <1>5, <4>1, <4>5
      <4> QED
        BY <4>4, <4>6
    <3> QED
      BY <3>1, <3>2, <3>3 DEF HasLast
  <2>2. CASE \E j \in 1 .. Len(got) : k = Len(rec) + j
    <3>1. PICK j \in 1 .. Len(got) : k = Len(rec) + j
      BY <2>2
    <3>2. /\ Len(list) + j \in 1 .. Len(all) /\ all[Len(list) + j] = next[k]
          /\ Len(all) - (Len(list) + j) < Kept
      BY <1>n, <1>a, <1>k, <1>5, <3>1
    <3> QED
      BY <3>2
  <2> QED
    BY <1>n, <2>1, <2>2
<1>6. HasLast(written, next, but)
  <2> SUFFICES ASSUME NEW k \in DOMAIN next, Len(next) - k < Kept
               PROVE  next[k] \in but \/ \E i \in DOMAIN written : written[i] = next[k]
    BY DEF HasLast
  <2>1. CASE next[k] \in but
    BY <2>1
  <2>2. CASE \E m \in 1 .. Len(all) : all[m] = next[k] /\ Len(all) - m < Kept
    <3>1. PICK m \in 1 .. Len(all) : all[m] = next[k] /\ Len(all) - m < Kept
      BY <2>2
    <3>2. m - d \in 1 .. Len(all) - d /\ (m - d) + d = m
      BY <1>a, <1>w, <1>k, <3>1
    <3>3. m - d \in DOMAIN written /\ written[m - d] = next[k]
      BY <1>w, <3>1, <3>2
    <3> QED
      BY <3>3
  <2> QED
    BY <1>5, <2>1, <2>2
<1> QED
  BY <1>3, <1>4, <1>6 DEF written, next, all

-----------------------------------------------------------------------------
(* The images that are made, and what draws hold of them.                  *)

Numbered(s) == s \in Seq(Nat) /\ \A i \in DOMAIN s : s[i] \in 1 .. Len(images)

\* Images a draw got are numbered one after another.
InARow(s) == \E b \in Nat : \A i \in DOMAIN s : s[i] = b + i

Good(list) == Follows(list, recorded) /\ Ordered(list, recorded) /\ HasLast(list, recorded, exposed)

DrawTypes ==
    /\ images \in Seq(Picture) /\ Len(images) <= MaxImages
    /\ Numbered(manifest) /\ Numbered(recorded)
    /\ draw \in [Workers -> [attempt : 0 .. Attempts, got : Seq(Nat), list : Seq(Nat)]]

DrawOf(w) ==
    /\ Numbered(draw[w].got) /\ Numbered(draw[w].list) /\ InARow(draw[w].got)
    /\ Kind(w) # "draw" => draw[w] = NoDraw
    /\ At(w, "post") => draw[w].got = <<>>
    /\ draw[w].list # <<>> => Listing(w)
    /\ In(w, {"drawn", "fetch"}) => Apart(draw[w].got, recorded)
    /\ Listing(w) => Good(draw[w].list)

DrawInv ==
    /\ DrawTypes
    /\ Once(recorded) /\ Good(manifest)
    /\ \A w \in Workers : DrawOf(w)
    /\ \A v, w \in Workers : v # w => Apart(draw[v].got, draw[w].got)

LEMMA EmptyDraw ==
    /\ NoDraw \in [attempt : 0 .. Attempts, got : Seq(Nat), list : Seq(Nat)]
    /\ NoDraw.got = <<>> /\ NoDraw.list = <<>>
    /\ Numbered(<<>>) /\ InARow(<<>>)
    /\ \A s : Apart(<<>>, s) /\ Apart(s, <<>>)
<1>1. <<>> \in Seq(Nat) /\ DOMAIN <<>> = {}
  BY EmptySeq
<1>2. 0 \in 0 .. Attempts
  BY DrawAssumption
<1> QED
  BY <1>1, <1>2 DEF NoDraw, Numbered, InARow, Apart

\* What draws hold when a worker does something else.
LEMMA DrawFrame ==
    ASSUME NEW w \in Workers, DrawInv, UNCHANGED drawing, OnlyMoves(w),
           ~In(w, {"post", "drawn", "fetch"}), pc'[w] \notin {"post", "drawn", "fetch"},
           Kind(w) = "draw" => task'[w].kind = "draw"
    PROVE  DrawInv'
<1>1. ASSUME NEW v \in Workers PROVE DrawOf(v)'
  <2>1. CASE v = w
    BY <2>1 DEF DrawInv, DrawOf, drawing, Numbered, Kind, At, In, Listing
  <2>2. CASE v # w
    <3>1. DrawOf(v) /\ pc'[v] = pc[v] /\ task'[v] = task[v]
      BY <2>2 DEF DrawInv, OnlyMoves
    <3> QED
      BY <3>1 DEF DrawOf, drawing, Numbered, Kind, At, In, Listing, Good
  <2> QED
    BY <2>1, <2>2
<1> QED
  BY <1>1 DEF DrawInv, DrawTypes, Numbered, Good, drawing

LEMMA DrawSame ==
    ASSUME DrawInv, UNCHANGED <<work, drawing>>
    PROVE  DrawInv'
BY DEF DrawInv, DrawTypes, DrawOf, Numbered, Good, Kind, At, In, Listing, work, drawing

\* A worker alone changes what it holds, and no image is made.
LEMMA HolderMoves ==
    ASSUME NEW w \in Workers, NEW d, DrawInv, OnlyMoves(w),
           UNCHANGED <<images, manifest, recorded, exposed>>,
           draw' = [draw EXCEPT ![w] = d],
           d \in [attempt : 0 .. Attempts, got : Seq(Nat), list : Seq(Nat)],
           d.got \in {draw[w].got, <<>>},
           DrawOf(w)'
    PROVE  DrawInv'
<1>1. ASSUME NEW v \in Workers, v # w PROVE DrawOf(v)' /\ draw'[v] = draw[v]
  <2>1. DrawOf(v) /\ pc'[v] = pc[v] /\ task'[v] = task[v] /\ draw'[v] = draw[v]
    BY <1>1 DEF DrawInv, DrawTypes, OnlyMoves
  <2> QED
    BY <2>1 DEF DrawOf, Numbered, Kind, At, In, Listing, Good
<1>2. draw'[w] = d /\ draw' \in [Workers -> [attempt : 0 .. Attempts, got : Seq(Nat), list : Seq(Nat)]]
  BY DEF DrawInv, DrawTypes
<1>3. ASSUME NEW u \in Workers, NEW v \in Workers, u # v
      PROVE  Apart(draw[u].got, draw[v].got)'
  BY <1>1, <1>2, <1>3, EmptyDraw DEF DrawInv
<1> QED
  BY <1>1, <1>2, <1>3 DEF DrawInv, DrawTypes, Numbered, Good

LEMMA BeginKeeps ==
    ASSUME NEW w \in Workers, NEW r \in Draws, WorkInv, DrawInv, BeginDraw(w, r), r \in Requests,
           OnlyMoves(w), task[w] = Idle, task'[w] = r, pc'[w] = "post"
    PROVE  DrawInv'
<1>1. draw[w] = NoDraw
  BY DEF DrawInv, DrawOf, Kind, Idle
<1> DEFINE d == [draw[w] EXCEPT !.attempt = 1]
<1>2. d \in [attempt : 0 .. Attempts, got : Seq(Nat), list : Seq(Nat)] /\ d.got = <<>> /\ d.list = <<>>
  <2>1. 1 \in 0 .. Attempts
    BY DrawAssumption
  <2>2. draw[w] \in [attempt : 0 .. Attempts, got : Seq(Nat), list : Seq(Nat)]
    BY DEF DrawInv, DrawTypes
  <2> QED
    BY <1>1, <2>1, <2>2, EmptyDraw
<1>3. draw' = [draw EXCEPT ![w] = d] /\ draw'[w] = d
  BY DEF BeginDraw, DrawInv, DrawTypes
<1>4. UNCHANGED <<images, manifest, recorded, exposed>>
  BY DEF BeginDraw
<1>5. task'[w].kind = "draw"
  BY DEF Draws
<1> HIDE DEF d
<1>6. DrawOf(w)'
  BY <1>2, <1>3, <1>4, <1>5, EmptyDraw DEF DrawOf, Kind, At, In, Listing, Numbered
<1> QED
  BY <1>1, <1>2, <1>3, <1>4, <1>6, EmptyDraw, HolderMoves

LEMMA TryAgainKeeps ==
    ASSUME NEW w \in Workers, WorkInv, DrawInv, TryAgain(w)
    PROVE  DrawInv'
<1> DEFINE d == [draw[w] EXCEPT !.attempt = @ + 1]
<1>1. OnlyMoves(w)
  BY DEF TryAgain, work, OnlyMoves, WorkInv
<1>2. /\ d \in [attempt : 0 .. Attempts, got : Seq(Nat), list : Seq(Nat)]
      /\ d.got = draw[w].got /\ d.list = draw[w].list
  <2>1. draw[w] \in [attempt : 0 .. Attempts, got : Seq(Nat), list : Seq(Nat)] /\ draw[w].attempt < Attempts
    BY DEF DrawInv, DrawTypes, TryAgain
  <2>2. draw[w].attempt + 1 \in 0 .. Attempts
    BY <2>1, DrawAssumption
  <2> QED
    BY <2>1, <2>2
<1>3. draw' = [draw EXCEPT ![w] = d] /\ draw'[w] = d
  BY DEF TryAgain, DrawInv, DrawTypes
<1>4. UNCHANGED <<images, manifest, recorded, exposed>> /\ pc'[w] = pc[w] /\ task'[w] = task[w]
  BY DEF TryAgain, work
<1>5. DrawOf(w) /\ Kind(w) = "draw"
  BY DEF DrawInv, TryAgain, WorkInv, Serves, At, Kind
<1> HIDE DEF d
<1>6. DrawOf(w)'
  BY <1>2, <1>3, <1>4, <1>5 DEF DrawOf, Kind, At, In, Listing, Numbered, Good
<1> QED
  BY <1>1, <1>2, <1>3, <1>4, <1>6, HolderMoves

\* A draw that ends holds nothing.
LEMMA DropKeeps ==
    ASSUME NEW w \in Workers, WorkInv, DrawInv, OnlyMoves(w), pc'[w] = "idle", task'[w] = Idle,
           UNCHANGED <<images, manifest, recorded, exposed>>,
           draw' = [draw EXCEPT ![w] = NoDraw]
    PROVE  DrawInv'
<1>1. draw'[w] = NoDraw
  BY DEF DrawInv, DrawTypes
<1>2. DrawOf(w)'
  BY <1>1, EmptyDraw DEF DrawOf, Kind, At, In, Listing, Numbered
<1> QED
  BY <1>2, EmptyDraw, HolderMoves

LEMMA ReadListKeeps ==
    ASSUME NEW w \in Workers, WorkInv, DrawInv, ReadList(w), OnlyMoves(w),
           pc'[w] = "fetch", task'[w] = task[w]
    PROVE  DrawInv'
<1> DEFINE d == [draw[w] EXCEPT !.list = manifest]
<1>2. /\ d \in [attempt : 0 .. Attempts, got : Seq(Nat), list : Seq(Nat)]
      /\ d.got = draw[w].got /\ d.list = manifest
  BY DEF DrawInv, DrawTypes, Numbered
<1>3. draw' = [draw EXCEPT ![w] = d] /\ draw'[w] = d
  BY DEF ReadList, DrawInv, DrawTypes
<1>4. UNCHANGED <<images, manifest, recorded, exposed>>
  BY DEF ReadList
<1>5. DrawOf(w) /\ Kind(w) = "draw" /\ In(w, {"drawn", "fetch"}) /\ Good(manifest) /\ Numbered(manifest)
  BY DEF DrawInv, DrawTypes, ReadList, WorkInv, Serves, At, In, Kind
<1> HIDE DEF d
<1>6. DrawOf(w)'
  BY <1>2, <1>3, <1>4, <1>5 DEF DrawOf, Kind, At, In, Listing, Numbered, Good
<1> QED
  BY <1>2, <1>3, <1>4, <1>6, HolderMoves

\* The images the provider answers with are numbered after those there are.
LEMMA AnsweredDoes ==
    ASSUME NEW w \in Workers, WorkInv, DrawInv, Answered(w)
    PROVE  \E k \in Nat :
              /\ images' \in Seq(Picture) /\ Len(images') <= MaxImages
              /\ Len(images') = Len(images) + k
              /\ draw'[w].got \in Seq(Nat) /\ Len(draw'[w].got) = k
              /\ DOMAIN draw'[w].got = 1 .. k
              /\ \A i \in 1 .. k : draw'[w].got[i] = Len(images) + i
              /\ draw'[w] \in [attempt : 0 .. Attempts, got : Seq(Nat), list : Seq(Nat)]
              /\ draw'[w].list = draw[w].list
              /\ \A v \in Workers : v # w => draw'[v] = draw[v]
              /\ draw' \in [Workers -> [attempt : 0 .. Attempts, got : Seq(Nat), list : Seq(Nat)]]
<1>0. images \in Seq(Picture) /\ Len(images) \in Nat
  BY LenProperties DEF DrawInv, DrawTypes
<1>1. task[w] \in Draws
  <2>1. Serves(task[w], pc[w]) /\ task[w] \in Requests \cup {Idle} /\ At(w, "post")
    BY DEF WorkInv, Answered
  <2>2. task[w].kind = "draw"
    BY <2>1 DEF Serves, At
  <2> QED
    BY <2>1, <2>2, RequestKinds DEF Idle
<1>2. Bounded(task[w].n) \in Nat
  <2>1. task[w].n \in 0 .. MaxN + 1 /\ MaxN \in Nat
    BY <1>1, DrawAssumption DEF Draws
  <2> QED
    BY <2>1 DEF Bounded
<1>p. PICK k \in 0 .. Bounded(task[w].n) : \E new \in [1 .. k -> Pictures(task[w])] :
         /\ Len(images) + k <= MaxImages
         /\ images' = images \o new
         /\ draw' = [draw EXCEPT ![w].got = [i \in 1 .. k |-> Len(images) + i]]
  BY DEF Answered
<1>3. PICK new \in [1 .. k -> Pictures(task[w])] :
         /\ Len(images) + k <= MaxImages
         /\ images' = images \o new
         /\ draw' = [draw EXCEPT ![w].got = [i \in 1 .. k |-> Len(images) + i]]
  BY <1>p
<1>4. k \in Nat
  BY <1>2
<1>5. new \in Seq(Picture) /\ Len(new) = k
  <2>1. Pictures(task[w]) \subseteq Picture
    BY DrawAssumption DEF Pictures
  <2>2. new \in [1 .. k -> Picture]
    BY <2>1
  <2>3. new \in Seq(Picture)
    BY <1>4, <2>2, SeqDef
  <2> QED
    BY <1>4, <2>2, <2>3, LenProperties
<1>6. images' \in Seq(Picture) /\ Len(images') = Len(images) + k
  BY <1>0, <1>3, <1>5, ConcatProperties
<1> DEFINE g == [i \in 1 .. k |-> Len(images) + i]
<1>7. g \in Seq(Nat) /\ Len(g) = k /\ DOMAIN g = 1 .. k /\ \A i \in 1 .. k : g[i] = Len(images) + i
  <2>1. g \in [1 .. k -> Nat]
    BY <1>0, <1>4
  <2>2. g \in Seq(Nat)
    <3> HIDE DEF g
    <3> QED
      BY <1>4, <2>1, SeqDef
  <2> QED
    BY <1>4, <2>1, <2>2, LenProperties
<1> HIDE DEF g
<1>8. draw \in [Workers -> [attempt : 0 .. Attempts, got : Seq(Nat), list : Seq(Nat)]]
  BY DEF DrawInv, DrawTypes
<1>9. draw' = [draw EXCEPT ![w] = [draw[w] EXCEPT !.got = g]]
  BY <1>3 DEF g
<1>10. draw'[w] = [draw[w] EXCEPT !.got = g] /\ \A v \in Workers : v # w => draw'[v] = draw[v]
  BY <1>8, <1>9
<1>11. [draw[w] EXCEPT !.got = g] \in [attempt : 0 .. Attempts, got : Seq(Nat), list : Seq(Nat)]
       /\ [draw[w] EXCEPT !.got = g].got = g /\ [draw[w] EXCEPT !.got = g].list = draw[w].list
  BY <1>7, <1>8
<1>12. draw' \in [Workers -> [attempt : 0 .. Attempts, got : Seq(Nat), list : Seq(Nat)]]
  BY <1>8, <1>9, <1>11
<1> WITNESS k \in Nat
<1> QED
  BY <1>3, <1>6, <1>7, <1>10, <1>11, <1>12

LEMMA AnsweredKeeps ==
    ASSUME NEW w \in Workers, WorkInv, DrawInv, Answered(w), OnlyMoves(w),
           pc'[w] = "drawn", task'[w] = task[w]
    PROVE  DrawInv'
<1>0. Len(images) \in Nat
  BY LenProperties DEF DrawInv, DrawTypes
<1>1. PICK k \in Nat :
         /\ images' \in Seq(Picture) /\ Len(images') <= MaxImages
         /\ Len(images') = Len(images) + k
         /\ draw'[w].got \in Seq(Nat) /\ Len(draw'[w].got) = k
         /\ DOMAIN draw'[w].got = 1 .. k
         /\ \A i \in 1 .. k : draw'[w].got[i] = Len(images) + i
         /\ draw'[w] \in [attempt : 0 .. Attempts, got : Seq(Nat), list : Seq(Nat)]
         /\ draw'[w].list = draw[w].list
         /\ \A v \in Workers : v # w => draw'[v] = draw[v]
         /\ draw' \in [Workers -> [attempt : 0 .. Attempts, got : Seq(Nat), list : Seq(Nat)]]
  BY AnsweredDoes
<1>2. manifest' = manifest /\ recorded' = recorded /\ exposed' = exposed
  BY DEF Answered
<1>3. ASSUME NEW s, Numbered(s) PROVE s \in Seq(Nat) /\ \A i \in DOMAIN s : s[i] \in 1 .. Len(images')
  BY <1>0, <1>1, <1>3 DEF Numbered
<1>4. ASSUME NEW s, Numbered(s) PROVE Apart(draw'[w].got, s) /\ Apart(s, draw'[w].got)
  <2>1. \A i \in DOMAIN s : s[i] \in 1 .. Len(images)
    BY <1>4 DEF Numbered
  <2>2. \A i \in DOMAIN draw'[w].got : draw'[w].got[i] \notin 1 .. Len(images)
    BY <1>0, <1>1
  <2> QED
    BY <2>1, <2>2 DEF Apart
<1>5. ASSUME NEW v \in Workers, v # w PROVE DrawOf(v)' /\ draw'[v] = draw[v]
  <2>1. DrawOf(v) /\ pc'[v] = pc[v] /\ task'[v] = task[v] /\ draw'[v] = draw[v]
    BY <1>1, <1>5 DEF DrawInv, OnlyMoves
  <2>2. Numbered(draw[v].got)' /\ Numbered(draw[v].list)'
    BY <1>3, <2>1 DEF DrawOf, Numbered
  <2> QED
    BY <1>2, <2>1, <2>2 DEF DrawOf, Kind, At, In, Listing, Good
<1>6. DrawOf(w)'
  <2>1. DrawOf(w) /\ Kind(w) = "draw" /\ ~Listing(w)
    BY DEF DrawInv, Answered, WorkInv, Serves, At, Kind, Listing
  <2>2. Numbered(draw[w].got)' /\ InARow(draw[w].got)'
    <3>1. Numbered(draw[w].got)'
      BY <1>0, <1>1 DEF Numbered
    <3>2. \A i \in DOMAIN draw'[w].got : draw'[w].got[i] = Len(images) + i
      BY <1>1
    <3> QED
      BY <1>0, <3>1, <3>2 DEF InARow
  <2>3. draw'[w].list = <<>> /\ Numbered(draw[w].list)'
    BY <1>1, <1>3, <2>1 DEF DrawOf, Numbered
  <2>4. Apart(draw[w].got, recorded)'
    BY <1>2, <1>4 DEF DrawInv, DrawTypes
  <2> QED
    BY <2>1, <2>2, <2>3, <2>4 DEF DrawOf, Kind, At, In, Listing
<1>7. ASSUME NEW u \in Workers, NEW v \in Workers, u # v
      PROVE  Apart(draw[u].got, draw[v].got)'
  <2>1. CASE u = w
    BY <1>1, <1>4, <1>7, <2>1 DEF DrawInv, DrawOf
  <2>2. CASE v = w
    BY <1>1, <1>4, <1>7, <2>2 DEF DrawInv, DrawOf
  <2>3. CASE u # w /\ v # w
    BY <1>1, <1>7, <2>3 DEF DrawInv
  <2> QED
    BY <2>1, <2>2, <2>3
<1>8. DrawTypes'
  <2>1. Numbered(manifest)' /\ Numbered(recorded)'
    BY <1>2, <1>3 DEF DrawInv, DrawTypes, Numbered
  <2> QED
    BY <1>1, <2>1 DEF DrawTypes
<1> QED
  BY <1>2, <1>5, <1>6, <1>7, <1>8 DEF DrawInv, Good

LEMMA WriteListKeeps ==
    ASSUME NEW w \in Workers, WorkInv, DrawInv, WriteList(w), OnlyMoves(w), Stays(w),
           pc'[w] \in {"rebuild", "idle"}
    PROVE  DrawInv'
<1> DEFINE list == draw[w].list
           got == draw[w].got
<1>a. Listing(w) /\ Kind(w) = "draw"
  BY DEF WriteList, WorkInv, Serves, At, Kind, Listing
<1>b. /\ Numbered(list) /\ Numbered(got) /\ InARow(got) /\ Good(list)
      /\ Apart(got, recorded)
      /\ Numbered(recorded) /\ Once(recorded)
  BY <1>a DEF DrawInv, DrawTypes, DrawOf, Listing, At, In
<1>c. list \in Seq(Nat) /\ got \in Seq(Nat) /\ recorded \in Seq(Nat) /\ Kept \in Nat \ {0}
  BY <1>b, DrawAssumption DEF Numbered
<1>d. /\ manifest' = LastOf(list \o got, Kept) /\ recorded' = recorded \o got
      /\ images' = images
      /\ exposed' = IF \E v \in Others(w) : Listing(v) THEN exposed \cup Elements(got) ELSE exposed
  BY DEF WriteList, EndDraw
<1>e. /\ \/ draw' = [draw EXCEPT ![w] = [draw[w] EXCEPT !.list = <<>>]] /\ task[w].tool
         \/ draw' = [draw EXCEPT ![w] = NoDraw] /\ ~task[w].tool
      /\ task[w].tool => task'[w] = task[w]
  BY DEF WriteList, EndDraw
<1>f. draw \in [Workers -> [attempt : 0 .. Attempts, got : Seq(Nat), list : Seq(Nat)]]
  BY DEF DrawInv, DrawTypes
<1>g. /\ draw' \in [Workers -> [attempt : 0 .. Attempts, got : Seq(Nat), list : Seq(Nat)]]
      /\ draw'[w].got \in {got, <<>>} /\ draw'[w].list = <<>>
      /\ \A v \in Workers : v # w => draw'[v] = draw[v]
      /\ task'[w].kind # "draw" => draw'[w] = NoDraw
  <2>1. CASE task[w].tool
    <3> DEFINE d == [draw[w] EXCEPT !.list = <<>>]
    <3>1. d \in [attempt : 0 .. Attempts, got : Seq(Nat), list : Seq(Nat)] /\ d.got = got /\ d.list = <<>>
      BY <1>f, EmptyDraw DEF Numbered
    <3>2. draw' = [draw EXCEPT ![w] = d]
      BY <1>e, <2>1
    <3> HIDE DEF d
    <3> QED
      BY <1>a, <1>e, <1>f, <2>1, <3>1, <3>2 DEF Kind
  <2>2. CASE ~task[w].tool
    BY <1>e, <1>f, <2>2, EmptyDraw
  <2> QED
    BY <2>1, <2>2
<1> HIDE DEF list, got
<1>1. Numbered(recorded)' /\ Numbered(manifest)'
  <2>1. /\ list \o got \in Seq(Nat) /\ recorded \o got \in Seq(Nat)
        /\ Len(list) \in Nat /\ Len(got) \in Nat /\ Len(recorded) \in Nat
    BY <1>c, Joining
  <2>2. Numbered(recorded \o got) /\ Numbered(list \o got)
    <3>1. ASSUME NEW s, Numbered(s) PROVE Numbered(s \o got)
      <4>1. s \in Seq(Nat)
        BY <3>1 DEF Numbered
      <4>2. ASSUME NEW i \in DOMAIN (s \o got) PROVE (s \o got)[i] \in 1 .. Len(images)
        <5>1. /\ DOMAIN s = 1 .. Len(s) /\ DOMAIN got = 1 .. Len(got)
              /\ \A j \in 1 .. Len(s) : (s \o got)[j] = s[j]
              /\ \A j \in 1 .. Len(got) : (s \o got)[Len(s) + j] = got[j]
              /\ i \in 1 .. Len(s) \/ \E j \in 1 .. Len(got) : i = Len(s) + j
          BY <4>1, <1>c, Joining
        <5>2. CASE i \in 1 .. Len(s)
          BY <3>1, <5>1, <5>2 DEF Numbered
        <5>3. CASE \E j \in 1 .. Len(got) : i = Len(s) + j
          BY <1>b, <5>1, <5>3 DEF Numbered
        <5> QED
          BY <5>1, <5>2, <5>3
      <4>3. s \o got \in Seq(Nat)
        BY <4>1, <1>c, Joining
      <4> QED
        BY <4>2, <4>3 DEF Numbered
    <3> QED
      BY <1>b, <3>1
  <2>3. Numbered(LastOf(list \o got, Kept))
    <3>1. PICK d \in Nat :
             /\ LastOf(list \o got, Kept) \in Seq(Nat)
             /\ DOMAIN LastOf(list \o got, Kept) = 1 .. Len(list \o got) - d
             /\ \A i \in 1 .. Len(list \o got) - d : LastOf(list \o got, Kept)[i] = (list \o got)[i + d]
      BY <1>c, <2>1, LastOfElements
    <3>2. Len(list \o got) \in Nat /\ DOMAIN (list \o got) = 1 .. Len(list \o got)
      BY <2>1, LenProperties
    <3>3. \A i \in 1 .. Len(list \o got) - d : i + d \in DOMAIN (list \o got)
      BY <3>2
    <3> QED
      BY <2>2, <3>1, <3>3 DEF Numbered
  <2> QED
    BY <1>d, <2>2, <2>3 DEF Numbered
<1>2. Once(recorded)'
  <2>1. \A i, j \in DOMAIN got : got[i] = got[j] => i = j
    <3>1. PICK b \in Nat : \A i \in DOMAIN got : got[i] = b + i
      BY <1>b DEF InARow
    <3>2. DOMAIN got \subseteq Nat
      BY <1>c, LenProperties
    <3> QED
      BY <3>1, <3>2
  <2>2. /\ DOMAIN recorded = 1 .. Len(recorded) /\ DOMAIN got = 1 .. Len(got)
        /\ DOMAIN recorded' = 1 .. Len(recorded) + Len(got)
        /\ Len(recorded) \in Nat /\ Len(got) \in Nat
        /\ \A i \in 1 .. Len(recorded) : recorded'[i] = recorded[i]
        /\ \A i \in 1 .. Len(got) : recorded'[Len(recorded) + i] = got[i]
        /\ \A i \in 1 .. Len(recorded) + Len(got) :
              i \in 1 .. Len(recorded) \/ \E j \in 1 .. Len(got) : i = Len(recorded) + j
    BY <1>c, <1>d, Joining
  <2>3. ASSUME NEW i \in DOMAIN recorded', NEW j \in DOMAIN recorded', recorded'[i] = recorded'[j]
        PROVE  i = j
    <3>1. CASE i \in 1 .. Len(recorded) /\ j \in 1 .. Len(recorded)
      BY <1>b, <2>2, <2>3, <3>1 DEF Once
    <3>2. CASE i \in 1 .. Len(recorded) /\ \E m \in 1 .. Len(got) : j = Len(recorded) + m
      <4>1. PICK m \in 1 .. Len(got) : j = Len(recorded) + m
        BY <3>2
      <4>2. recorded[i] = got[m] /\ i \in DOMAIN recorded /\ m \in DOMAIN got
        BY <2>2, <2>3, <3>2, <4>1
      <4> QED
        BY <1>b, <4>2 DEF Apart
    <3>3. CASE j \in 1 .. Len(recorded) /\ \E m \in 1 .. Len(got) : i = Len(recorded) + m
      <4>1. PICK m \in 1 .. Len(got) : i = Len(recorded) + m
        BY <3>3
      <4>2. recorded[j] = got[m] /\ j \in DOMAIN recorded /\ m \in DOMAIN got
        BY <2>2, <2>3, <3>3, <4>1
      <4> QED
        BY <1>b, <4>2 DEF Apart
    <3>4. CASE /\ \E m \in 1 .. Len(got) : i = Len(recorded) + m
               /\ \E n \in 1 .. Len(got) : j = Len(recorded) + n
      <4>1. PICK m \in 1 .. Len(got) : i = Len(recorded) + m
        BY <3>4
      <4>2. PICK n \in 1 .. Len(got) : j = Len(recorded) + n
        BY <3>4
      <4>3. got[m] = got[n]
        BY <2>2, <2>3, <4>1, <4>2
      <4> QED
        BY <2>1, <2>2, <4>1, <4>2, <4>3
    <3> QED
      BY <2>2, <3>1, <3>2, <3>3, <3>4
  <2> QED
    BY <2>3 DEF Once
<1>3. exposed \subseteq exposed'
  BY <1>d
<1>4. Good(manifest)'
  <2>1. /\ Follows(manifest', recorded') /\ Ordered(manifest', recorded')
        /\ HasLast(manifest', recorded', exposed)
    BY <1>b, <1>c, <1>d, WrittenIsTrue DEF Good
  <2> QED
    BY <2>1, <1>3 DEF Good, HasLast
<1>5. ASSUME NEW v \in Workers, v # w PROVE DrawOf(v)'
  <2>1. DrawOf(v) /\ pc'[v] = pc[v] /\ task'[v] = task[v] /\ draw'[v] = draw[v]
    BY <1>g, <1>5 DEF DrawInv, OnlyMoves
  <2>2. In(v, {"drawn", "fetch"}) => Apart(draw[v].got, recorded)'
    <3> SUFFICES ASSUME In(v, {"drawn", "fetch"}) PROVE Apart(draw[v].got, recorded)'
      OBVIOUS
    <3>1. Apart(draw[v].got, recorded) /\ Apart(draw[v].got, got)
      BY <1>5, <2>1 DEF DrawInv, DrawOf, got
    <3>2. /\ DOMAIN recorded = 1 .. Len(recorded) /\ DOMAIN got = 1 .. Len(got)
          /\ DOMAIN recorded' = 1 .. Len(recorded) + Len(got)
          /\ \A i \in 1 .. Len(recorded) : recorded'[i] = recorded[i]
          /\ \A i \in 1 .. Len(got) : recorded'[Len(recorded) + i] = got[i]
          /\ \A i \in 1 .. Len(recorded) + Len(got) :
                i \in 1 .. Len(recorded) \/ \E j \in 1 .. Len(got) : i = Len(recorded) + j
      BY <1>c, <1>d, Joining
    <3>3. ASSUME NEW i \in DOMAIN draw[v].got, NEW j \in DOMAIN recorded'
          PROVE  draw[v].got[i] # recorded'[j]
      <4>1. CASE j \in 1 .. Len(recorded)
        BY <3>1, <3>2, <4>1 DEF Apart
      <4>2. CASE \E m \in 1 .. Len(got) : j = Len(recorded) + m
        <5>1. PICK m \in 1 .. Len(got) : j = Len(recorded) + m
          BY <4>2
        <5>2. recorded'[j] = got[m] /\ m \in DOMAIN got
          BY <3>2, <5>1
        <5> QED
          BY <3>1, <5>2 DEF Apart
      <4> QED
        BY <3>2, <4>1, <4>2
    <3> QED
      BY <2>1, <3>3 DEF Apart
  <2>3. Listing(v) => Good(draw[v].list)'
    <3> SUFFICES ASSUME Listing(v) PROVE Good(draw[v].list)'
      OBVIOUS
    <3>1. exposed' = exposed \cup Elements(got)
      BY <1>5, <1>d DEF Others
    <3>2. draw[v].list \in Seq(Nat) /\ Good(draw[v].list)
      BY <2>1 DEF DrawOf, Numbered
    <3>3. /\ Follows(draw[v].list, recorded \o got) /\ Ordered(draw[v].list, recorded \o got)
          /\ HasLast(draw[v].list, recorded \o got, exposed \cup Elements(got))
      BY <1>c, <3>2, StaysTrue DEF Good
    <3> QED
      BY <1>d, <2>1, <3>1, <3>3 DEF Good
  <2> QED
    BY <1>d, <2>1, <2>2, <2>3 DEF DrawOf, Numbered, Kind, At, In, Listing
<1>6. DrawOf(w)'
  BY <1>b, <1>d, <1>g, EmptyDraw DEF DrawOf, Numbered, Kind, At, In, Listing
<1>7. ASSUME NEW u \in Workers, NEW v \in Workers, u # v
      PROVE  Apart(draw[u].got, draw[v].got)'
  BY <1>7, <1>g, EmptyDraw DEF DrawInv, got
<1>8. DrawTypes'
  BY <1>1, <1>d, <1>g DEF DrawInv, DrawTypes
<1> QED
  BY <1>2, <1>4, <1>5, <1>6, <1>7, <1>8 DEF DrawInv

LEMMA DrawsStart == Init => DrawInv
<1> SUFFICES ASSUME Init PROVE DrawInv
  OBVIOUS
<1> USE DEF Init, DrawInit
<1>0. images \in Seq(Picture) /\ Len(images) <= MaxImages /\ Len(images) \in Nat
      /\ DOMAIN images = 1 .. Len(images)
  <2>1. <<>> \in Seq(Picture) /\ Len(<<>>) = 0 /\ 0 <= MaxImages
    BY DrawAssumption, EmptySeq
  <2>2. images \in Seq(Picture) /\ Len(images) <= MaxImages
    BY <2>1, DrawAssumption
  <2> QED
    BY <2>2, LenProperties
<1> DEFINE all == [i \in DOMAIN images |-> i]
<1>1. all \in Seq(Nat) /\ Len(all) = Len(images) /\ DOMAIN all = 1 .. Len(images)
  <2>1. all \in [1 .. Len(images) -> Nat] /\ DOMAIN all = 1 .. Len(images)
    BY <1>0
  <2> HIDE DEF all
  <2>2. all \in Seq(Nat)
    BY <1>0, <2>1, SeqDef
  <2> QED
    BY <1>0, <2>1, <2>2, LenProperties
<1>2. \A i \in 1 .. Len(images) : all[i] = i
  BY <1>0
<1>3. manifest = LastOf(all, Kept) /\ recorded = manifest
  OBVIOUS
<1> HIDE DEF all
<1>4. PICK d \in Nat :
         /\ manifest \in Seq(Nat)
         /\ Len(manifest) = Len(images) - d
         /\ DOMAIN manifest = 1 .. Len(images) - d
         /\ \A i \in 1 .. Len(images) - d : manifest[i] = all[i + d]
  <2>1. Kept \in Nat \ {0}
    BY DrawAssumption
  <2>2. PICK d \in Nat :
           /\ LastOf(all, Kept) \in Seq(Nat)
           /\ Len(LastOf(all, Kept)) = Len(all) - d
           /\ DOMAIN LastOf(all, Kept) = 1 .. Len(all) - d
           /\ \A i \in 1 .. Len(all) - d : LastOf(all, Kept)[i] = all[i + d]
    BY <1>1, <2>1, LastOfElements
  <2> QED
    BY <1>1, <1>3, <2>2
<1>5. \A i \in DOMAIN manifest : i + d \in 1 .. Len(images) /\ manifest[i] = i + d /\ i \in Nat
  <2> TAKE i \in DOMAIN manifest
  <2>1. i \in 1 .. Len(images) - d /\ d \in Nat /\ Len(images) \in Nat
    BY <1>0, <1>4
  <2>2. i + d \in 1 .. Len(images)
    BY <2>1
  <2>3. manifest[i] = all[i + d]
    BY <1>4, <2>1
  <2> QED
    BY <1>2, <2>1, <2>2, <2>3
<1>6. Numbered(manifest) /\ Numbered(recorded) /\ Once(recorded)
  <2>1. Numbered(manifest)
    BY <1>4, <1>5 DEF Numbered
  <2>2. ASSUME NEW i \in DOMAIN manifest, NEW j \in DOMAIN manifest, manifest[i] = manifest[j]
        PROVE  i = j
    <3>1. i + d = j + d /\ i \in Nat /\ j \in Nat
      BY <1>5, <2>2
    <3> QED
      BY <3>1
  <2> QED
    BY <1>3, <2>1, <2>2 DEF Once
<1>7. Good(manifest)
  <2>1. Follows(manifest, manifest)
    <3>1. \A i \in DOMAIN manifest : Len(manifest) - i <= Len(manifest) - i
      BY <1>4, <1>5, <1>0
    <3> QED
      BY <3>1 DEF Follows
  <2>2. Ordered(manifest, manifest)
    BY DEF Ordered
  <2>3. HasLast(manifest, manifest, exposed)
    BY DEF HasLast
  <2> QED
    BY <1>3, <2>1, <2>2, <2>3 DEF Good
<1>8. ASSUME NEW w \in Workers PROVE draw[w] = NoDraw /\ DrawOf(w)
  BY EmptyDraw DEF DrawOf, WorkInit, At, In, Listing
<1>9. DrawTypes
  BY <1>0, <1>6, EmptyDraw DEF DrawTypes
<1> QED
  BY <1>6, <1>7, <1>8, <1>9, EmptyDraw DEF DrawInv

\* A crash takes what the draws hold.
LEMMA CrashDrops ==
    ASSUME WorkInv, DrawInv, Crash
    PROVE  DrawInv'
<1>1. /\ UNCHANGED <<images, manifest, recorded, exposed>>
      /\ draw' = [w \in Workers |-> NoDraw]
  BY DEF Crash
<1>2. \A w \in Workers : pc'[w] = "idle" /\ task'[w] = Idle
  BY CrashMoves
<1>3. ASSUME NEW w \in Workers PROVE DrawOf(w)' /\ draw'[w].got = <<>>
  BY <1>1, <1>2, EmptyDraw DEF DrawOf, Numbered, Kind, At, In, Listing
<1>4. DrawTypes'
  BY <1>1, EmptyDraw DEF DrawTypes, DrawInv, Numbered
<1> QED
  BY <1>1, <1>3, <1>4, EmptyDraw DEF DrawInv, Good

LEMMA AskKeepsDraws ==
    ASSUME NEW w \in Workers, NEW r \in Requests, WorkInv, DrawInv, Ask(w, r)
    PROVE  DrawInv'
<1>1. CASE r \in Draws /\ BeginDraw(w, r)
  BY <1>1, AskMoves, BeginKeeps
<1>2. CASE ~(r \in Draws /\ BeginDraw(w, r))
  <2>1. UNCHANGED drawing /\ pc'[w] \notin {"post", "drawn", "fetch"} /\ OnlyMoves(w)
    BY <1>2, AskMoves DEF Ask
  <2>2. Kind(w) # "draw" /\ ~In(w, {"post", "drawn", "fetch"})
    BY AskMoves DEF Kind, Idle, At, In
  <2> QED
    BY <2>1, <2>2, DrawFrame
<1> QED
  BY <1>1, <1>2

LEMMA DrawKeepsDraws ==
    ASSUME NEW w \in Workers, WorkInv, DrawInv, DrawStep(w)
    PROVE  DrawInv'
<1>a. Serves(task[w], pc[w])
  BY DEF WorkInv
<1>0. OnlyMoves(w) /\ Stays(w) /\ pc'[w] \in {"post", "drawn", "fetch", "rebuild", "idle"}
  BY DrawMoves
<1>1. CASE Answered(w)
  <2>1. pc'[w] = "drawn" /\ task'[w] = task[w]
    BY <1>1 DEF Answered, Goto, WorkInv
  <2> QED
    BY <1>0, <1>1, <2>1, AnsweredKeeps
<1>2. CASE TryAgain(w)
  BY <1>2, TryAgainKeeps
<1>3. CASE GiveUp(w)
  <2>1. pc'[w] = "idle" /\ task'[w] = Idle
    BY <1>3 DEF GiveUp, Done, Goto, WorkInv
  <2> QED
    BY <1>0, <1>3, <2>1, DropKeeps DEF GiveUp
<1>4. CASE ReadList(w)
  <2>1. pc'[w] = "fetch" /\ task'[w] = task[w]
    BY <1>4 DEF ReadList, Goto, WorkInv
  <2> QED
    BY <1>0, <1>4, <2>1, ReadListKeeps
<1>5. CASE WriteList(w)
  <2>1. pc'[w] \in {"rebuild", "idle"}
    BY <1>5 DEF WriteList, EndDraw, Done, Goto, WorkInv
  <2> QED
    BY <1>0, <1>5, <2>1, WriteListKeeps
<1> QED
  BY <1>1, <1>2, <1>3, <1>4, <1>5 DEF DrawStep

LEMMA ProceedKeepsDraws ==
    ASSUME NEW w \in Workers, WorkInv, DrawInv, Proceed(w)
    PROVE  DrawInv'
<1> USE DEF In
<1>1. CASE Draw(w)
  BY <1>1, DrawKeepsDraws DEF Draw
<1>2. CASE RegistryStep(w) /\ UNCHANGED drawing
  <2>1. /\ OnlyMoves(w) /\ ~In(w, {"post", "drawn", "fetch"})
        /\ pc'[w] \notin {"post", "drawn", "fetch"}
    BY <1>2, RegistryMoves DEF RegistrySteps
  <2>2. Kind(w) = "draw" => task'[w].kind = "draw"
    BY <1>2, RegistryMoves DEF Stays, Kind
  <2> QED
    BY <1>2, <2>1, <2>2, DrawFrame
<1>3. CASE RunStep(w) /\ UNCHANGED drawing
  <2>1. /\ OnlyMoves(w) /\ ~In(w, {"post", "drawn", "fetch"})
        /\ pc'[w] \notin {"post", "drawn", "fetch"}
    BY <1>3, RunMoves DEF RunSteps
  <2>2. Kind(w) # "draw"
    BY <1>3, RunMoves DEF RunSteps, Kind, WorkInv, Serves
  <2> QED
    BY <1>3, <2>1, <2>2, DrawFrame
<1>4. CASE ThreadStep(w) /\ UNCHANGED drawing
  <2>1. /\ OnlyMoves(w) /\ ~In(w, {"post", "drawn", "fetch"})
        /\ pc'[w] \notin {"post", "drawn", "fetch"}
    BY <1>4, ThreadMoves DEF ThreadSteps
  <2>2. Kind(w) # "draw"
    BY <1>4, ThreadMoves DEF ThreadSteps, Kind, WorkInv, Serves
  <2> QED
    BY <1>4, <2>1, <2>2, DrawFrame
<1>5. CASE SkipUsage(w) \/ EndUsage(w)
  <2>1. OnlyMoves(w) /\ pc'[w] = "idle" /\ task'[w] = Idle
    BY <1>5, UsageMoves DEF SkipUsage, EndUsage, BeginUsage, ReadUsage, CountUsage, At
  <2> QED
    BY <1>5, <2>1, DropKeeps DEF SkipUsage, EndUsage
<1>6. CASE BeginUsage(w)
  <2>1. /\ OnlyMoves(w) /\ ~In(w, {"post", "drawn", "fetch"}) /\ task'[w] = task[w]
        /\ pc'[w] \notin {"post", "drawn", "fetch"}
    BY <1>6, UsageMoves
  <2> QED
    BY <1>6, <2>1, DrawFrame DEF BeginUsage, Kind
<1> QED
  BY <1>1, <1>2, <1>3, <1>4, <1>5, <1>6 DEF Proceed

LEMMA DrawsStep == WorkInv /\ DrawInv /\ [Next]_vars => DrawInv'
<1> SUFFICES ASSUME WorkInv, DrawInv, [Next]_vars PROVE DrawInv'
  OBVIOUS
<1>1. CASE \E w \in Workers : Proceed(w)
  BY <1>1, ProceedKeepsDraws
<1>2. CASE \E w \in Workers : \E r \in Requests : Ask(w, r)
  BY <1>2, AskKeepsDraws
<1>3. CASE OpenPanel
  BY <1>3, DrawSame DEF OpenPanel, LoadDraft
<1>4. CASE ServeThreads
  BY <1>4, DrawSame DEF ServeThreads, Tick, TakeTurn
<1>5. CASE Crash
  BY <1>5, CrashDrops
<1>6. CASE Send \/ UNCHANGED vars
  BY <1>6, DrawSame DEF Send, vars, workbench
<1> QED
  BY <1>1, <1>2, <1>3, <1>4, <1>5, <1>6 DEF Next, Serve

LEMMA ListingFollows == DrawInv => DrawsAreListed
<1> SUFFICES ASSUME DrawInv PROVE DrawsAreListed
  OBVIOUS
<1>1. DOMAIN images = 1 .. Len(images) /\ manifest \in Seq(Nat) /\ recorded \in Seq(Nat)
  BY LenProperties DEF DrawInv, DrawTypes, Numbered
<1>2. DrawTypeOK
  <2>1. Len(images) <= MaxImages /\ Elements(manifest) \subseteq DOMAIN images
    BY <1>1 DEF DrawInv, DrawTypes, Numbered, Elements
  <2>2. ASSUME NEW w \in Workers
        PROVE  /\ draw[w].attempt \in 0 .. Attempts
               /\ Elements(draw[w].got) \subseteq DOMAIN images
               /\ draw[w].list # <<>> => Listing(w)
    BY <1>1 DEF DrawInv, DrawTypes, DrawOf, Numbered, Elements
  <2> QED
    BY <2>1, <2>2 DEF DrawTypeOK
<1>3. ASSUME NEW i \in DOMAIN LastOf(recorded, Kept)
      PROVE  LastOf(recorded, Kept)[i] \in Elements(manifest) \cup exposed
  <2>1. PICK d \in Nat :
           /\ d = IF Len(recorded) <= Kept THEN 0 ELSE Len(recorded) - Kept
           /\ DOMAIN LastOf(recorded, Kept) = 1 .. Len(recorded) - d
           /\ \A j \in 1 .. Len(recorded) - d : LastOf(recorded, Kept)[j] = recorded[j + d]
    <3>1. Kept \in Nat \ {0}
      BY DrawAssumption
    <3> QED
      BY <1>1, <3>1, LastOfElements
  <2> DEFINE n == Len(recorded)
  <2>2. /\ n \in Nat /\ Kept \in Nat /\ DOMAIN recorded = 1 .. n
        /\ i \in 1 .. n - d /\ d = IF n <= Kept THEN 0 ELSE n - Kept
    BY <1>1, <2>1, LenProperties, DrawAssumption
  <2> HIDE DEF n
  <2>3. i \in Nat /\ i >= 1 /\ i <= n - d
    BY <2>2
  <2>6. i + d \in 1 .. n
    BY <2>2, <2>3
  <2>7. n - (i + d) < Kept
    <3>1. CASE n <= Kept
      BY <2>2, <2>3, <3>1
    <3>2. CASE ~(n <= Kept)
      BY <2>2, <2>3, <3>2
    <3> QED
      BY <3>1, <3>2
  <2>8. i + d \in DOMAIN recorded
    BY <2>2, <2>6
  <2>4. Len(recorded) - (i + d) < Kept
    BY <2>7 DEF n
  <2>5. LastOf(recorded, Kept)[i] = recorded[i + d]
    BY <2>1
  <2> QED
    BY <2>4, <2>5, <2>8 DEF DrawInv, Good, HasLast, Elements
<1> QED
  BY <1>2, <1>3 DEF DrawsAreListed, DrawInv, Good, Ordered

\* The list of images holds those that were recorded last, each once and in
\* order, but for those recorded while another draw was between reading the
\* list and writing it (_record_generated_images): for every number of workers,
\* of images an answer may have and of records the list keeps.
THEOREM DrawsListed == Spec => []DrawsAreListed
<1>1. Init => WorkInv /\ DrawInv
  BY WorkStarts, DrawsStart
<1>2. WorkInv /\ DrawInv /\ [Next]_vars => (WorkInv /\ DrawInv)'
  BY WorkStep, DrawsStep
<1>3. WorkInv /\ DrawInv => DrawsAreListed
  BY ListingFollows
<1> QED
  BY <1>1, <1>2, <1>3, PTL DEF Spec

-----------------------------------------------------------------------------
(* The images of tools that are not yet counted.                           *)

Uncounted == UNION {ByTool(w) : w \in Workers}

LEMMA InFlightIsFinite ==
    ASSUME DrawInv
    PROVE  IsFiniteSet(Uncounted) /\ InFlight \in Nat /\ Uncounted \subseteq 1 .. Len(images)
<1>0. Len(images) \in Nat
  BY LenProperties DEF DrawInv, DrawTypes
<1>1. Uncounted \subseteq 1 .. Len(images)
  BY DEF Uncounted, ByTool, Elements, DrawInv, DrawOf, Numbered
<1>2. IsFiniteSet(1 .. Len(images))
  BY <1>0, FS_Interval
<1>3. IsFiniteSet(Uncounted)
  BY <1>1, <1>2, FS_Subset
<1> QED
  BY <1>1, <1>3, FS_CardinalityType DEF InFlight, Uncounted

LEMMA SameInFlight ==
    ASSUME \A w \in Workers : ByTool(w)' = ByTool(w)
    PROVE  InFlight' = InFlight
BY DEF InFlight

\* The steps of a worker change what it holds alone.
LEMMA OthersByTool ==
    ASSUME NEW w \in Workers, OnlyMoves(w), NEW v \in Workers, v # w, draw'[v] = draw[v]
    PROVE  ByTool(v)' = ByTool(v)
BY DEF OnlyMoves, ByTool, Elements

\* As many images are held as are numbered in a row.
LEMMA RowIsCounted ==
    ASSUME NEW s \in Seq(Nat), InARow(s)
    PROVE  IsFiniteSet(Elements(s)) /\ Cardinality(Elements(s)) = Len(s) /\ Len(s) \in Nat
<1>0. Len(s) \in Nat /\ DOMAIN s = 1 .. Len(s)
  BY LenProperties
<1>1. PICK b \in Nat : \A i \in DOMAIN s : s[i] = b + i
  BY DEF InARow
<1>2. Elements(s) = b + 1 .. b + Len(s)
  <2>1. ASSUME NEW x \in b + 1 .. b + Len(s) PROVE x \in Elements(s)
    <3>1. x - b \in DOMAIN s /\ x = b + (x - b)
      BY <1>0
    <3> QED
      BY <1>1, <3>1 DEF Elements
  <2>2. ASSUME NEW i \in DOMAIN s PROVE s[i] \in b + 1 .. b + Len(s)
    BY <1>0, <1>1
  <2> QED
    BY <2>1, <2>2 DEF Elements
<1> DEFINE lo == b + 1
           hi == b + Len(s)
<1>3. lo \in Int /\ hi \in Int /\ (lo > hi <=> Len(s) = 0) /\ hi - lo + 1 = Len(s)
  BY <1>0
<1>4. Elements(s) = lo .. hi
  BY <1>2
<1> HIDE DEF lo, hi
<1>5. IsFiniteSet(lo .. hi) /\ Cardinality(lo .. hi) = IF lo > hi THEN 0 ELSE hi - lo + 1
  BY <1>3, FS_Interval
<1> QED
  BY <1>0, <1>3, <1>4, <1>5

\* What a tool has drawn is in flight.
LEMMA AnsweredFlies ==
    ASSUME NEW w \in Workers, WorkInv, DrawInv, Answered(w)
    PROVE  /\ Len(images) \in Nat /\ Len(images') \in Nat
           /\ task[w].tool => InFlight' = InFlight + (Len(images') - Len(images))
           /\ ~task[w].tool => InFlight' = InFlight
<1>0. Len(images) \in Nat
  BY LenProperties DEF DrawInv, DrawTypes
<1>1. PICK k \in Nat :
         /\ images' \in Seq(Picture)
         /\ Len(images') = Len(images) + k
         /\ draw'[w].got \in Seq(Nat) /\ Len(draw'[w].got) = k
         /\ DOMAIN draw'[w].got = 1 .. k
         /\ \A i \in 1 .. k : draw'[w].got[i] = Len(images) + i
         /\ \A v \in Workers : v # w => draw'[v] = draw[v]
  BY AnsweredDoes
<1>2. OnlyMoves(w) /\ task'[w] = task[w] /\ Kind(w) = "draw" /\ draw[w].got = <<>>
  BY DrawMoves DEF Answered, DrawStep, WorkInv, Serves, At, Kind, DrawInv, DrawOf
<1>3. \A v \in Workers : v # w => ByTool(v)' = ByTool(v)
  BY <1>1, <1>2, OthersByTool
<1>4. ByTool(w) = {}
  BY <1>2 DEF ByTool, Elements
<1>5. CASE task[w].tool
  <2> DEFINE new == Elements(draw'[w].got)
  <2>1. ByTool(w)' = new
    BY <1>2, <1>5 DEF ByTool, Kind, Elements
  <2>2. InARow(draw'[w].got)
    BY <1>0, <1>1 DEF InARow
  <2>3. IsFiniteSet(new) /\ Cardinality(new) = k
    BY <1>1, <2>2, RowIsCounted
  <2>4. \A x \in new : x \notin 1 .. Len(images)
    BY <1>0, <1>1 DEF Elements
  <2>5. Uncounted' = Uncounted \cup new
    <3> HIDE DEF new
    <3>1. Uncounted' = UNION {ByTool(v)' : v \in Workers}
      BY DEF Uncounted
    <3>2. ASSUME NEW x \in Uncounted' PROVE x \in Uncounted \cup new
      BY <1>3, <2>1, <3>1 DEF Uncounted
    <3>3. ASSUME NEW x \in Uncounted PROVE x \in Uncounted'
      BY <1>3, <1>4, <3>1 DEF Uncounted
    <3>4. ASSUME NEW x \in new PROVE x \in Uncounted'
      BY <2>1, <3>1
    <3> QED
      BY <3>2, <3>3, <3>4
  <2>6. IsFiniteSet(Uncounted) /\ Uncounted \subseteq 1 .. Len(images) /\ InFlight \in Nat
    BY InFlightIsFinite
  <2> HIDE DEF new
  <2>7. Uncounted \cap new = {}
    BY <2>4, <2>6
  <2>8. Cardinality(Uncounted \cup new) =
           Cardinality(Uncounted) + Cardinality(new) - Cardinality(Uncounted \cap new)
    BY <2>3, <2>6, FS_Union
  <2>9. Cardinality(Uncounted \cap new) = 0
    BY <2>7, FS_EmptySet
  <2>10. InFlight = Cardinality(Uncounted) /\ InFlight' = Cardinality(Uncounted')
    BY DEF InFlight, Uncounted
  <2>11. InFlight' = InFlight + k
    BY <2>3, <2>5, <2>6, <2>8, <2>9, <2>10
  <2> QED
    BY <1>0, <1>1, <1>5, <2>11
<1>6. CASE ~task[w].tool
  <2>1. ByTool(w)' = ByTool(w)
    BY <1>2, <1>6 DEF ByTool
  <2> QED
    BY <1>0, <1>1, <1>3, <1>6, <2>1, SameInFlight
<1> QED
  BY <1>5, <1>6

\* What is counted is not in flight any more.
LEMMA CountedLands ==
    ASSUME NEW w \in Workers, WorkInv, DrawInv, OnlyMoves(w), In(w, {"usage", "count"}),
           draw' = [draw EXCEPT ![w] = NoDraw], task'[w] = Idle
    PROVE  Len(draw[w].got) \in Nat /\ InFlight = InFlight' + Len(draw[w].got) /\ InFlight' \in Nat
<1>1. Kind(w) = "draw" /\ task[w].tool
  BY DEF WorkInv, Serves, In, Kind
<1> DEFINE old == Elements(draw[w].got)
<1>2. ByTool(w) = old
  BY <1>1 DEF ByTool, Kind
<1>3. draw[w].got \in Seq(Nat) /\ InARow(draw[w].got)
  BY DEF DrawInv, DrawOf, Numbered
<1>4. IsFiniteSet(old) /\ Cardinality(old) = Len(draw[w].got) /\ Len(draw[w].got) \in Nat
  BY <1>3, RowIsCounted
<1>5. \A v \in Workers : v # w => draw'[v] = draw[v]
  BY DEF DrawInv, DrawTypes
<1>6. \A v \in Workers : v # w => ByTool(v)' = ByTool(v)
  BY <1>5, OthersByTool
<1>7. ByTool(w)' = {}
  BY DEF ByTool, Idle
<1>8. \A v \in Workers : v # w => ByTool(v) \cap old = {}
  BY DEF DrawInv, Apart, ByTool, Elements
<1>9. Uncounted' = Uncounted \ old /\ old \subseteq Uncounted
  <2> HIDE DEF old
  <2>1. Uncounted' = UNION {ByTool(v)' : v \in Workers}
    BY DEF Uncounted
  <2>2. ASSUME NEW x \in Uncounted' PROVE x \in Uncounted \ old
    <3>1. PICK v \in Workers : x \in ByTool(v)'
      BY <2>1
    <3>2. v # w
      BY <1>7, <3>1
    <3> QED
      BY <1>6, <1>8, <3>1, <3>2 DEF Uncounted
  <2>3. ASSUME NEW x \in Uncounted \ old PROVE x \in Uncounted'
    <3>1. PICK v \in Workers : x \in ByTool(v)
      BY DEF Uncounted
    <3>2. v # w
      BY <1>2, <3>1
    <3> QED
      BY <1>6, <2>1, <3>1, <3>2
  <2>4. old \subseteq Uncounted
    BY <1>2 DEF Uncounted
  <2> QED
    BY <2>2, <2>3, <2>4
<1>10. IsFiniteSet(Uncounted) /\ InFlight \in Nat
  BY InFlightIsFinite
<1> HIDE DEF old
<1>11. IsFiniteSet(Uncounted \ old)
       /\ Cardinality(Uncounted \ old) = Cardinality(Uncounted) - Cardinality(Uncounted \cap old)
  BY <1>10, FS_Difference
<1>12. Uncounted \cap old = old
  BY <1>9
<1>13. InFlight = Cardinality(Uncounted) /\ InFlight' = Cardinality(Uncounted')
  BY DEF InFlight, Uncounted
<1>14. InFlight' \in Nat
  BY <1>9, <1>11, <1>13, FS_CardinalityType
<1>15. InFlight' = InFlight - Len(draw[w].got)
  BY <1>4, <1>9, <1>11, <1>12, <1>13
<1> QED
  BY <1>4, <1>10, <1>14, <1>15

\* Other steps of draws leave what is in flight.
LEMMA DrawFlies ==
    ASSUME NEW w \in Workers, WorkInv, DrawInv, DrawStep(w), ~Answered(w)
    PROVE  InFlight' = InFlight
<1>0. OnlyMoves(w) /\ draw \in [Workers -> [attempt : 0 .. Attempts, got : Seq(Nat), list : Seq(Nat)]]
  BY DrawMoves DEF DrawInv, DrawTypes
<1>a. \A v \in Workers : v # w => draw'[v] = draw[v]
  BY <1>0 DEF DrawStep, TryAgain, GiveUp, ReadList, WriteList, EndDraw
<1>b. \A v \in Workers : v # w => ByTool(v)' = ByTool(v)
  BY <1>0, <1>a, OthersByTool
<1>1. CASE TryAgain(w)
  <2>1. task'[w] = task[w] /\ draw'[w].got = draw[w].got
    BY <1>0, <1>1 DEF TryAgain, work
  <2>2. ByTool(w)' = ByTool(w)
    BY <2>1 DEF ByTool, Elements
  <2> QED
    BY <1>b, <2>2, SameInFlight
<1>2. CASE GiveUp(w)
  <2>1. ByTool(w) = {}
    BY <1>2 DEF GiveUp, DrawInv, DrawOf, ByTool, Elements
  <2>2. ByTool(w)' = {}
    <3>1. task'[w] = Idle
      BY <1>2 DEF GiveUp, Done, WorkInv
    <3> QED
      BY <3>1 DEF ByTool, Idle
  <2> QED
    BY <1>b, <2>1, <2>2, SameInFlight
<1>3. CASE ReadList(w)
  <2>1. task'[w] = task[w] /\ draw'[w].got = draw[w].got
    BY <1>0, <1>3 DEF ReadList
  <2>2. ByTool(w)' = ByTool(w)
    BY <2>1 DEF ByTool, Elements
  <2> QED
    BY <1>b, <2>2, SameInFlight
<1>4. CASE WriteList(w)
  <2>1. CASE task[w].tool
    <3>1. task'[w] = task[w] /\ draw'[w].got = draw[w].got
      BY <1>0, <1>4, <2>1 DEF WriteList, EndDraw
    <3>2. ByTool(w)' = ByTool(w)
      BY <3>1 DEF ByTool, Elements
    <3> QED
      BY <1>b, <3>2, SameInFlight
  <2>2. CASE ~task[w].tool
    <3>1. task'[w] = Idle
      BY <1>4, <2>2 DEF WriteList, EndDraw, Done, WorkInv
    <3>2. ByTool(w) = {} /\ ByTool(w)' = {}
      BY <2>2, <3>1 DEF ByTool, Idle
    <3> QED
      BY <1>b, <3>2, SameInFlight
  <2> QED
    BY <2>1, <2>2
<1> QED
  BY <1>1, <1>2, <1>3, <1>4 DEF DrawStep

LEMMA NothingFlies ==
    ASSUME \A w \in Workers : task'[w] = Idle
    PROVE  InFlight' = 0
<1>1. UNION {ByTool(w)' : w \in Workers} = {}
  BY DEF ByTool, Idle
<1> QED
  BY <1>1, FS_EmptySet DEF InFlight

-----------------------------------------------------------------------------
(* The ledger, and what workers have read of it.                           *)

IsLedger(l) ==
    /\ l \in [usage : Nat, entries : SUBSET Nat, summary : Nat]
    /\ l.entries \subseteq 1 .. asked /\ l.summary <= asked

\* A ledger that may be written while nobody else holds one.
Current(l) ==
    /\ noted \subseteq l.entries
    /\ summed # 0 => l.summary = summed
    /\ ~uncounted => l.usage + InFlight = byTools

RunTypes ==
    /\ IsLedger(ledger)
    /\ draft # None => IsLedger(draft)
    /\ read = [w \in Workers |-> read[w]]
    /\ entry = [w \in Workers |-> entry[w]]
    /\ noted \subseteq Nat /\ summed \in Nat /\ uncounted \in BOOLEAN /\ byTools \in Nat
    /\ page \in AllPages
    /\ verdict # None => \E r \in Smokes : verdict = Tested(r)

RunOf(w) ==
    /\ HoldingRun(w) => IsLedger(read[w]) /\ Current(read[w])
    /\ pc[w] \in RunSteps => entry[w] \in 1 .. asked

RunInv ==
    /\ RunTypes
    /\ Current(ledger)
    /\ \A w \in Workers : RunOf(w)

\* A smoke test tells of the page alone.
LEMMA SameTest ==
    ASSUME page' = page
    PROVE  \A r : Tested(r)' = Tested(r)
BY DEF Tested, Captured, Breaks, Before

LEMMA LedgerLater ==
    ASSUME NEW l, IsLedger(l), asked' \in Nat, asked \in Nat, asked' >= asked
    PROVE  IsLedger(l)'
BY DEF IsLedger

\* Nothing of the ledger changes.
LEMMA RunFrame ==
    ASSUME NEW w \in Workers, WorkInv, WorkInv', DrawInv, RunInv, OnlyMoves(w), UNCHANGED run,
           pc'[w] \notin RunSteps \cup {"count"},
           InFlight' \in Nat, byTools' \in Nat, byTools' + InFlight = byTools + InFlight'
    PROVE  RunInv'
<1>0. InFlight \in Nat /\ asked \in Nat /\ asked' \in Nat /\ asked' >= asked
  BY InFlightIsFinite DEF WorkInv, OnlyMoves
<1>1. ASSUME NEW l, IsLedger(l), Current(l) PROVE IsLedger(l)' /\ Current(l)'
  <2>1. l.usage \in Nat /\ byTools \in Nat
    BY <1>1 DEF IsLedger, RunInv, RunTypes
  <2> QED
    BY <1>0, <1>1, <2>1, LedgerLater DEF Current, run, told
<1>2. ASSUME NEW v \in Workers PROVE RunOf(v)'
  <2>1. CASE v = w
    BY <2>1 DEF RunOf, HoldingRun, In, RunSteps
  <2>2. CASE v # w
    <3>1. RunOf(v) /\ pc'[v] = pc[v] /\ read' = read /\ entry' = entry
      BY <2>2 DEF RunInv, OnlyMoves, run
    <3>2. pc[v] \in RunSteps => entry'[v] \in 1 .. asked'
      BY <1>0, <3>1 DEF RunOf
    <3>3. HoldingRun(v) => IsLedger(read[v])' /\ Current(read[v])'
      BY <1>1, <3>1 DEF RunOf, IsLedger, Current
    <3> QED
      BY <3>1, <3>2, <3>3 DEF RunOf, HoldingRun, In
  <2> QED
    BY <2>1, <2>2
<1>3. RunTypes'
  <2>1. IsLedger(ledger)' /\ (draft # None => IsLedger(draft))'
    BY <1>0, LedgerLater DEF RunInv, RunTypes, run, IsLedger
  <2>2. \A r : Tested(r)' = Tested(r)
    BY SameTest DEF run
  <2> QED
    BY <2>1, <2>2 DEF RunInv, RunTypes, run, told
<1>4. Current(ledger)'
  <2>1. IsLedger(ledger) /\ Current(ledger) /\ ledger' = ledger
    BY DEF RunInv, RunTypes, run
  <2> QED
    BY <1>1, <2>1 DEF Current
<1> QED
  BY <1>2, <1>3, <1>4 DEF RunInv

\* A worker reads the ledger, or is done with what it read.
LEMMA ReaderMoves ==
    ASSUME NEW w \in Workers, NEW l, NEW e, WorkInv, DrawInv, RunInv, OnlyMoves(w), asked' = asked,
           UNCHANGED <<ledger, draft, page, told, byTools>>, InFlight' = InFlight,
           read' = [read EXCEPT ![w] = l], entry' = [entry EXCEPT ![w] = e],
           HoldingRun(w)' => l = ledger \/ (l = read[w] /\ HoldingRun(w)),
           pc'[w] \in RunSteps => e \in 1 .. asked,
           verdict' # None => \E r \in Smokes : verdict' = Tested(r)
    PROVE  RunInv'
<1>0. \A m : (IsLedger(m)' <=> IsLedger(m)) /\ (Current(m)' <=> Current(m))
  BY DEF IsLedger, Current, told
<1>1. read'[w] = l /\ entry'[w] = e /\ \A v \in Workers : v # w => read'[v] = read[v] /\ entry'[v] = entry[v]
  BY DEF RunInv, RunTypes
<1>2. ASSUME NEW v \in Workers PROVE RunOf(v)'
  <2>1. CASE v = w
    <3>1. HoldingRun(w)' => IsLedger(l) /\ Current(l)
      BY DEF RunInv, RunTypes, RunOf
    <3>2. HoldingRun(w)' => IsLedger(read[w])' /\ Current(read[w])'
      BY <1>1, <3>1, <1>0 DEF IsLedger, Current, told
    <3> QED
      BY <1>1, <2>1, <3>2 DEF RunOf
  <2>2. CASE v # w
    <3>1. RunOf(v) /\ pc'[v] = pc[v] /\ read'[v] = read[v] /\ entry'[v] = entry[v]
      BY <1>1, <2>2 DEF RunInv, OnlyMoves
    <3> QED
      BY <3>1 DEF RunOf, HoldingRun, In, IsLedger, Current, told
  <2> QED
    BY <2>1, <2>2
<1>3. RunTypes'
  <2>1. \A r : Tested(r)' = Tested(r)
    BY SameTest
  <2> QED
    BY <2>1 DEF RunInv, RunTypes, told, IsLedger
<1> QED
  BY <1>2, <1>3 DEF RunInv, Current, told

\* A worker writes the ledger; whoever else holds it is behind then.
LEMMA WriterMoves ==
    ASSUME NEW w \in Workers, NEW l, NEW e, WorkInv, DrawInv, RunInv, OnlyMoves(w), asked' = asked,
           UNCHANGED <<draft, page, verdict, byTools>>,
           InFlight' \in Nat,
           read' = [read EXCEPT ![w] = l], entry' = [entry EXCEPT ![w] = e],
           IsLedger(ledger'), Current(ledger)',
           noted' \subseteq Nat, summed' \in Nat, uncounted' \in BOOLEAN,
           Overwritten(w) => noted' \subseteq noted /\ summed' = 0 /\ uncounted',
           ~HoldingRun(w)', pc'[w] \in RunSteps => e \in 1 .. asked
    PROVE  RunInv'
<1>0. \A m : IsLedger(m)' <=> IsLedger(m)
  BY DEF IsLedger
<1>1. read'[w] = l /\ entry'[w] = e /\ \A v \in Workers : v # w => read'[v] = read[v] /\ entry'[v] = entry[v]
  BY DEF RunInv, RunTypes
<1>2. ASSUME NEW v \in Workers PROVE RunOf(v)'
  <2>1. CASE v = w
    BY <1>1, <2>1 DEF RunOf
  <2>2. CASE v # w
    <3>1. RunOf(v) /\ pc'[v] = pc[v] /\ read'[v] = read[v] /\ entry'[v] = entry[v]
      BY <1>1, <2>2 DEF RunInv, OnlyMoves
    <3>2. HoldingRun(v) => IsLedger(read[v])' /\ Current(read[v])'
      <4> SUFFICES ASSUME HoldingRun(v) PROVE IsLedger(read[v])' /\ Current(read[v])'
        OBVIOUS
      <4>1. noted' \subseteq noted /\ summed' = 0 /\ uncounted'
        BY <2>2 DEF Overwritten, Others
      <4> QED
        BY <3>1, <4>1 DEF RunOf, IsLedger, Current
    <3> QED
      BY <3>1, <3>2 DEF RunOf, HoldingRun, In
  <2> QED
    BY <2>1, <2>2
<1>3. RunTypes'
  <2>1. \A r : Tested(r)' = Tested(r)
    BY SameTest
  <2> QED
    BY <1>0, <2>1 DEF RunInv, RunTypes, IsLedger
<1> QED
  BY <1>2, <1>3 DEF RunInv

LEMMA NoRunIsLedger ==
    ASSUME asked \in Nat
    PROVE  IsLedger(NoRun) /\ GoodPage \in AllPages
BY DEF IsLedger, NoRun, GoodPage, AllPages

LEMMA RunStarts == Init => RunInv
<1> SUFFICES ASSUME Init PROVE RunInv
  OBVIOUS
<1> USE DEF Init, RunInit
<1>1. asked \in Nat /\ \A w \in Workers : pc[w] = "idle" /\ task[w] = Idle
  BY DEF WorkInit
<1>2. InFlight = 0
  <2>1. UNION {ByTool(w) : w \in Workers} = {}
    BY <1>1 DEF ByTool, Idle
  <2> QED
    BY <2>1, FS_EmptySet DEF InFlight
<1>3. page \in AllPages
  BY <1>1, NoRunIsLedger, RequestAssumption
<1>4. IsLedger(ledger) /\ ledger = NoRun
  BY <1>1, NoRunIsLedger
<1>5. Current(ledger)
  BY <1>2, <1>4 DEF Current, NoRun
<1>6. \A w \in Workers : RunOf(w)
  BY <1>1 DEF RunOf, HoldingRun, In, RunSteps
<1> QED
  BY <1>3, <1>4, <1>5, <1>6 DEF RunInv, RunTypes

LEMMA AskKeepsRun ==
    ASSUME NEW w \in Workers, NEW r \in Requests, WorkInv, DrawInv, RunInv, Ask(w, r)
    PROVE  RunInv'
<1>0. /\ WorkInv' /\ OnlyMoves(w) /\ At(w, "idle") /\ task[w] = Idle /\ task'[w] = r
      /\ asked \in Nat /\ asked' = asked + 1
  BY AskMoves DEF WorkInv
<1>i. InFlight' = InFlight /\ InFlight \in Nat /\ byTools' = byTools /\ byTools \in Nat
  <2>1. \A v \in Workers : v # w => draw'[v] = draw[v]
    BY DEF Ask, BeginDraw, drawing, DrawInv, DrawTypes
  <2>2. \A v \in Workers : v # w => ByTool(v)' = ByTool(v)
    BY <1>0, <2>1, OthersByTool
  <2>3. ByTool(w) = {}
    BY <1>0 DEF ByTool, Idle
  <2>4. draw'[w].got = <<>>
    <3>1. draw[w] = NoDraw
      BY <1>0 DEF DrawInv, DrawOf, Kind, Idle
    <3>2. draw \in [Workers -> [attempt : 0 .. Attempts, got : Seq(Nat), list : Seq(Nat)]]
      BY DEF DrawInv, DrawTypes
    <3>3. draw' = draw \/ draw' = [draw EXCEPT ![w].attempt = 1]
      BY DEF Ask, BeginDraw, drawing
    <3> QED
      BY <3>1, <3>2, <3>3, EmptyDraw
  <2>5. ByTool(w)' = {}
    BY <2>4 DEF ByTool, Elements
  <2>6. \A v \in Workers : ByTool(v)' = ByTool(v)
    BY <2>2, <2>3, <2>5
  <2> QED
    BY <2>6, SameInFlight, InFlightIsFinite DEF Ask, RunInv, RunTypes
<1>1. CASE r \in Draws /\ BeginDraw(w, r) /\ UNCHANGED run
  <2>1. pc'[w] \notin RunSteps \cup {"count"}
    BY <1>1, AskMoves DEF RunSteps
  <2> QED
    BY <1>0, <1>i, <1>1, <2>1, RunFrame
<1>2. CASE /\ r \in MarkRequests \cup Promotions \cup Looks \cup Rebuilds
           /\ BeginRegistry(w, r) /\ UNCHANGED run
  <2>1. pc'[w] \notin RunSteps \cup {"count"}
    BY <1>2, AskMoves DEF RunSteps
  <2> QED
    BY <1>0, <1>i, <1>2, <2>1, RunFrame
<1>3. CASE r \in ThreadRequests /\ BeginThread(w, r) /\ UNCHANGED run
  <2>1. pc'[w] \notin RunSteps \cup {"count"}
    BY <1>3, AskMoves DEF RunSteps
  <2> QED
    BY <1>0, <1>i, <1>3, <2>1, RunFrame
<1>4. CASE r \in Smokes \cup Milestones \cup Captures \cup Saves /\ BeginRun(w, r)
  <2>1. /\ pc'[w] \in {"ledger", "save"}
        /\ entry' = [entry EXCEPT ![w] = asked']
        /\ verdict' = None \/ verdict' = verdict
        /\ UNCHANGED <<ledger, draft, read, page, noted, summed, uncounted>>
    BY <1>4, AskMoves DEF BeginRun
  <2>2. \A m : IsLedger(m) => IsLedger(m)'
    BY <1>0, LedgerLater
  <2>3. \A m : Current(m)' <=> Current(m)
    BY <1>i, <2>1 DEF Current
  <2>4. ASSUME NEW v \in Workers PROVE RunOf(v)'
    <3>1. CASE v = w
      BY <1>0, <2>1, <3>1 DEF RunOf, HoldingRun, In, RunInv, RunTypes
    <3>2. CASE v # w
      <4>1. RunOf(v) /\ pc'[v] = pc[v] /\ read'[v] = read[v] /\ entry'[v] = entry[v]
        BY <1>0, <2>1, <3>2 DEF RunInv, RunTypes, OnlyMoves
      <4>2. HoldingRun(v) => IsLedger(read[v])' /\ Current(read[v])'
        BY <2>2, <2>3, <4>1 DEF RunOf, IsLedger, Current
      <4>3. entry'[v] \in 1 .. asked => entry'[v] \in 1 .. asked'
        BY <1>0
      <4> QED
        BY <4>1, <4>2, <4>3 DEF RunOf, HoldingRun, In
    <3> QED
      BY <3>1, <3>2
  <2>5. RunTypes'
    <3>1. \A p : Tested(p)' = Tested(p)
      BY <2>1, SameTest
    <3>2. IsLedger(ledger)' /\ (draft # None => IsLedger(draft))'
      BY <2>1, <2>2 DEF RunInv, RunTypes, IsLedger
    <3> QED
      BY <1>i, <2>1, <3>1, <3>2 DEF RunInv, RunTypes
  <2>6. Current(ledger)'
    BY <2>1, <2>3 DEF RunInv, Current
  <2> QED
    BY <2>4, <2>5, <2>6 DEF RunInv
<1> QED
  BY <1>1, <1>2, <1>3, <1>4 DEF Ask

LEMMA RecordKeeps ==
    ASSUME NEW w \in Workers, WorkInv, DrawInv, RunInv, Record(w), OnlyMoves(w), asked' = asked,
           InFlight' = InFlight, byTools' = byTools
    PROVE  RunInv'
<1>1. HoldingRun(w) /\ entry[w] \in 1 .. asked /\ asked \in Nat
  BY DEF Record, HoldingRun, At, In, RunInv, RunOf, RunSteps, WorkInv
<1>2. /\ read[w] \in [usage : Nat, entries : SUBSET Nat, summary : Nat]
      /\ IsLedger(read[w]) /\ Current(read[w])
  BY <1>1 DEF RunInv, RunOf, IsLedger
<1> DEFINE summary == IF Synced(w) THEN entry[w] ELSE read[w].summary
<1>s. summary \in Nat /\ summary <= asked /\ entry[w] \in Nat
  BY <1>1, <1>2 DEF IsLedger
<1>r. ledger' = [read[w] EXCEPT !.entries = @ \cup {entry[w]}, !.summary = summary]
  BY DEF Record
<1>5. /\ noted' = IF Overwritten(w) THEN noted ELSE noted \cup {entry[w]}
      /\ summed' = IF Overwritten(w) THEN 0 ELSE IF Synced(w) THEN entry[w] ELSE summed
      /\ uncounted' = (uncounted \/ Overwritten(w))
  BY DEF Record, Note
<1>a. ~Overwritten(w) => summed' = summary \/ (summed' = summed /\ summary = read[w].summary)
  <2>1. CASE Synced(w)
    BY <1>5, <2>1
  <2>2. CASE ~Synced(w)
    BY <1>5, <2>2
  <2> QED
    BY <2>1, <2>2
<1> HIDE DEF summary
<1>3. /\ ledger' \in [usage : Nat, entries : SUBSET Nat, summary : Nat]
      /\ ledger'.usage = read[w].usage /\ ledger'.entries = read[w].entries \cup {entry[w]}
      /\ ledger'.summary = summary
  BY <1>r, <1>s, <1>2
<1>4. IsLedger(ledger')
  BY <1>1, <1>2, <1>3, <1>s DEF IsLedger
<1>6. noted \subseteq Nat /\ summed \in Nat /\ uncounted \in BOOLEAN
  BY DEF RunInv, RunTypes
<1>7. Current(ledger)'
  <2>1. noted' \subseteq ledger'.entries
    BY <1>2, <1>3, <1>5 DEF Current
  <2>2. summed' # 0 => ledger'.summary = summed'
    BY <1>2, <1>3, <1>5, <1>a DEF Current
  <2>3. ~uncounted' => ledger'.usage + InFlight' = byTools'
    BY <1>2, <1>3, <1>5 DEF Current
  <2> QED
    BY <2>1, <2>2, <2>3 DEF Current
<1>8. /\ noted' \subseteq Nat /\ summed' \in Nat /\ uncounted' \in BOOLEAN
      /\ Overwritten(w) => noted' \subseteq noted /\ summed' = 0 /\ uncounted'
  <2>1. noted' \subseteq Nat /\ summed' \in Nat
    BY <1>s, <1>5, <1>6
  <2>2. uncounted' \in BOOLEAN
    BY <1>5
  <2> QED
    BY <1>5, <2>1, <2>2
<1>9. \E l, e : /\ read' = [read EXCEPT ![w] = l] /\ entry' = [entry EXCEPT ![w] = e]
                /\ ~HoldingRun(w)' /\ (pc'[w] \in RunSteps => e \in 1 .. asked)
  <2>1. CASE Synced(w)
    <3>1. read' = [read EXCEPT ![w] = read[w]] /\ entry' = [entry EXCEPT ![w] = entry[w]]
          /\ pc'[w] = "check"
      BY <2>1 DEF Record, Goto, WorkInv, RunInv, RunTypes
    <3> QED
      BY <1>1, <3>1 DEF HoldingRun, In
  <2>2. CASE ~Synced(w)
    <3>1. read' = [read EXCEPT ![w] = Unread] /\ entry' = [entry EXCEPT ![w] = 0]
          /\ pc'[w] = "idle"
      BY <2>2 DEF Record, EndRun, Done, Goto, WorkInv
    <3> QED
      BY <3>1 DEF HoldingRun, In, RunSteps
  <2> QED
    BY <2>1, <2>2
<1>10. UNCHANGED <<draft, page, verdict>>
  BY DEF Record
<1> QED
  BY <1>4, <1>7, <1>8, <1>9, <1>10, InFlightIsFinite, WriterMoves

\* The summary is set to the milestone of a worker.
LEMMA SetSummary ==
    ASSUME NEW w \in Workers, WorkInv, DrawInv, RunInv, OnlyMoves(w), asked' = asked,
           InFlight' = InFlight, byTools' = byTools, UNCHANGED <<draft, page, verdict>>,
           In(w, {"again", "sync"}), ledger' = [read[w] EXCEPT !.summary = entry[w]],
           Note(w, {}, entry[w]),
           \E l, e : /\ read' = [read EXCEPT ![w] = l] /\ entry' = [entry EXCEPT ![w] = e]
                     /\ ~HoldingRun(w)' /\ (pc'[w] \in RunSteps => e \in 1 .. asked)
    PROVE  RunInv'
<1>1. HoldingRun(w) /\ entry[w] \in 1 .. asked /\ asked \in Nat
  BY DEF HoldingRun, At, In, RunInv, RunOf, RunSteps, WorkInv
<1>2. /\ read[w] \in [usage : Nat, entries : SUBSET Nat, summary : Nat]
      /\ IsLedger(read[w]) /\ Current(read[w])
  BY <1>1 DEF RunInv, RunOf, IsLedger
<1>3. /\ ledger' \in [usage : Nat, entries : SUBSET Nat, summary : Nat]
      /\ ledger'.usage = read[w].usage /\ ledger'.entries = read[w].entries
      /\ ledger'.summary = entry[w]
  BY <1>1, <1>2
<1>4. IsLedger(ledger')
  BY <1>1, <1>2, <1>3 DEF IsLedger
<1>5. /\ noted' = noted
      /\ summed' = IF Overwritten(w) THEN 0 ELSE entry[w]
      /\ uncounted' = (uncounted \/ Overwritten(w))
  BY DEF Note
<1>6. noted \subseteq Nat /\ summed \in Nat /\ uncounted \in BOOLEAN
  BY DEF RunInv, RunTypes
<1>7. Current(ledger)'
  BY <1>2, <1>3, <1>5 DEF Current
<1>8. /\ noted' \subseteq Nat /\ summed' \in Nat /\ uncounted' \in BOOLEAN
      /\ Overwritten(w) => noted' \subseteq noted /\ summed' = 0 /\ uncounted'
  <2>1. entry[w] \in Nat
    BY <1>1
  <2>2. noted' \subseteq Nat /\ summed' \in Nat
    BY <2>1, <1>5, <1>6
  <2>3. uncounted' \in BOOLEAN
    BY <1>5
  <2> QED
    BY <1>5, <2>2, <2>3
<1> QED
  BY <1>4, <1>7, <1>8, InFlightIsFinite, WriterMoves

LEMMA SaveKeeps ==
    ASSUME NEW w \in Workers, WorkInv, DrawInv, RunInv, SaveDraft(w), OnlyMoves(w), asked' = asked,
           InFlight' = InFlight, byTools' = byTools
    PROVE  RunInv'
<1>1. IsLedger(draft) /\ Current(ledger) /\ IsLedger(ledger) /\ ledger' = draft
  BY DEF SaveDraft, RunInv, RunTypes
<1>2. IsLedger(ledger')
  BY <1>1
<1>3. /\ noted' = noted \cap draft.entries
      /\ summed' = IF draft.summary = ledger.summary /\ ~Overwritten(w) THEN summed ELSE 0
      /\ uncounted' = (uncounted \/ draft.usage # ledger.usage \/ Overwritten(w))
  BY DEF SaveDraft
<1>4. noted \subseteq Nat /\ summed \in Nat /\ uncounted \in BOOLEAN
  BY DEF RunInv, RunTypes
<1>5. Current(ledger)'
  BY <1>1, <1>3 DEF Current
<1>6. /\ noted' \subseteq Nat /\ summed' \in Nat /\ uncounted' \in BOOLEAN
      /\ Overwritten(w) => noted' \subseteq noted /\ summed' = 0 /\ uncounted'
  BY <1>3, <1>4
<1>7. /\ read' = [read EXCEPT ![w] = Unread] /\ entry' = [entry EXCEPT ![w] = 0]
      /\ ~HoldingRun(w)' /\ pc'[w] \notin RunSteps
  <2>1. pc'[w] = "idle"
    BY DEF SaveDraft, EndRun, Done, Goto, WorkInv
  <2> QED
    BY <2>1 DEF SaveDraft, EndRun, HoldingRun, In, RunSteps
<1>8. UNCHANGED <<draft, page, verdict>>
  BY DEF SaveDraft
<1> QED
  BY <1>2, <1>5, <1>6, <1>7, <1>8, InFlightIsFinite, WriterMoves

LEMMA CountKeeps ==
    ASSUME NEW w \in Workers, WorkInv, DrawInv, RunInv, EndUsage(w), OnlyMoves(w), asked' = asked
    PROVE  RunInv'
<1> DEFINE n == Len(draw[w].got)
<1>0. pc'[w] = "idle" /\ task'[w] = Idle
  BY DEF EndUsage, CountUsage, EndRun, Done, Goto, WorkInv
<1>1. HoldingRun(w) /\ In(w, {"usage", "count"})
  BY DEF EndUsage, CountUsage, HoldingRun, At, In
<1>2. n \in Nat /\ InFlight = InFlight' + n /\ InFlight' \in Nat
  BY <1>0, <1>1, CountedLands DEF EndUsage
<1>3. /\ read[w] \in [usage : Nat, entries : SUBSET Nat, summary : Nat]
      /\ IsLedger(read[w]) /\ Current(read[w])
  BY <1>1 DEF RunInv, RunOf, IsLedger
<1>4. ledger' = [read[w] EXCEPT !.usage = @ + n]
  BY DEF EndUsage, CountUsage
<1> HIDE DEF n
<1>5. /\ ledger' \in [usage : Nat, entries : SUBSET Nat, summary : Nat]
      /\ ledger'.usage = read[w].usage + n /\ ledger'.entries = read[w].entries
      /\ ledger'.summary = read[w].summary
  BY <1>2, <1>3, <1>4
<1>6. IsLedger(ledger')
  BY <1>3, <1>5 DEF IsLedger
<1>7. /\ noted' = noted /\ byTools' = byTools
      /\ summed' = IF Overwritten(w) THEN 0 ELSE summed
      /\ uncounted' = (uncounted \/ Overwritten(w))
  BY DEF EndUsage, CountUsage
<1>8. noted \subseteq Nat /\ summed \in Nat /\ uncounted \in BOOLEAN
  BY DEF RunInv, RunTypes
<1>9. Current(ledger)'
  <2>1. noted' \subseteq ledger'.entries /\ (summed' # 0 => ledger'.summary = summed')
    BY <1>3, <1>5, <1>7 DEF Current
  <2>2. ASSUME ~uncounted' PROVE ledger'.usage + InFlight' = byTools'
    <3>1. read[w].usage + InFlight = byTools /\ read[w].usage \in Nat
      BY <1>3, <1>7, <2>2 DEF Current
    <3> QED
      BY <1>2, <1>5, <1>7, <3>1
  <2> QED
    BY <2>1, <2>2 DEF Current
<1>10. /\ noted' \subseteq Nat /\ summed' \in Nat /\ uncounted' \in BOOLEAN
       /\ Overwritten(w) => noted' \subseteq noted /\ summed' = 0 /\ uncounted'
  BY <1>7, <1>8
<1>11. /\ read' = [read EXCEPT ![w] = Unread] /\ entry' = [entry EXCEPT ![w] = 0]
       /\ ~HoldingRun(w)' /\ pc'[w] \notin RunSteps
  BY <1>0 DEF EndUsage, CountUsage, EndRun, HoldingRun, In, RunSteps
<1>12. UNCHANGED <<draft, page, verdict>>
  BY DEF EndUsage, CountUsage
<1> QED
  BY <1>2, <1>6, <1>7, <1>9, <1>10, <1>11, <1>12, WriterMoves

\* No image is drawn, and none is counted.
LEMMA SameDraws ==
    ASSUME NEW w \in Workers, OnlyMoves(w), UNCHANGED drawing, Stays(w),
           Kind(w) = "draw" => task'[w] = task[w]
    PROVE  InFlight' = InFlight
<1>1. \A v \in Workers : draw'[v] = draw[v]
  BY DEF drawing
<1>2. ByTool(w)' = ByTool(w)
  <2>1. CASE task'[w] = task[w]
    BY <1>1, <2>1 DEF ByTool, Elements
  <2>2. CASE task'[w] = Idle /\ Kind(w) # "draw"
    BY <2>2 DEF ByTool, Idle, Kind
  <2> QED
    BY <2>1, <2>2 DEF Stays
<1>3. \A v \in Workers : ByTool(v)' = ByTool(v)
  BY <1>1, <1>2, OthersByTool
<1> QED
  BY <1>3, SameInFlight

\* A milestone is done with what was read, or reads it once more.
LEMMA EndsMilestone ==
    ASSUME NEW w \in Workers, WorkInv, RunInv, EndMilestone(w), pc[w] \in RunSteps
    PROVE  \E e : /\ read' = [read EXCEPT ![w] = Unread] /\ entry' = [entry EXCEPT ![w] = e]
                  /\ pc'[w] \in {"reload", "idle"}
                  /\ (pc'[w] \in RunSteps => e \in 1 .. asked)
<1>1. CASE task[w].sync
  <2>1. /\ read' = [read EXCEPT ![w] = Unread] /\ entry' = [entry EXCEPT ![w] = entry[w]]
        /\ pc'[w] = "reload" /\ entry[w] \in 1 .. asked
    BY <1>1 DEF EndMilestone, Goto, WorkInv, RunInv, RunTypes, RunOf
  <2> QED
    BY <2>1
<1>2. CASE ~task[w].sync
  <2>1. /\ read' = [read EXCEPT ![w] = Unread] /\ entry' = [entry EXCEPT ![w] = 0]
        /\ pc'[w] = "idle"
    BY <1>2 DEF EndMilestone, EndRun, Done, Goto, WorkInv
  <2> QED
    BY <2>1 DEF RunSteps
<1> QED
  BY <1>1, <1>2

LEMMA RunStepKeepsRun ==
    ASSUME NEW w \in Workers, WorkInv, DrawInv, RunInv, RunStep(w),
           UNCHANGED drawing, byTools' = byTools
    PROVE  RunInv'
<1>0. OnlyMoves(w) /\ Stays(w) /\ asked' = asked /\ pc[w] \in RunSteps
  BY RunMoves
<1>i. InFlight' = InFlight
  <2>1. Kind(w) # "draw"
    BY <1>0 DEF WorkInv, Serves, RunSteps, Kind
  <2> QED
    BY <1>0, <2>1, SameDraws
<1>e. entry[w] \in 1 .. asked
  BY <1>0 DEF RunInv, RunOf
<1>v. verdict # None => \E r \in Smokes : verdict = Tested(r)
  BY DEF RunInv, RunTypes
<1>u. read = [read EXCEPT ![w] = read[w]] /\ entry = [entry EXCEPT ![w] = entry[w]]
  BY DEF RunInv, RunTypes
<1>1. CASE ReadLedger(w) \/ ReadSummary(w)
  <2>1. /\ read' = [read EXCEPT ![w] = ledger] /\ entry' = [entry EXCEPT ![w] = entry[w]]
        /\ UNCHANGED <<ledger, draft, page, told, verdict>>
    BY <1>1, <1>u DEF ReadLedger, ReadSummary
  <2> QED
    BY <1>0, <1>i, <1>e, <1>v, <2>1, ReaderMoves
<1>2. CASE Browse(w)
  <2>1. /\ read' = [read EXCEPT ![w] = read[w]] /\ entry' = [entry EXCEPT ![w] = entry[w]]
        /\ UNCHANGED <<ledger, draft, page, told>> /\ HoldingRun(w)
        /\ verdict' = Tested(task[w])
    BY <1>2, <1>u DEF Browse, HoldingRun, In, At
  <2>2. task[w] \in Smokes
    <3>1. Kind(w) = "smoke" /\ task[w] \in Requests
      BY <1>2 DEF Browse, At, WorkInv, Serves, Kind, Idle
    <3> QED
      BY <3>1, RequestKinds DEF Kind
  <2>3. \E r \in Smokes : verdict' = Tested(r)
    BY <2>1, <2>2
  <2> QED
    BY <1>0, <1>i, <1>e, <2>1, <2>3, ReaderMoves
<1>3. CASE Record(w)
  BY <1>0, <1>i, <1>3, RecordKeeps
<1>4. CASE CheckSummary(w)
  <2>1. UNCHANGED <<ledger, draft, page, told, verdict>>
    BY <1>4 DEF CheckSummary
  <2>2. CASE ledger.summary # entry[w]
    <3>1. read' = [read EXCEPT ![w] = ledger] /\ entry' = [entry EXCEPT ![w] = entry[w]]
      BY <1>4, <2>2, <1>u DEF CheckSummary
    <3> QED
      BY <1>0, <1>i, <1>e, <1>v, <2>1, <3>1, ReaderMoves
  <2>3. CASE ledger.summary = entry[w]
    <3>1. EndMilestone(w)
      BY <1>4, <2>3 DEF CheckSummary
    <3>2. PICK e : /\ read' = [read EXCEPT ![w] = Unread] /\ entry' = [entry EXCEPT ![w] = e]
                   /\ pc'[w] \in {"reload", "idle"}
                   /\ (pc'[w] \in RunSteps => e \in 1 .. asked)
      BY <1>0, <3>1, EndsMilestone
    <3>3. ~HoldingRun(w)'
      BY <3>2 DEF HoldingRun, In
    <3> QED
      BY <1>0, <1>i, <1>v, <2>1, <3>2, <3>3, ReaderMoves
  <2> QED
    BY <2>2, <2>3
<1>5. CASE RepairSummary(w)
  <2>1. /\ In(w, {"again", "sync"}) /\ ledger' = [read[w] EXCEPT !.summary = entry[w]]
        /\ Note(w, {}, entry[w]) /\ EndMilestone(w) /\ UNCHANGED <<draft, page, verdict>>
    BY <1>5 DEF RepairSummary, In, At
  <2>2. PICK e : /\ read' = [read EXCEPT ![w] = Unread] /\ entry' = [entry EXCEPT ![w] = e]
                 /\ pc'[w] \in {"reload", "idle"}
                 /\ (pc'[w] \in RunSteps => e \in 1 .. asked)
    BY <1>0, <2>1, EndsMilestone
  <2>3. ~HoldingRun(w)'
    BY <2>2 DEF HoldingRun, In
  <2> QED
    BY <1>0, <1>i, <2>1, <2>2, <2>3, SetSummary
<1>6. CASE SyncSummary(w)
  <2>1. /\ In(w, {"again", "sync"}) /\ ledger' = [read[w] EXCEPT !.summary = entry[w]]
        /\ Note(w, {}, entry[w]) /\ UNCHANGED <<draft, page, verdict>>
        /\ read' = [read EXCEPT ![w] = Unread] /\ entry' = [entry EXCEPT ![w] = 0]
        /\ pc'[w] = "idle"
    BY <1>6 DEF SyncSummary, EndRun, Done, Goto, WorkInv, In, At
  <2>2. ~HoldingRun(w)' /\ pc'[w] \notin RunSteps
    BY <2>1 DEF HoldingRun, In, RunSteps
  <2> QED
    BY <1>0, <1>i, <2>1, <2>2, SetSummary
<1>7. CASE SaveDraft(w)
  BY <1>0, <1>i, <1>7, SaveKeeps
<1> QED
  BY <1>1, <1>2, <1>3, <1>4, <1>5, <1>6, <1>7 DEF RunStep

LEMMA ProceedKeepsRun ==
    ASSUME NEW w \in Workers, WorkInv, DrawInv, RunInv, Proceed(w)
    PROVE  RunInv'
<1>0. InFlight \in Nat /\ byTools \in Nat /\ asked \in Nat
  BY InFlightIsFinite DEF RunInv, RunTypes, WorkInv
<1>1. CASE Draw(w)
  <2>1. /\ WorkInv' /\ OnlyMoves(w) /\ UNCHANGED run
        /\ pc'[w] \notin RunSteps \cup {"count"}
    BY <1>1, DrawMoves DEF Draw, RunSteps
  <2>2. InFlight' \in Nat /\ byTools' \in Nat /\ byTools' + InFlight = byTools + InFlight'
    <3>1. CASE Answered(w)
      <4>1. At(w, "post")
        BY <3>1 DEF Answered
      <4>2. \E k \in Nat : Len(images') = Len(images) + k
        BY <3>1, AnsweredDoes
      <4>3. Len(images) \in Nat /\ Len(images') \in Nat
        BY <3>1, AnsweredFlies
      <4>4. CASE task[w].tool
        <5>1. InFlight' = InFlight + (Len(images') - Len(images))
          BY <3>1, <4>4, AnsweredFlies
        <5>2. byTools' = byTools + Len(images') - Len(images)
          BY <1>1, <4>1, <4>4 DEF Draw
        <5> QED
          BY <1>0, <4>2, <4>3, <5>1, <5>2
      <4>5. CASE ~task[w].tool
        <5>1. InFlight' = InFlight /\ byTools' = byTools
          BY <1>1, <3>1, <4>5, AnsweredFlies DEF Draw
        <5> QED
          BY <1>0, <5>1
      <4> QED
        BY <4>4, <4>5
    <3>2. CASE ~Answered(w)
      <4>1. InFlight' = InFlight
        BY <1>1, <3>2, DrawFlies DEF Draw
      <4>2. byTools' = byTools
        <5>1. images' = images
          BY <1>1, <3>2 DEF Draw, DrawStep, TryAgain, GiveUp, ReadList, WriteList
        <5>2. Len(images) \in Nat
          BY LenProperties DEF DrawInv, DrawTypes
        <5>3. byTools' = byTools \/ byTools' = byTools + Len(images') - Len(images)
          BY <1>1 DEF Draw
        <5> QED
          BY <1>0, <5>1, <5>2, <5>3
      <4> QED
        BY <1>0, <4>1, <4>2
    <3> QED
      BY <3>1, <3>2
  <2> QED
    BY <1>0, <2>1, <2>2, RunFrame
<1>2. ASSUME UNCHANGED <<drawing, run, byTools>>, WorkInv', OnlyMoves(w), Stays(w),
             pc'[w] \notin RunSteps \cup {"count"}, Kind(w) = "draw" => task'[w] = task[w]
      PROVE  RunInv'
  <2>1. InFlight' = InFlight /\ byTools' = byTools
    BY <1>2, SameDraws
  <2> QED
    BY <1>0, <1>2, <2>1, RunFrame
<1>3. CASE RegistryStep(w) /\ UNCHANGED <<drawing, run, threadState, byTools, crashes>>
  <2>1. Kind(w) = "draw" => task'[w] = task[w]
    BY <1>3, RegistryMoves DEF Stays
  <2>2. pc'[w] \notin RunSteps \cup {"count"}
    BY <1>3, RegistryMoves DEF RunSteps, RegistrySteps
  <2> QED
    BY <1>2, <1>3, <2>1, <2>2, RegistryMoves
<1>4. CASE RunStep(w) /\ UNCHANGED <<drawing, assets, threadState, byTools, crashes>>
  BY <1>4, RunStepKeepsRun
<1>5. CASE ThreadStep(w) /\ UNCHANGED <<drawing, assets, run, byTools, crashes>>
  <2>1. Kind(w) # "draw"
    BY <1>5, ThreadMoves DEF WorkInv, Serves, ThreadSteps, Kind
  <2>2. pc'[w] \notin RunSteps \cup {"count"}
    BY <1>5, ThreadMoves DEF RunSteps, ThreadSteps
  <2> QED
    BY <1>2, <1>5, <2>1, <2>2, ThreadMoves
<1>6. CASE SkipUsage(w)
  <2>1. /\ WorkInv' /\ OnlyMoves(w) /\ UNCHANGED run /\ byTools' = byTools
        /\ pc'[w] \notin RunSteps \cup {"count"} /\ task'[w] = Idle
        /\ draw' = [draw EXCEPT ![w] = NoDraw] /\ In(w, {"usage", "count"}) /\ draw[w].got = <<>>
    <3>1. pc'[w] = "idle" /\ WorkInv' /\ OnlyMoves(w) /\ task'[w] = Idle
      <4>1. ~BeginUsage(w)
        BY <1>6 DEF SkipUsage, BeginUsage
      <4> QED
        BY <1>6, <4>1, UsageMoves
    <3> QED
      BY <1>6, <3>1 DEF SkipUsage, RunSteps, In, At
  <2>2. InFlight = InFlight'
    <3>1. Len(draw[w].got) = 0
      BY <2>1, EmptySeq
    <3>2. InFlight = InFlight' + Len(draw[w].got) /\ InFlight' \in Nat
      BY <2>1, CountedLands
    <3>3. InFlight = InFlight' + 0
      BY <3>1, <3>2, Zenon
    <3>4. ASSUME NEW n \in Nat PROVE n + 0 = n
      OBVIOUS
    <3> QED
      BY <3>2, <3>3, <3>4
  <2> QED
    BY <1>0, <2>1, <2>2, RunFrame
<1>7. CASE BeginUsage(w)
  <2>0. OnlyMoves(w) /\ Stays(w) /\ asked' = asked /\ pc'[w] = "count" /\ task'[w] = task[w]
    BY <1>7, UsageMoves
  <2>1. InFlight' = InFlight
    BY <1>7, <2>0, SameDraws DEF BeginUsage
  <2>2. /\ read' = [read EXCEPT ![w] = ledger] /\ entry' = [entry EXCEPT ![w] = entry[w]]
        /\ UNCHANGED <<ledger, draft, page, told, verdict, byTools>>
    BY <1>7 DEF BeginUsage, ReadUsage, RunInv, RunTypes
  <2>3. pc'[w] \notin RunSteps
    BY <2>0 DEF RunSteps
  <2>4. verdict # None => \E r \in Smokes : verdict = Tested(r)
    BY DEF RunInv, RunTypes
  <2> QED
    BY <2>0, <2>1, <2>2, <2>3, <2>4, ReaderMoves
<1>8. CASE EndUsage(w)
  BY <1>8, CountKeeps, UsageMoves
<1> QED
  BY <1>1, <1>3, <1>4, <1>5, <1>6, <1>7, <1>8 DEF Proceed

\* With the sidecar, what was read and what is in flight is gone.
LEMMA CrashKeepsRun ==
    ASSUME WorkInv, DrawInv, RunInv, Crash
    PROVE  RunInv'
<1>0. /\ UNCHANGED <<ledger, page, noted, summed, byTools>> /\ draft' = None /\ verdict' = None
      /\ uncounted' = (uncounted \/ InFlight > 0)
      /\ read' = [w \in Workers |-> Unread] /\ entry' = [w \in Workers |-> 0]
  BY DEF Crash
<1>1. asked' = asked /\ \A w \in Workers : pc'[w] = "idle" /\ task'[w] = Idle
  BY CrashMoves
<1>2. InFlight' = 0 /\ InFlight \in Nat
  BY <1>1, NothingFlies, InFlightIsFinite
<1>3. ledger.usage \in Nat /\ byTools \in Nat
  BY DEF RunInv, RunTypes, IsLedger
<1>4. Current(ledger)'
  <2>1. noted' \subseteq ledger'.entries /\ (summed' # 0 => ledger'.summary = summed')
    BY <1>0 DEF RunInv, Current
  <2>2. ASSUME ~uncounted' PROVE ledger'.usage + InFlight' = byTools'
    <3>1. InFlight = 0 /\ ledger.usage + InFlight = byTools
      <4>1. ~(InFlight > 0) /\ ~uncounted
        BY <1>0, <2>2
      <4>2. InFlight = 0
        BY <1>2, <4>1
      <4>3. ledger.usage + InFlight = byTools
        BY <4>1 DEF RunInv, Current
      <4> QED
        BY <4>2, <4>3
    <3> QED
      BY <1>0, <1>2, <1>3, <3>1
  <2> QED
    BY <2>1, <2>2 DEF Current
<1>5. RunTypes'
  BY <1>0, <1>1 DEF RunInv, RunTypes, IsLedger
<1>6. \A w \in Workers : RunOf(w)'
  BY <1>1 DEF RunOf, HoldingRun, In, RunSteps
<1> QED
  BY <1>4, <1>5, <1>6 DEF RunInv

LEMMA SameRun ==
    ASSUME WorkInv, RunInv, UNCHANGED <<pc, task, asked, drawing, ledger, read, entry, page, verdict, told, byTools>>,
           draft' \in {draft, ledger}
    PROVE  RunInv'
<1>1. InFlight' = InFlight
  BY DEF InFlight, ByTool, Elements, drawing
<1>2. \A r : Tested(r)' = Tested(r)
  BY SameTest
<1>3. RunTypes'
  BY <1>2 DEF RunInv, RunTypes, IsLedger, told
<1>4. Current(ledger)'
  BY <1>1 DEF RunInv, Current, told
<1>5. ASSUME NEW w \in Workers PROVE RunOf(w)'
  <2>1. RunOf(w)
    BY DEF RunInv
  <2> QED
    BY <1>1, <2>1 DEF RunOf, HoldingRun, In, IsLedger, Current, told
<1> QED
  BY <1>3, <1>4, <1>5 DEF RunInv

LEMMA RunNext == WorkInv /\ DrawInv /\ RunInv /\ [Next]_vars => RunInv'
<1> SUFFICES ASSUME WorkInv, DrawInv, RunInv, [Next]_vars PROVE RunInv'
  OBVIOUS
<1>1. ASSUME NEW w \in Workers, Proceed(w) PROVE RunInv'
  BY <1>1, ProceedKeepsRun
<1>2. ASSUME NEW w \in Workers, NEW r \in Requests, Ask(w, r) PROVE RunInv'
  BY <1>2, AskKeepsRun
<1>3. CASE OpenPanel
  BY <1>3, SameRun DEF OpenPanel, LoadDraft, work
<1>4. CASE ServeThreads
  <2>1. UNCHANGED <<pc, task, asked, drawing, run, byTools>>
    BY <1>4 DEF ServeThreads, Tick, TakeTurn, work
  <2> QED
    BY <2>1, SameRun DEF run
<1>5. CASE Crash
  BY <1>5, CrashKeepsRun
<1>6. CASE Send \/ UNCHANGED vars
  <2>1. UNCHANGED <<pc, task, asked, drawing, run, byTools>>
    BY <1>6 DEF Send, vars, workbench, work
  <2> QED
    BY <2>1, SameRun DEF run
<1> QED
  BY <1>1, <1>2, <1>3, <1>4, <1>5, <1>6 DEF Next, Serve

\* A smoke test that passed tells of a page that could be opened.
LEMMA TestedIsTrue ==
    ASSUME NEW r \in Smokes, page \in AllPages
    PROVE  /\ Tested(r).status \in {"pass", "fail"} /\ Tested(r).request = r
           /\ Tested(r).status = "pass" =>
                /\ page.answer = "ok" \/ (~r.provided /\ page.status = 200)
                /\ ~r.provided =>
                    /\ page.browser = "runs" /\ page.status # 404
                    /\ page.console # "real" /\ page.failures # "real" /\ page.breaks # "action"
                    /\ r.asserted /\ ~r.truncated => page.breaks = "none"
<1>a. r.provided \in BOOLEAN /\ r.asserted \in BOOLEAN /\ r.truncated \in BOOLEAN
  BY DEF Smokes
<1>5. CASE ~r.provided /\ page.browser = "runs"
  <2> DEFINE rec == Captured(r, Before(r))
  <2>1. /\ page.answer \in {"ok", "missing", "error"} /\ page.status \in {0, 200, 404}
        /\ page.console \in {"none", "noise", "real"} /\ page.failures \in {"none", "noise", "real"}
        /\ page.breaks \in {"none", "action", "assertion"}
    BY <1>5 DEF AllPages, NoBrowser
  <2>2. /\ (rec.console <=> page.console = "real" \/ (page.console = "noise" /\ page.failures # "noise"))
        /\ (rec.failures <=> page.failures = "real")
        /\ (rec.failed <=> Breaks(r))
        /\ rec.http = IF page.status # 0 THEN page.status
                      ELSE CASE page.answer = "ok" -> 200 [] page.answer = "missing" -> 404 [] OTHER -> 0
    <3>1. (rec.console <=> page.console = "real" \/ (page.console = "noise" /\ page.failures # "noise"))
      BY <1>5 DEF Captured, Before
    <3>2. (rec.failures <=> page.failures = "real")
      BY <1>5 DEF Captured, Before
    <3>3. (rec.failed <=> Breaks(r))
      BY <1>5 DEF Captured, Before
    <3>4. rec.http = IF page.status # 0 THEN page.status
                     ELSE CASE page.answer = "ok" -> 200 [] page.answer = "missing" -> 404 [] OTHER -> 0
      BY <1>5 DEF Captured, Before
    <3> QED
      BY <3>1, <3>2, <3>3, <3>4
  <2>3. rec.http = 0 => rec.status # "pass"
    <3> SUFFICES ASSUME rec.http = 0 PROVE rec.status # "pass"
      OBVIOUS
    <3>1. page.status = 0 /\ page.answer = "error"
      BY <2>1, <2>2
    <3>2. Before(r).status = "fail"
      BY <3>1 DEF Before
    <3>3. Before(r).error <=> TRUE
      BY <3>1 DEF Before
    <3> QED
      BY <1>5, <2>1, <3>1, <3>2, <3>3 DEF Captured, Before
  <2>4. /\ Tested(r).status = IF Wrong(rec) THEN "fail" ELSE IF rec.http # 0 THEN "pass" ELSE rec.status
        /\ Tested(r).request = r
    BY <1>5 DEF Tested, Finalised
  <2>5. rec.status \in {"pass", "fail"}
    BY <1>5 DEF Captured, Before
  <2> HIDE DEF rec
  <2>6. Tested(r).status \in {"pass", "fail"}
    BY <2>4, <2>5
  <2>7. ASSUME Tested(r).status = "pass"
        PROVE  /\ page.answer = "ok" \/ page.status = 200
               /\ page.status # 404 /\ page.console # "real" /\ page.failures # "real" /\ ~Breaks(r)
    <3>1. ~Wrong(rec) /\ rec.http # 0
      BY <2>3, <2>4, <2>7
    <3>2. ~rec.console /\ ~rec.failures /\ ~rec.failed /\ ~(rec.http >= 400)
      BY <3>1 DEF Wrong
    <3>3. page.console # "real" /\ page.failures # "real" /\ ~Breaks(r)
      BY <2>2, <3>2
    <3>4. page.answer = "ok" \/ page.status = 200
      BY <2>1, <2>2, <3>1, <3>2
    <3>5. page.status # 404
      BY <2>2, <3>2
    <3> QED
      BY <3>3, <3>4, <3>5
  <2> QED
    <3>1. ASSUME Tested(r).status = "pass", r.asserted, ~r.truncated PROVE page.breaks = "none"
      BY <2>1, <2>7, <3>1 DEF Breaks
    <3>2. ASSUME Tested(r).status = "pass" PROVE page.breaks # "action"
      BY <2>7, <3>2 DEF Breaks
    <3> QED
      BY <1>5, <2>4, <2>6, <2>7, <3>1, <3>2
<1>1. CASE r.provided
  <2>1. page.answer \in {"ok", "missing", "error"}
    BY DEF AllPages
  <2> QED
    BY <1>1, <2>1 DEF Before, Finalised, Wrong, Tested
<1>2. CASE ~r.provided /\ page.browser = "no_node"
  BY <1>2 DEF Captured, Before, Finalised, Wrong, Tested
<1>3. CASE ~r.provided /\ page.browser \in {"broken", "crashed", "blind"}
  BY <1>3 DEF Captured, Finalised, Wrong, Tested
<1>4. CASE ~r.provided /\ page.browser = "missing"
  BY <1>4 DEF Captured, Before, Finalised, Wrong, Tested
<1> QED
  <2>1. page.browser \in {"no_node", "missing", "broken", "crashed", "blind", "runs"}
    BY DEF AllPages, NoBrowser
  <2> QED
    BY <1>a, <2>1, <1>1, <1>2, <1>3, <1>4, <1>5

\* The ledger of a run keeps what was recorded and the summary that was set
\* last, and counts each image a tool has drawn once, unless a request that had
\* read it before writes it after, a draft is saved, or the sidecar ends.
THEOREM LedgerTrue == Spec => []LedgerIsTrue
<1>1. Init => WorkInv /\ DrawInv /\ RunInv
  BY WorkStarts, DrawsStart, RunStarts
<1>2. WorkInv /\ DrawInv /\ RunInv /\ [Next]_vars => (WorkInv /\ DrawInv /\ RunInv)'
  BY WorkStep, DrawsStep, RunNext
<1>3. WorkInv /\ DrawInv /\ RunInv => LedgerIsTrue
  <2> SUFFICES ASSUME WorkInv, RunInv PROVE LedgerIsTrue
    OBVIOUS
  <2>1. verdict # None => verdict.status \in {"pass", "fail"}
    BY TestedIsTrue DEF RunInv, RunTypes
  <2>2. RunTypeOK
    BY <2>1 DEF WorkInv, RunInv, RunTypes, IsLedger, RunTypeOK
  <2> QED
    BY <2>2 DEF RunInv, Current, LedgerIsTrue, LedgerIsKept, UsageIsCounted
<1> QED
  BY <1>1, <1>2, <1>3, PTL DEF Spec

\* A smoke test of a run passes only if the page could be opened and, when the
\* browser took the picture, nothing it was to do or to find went wrong.
THEOREM SmokesTrue == Spec => []PassedSmokesAreTrue
<1>1. Init => WorkInv /\ DrawInv /\ RunInv
  BY WorkStarts, DrawsStart, RunStarts
<1>2. WorkInv /\ DrawInv /\ RunInv /\ [Next]_vars => (WorkInv /\ DrawInv /\ RunInv)'
  BY WorkStep, DrawsStep, RunNext
<1>3. RunInv => PassedSmokesAreTrue
  BY TestedIsTrue DEF RunInv, RunTypes, PassedSmokesAreTrue
<1> QED
  BY <1>1, <1>2, <1>3, PTL DEF Spec

-----------------------------------------------------------------------------
(* Threads and their turns.                                                *)

OfThreads == {"read", "plan", "fork", "handoff"}
Making(w) == Kind(w) \in {"fork", "handoff"}

LaneTypes ==
    /\ clock \in Nat
    /\ began \in Seq([in : Threads, at : Nat])
    /\ \A n \in DOMAIN began : began[n].at <= clock /\ began[n].in \in DOMAIN history
    /\ \A t \in DOMAIN history : history[t] \subseteq DOMAIN began
    /\ DOMAIN lanes \subseteq DOMAIN history
    /\ \A t \in DOMAIN lanes : lanes[t].since \in Nat /\ lanes[t].since <= clock

\* A thread that is being made is not in the task and has not taken a turn.
LaneOf(w) ==
    /\ Kind(w) \in {"read", "plan"} => task[w].thread \in DOMAIN history
    /\ At(w, "start") => task[w].thread \notin DOMAIN history
    /\ At(w, "start") /\ Kind(w) = "fork" => task[w].from \in DOMAIN history
    /\ Making(w) /\ ~At(w, "start") => task[w].thread \in DOMAIN history
    /\ Making(w) /\ In(w, {"start", "hint", "plan", "join"}) =>
          /\ task[w].thread \notin DOMAIN lanes
          /\ \A n \in DOMAIN began : began[n].in # task[w].thread

\* Threads are made, and plans are taken up, one at a time.
OneByOne ==
    \A v, w \in Workers : v # w => ~(Making(v) /\ Making(w)) /\ ~(Kind(v) = "plan" /\ Kind(w) = "plan")

\* Turns of a thread begin after it has joined, those that were copied before.
LanesJoined ==
    \A t \in DOMAIN lanes : \A n \in history[t] :
        IF began[n].in = t THEN began[n].at >= lanes[t].since ELSE began[n].at <= lanes[t].since

LaneInv == LaneTypes /\ LanesJoined /\ OneByOne /\ \A w \in Workers : LaneOf(w)

LEMMA ServesThread ==
    ASSUME NEW w \in Workers, WorkInv
    PROVE  /\ At(w, "start") => Making(w)
           /\ pc[w] \in ThreadSteps => Kind(w) \in OfThreads /\ task[w] \in Requests
BY DEF WorkInv, Serves, At, Making, Kind, OfThreads, ThreadSteps, Idle

LEMMA LanesStart == Init => LaneInv
<1> SUFFICES ASSUME Init PROVE LaneInv
  OBVIOUS
<1> USE DEF Init, ThreadInit
<1>1. \A w \in Workers : pc[w] = "idle" /\ task[w] = Idle
  BY DEF WorkInit
<1>2. began = <<>> /\ DOMAIN began = {}
  BY EmptySeq
<1>3. LaneTypes /\ LanesJoined
  BY <1>2, EmptySeq DEF LaneTypes, LanesJoined
<1> QED
  BY <1>1, <1>3 DEF LaneInv, LaneOf, OneByOne, Making, Kind, Idle, At, In

\* A worker goes on with its request or ends it; threads stay as they are.
LEMMA LaneFrame ==
    ASSUME NEW w \in Workers, WorkInv, LaneInv, OnlyMoves(w), UNCHANGED <<served, lanes>>,
           \/ task'[w].kind \notin OfThreads /\ ~At(w, "start")' /\ ~In(w, {"start", "hint", "plan", "join"})'
           \/ /\ task'[w] = task[w] /\ ~At(w, "start") /\ ~At(w, "start")'
              /\ Making(w) /\ In(w, {"start", "hint", "plan", "join"})' => In(w, {"start", "hint", "plan", "join"})
    PROVE  LaneInv'
<1>1. LaneTypes' /\ LanesJoined'
  BY DEF LaneInv, LaneTypes, LanesJoined, served
<1>2. OneByOne'
  <2>1. \A v \in Workers : v = w \/ Kind(v)' = Kind(v)
    BY DEF OnlyMoves, Kind
  <2>2. Kind(w)' \notin OfThreads \/ Kind(w)' = Kind(w)
    BY DEF Kind
  <2> QED
    BY <2>1, <2>2 DEF LaneInv, OneByOne, Making, OfThreads
<1>3. ASSUME NEW v \in Workers PROVE LaneOf(v)'
  <2>1. CASE v # w
    BY <2>1 DEF LaneInv, LaneOf, OnlyMoves, served, Making, Kind, At, In
  <2>2. CASE v = w
    <3>1. CASE task'[w].kind \notin OfThreads /\ ~At(w, "start")' /\ ~In(w, {"start", "hint", "plan", "join"})'
      BY <2>2, <3>1 DEF LaneOf, OfThreads, Making, Kind
    <3>2. CASE /\ task'[w] = task[w] /\ ~At(w, "start") /\ ~At(w, "start")'
               /\ Making(w) /\ In(w, {"start", "hint", "plan", "join"})' => In(w, {"start", "hint", "plan", "join"})
      BY <2>2, <3>2 DEF LaneInv, LaneOf, served, Making, Kind
    <3> QED
      BY <3>1, <3>2
  <2> QED
    BY <2>1, <2>2
<1> QED
  BY <1>1, <1>2, <1>3 DEF LaneInv

\* Whoever else makes a thread does not while this worker does.
LEMMA BeginKeepsLanes ==
    ASSUME NEW w \in Workers, NEW r \in ThreadRequests, WorkInv, LaneInv, BeginThread(w, r),
           OnlyMoves(w), task'[w] = r,
           r.kind \in OfThreads,
           pc'[w] = CASE r.kind = "read" -> "ask" [] r.kind = "plan" -> "plans" [] OTHER -> "start"
    PROVE  LaneInv'
<1>1. LaneTypes' /\ LanesJoined' /\ UNCHANGED <<served, lanes>>
  BY DEF BeginThread, LaneInv, LaneTypes, LanesJoined, served, kept
<1>k. /\ r.kind \in {"read", "plan"} <=> r \in Reads \cup Plans
      /\ r.kind = "fork" => r \in Forks
  BY DEF OfThreads, ThreadRequests, Reads, Plans, Forks, Handoffs
<1>2. OneByOne'
  <2>1. \A v \in Workers : v # w => Kind(v)' = Kind(v)
    BY DEF OnlyMoves, Kind
  <2>2. /\ r.kind = "plan" => \A v \in Workers : Kind(v) # "plan"
        /\ r.kind \in {"fork", "handoff"} => \A v \in Workers : Kind(v) \notin {"fork", "handoff"}
    BY DEF BeginThread, Alone, Kind
  <2>3. Kind(w)' = r.kind
    BY DEF Kind
  <2> QED
    BY <2>1, <2>2, <2>3 DEF LaneInv, OneByOne, Making
<1>3. ASSUME NEW v \in Workers PROVE LaneOf(v)'
  <2>1. CASE v # w
    BY <1>1, <2>1 DEF LaneInv, LaneOf, OnlyMoves, served, Making, Kind, At, In
  <2>2. CASE v = w
    <3>1. CASE r.kind \in {"read", "plan"}
      <4>1. r.thread \in DOMAIN history
        BY <1>k, <3>1 DEF BeginThread
      <4> QED
        BY <1>1, <2>2, <3>1, <4>1 DEF LaneOf, Making, Kind, At, In, served
    <3>2. CASE r.kind \in {"fork", "handoff"}
      <4>1. r.thread \notin DOMAIN history
        BY <1>k, <3>2 DEF BeginThread
      <4>2. pc'[w] = "start"
        BY <3>2
      <4>3. r.kind = "fork" => r.from \in DOMAIN history
        BY <1>k DEF BeginThread, LaneInv, LaneTypes
      <4>4. r.thread \notin DOMAIN lanes /\ \A n \in DOMAIN began : began[n].in # r.thread
        BY <4>1 DEF LaneInv, LaneTypes
      <4> QED
        BY <1>1, <2>2, <3>2, <4>1, <4>2, <4>3, <4>4 DEF LaneOf, Making, Kind, At, In, served
    <3> QED
      BY <3>1, <3>2 DEF OfThreads
  <2> QED
    BY <2>1, <2>2
<1> QED
  BY <1>1, <1>2, <1>3 DEF LaneInv

LEMMA StartKeepsLanes ==
    ASSUME NEW w \in Workers, WorkInv, LaneInv, StartThread(w), OnlyMoves(w), task'[w] = task[w],
           pc'[w] = "hint"
    PROVE  LaneInv'
<1>0. Making(w) /\ At(w, "start") /\ task[w].thread \notin DOMAIN history
  BY ServesThread DEF StartThread, LaneInv, LaneOf
<1> DEFINE new == IF task[w].kind = "fork" THEN history[task[w].from] ELSE {}
<1>1. /\ DOMAIN history' = DOMAIN history \cup {task[w].thread}
      /\ \A t \in DOMAIN history : history'[t] = history[t]
      /\ history'[task[w].thread] = new
      /\ UNCHANGED <<clock, began, lanes>>
  BY <1>0 DEF StartThread, Put, kept
<1>2. new \subseteq DOMAIN began
  BY <1>0 DEF LaneInv, LaneOf, LaneTypes, Kind
<1> HIDE DEF new
<1>3. LaneTypes' /\ LanesJoined'
  BY <1>1, <1>2 DEF LaneInv, LaneTypes, LanesJoined
<1>4. OneByOne'
  BY DEF LaneInv, OneByOne, OnlyMoves, Making, Kind
<1>5. ASSUME NEW v \in Workers PROVE LaneOf(v)'
  <2>1. CASE v # w
    <3>1. ~Making(v) /\ ~At(v, "start") /\ LaneOf(v) /\ pc'[v] = pc[v] /\ task'[v] = task[v]
      BY <1>0, <2>1, ServesThread DEF LaneInv, OneByOne, OnlyMoves
    <3> QED
      BY <1>1, <3>1 DEF LaneOf, Making, Kind, At, In
  <2>2. CASE v = w
    BY <1>0, <1>1, <2>2 DEF LaneInv, LaneOf, Making, Kind, At, In
  <2> QED
    BY <2>1, <2>2
<1> QED
  BY <1>3, <1>4, <1>5 DEF LaneInv

LEMMA JoinKeepsLanes ==
    ASSUME NEW w \in Workers, WorkInv, LaneInv, Join(w), OnlyMoves(w), Stays(w), pc'[w] \in {"ask", "idle"}
    PROVE  LaneInv'
<1>0. Making(w) /\ At(w, "join")
  BY DEF Join, WorkInv, Serves, At, Making, Kind
<1>a. /\ task[w].thread \in DOMAIN history
      /\ task[w].thread \notin DOMAIN lanes
      /\ \A n \in DOMAIN began : began[n].in # task[w].thread
  BY <1>0 DEF LaneInv, LaneOf, At, In
<1>1. /\ DOMAIN lanes' \subseteq DOMAIN lanes \cup {task[w].thread}
      /\ \A t \in DOMAIN lanes' : t # task[w].thread => lanes'[t] = lanes[t]
      /\ lanes'[task[w].thread].since = clock
      /\ UNCHANGED <<clock, began, history>>
  BY DEF Join, Put, served
<1>2. LaneTypes'
  BY <1>a, <1>1 DEF LaneInv, LaneTypes
<1>3. LanesJoined'
  BY <1>a, <1>1 DEF LaneInv, LaneTypes, LanesJoined
<1>4. OneByOne'
  BY DEF LaneInv, OneByOne, OnlyMoves, Stays, Making, Kind, Idle
<1>5. ASSUME NEW v \in Workers PROVE LaneOf(v)'
  <2>1. CASE v # w
    <3>1. ~Making(v) /\ ~At(v, "start") /\ LaneOf(v) /\ pc'[v] = pc[v] /\ task'[v] = task[v]
      BY <1>0, <2>1, ServesThread DEF LaneInv, OneByOne, OnlyMoves
    <3> QED
      BY <1>1, <3>1 DEF LaneOf, Making, Kind, At, In
  <2>2. CASE v = w
    BY <1>0, <1>a, <1>1, <2>2 DEF LaneOf, Stays, Making, Kind, At, In, Idle
  <2> QED
    BY <2>1, <2>2
<1> QED
  BY <1>2, <1>3, <1>4, <1>5 DEF LaneInv

LEMMA TurnKeepsLanes ==
    ASSUME NEW t \in Threads, WorkInv, LaneInv, TakeTurn(t)
    PROVE  LaneInv'
<1> DEFINE turn == [in |-> t, at |-> clock]
<1>0. t \in DOMAIN lanes /\ t \in DOMAIN history /\ clock \in Nat /\ turn \in [in : Threads, at : Nat]
  BY DEF TakeTurn, LaneInv, LaneTypes
<1>1. began \in Seq([in : Threads, at : Nat]) /\ began' = Append(began, turn)
  BY DEF TakeTurn, LaneInv, LaneTypes
<1>a. Len(began) \in Nat /\ DOMAIN began = 1 .. Len(began)
  BY <1>1, LenProperties
<1>2. /\ began' \in Seq([in : Threads, at : Nat]) /\ Len(began') = Len(began) + 1
      /\ DOMAIN began' = 1 .. Len(began) + 1
      /\ \A n \in 1 .. Len(began) : began'[n] = began[n]
      /\ began'[Len(began) + 1] = turn
  BY <1>0, <1>1, <1>a, AppendProperties, LenProperties
<1>3. /\ DOMAIN history' = DOMAIN history
      /\ \A s \in DOMAIN history : s # t => history'[s] = history[s]
      /\ history'[t] = history[t] \cup {Len(began) + 1}
      /\ UNCHANGED <<clock, lanes, pc, task>>
  BY <1>0, <1>2 DEF TakeTurn, work, kept
<1>4. \A n \in DOMAIN began' : n \in DOMAIN began \/ n = Len(began) + 1
  BY <1>a, <1>2
<1>5. \A n \in DOMAIN began : began'[n] = began[n] /\ n \in DOMAIN began'
  BY <1>a, <1>2
<1>6. LaneTypes'
  <2>1. \A n \in DOMAIN began' : began'[n].at <= clock' /\ began'[n].in \in DOMAIN history'
    BY <1>0, <1>2, <1>3, <1>4, <1>5 DEF LaneInv, LaneTypes
  <2>2. \A s \in DOMAIN history' : history'[s] \subseteq DOMAIN began'
    <3>1. Len(began) + 1 \in DOMAIN began'
      BY <1>a, <1>2
    <3> QED
      BY <1>3, <1>5, <3>1 DEF LaneInv, LaneTypes
  <2> QED
    BY <1>0, <1>2, <1>3, <2>1, <2>2 DEF LaneInv, LaneTypes
<1>7. LanesJoined'
  <2> SUFFICES ASSUME NEW s \in DOMAIN lanes, NEW n \in history'[s]
               PROVE  IF began'[n].in = s THEN began'[n].at >= lanes[s].since
                      ELSE began'[n].at <= lanes[s].since
    BY <1>3 DEF LanesJoined
  <2>1. s \in DOMAIN history /\ lanes[s].since \in Nat /\ lanes[s].since <= clock
    BY DEF LaneInv, LaneTypes
  <2>2. CASE n \in history[s]
    <3>1. n \in DOMAIN began
      BY <2>1, <2>2 DEF LaneInv, LaneTypes
    <3> QED
      BY <1>5, <2>2, <3>1 DEF LaneInv, LanesJoined
  <2>3. CASE s = t /\ n = Len(began) + 1
    <3>1. began'[n] = turn
      BY <1>2, <2>3
    <3>2. turn.in = t /\ turn.at = clock
      OBVIOUS
    <3> QED
      BY <1>0, <2>1, <2>3, <3>1, <3>2
  <2> QED
    BY <1>3, <2>1, <2>2, <2>3
<1>8. OneByOne'
  BY <1>3 DEF LaneInv, OneByOne, Making, Kind
<1>9. ASSUME NEW v \in Workers PROVE LaneOf(v)'
  <2>1. LaneOf(v)
    BY DEF LaneInv
  <2>2. ASSUME Making(v), In(v, {"start", "hint", "plan", "join"}), NEW n \in DOMAIN began'
        PROVE  began'[n].in # task[v].thread
    BY <1>0, <1>2, <1>4, <1>5, <2>1, <2>2 DEF LaneOf
  <2> QED
    BY <1>3, <2>1, <2>2 DEF LaneOf, Making, Kind, At, In
<1> QED
  BY <1>6, <1>7, <1>8, <1>9 DEF LaneInv

\* The steps of a worker that is not serving a request of threads.
NotOfThreads(w) ==
    /\ UNCHANGED threadState
    /\ Kind(w) \notin OfThreads /\ task'[w].kind \notin OfThreads
    /\ pc[w] \notin ThreadSteps /\ pc'[w] \notin ThreadSteps

LEMMA OtherSteps ==
    ASSUME NEW w \in Workers, WorkInv, Proceed(w)
    PROVE  OnlyMoves(w) /\ Stays(w) /\ asked' = asked /\ (ThreadStep(w) \/ NotOfThreads(w))
<1>a. Serves(task[w], pc[w])
  BY DEF WorkInv
<1>1. ASSUME OnlyMoves(w), Stays(w), UNCHANGED threadState,
             pc[w] \in {"post", "drawn", "fetch", "usage", "count"} \cup RegistrySteps \cup RunSteps,
             pc'[w] \in {"post", "drawn", "fetch", "usage", "count", "idle"} \cup RegistrySteps \cup RunSteps
      PROVE  NotOfThreads(w)
  <2>1. Kind(w) \notin OfThreads
    BY <1>a, <1>1 DEF Serves, Kind, OfThreads, RegistrySteps, RunSteps, Registering, Noting
  <2>2. task'[w].kind \notin OfThreads
    BY <1>1, <2>1 DEF Stays, Kind, Idle, OfThreads
  <2> QED
    BY <1>1, <2>1, <2>2 DEF NotOfThreads, ThreadSteps, RegistrySteps, RunSteps
<1>2. CASE Draw(w)
  BY <1>1, <1>2, DrawMoves DEF Draw, In, RegistrySteps
<1>3. CASE RegistryStep(w) /\ UNCHANGED <<drawing, run, threadState, byTools, crashes>>
  BY <1>1, <1>3, RegistryMoves
<1>4. CASE RunStep(w) /\ UNCHANGED <<drawing, assets, threadState, byTools, crashes>>
  BY <1>1, <1>4, RunMoves
<1>5. CASE ThreadStep(w)
  BY <1>5, ThreadMoves
<1>6. CASE SkipUsage(w) \/ BeginUsage(w) \/ EndUsage(w)
  <2>1. UNCHANGED threadState
    BY <1>6 DEF SkipUsage, BeginUsage, EndUsage
  <2>2. pc'[w] \in {"count", "idle"} /\ pc[w] \in {"usage", "count"} /\ OnlyMoves(w) /\ Stays(w)
        /\ asked' = asked
    BY <1>6, UsageMoves
  <2> QED
    BY <1>1, <2>1, <2>2
<1> QED
  BY <1>2, <1>3, <1>4, <1>5, <1>6 DEF Proceed

\* And those that begin another request.
LEMMA OtherRequests ==
    ASSUME NEW w \in Workers, NEW r \in Requests, WorkInv, Ask(w, r)
    PROVE  /\ OnlyMoves(w) /\ At(w, "idle") /\ task[w] = Idle /\ task'[w] = r /\ asked' = asked + 1
           /\ \/ NotOfThreads(w)
              \/ /\ r \in ThreadRequests /\ BeginThread(w, r) /\ r.kind \in OfThreads
                 /\ pc'[w] = CASE r.kind = "read" -> "ask" [] r.kind = "plan" -> "plans" [] OTHER -> "start"
<1>0. OnlyMoves(w) /\ At(w, "idle") /\ task[w] = Idle /\ task'[w] = r /\ asked' = asked + 1
  BY AskMoves
<1>1. CASE r \in ThreadRequests /\ BeginThread(w, r)
  BY <1>0, <1>1, AskMoves DEF OfThreads
<1>2. CASE /\ UNCHANGED threadState
           /\ \/ r \in Draws /\ BeginDraw(w, r)
              \/ r \in MarkRequests \cup Promotions \cup Looks \cup Rebuilds /\ BeginRegistry(w, r)
              \/ r \in Smokes \cup Milestones \cup Captures \cup Saves /\ BeginRun(w, r)
  <2>1. r.kind \notin OfThreads
    BY <1>2, AskMoves DEF Draws, OfThreads, Registering, Noting
  <2>2. pc'[w] \notin ThreadSteps
    BY <1>2, AskMoves DEF ThreadSteps
  <2> QED
    BY <1>0, <1>2, <2>1, <2>2 DEF NotOfThreads, At, Kind, Idle, OfThreads, ThreadSteps
<1> QED
  BY <1>1, <1>2 DEF Ask

LEMMA LanesNext == WorkInv /\ LaneInv /\ [Next]_vars => LaneInv'
<1> SUFFICES ASSUME WorkInv, LaneInv, [Next]_vars PROVE LaneInv'
  OBVIOUS
<1>1. ASSUME NEW w \in Workers, NotOfThreads(w), OnlyMoves(w) PROVE LaneInv'
  <2>1. UNCHANGED <<served, lanes>> /\ pc'[w] \notin ThreadSteps /\ task'[w].kind \notin OfThreads
    BY <1>1 DEF NotOfThreads, threadState, kept
  <2> QED
    BY <1>1, <2>1, LaneFrame DEF ThreadSteps, At, In
<1>2. ASSUME NEW w \in Workers, ThreadStep(w) PROVE LaneInv'
  <2>0. OnlyMoves(w) /\ Stays(w) /\ Serves(task[w], pc[w])
    BY <1>2, ThreadMoves DEF WorkInv
  <2>1. CASE StartThread(w)
    BY <2>0, <2>1, StartKeepsLanes DEF StartThread, Goto, WorkInv
  <2>2. CASE Join(w)
    <3>1. pc'[w] \in {"ask", "idle"}
      BY <2>2 DEF Join, EndThread, Done, Goto, WorkInv
    <3> QED
      BY <2>0, <2>2, <3>1, JoinKeepsLanes
  <2>3. CASE Answer(w) \/ FallBack(w) \/ ReadPlans(w) \/ WritePlans(w) \/ ReadTranscripts(w)
             \/ WriteTranscript(w)
    <3>1. UNCHANGED <<served, lanes>>
      BY <2>3 DEF Answer, FallBack, ReadPlans, WritePlans, ReadTranscripts, WriteTranscript, served, kept
    <3>2. ~At(w, "start") /\ ~At(w, "start")'
      BY <2>3 DEF Answer, FallBack, ReadPlans, WritePlans, ReadTranscripts, WriteTranscript, EndThread,
                  Done, Goto, WorkInv, At, In
    <3>3. ASSUME task'[w] = task[w], Making(w), In(w, {"start", "hint", "plan", "join"})'
          PROVE  In(w, {"start", "hint", "plan", "join"})
      <4>1. CASE Answer(w)
        <5>1. Kind(w) = "fork"
          BY <2>0, <3>3, <4>1 DEF Answer, Serves, At, Making, Kind
        <5> QED
          BY <3>3, <4>1, <5>1 DEF Answer, Goto, WorkInv, In, Kind
      <4>2. CASE ReadPlans(w)
        BY <2>0, <3>3, <4>2 DEF ReadPlans, Serves, In, Making, Kind
      <4>3. CASE WritePlans(w)
        BY <4>3 DEF WritePlans, At, In
      <4>4. CASE FallBack(w) \/ ReadTranscripts(w) \/ WriteTranscript(w)
        BY <3>3, <4>4 DEF FallBack, ReadTranscripts, WriteTranscript, EndThread, Done, Goto, WorkInv, In
      <4> QED
        BY <2>3, <4>1, <4>2, <4>3, <4>4
    <3>4. task'[w] = task[w] \/ (task'[w].kind \notin OfThreads /\ pc'[w] = "idle")
      BY <2>0 DEF Stays, Idle, OfThreads
    <3> QED
      BY <2>0, <3>1, <3>2, <3>3, <3>4, LaneFrame DEF At, In
  <2> QED
    BY <1>2, <2>1, <2>2, <2>3 DEF ThreadStep
<1>3. ASSUME NEW w \in Workers, Proceed(w) PROVE LaneInv'
  BY <1>1, <1>2, <1>3, OtherSteps
<1>4. ASSUME NEW w \in Workers, NEW r \in Requests, Ask(w, r) PROVE LaneInv'
  BY <1>1, <1>4, OtherRequests, BeginKeepsLanes
<1>5. ASSUME UNCHANGED <<served, lanes, pc, task>> PROVE LaneInv'
  BY <1>5 DEF LaneInv, LaneTypes, LanesJoined, OneByOne, LaneOf, Making, Kind, At, In, served
<1>6. CASE ServeThreads
  <2>1. CASE Tick
    <3>1. clock' = clock + 1 /\ UNCHANGED <<began, history, lanes, pc, task>>
      BY <2>1 DEF Tick, kept, work
    <3>2. LaneTypes'
      <4>1. \A n \in DOMAIN began : began[n] \in [in : Threads, at : Nat]
        BY LenProperties DEF LaneInv, LaneTypes
      <4>2. \A n \in DOMAIN began : began[n].at <= clock'
        BY <3>1, <4>1 DEF LaneInv, LaneTypes
      <4>3. \A t \in DOMAIN lanes : lanes[t].since <= clock'
        BY <3>1 DEF LaneInv, LaneTypes
      <4> QED
        BY <3>1, <4>2, <4>3 DEF LaneInv, LaneTypes
    <3>3. LanesJoined' /\ OneByOne' /\ \A w \in Workers : LaneOf(w)'
      BY <3>1 DEF LaneInv, LanesJoined, OneByOne, LaneOf, Making, Kind, At, In
    <3> QED
      BY <3>2, <3>3 DEF LaneInv
  <2> QED
    BY <1>6, <2>1, TurnKeepsLanes DEF ServeThreads
<1>7. CASE Crash
  <2>1. UNCHANGED <<served, lanes>> /\ \A w \in Workers : pc'[w] = "idle" /\ task'[w] = Idle
    BY <1>7, CrashMoves DEF Crash, kept
  <2>2. LaneTypes' /\ LanesJoined'
    BY <2>1 DEF LaneInv, LaneTypes, LanesJoined, served
  <2> QED
    BY <2>1, <2>2 DEF LaneInv, OneByOne, LaneOf, Making, Kind, At, In, Idle
<1>8. CASE OpenPanel \/ Send \/ UNCHANGED vars
  BY <1>5, <1>8 DEF OpenPanel, LoadDraft, Send, vars, workbench, work, threadState, kept
<1> QED
  BY <1>3, <1>4, <1>6, <1>7, <1>8 DEF Next, Serve

\* What workers hold of threads.
HeldInv ==
    /\ answer = [w \in Workers |-> answer[w]] /\ copy = [w \in Workers |-> copy[w]]
    /\ stale = [plans |-> stale.plans, turns |-> stale.turns]
    /\ \A w \in Workers :
        /\ answer[w] = [turns |-> answer[w].turns, cached |-> answer[w].cached, plan |-> answer[w].plan]
        /\ copy[w] = [plans |-> copy[w].plans, turns |-> copy[w].turns]

\* A worker alone changes what it holds.
Holds(w, a, c) ==
    /\ answer' = [answer EXCEPT ![w] = a]
    /\ copy' = [copy EXCEPT ![w] = c]

LEMMA HoldsDoes ==
    ASSUME NEW w \in Workers, NEW a, NEW c, HeldInv, Holds(w, a, c),
           a = [turns |-> a.turns, cached |-> a.cached, plan |-> a.plan],
           c = [plans |-> c.plans, turns |-> c.turns],
           stale' = [plans |-> stale'.plans, turns |-> stale'.turns]
    PROVE  /\ HeldInv' /\ answer'[w] = a /\ copy'[w] = c
           /\ \A v \in Workers : v # w => answer'[v] = answer[v] /\ copy'[v] = copy[v]
BY DEF HeldInv, Holds

\* Each step, in those terms.
LEMMA ThreadDoes ==
    ASSUME NEW w \in Workers, HeldInv, ThreadStep(w)
    PROVE  \E a, c :
              /\ Holds(w, a, c)
              /\ a = [turns |-> a.turns, cached |-> a.cached, plan |-> a.plan]
              /\ c = [plans |-> c.plans, turns |-> c.turns]
              /\ stale' = [plans |-> stale'.plans, turns |-> stale'.turns]
              /\ StartThread(w) => a = answer[w] /\ c = copy[w]
              /\ Join(w) => (a = answer[w] /\ c = copy[w]) \/ (a = NoAnswer /\ c = NoCopy)
              /\ Answer(w) => a.turns = history[task[w].thread] /\ a.plan = answer[w].plan
                              /\ a.cached = answer[w].cached /\ c = copy[w]
              /\ FallBack(w) => a.turns = answer[w].turns /\ a.plan = answer[w].plan
                                /\ a.cached = TRUE /\ c = copy[w]
              /\ ReadPlans(w) => a = answer[w] /\ c.plans = plans /\ c.turns = copy[w].turns
              /\ WritePlans(w) => (a = answer[w] \/ a = NoAnswer) /\ c = NoCopy /\ stale'.turns = stale.turns
              /\ ReadTranscripts(w) =>
                    \/ a = answer[w] /\ c.turns = transcripts /\ c.plans = copy[w].plans
                    \/ a = NoAnswer /\ c = NoCopy
              /\ WriteTranscript(w) => a = NoAnswer /\ c = NoCopy /\ stale'.plans = stale.plans
<1>0. /\ answer = [v \in Workers |-> answer[v]] /\ copy = [v \in Workers |-> copy[v]]
      /\ stale = [plans |-> stale.plans, turns |-> stale.turns]
      /\ answer[w] = [turns |-> answer[w].turns, cached |-> answer[w].cached, plan |-> answer[w].plan]
      /\ copy[w] = [plans |-> copy[w].plans, turns |-> copy[w].turns]
  BY DEF HeldInv
<1>a. Holds(w, answer'[w], copy'[w])
  BY <1>0 DEF Holds, ThreadStep, StartThread, Join, Answer, FallBack, ReadPlans, WritePlans,
              ReadTranscripts, WriteTranscript, EndThread
<1>b. /\ NoAnswer = [turns |-> NoAnswer.turns, cached |-> NoAnswer.cached, plan |-> NoAnswer.plan]
      /\ NoCopy = [plans |-> NoCopy.plans, turns |-> NoCopy.turns]
  BY DEF NoAnswer, NoCopy
<1> DEFINE a == answer'[w]
           c == copy'[w]
<1>1. StartThread(w) => a = answer[w] /\ c = copy[w]
  BY DEF StartThread
<1>2. Join(w) => (a = answer[w] /\ c = copy[w]) \/ (a = NoAnswer /\ c = NoCopy)
  BY <1>0 DEF Join, EndThread
<1>3. Answer(w) => /\ a.turns = history[task[w].thread] /\ a.plan = answer[w].plan
                   /\ a.cached = answer[w].cached /\ c = copy[w]
                   /\ a = [turns |-> a.turns, cached |-> a.cached, plan |-> a.plan]
  BY <1>0 DEF Answer
<1>4. FallBack(w) => /\ a.turns = answer[w].turns /\ a.plan = answer[w].plan
                     /\ a.cached = TRUE /\ c = copy[w]
                     /\ a = [turns |-> a.turns, cached |-> a.cached, plan |-> a.plan]
  <2> SUFFICES ASSUME FallBack(w)
               PROVE  a = [turns |-> answer[w].turns, cached |-> TRUE, plan |-> answer[w].plan] /\ c = copy[w]
    OBVIOUS
  <2>1. answer' = [answer EXCEPT ![w].cached = TRUE] /\ copy' = copy
    BY DEF FallBack
  <2> QED
    BY <1>0, <2>1
<1>5. ReadPlans(w) => /\ a = answer[w] /\ c.plans = plans /\ c.turns = copy[w].turns
                      /\ c = [plans |-> c.plans, turns |-> c.turns]
  BY <1>0 DEF ReadPlans
<1>6. WritePlans(w) => (a = answer[w] \/ a = NoAnswer) /\ c = NoCopy /\ stale'.turns = stale.turns
                       /\ stale' = [plans |-> stale'.plans, turns |-> stale'.turns]
  BY <1>0 DEF WritePlans, EndThread
<1>7. ReadTranscripts(w) =>
        \/ /\ a = answer[w] /\ c.turns = transcripts /\ c.plans = copy[w].plans
           /\ c = [plans |-> c.plans, turns |-> c.turns]
        \/ a = NoAnswer /\ c = NoCopy
  BY <1>0 DEF ReadTranscripts, EndThread
<1>8. WriteTranscript(w) => a = NoAnswer /\ c = NoCopy /\ stale'.plans = stale.plans
                            /\ stale' = [plans |-> stale'.plans, turns |-> stale'.turns]
  BY <1>0 DEF WriteTranscript, EndThread
<1>9. WritePlans(w) \/ WriteTranscript(w) \/ stale' = stale
  BY DEF ThreadStep, StartThread, Join, Answer, FallBack, ReadPlans, ReadTranscripts
<1> HIDE DEF a, c
<1>10. /\ a = [turns |-> a.turns, cached |-> a.cached, plan |-> a.plan]
       /\ c = [plans |-> c.plans, turns |-> c.turns]
  BY <1>0, <1>b, <1>1, <1>2, <1>3, <1>4, <1>5, <1>6, <1>7, <1>8 DEF ThreadStep
<1>11. stale' = [plans |-> stale'.plans, turns |-> stale'.turns]
  BY <1>0, <1>6, <1>8, <1>9
<1>12. Holds(w, a, c)
  BY <1>a DEF a, c
<1> QED
  BY <1>1, <1>2, <1>3, <1>4, <1>5, <1>6, <1>7, <1>8, <1>10, <1>11, <1>12

LEMMA BeginHolds ==
    ASSUME NEW w \in Workers, NEW r, HeldInv, BeginThread(w, r)
    PROVE  \E a : /\ Holds(w, a, copy[w]) /\ stale' = stale
                  /\ a = [turns |-> a.turns, cached |-> a.cached, plan |-> a.plan]
                  /\ a.turns = answer[w].turns /\ a.cached = answer[w].cached
                  /\ a.plan = IF r.kind = "plan" THEN asked' ELSE 0
<1> DEFINE n == IF r.kind = "plan" THEN asked' ELSE 0
           a == [answer[w] EXCEPT !.plan = n]
<1>1. /\ Holds(w, a, copy[w]) /\ stale' = stale
      /\ a = [turns |-> a.turns, cached |-> a.cached, plan |-> a.plan]
      /\ a.turns = answer[w].turns /\ a.cached = answer[w].cached
      /\ a.plan = n
  BY DEF BeginThread, HeldInv, Holds
<1> QED
  BY <1>1

LEMMA HeldNext == HeldInv /\ [Next]_vars => HeldInv'
<1> SUFFICES ASSUME HeldInv, [Next]_vars PROVE HeldInv'
  OBVIOUS
<1>1. ASSUME UNCHANGED <<answer, copy, stale>> PROVE HeldInv'
  BY <1>1 DEF HeldInv
<1>2. ASSUME NEW w \in Workers, ThreadStep(w) PROVE HeldInv'
  BY <1>2, ThreadDoes, HoldsDoes
<1>3. ASSUME NEW w \in Workers, Proceed(w) PROVE HeldInv'
  <2>1. ThreadStep(w) \/ UNCHANGED <<answer, copy, stale>>
    BY <1>3 DEF Proceed, Draw, SkipUsage, BeginUsage, EndUsage, threadState
  <2> QED
    BY <1>1, <1>2, <2>1
<1>4. ASSUME NEW w \in Workers, NEW r \in Requests, Ask(w, r) PROVE HeldInv'
  <2>1. BeginThread(w, r) \/ UNCHANGED <<answer, copy, stale>>
    BY <1>4 DEF Ask, threadState
  <2>2. CASE BeginThread(w, r)
    <3>1. PICK a : /\ Holds(w, a, copy[w]) /\ stale' = stale
                   /\ a = [turns |-> a.turns, cached |-> a.cached, plan |-> a.plan]
      BY <2>2, BeginHolds
    <3>2. copy[w] = [plans |-> copy[w].plans, turns |-> copy[w].turns]
          /\ stale' = [plans |-> stale'.plans, turns |-> stale'.turns]
      BY <3>1 DEF HeldInv
    <3> QED
      BY <3>1, <3>2, HoldsDoes
  <2> QED
    BY <1>1, <2>1, <2>2
<1>5. CASE Crash
  BY <1>5 DEF Crash, HeldInv, NoAnswer, NoCopy
<1>6. CASE OpenPanel \/ ServeThreads \/ Send \/ UNCHANGED vars
  <2>1. UNCHANGED <<answer, copy, stale>>
    BY <1>6 DEF OpenPanel, ServeThreads, Tick, TakeTurn, Send, vars, workbench, threadState
  <2> QED
    BY <1>1, <2>1
<1> QED
  BY <1>3, <1>4, <1>5, <1>6 DEF Next, Serve

LEMMA HeldStart == Init => HeldInv
BY DEF Init, ThreadInit, HeldInv, NoAnswer, NoCopy

\* The app-server forgets no turn.
Grows == \A t \in DOMAIN history : t \in DOMAIN history' /\ history[t] \subseteq history'[t]

LEMMA HistoryGrows ==
    ASSUME WorkInv, LaneInv, [Next]_vars
    PROVE  Grows
<1>1. ASSUME NEW w \in Workers, StartThread(w) PROVE Grows
  <2>1. task[w].thread \notin DOMAIN history
    BY <1>1 DEF StartThread, LaneInv, LaneOf
  <2> QED
    BY <1>1, <2>1 DEF StartThread, Put, Grows
<1>2. ASSUME NEW t \in Threads, TakeTurn(t) PROVE Grows
  BY <1>2 DEF TakeTurn, Grows, LaneInv, LaneTypes
<1>3. ASSUME UNCHANGED history PROVE Grows
  BY <1>3 DEF Grows
<1>4. ASSUME NEW w \in Workers, Proceed(w) PROVE Grows
  <2>1. StartThread(w) \/ UNCHANGED history
    BY <1>4 DEF Proceed, Draw, SkipUsage, BeginUsage, EndUsage, threadState, ThreadStep,
                Join, Answer, FallBack, ReadPlans, WritePlans, ReadTranscripts, WriteTranscript, served
  <2> QED
    BY <1>1, <1>3, <2>1
<1>5. ASSUME NEW w \in Workers, NEW r \in Requests, Ask(w, r) PROVE Grows
  BY <1>3, <1>5 DEF Ask, threadState, BeginThread, served
<1>6. CASE ServeThreads
  BY <1>2, <1>3, <1>6 DEF ServeThreads, Tick
<1>7. CASE Crash \/ OpenPanel \/ Send \/ UNCHANGED vars
  BY <1>3, <1>7 DEF Crash, OpenPanel, Send, vars, workbench, threadState, served
<1> QED
  BY <1>4, <1>5, <1>6, <1>7 DEF Next, Serve

\* Turns of a thread, of some threads.
TurnsOf(t) == IF t \in DOMAIN history THEN history[t] ELSE {}
OfHistory(f) == \A t \in DOMAIN f : t \in DOMAIN history /\ f[t] \subseteq history[t]

\* A worker that has read its thread, and what it read.
HasAnswer(w) ==
    \/ Kind(w) = "read" /\ In(w, {"hint", "plan", "turns", "keep"})
    \/ Kind(w) = "fork" /\ In(w, {"turns", "keep"})
Recent(w) == HasAnswer(w) /\ ~answer[w].cached /\ w \notin stale.turns
Covers(w, f) == task[w].thread \in DOMAIN f => f[task[w].thread] \subseteq answer[w].turns

TurnsHeld(w) ==
    /\ answer[w].turns \subseteq IF Kind(w) \in {"read", "fork"} THEN TurnsOf(task[w].thread) ELSE {}
    /\ At(w, "keep") => OfHistory(copy[w].turns) /\ (w \notin stale.turns => copy[w].turns = transcripts)
    /\ Recent(w) => Covers(w, transcripts)

\* No worker is about to write less than another has read.
Between(v, w) == At(v, "keep") /\ Recent(w) => Covers(w, copy[v].turns)

TurnInv ==
    /\ OfHistory(transcripts)
    /\ \A w \in Workers : TurnsHeld(w)
    /\ \A v, w \in Workers : Between(v, w)

LEMMA StillOfHistory ==
    ASSUME NEW f, OfHistory(f), Grows
    PROVE  OfHistory(f)'
BY DEF OfHistory, Grows

LEMMA MoreTurns ==
    ASSUME NEW t, Grows
    PROVE  TurnsOf(t) \subseteq TurnsOf(t)'
BY DEF TurnsOf, Grows

\* A worker other than the one that moves.
LEMMA OthersTurns ==
    ASSUME NEW w \in Workers, TurnInv, Grows, OnlyMoves(w), transcripts' = transcripts,
           stale'.turns = stale.turns,
           NEW v \in Workers, v # w, answer'[v] = answer[v], copy'[v] = copy[v]
    PROVE  /\ TurnsHeld(v)' /\ (Recent(v)' <=> Recent(v)) /\ \A f : Covers(v, f)' <=> Covers(v, f)
           /\ (At(v, "keep")' <=> At(v, "keep"))
<1>1. pc'[v] = pc[v] /\ task'[v] = task[v] /\ TurnsHeld(v)
  BY DEF OnlyMoves, TurnInv
<1>2. (Recent(v)' <=> Recent(v)) /\ (\A f : Covers(v, f)' <=> Covers(v, f))
      /\ (At(v, "keep")' <=> At(v, "keep"))
  BY <1>1 DEF Recent, HasAnswer, Covers, Kind, At, In
<1>3. TurnsOf(task[v].thread) \subseteq TurnsOf(task[v].thread)'
  BY <1>1, MoreTurns DEF TurnsOf
<1>4. (answer[v].turns \subseteq IF Kind(v) \in {"read", "fork"} THEN TurnsOf(task[v].thread) ELSE {})'
  <2>1. CASE Kind(v) \in {"read", "fork"}
    <3>1. answer'[v].turns \subseteq TurnsOf(task[v].thread)'
      BY <1>1, <1>3, <2>1 DEF TurnsHeld
    <3>2. Kind(v)' = Kind(v)
      BY <1>1 DEF Kind
    <3> QED
      BY <2>1, <3>1, <3>2
  <2>2. CASE Kind(v) \notin {"read", "fork"}
    BY <1>1, <2>2 DEF TurnsHeld, Kind
  <2> QED
    BY <2>1, <2>2
<1>5. At(v, "keep") => OfHistory(copy[v].turns)'
  BY <1>1, StillOfHistory DEF TurnsHeld, OfHistory
<1>6. At(v, "keep") /\ v \notin stale.turns => copy'[v].turns = transcripts'
  BY <1>1 DEF TurnsHeld
<1>7. Recent(v) => Covers(v, transcripts)'
  BY <1>1, <1>2 DEF TurnsHeld, Covers
<1> QED
  BY <1>2, <1>4, <1>5, <1>6, <1>7 DEF TurnsHeld

\* A worker goes on, and is not about to write a transcript.
LEMMA TurnsMove ==
    ASSUME NEW w \in Workers, TurnInv, Grows, OnlyMoves(w), transcripts' = transcripts,
           stale'.turns = stale.turns, ~At(w, "keep")',
           \A v \in Workers : v # w => answer'[v] = answer[v] /\ copy'[v] = copy[v],
           (answer[w].turns \subseteq IF Kind(w) \in {"read", "fork"} THEN TurnsOf(task[w].thread) ELSE {})',
           \/ ~HasAnswer(w)'
           \/ answer'[w].cached
           \/ HasAnswer(w) /\ task'[w] = task[w] /\ answer'[w] = answer[w]
           \/ task'[w] = task[w] /\ answer'[w].turns = TurnsOf(task[w].thread)
    PROVE  TurnInv'
<1>1. ASSUME Recent(w)', NEW f, OfHistory(f), Recent(w) => Covers(w, f) PROVE Covers(w, f)'
  <2>1. CASE HasAnswer(w) /\ task'[w] = task[w] /\ answer'[w] = answer[w]
    BY <1>1, <2>1 DEF Recent, Covers
  <2>2. CASE task'[w] = task[w] /\ answer'[w].turns = TurnsOf(task[w].thread)
    BY <1>1, <2>2 DEF Covers, OfHistory, TurnsOf
  <2> QED
    BY <1>1, <2>1, <2>2 DEF Recent
<1>2. TurnsHeld(w)'
  <2>1. Recent(w)' => Covers(w, transcripts)'
    BY <1>1 DEF TurnInv, TurnsHeld, Covers
  <2> QED
    BY <2>1 DEF TurnsHeld
<1>3. ASSUME NEW u \in Workers, NEW v \in Workers PROVE Between(u, v)'
  <2>1. CASE u = w
    BY <2>1 DEF Between
  <2>2. CASE u # w /\ v = w
    <3>1. (At(u, "keep")' <=> At(u, "keep")) /\ copy'[u] = copy[u]
      BY <2>2, OthersTurns
    <3>2. At(u, "keep") => OfHistory(copy[u].turns) /\ (Recent(w) => Covers(w, copy[u].turns))
      BY DEF TurnInv, TurnsHeld, Between
    <3> QED
      BY <1>1, <2>2, <3>1, <3>2 DEF Between, Covers
  <2>3. CASE u # w /\ v # w
    <3>1. (At(u, "keep")' <=> At(u, "keep")) /\ copy'[u] = copy[u]
      BY <2>3, OthersTurns
    <3>2. (Recent(v)' <=> Recent(v)) /\ \A f : Covers(v, f)' <=> Covers(v, f)
      BY <2>3, OthersTurns
    <3>3. Between(u, v)
      BY DEF TurnInv
    <3> QED
      BY <3>1, <3>2, <3>3 DEF Between, Covers
  <2> QED
    BY <2>1, <2>2, <2>3
<1>4. \A v \in Workers : TurnsHeld(v)'
  BY <1>2, OthersTurns
<1>5. OfHistory(transcripts)'
  BY StillOfHistory DEF TurnInv, OfHistory
<1> QED
  BY <1>3, <1>4, <1>5 DEF TurnInv

\* A worker reads the file of transcripts.
LEMMA TurnsRead ==
    ASSUME NEW w \in Workers, TurnInv, Grows, OnlyMoves(w), transcripts' = transcripts,
           stale'.turns = stale.turns,
           \A v \in Workers : v # w => answer'[v] = answer[v] /\ copy'[v] = copy[v],
           copy'[w].turns = transcripts, answer'[w] = answer[w], task'[w] = task[w],
           HasAnswer(w)
    PROVE  TurnInv'
<1>1. Recent(w)' => Recent(w)
  BY DEF Recent
<1>2. TurnsHeld(w) /\ \A f : Covers(w, f)' <=> Covers(w, f)
  BY DEF TurnInv, Covers
<1>3. OfHistory(transcripts)'
  BY StillOfHistory DEF TurnInv, OfHistory
<1>4. TurnsHeld(w)'
  <2>1. (answer[w].turns \subseteq IF Kind(w) \in {"read", "fork"} THEN TurnsOf(task[w].thread) ELSE {})'
    <3>1. Kind(w)' = Kind(w) /\ Kind(w) \in {"read", "fork"}
      BY DEF Kind, HasAnswer
    <3>2. TurnsOf(task[w].thread) \subseteq TurnsOf(task[w].thread)'
      BY MoreTurns
    <3>3. answer'[w].turns \subseteq TurnsOf(task[w].thread)'
      BY <1>2, <3>1, <3>2 DEF TurnsHeld
    <3> QED
      BY <3>1, <3>3 DEF TurnsOf
  <2>2. OfHistory(copy[w].turns)'
    BY <1>3 DEF OfHistory
  <2>3. Recent(w)' => Covers(w, transcripts)'
    BY <1>1, <1>2 DEF TurnsHeld, Covers
  <2> QED
    BY <2>1, <2>2, <2>3 DEF TurnsHeld
<1>5. ASSUME NEW u \in Workers, NEW v \in Workers PROVE Between(u, v)'
  <2>1. (Recent(v)' => Recent(v)) /\ \A f : Covers(v, f)' <=> Covers(v, f)
    <3>1. CASE v = w
      BY <1>1, <1>2, <3>1
    <3>2. CASE v # w
      BY <3>2, OthersTurns
    <3> QED
      BY <3>1, <3>2
  <2>2. CASE u = w
    <3>1. Recent(v) => Covers(v, transcripts)
      BY DEF TurnInv, TurnsHeld
    <3> QED
      BY <2>1, <2>2, <3>1 DEF Between, Covers
  <2>3. CASE u # w
    <3>1. (At(u, "keep")' <=> At(u, "keep")) /\ copy'[u] = copy[u]
      BY <2>3, OthersTurns
    <3>2. Between(u, v)
      BY DEF TurnInv
    <3> QED
      BY <2>1, <3>1, <3>2 DEF Between, Covers
  <2> QED
    BY <2>2, <2>3
<1> QED
  BY <1>3, <1>4, <1>5, OthersTurns DEF TurnInv

\* A transcript is written: whoever holds the file, or an older answer about
\* the same thread, is behind now.
LEMMA TurnsWritten ==
    ASSUME NEW w \in Workers, WorkInv, LaneInv, HeldInv, TurnInv, WriteTranscript(w)
    PROVE  TurnInv'
<1>0. /\ OnlyMoves(w) /\ At(w, "keep") /\ pc'[w] = "idle" /\ task'[w] = Idle /\ UNCHANGED history
      /\ Kind(w) \in {"read", "fork"}
  BY WorkEnds DEF WriteTranscript, EndThread, bounds, served, WorkInv, Serves, At, Kind
<1>1. PICK a, c : /\ Holds(w, a, c) /\ a = NoAnswer /\ c = NoCopy
                  /\ a = [turns |-> a.turns, cached |-> a.cached, plan |-> a.plan]
                  /\ c = [plans |-> c.plans, turns |-> c.turns]
                  /\ stale' = [plans |-> stale'.plans, turns |-> stale'.turns]
  BY ThreadDoes DEF ThreadStep
<1>2. /\ answer'[w] = NoAnswer
      /\ \A v \in Workers : v # w => answer'[v] = answer[v] /\ copy'[v] = copy[v]
  BY <1>1, HoldsDoes
<1> DEFINE t == task[w].thread
<1>3. /\ DOMAIN transcripts' = DOMAIN copy[w].turns \cup {t}
      /\ transcripts'[t] = answer[w].turns
      /\ \A s \in DOMAIN copy[w].turns : s # t => transcripts'[s] = copy[w].turns[s]
  BY DEF WriteTranscript, Put
<1>4. OfHistory(transcripts)'
  <2>1. OfHistory(copy[w].turns) /\ answer[w].turns \subseteq TurnsOf(t)
    BY <1>0 DEF TurnInv, TurnsHeld
  <2>2. t \in DOMAIN history
    BY <1>0 DEF LaneInv, LaneOf, Making, At, Kind
  <2> QED
    BY <1>0, <1>3, <2>1, <2>2 DEF OfHistory, TurnsOf
<1>5. TurnsHeld(w)' /\ ~At(w, "keep")' /\ ~Recent(w)'
  BY <1>0, <1>2 DEF TurnsHeld, Recent, HasAnswer, Kind, Idle, At, In, NoAnswer
<1>6. ASSUME NEW v \in Workers, v # w
      PROVE  /\ pc'[v] = pc[v] /\ task'[v] = task[v] /\ answer'[v] = answer[v] /\ copy'[v] = copy[v]
             /\ v \in stale.turns => v \in stale'.turns
             /\ At(v, "keep") => v \in stale'.turns
             /\ HasAnswer(v) /\ task[v].thread = t => v \in stale'.turns
  <2>1. stale'.turns = (stale.turns \cup {u \in Workers :
                \/ At(u, "keep")
                \/ /\ task[u].kind \in {"read", "fork"} /\ task[u].thread = task[w].thread
                   /\ In(u, {"hint", "plan", "turns"})}) \ {w}
    BY DEF WriteTranscript, HeldInv
  <2>2. HasAnswer(v) => Kind(v) \in {"read", "fork"} /\ (At(v, "keep") \/ In(v, {"hint", "plan", "turns"}))
    BY DEF HasAnswer, At, In
  <2> QED
    BY <1>0, <1>2, <1>6, <2>1, <2>2 DEF OnlyMoves, Kind
<1>7. ASSUME NEW v \in Workers, v # w PROVE TurnsHeld(v)'
  <2>1. TurnsHeld(v)
    BY DEF TurnInv
  <2>2. (answer[v].turns \subseteq IF Kind(v) \in {"read", "fork"} THEN TurnsOf(task[v].thread) ELSE {})'
    BY <1>0, <1>6, <1>7, <2>1 DEF TurnsHeld, TurnsOf, Kind
  <2>3. (At(v, "keep") => OfHistory(copy[v].turns) /\ (v \notin stale.turns => copy[v].turns = transcripts))'
    BY <1>0, <1>6, <1>7, <2>1 DEF TurnsHeld, OfHistory, At
  <2>4. Recent(v)' => Covers(v, transcripts)'
    <3> SUFFICES ASSUME Recent(v)' PROVE Covers(v, transcripts)'
      OBVIOUS
    <3>1. Recent(v)
      BY <1>6, <1>7 DEF Recent, HasAnswer, Kind, In
    <3>2. task[v].thread # t
      BY <1>6, <1>7, <3>1 DEF Recent
    <3>3. Covers(v, copy[w].turns)
      BY <1>0, <3>1 DEF TurnInv, Between
    <3> QED
      BY <1>3, <1>6, <1>7, <3>2, <3>3 DEF Covers
  <2> QED
    BY <2>2, <2>3, <2>4 DEF TurnsHeld
<1>8. ASSUME NEW u \in Workers, NEW v \in Workers PROVE Between(u, v)'
  <2>1. CASE u = w \/ v = w
    BY <1>5, <2>1 DEF Between
  <2>2. CASE u # w /\ v # w
    <3>1. Between(u, v)
      BY DEF TurnInv
    <3>2. Recent(v)' => Recent(v)
      BY <1>6, <2>2 DEF Recent, HasAnswer, Kind, In
    <3> QED
      BY <1>6, <2>2, <3>1, <3>2 DEF Between, Covers, At
  <2> QED
    BY <2>1, <2>2
<1> QED
  BY <1>4, <1>5, <1>7, <1>8 DEF TurnInv

LEMMA TurnsStay ==
    ASSUME TurnInv, Grows, UNCHANGED <<pc, task, transcripts, answer, copy, stale>>
    PROVE  TurnInv'
<1>1. OfHistory(transcripts)'
  BY StillOfHistory DEF TurnInv, OfHistory
<1>2. ASSUME NEW v \in Workers PROVE TurnsHeld(v)'
  <2>1. TurnsHeld(v)
    BY DEF TurnInv
  <2>2. TurnsOf(task[v].thread) \subseteq TurnsOf(task[v].thread)'
    BY MoreTurns DEF TurnsOf
  <2>3. (answer[v].turns \subseteq IF Kind(v) \in {"read", "fork"} THEN TurnsOf(task[v].thread) ELSE {})'
    BY <2>1, <2>2 DEF TurnsHeld, Kind
  <2>4. At(v, "keep") => OfHistory(copy[v].turns)'
    BY <2>1, StillOfHistory DEF TurnsHeld, OfHistory
  <2> QED
    BY <2>1, <2>3, <2>4 DEF TurnsHeld, Recent, HasAnswer, Covers, Kind, At, In
<1>3. \A u, v \in Workers : Between(u, v)'
  BY DEF TurnInv, Between, Recent, HasAnswer, Covers, Kind, At, In
<1> QED
  BY <1>1, <1>2, <1>3 DEF TurnInv

LEMMA ThreadKeepsTurns ==
    ASSUME NEW w \in Workers, WorkInv, LaneInv, HeldInv, TurnInv, Grows, ThreadStep(w)
    PROVE  TurnInv'
<1>0. OnlyMoves(w) /\ Stays(w) /\ Serves(task[w], pc[w]) /\ TurnsHeld(w)
  BY ThreadMoves DEF WorkInv, TurnInv
<1>1. PICK a, c :
        /\ Holds(w, a, c)
        /\ a = [turns |-> a.turns, cached |-> a.cached, plan |-> a.plan]
        /\ c = [plans |-> c.plans, turns |-> c.turns]
        /\ stale' = [plans |-> stale'.plans, turns |-> stale'.turns]
        /\ StartThread(w) => a = answer[w] /\ c = copy[w]
        /\ Join(w) => (a = answer[w] /\ c = copy[w]) \/ (a = NoAnswer /\ c = NoCopy)
        /\ Answer(w) => a.turns = history[task[w].thread] /\ a.plan = answer[w].plan
                        /\ a.cached = answer[w].cached /\ c = copy[w]
        /\ FallBack(w) => a.turns = answer[w].turns /\ a.plan = answer[w].plan
                          /\ a.cached = TRUE /\ c = copy[w]
        /\ ReadPlans(w) => a = answer[w] /\ c.plans = plans /\ c.turns = copy[w].turns
        /\ WritePlans(w) => (a = answer[w] \/ a = NoAnswer) /\ c = NoCopy /\ stale'.turns = stale.turns
        /\ ReadTranscripts(w) =>
              \/ a = answer[w] /\ c.turns = transcripts /\ c.plans = copy[w].plans
              \/ a = NoAnswer /\ c = NoCopy
        /\ WriteTranscript(w) => a = NoAnswer /\ c = NoCopy /\ stale'.plans = stale.plans
  BY ThreadDoes, Zenon
<1>2. /\ answer'[w] = a /\ copy'[w] = c
      /\ \A v \in Workers : v # w => answer'[v] = answer[v] /\ copy'[v] = copy[v]
  BY <1>1, HoldsDoes
\* What a worker keeps of its answer is of its thread.
<1>3. ASSUME answer'[w].turns = answer[w].turns, task'[w] = task[w]
      PROVE  (answer[w].turns \subseteq IF Kind(w) \in {"read", "fork"} THEN TurnsOf(task[w].thread) ELSE {})'
  <2>1. TurnsOf(task[w].thread) \subseteq TurnsOf(task[w].thread)'
    BY <1>3, MoreTurns DEF TurnsOf
  <2> QED
    BY <1>0, <1>3, <2>1 DEF TurnsHeld, Kind
<1>4. ASSUME answer'[w] = NoAnswer, transcripts' = transcripts, stale'.turns = stale.turns, pc'[w] = "idle",
             task'[w] = Idle
      PROVE  TurnInv'
  <2>1. ~HasAnswer(w)' /\ ~At(w, "keep")'
    BY <1>4 DEF HasAnswer, Kind, Idle, In, At
  <2>2. (answer[w].turns \subseteq IF Kind(w) \in {"read", "fork"} THEN TurnsOf(task[w].thread) ELSE {})'
    BY <1>4 DEF NoAnswer
  <2> QED
    BY <1>0, <1>2, <1>4, <2>1, <2>2, TurnsMove
<1>5. ASSUME answer'[w] = answer[w], transcripts' = transcripts, stale'.turns = stale.turns,
             task'[w] = task[w], HasAnswer(w)' => HasAnswer(w), ~At(w, "keep")'
      PROVE  TurnInv'
  <2>1. (answer[w].turns \subseteq IF Kind(w) \in {"read", "fork"} THEN TurnsOf(task[w].thread) ELSE {})'
    BY <1>3, <1>5
  <2> QED
    BY <1>0, <1>2, <1>5, <2>1, TurnsMove
<1>6. CASE StartThread(w)
  <2>1. pc'[w] = "hint" /\ task'[w] = task[w] /\ UNCHANGED <<transcripts, stale>>
        /\ Kind(w) \in {"fork", "handoff"}
    BY <1>0, <1>6 DEF StartThread, Goto, WorkInv, kept, Serves, At, Kind
  <2>2. ~HasAnswer(w)' /\ ~At(w, "keep")'
    BY <2>1 DEF HasAnswer, Kind, In, At
  <2> QED
    BY <1>1, <1>2, <1>5, <1>6, <2>1, <2>2
<1>7. CASE Join(w)
  <2>1. UNCHANGED <<transcripts, stale>>
    BY <1>7 DEF Join
  <2>2. CASE Kind(w) = "fork"
    <3>1. pc'[w] = "ask" /\ task'[w] = task[w] /\ answer'[w] = answer[w]
      BY <1>7, <2>2 DEF Join, Goto, WorkInv, Kind
    <3>2. ~HasAnswer(w)' /\ ~At(w, "keep")'
      BY <3>1 DEF HasAnswer, In, At
    <3> QED
      BY <1>5, <2>1, <3>1, <3>2
  <2>3. CASE Kind(w) # "fork"
    <3>1. pc'[w] = "idle" /\ task'[w] = Idle /\ answer'[w] = NoAnswer
      BY <1>7, <2>3 DEF Join, EndThread, Done, Goto, WorkInv, HeldInv, Kind
    <3> QED
      BY <1>4, <2>1, <3>1
  <2> QED
    BY <2>2, <2>3
<1>8. CASE Answer(w) \/ FallBack(w)
  <2>1. /\ UNCHANGED <<transcripts, stale, history>> /\ task'[w] = task[w] /\ Kind(w) \in {"read", "fork"}
        /\ pc'[w] \in {"hint", "turns"}
    BY <1>0, <1>8 DEF Answer, FallBack, Goto, WorkInv, kept, served, Serves, At, Kind
  <2>2. task[w].thread \in DOMAIN history
    BY <1>8, <2>1 DEF LaneInv, LaneOf, Making, Answer, FallBack, At, Kind
  <2>3. ~At(w, "keep")'
    BY <2>1 DEF At
  <2>4. CASE Answer(w)
    <3>1. answer'[w].turns = TurnsOf(task[w].thread)
      BY <1>1, <1>2, <2>2, <2>4 DEF TurnsOf
    <3>2. (answer[w].turns \subseteq IF Kind(w) \in {"read", "fork"} THEN TurnsOf(task[w].thread) ELSE {})'
      BY <2>1, <3>1 DEF TurnsOf, Kind
    <3> QED
      BY <1>0, <1>2, <2>1, <2>3, <3>1, <3>2, TurnsMove
  <2>5. CASE FallBack(w)
    <3>1. answer'[w].turns = answer[w].turns /\ answer'[w].cached
      BY <1>1, <1>2, <2>5
    <3> QED
      BY <1>0, <1>2, <1>3, <2>1, <2>3, <3>1, TurnsMove
  <2> QED
    BY <1>8, <2>4, <2>5
<1>9. CASE ReadPlans(w)
  <2>1. UNCHANGED <<transcripts, stale>> /\ task'[w] = task[w] /\ pc'[w] = "plan"
    BY <1>9 DEF ReadPlans, Goto, WorkInv, kept
  <2>2. Kind(w) = "read" => At(w, "hint")
    BY <1>0, <1>9 DEF ReadPlans, Serves, At, In, Kind
  <2>3. (HasAnswer(w)' => HasAnswer(w)) /\ ~At(w, "keep")'
    BY <2>1, <2>2 DEF HasAnswer, Kind, At, In
  <2> QED
    BY <1>1, <1>2, <1>5, <1>9, <2>1, <2>3
<1>10. CASE WritePlans(w)
  <2>1. UNCHANGED transcripts /\ stale'.turns = stale.turns
    BY <1>1, <1>10 DEF WritePlans
  <2>2. CASE Kind(w) = "plan"
    <3>1. pc'[w] = "idle" /\ task'[w] = Idle /\ answer'[w] = NoAnswer
      BY <1>10, <2>2 DEF WritePlans, EndThread, Done, Goto, WorkInv, HeldInv, Kind
    <3> QED
      BY <1>4, <2>1, <3>1
  <2>3. CASE Kind(w) # "plan"
    <3>1. /\ task'[w] = task[w] /\ answer'[w] = answer[w]
          /\ pc'[w] = IF Kind(w) = "read" THEN "turns" ELSE "join"
      BY <1>10, <2>3 DEF WritePlans, Goto, WorkInv, Kind
    <3>2. (HasAnswer(w)' => HasAnswer(w)) /\ ~At(w, "keep")'
      BY <1>10, <3>1 DEF WritePlans, HasAnswer, Kind, At, In
    <3> QED
      BY <1>5, <2>1, <3>1, <3>2
  <2> QED
    BY <2>2, <2>3
<1>11. CASE ReadTranscripts(w)
  <2>1. UNCHANGED <<transcripts, stale>> /\ HasAnswer(w)
    BY <1>0, <1>11 DEF ReadTranscripts, kept, HasAnswer, Serves, Kind, At, In
  <2>2. CASE task[w].thread \in DOMAIN lanes
    <3>1. task'[w] = task[w] /\ answer'[w] = answer[w] /\ copy'[w].turns = transcripts
      BY <1>11, <2>2 DEF ReadTranscripts, HeldInv
    <3> QED
      BY <1>0, <1>2, <2>1, <3>1, TurnsRead
  <2>3. CASE task[w].thread \notin DOMAIN lanes
    <3>1. pc'[w] = "idle" /\ task'[w] = Idle /\ answer'[w] = NoAnswer
      BY <1>11, <2>3 DEF ReadTranscripts, EndThread, Done, Goto, WorkInv, HeldInv
    <3> QED
      BY <1>4, <2>1, <3>1
  <2> QED
    BY <2>2, <2>3
<1>12. CASE WriteTranscript(w)
  BY <1>12, TurnsWritten
<1> QED
  BY <1>6, <1>7, <1>8, <1>9, <1>10, <1>11, <1>12 DEF ThreadStep

LEMMA TurnsStart == Init => TurnInv
BY DEF Init, ThreadInit, WorkInit, TurnInv, OfHistory, TurnsHeld, Between, Recent, HasAnswer, Kind, Idle,
       NoAnswer, At, In

LEMMA OthersKeepTurns ==
    ASSUME NEW w \in Workers, WorkInv, TurnInv, Grows, OnlyMoves(w), NotOfThreads(w)
    PROVE  TurnInv'
<1>1. UNCHANGED <<transcripts, answer, copy, stale>>
  BY DEF NotOfThreads, threadState, kept
<1>2. ~HasAnswer(w)' /\ ~At(w, "keep")'
  BY DEF NotOfThreads, HasAnswer, OfThreads, ThreadSteps, Kind, At
<1>3. (answer[w].turns \subseteq IF Kind(w) \in {"read", "fork"} THEN TurnsOf(task[w].thread) ELSE {})'
  <2>1. answer[w].turns \subseteq {}
    BY DEF NotOfThreads, OfThreads, TurnInv, TurnsHeld
  <2> QED
    BY <1>1, <2>1 DEF NotOfThreads, OfThreads, Kind
<1> QED
  BY <1>1, <1>2, <1>3, TurnsMove

LEMMA TurnsNext ==
    ASSUME WorkInv, LaneInv, HeldInv, TurnInv, [Next]_vars
    PROVE  TurnInv'
<1>0. Grows
  BY HistoryGrows
<1>1. ASSUME NEW w \in Workers, Proceed(w) PROVE TurnInv'
  BY <1>0, <1>1, OtherSteps, OthersKeepTurns, ThreadKeepsTurns
<1>2. ASSUME NEW w \in Workers, NEW r \in Requests, Ask(w, r) PROVE TurnInv'
  <2>0. /\ OnlyMoves(w) /\ At(w, "idle") /\ task[w] = Idle /\ task'[w] = r
        /\ \/ NotOfThreads(w)
           \/ /\ r \in ThreadRequests /\ BeginThread(w, r) /\ r.kind \in OfThreads
              /\ pc'[w] = CASE r.kind = "read" -> "ask" [] r.kind = "plan" -> "plans" [] OTHER -> "start"
    BY <1>2, OtherRequests
  <2>1. CASE NotOfThreads(w)
    BY <1>0, <2>0, <2>1, OthersKeepTurns
  <2>2. CASE /\ BeginThread(w, r)
             /\ pc'[w] = CASE r.kind = "read" -> "ask" [] r.kind = "plan" -> "plans" [] OTHER -> "start"
    <3>1. PICK a : /\ Holds(w, a, copy[w]) /\ stale' = stale
                   /\ a = [turns |-> a.turns, cached |-> a.cached, plan |-> a.plan]
                   /\ a.turns = answer[w].turns
      BY <2>2, BeginHolds
    <3>2. /\ answer'[w] = a
          /\ \A v \in Workers : v # w => answer'[v] = answer[v] /\ copy'[v] = copy[v]
      BY <3>1, HoldsDoes DEF HeldInv
    <3>3. answer'[w].turns = {}
      BY <2>0, <3>1, <3>2 DEF TurnInv, TurnsHeld, Kind, Idle
    <3>4. ~HasAnswer(w)' /\ ~At(w, "keep")'
      <4>1. pc'[w] \in {"ask", "plans", "start"}
        BY <2>2
      <4> QED
        BY <4>1 DEF HasAnswer, At, In
    <3>5. transcripts' = transcripts
      BY <2>2 DEF BeginThread, kept
    <3> QED
      BY <1>0, <2>0, <3>1, <3>2, <3>3, <3>4, <3>5, TurnsMove
  <2> QED
    BY <2>0, <2>1, <2>2
<1>3. ASSUME UNCHANGED <<pc, task, transcripts, answer, copy, stale>> PROVE TurnInv'
  BY <1>0, <1>3, TurnsStay
<1>4. CASE Crash
  <2>1. /\ transcripts' = transcripts /\ answer' = [w \in Workers |-> NoAnswer]
        /\ \A w \in Workers : pc'[w] = "idle" /\ task'[w] = Idle
    BY <1>4, CrashMoves DEF Crash, kept
  <2>2. OfHistory(transcripts)'
    BY <1>0, <2>1, StillOfHistory DEF TurnInv, OfHistory
  <2> QED
    BY <2>1, <2>2 DEF TurnInv, TurnsHeld, Between, Recent, HasAnswer, Kind, Idle, NoAnswer, At, In
<1>5. CASE OpenPanel \/ ServeThreads \/ Send \/ UNCHANGED vars
  <2>1. UNCHANGED <<pc, task, transcripts, answer, copy, stale>>
    BY <1>5 DEF OpenPanel, LoadDraft, ServeThreads, Tick, TakeTurn, Send, vars, workbench, threadState,
                kept, work
  <2> QED
    BY <1>3, <2>1
<1> QED
  BY <1>1, <1>2, <1>4, <1>5 DEF Next, Serve

\* The conversation of a task shows every turn that was recorded in the thread it
\* was taken in, and the copy a fork has of it only if both are of one second.
THEOREM TurnsShownOnce == Spec => []TurnsAreShownOnce
<1>1. Init => WorkInv /\ LaneInv /\ HeldInv /\ TurnInv
  BY WorkStarts, LanesStart, HeldStart, TurnsStart
<1>2. WorkInv /\ LaneInv /\ HeldInv /\ TurnInv /\ [Next]_vars => (WorkInv /\ LaneInv /\ HeldInv /\ TurnInv)'
  BY WorkStep, LanesNext, HeldNext, TurnsNext
<1>3. LaneInv /\ TurnInv => TurnsAreShownOnce
  <2> SUFFICES ASSUME LaneInv, TurnInv, NEW t \in DOMAIN lanes, NEW n \in Recorded(t)
               PROVE  IF began[n].in = t THEN n \in TurnsShown(t)
                      ELSE n \in TurnsShown(t) => began[n].at = lanes[t].since
    BY DEF TurnsAreShownOnce
  <2>1. n \in history[t] /\ t \in DOMAIN history
    BY DEF TurnInv, OfHistory, Recorded
  <2>2. lanes[t].since \in Nat /\ n \in DOMAIN began
    BY <2>1 DEF LaneInv, LaneTypes
  <2>3. began[n].at \in Nat
    <3>1. began[n] \in [in : Threads, at : Nat]
      BY <2>2, LenProperties DEF LaneInv, LaneTypes
    <3> QED
      BY <3>1
  <2>4. IF began[n].in = t THEN began[n].at >= lanes[t].since ELSE began[n].at <= lanes[t].since
    BY <2>1 DEF LaneInv, LanesJoined
  <2> QED
    BY <2>2, <2>3, <2>4 DEF TurnsShown
<1> QED
  BY <1>1, <1>2, <1>3, PTL DEF Spec

\* Plans are numbered by the requests that told of them.
Upto(f, n) == \A t \in DOMAIN f : f[t] \in Nat /\ f[t] <= n

PlanHeld(w) ==
    /\ Kind(w) = "plan" => answer[w].plan \in 0 .. asked /\ Upto(plans, answer[w].plan)
    /\ At(w, "plan") => Upto(copy[w].plans, asked) /\ (w \notin stale.plans => copy[w].plans = plans)

\* No worker is about to write a later plan than the one that is taken up.
Earlier(v, w) == At(v, "plan") /\ Kind(w) = "plan" => Upto(copy[v].plans, answer[w].plan)

PlanInv ==
    /\ Upto(plans, asked)
    /\ \A w \in Workers : PlanHeld(w)
    /\ \A v, w \in Workers : Earlier(v, w)

LEMMA UptoMore ==
    ASSUME NEW f, NEW m \in Nat, NEW n \in Nat, m <= n, Upto(f, m)
    PROVE  Upto(f, n)
BY DEF Upto

LEMMA OthersPlans ==
    ASSUME NEW w \in Workers, WorkInv, WorkInv', PlanInv, OnlyMoves(w), plans' = plans, stale'.plans = stale.plans,
           NEW v \in Workers, v # w, answer'[v] = answer[v], copy'[v] = copy[v]
    PROVE  /\ PlanHeld(v)' /\ (At(v, "plan")' <=> At(v, "plan")) /\ Kind(v)' = Kind(v)
<1>1. pc'[v] = pc[v] /\ task'[v] = task[v] /\ PlanHeld(v) /\ asked \in Nat /\ asked' \in Nat /\ asked <= asked'
  BY DEF OnlyMoves, PlanInv, WorkInv
<1>2. At(v, "plan") => Upto(copy[v].plans, asked')
  BY <1>1, UptoMore DEF PlanHeld
<1>3. Kind(v) = "plan" => answer[v].plan \in 0 .. asked'
  BY <1>1 DEF PlanHeld
<1> QED
  BY <1>1, <1>2, <1>3 DEF PlanHeld, At, Kind, Upto

\* A worker goes on, and is not about to write plans.
LEMMA PlansMove ==
    ASSUME NEW w \in Workers, WorkInv, WorkInv', PlanInv, OnlyMoves(w), plans' = plans, stale'.plans = stale.plans,
           \A v \in Workers : v # w => answer'[v] = answer[v] /\ copy'[v] = copy[v],
           ~At(w, "plan")',
           Kind(w)' = "plan" => (Kind(w) = "plan" /\ answer'[w].plan = answer[w].plan) \/ answer'[w].plan = asked'
    PROVE  PlanInv'
<1>0. asked \in Nat /\ asked' \in Nat /\ asked <= asked'
  BY DEF WorkInv, OnlyMoves
<1>1. ASSUME Kind(w)' = "plan", NEW f, Upto(f, asked), Kind(w) = "plan" => Upto(f, answer[w].plan)
      PROVE  Upto(f, answer'[w].plan)
  BY <1>0, <1>1, UptoMore
<1>2. PlanHeld(w)'
  <2>1. Kind(w)' = "plan" => answer'[w].plan \in 0 .. asked'
    BY <1>0 DEF PlanInv, PlanHeld
  <2>2. Kind(w)' = "plan" => Upto(plans, answer'[w].plan)
    BY <1>1 DEF PlanInv, PlanHeld
  <2> QED
    BY <2>1, <2>2 DEF PlanHeld, Upto
<1>3. ASSUME NEW u \in Workers, NEW v \in Workers PROVE Earlier(u, v)'
  <2>1. CASE u = w
    BY <2>1 DEF Earlier
  <2>2. CASE u # w /\ v = w
    <3>1. (At(u, "plan")' <=> At(u, "plan")) /\ copy'[u] = copy[u]
      BY <2>2, OthersPlans
    <3>2. At(u, "plan") => Upto(copy[u].plans, asked) /\ (Kind(w) = "plan" => Upto(copy[u].plans, answer[w].plan))
      BY DEF PlanInv, PlanHeld, Earlier
    <3> QED
      BY <1>1, <2>2, <3>1, <3>2 DEF Earlier, Upto
  <2>3. CASE u # w /\ v # w
    <3>1. (At(u, "plan")' <=> At(u, "plan")) /\ copy'[u] = copy[u] /\ Kind(v)' = Kind(v) /\ answer'[v] = answer[v]
      BY <2>3, OthersPlans
    <3>2. Earlier(u, v)
      BY DEF PlanInv
    <3> QED
      BY <3>1, <3>2 DEF Earlier, Upto
  <2> QED
    BY <2>1, <2>2, <2>3
<1>4. \A v \in Workers : PlanHeld(v)'
  BY <1>2, OthersPlans
<1>5. Upto(plans, asked)'
  BY <1>0, UptoMore DEF PlanInv, Upto
<1> QED
  BY <1>3, <1>4, <1>5 DEF PlanInv

LEMMA PlansRead ==
    ASSUME NEW w \in Workers, WorkInv, WorkInv', PlanInv, OnlyMoves(w), plans' = plans, stale'.plans = stale.plans,
           asked' = asked,
           \A v \in Workers : v # w => answer'[v] = answer[v] /\ copy'[v] = copy[v],
           copy'[w].plans = plans, answer'[w] = answer[w], task'[w] = task[w]
    PROVE  PlanInv'
<1>1. Kind(w)' = Kind(w) /\ PlanHeld(w) /\ Upto(plans, asked)
  BY DEF Kind, PlanInv
<1>2. PlanHeld(w)'
  BY <1>1 DEF PlanHeld, Upto
<1>3. \A v \in Workers : answer'[v] = answer[v] /\ Kind(v)' = Kind(v)
  BY <1>1, OthersPlans
<1>4. ASSUME NEW u \in Workers, NEW v \in Workers PROVE Earlier(u, v)'
  <2>1. CASE u = w
    <3>1. Kind(v) = "plan" => Upto(plans, answer[v].plan)
      BY DEF PlanInv, PlanHeld
    <3> QED
      BY <1>3, <2>1, <3>1 DEF Earlier, Upto
  <2>2. CASE u # w
    <3>1. (At(u, "plan")' <=> At(u, "plan")) /\ copy'[u] = copy[u]
      BY <2>2, OthersPlans
    <3>2. Earlier(u, v)
      BY DEF PlanInv
    <3> QED
      BY <1>3, <3>1, <3>2 DEF Earlier, Upto
  <2> QED
    BY <2>1, <2>2
<1>5. \A v \in Workers : PlanHeld(v)'
  BY <1>2, OthersPlans
<1> QED
  BY <1>1, <1>4, <1>5 DEF PlanInv, Upto

\* Plans are written: whoever holds them is behind now.
LEMMA PlansWritten ==
    ASSUME NEW w \in Workers, WorkInv, WorkInv', LaneInv, HeldInv, PlanInv, WritePlans(w), OnlyMoves(w), Stays(w)
    PROVE  PlanInv'
<1>0. /\ At(w, "plan") /\ asked' = asked /\ asked \in Nat
      /\ pc'[w] \in {"idle", "turns", "join"} /\ Kind(w)' # "plan"
  BY DEF WritePlans, EndThread, Done, Goto, bounds, WorkInv, Kind, Idle
<1>1. PICK a, c : /\ Holds(w, a, c)
                  /\ a = [turns |-> a.turns, cached |-> a.cached, plan |-> a.plan]
                  /\ c = [plans |-> c.plans, turns |-> c.turns]
                  /\ stale' = [plans |-> stale'.plans, turns |-> stale'.turns]
  BY ThreadDoes DEF ThreadStep
<1>2. \A v \in Workers : v # w => answer'[v] = answer[v] /\ copy'[v] = copy[v]
  BY <1>1, HoldsDoes
<1> DEFINE t == task[w].thread
           old == copy[w].plans
<1>3. Upto(old, asked) /\ \A v \in Workers : Kind(v) = "plan" => Upto(old, answer[v].plan)
                                                                 /\ answer[v].plan \in 0 .. asked
  BY <1>0 DEF PlanInv, PlanHeld, Earlier
<1>4. \/ plans' = old
      \/ \E n : plans' = Put(old, t, n) /\ n = IF Kind(w) = "plan" THEN answer[w].plan ELSE 0
  BY DEF WritePlans, Kind
<1>5. ASSUME NEW n \in Nat, Upto(old, n), Kind(w) = "plan" => answer[w].plan \in Nat /\ answer[w].plan <= n
      PROVE  Upto(plans, n)'
  <2>1. CASE plans' = old
    BY <1>5, <2>1 DEF Upto
  <2>2. CASE \E k : plans' = Put(old, t, k) /\ k = IF Kind(w) = "plan" THEN answer[w].plan ELSE 0
    BY <1>5, <2>2 DEF Upto, Put
  <2> QED
    BY <1>4, <2>1, <2>2
<1>6. Upto(plans, asked)'
  <2>1. Kind(w) = "plan" => answer[w].plan \in Nat /\ answer[w].plan <= asked
    BY <1>0, <1>3
  <2>2. Upto(plans', asked)
    BY <1>0, <1>3, <1>5, <2>1 DEF Upto
  <2> QED
    BY <1>0, <2>2 DEF Upto
<1>7. ASSUME NEW v \in Workers, v # w
      PROVE  /\ pc'[v] = pc[v] /\ Kind(v)' = Kind(v) /\ answer'[v] = answer[v] /\ copy'[v] = copy[v]
             /\ At(v, "plan") => v \in stale'.plans
  <2>1. stale'.plans = (stale.plans \cup {u \in Workers : At(u, "plan")}) \ {w}
    BY DEF WritePlans, HeldInv
  <2> QED
    BY <1>2, <1>7, <2>1 DEF OnlyMoves, Kind
<1>8. ~At(w, "plan")'
  BY <1>0 DEF At
<1>9. ASSUME NEW v \in Workers PROVE PlanHeld(v)'
  <2>1. CASE v = w
    BY <1>0, <1>8, <2>1 DEF PlanHeld
  <2>2. CASE v # w
    <3>1. PlanHeld(v)
      BY DEF PlanInv
    <3>2. ASSUME Kind(v) = "plan" PROVE Upto(plans, answer[v].plan)' /\ answer[v].plan \in 0 .. asked
      <4>1. Kind(w) # "plan"
        BY <2>2, <3>2 DEF LaneInv, OneByOne
      <4>2. PICK n : n = answer[v].plan
        OBVIOUS
      <4>3. n \in Nat /\ Upto(old, n) /\ answer[v].plan \in 0 .. asked
        BY <1>0, <1>3, <3>2, <4>2
      <4>4. Upto(plans, n)'
        BY <1>5, <4>1, <4>3
      <4> QED
        BY <1>7, <2>2, <4>2, <4>3, <4>4 DEF Upto
    <3> QED
      BY <1>0, <1>7, <2>2, <3>1, <3>2 DEF PlanHeld, At, Upto
  <2> QED
    BY <2>1, <2>2
<1>10. ASSUME NEW u \in Workers, NEW v \in Workers PROVE Earlier(u, v)'
  <2>1. CASE u = w \/ v = w
    BY <1>0, <1>8, <2>1 DEF Earlier
  <2>2. CASE u # w /\ v # w
    <3>1. Earlier(u, v)
      BY DEF PlanInv
    <3> QED
      BY <1>7, <2>2, <3>1 DEF Earlier, At, Upto
  <2> QED
    BY <2>1, <2>2
<1> QED
  BY <1>6, <1>9, <1>10 DEF PlanInv

LEMMA PlansStart == Init => PlanInv
BY DEF Init, ThreadInit, WorkInit, PlanInv, Upto, PlanHeld, Earlier, Kind, Idle, At

LEMMA ThreadKeepsPlans ==
    ASSUME NEW w \in Workers, WorkInv, LaneInv, HeldInv, PlanInv, ThreadStep(w)
    PROVE  PlanInv'
<1>0. WorkInv' /\ OnlyMoves(w) /\ Stays(w) /\ asked' = asked /\ Serves(task[w], pc[w])
  BY ThreadMoves DEF WorkInv
<1>1. PICK a, c :
        /\ Holds(w, a, c)
        /\ a = [turns |-> a.turns, cached |-> a.cached, plan |-> a.plan]
        /\ c = [plans |-> c.plans, turns |-> c.turns]
        /\ stale' = [plans |-> stale'.plans, turns |-> stale'.turns]
        /\ StartThread(w) => a = answer[w] /\ c = copy[w]
        /\ Join(w) => (a = answer[w] /\ c = copy[w]) \/ (a = NoAnswer /\ c = NoCopy)
        /\ Answer(w) => a.turns = history[task[w].thread] /\ a.plan = answer[w].plan
                        /\ a.cached = answer[w].cached /\ c = copy[w]
        /\ FallBack(w) => a.turns = answer[w].turns /\ a.plan = answer[w].plan
                          /\ a.cached = TRUE /\ c = copy[w]
        /\ ReadPlans(w) => a = answer[w] /\ c.plans = plans /\ c.turns = copy[w].turns
        /\ WritePlans(w) => (a = answer[w] \/ a = NoAnswer) /\ c = NoCopy /\ stale'.turns = stale.turns
        /\ ReadTranscripts(w) =>
              \/ a = answer[w] /\ c.turns = transcripts /\ c.plans = copy[w].plans
              \/ a = NoAnswer /\ c = NoCopy
        /\ WriteTranscript(w) => a = NoAnswer /\ c = NoCopy /\ stale'.plans = stale.plans
  BY ThreadDoes, Zenon
<1>2. /\ answer'[w] = a /\ copy'[w] = c
      /\ \A v \in Workers : v # w => answer'[v] = answer[v] /\ copy'[v] = copy[v]
  BY <1>1, HoldsDoes
<1>3. CASE ReadPlans(w)
  <2>1. UNCHANGED <<plans, stale>> /\ task'[w] = task[w]
    BY <1>3 DEF ReadPlans, kept
  <2> QED
    BY <1>0, <1>1, <1>2, <1>3, <2>1, PlansRead
<1>4. CASE WritePlans(w)
  BY <1>0, <1>4, PlansWritten
<1>5. CASE StartThread(w) \/ Join(w) \/ Answer(w) \/ FallBack(w) \/ ReadTranscripts(w) \/ WriteTranscript(w)
  <2>1. plans' = plans
    BY <1>5 DEF StartThread, Join, Answer, FallBack, ReadTranscripts, WriteTranscript, kept
  <2>2. stale'.plans = stale.plans
    BY <1>1, <1>5 DEF StartThread, Join, Answer, FallBack, ReadTranscripts
  <2>3. pc'[w] \in {"hint", "ask", "turns", "keep", "idle"}
    BY <1>5 DEF StartThread, Join, Answer, FallBack, ReadTranscripts, WriteTranscript, EndThread, Done,
                Goto, WorkInv
  <2>4. Kind(w) # "plan"
    BY <1>0, <1>5 DEF StartThread, Join, Answer, FallBack, ReadTranscripts, WriteTranscript, Serves, At, Kind
  <2>5. Kind(w)' # "plan" /\ ~At(w, "plan")'
    BY <1>0, <2>3, <2>4 DEF Stays, Kind, Idle, At
  <2> QED
    BY <1>0, <1>2, <2>1, <2>2, <2>5, PlansMove
<1> QED
  BY <1>3, <1>4, <1>5 DEF ThreadStep

LEMMA OthersKeepPlans ==
    ASSUME NEW w \in Workers, WorkInv, WorkInv', PlanInv, OnlyMoves(w), NotOfThreads(w)
    PROVE  PlanInv'
<1>1. UNCHANGED <<plans, answer, copy, stale>>
  BY DEF NotOfThreads, threadState, kept
<1>2. Kind(w)' # "plan" /\ ~At(w, "plan")'
  BY DEF NotOfThreads, OfThreads, ThreadSteps, Kind, At
<1> QED
  BY <1>1, <1>2, PlansMove

LEMMA PlansNext ==
    ASSUME WorkInv, WorkInv', LaneInv, HeldInv, PlanInv, [Next]_vars
    PROVE  PlanInv'
<1>1. ASSUME NEW w \in Workers, Proceed(w) PROVE PlanInv'
  BY <1>1, OtherSteps, OthersKeepPlans, ThreadKeepsPlans
<1>2. ASSUME NEW w \in Workers, NEW r \in Requests, Ask(w, r) PROVE PlanInv'
  <2>0. /\ OnlyMoves(w) /\ At(w, "idle") /\ task[w] = Idle /\ task'[w] = r
        /\ \/ NotOfThreads(w)
           \/ /\ r \in ThreadRequests /\ BeginThread(w, r) /\ r.kind \in OfThreads
              /\ pc'[w] = CASE r.kind = "read" -> "ask" [] r.kind = "plan" -> "plans" [] OTHER -> "start"
    BY <1>2, OtherRequests
  <2>1. CASE NotOfThreads(w)
    BY <2>0, <2>1, OthersKeepPlans
  <2>2. CASE /\ BeginThread(w, r)
             /\ pc'[w] = CASE r.kind = "read" -> "ask" [] r.kind = "plan" -> "plans" [] OTHER -> "start"
    <3>1. PICK a : /\ Holds(w, a, copy[w]) /\ stale' = stale
                   /\ a = [turns |-> a.turns, cached |-> a.cached, plan |-> a.plan]
                   /\ a.plan = IF r.kind = "plan" THEN asked' ELSE 0
      BY <2>2, BeginHolds
    <3>2. /\ answer'[w] = a
          /\ \A v \in Workers : v # w => answer'[v] = answer[v] /\ copy'[v] = copy[v]
      BY <3>1, HoldsDoes DEF HeldInv
    <3>3. ~At(w, "plan")'
      BY <2>2 DEF At
    <3>4. Kind(w)' = "plan" => answer'[w].plan = asked'
      BY <2>0, <3>1, <3>2 DEF Kind
    <3>5. plans' = plans
      BY <2>2 DEF BeginThread, kept
    <3> QED
      BY <2>0, <3>1, <3>2, <3>3, <3>4, <3>5, PlansMove
  <2> QED
    BY <2>0, <2>1, <2>2
<1>3. CASE Crash
  <2>1. /\ plans' = plans /\ asked' = asked
        /\ \A w \in Workers : pc'[w] = "idle" /\ task'[w] = Idle
    BY <1>3, CrashMoves DEF Crash, kept
  <2> QED
    BY <2>1 DEF PlanInv, Upto, PlanHeld, Earlier, Kind, Idle, At
<1>4. CASE OpenPanel \/ ServeThreads \/ Send \/ UNCHANGED vars
  <2>1. UNCHANGED <<pc, task, asked, plans, answer, copy, stale>>
    BY <1>4 DEF OpenPanel, LoadDraft, ServeThreads, Tick, TakeTurn, Send, vars, workbench, threadState,
                kept, work
  <2> QED
    BY <2>1 DEF PlanInv, Upto, PlanHeld, Earlier, Kind, At
<1> QED
  BY <1>1, <1>2, <1>3, <1>4 DEF Next, Serve

\* What a worker loses of the files of threads when it writes them.
KeepsFiles(w) ==
    /\ At(w, "keep") /\ pc'[w] # "keep" /\ w \notin stale.turns =>
          \A t \in DOMAIN transcripts :
              \/ t \in DOMAIN transcripts' /\ transcripts[t] \subseteq transcripts'[t]
              \/ t = task[w].thread /\ answer[w].cached
    /\ At(w, "plan") /\ pc'[w] # "plan" /\ w \notin stale.plans =>
          \A t \in DOMAIN plans : plans'[t] >= plans[t]

LEMMA StepKeepsFiles ==
    ASSUME WorkInv, LaneInv, TurnInv, PlanInv, [Next]_vars, NEW w \in Workers
    PROVE  KeepsFiles(w)
<1>0. Serves(task[w], pc[w]) /\ asked \in Nat /\ TurnsHeld(w) /\ PlanHeld(w)
  BY DEF WorkInv, TurnInv, PlanInv
<1>1. ASSUME UNCHANGED <<transcripts, plans>> PROVE KeepsFiles(w)
  <2>1. \A t \in DOMAIN plans : plans[t] \in Nat
    BY DEF PlanInv, Upto
  <2> QED
    BY <1>1, <2>1 DEF KeepsFiles
<1>2. ASSUME ~At(w, "keep") \/ pc'[w] = "keep", ~At(w, "plan") \/ pc'[w] = "plan" PROVE KeepsFiles(w)
  BY <1>2 DEF KeepsFiles
<1>3. CASE WriteTranscript(w)
  <2>1. /\ plans' = plans /\ ~At(w, "plan") /\ transcripts' = Put(copy[w].turns, task[w].thread, answer[w].turns)
        /\ At(w, "keep") /\ HasAnswer(w)
    BY <1>0, <1>3 DEF WriteTranscript, At, In, HasAnswer, Serves, Kind
  <2>2. ASSUME w \notin stale.turns, NEW t \in DOMAIN transcripts
        PROVE  \/ t \in DOMAIN transcripts' /\ transcripts[t] \subseteq transcripts'[t]
               \/ t = task[w].thread /\ answer[w].cached
    <3>1. copy[w].turns = transcripts
      BY <1>0, <2>1, <2>2 DEF TurnsHeld
    <3>2. ~answer[w].cached => Covers(w, transcripts)
      BY <1>0, <2>1, <2>2 DEF TurnsHeld, Recent
    <3> QED
      BY <2>1, <2>2, <3>1, <3>2 DEF Put, Covers
  <2> QED
    BY <2>1, <2>2 DEF KeepsFiles
<1>4. CASE WritePlans(w)
  <2>1. At(w, "plan") /\ ~At(w, "keep")
    BY <1>4 DEF WritePlans, At
  <2>2. ASSUME w \notin stale.plans, NEW t \in DOMAIN plans PROVE plans'[t] >= plans[t]
    <3>1. copy[w].plans = plans /\ plans[t] \in Nat
      BY <1>0, <2>1, <2>2 DEF PlanHeld, PlanInv, Upto
    <3>2. CASE Kind(w) = "plan"
      <4>1. plans' = Put(plans, task[w].thread, answer[w].plan)
        BY <1>4, <3>1, <3>2 DEF WritePlans, Kind
      <4>2. answer[w].plan \in Nat /\ answer[w].plan >= plans[t]
        BY <1>0, <2>2, <3>2 DEF PlanHeld, Upto
      <4> QED
        BY <3>1, <4>1, <4>2 DEF Put
    <3>3. CASE Kind(w) # "plan"
      <4>1. plans' = IF task[w].thread \in DOMAIN plans THEN plans ELSE Put(plans, task[w].thread, 0)
        BY <1>4, <3>1, <3>3 DEF WritePlans, Kind
      <4> QED
        BY <2>2, <3>1, <4>1 DEF Put
    <3> QED
      BY <3>2, <3>3
  <2> QED
    BY <2>1, <2>2 DEF KeepsFiles
<1>5. ASSUME NEW v \in Workers, ThreadStep(v) PROVE KeepsFiles(w)
  <2>1. CASE v = w
    <3>1. WriteTranscript(w) \/ WritePlans(w) \/ UNCHANGED <<transcripts, plans>>
      BY <1>5, <2>1 DEF ThreadStep, StartThread, Join, Answer, FallBack, ReadPlans, ReadTranscripts, kept
    <3> QED
      BY <1>1, <1>3, <1>4, <3>1
  <2>2. CASE v # w
    <3>1. pc'[w] = pc[w]
      BY <1>5, <2>2, ThreadMoves DEF OnlyMoves
    <3> QED
      BY <1>2, <3>1 DEF At
  <2> QED
    BY <2>1, <2>2
<1>6. ASSUME NEW v \in Workers, Proceed(v) PROVE KeepsFiles(w)
  BY <1>1, <1>5, <1>6, OtherSteps DEF NotOfThreads, threadState, kept
<1>7. ASSUME NEW v \in Workers, NEW r \in Requests, Ask(v, r) PROVE KeepsFiles(w)
  BY <1>1, <1>7 DEF Ask, BeginThread, threadState, kept
<1>8. CASE Crash \/ OpenPanel \/ ServeThreads \/ Send \/ UNCHANGED vars
  BY <1>1, <1>8 DEF Crash, OpenPanel, ServeThreads, Tick, TakeTurn, Send, vars, workbench, threadState, kept
<1> QED
  BY <1>6, <1>7, <1>8 DEF Next, Serve

\* A transcript loses turns only by a read that was deferred, or by one that is
\* behind what another has written; and a plan is replaced by a later one.
THEOREM ThreadFilesKept == Spec => ThreadFilesAreKept
<1>1. Init => WorkInv /\ LaneInv /\ HeldInv /\ TurnInv /\ PlanInv
  BY WorkStarts, LanesStart, HeldStart, TurnsStart, PlansStart
<1>2. WorkInv /\ LaneInv /\ HeldInv /\ TurnInv /\ PlanInv /\ [Next]_vars
      => (WorkInv /\ LaneInv /\ HeldInv /\ TurnInv /\ PlanInv)'
  BY WorkStep, LanesNext, HeldNext, TurnsNext, PlansNext
<1>3. WorkInv /\ LaneInv /\ TurnInv /\ PlanInv /\ [Next]_vars
      => [\A w \in Workers :
            /\ At(w, "keep") /\ pc'[w] # "keep" /\ w \notin stale.turns =>
                  \A t \in DOMAIN transcripts :
                      \/ t \in DOMAIN transcripts' /\ transcripts[t] \subseteq transcripts'[t]
                      \/ t = task[w].thread /\ answer[w].cached
            /\ At(w, "plan") /\ pc'[w] # "plan" /\ w \notin stale.plans =>
                  \A t \in DOMAIN plans : plans'[t] >= plans[t]]_threadState
  BY StepKeepsFiles DEF KeepsFiles
<1> QED
  BY <1>1, <1>2, <1>3, PTL DEF Spec, ThreadFilesAreKept

-----------------------------------------------------------------------------
(* What a step makes of a value, again and again.                          *)

LEMMA Smallest ==
  ASSUME NEW T, T \subseteq Nat, T # {}
  PROVE  \E x \in T : \A y \in T : x <= y
<1> DEFINE R == OpToRel(<, Nat)
<1>1. IsWellFoundedOn(R, Nat)
  BY NatLessThanWellFounded
<1> HIDE DEF R
<1>2. PICK x \in T : \A y \in T : ~(<<y, x>> \in R)
  BY <1>1, WFMin
<1>3. ASSUME NEW y \in T PROVE x <= y
  <2>1. x \in Nat /\ y \in Nat
    OBVIOUS
  <2>2. ~(y < x)
    <3> SUFFICES ASSUME y < x PROVE FALSE
      OBVIOUS
    <3>1. <<y, x>> \in Nat \X Nat
      BY <2>1
    <3>2. <<y, x>>[1] < <<y, x>>[2]
      OBVIOUS
    <3> QED
      BY <1>2, <3>1, <3>2 DEF R, OpToRel
  <2> QED
    BY <2>1, <2>2
<1> QED
  BY <1>3

\* Induction over the numbers, for a property given by the set of those that
\* have it.
LEMMA Induction ==
  ASSUME NEW S, 0 \in S, \A n \in Nat : n \in S => n + 1 \in S
  PROVE  \A n \in Nat : n \in S
<1> SUFFICES ASSUME NEW k \in Nat, k \notin S PROVE FALSE
  OBVIOUS
<1> DEFINE T == {n \in Nat : n \notin S}
<1>1. PICK x \in T : \A y \in T : x <= y
  <2>1. T \subseteq Nat /\ T # {}
    OBVIOUS
  <2> HIDE DEF T
  <2> QED
    BY <2>1, Smallest
<1>2. x \in Nat /\ x # 0 /\ x - 1 \in Nat
  BY <1>1
<1>3. x - 1 \in S
  BY <1>1, <1>2
<1>4. (x - 1) + 1 \in S
  BY <1>2, <1>3
<1> QED
  BY <1>1, <1>2, <1>4

Repeats(f, a, N, F) == f[0] = a /\ \A i \in 1 .. N : f[i] = F[<<i, f[i - 1]>>]

LEMMA Repetition ==
  ASSUME NEW S, NEW a \in S, NEW N \in Nat, NEW F \in [(1 .. N) \X S -> S]
  PROVE  \E f \in [0 .. N -> S] : Repeats(f, a, N, F)
<1> DEFINE Runs(f, n) == f[0] = a /\ \A i \in 1 .. n : f[i] = F[<<i, f[i - 1]>>]
           G == {n \in Nat : n <= N => \E f \in [0 .. n -> S] : Runs(f, n)}
<1>1. 0 \in G
  <2>1. [x \in 0 .. 0 |-> a] \in [0 .. 0 -> S] /\ Runs([x \in 0 .. 0 |-> a], 0)
    OBVIOUS
  <2> QED
    BY <2>1
<1>2. ASSUME NEW n \in Nat, n \in G PROVE n + 1 \in G
  <2> SUFFICES ASSUME n + 1 <= N PROVE \E f \in [0 .. n + 1 -> S] : Runs(f, n + 1)
    OBVIOUS
  <2>1. PICK f \in [0 .. n -> S] : Runs(f, n)
    BY <1>2
  <2> DEFINE g == [x \in 0 .. n + 1 |-> IF x = n + 1 THEN F[<<n + 1, f[n]>>] ELSE f[x]]
  <2>2. <<n + 1, f[n]>> \in (1 .. N) \X S
    OBVIOUS
  <2>3. F[<<n + 1, f[n]>>] \in S
    BY <2>2
  <2>4. g \in [0 .. n + 1 -> S]
    BY <2>3
  <2>5. \A x \in 0 .. n : g[x] = f[x] /\ x \in 0 .. n + 1
    OBVIOUS
  <2>6. g[n + 1] = F[<<n + 1, f[n]>>] /\ (n + 1) - 1 = n
    OBVIOUS
  <2>7. ASSUME NEW i \in 1 .. n + 1 PROVE g[i] = F[<<i, g[i - 1]>>]
    <3>1. CASE i = n + 1
      <4>1. g[n] = f[n]
        BY <2>5
      <4> HIDE DEF g
      <4> QED
        BY <2>6, <3>1, <4>1
    <3>2. CASE i \in 1 .. n
      <4>1. i \in 0 .. n /\ i - 1 \in 0 .. n
        BY <3>2
      <4> QED
        BY <2>1, <2>5, <3>2, <4>1
    <3> QED
      BY <3>1, <3>2
  <2>8. g[0] = a
    BY <2>1, <2>5
  <2> HIDE DEF g
  <2> QED
    BY <2>4, <2>7, <2>8
<1>3. N \in G
  <2> HIDE DEF G
  <2>1. \A n \in Nat : n \in G => n + 1 \in G
    BY <1>2
  <2> QED
    BY <1>1, <2>1, Induction
<1> QED
  BY <1>3 DEF Repeats

IsOn(N, r) == r = [n \in 0 .. N |-> r[n]]
StepsBy(F, S, N, r) == \A i \in 1 .. N : r[i - 1] \in S => r[i] = F[<<i, r[i - 1]>>]

\* A function that makes each value of the one before as a step does stays
\* among the values the step keeps.
LEMMA Unrolled ==
  ASSUME NEW S, NEW a \in S, NEW N \in Nat, NEW F \in [(1 .. N) \X S -> S],
         NEW r, IsOn(N, r), r[0] = a,
         StepsBy(F, S, N, r)
  PROVE  r \in [0 .. N -> S] /\ Repeats(r, a, N, F)
<1> DEFINE G == {n \in Nat : n <= N => r[n] \in S}
<1>1. 0 \in G
  OBVIOUS
<1>2. ASSUME NEW n \in Nat, n \in G PROVE n + 1 \in G
  <2> SUFFICES ASSUME n + 1 <= N PROVE r[n + 1] \in S
    OBVIOUS
  <2>1. n <= N /\ n + 1 \in 1 .. N /\ (n + 1) - 1 = n
    OBVIOUS
  <2>2. r[n] \in S /\ r[n + 1] = F[<<n + 1, r[n]>>]
    BY <1>2, <2>1 DEF StepsBy
  <2>3. <<n + 1, r[n]>> \in (1 .. N) \X S
    BY <2>1, <2>2
  <2> QED
    BY <2>2, <2>3
<1>3. \A n \in Nat : n \in G
  <2> HIDE DEF G
  <2>1. \A n \in Nat : n \in G => n + 1 \in G
    BY <1>2
  <2> QED
    BY <1>1, <2>1, Induction
<1>4. \A n \in 0 .. N : r[n] \in S
  BY <1>3
<1>6. r \in [0 .. N -> S]
  BY <1>4 DEF IsOn
<1>5. \A i \in 1 .. N : i - 1 \in 0 .. N
  OBVIOUS
<1> QED
  BY <1>4, <1>5, <1>6 DEF Repeats, StepsBy

-----------------------------------------------------------------------------
(* Sums.                                                                   *)

LEMMA SumsAre ==
  ASSUME NEW N \in Nat, NEW numbers \in [1 .. N -> Nat], Len(numbers) = N
  PROVE  /\ Sums(numbers) \in [0 .. N -> Nat]
         /\ Sums(numbers)[0] = 0
         /\ \A i \in 1 .. N : Sums(numbers)[i] = Sums(numbers)[i - 1] + numbers[i]
<1> DEFINE F == [x \in (1 .. N) \X Nat |-> x[2] + numbers[x[1]]]
           Is(f) == f = [n \in 0 .. N |-> IF n = 0 THEN 0 ELSE f[n - 1] + numbers[n]]
           r == Sums(numbers)
<1>1. F \in [(1 .. N) \X Nat -> Nat]
  OBVIOUS
<1>2. PICK f \in [0 .. N -> Nat] : Repeats(f, 0, N, F)
  <2> HIDE DEF F
  <2> QED
    BY <1>1, Repetition
<1>3. ASSUME NEW i \in 1 .. N, NEW k \in Nat PROVE F[<<i, k>>] = k + numbers[i]
  OBVIOUS
<1> HIDE DEF F
<1>4. ASSUME NEW i \in 1 .. N PROVE f[i] = f[i - 1] + numbers[i]
  <2>1. i - 1 \in 0 .. N
    OBVIOUS
  <2>2. f[i - 1] \in Nat
    BY <1>2, <2>1
  <2> QED
    BY <1>2, <1>3, <2>2 DEF Repeats
<1>5. Is(f)
  <2> DEFINE g == [n \in 0 .. N |-> IF n = 0 THEN 0 ELSE f[n - 1] + numbers[n]]
  <2>1. \A n \in 0 .. N : f[n] = g[n]
    <3> TAKE n \in 0 .. N
    <3>1. n = 0 \/ n \in 1 .. N
      OBVIOUS
    <3>2. f[0] = 0
      BY <1>2 DEF Repeats
    <3> QED
      BY <1>4, <3>1, <3>2
  <2> QED
    BY <1>2, <2>1
<1>6. Is(r)
  <2>1. r = CHOOSE g : Is(g)
    BY DEF Sums
  <2> HIDE DEF Is, r
  <2> QED
    BY <1>5, <2>1
<1> HIDE DEF r
<1>7. r[0] = 0 /\ \A i \in 1 .. N : r[i] = r[i - 1] + numbers[i]
  <2>1. \A n \in 0 .. N : r[n] = IF n = 0 THEN 0 ELSE r[n - 1] + numbers[n]
    BY <1>6
  <2>2. 0 \in 0 .. N /\ \A i \in 1 .. N : i \in 0 .. N /\ i # 0
    OBVIOUS
  <2> QED
    BY <2>1, <2>2
<1>8. IsOn(N, r)
  <2> DEFINE g == [n \in 0 .. N |-> IF n = 0 THEN 0 ELSE r[n - 1] + numbers[n]]
  <2>1. r = g /\ g = [n \in 0 .. N |-> g[n]]
    BY <1>6
  <2> HIDE DEF g
  <2> QED
    BY <2>1 DEF IsOn
<1>9. StepsBy(F, Nat, N, r)
  BY <1>3, <1>7 DEF StepsBy
<1>10. r \in [0 .. N -> Nat]
  BY <1>1, <1>7, <1>8, <1>9, Unrolled
<1> QED
  BY <1>7, <1>10 DEF r

\* Sums of as many numbers, one by one the same, are the same.
SameFirst(k, a, b) == \A i \in 1 .. k : a[i] = b[i]

LEMMA SumsAgree ==
  ASSUME NEW N \in Nat, NEW k \in Nat, k <= N,
         NEW a \in [1 .. N -> Nat], Len(a) = N, NEW M \in Nat, k <= M,
         NEW b \in [1 .. M -> Nat], Len(b) = M,
         SameFirst(k, a, b)
  PROVE  \A i \in 0 .. k : Sums(a)[i] = Sums(b)[i]
<1> DEFINE G == {n \in Nat : n <= k => Sums(a)[n] = Sums(b)[n]}
<1>1. 0 \in G
  BY SumsAre
<1>2. ASSUME NEW n \in Nat, n \in G PROVE n + 1 \in G
  <2> SUFFICES ASSUME n + 1 <= k PROVE Sums(a)[n + 1] = Sums(b)[n + 1]
    OBVIOUS
  <2>1. n + 1 \in 1 .. N /\ n + 1 \in 1 .. M /\ (n + 1) - 1 = n /\ n + 1 \in 1 .. k
    OBVIOUS
  <2>2. Sums(a)[n + 1] = Sums(a)[n] + a[n + 1]
    BY <2>1, SumsAre
  <2>3. Sums(b)[n + 1] = Sums(b)[n] + b[n + 1]
    BY <2>1, SumsAre
  <2> QED
    BY <1>2, <2>1, <2>2, <2>3 DEF SameFirst
<1>3. \A n \in Nat : n \in G
  <2> HIDE DEF G
  <2>1. \A n \in Nat : n \in G => n + 1 \in G
    BY <1>2
  <2> QED
    BY <1>1, <2>1, Induction
<1> QED
  BY <1>3

\* Sums of more numbers are no smaller.
LEMMA SumsGrow ==
  ASSUME NEW N \in Nat, NEW numbers \in [1 .. N -> Nat], Len(numbers) = N,
         NEW k \in 0 .. N
  PROVE  \A n \in k .. N : Sums(numbers)[k] <= Sums(numbers)[n]
<1> DEFINE r == Sums(numbers)
           G == {n \in Nat : k + n <= N => r[k] <= r[k + n]}
<1>1. r \in [0 .. N -> Nat] /\ \A i \in 1 .. N : r[i] = r[i - 1] + numbers[i]
  BY SumsAre
<1> HIDE DEF r
<1>2. 0 \in G
  <2>1. k \in 0 .. N /\ k + 0 = k /\ r[k] \in Nat
    BY <1>1
  <2> QED
    BY <2>1
<1>3. ASSUME NEW n \in Nat, n \in G PROVE n + 1 \in G
  <2> SUFFICES ASSUME k + (n + 1) <= N PROVE r[k] <= r[k + (n + 1)]
    OBVIOUS
  <2>1. k + (n + 1) \in 1 .. N /\ (k + (n + 1)) - 1 = k + n /\ k + n \in 0 .. N /\ k + n <= N
    OBVIOUS
  <2>2. r[k + (n + 1)] = r[k + n] + numbers[k + (n + 1)]
    BY <1>1, <2>1
  <2>3. r[k] \in Nat /\ r[k + n] \in Nat /\ numbers[k + (n + 1)] \in Nat
    BY <1>1, <2>1
  <2>4. r[k] <= r[k + n]
    BY <1>3, <2>1
  <2> QED
    BY <2>2, <2>3, <2>4
<1>4. \A n \in Nat : n \in G
  <2> HIDE DEF G
  <2>1. \A n \in Nat : n \in G => n + 1 \in G
    BY <1>3
  <2> QED
    BY <1>2, <2>1, Induction
<1>5. ASSUME NEW n \in k .. N PROVE r[k] <= r[n]
  <2>1. n - k \in Nat /\ k + (n - k) = n /\ n <= N
    OBVIOUS
  <2>2. n - k \in G
    BY <1>4, <2>1
  <2> QED
    BY <2>1, <2>2
<1> QED
  BY <1>5 DEF r

-----------------------------------------------------------------------------
(* What a pack is made of.                                                 *)

Part == [id : Headings, chars : Nat, cut : BOOLEAN]
TextsOfAll == [Headings -> Nat]
TargetsOfAll == [window : Nat, limit : Nat, schema : Nat]

LEMMA LargerOfTwo ==
  ASSUME NEW a \in Int, NEW b \in Int
  PROVE  /\ Max({a, b}) \in {a, b}
         /\ Max({a, b}) >= a /\ Max({a, b}) >= b
<1> DEFINE m == IF a >= b THEN a ELSE b
<1>1. m \in {a, b} /\ \A y \in {a, b} : m >= y
  OBVIOUS
<1>2. \E x \in {a, b} : \A y \in {a, b} : x >= y
  BY <1>1
<1>3. Max({a, b}) \in {a, b} /\ \A y \in {a, b} : Max({a, b}) >= y
  BY <1>2 DEF Max
<1> QED
  BY <1>3

LEMMA SmallerOfTwo ==
  ASSUME NEW a \in Int, NEW b \in Int
  PROVE  /\ Min({a, b}) \in {a, b}
         /\ Min({a, b}) <= a /\ Min({a, b}) <= b
<1> DEFINE m == IF a <= b THEN a ELSE b
<1>1. m \in {a, b} /\ \A y \in {a, b} : m <= y
  OBVIOUS
<1>2. \E x \in {a, b} : \A y \in {a, b} : x <= y
  BY <1>1
<1>3. Min({a, b}) \in {a, b} /\ \A y \in {a, b} : Min({a, b}) <= y
  BY <1>2 DEF Min
<1> QED
  BY <1>3

LEMMA SectionsAre ==
  /\ Len(Sections) = 10 /\ DOMAIN Sections = 1 .. 10
  /\ \A i \in 1 .. 10 : Sections[i] \in Headings
  /\ \A i, j \in 1 .. 10 : Sections[i] = Sections[j] => i = j
<1>1. Len(Sections) = 10 /\ DOMAIN Sections = 1 .. 10
  BY DEF Sections
<1>2. \A i \in 1 .. 10 : Sections[i] \in Headings
  BY <1>1 DEF Headings
<1>3. \A i, j \in 1 .. 10 : Sections[i] = Sections[j] => i = j
  BY DEF Sections
<1> QED
  BY <1>1, <1>2, <1>3

LEMMA TextIsCounted ==
  ASSUME NEW text \in TextsOfAll, NEW i \in 1 .. 10
  PROVE  text[Sections[i]] \in Nat
<1>1. Sections[i] \in Headings
  BY SectionsAre
<1> QED
  BY <1>1 DEF TextsOfAll

\* What is usable of a model of which a limit is known.
LEMMA UsableIs ==
  ASSUME NEW target \in TargetsOfAll, Limited(target)
  PROVE  Usable(target) \in Nat
<1> DEFINE L == LimitsOf(target)
<1>1. L \subseteq Nat /\ L # {}
  <2>1. target.window \in Nat /\ target.limit \in Nat
    BY DEF TargetsOfAll
  <2>2. (target.window * Percent) \div 100 \in Nat
    BY <2>1 DEF Percent
  <2> QED
    BY <2>1, <2>2 DEF LimitsOf, Limited
<1> HIDE DEF L
<1>2. \E x \in L : \A y \in L : x <= y
  BY <1>1, Smallest
<1>3. Min(L) \in L
  BY <1>2 DEF Min
<1>4. Min(L) - target.schema \in Int
  <2> DEFINE m == Min(L)
  <2>1. m \in Nat
    BY <1>1, <1>3
  <2> HIDE DEF m
  <2>2. m - target.schema \in Int
    BY <2>1 DEF TargetsOfAll
  <2> QED
    BY <2>2 DEF m
<1>5. 256 \in Int
  OBVIOUS
<1>6. Max({256, Min(L) - target.schema}) \in {256, Min(L) - target.schema}
      /\ Max({256, Min(L) - target.schema}) >= 256
  BY <1>4, <1>5, LargerOfTwo
<1>7. Max({256, Min(L) - target.schema}) \in Nat
  <2> DEFINE M == Min(L) - target.schema
             m == Max({256, M})
  <2>1. M \in Int /\ m \in {256, M} /\ m >= 256
    BY <1>4, <1>6
  <2> HIDE DEF M, m
  <2>2. m \in Nat
    BY <2>1
  <2> QED
    BY <2>2 DEF M, m
<1> QED
  BY <1>7 DEF Usable, Least, L

\* Where the parts of a pack end.
LEMMA EndsAre ==
  ASSUME NEW parts \in Seq(Part)
  PROVE  /\ Len(parts) \in Nat
         /\ Ends(parts) \in [0 .. Len(parts) -> Nat]
         /\ Ends(parts)[0] = 0
         /\ \A i \in 1 .. Len(parts) : Ends(parts)[i] = Ends(parts)[i - 1] + (parts[i].chars + 2)
<1> DEFINE numbers == [i \in DOMAIN parts |-> parts[i].chars + 2]
<1>1. Len(parts) \in Nat /\ DOMAIN parts = 1 .. Len(parts) /\ \A i \in 1 .. Len(parts) : parts[i] \in Part
  BY LenProperties, ElementOfSeq
<1>2. \A i \in 1 .. Len(parts) : parts[i].chars + 2 \in Nat
  BY <1>1 DEF Part
<1>3. numbers \in [1 .. Len(parts) -> Nat] /\ \A i \in 1 .. Len(parts) : numbers[i] = parts[i].chars + 2
  BY <1>1, <1>2
<1> HIDE DEF numbers
<1>4. Len(numbers) = Len(parts)
  BY <1>1, <1>3
<1>5. Sums(numbers) \in [0 .. Len(parts) -> Nat] /\ Sums(numbers)[0] = 0
      /\ \A i \in 1 .. Len(parts) : Sums(numbers)[i] = Sums(numbers)[i - 1] + numbers[i]
  BY <1>1, <1>3, <1>4, SumsAre
<1>6. Ends(parts) = Sums(numbers)
  BY DEF Ends, numbers
<1> QED
  BY <1>1, <1>3, <1>5, <1>6

LEMMA EndsOfMore ==
  ASSUME NEW parts \in Seq(Part), NEW part \in Part
  PROVE  /\ Append(parts, part) \in Seq(Part)
         /\ Len(Append(parts, part)) = Len(parts) + 1
         /\ \A i \in 0 .. Len(parts) : Ends(Append(parts, part))[i] = Ends(parts)[i]
         /\ Ends(Append(parts, part))[Len(parts) + 1] = Ends(parts)[Len(parts)] + (part.chars + 2)
<1> DEFINE more == Append(parts, part)
           a == [i \in DOMAIN parts |-> parts[i].chars + 2]
           b == [i \in DOMAIN more |-> more[i].chars + 2]
<1>1. Len(parts) \in Nat /\ DOMAIN parts = 1 .. Len(parts) /\ \A i \in 1 .. Len(parts) : parts[i] \in Part
  BY LenProperties, ElementOfSeq
<1>2. more \in Seq(Part) /\ Len(more) = Len(parts) + 1
      /\ (\A i \in 1 .. Len(parts) : more[i] = parts[i]) /\ more[Len(parts) + 1] = part
  BY AppendProperties
<1> HIDE DEF more
<1>3. DOMAIN more = 1 .. Len(more) /\ \A i \in 1 .. Len(more) : more[i] \in Part
  BY <1>2, LenProperties, ElementOfSeq
<1>4. a \in [1 .. Len(parts) -> Nat] /\ \A i \in 1 .. Len(parts) : a[i] = parts[i].chars + 2
  BY <1>1 DEF Part
<1>5. b \in [1 .. Len(more) -> Nat] /\ \A i \in 1 .. Len(more) : b[i] = more[i].chars + 2
  BY <1>3 DEF Part
<1>6. Ends(parts) = Sums(a) /\ Ends(more) = Sums(b)
  BY DEF Ends
<1> HIDE DEF a, b
<1>7. Len(more) \in Nat /\ Len(parts) <= Len(more) /\ Len(parts) + 1 \in 1 .. Len(more)
      /\ (Len(parts) + 1) - 1 = Len(parts) /\ \A i \in 1 .. Len(parts) : i \in 1 .. Len(more)
      /\ Len(parts) \in 0 .. Len(parts)
  BY <1>1, <1>2
<1>8. Len(a) = Len(parts) /\ Len(b) = Len(more)
  BY <1>1, <1>4, <1>5, <1>7
<1>9. \A i \in 1 .. Len(parts) : a[i] = b[i]
  BY <1>2, <1>4, <1>5, <1>7
<1>10. \A i \in 0 .. Len(parts) : Sums(a)[i] = Sums(b)[i]
  <2>1. Len(parts) \in Nat /\ Len(more) \in Nat /\ Len(parts) <= Len(parts) /\ Len(parts) <= Len(more)
    BY <1>1, <1>7
  <2>2. a \in [1 .. Len(parts) -> Nat] /\ b \in [1 .. Len(more) -> Nat]
    BY <1>4, <1>5
  <2>3. SameFirst(Len(parts), a, b)
    BY <1>9 DEF SameFirst
  <2> QED
    BY <1>8, <2>1, <2>2, <2>3, SumsAgree
<1>11. Sums(b)[Len(parts) + 1] = Sums(b)[Len(parts)] + b[Len(parts) + 1]
  <2>1. \A i \in 1 .. Len(more) : Sums(b)[i] = Sums(b)[i - 1] + b[i]
    BY <1>5, <1>7, <1>8, SumsAre
  <2> QED
    BY <1>7, <2>1
<1>12. b[Len(parts) + 1] = part.chars + 2
  BY <1>2, <1>5, <1>7
<1> QED
  BY <1>2, <1>6, <1>7, <1>10, <1>11, <1>12 DEF more

-----------------------------------------------------------------------------
(* What the budget chooses.                                                *)

ChoicesFor(target) ==
    {c \in [kept : Seq(Part), tokens : Nat, dropped : SUBSET Headings] :
        Limited(target) => c.tokens <= Usable(target)}
Nothing == [kept |-> <<>>, tokens |-> 0, dropped |-> {}]

\* A section is taken, whole or cut, or dropped.
Picks(c, d, section, chars, cut) ==
    d = [kept |-> Append(c.kept, [id |-> section, chars |-> chars, cut |-> cut]),
         tokens |-> c.tokens + Tokens(chars), dropped |-> c.dropped]
Drops(c, d, section) ==
    d = [kept |-> c.kept, tokens |-> c.tokens, dropped |-> c.dropped \cup {section}]

TooMuch(target, c, chars) == Limited(target) /\ c.tokens + Tokens(chars) > Usable(target)
Spare(target, c) == Usable(target) - c.tokens

LEMMA TokensAre ==
  ASSUME NEW chars \in Nat
  PROVE  /\ Tokens(chars) \in Nat
         /\ chars <= 4 * Tokens(chars) /\ 4 * Tokens(chars) <= chars + 3
         /\ chars > 0 => Tokens(chars) > 0
BY DEF Tokens

\* What is cut takes all that is left.
LEMMA CutIs ==
  ASSUME NEW chars \in Nat, NEW left \in Nat, left >= 24, Tokens(chars) > left
  PROVE  /\ Clipped(chars, left) = 4 * left - 2
         /\ 4 * left - 2 \in Nat
         /\ 4 * left - 2 <= chars
         /\ Tokens(4 * left - 2) = left
<1>1. chars >= 4 * left + 1
  BY DEF Tokens
<1>2. Max({32, 4 * left}) = 4 * left
  <2>1. 32 \in Int /\ 4 * left \in Int /\ 4 * left > 32
    OBVIOUS
  <2> DEFINE k == 4 * left
             m == Max({32, k})
  <2>2. m \in {32, k} /\ m >= 32 /\ m >= k
    BY <2>1, LargerOfTwo
  <2>3. k \in Int /\ k > 32
    BY <2>1
  <2> HIDE DEF k, m
  <2>4. m = k
    BY <2>2, <2>3
  <2> QED
    BY <2>4 DEF k, m
<1>3. Clipped(chars, left) = 4 * left - 2
  <2>1. ~(chars <= 4 * left) /\ (4 * left - 14) + 12 = 4 * left - 2
    BY <1>1
  <2> QED
    BY <1>2, <2>1 DEF Clipped
<1>4. Tokens(4 * left - 2) = left
  BY DEF Tokens
<1> QED
  BY <1>1, <1>3, <1>4

\* What is left, where no more than what is usable is taken.
LEMMA LeftIs ==
  ASSUME NEW target \in TargetsOfAll, NEW c \in ChoicesFor(target), Limited(target)
  PROVE  /\ Spare(target, c) \in Nat
         /\ Max({0, Spare(target, c)}) = Spare(target, c)
<1>1. Usable(target) \in Nat /\ c.tokens \in Nat /\ c.tokens <= Usable(target)
  BY UsableIs DEF ChoicesFor
<1> DEFINE k == Spare(target, c)
           m == Max({0, k})
<1>2. k \in Nat
  BY <1>1 DEF Spare
<1> HIDE DEF k
<1>3. m \in {0, k} /\ m >= 0 /\ m >= k
  BY <1>2, LargerOfTwo
<1> HIDE DEF m
<1>4. m = k
  BY <1>2, <1>3
<1> QED
  BY <1>2, <1>4 DEF k, m

\* What an update of a choice is.
Retaken(c, x, y) == [c EXCEPT !.kept = x, !.tokens = y]
Reduced(c, x) == [c EXCEPT !.dropped = x]
Chose(x, y, z) == [kept |-> x, tokens |-> y, dropped |-> z]

LEMMA ChoiceExcept ==
  ASSUME NEW target, NEW c \in ChoicesFor(target), NEW x, NEW y
  PROVE  Retaken(c, x, y) = Chose(x, y, c.dropped) /\ Reduced(c, x) = Chose(c.kept, c.tokens, x)
<1> DEFINE A == Seq(Part)
           B == SUBSET Headings
           e == Retaken(c, x, y)
<1>0. c \in [kept : A, tokens : Nat, dropped : B]
  BY DEF ChoicesFor
<1> HIDE DEF A, B
<1>1. ASSUME NEW f \in [kept : A \cup {x}, tokens : Nat \cup {y}, dropped : B]
      PROVE  f = Chose(f.kept, f.tokens, f.dropped)
  BY DEF Chose
<1>2. e \in [kept : A \cup {x}, tokens : Nat \cup {y}, dropped : B]
  BY <1>0 DEF Retaken
<1>3. e.kept = x /\ e.tokens = y /\ e.dropped = c.dropped
  BY <1>0 DEF Retaken
<1> HIDE DEF e
<1>4. e = Chose(x, y, c.dropped)
  BY <1>1, <1>2, <1>3
<1>5. Reduced(c, x) = Chose(c.kept, c.tokens, x)
  BY <1>0 DEF Reduced, Chose
<1> QED
  BY <1>4, <1>5 DEF e

\* The four things that a round does.
LEMMA WeighCases ==
  ASSUME NEW target \in TargetsOfAll, NEW c \in ChoicesFor(target), NEW section \in Headings, NEW chars \in Nat,
         NEW d, d = Weigh(target, c, section, chars)
  PROVE  \/ chars = 0 /\ d = c
         \/ chars > 0 /\ ~TooMuch(target, c, chars) /\ Picks(c, d, section, chars, FALSE)
         \/ /\ chars > 0 /\ TooMuch(target, c, chars) /\ Spare(target, c) >= 24
            /\ 4 * Spare(target, c) - 2 \in Nat /\ 4 * Spare(target, c) - 2 <= chars
            /\ Tokens(4 * Spare(target, c) - 2) = Spare(target, c)
            /\ Picks(c, d, section, 4 * Spare(target, c) - 2, TRUE)
         \/ /\ chars > 0 /\ TooMuch(target, c, chars)
            /\ section \in Essential => Spare(target, c) < 24
            /\ Drops(c, d, section)
<1> DEFINE left == Max({0, Spare(target, c)})
           With(n, cut) ==
              [c EXCEPT !.kept = Append(c.kept, [id |-> section, chars |-> n, cut |-> cut]),
                        !.tokens = c.tokens + Tokens(n)]
           whole == With(chars, FALSE)
           part == With(Clipped(chars, left), TRUE)
           less == [c EXCEPT !.dropped = c.dropped \cup {section}]
<1>0. c \in [kept : Seq(Part), tokens : Nat, dropped : SUBSET Headings]
  BY DEF ChoicesFor
<1>1. d = CASE chars = 0 -> c
          [] chars > 0 /\ (~Limited(target) \/ Tokens(chars) <= left) -> whole
          [] chars > 0 /\ Limited(target) /\ Tokens(chars) > left
                /\ section \in Essential /\ left >= 24 -> part
          [] OTHER -> less
  BY DEF Weigh, Spare, Shortest
<1>2. /\ Picks(c, whole, section, chars, FALSE) /\ Picks(c, part, section, Clipped(chars, left), TRUE)
      /\ Drops(c, less, section)
  <2>1. ASSUME NEW n, NEW cut PROVE Picks(c, With(n, cut), section, n, cut)
    <3> DEFINE x == Append(c.kept, [id |-> section, chars |-> n, cut |-> cut])
               y == c.tokens + Tokens(n)
    <3>1. Retaken(c, x, y) = Chose(x, y, c.dropped)
      BY ChoiceExcept
    <3> QED
      BY <3>1, Zenon DEF Picks, Retaken, Chose
  <2>2. Drops(c, less, section)
    <3>1. Reduced(c, c.dropped \cup {section}) = Chose(c.kept, c.tokens, c.dropped \cup {section})
      BY ChoiceExcept
    <3> QED
      BY <3>1, Zenon DEF Drops, Reduced, Chose
  <2> QED
    BY <2>1, <2>2, Zenon
<1> HIDE DEF left, With, whole, part, less
<1>3. Tokens(chars) \in Nat /\ c.tokens \in Nat
  BY <1>0, TokensAre
<1>4. ASSUME Limited(target)
      PROVE  left \in Nat /\ left = Spare(target, c) /\ (TooMuch(target, c, chars) <=> Tokens(chars) > left)
  <2>1. left \in Nat /\ left = Spare(target, c)
    BY <1>4, LeftIs DEF left
  <2>2. Usable(target) \in Nat
    BY <1>4, UsableIs
  <2>3. left = Usable(target) - c.tokens
    BY <2>1 DEF Spare
  <2>4. c.tokens + Tokens(chars) > Usable(target) <=> Tokens(chars) > left
    BY <1>3, <2>2, <2>3
  <2> QED
    BY <1>4, <2>1, <2>4 DEF TooMuch
<1>5. CASE chars = 0
  BY <1>1, <1>5
<1>6. CASE chars > 0 /\ ~TooMuch(target, c, chars)
  <2>1. ~Limited(target) \/ Tokens(chars) <= left
    BY <1>3, <1>4, <1>6
  <2>2. d = whole
    <3> DEFINE none == chars = 0
               fits == chars > 0 /\ (~Limited(target) \/ Tokens(chars) <= left)
               cuts == /\ chars > 0 /\ Limited(target) /\ Tokens(chars) > left
                       /\ section \in Essential /\ left >= 24
    <3>1. d = CASE none -> c [] fits -> whole [] cuts -> part [] OTHER -> less
      BY <1>1
    <3>2. ~none /\ fits
      BY <1>6, <2>1
    <3>3. ~cuts
      <4>1. CASE ~Limited(target)
        BY <4>1
      <4>2. CASE Limited(target)
        BY <1>3, <1>4, <1>6, <4>2
      <4> QED
        BY <4>1, <4>2
    <3> HIDE DEF none, fits, cuts
    <3> QED
      BY <3>1, <3>2, <3>3
  <2> QED
    BY <1>2, <1>6, <2>2
<1>7. CASE chars > 0 /\ TooMuch(target, c, chars) /\ section \in Essential /\ left >= 24
  <2>1. Limited(target)
    BY <1>7 DEF TooMuch
  <2>2. left \in Nat /\ left = Spare(target, c) /\ Tokens(chars) > left
    BY <1>4, <1>7, <2>1
  <2>3. d = part
    BY <1>1, <1>3, <1>7, <2>1, <2>2
  <2>4. /\ Clipped(chars, left) = 4 * left - 2 /\ 4 * left - 2 \in Nat
        /\ 4 * left - 2 <= chars /\ Tokens(4 * left - 2) = left
    BY <1>7, <2>2, CutIs
  <2>5. Picks(c, d, section, 4 * left - 2, TRUE)
    BY <1>2, <2>3, <2>4
  <2> QED
    BY <1>7, <2>2, <2>4, <2>5
<1>8. CASE chars > 0 /\ TooMuch(target, c, chars) /\ ~(section \in Essential /\ left >= 24)
  <2>1. Limited(target)
    BY <1>8 DEF TooMuch
  <2>2. left \in Nat /\ left = Spare(target, c) /\ Tokens(chars) > left
    BY <1>4, <1>8, <2>1
  <2>3. d = less
    BY <1>1, <1>3, <1>8, <2>1, <2>2
  <2>4. section \in Essential => Spare(target, c) < 24
    BY <1>8, <2>2
  <2> QED
    BY <1>2, <1>8, <2>3, <2>4
<1>9. chars = 0 \/ chars > 0
  OBVIOUS
<1> QED
  BY <1>5, <1>6, <1>7, <1>8, <1>9, Zenon

LEMMA WeighKeeps ==
  ASSUME NEW target \in TargetsOfAll, NEW c \in ChoicesFor(target), NEW section \in Headings, NEW chars \in Nat
  PROVE  Weigh(target, c, section, chars) \in ChoicesFor(target)
<1> DEFINE d == Weigh(target, c, section, chars)
<1> SUFFICES d \in ChoicesFor(target)
  OBVIOUS
<1>0. c.kept \in Seq(Part) /\ c.tokens \in Nat /\ c.dropped \in SUBSET Headings
  BY DEF ChoicesFor
<1>1. ASSUME Limited(target) PROVE Usable(target) \in Nat /\ c.tokens <= Usable(target)
  BY <1>1, UsableIs DEF ChoicesFor
<1> HIDE DEF d
<1>2. ASSUME NEW n \in Nat, NEW cut \in BOOLEAN, Picks(c, d, section, n, cut),
             Limited(target) => c.tokens + Tokens(n) <= Usable(target)
      PROVE  d \in ChoicesFor(target)
  <2>1. [id |-> section, chars |-> n, cut |-> cut] \in Part
    BY DEF Part
  <2>2. Append(c.kept, [id |-> section, chars |-> n, cut |-> cut]) \in Seq(Part)
    BY <1>0, <2>1, AppendProperties
  <2>3. c.tokens + Tokens(n) \in Nat
    <3>1. Tokens(n) \in Nat
      BY TokensAre
    <3> QED
      BY <1>0, <3>1
  <2> QED
    BY <1>0, <1>2, <2>2, <2>3 DEF Picks, ChoicesFor
<1>3. CASE chars = 0 /\ d = c
  BY <1>3
<1>4. CASE chars > 0 /\ ~TooMuch(target, c, chars) /\ Picks(c, d, section, chars, FALSE)
  <2>1. ASSUME Limited(target) PROVE c.tokens + Tokens(chars) <= Usable(target)
    <3>1. Tokens(chars) \in Nat /\ ~(c.tokens + Tokens(chars) > Usable(target))
      BY <1>4, <2>1, TokensAre DEF TooMuch
    <3> QED
      BY <1>0, <1>1, <2>1, <3>1
  <2> QED
    BY <1>2, <1>4, <2>1
<1>5. CASE /\ TooMuch(target, c, chars)
           /\ 4 * Spare(target, c) - 2 \in Nat
           /\ Tokens(4 * Spare(target, c) - 2) = Spare(target, c)
           /\ Picks(c, d, section, 4 * Spare(target, c) - 2, TRUE)
  <2> DEFINE n == 4 * Spare(target, c) - 2
  <2>1. Usable(target) \in Nat
    BY <1>1, <1>5 DEF TooMuch
  <2>2. c.tokens + Tokens(n) = Usable(target)
    BY <1>0, <1>5, <2>1 DEF Spare
  <2>3. n \in Nat /\ Picks(c, d, section, n, TRUE)
    BY <1>5
  <2> HIDE DEF n
  <2>4. TRUE \in BOOLEAN /\ c.tokens + Tokens(n) <= Usable(target)
    BY <2>1, <2>2
  <2> QED
    BY <1>2, <2>3, <2>4, Zenon
<1>6. CASE Drops(c, d, section)
  <2>1. c.dropped \cup {section} \in SUBSET Headings
    BY <1>0
  <2> QED
    BY <1>0, <1>1, <1>6, <2>1 DEF Drops, ChoicesFor
<1> QED
  BY <1>3, <1>4, <1>5, <1>6, WeighCases DEF d

-----------------------------------------------------------------------------
(* Section by section.                                                     *)

LEMMA NeededIs ==
  ASSUME NEW text \in TextsOfAll
  PROVE  /\ OfSections(text, Tokens) \in [0 .. 10 -> Nat] /\ OfSections(text, Tokens)[0] = 0
         /\ \A i \in 1 .. 10 :
               OfSections(text, Tokens)[i] = OfSections(text, Tokens)[i - 1] + Tokens(text[Sections[i]])
<1> DEFINE numbers == [i \in DOMAIN Sections |-> Tokens(text[Sections[i]])]
<1>1. \A i \in 1 .. 10 : text[Sections[i]] \in Nat
  BY SectionsAre DEF TextsOfAll
<1>2. \A i \in 1 .. 10 : Tokens(text[Sections[i]]) \in Nat
  BY <1>1, TokensAre
<1>3. numbers \in [1 .. 10 -> Nat] /\ \A i \in 1 .. 10 : numbers[i] = Tokens(text[Sections[i]])
  BY <1>2, SectionsAre
<1>4. OfSections(text, Tokens) = Sums(numbers)
  BY DEF OfSections
<1> HIDE DEF numbers
<1>5. 10 \in Nat /\ Len(numbers) = 10
  BY <1>3
<1> DEFINE r == Sums(numbers)
<1>6. r \in [0 .. 10 -> Nat] /\ r[0] = 0 /\ \A i \in 1 .. 10 : r[i] = r[i - 1] + numbers[i]
  BY <1>3, <1>5, SumsAre
<1> HIDE DEF r
<1>7. \A i \in 1 .. 10 : r[i] = r[i - 1] + Tokens(text[Sections[i]])
  BY <1>3, <1>6
<1> QED
  BY <1>4, <1>6, <1>7 DEF r

LEMMA PartedIs ==
  ASSUME NEW text \in TextsOfAll
  PROVE  /\ OfSections(text, Parted) \in [0 .. 10 -> Nat] /\ OfSections(text, Parted)[0] = 0
         /\ \A i \in 1 .. 10 :
               OfSections(text, Parted)[i] = OfSections(text, Parted)[i - 1] + Parted(text[Sections[i]])
<1> DEFINE numbers == [i \in DOMAIN Sections |-> Parted(text[Sections[i]])]
<1>1. \A i \in 1 .. 10 : text[Sections[i]] \in Nat
  BY SectionsAre DEF TextsOfAll
<1>2. \A i \in 1 .. 10 : Parted(text[Sections[i]]) \in Nat
  BY <1>1 DEF Parted
<1>3. numbers \in [1 .. 10 -> Nat] /\ \A i \in 1 .. 10 : numbers[i] = Parted(text[Sections[i]])
  BY <1>2, SectionsAre
<1>4. OfSections(text, Parted) = Sums(numbers)
  BY DEF OfSections
<1> HIDE DEF numbers
<1>5. 10 \in Nat /\ Len(numbers) = 10
  BY <1>3
<1> DEFINE r == Sums(numbers)
<1>6. r \in [0 .. 10 -> Nat] /\ r[0] = 0 /\ \A i \in 1 .. 10 : r[i] = r[i - 1] + numbers[i]
  BY <1>3, <1>5, SumsAre
<1> HIDE DEF r
<1>7. \A i \in 1 .. 10 : r[i] = r[i - 1] + Parted(text[Sections[i]])
  BY <1>3, <1>6
<1> QED
  BY <1>4, <1>6, <1>7 DEF r

LEMMA TakenIs ==
  ASSUME NEW text \in TextsOfAll
  PROVE  /\ OfSections(text, Taken) \in [0 .. 10 -> Nat] /\ OfSections(text, Taken)[0] = 0
         /\ \A i \in 1 .. 10 :
               OfSections(text, Taken)[i] = OfSections(text, Taken)[i - 1] + Taken(text[Sections[i]])
<1> DEFINE numbers == [i \in DOMAIN Sections |-> Taken(text[Sections[i]])]
<1>1. \A i \in 1 .. 10 : text[Sections[i]] \in Nat
  BY SectionsAre DEF TextsOfAll
<1>2. \A i \in 1 .. 10 : Taken(text[Sections[i]]) \in Nat
  BY <1>1 DEF Taken
<1>3. numbers \in [1 .. 10 -> Nat] /\ \A i \in 1 .. 10 : numbers[i] = Taken(text[Sections[i]])
  BY <1>2, SectionsAre
<1>4. OfSections(text, Taken) = Sums(numbers)
  BY DEF OfSections
<1> HIDE DEF numbers
<1>5. 10 \in Nat /\ Len(numbers) = 10
  BY <1>3
<1> DEFINE r == Sums(numbers)
<1>6. r \in [0 .. 10 -> Nat] /\ r[0] = 0 /\ \A i \in 1 .. 10 : r[i] = r[i - 1] + numbers[i]
  BY <1>3, <1>5, SumsAre
<1> HIDE DEF r
<1>7. \A i \in 1 .. 10 : r[i] = r[i - 1] + Taken(text[Sections[i]])
  BY <1>3, <1>6
<1> QED
  BY <1>4, <1>6, <1>7 DEF r

LEMMA NothingIs ==
  ASSUME NEW target \in TargetsOfAll
  PROVE  Nothing \in ChoicesFor(target)
<1>1. <<>> \in Seq(Part)
  BY EmptySeq
<1>2. Limited(target) => 0 <= Usable(target)
  BY UsableIs
<1> QED
  BY <1>1, <1>2 DEF Nothing, ChoicesFor

LEMMA RoundsAre ==
  ASSUME NEW target \in TargetsOfAll, NEW text \in TextsOfAll
  PROVE  /\ Rounds(target, text) \in [0 .. 10 -> ChoicesFor(target)]
         /\ Rounds(target, text)[0] = Nothing
         /\ \A i \in 1 .. 10 : Rounds(target, text)[i] =
               Weigh(target, Rounds(target, text)[i - 1], Sections[i], text[Sections[i]])
<1> DEFINE S == ChoicesFor(target)
           a == Nothing
           N == 10
           F == [x \in (1 .. N) \X S |-> Weigh(target, x[2], Sections[x[1]], text[Sections[x[1]]])]
           Is(f) == f = [n \in 0 .. Len(Sections) |-> IF n = 0 THEN a
                         ELSE Weigh(target, f[n - 1], Sections[n], text[Sections[n]])]
           r == Rounds(target, text)
<1>1. \A i \in 1 .. N : Sections[i] \in Headings /\ text[Sections[i]] \in Nat
  BY SectionsAre DEF TextsOfAll
<1>2. a \in S
  BY NothingIs
<1>3. ASSUME NEW i \in 1 .. N, NEW c \in S PROVE Weigh(target, c, Sections[i], text[Sections[i]]) \in S
  BY <1>1, WeighKeeps
<1> HIDE DEF S
<1>4. F \in [(1 .. N) \X S -> S]
  <2>1. \A x \in (1 .. N) \X S : Weigh(target, x[2], Sections[x[1]], text[Sections[x[1]]]) \in S
    BY <1>3
  <2> QED
    BY <2>1
<1>5. ASSUME NEW i \in 1 .. N, NEW c \in S
      PROVE  F[<<i, c>>] = Weigh(target, c, Sections[i], text[Sections[i]])
  OBVIOUS
<1> HIDE DEF F, a
<1>6. N \in Nat
  OBVIOUS
<1>7. PICK f \in [0 .. N -> S] : Repeats(f, a, N, F)
  BY <1>2, <1>4, <1>6, Repetition
<1>8. ASSUME NEW i \in 1 .. N PROVE f[i] = Weigh(target, f[i - 1], Sections[i], text[Sections[i]])
  <2>1. i - 1 \in 0 .. N
    OBVIOUS
  <2>2. f[i - 1] \in S
    BY <1>7, <2>1
  <2>3. f[i] = F[<<i, f[i - 1]>>]
    BY <1>7 DEF Repeats
  <2> QED
    BY <1>5, <2>2, <2>3
<1>9. Is(f)
  <2> DEFINE g == [n \in 0 .. N |-> IF n = 0 THEN a
                    ELSE Weigh(target, f[n - 1], Sections[n], text[Sections[n]])]
  <2>1. \A n \in 0 .. N : f[n] = g[n]
    <3> TAKE n \in 0 .. N
    <3>1. n = 0 \/ n \in 1 .. N
      OBVIOUS
    <3>2. f[0] = a
      BY <1>7 DEF Repeats
    <3> QED
      BY <1>8, <3>1, <3>2
  <2>2. f = g
    BY <1>7, <2>1
  <2> HIDE DEF N
  <2>3. Len(Sections) = N
    BY SectionsAre DEF N
  <2> QED
    BY <2>2, <2>3
<1>10. Is(r)
  <2>1. r = CHOOSE g : Is(g)
    BY DEF Rounds, a, Nothing
  <2> HIDE DEF Is, r
  <2> QED
    BY <1>9, <2>1
<1> HIDE DEF r
<1>11. Len(Sections) = N
  BY SectionsAre
<1> HIDE DEF N
<1>12. r[0] = a /\ \A i \in 1 .. N : r[i] = Weigh(target, r[i - 1], Sections[i], text[Sections[i]])
  <2>1. \A n \in 0 .. N : r[n] = IF n = 0 THEN a ELSE Weigh(target, r[n - 1], Sections[n], text[Sections[n]])
    BY <1>10, <1>11
  <2>2. 0 \in 0 .. N /\ \A i \in 1 .. N : i \in 0 .. N /\ i # 0
    BY <1>6
  <2> QED
    BY <2>1, <2>2
<1>13. IsOn(N, r)
  <2> DEFINE g == [n \in 0 .. N |-> IF n = 0 THEN a ELSE Weigh(target, r[n - 1], Sections[n], text[Sections[n]])]
  <2>1. r = g /\ g = [n \in 0 .. N |-> g[n]]
    BY <1>10, <1>11
  <2> HIDE DEF g
  <2> QED
    BY <2>1 DEF IsOn
<1>14. StepsBy(F, S, N, r)
  BY <1>5, <1>12 DEF StepsBy
<1>15. r \in [0 .. N -> S]
  BY <1>2, <1>4, <1>6, <1>12, <1>13, <1>14, Unrolled
<1> QED
  BY <1>12, <1>15 DEF r, S, a, N

-----------------------------------------------------------------------------
(* What is true of what is chosen of the first sections.                   *)

Ended(parts) == Ends(parts)[Len(parts)]

\* A section is in what is kept, whole, no further on than it can be.
HasWhole(text, parts, i) ==
    \E k \in 1 .. Len(parts) :
        /\ parts[k].id = Sections[i] /\ parts[k].chars = text[Sections[i]]
        /\ BeginOf(parts, k) <= OfSections(text, Parted)[i - 1]
        /\ BeginOf(parts, k) + text[Sections[i]] + 2 <= Ended(parts)

WholeOrTooMuch(target, text, parts, i) ==
    text[Sections[i]] > 0 =>
        \/ HasWhole(text, parts, i)
        \/ Limited(target) /\ OfSections(text, Tokens)[i] > Usable(target)

MissesForCause(target, text, dropped, i) ==
    Sections[i] \in Essential /\ Sections[i] \in dropped =>
        Limited(target) /\ OfSections(text, Tokens)[i - 1] > Usable(target) - 24

SizesUpTo(text, n, c) ==
    /\ c.tokens <= OfSections(text, Tokens)[n]
    /\ Ended(c.kept) <= 4 * c.tokens + 2 * n
    /\ Ended(c.kept) <= OfSections(text, Parted)[n]

ChosenUpTo(target, text, n, c) ==
    /\ SizesUpTo(text, n, c)
    /\ c.dropped \subseteq {Sections[j] : j \in 1 .. n}
    /\ \A i \in 1 .. n : WholeOrTooMuch(target, text, c.kept, i)
    /\ \A i \in 1 .. n : MissesForCause(target, text, c.dropped, i)

LEMMA EndedIs ==
  ASSUME NEW parts \in Seq(Part)
  PROVE  Ended(parts) \in Nat
<1>1. Len(parts) \in Nat /\ Ends(parts) \in [0 .. Len(parts) -> Nat]
  BY EndsAre
<1>2. Len(parts) \in 0 .. Len(parts)
  BY <1>1
<1> QED
  BY <1>1, <1>2 DEF Ended

LEMMA WholeIsKept ==
  ASSUME NEW text \in TextsOfAll, NEW parts \in Seq(Part), NEW part \in Part, NEW i \in 1 .. 10,
         HasWhole(text, parts, i)
  PROVE  HasWhole(text, Append(parts, part), i)
<1> DEFINE more == Append(parts, part)
           N == Len(parts)
<1>1. PICK k \in 1 .. N :
        /\ parts[k].id = Sections[i] /\ parts[k].chars = text[Sections[i]]
        /\ BeginOf(parts, k) <= OfSections(text, Parted)[i - 1]
        /\ BeginOf(parts, k) + text[Sections[i]] + 2 <= Ended(parts)
  BY DEF HasWhole
<1>2. N \in Nat /\ Ends(parts) \in [0 .. N -> Nat]
  BY EndsAre
<1>3. /\ more \in Seq(Part) /\ Len(more) = N + 1
      /\ \A j \in 0 .. N : Ends(more)[j] = Ends(parts)[j]
      /\ Ends(more)[N + 1] = Ends(parts)[N] + (part.chars + 2)
  BY EndsOfMore
<1>4. more[k] = parts[k]
  BY <1>1, <1>2, AppendProperties
<1> HIDE DEF more, N
<1>5. k \in 1 .. Len(more) /\ k - 1 \in 0 .. N
  BY <1>2, <1>3
<1>6. BeginOf(more, k) = BeginOf(parts, k)
  BY <1>3, <1>5 DEF BeginOf
<1>7. Ended(more) = Ended(parts) + (part.chars + 2)
  BY <1>3 DEF Ended, N
<1> DEFINE b == BeginOf(parts, k)
           e == Ended(parts)
           t == text[Sections[i]]
<1>8. b \in Nat /\ e \in Nat /\ part.chars \in Nat /\ t \in Nat
  <2>1. b \in Nat
    BY <1>2, <1>5 DEF BeginOf
  <2>2. e \in Nat
    BY EndedIs
  <2>3. part.chars \in Nat
    BY DEF Part
  <2>4. t \in Nat
    BY SectionsAre DEF TextsOfAll
  <2> QED
    BY <2>1, <2>2, <2>3, <2>4
<1>9. b + t + 2 <= e
  BY <1>1
<1> HIDE DEF b, e, t
<1>10. b + t + 2 <= e + (part.chars + 2)
  BY <1>8, <1>9
<1>11. BeginOf(more, k) + text[Sections[i]] + 2 <= Ended(more)
  BY <1>6, <1>7, <1>10 DEF b, e, t
<1>12. BeginOf(more, k) <= OfSections(text, Parted)[i - 1]
  BY <1>1, <1>6
<1>13. more[k].id = Sections[i] /\ more[k].chars = text[Sections[i]]
  BY <1>1, <1>4
<1>14. HasWhole(text, more, i)
  BY <1>5, <1>11, <1>12, <1>13 DEF HasWhole
<1> QED
  BY <1>14 DEF more

LEMMA WholeIsNew ==
  ASSUME NEW text \in TextsOfAll, NEW parts \in Seq(Part), NEW part \in Part, NEW i \in 1 .. 10,
         part.id = Sections[i], part.chars = text[Sections[i]],
         Ended(parts) <= OfSections(text, Parted)[i - 1]
  PROVE  HasWhole(text, Append(parts, part), i)
<1> DEFINE more == Append(parts, part)
           N == Len(parts)
           k == N + 1
<1>1. N \in Nat /\ Ends(parts) \in [0 .. N -> Nat]
  BY EndsAre
<1>2. /\ more \in Seq(Part) /\ Len(more) = N + 1
      /\ \A j \in 0 .. N : Ends(more)[j] = Ends(parts)[j]
      /\ Ends(more)[N + 1] = Ends(parts)[N] + (part.chars + 2)
  BY EndsOfMore
<1>3. more[k] = part
  BY <1>1, AppendProperties
<1> HIDE DEF more, N
<1>4. k \in 1 .. Len(more) /\ k - 1 = N /\ N \in 0 .. N
  BY <1>1, <1>2
<1>5. BeginOf(more, k) = Ended(parts)
  <2>1. Ends(more)[N] = Ends(parts)[N]
    BY <1>2, <1>4
  <2> HIDE DEF k
  <2>2. BeginOf(more, k) = Ends(more)[N]
    BY <1>4 DEF BeginOf
  <2> QED
    BY <2>1, <2>2 DEF Ended, N
<1>6. Ended(more) = Ended(parts) + (part.chars + 2)
  BY <1>2 DEF Ended, N
<1> HIDE DEF k
<1>7. Ended(parts) \in Nat /\ part.chars \in Nat
  BY EndedIs DEF Part
<1>8. Ended(parts) + part.chars + 2 <= Ended(parts) + (part.chars + 2)
  <2> DEFINE e == Ended(parts)
             p == part.chars
  <2>1. e \in Nat /\ p \in Nat
    BY <1>7
  <2> HIDE DEF e, p
  <2>2. e + p + 2 <= e + (p + 2)
    BY <2>1
  <2> QED
    BY <2>2 DEF e, p
<1>9. BeginOf(more, k) + text[Sections[i]] + 2 <= Ended(more)
  BY <1>5, <1>6, <1>8
<1>10. BeginOf(more, k) <= OfSections(text, Parted)[i - 1]
  BY <1>5
<1>11. more[k].id = Sections[i] /\ more[k].chars = text[Sections[i]]
  BY <1>3
<1>12. HasWhole(text, more, i)
  BY <1>4, <1>9, <1>10, <1>11 DEF HasWhole
<1> QED
  BY <1>12 DEF more

\* What a round that takes a section, whole or cut, makes of the sizes.
LEMMA SizesOfMore ==
  ASSUME NEW text \in TextsOfAll, NEW c, c.kept \in Seq(Part), c.tokens \in Nat, NEW n \in 1 .. 10,
         SizesUpTo(text, n - 1, c),
         NEW chars \in Nat, chars <= text[Sections[n]], Tokens(chars) <= Tokens(text[Sections[n]]),
         chars + 2 <= 4 * Tokens(chars) + 2,
         NEW cut \in BOOLEAN, NEW d, Picks(c, d, Sections[n], chars, cut)
  PROVE  SizesUpTo(text, n, d)
<1> DEFINE part == [id |-> Sections[n], chars |-> chars, cut |-> cut]
           t == text[Sections[n]]
           T == OfSections(text, Tokens)
           P == OfSections(text, Parted)
           e == Ended(c.kept)
           m == n - 1
<1>1. part \in Part /\ part.chars = chars
  BY SectionsAre DEF Part
<1>2. d.kept = Append(c.kept, part) /\ d.tokens = c.tokens + Tokens(chars)
  BY DEF Picks
<1>3. Ended(d.kept) = e + (chars + 2)
  <2> HIDE DEF part
  <2> DEFINE parts == c.kept
  <2>1. parts \in Seq(Part)
    OBVIOUS
  <2> HIDE DEF parts
  <2>2. Len(Append(parts, part)) = Len(parts) + 1
        /\ Ends(Append(parts, part))[Len(parts) + 1] = Ends(parts)[Len(parts)] + (part.chars + 2)
    BY <1>1, <2>1, EndsOfMore
  <2>3. Ended(Append(parts, part)) = Ended(parts) + (chars + 2)
    BY <1>1, <2>2 DEF Ended
  <2> QED
    BY <1>2, <2>3 DEF parts
<1>4. t \in Nat /\ n \in 0 .. 10 /\ m \in 0 .. 10 /\ m \in Nat /\ n = m + 1
  <2>1. n \in 0 .. 10 /\ m \in 0 .. 10 /\ m \in Nat /\ n = m + 1
    OBVIOUS
  <2>2. t \in Nat
    BY SectionsAre DEF TextsOfAll
  <2> QED
    BY <2>1, <2>2
<1>5. T[n] = T[m] + Tokens(t) /\ T[m] \in Nat /\ T[n] \in Nat
  BY <1>4, NeededIs
<1>6. P[n] = P[m] + (t + 2) /\ P[m] \in Nat
  BY <1>4, PartedIs DEF Parted
<1>7. e \in Nat /\ Tokens(chars) \in Nat /\ Tokens(t) \in Nat
  <2>1. e \in Nat
    BY EndedIs
  <2>2. Tokens(chars) \in Nat /\ Tokens(t) \in Nat
    BY <1>4, TokensAre
  <2> QED
    BY <2>1, <2>2
<1>8. c.tokens <= T[m] /\ e <= 4 * c.tokens + 2 * m /\ e <= P[m]
  BY DEF SizesUpTo
<1> DEFINE k == Tokens(chars)
           u == Tokens(t)
           q == c.tokens
           x == T[m]
           y == P[m]
<1>9. /\ x \in Nat /\ y \in Nat /\ k \in Nat /\ u \in Nat /\ q \in Nat /\ e \in Nat /\ t \in Nat /\ m \in Nat
      /\ chars <= t /\ k <= u /\ chars + 2 <= 4 * k + 2 /\ q <= x /\ e <= 4 * q + 2 * m /\ e <= y /\ n = m + 1
  <2>1. chars <= t /\ k <= u /\ chars + 2 <= 4 * k + 2
    OBVIOUS
  <2>2. x \in Nat /\ y \in Nat
    BY <1>5, <1>6
  <2>3. q <= x /\ e <= 4 * q + 2 * m /\ e <= y
    BY <1>8
  <2>4. k \in Nat /\ u \in Nat /\ q \in Nat
    BY <1>7
  <2> HIDE DEF k, u, q, x, y, e, t, m
  <2> QED
    BY <1>4, <1>7, <2>1, <2>2, <2>3, <2>4
<1> HIDE DEF k, u, q, x, y, e, t, m
<1>10. q + k <= x + u /\ e + (chars + 2) <= 4 * (q + k) + 2 * n /\ e + (chars + 2) <= y + (t + 2)
  BY <1>9
<1>11. d.tokens = q + k /\ T[n] = x + u /\ P[n] = y + (t + 2)
  BY <1>2, <1>5, <1>6 DEF q, k, x, u, y
<1>12. d.tokens <= T[n] /\ Ended(d.kept) <= 4 * d.tokens + 2 * n /\ Ended(d.kept) <= P[n]
  BY <1>3, <1>10, <1>11
<1> QED
  BY <1>12 DEF SizesUpTo

LEMMA SizesOfSame ==
  ASSUME NEW text \in TextsOfAll, NEW c, c.kept \in Seq(Part), c.tokens \in Nat, NEW n \in 1 .. 10,
         SizesUpTo(text, n - 1, c), NEW d, d.kept = c.kept, d.tokens = c.tokens
  PROVE  SizesUpTo(text, n, d)
<1> DEFINE t == text[Sections[n]]
           T == OfSections(text, Tokens)
           P == OfSections(text, Parted)
           m == n - 1
           e == Ended(c.kept)
           u == Tokens(t)
           q == c.tokens
           x == T[m]
           y == P[m]
<1>1. t \in Nat /\ m \in 0 .. 10 /\ m \in Nat /\ n = m + 1
  <2>1. m \in 0 .. 10 /\ m \in Nat /\ n = m + 1
    OBVIOUS
  <2>2. t \in Nat
    BY SectionsAre DEF TextsOfAll
  <2> QED
    BY <2>1, <2>2
<1>2. T[n] = T[m] + Tokens(t) /\ T[m] \in Nat
  BY <1>1, NeededIs
<1>3. P[n] = P[m] + (t + 2) /\ P[m] \in Nat
  BY <1>1, PartedIs DEF Parted
<1>4. q <= x /\ e <= 4 * q + 2 * m /\ e <= y
  BY DEF SizesUpTo
<1>5. /\ x \in Nat /\ y \in Nat /\ u \in Nat /\ q \in Nat /\ e \in Nat /\ t \in Nat /\ m \in Nat
      /\ n = m + 1
  <2>1. e \in Nat
    BY EndedIs
  <2>2. u \in Nat
    BY <1>1, TokensAre
  <2> HIDE DEF e, u, m, t
  <2> QED
    BY <1>1, <1>2, <1>3, <2>1, <2>2
<1>6. T[n] = x + u /\ P[n] = y + (t + 2) /\ d.tokens = q /\ Ended(d.kept) = e
  BY <1>2, <1>3
<1> HIDE DEF u, q, x, y, e, t, m
<1>7. q <= x + u /\ e <= 4 * q + 2 * n /\ e <= y + (t + 2)
  BY <1>4, <1>5
<1> QED
  BY <1>6, <1>7 DEF SizesUpTo

\* What does not fit is more than can be used of all up to it.
LEMMA TooMuchIsNeeded ==
  ASSUME NEW target \in TargetsOfAll, NEW text \in TextsOfAll, NEW c \in ChoicesFor(target), NEW n \in 1 .. 10,
         SizesUpTo(text, n - 1, c), TooMuch(target, c, text[Sections[n]])
  PROVE  /\ Limited(target) /\ Usable(target) \in Nat /\ Spare(target, c) \in Nat
         /\ OfSections(text, Tokens)[n] > Usable(target)
         /\ Spare(target, c) < 24 => OfSections(text, Tokens)[n - 1] > Usable(target) - 24
<1> DEFINE T == OfSections(text, Tokens)
           t == text[Sections[n]]
           m == n - 1
           U == Usable(target)
           q == c.tokens
           x == T[m]
           u == Tokens(t)
<1>1. Limited(target) /\ q + u > U
  BY DEF TooMuch
<1>2. U \in Nat /\ q \in Nat
  BY <1>1, UsableIs DEF ChoicesFor
<1>3. t \in Nat
  BY SectionsAre DEF TextsOfAll
<1>4. u \in Nat
  BY <1>3, TokensAre
<1>5. m \in 0 .. 10
  OBVIOUS
<1>6. x \in Nat /\ T[n] = x + u
  BY <1>5, NeededIs
<1>7. q <= x
  BY DEF SizesUpTo
<1>8. Spare(target, c) = U - q /\ Spare(target, c) \in Nat
  BY <1>1, LeftIs DEF Spare
<1> HIDE DEF t, m, U, q, x, u, T
<1>9. x + u > U /\ (U - q < 24 => x > U - 24)
  BY <1>1, <1>2, <1>4, <1>6, <1>7
<1> QED
  BY <1>1, <1>2, <1>6, <1>8, <1>9 DEF T, U, x, m

\* What was true of the sections before stays so, whatever a round adds.
LEMMA WholeBefore ==
  ASSUME NEW target, NEW text \in TextsOfAll, NEW parts \in Seq(Part), NEW more,
         more = parts \/ \E part \in Part : more = Append(parts, part),
         NEW i \in 1 .. 10, WholeOrTooMuch(target, text, parts, i)
  PROVE  WholeOrTooMuch(target, text, more, i)
<1>1. CASE more = parts
  BY <1>1
<1>2. CASE \E part \in Part : more = Append(parts, part)
  <2>1. HasWhole(text, parts, i) => HasWhole(text, more, i)
    BY <1>2, WholeIsKept
  <2> QED
    BY <2>1 DEF WholeOrTooMuch
<1> QED
  BY <1>1, <1>2

LEMMA ChosenStep ==
  ASSUME NEW target \in TargetsOfAll, NEW text \in TextsOfAll, NEW c \in ChoicesFor(target), NEW n \in 1 .. 10,
         ChosenUpTo(target, text, n - 1, c), NEW d, d = Weigh(target, c, Sections[n], text[Sections[n]])
  PROVE  ChosenUpTo(target, text, n, d)
<1> DEFINE t == text[Sections[n]]
           s == Sections[n]
           m == n - 1
           cut == 4 * Spare(target, c) - 2
           T == OfSections(text, Tokens)
           U == Usable(target)
<1>1. s \in Headings /\ t \in Nat
  BY SectionsAre DEF TextsOfAll
<1>2. c.kept \in Seq(Part) /\ c.tokens \in Nat /\ c.dropped \in SUBSET Headings
  BY DEF ChoicesFor
<1>3. SizesUpTo(text, m, c)
  BY DEF ChosenUpTo
<1>4. \A i \in 1 .. m : WholeOrTooMuch(target, text, c.kept, i) /\ MissesForCause(target, text, c.dropped, i)
  BY DEF ChosenUpTo
<1>5. c.dropped \subseteq {Sections[j] : j \in 1 .. m}
  BY DEF ChosenUpTo
<1>6. /\ \A i \in 1 .. n : i \in 1 .. 10 /\ (i \in 1 .. m \/ i = n)
      /\ \A i \in 1 .. m : i \in 1 .. n /\ i # n
      /\ n \in 1 .. n
  OBVIOUS
<1>7. \/ t = 0 /\ d = c
      \/ t > 0 /\ ~TooMuch(target, c, t) /\ Picks(c, d, s, t, FALSE)
      \/ /\ t > 0 /\ TooMuch(target, c, t)
         /\ cut \in Nat /\ cut <= t /\ Tokens(cut) = Spare(target, c)
         /\ Picks(c, d, s, cut, TRUE)
      \/ /\ t > 0 /\ TooMuch(target, c, t)
         /\ s \in Essential => Spare(target, c) < 24
         /\ Drops(c, d, s)
  <2>1. d = Weigh(target, c, s, t)
    OBVIOUS
  <2> HIDE DEF s, t
  <2> QED
    BY <1>1, <2>1, WeighCases
<1>8. ASSUME TooMuch(target, c, t)
      PROVE  /\ Limited(target) /\ U \in Nat /\ Spare(target, c) \in Nat
             /\ T[n] > U /\ (Spare(target, c) < 24 => T[m] > U - 24)
  BY <1>3, <1>8, TooMuchIsNeeded
<1> HIDE DEF t, s, m, cut, T, U
\* The sizes.
<1>9. SizesUpTo(text, n, d)
  <2>1. CASE d.kept = c.kept /\ d.tokens = c.tokens
    BY <1>2, <1>3, <2>1, SizesOfSame DEF m
  <2>2. CASE Picks(c, d, s, t, FALSE)
    <3>1. t <= 4 * Tokens(t) /\ Tokens(t) \in Nat
      BY <1>1, TokensAre
    <3>2. t <= t /\ Tokens(t) <= Tokens(t) /\ t + 2 <= 4 * Tokens(t) + 2
      BY <1>1, <3>1
    <3> QED
      BY <1>1, <1>2, <1>3, <2>2, <3>2, SizesOfMore DEF m, t, s
  <2>3. CASE TooMuch(target, c, t) /\ cut \in Nat /\ cut <= t /\ Tokens(cut) = Spare(target, c)
             /\ Picks(c, d, s, cut, TRUE)
    <3>1. cut <= 4 * Tokens(cut) /\ Tokens(cut) \in Nat
      BY <2>3, TokensAre
    <3>2. cut + 2 <= 4 * Tokens(cut) + 2
      BY <2>3, <3>1
    <3>3. Tokens(cut) <= Tokens(t)
      <4>1. U \in Nat /\ c.tokens + Tokens(t) > U /\ Spare(target, c) = U - c.tokens
        BY <1>8, <2>3 DEF TooMuch, Spare, U
      <4>2. Tokens(t) \in Nat
        BY <1>1, TokensAre
      <4> QED
        BY <1>2, <2>3, <4>1, <4>2
    <3> QED
      BY <1>1, <1>2, <1>3, <2>3, <3>2, <3>3, SizesOfMore DEF m, t, s
  <2> QED
    <3>1. Drops(c, d, s) => d.kept = c.kept /\ d.tokens = c.tokens
      BY DEF Drops
    <3>2. d = c => d.kept = c.kept /\ d.tokens = c.tokens
      OBVIOUS
    <3> QED
      BY <1>7, <2>1, <2>2, <2>3, <3>1, <3>2, Zenon
\* What is missing.
<1>10. d.dropped = c.dropped \/ d.dropped = c.dropped \cup {s}
  BY <1>7 DEF Picks, Drops
<1>11. d.dropped \subseteq {Sections[j] : j \in 1 .. n}
  <2>1. s \in {Sections[j] : j \in 1 .. n}
    BY <1>6 DEF s
  <2>2. {Sections[j] : j \in 1 .. m} \subseteq {Sections[j] : j \in 1 .. n}
    BY <1>6
  <2> QED
    BY <1>5, <1>10, <2>1, <2>2
<1>12. ASSUME NEW i \in 1 .. n PROVE MissesForCause(target, text, d.dropped, i)
  <2> SUFFICES ASSUME Sections[i] \in Essential, Sections[i] \in d.dropped
               PROVE  Limited(target) /\ T[i - 1] > U - 24
    BY DEF MissesForCause, T, U
  <2>1. CASE Sections[i] \in c.dropped
    <3>1. PICK j \in 1 .. m : Sections[i] = Sections[j]
      BY <1>5, <2>1
    <3>2. i = j
      BY <1>6, <3>1, SectionsAre
    <3>3. MissesForCause(target, text, c.dropped, i)
      BY <1>4, <3>1, <3>2
    <3> QED
      BY <2>1, <3>3 DEF MissesForCause, T, U
  <2>2. CASE Sections[i] \notin c.dropped
    <3>1. Sections[i] = s /\ d.dropped = c.dropped \cup {s} /\ d.dropped # c.dropped
      BY <1>10, <2>2
    <3>2. i = n
      BY <1>6, <3>1, SectionsAre DEF s
    <3>3. TooMuch(target, c, t) /\ (s \in Essential => Spare(target, c) < 24)
      BY <1>7, <3>1 DEF Picks
    <3>4. Limited(target) /\ T[m] > U - 24
      BY <1>8, <3>1, <3>3
    <3> QED
      BY <3>2, <3>4 DEF m
  <2> QED
    BY <2>1, <2>2
\* What is kept.
<1>13. d.kept = c.kept \/ \E part \in Part : d.kept = Append(c.kept, part)
  <2>1. [id |-> s, chars |-> t, cut |-> FALSE] \in Part
    BY <1>1 DEF Part
  <2>2. ASSUME cut \in Nat PROVE [id |-> s, chars |-> cut, cut |-> TRUE] \in Part
    BY <1>1, <2>2 DEF Part
  <2> QED
    BY <1>7, <2>1, <2>2 DEF Picks, Drops
<1>14. ASSUME NEW i \in 1 .. n PROVE WholeOrTooMuch(target, text, d.kept, i)
  <2>1. CASE i \in 1 .. m
    <3>1. WholeOrTooMuch(target, text, c.kept, i) /\ i \in 1 .. 10
      BY <1>4, <1>6, <2>1
    <3> DEFINE more == d.kept
               parts == c.kept
    <3>2. parts \in Seq(Part) /\ (more = parts \/ \E part \in Part : more = Append(parts, part))
      BY <1>2, <1>13
    <3> HIDE DEF more, parts
    <3>3. WholeOrTooMuch(target, text, more, i)
      BY <3>1, <3>2, WholeBefore DEF parts
    <3> QED
      BY <3>3 DEF more
  <2>2. CASE i = n /\ TooMuch(target, c, t)
    BY <1>8, <2>2 DEF WholeOrTooMuch, T, U
  <2>3. CASE i = n /\ t = 0
    BY <2>3 DEF WholeOrTooMuch, t
  <2>4. CASE i = n /\ Picks(c, d, s, t, FALSE)
    <3> DEFINE part == [id |-> s, chars |-> t, cut |-> FALSE]
    <3>1. part \in Part /\ part.id = s /\ part.chars = t
      BY <1>1 DEF Part
    <3>2. d.kept = Append(c.kept, part)
      BY <2>4 DEF Picks
    <3>3. Ended(c.kept) <= OfSections(text, Parted)[n - 1]
      BY <1>3 DEF SizesUpTo, m
    <3> HIDE DEF part
    <3>4. HasWhole(text, Append(c.kept, part), n)
      BY <1>2, <3>1, <3>3, WholeIsNew DEF s, t
    <3> QED
      BY <2>4, <3>2, <3>4 DEF WholeOrTooMuch
  <2>5. i \in 1 .. m \/ i = n
    BY <1>6
  <2> QED
    BY <1>7, <2>1, <2>2, <2>3, <2>4, <2>5
<1> QED
  BY <1>9, <1>11, <1>12, <1>14 DEF ChosenUpTo

LEMMA ChosenAlways ==
  ASSUME NEW target \in TargetsOfAll, NEW text \in TextsOfAll
  PROVE  /\ Chosen(target, text) \in ChoicesFor(target)
         /\ ChosenUpTo(target, text, 10, Chosen(target, text))
<1> DEFINE r == Rounds(target, text)
           G == {n \in Nat : n <= 10 => ChosenUpTo(target, text, n, r[n])}
<1>1. /\ r \in [0 .. 10 -> ChoicesFor(target)] /\ r[0] = Nothing
      /\ \A i \in 1 .. 10 : r[i] = Weigh(target, r[i - 1], Sections[i], text[Sections[i]])
  BY RoundsAre
<1> HIDE DEF r
<1>2. 0 \in G
  <2>1. <<>> \in Seq(Part) /\ Len(<<>>) = 0
    BY EmptySeq
  <2>2. Ended(<<>>) = 0
    BY <2>1, EndsAre DEF Ended
  <2>3. OfSections(text, Tokens)[0] = 0 /\ OfSections(text, Parted)[0] = 0
    BY NeededIs, PartedIs
  <2>4. SizesUpTo(text, 0, Nothing)
    BY <2>2, <2>3 DEF SizesUpTo, Nothing
  <2>5. ChosenUpTo(target, text, 0, Nothing)
    BY <2>4 DEF ChosenUpTo, Nothing
  <2> QED
    BY <1>1, <2>5
<1>3. ASSUME NEW n \in Nat, n \in G PROVE n + 1 \in G
  <2> SUFFICES ASSUME n + 1 <= 10 PROVE ChosenUpTo(target, text, n + 1, r[n + 1])
    OBVIOUS
  <2> DEFINE k == n + 1
  <2>1. k \in 1 .. 10 /\ k - 1 = n /\ n \in 0 .. 10
    OBVIOUS
  <2>2. ChosenUpTo(target, text, n, r[n]) /\ r[n] \in ChoicesFor(target)
    BY <1>1, <1>3, <2>1
  <2> HIDE DEF k
  <2>3. r[k] = Weigh(target, r[n], Sections[k], text[Sections[k]])
    BY <1>1, <2>1
  <2>4. ChosenUpTo(target, text, k, r[k])
    BY <2>1, <2>2, <2>3, ChosenStep
  <2> QED
    BY <2>4 DEF k
<1>4. \A n \in Nat : n \in G
  <2> HIDE DEF G
  <2>1. \A n \in Nat : n \in G => n + 1 \in G
    BY <1>3
  <2> QED
    BY <1>2, <2>1, Induction
<1>5. ChosenUpTo(target, text, 10, r[10])
  BY <1>4
<1>6. Chosen(target, text) = r[10]
  BY SectionsAre DEF Chosen, r
<1> QED
  BY <1>1, <1>5, <1>6

-----------------------------------------------------------------------------
(* What is told of a pack.                                                 *)

\* What sections need and what they take, but for what rounding takes off each.
LEMMA NeededOfTaken ==
  ASSUME NEW text \in TextsOfAll
  PROVE  \A n \in 0 .. 10 : 4 * OfSections(text, Tokens)[n] <= OfSections(text, Taken)[n] + n
<1> DEFINE T == OfSections(text, Tokens)
           K == OfSections(text, Taken)
           G == {n \in Nat : n <= 10 => 4 * T[n] <= K[n] + n}
<1>1. T \in [0 .. 10 -> Nat] /\ T[0] = 0 /\ \A i \in 1 .. 10 : T[i] = T[i - 1] + Tokens(text[Sections[i]])
  BY NeededIs
<1>2. K \in [0 .. 10 -> Nat] /\ K[0] = 0 /\ \A i \in 1 .. 10 : K[i] = K[i - 1] + Taken(text[Sections[i]])
  BY TakenIs
<1> HIDE DEF T, K
<1>3. 0 \in G
  BY <1>1, <1>2
<1>4. ASSUME NEW n \in Nat, n \in G PROVE n + 1 \in G
  <2> SUFFICES ASSUME n + 1 <= 10 PROVE 4 * T[n + 1] <= K[n + 1] + (n + 1)
    OBVIOUS
  <2> DEFINE k == n + 1
             t == text[Sections[k]]
             x == T[n]
             y == K[n]
             u == Tokens(t)
             v == Taken(t)
  <2>1. k \in 1 .. 10 /\ k - 1 = n /\ n \in 0 .. 10
    OBVIOUS
  <2>2. x \in Nat /\ y \in Nat
    BY <1>1, <1>2, <2>1
  <2>3. 4 * x <= y + n
    BY <1>4, <2>1
  <2>4. T[k] = x + u /\ K[k] = y + v
    <3> HIDE DEF k
    <3> QED
      BY <1>1, <1>2, <2>1
  <2>5. t \in Nat
    BY <2>1, SectionsAre DEF TextsOfAll
  <2>6. u \in Nat /\ v \in Nat /\ 4 * u <= v + 1
    <3> HIDE DEF t
    <3>1. u \in Nat /\ 4 * u <= t + 3
      BY <2>5, TokensAre
    <3>2. t = 0 => u = 0
      BY DEF Tokens
    <3>3. v = IF t = 0 THEN 0 ELSE t + 2
      BY DEF Taken
    <3> HIDE DEF u, v
    <3> QED
      BY <2>5, <3>1, <3>2, <3>3
  <2> HIDE DEF x, y, u, v, t
  <2>7. 4 * (x + u) <= (y + v) + (n + 1)
    BY <2>2, <2>3, <2>6
  <2> QED
    BY <2>4, <2>7
<1>5. \A n \in Nat : n \in G
  <2> HIDE DEF G
  <2>1. \A n \in Nat : n \in G => n + 1 \in G
    BY <1>4
  <2> QED
    BY <1>3, <2>1, Induction
<1> QED
  BY <1>5 DEF T, K

\* How long a text of parts is, which blank lines join.
LEMMA JoinedIs ==
  ASSUME NEW end \in Nat
  PROVE  Joined(end) \in Nat /\ Joined(end) >= end - 2 /\ (Joined(end) = 0 \/ Joined(end) = end - 2)
<1> DEFINE k == end - 2
           m == Max({0, k})
<1>1. k \in Int
  OBVIOUS
<1>2. m \in {0, k} /\ m >= 0 /\ m >= k
  <2> HIDE DEF k
  <2> QED
    BY <1>1, LargerOfTwo
<1> HIDE DEF m
<1>3. m \in Nat /\ m >= end - 2 /\ (m = 0 \/ m = end - 2)
  BY <1>2
<1> QED
  BY <1>3 DEF m, Joined

\* What is sent of the text that is chosen.
LEMMA PackChars ==
  ASSUME NEW target \in TargetsOfAll, NEW text \in TextsOfAll
  PROVE  LET parts == Chosen(target, text).kept
             chars == Pack(target, text).chars
         IN  /\ chars \in Nat /\ Ended(parts) \in Nat
             /\ chars = 8000 \/ chars >= Ended(parts) - 2
             /\ chars <= Ended(parts)
             /\ Ended(parts) > 1 => chars <= Ended(parts) - 2
             /\ \A n \in Nat : n + 2 <= Ended(parts) /\ n <= 8000 => n <= chars
<1> DEFINE parts == Chosen(target, text).kept
           chars == Pack(target, text).chars
           e == Ended(parts)
           j == Joined(e)
<1>1. parts \in Seq(Part)
  BY ChosenAlways DEF ChoicesFor
<1>2. e \in Nat
  BY <1>1, EndedIs
<1>3. j \in Nat /\ j >= e - 2 /\ (j = 0 \/ j = e - 2)
  <2> HIDE DEF e
  <2> QED
    BY <1>2, JoinedIs
<1>4. chars = Min({8000, j})
  BY DEF Pack, Length, MaxChars, Ended
<1> HIDE DEF j, e, chars
<1>5. chars \in {8000, j} /\ chars <= 8000 /\ chars <= j
  <2>1. 8000 \in Int /\ j \in Int
    BY <1>3
  <2>2. Min({8000, j}) \in {8000, j} /\ Min({8000, j}) <= 8000 /\ Min({8000, j}) <= j
    BY <2>1, SmallerOfTwo
  <2> QED
    BY <1>4, <2>2
<1>6. /\ chars \in Nat
      /\ chars = 8000 \/ chars >= e - 2
      /\ chars <= e
      /\ e > 1 => chars <= e - 2
      /\ \A n \in Nat : n + 2 <= e /\ n <= 8000 => n <= chars
  BY <1>2, <1>3, <1>5
<1> QED
  BY <1>2, <1>6 DEF e, chars

\* The text of a pack is in the share of the window that is usable.
LEMMA PackFits ==
  ASSUME NEW target \in TargetsOfAll, NEW text \in TextsOfAll, Limited(target)
  PROVE  Tokens(Pack(target, text).chars) <= Usable(target) + 5
<1> DEFINE c == Chosen(target, text)
           parts == c.kept
           chars == Pack(target, text).chars
           e == Ended(parts)
           U == Usable(target)
           q == c.tokens
<1>1. c \in ChoicesFor(target) /\ SizesUpTo(text, 10, c)
  BY ChosenAlways DEF ChosenUpTo
<1>2. U \in Nat /\ q \in Nat /\ q <= U
  BY <1>1, UsableIs DEF ChoicesFor
<1>3. e <= 4 * q + 2 * 10
  BY <1>1 DEF SizesUpTo
<1>4. chars \in Nat /\ e \in Nat /\ chars <= e /\ (e > 1 => chars <= e - 2)
  BY PackChars
<1> HIDE DEF chars, e, q, U
<1>5. chars <= 4 * U + 18
  BY <1>2, <1>3, <1>4
<1>6. Tokens(chars) <= U + 5
  BY <1>2, <1>4, <1>5 DEF Tokens
<1> QED
  BY <1>6 DEF chars, U

LEMMA PartedBefore ==
  ASSUME NEW text \in TextsOfAll, NEW i \in 1 .. 10
  PROVE  OfSections(text, Parted)[i - 1] \in Nat
<1> DEFINE starts == OfSections(text, Parted)
<1>1. i - 1 \in 0 .. 10
  OBVIOUS
<1>2. starts \in [0 .. 10 -> Nat]
  BY PartedIs
<1> HIDE DEF starts
<1>3. starts[i - 1] \in Nat
  BY <1>1, <1>2
<1> QED
  BY <1>3 DEF starts

IsReached(target, text, i) ==
    \/ Pack(target, text).chars # 8000
    \/ BeginsAtMost(text, i) + text[Sections[i]] <= 8000

\* A section that is kept whole is in the text that is sent, unless that is cut
\* off before its end.
LEMMA PackHas ==
  ASSUME NEW target \in TargetsOfAll, NEW text \in TextsOfAll, NEW i \in 1 .. 10,
         HasWhole(text, Chosen(target, text).kept, i),
         IsReached(target, text, i)
  PROVE  Whole(Pack(target, text), Sections[i], text[Sections[i]])
<1> DEFINE parts == Chosen(target, text).kept
           chars == Pack(target, text).chars
           t == text[Sections[i]]
           e == Ended(parts)
           p == OfSections(text, Parted)[i - 1]
<1>1. PICK k \in 1 .. Len(parts) :
        /\ parts[k].id = Sections[i] /\ parts[k].chars = t
        /\ BeginOf(parts, k) <= p
        /\ BeginOf(parts, k) + t + 2 <= e
  BY DEF HasWhole
<1> DEFINE b == BeginOf(parts, k)
<1>2. parts \in Seq(Part)
  BY ChosenAlways DEF ChoicesFor
<1> HIDE DEF parts
<1>3. Len(parts) \in Nat /\ Ends(parts) \in [0 .. Len(parts) -> Nat] /\ DOMAIN parts = 1 .. Len(parts)
  BY <1>2, EndsAre, LenProperties
<1>4. b \in Nat
  <2>1. k - 1 \in 0 .. Len(parts)
    BY <1>3
  <2> QED
    BY <1>3, <2>1 DEF BeginOf
<1>5. t \in Nat
  BY TextIsCounted
<1>6. p \in Nat
  BY PartedBefore
<1>7. /\ chars \in Nat /\ e \in Nat
      /\ chars = 8000 \/ chars >= e - 2
      /\ \A n \in Nat : n + 2 <= e /\ n <= 8000 => n <= chars
  BY PackChars DEF parts
<1>8. chars # 8000 \/ p + t <= 8000
  BY DEF IsReached, BeginsAtMost
<1>9. b <= p /\ b + t + 2 <= e
  BY <1>1
<1> HIDE DEF chars, t, e, p, b
<1>10. b + t <= chars
  <2>1. CASE chars # 8000
    BY <1>4, <1>5, <1>7, <1>9, <2>1
  <2>2. CASE p + t <= 8000
    <3>1. b + t \in Nat /\ (b + t) + 2 <= e /\ b + t <= 8000
      BY <1>4, <1>5, <1>6, <1>7, <1>9, <2>2
    <3> QED
      BY <1>7, <3>1
  <2> QED
    BY <1>8, <2>1, <2>2
<1>11. Pack(target, text).kept = parts
  BY DEF Pack, parts
<1> QED
  BY <1>1, <1>3, <1>10, <1>11 DEF Whole, b, chars, t

\* What is missing is told, but for what rounding takes off.
LEMMA PackTold ==
  ASSUME NEW target \in TargetsOfAll, NEW text \in TextsOfAll, NEW i \in 1 .. 10,
         Limited(target), OfSections(text, Tokens)[i] > Usable(target),
         ~Pack(target, text).recommended
  PROVE  OfSections(text, Tokens)[10] - Usable(target) \in 1 .. 5
<1> DEFINE T == OfSections(text, Tokens)
           K == OfSections(text, Taken)
           U == Usable(target)
           e == K[10]
           j == Joined(e)
           x == T[10]
<1>1. U \in Nat
  BY UsableIs
<1>2. T[i] <= T[10] /\ T[i] \in Nat /\ x \in Nat
  <2> DEFINE numbers == [h \in DOMAIN Sections |-> Tokens(text[Sections[h]])]
  <2>1. \A h \in 1 .. 10 : text[Sections[h]] \in Nat
    BY SectionsAre DEF TextsOfAll
  <2>2. \A h \in 1 .. 10 : Tokens(text[Sections[h]]) \in Nat
    BY <2>1, TokensAre
  <2>3. numbers \in [1 .. 10 -> Nat]
    BY <2>2, SectionsAre
  <2>4. T = Sums(numbers)
    BY DEF OfSections
  <2> HIDE DEF numbers
  <2>5. 10 \in Nat /\ Len(numbers) = 10 /\ i \in 0 .. 10 /\ 10 \in i .. 10 /\ 10 \in 0 .. 10
    BY <2>3
  <2>6. Sums(numbers)[i] <= Sums(numbers)[10]
    BY <2>3, <2>5, SumsGrow
  <2>7. T \in [0 .. 10 -> Nat]
    BY NeededIs
  <2> HIDE DEF T
  <2> QED
    BY <2>4, <2>5, <2>6, <2>7
<1>3. 4 * x <= e + 10
  BY NeededOfTaken
<1>4. e \in Nat
  <2>1. K \in [0 .. 10 -> Nat]
    BY TakenIs
  <2> HIDE DEF K
  <2> QED
    BY <2>1
<1>5. j \in Nat /\ j >= e - 2
  <2> HIDE DEF e
  <2> QED
    BY <1>4, JoinedIs
<1>6. ~(Tokens(j) > U)
  BY SectionsAre DEF Pack, FullLength
<1>7. T[i] > U
  OBVIOUS
<1> HIDE DEF T, K, U, e, j, x
<1>8. Tokens(j) \in Nat /\ j <= 4 * Tokens(j)
  BY <1>5, TokensAre
<1> DEFINE u == Tokens(j)
<1>9. u \in Nat /\ j <= 4 * u /\ ~(u > U)
  BY <1>6, <1>8
<1> HIDE DEF u
<1>10. 4 * x <= 4 * U + 12
  BY <1>1, <1>2, <1>3, <1>4, <1>5, <1>9
<1>11. x > U
  BY <1>1, <1>2, <1>7 DEF x
<1>12. x - U \in 1 .. 5
  BY <1>1, <1>2, <1>10, <1>11
<1> QED
  BY <1>12 DEF x, T, U

\* What is sent is a pack of the model and the text, if a pack is sent.
PackInv == \A s \in turnSent :
    s.target \in TargetsOfAll /\ s.text \in TextsOfAll /\ s.pack \subseteq {Pack(s.target, s.text)}

LEMMA PackInvHolds == PackInv => PackIsTrue
<1> SUFFICES ASSUME PackInv, NEW s \in turnSent, NEW pack \in s.pack
             PROVE  LET room == Max({Least, Min(LimitsOf(s.target)) - s.target.schema})
                        limited == LimitsOf(s.target) # {} IN
        /\ limited => Tokens(pack.chars) <= room + 5
        /\ \A i \in DOMAIN Sections :
              LET section == Sections[i]
                  chars == s.text[section] IN
              /\ /\ chars > 0 /\ limited => NeededUpTo(s.text, i) <= room
                 /\ BeginsAtMost(s.text, i) + chars <= MaxChars
                 => chars = 0 \/ Whole(pack, section, chars)
              /\ section \in Essential /\ section \in pack.dropped
                    => limited /\ NeededUpTo(s.text, i - 1) > room - Shortest
              /\ \/ chars = 0 \/ Whole(pack, section, chars) \/ pack.chars = MaxChars
                 \/ pack.recommended
                 \/ limited /\ NeededUpTo(s.text, Len(Sections)) - room \in 1 .. 5
  BY DEF PackIsTrue
<1> DEFINE target == s.target
           text == s.text
           c == Chosen(target, text)
           U == Usable(target)
<1>1. target \in TargetsOfAll /\ text \in TextsOfAll /\ pack = Pack(target, text)
  BY DEF PackInv
<1>2. U = Max({Least, Min(LimitsOf(target)) - target.schema}) /\ (Limited(target) <=> LimitsOf(target) # {})
  BY DEF Usable, Limited
<1> HIDE DEF target, text, U
<1>3. ChosenUpTo(target, text, 10, c)
  BY <1>1, ChosenAlways
<1> HIDE DEF c
<1>4. Limited(target) => Tokens(pack.chars) <= U + 5
  BY <1>1, PackFits DEF U
<1>5. ASSUME NEW i \in 1 .. 10
      PROVE  /\ (text[Sections[i]] > 0 /\ Limited(target) => NeededUpTo(text, i) <= U)
                /\ BeginsAtMost(text, i) + text[Sections[i]] <= MaxChars
                => text[Sections[i]] = 0 \/ Whole(pack, Sections[i], text[Sections[i]])
             /\ Sections[i] \in Essential /\ Sections[i] \in pack.dropped
                    => Limited(target) /\ NeededUpTo(text, i - 1) > U - Shortest
             /\ \/ text[Sections[i]] = 0 \/ Whole(pack, Sections[i], text[Sections[i]]) \/ pack.chars = MaxChars
                \/ pack.recommended
                \/ Limited(target) /\ NeededUpTo(text, 10) - U \in 1 .. 5
  <2> DEFINE t == text[Sections[i]]
  <2>1. t = 0 \/ t > 0
    BY <1>1, SectionsAre DEF TextsOfAll
  <2>2. \/ t = 0 \/ HasWhole(text, c.kept, i)
        \/ Limited(target) /\ OfSections(text, Tokens)[i] > U
    BY <1>3, <2>1 DEF ChosenUpTo, WholeOrTooMuch, U
  <2>3. HasWhole(text, c.kept, i) /\ (pack.chars # 8000 \/ BeginsAtMost(text, i) + t <= 8000)
        => Whole(pack, Sections[i], t)
    BY <1>1, PackHas DEF c, IsReached
  <2>4. Limited(target) /\ OfSections(text, Tokens)[i] > U /\ ~pack.recommended
        => OfSections(text, Tokens)[10] - U \in 1 .. 5
    BY <1>1, PackTold DEF U
  <2>5. Limited(target) /\ OfSections(text, Tokens)[i] > U => ~(OfSections(text, Tokens)[i] <= U)
    <3> DEFINE x == OfSections(text, Tokens)[i]
    <3>1. x \in Nat
      <4>1. i \in 0 .. 10
        OBVIOUS
      <4> QED
        BY <1>1, <4>1, NeededIs
    <3> HIDE DEF x
    <3>2. ASSUME Limited(target) PROVE x > U => ~(x <= U)
      <4>1. U \in Nat
        BY <1>1, <3>2, UsableIs DEF U
      <4> QED
        BY <3>1, <4>1
    <3> QED
      BY <3>2 DEF x
  <2>6. pack.dropped = c.dropped
    BY <1>1 DEF Pack, c
  <2>7. Sections[i] \in Essential /\ Sections[i] \in c.dropped
        => Limited(target) /\ OfSections(text, Tokens)[i - 1] > U - 24
    BY <1>3 DEF ChosenUpTo, MissesForCause, U
  <2>8. MaxChars = 8000 /\ Shortest = 24
    BY DEF MaxChars, Shortest
  <2>9. \A n : NeededUpTo(text, n) = OfSections(text, Tokens)[n]
    BY DEF NeededUpTo
  <2> QED
    BY <2>1, <2>2, <2>3, <2>4, <2>5, <2>6, <2>7, <2>8, <2>9
<1>6. DOMAIN Sections = 1 .. 10 /\ Len(Sections) = 10
  BY SectionsAre
<1> QED
  BY <1>2, <1>4, <1>5, <1>6 DEF target, text

-----------------------------------------------------------------------------
(* What a turn is sent.                                                    *)

SentInv == \A s \in turnSent :
    /\ s.name \in DOMAIN Modes /\ s.prompt \in BOOLEAN
    /\ s.inputs = Inputs(Modes[s.name], s.prompt, s.pack)

LEMMA ModeNames ==
    ASSUME NEW name \in DOMAIN Modes
    PROVE  Modes[name] = "default" => name \in {"default", "full", "handoff"}
BY DEF Modes

\* The parts of a text, if there is a note, a prompt or a pack.
LEMMA PartsOf == \A mode, pack, inputs : \A prompt \in BOOLEAN :
    inputs = Inputs(mode, prompt, pack) =>
        /\ prompt => \E i \in DOMAIN inputs :
              inputs[i] = "prompt" /\ \A j \in 1 .. i - 1 : inputs[j] = "mode_note"
        /\ "pack" \in {inputs[i] : i \in DOMAIN inputs} => mode = "default" /\ pack # {}
<1> SUFFICES ASSUME NEW mode, NEW pack, NEW inputs, NEW prompt \in BOOLEAN,
                    inputs = Inputs(mode, prompt, pack)
             PROVE  /\ prompt => \E i \in DOMAIN inputs :
                          inputs[i] = "prompt" /\ \A j \in 1 .. i - 1 : inputs[j] = "mode_note"
                    /\ "pack" \in {inputs[i] : i \in DOMAIN inputs} => mode = "default" /\ pack # {}
  OBVIOUS
<1> DEFINE S == {"mode_note", "prompt"}
           note == IF mode = "minimal_visual" THEN <<"mode_note">> ELSE <<>>
           text == IF prompt THEN <<"prompt">> ELSE <<>>
           more == IF mode = "default" /\ pack # {} THEN <<"pack">> ELSE <<>>
           s == (note \o text) \o more
<1>1. inputs = s
  BY DEF Inputs
<1>2. /\ note \in Seq(S) /\ text \in Seq(S) /\ more \in Seq(S \cup {"pack"})
      /\ note \in Seq(S \cup {"pack"}) /\ text \in Seq(S \cup {"pack"})
  <2>1. <<>> \in Seq(S) /\ <<>> \in Seq(S \cup {"pack"})
    OBVIOUS
  <2>2. <<"mode_note">> \in Seq(S) /\ <<"mode_note">> \in Seq(S \cup {"pack"})
    OBVIOUS
  <2>3. <<"prompt">> \in Seq(S) /\ <<"prompt">> \in Seq(S \cup {"pack"})
    OBVIOUS
  <2>4. <<"pack">> \in Seq(S \cup {"pack"})
    OBVIOUS
  <2> HIDE DEF S
  <2> QED
    BY <2>1, <2>2, <2>3, <2>4, Zenon
<1>3. \A j \in 1 .. Len(note) : note[j] = "mode_note"
  OBVIOUS
<1>4. prompt => Len(text) = 1 /\ text[1] = "prompt"
  OBVIOUS
<1>5. ~(mode = "default" /\ pack # {}) => more = <<>>
  OBVIOUS
<1> HIDE DEF note, text, more
<1>6. /\ note \o text \in Seq(S) /\ Len(note \o text) = Len(note) + Len(text)
      /\ \A i \in 1 .. Len(note) + Len(text) :
             (note \o text)[i] = IF i <= Len(note) THEN note[i] ELSE text[i - Len(note)]
  BY <1>2, ConcatProperties
<1>7. note \o text \in Seq(S \cup {"pack"})
  BY <1>2, ConcatProperties
<1>8. /\ s \in Seq(S \cup {"pack"}) /\ Len(s) = Len(note \o text) + Len(more)
      /\ \A i \in 1 .. Len(note \o text) + Len(more) :
             s[i] = IF i <= Len(note \o text) THEN (note \o text)[i] ELSE more[i - Len(note \o text)]
  BY <1>2, <1>7, ConcatProperties
<1>9. ASSUME prompt
      PROVE  \E i \in DOMAIN s : s[i] = "prompt" /\ \A j \in 1 .. i - 1 : s[j] = "mode_note"
  <2> DEFINE head == note \o text
  <2>0. Len(text) = 1 /\ text[1] = "prompt"
    BY <1>4, <1>9
  <2>1. Len(note) \in Nat /\ Len(text) = 1 /\ Len(more) \in Nat /\ Len(head) = Len(note) + 1
    <3>1. Len(note) \in Nat
      BY <1>2
    <3>2. Len(more) \in Nat
      BY <1>2
    <3>3. Len(head) = Len(note) + Len(text)
      BY <1>6
    <3> QED
      BY <2>0, <3>1, <3>2, <3>3
  <2>2. head[Len(note) + 1] = "prompt"
    BY <2>0, <1>6, <2>1
  <2>3. \A j \in 1 .. Len(note) : head[j] = "mode_note"
    BY <1>3, <1>6, <2>1
  <2>4. Len(s) = Len(head) + Len(more) /\ \A i \in 1 .. Len(head) : s[i] = head[i]
    BY <1>8, <2>1
  <2>5. DOMAIN s = 1 .. Len(s)
    BY <1>8
  <2> HIDE DEF head, s
  <2>6. Len(note) + 1 \in DOMAIN s /\ s[Len(note) + 1] = "prompt"
    BY <2>1, <2>2, <2>4, <2>5
  <2>7. \A j \in 1 .. (Len(note) + 1) - 1 : s[j] = "mode_note"
    BY <2>1, <2>3, <2>4
  <2> QED
    BY <2>6, <2>7
<1>10. ASSUME more = <<>> PROVE "pack" \notin {s[i] : i \in DOMAIN s}
  <2>1. s = note \o text
    BY <1>6, <1>10, ConcatEmptySeq
  <2>2. s \in Seq(S)
    BY <1>6, <2>1
  <2> HIDE DEF s
  <2> QED
    BY <2>2
<1> HIDE DEF s
<1> QED
  BY <1>1, <1>5, <1>9, <1>10

LEMMA SentNext == SentInv /\ [Next]_vars => SentInv'
<1> SUFFICES ASSUME SentInv, [Next]_vars PROVE SentInv'
  OBVIOUS
<1>1. CASE UNCHANGED turnSent
  BY <1>1 DEF SentInv
<1>2. CASE SendTurn
  BY <1>2 DEF SendTurn, SentInv
<1> QED
  BY <1>1, <1>2 DEF Next, Send, vars

\* The prompt of a turn is sent whole and before the pack, and a pack goes only
\* with a mode that has one.
THEOREM PromptFirst == Spec => []PromptComesFirst
<1>1. Init => SentInv
  BY DEF Init, PackInit, SentInv
<1>2. SentInv => PromptComesFirst
  <2> SUFFICES ASSUME SentInv, NEW s \in turnSent
               PROVE  /\ s.prompt => \E i \in DOMAIN s.inputs :
                            s.inputs[i] = "prompt" /\ \A j \in 1 .. i - 1 : s.inputs[j] = "mode_note"
                      /\ "pack" \in {s.inputs[i] : i \in DOMAIN s.inputs} =>
                            s.name \in {"default", "full", "handoff"} /\ s.pack # {}
    BY DEF PromptComesFirst
  <2>1. s.name \in DOMAIN Modes /\ s.prompt \in BOOLEAN /\ s.inputs = Inputs(Modes[s.name], s.prompt, s.pack)
    BY DEF SentInv
  <2> DEFINE mode == Modes[s.name]
  <2>2. s.inputs = Inputs(mode, s.prompt, s.pack) /\ s.prompt \in BOOLEAN
    BY <2>1
  <2>3. mode = "default" => s.name \in {"default", "full", "handoff"}
    BY <2>1, ModeNames
  <2> HIDE DEF mode
  <2>4. /\ s.prompt => \E i \in DOMAIN s.inputs : s.inputs[i] = "prompt" /\ \A j \in 1 .. i - 1 : s.inputs[j] = "mode_note"
        /\ "pack" \in {s.inputs[i] : i \in DOMAIN s.inputs} => mode = "default" /\ s.pack # {}
    BY <2>2, PartsOf
  <2> QED
    BY <2>2, <2>3, <2>4
<1> QED
  BY <1>1, <1>2, SentNext, PTL DEF Spec

LEMMA PackStep == PackInv /\ [Next]_vars => PackInv'
<1> SUFFICES ASSUME PackInv, [Next]_vars PROVE PackInv'
  OBVIOUS
<1>1. CASE UNCHANGED turnSent
  BY <1>1 DEF PackInv
<1>2. CASE SendTurn
  <2>1. PICK target \in Targets, text \in Texts, refused \in BOOLEAN :
          \A s \in turnSent' : s.target = target /\ s.text = text
                               /\ s.pack = Delivered(refused, Pack(target, text))
    BY <1>2 DEF SendTurn
  <2>2. target \in TargetsOfAll /\ text \in TextsOfAll
    BY PackAssumption DEF TargetsOfAll, TextsOfAll
  <2>3. Delivered(refused, Pack(target, text)) \subseteq {Pack(target, text)}
    BY DEF Delivered
  <2> QED
    BY <2>1, <2>2, <2>3 DEF PackInv
<1> QED
  BY <1>1, <1>2 DEF Next, Send, vars

\* The text of a pack fits in what is usable of the window, but for blank lines;
\* all sections up to one are in it whole if they fit; an essential one is missing
\* only for want of room; and what is missing is told.
THEOREM PackTrue == Spec => []PackIsTrue
<1>1. Init => PackInv
  BY DEF Init, PackInit, PackInv
<1> QED
  BY <1>1, PackStep, PackInvHolds, PTL DEF Spec

\* What is shown of the turns of a task, and what a turn is sent, is true.
THEOREM ConversationTrue == Spec => []ConversationIsTrue
<1>1. TurnsAreShownOnce /\ PackIsTrue /\ PromptComesFirst => ConversationIsTrue
  BY DEF ConversationIsTrue
<1> QED
  BY <1>1, TurnsShownOnce, PackTrue, PromptFirst, PTL

-----------------------------------------------------------------------------
(* The registry, and what requests hold of it.                             *)

HoldSteps == {"built", "normalise", "write", "copy", "place", "enter"}

IsEntry(e) ==
    /\ {"quality", "state", "refs", "used"} \subseteq DOMAIN e
    /\ e.quality \in Qualities /\ e.state \in States /\ e.refs \subseteq Refs

IsRegistry(reg, n) ==
    /\ \A id \in DOMAIN reg : IsEntry(reg[id])
    /\ \A i \in 1 .. MaxImages : Image(i) \in DOMAIN reg => i \in 1 .. n

IsGame(g) ==
    /\ g.slots \in [Slots -> Refs \cup {None}]
    /\ \A id \in DOMAIN g.promoted :
          g.promoted[id] \in Refs /\ \E i \in 1 .. MaxImages : id = Image(i)

\* Steps at which a worker has read the registry, or the game.
HasRegistry(w) == In(w, {"normalise", "write", "copy", "place", "enter"})
HasGame(w) == In(w, {"built", "place"})
Changing(w) == In(w, {"write", "copy", "place", "enter"})

HeldShape ==
    /\ held = [w \in Workers |-> held[w]]
    /\ \A w \in Workers : {"list", "game", "registry"} \subseteq DOMAIN held[w]

HolderTypes(w) ==
    /\ HasRegistry(w) => IsRegistry(held[w].registry, Len(images))
    /\ HasGame(w) => IsGame(held[w].game)
    /\ At(w, "built") => Elements(held[w].list) \subseteq 1 .. Len(images)
    /\ Changing(w) => Image(task[w].id) \in DOMAIN held[w].registry

AssetTypes ==
    /\ registry # None => IsRegistry(registry, Len(images))
    /\ IsGame(game)
    /\ DOMAIN sprites \subseteq Refs
    /\ HeldShape
    /\ \A w \in Workers : HolderTypes(w)

HasFile(r) == r \in DOMAIN sprites \/ (r[2] = "jpg" /\ <<r[1], "png">> \in DOMAIN sprites)

HolderFiles(w) ==
    /\ At(w, "place") => \A r \in Shown(held[w].game) : HasFile(r)
    /\ In(w, {"place", "enter"}) => TargetFile(w) \in DOMAIN sprites

\* Every sprite a game shows, or is to show, has its file.
Files ==
    /\ \A r \in Shown(game) : HasFile(r)
    /\ \A w \in Workers : HolderFiles(w)

\* What is held is what is there, unless a write came between.
HolderFresh(w) ==
    /\ At(w, "built") /\ w \notin disturbed => held[w].game = game
    /\ ~clashed /\ HasRegistry(w) => held[w].registry = registry
    /\ ~clashed /\ HasGame(w) => held[w].game = game

Fresh == \A w \in Workers : HolderFresh(w)

\* What a promotion has done to the game and has yet to enter.
Pending(r) == \E w \in Workers : In(w, {"place", "enter"}) /\ r = TargetRef(w)
Promoting(id, r) == \E w \in Workers : At(w, "enter") /\ id = Image(task[w].id) /\ r = TargetRef(w)

Entered(reg) == \A id \in DOMAIN reg \cap DOMAIN game.promoted :
    game.promoted[id] \in reg[id].refs \/ Promoting(id, game.promoted[id])
Belongs(reg, r) == \E id \in DOMAIN reg : r \in reg[id].refs \/ id = Sprite(r[1])
AllBelong(reg) == \A r \in Shown(game) \cap DOMAIN sprites : Belongs(reg, r) \/ Pending(r)
Marked(reg) == \A i \in DOMAIN marks :
    Image(i) \in DOMAIN reg /\ reg[Image(i)].quality = marks[i]
Tells(reg) == Entered(reg) /\ AllBelong(reg) /\ Marked(reg)

\* A registry somebody has read is one, or there is one.
Registered == registry # None \/ \E w \in Workers : HasRegistry(w)
Follow == ~clashed /\ Registered => Tells(registry)

RegistryInv == AssetTypes /\ Files /\ Fresh /\ Follow

-----------------------------------------------------------------------------
\* More images may be made.
LEMMA MoreImages ==
    ASSUME NEW reg, NEW n \in Nat, NEW m \in Nat, m >= n, IsRegistry(reg, n)
    PROVE  IsRegistry(reg, m)
BY DEF IsRegistry

LEMMA EntryIs ==
    ASSUME NEW g, IsGame(g), NEW i \in 1 .. MaxImages
    PROVE  IsEntry(EntryOf(g, i)) /\ RefOf(g, i) \subseteq EntryOf(g, i).refs
<1>1. RefOf(g, i) \subseteq Refs
  BY DEF RefOf, IsGame
<1>2. Copies(g, i) \subseteq Refs
  BY DEF Copies, Shown, IsGame
<1> QED
  BY <1>1, <1>2 DEF EntryOf, IsEntry, Qualities, States

LEMMA SpriteEntryIs ==
    ASSUME NEW r \in Refs
    PROVE  IsEntry(SpriteEntry(r))
BY DEF SpriteEntry, IsEntry, Qualities, States

\* The entries of a registry that is built.
LEMMA BuiltHas ==
    ASSUME NEW g, NEW list, NEW reg, reg = Built(g, list)
    PROVE  /\ \A i \in list : Image(i) \in DOMAIN reg
           /\ \A r \in Untracked(g, list) : Sprite(r[1]) \in DOMAIN reg
           /\ \A id \in DOMAIN reg :
                 \/ \E i \in list : id = Image(i) /\ reg[id] = EntryOf(g, i)
                 \/ \E r \in Untracked(g, list) :
                       /\ id = Sprite(r[1])
                       /\ reg[id] = SpriteEntry(FirstRef(Untracked(g, list), r[1]))
<1> DEFINE untracked == Untracked(g, list)
           names == {r[1] : r \in untracked}
           ids == {Image(i) : i \in list} \cup {Sprite(n) : n \in names}
           all == [id \in ids |-> IF id[1] = "image" THEN EntryOf(g, id[2])
                        ELSE SpriteEntry(FirstRef(untracked, id[2]))]
<1>1. reg = all
  BY DEF Built
<1>2. DOMAIN all = ids
  OBVIOUS
<1>3. ASSUME NEW i \in list PROVE Image(i) \in ids /\ all[Image(i)] = EntryOf(g, i)
  <2>1. Image(i) \in ids /\ Image(i)[1] = "image" /\ Image(i)[2] = i
    BY DEF Image
  <2> QED
    BY <2>1
<1>4. ASSUME NEW r \in untracked
      PROVE  Sprite(r[1]) \in ids /\ all[Sprite(r[1])] = SpriteEntry(FirstRef(untracked, r[1]))
  <2>1. Sprite(r[1]) \in ids /\ Sprite(r[1])[1] # "image" /\ Sprite(r[1])[2] = r[1]
    BY DEF Sprite
  <2> QED
    BY <2>1
<1>5. ASSUME NEW id \in ids
      PROVE  \/ \E i \in list : id = Image(i)
             \/ \E r \in untracked : id = Sprite(r[1])
  OBVIOUS
<1> HIDE DEF ids, all
<1> QED
  BY <1>1, <1>2, <1>3, <1>4, <1>5

LEMMA BuiltIsRegistry ==
    ASSUME NEW g, IsGame(g), NEW list, \A i \in list : IsEntry(EntryOf(g, i)),
           NEW reg, reg = Built(g, list)
    PROVE  /\ \A id \in DOMAIN reg : IsEntry(reg[id])
           /\ \A i : Image(i) \in DOMAIN reg => i \in list
<1>1. Untracked(g, list) \subseteq Refs
  BY DEF Untracked, Shown, IsGame
<1>2. ASSUME NEW r \in Untracked(g, list) PROVE FirstRef(Untracked(g, list), r[1]) \in Refs
  <2>1. r[1] \in Names
    BY <1>1 DEF Refs
  <2>2. \A name \in Names, s \in Extensions : <<name, s>> \in Refs
    BY DEF Refs
  <2>3. "jpg" \in Extensions /\ "png" \in Extensions
    BY DEF Extensions
  <2> QED
    BY <2>1, <2>2, <2>3, Zenon DEF FirstRef
<1>3. ASSUME NEW id \in DOMAIN reg PROVE IsEntry(reg[id])
  <2>1. CASE \E i \in list : id = Image(i) /\ reg[id] = EntryOf(g, i)
    BY <2>1
  <2>2. CASE \E r \in Untracked(g, list) : reg[id] = SpriteEntry(FirstRef(Untracked(g, list), r[1]))
    BY <1>2, <2>2, SpriteEntryIs
  <2> QED
    BY <2>1, <2>2, BuiltHas
<1>4. ASSUME NEW i, Image(i) \in DOMAIN reg PROVE i \in list
  <2>1. \A r : Sprite(r) # Image(i)
    BY DEF Sprite, Image
  <2>2. \A j : Image(j) = Image(i) => j = i
    BY DEF Image
  <2>3. \E j \in list : Image(i) = Image(j)
    BY <1>4, <2>1, BuiltHas
  <2> QED
    BY <2>2, <2>3
<1> QED
  BY <1>3, <1>4

\* What is built tells what the game shows.
LEMMA BuiltTells ==
    ASSUME NEW g, IsGame(g), NEW list, list \subseteq 1 .. MaxImages,
           NEW reg, reg = Built(g, list)
    PROVE  /\ \A id \in DOMAIN reg \cap DOMAIN g.promoted : g.promoted[id] \in reg[id].refs
           /\ \A r \in Shown(g) \cap DOMAIN sprites :
                 \E id \in DOMAIN reg : r \in reg[id].refs \/ id = Sprite(r[1])
<1>1. ASSUME NEW id \in DOMAIN reg, id \in DOMAIN g.promoted PROVE g.promoted[id] \in reg[id].refs
  <2>1. PICK i \in 1 .. MaxImages : id = Image(i)
    BY <1>1 DEF IsGame
  <2>2. \A r : Sprite(r) # Image(i)
    BY DEF Sprite, Image
  <2>3. \A j : Image(j) = Image(i) => j = i
    BY DEF Image
  <2>4. reg[id] = EntryOf(g, i)
    BY <2>1, <2>2, <2>3, BuiltHas
  <2>5. g.promoted[id] \in RefOf(g, i)
    BY <1>1, <2>1 DEF RefOf
  <2> QED
    BY <2>4, <2>5, EntryIs
<1>2. ASSUME NEW r \in Shown(g) \cap DOMAIN sprites
      PROVE  \E id \in DOMAIN reg : r \in reg[id].refs \/ id = Sprite(r[1])
  <2>1. CASE r \in Untracked(g, list)
    BY <2>1, BuiltHas
  <2>2. CASE r \notin Untracked(g, list)
    <3>1. PICK i \in list : r \in EntryOf(g, i).refs
      BY <2>2 DEF Untracked
    <3>2. Image(i) \in DOMAIN reg
      BY BuiltHas
    <3>3. \A j : Sprite(j) # Image(i)
      BY DEF Sprite, Image
    <3>4. \A j : Image(j) = Image(i) => j = i
      BY DEF Image
    <3>5. reg[Image(i)] = EntryOf(g, i)
      BY <3>2, <3>3, <3>4, BuiltHas
    <3> QED
      BY <3>1, <3>2, <3>5
  <2> QED
    BY <2>1, <2>2
<1> QED
  BY <1>1, <1>2

\* A registry as it is normalised tells what it told.
LEMMA NormalisedIs ==
    ASSUME NEW reg, NEW n, IsRegistry(reg, n)
    PROVE  /\ IsRegistry(Normalised(reg), n) /\ DOMAIN Normalised(reg) = DOMAIN reg
           /\ \A id \in DOMAIN reg :
                 /\ Normalised(reg)[id].refs = reg[id].refs
                 /\ Normalised(reg)[id].quality = reg[id].quality
<1> DEFINE Used(id) == reg[id].used \/ reg[id].state = "in_use"
           normal == [id \in DOMAIN reg |-> [reg[id] EXCEPT !.used = Used(id)]]
<1>1. Normalised(reg) = normal
  BY DEF Normalised
<1>2. ASSUME NEW id \in DOMAIN reg
      PROVE  /\ IsEntry(normal[id])
             /\ normal[id].refs = reg[id].refs /\ normal[id].quality = reg[id].quality
  <2>1. IsEntry(reg[id])
    BY DEF IsRegistry
  <2>2. normal[id] = [reg[id] EXCEPT !.used = Used(id)]
    OBVIOUS
  <2> DEFINE e == reg[id]
             u == Used(id)
             f == [e EXCEPT !.used = u]
  <2> HIDE DEF normal, u
  <2>3. DOMAIN f = DOMAIN e /\ f.refs = e.refs /\ f.quality = e.quality /\ f.state = e.state
    BY <2>1 DEF IsEntry
  <2>5. IsEntry(f)
    <3> HIDE DEF f
    <3> QED
      BY <2>1, <2>3 DEF IsEntry
  <2> QED
    BY <2>2, <2>3, <2>5 DEF u
<1>3. DOMAIN normal = DOMAIN reg
  OBVIOUS
<1> HIDE DEF normal
<1>4. IsRegistry(normal, n)
  BY <1>2, <1>3 DEF IsRegistry
<1> QED
  BY <1>1, <1>2, <1>3, <1>4

LEMMA EntryChanges ==
    ASSUME NEW reg, NEW n, IsRegistry(reg, n), NEW id \in DOMAIN reg, NEW e, IsEntry(e),
           NEW new, new = [reg EXCEPT ![id] = e]
    PROVE  /\ IsRegistry(new, n) /\ DOMAIN new = DOMAIN reg /\ new[id] = e
           /\ \A other \in DOMAIN reg : other # id => new[other] = reg[other]
<1>1. DOMAIN new = DOMAIN reg /\ new[id] = e /\ \A other \in DOMAIN reg : other # id => new[other] = reg[other]
  BY DEF IsRegistry
<1>3. \A other \in DOMAIN new : IsEntry(new[other])
  BY <1>1 DEF IsRegistry
<1> QED
  BY <1>1, <1>3 DEF IsRegistry

-----------------------------------------------------------------------------
(* The steps that do not touch the registry.                               *)

ImagesGrow ==
    Len(images') >= Len(images) /\ \A i \in 1 .. Len(images) : images'[i] = images[i]

LEMMA AnsweredGrows ==
    ASSUME NEW w \in Workers, WorkInv, DrawInv, DrawStep(w)
    PROVE  ImagesGrow
<1>0. images \in Seq(Picture) /\ Len(images) \in Nat
  BY LenProperties DEF DrawInv, DrawTypes
<1>1. CASE Answered(w)
  <2>1. task[w] \in Draws
    <3>1. Serves(task[w], pc[w]) /\ task[w] \in Requests \cup {Idle} /\ At(w, "post")
      BY <1>1 DEF WorkInv, Answered
    <3>2. task[w].kind = "draw"
      BY <3>1 DEF Serves, At
    <3> QED
      BY <3>1, <3>2, RequestKinds DEF Idle
  <2>2. Bounded(task[w].n) \in Nat
    <3>1. task[w].n \in 0 .. MaxN + 1 /\ MaxN \in Nat
      BY <2>1, DrawAssumption DEF Draws
    <3> QED
      BY <3>1 DEF Bounded
  <2>3. PICK k \in 0 .. Bounded(task[w].n) : \E new \in [1 .. k -> Pictures(task[w])] :
           images' = images \o new
    BY <1>1 DEF Answered
  <2>4. PICK new \in [1 .. k -> Pictures(task[w])] : images' = images \o new
    BY <2>3
  <2>5. new \in [1 .. k -> Picture]
    BY DrawAssumption DEF Pictures
  <2>6. k \in Nat /\ new \in Seq(Picture)
    BY <2>2, <2>5, SeqDef
  <2>7. Len(new) \in Nat
    BY <2>6, LenProperties
  <2>8. /\ Len(images') = Len(images) + Len(new)
        /\ \A i \in 1 .. Len(images) + Len(new) :
              images'[i] = IF i <= Len(images) THEN images[i] ELSE new[i - Len(images)]
    BY <1>0, <2>4, <2>6, ConcatProperties
  <2> QED
    BY <1>0, <2>7, <2>8 DEF ImagesGrow
<1>2. CASE ~Answered(w)
  <2>1. images' = images
    BY <1>2 DEF DrawStep, TryAgain, GiveUp, ReadList, WriteList
  <2> QED
    BY <1>0, <2>1 DEF ImagesGrow
<1> QED
  BY <1>1, <1>2

Elsewhere ==
    /\ UNCHANGED assets /\ ImagesGrow
    /\ \A v \in Workers :
          pc[v] \in HoldSteps \/ pc'[v] \in HoldSteps => pc'[v] = pc[v] /\ task'[v] = task[v]

LEMMA Besides ==
    ASSUME NEW w \in Workers, OnlyMoves(w), UNCHANGED assets, ImagesGrow,
           pc[w] \notin HoldSteps, pc'[w] \notin HoldSteps
    PROVE  Elsewhere
BY DEF Elsewhere, OnlyMoves

LEMMA SameImages ==
    ASSUME DrawInv, images' = images
    PROVE  ImagesGrow
<1>1. Len(images) \in Nat
  BY LenProperties DEF DrawInv, DrawTypes
<1> QED
  BY <1>1 DEF ImagesGrow

LEMMA RegistryOrNot ==
    ASSUME WorkInv, DrawInv, [Next]_vars
    PROVE  \/ \E w \in Workers : RegistryStep(w) /\ UNCHANGED drawing
           \/ Crash
           \/ Elsewhere
<1> USE DEF HoldSteps
<1>1. ASSUME NEW w \in Workers, Proceed(w)
      PROVE  (RegistryStep(w) /\ UNCHANGED drawing) \/ Elsewhere
  <2>1. CASE Draw(w)
    <3>1. OnlyMoves(w) /\ pc[w] \notin HoldSteps /\ pc'[w] \notin HoldSteps
      BY <2>1, DrawMoves DEF Draw, In
    <3>2. UNCHANGED assets /\ ImagesGrow
      BY <2>1, AnsweredGrows DEF Draw
    <3> QED
      BY <3>1, <3>2, Besides
  <2>2. CASE RunStep(w) /\ UNCHANGED <<drawing, assets, threadState, byTools, crashes>>
    <3>1. OnlyMoves(w) /\ pc[w] \notin HoldSteps /\ pc'[w] \notin HoldSteps
      BY <2>2, RunMoves DEF RunSteps
    <3>2. UNCHANGED assets /\ ImagesGrow
      BY <2>2, SameImages DEF drawing
    <3> QED
      BY <3>1, <3>2, Besides
  <2>3. CASE ThreadStep(w) /\ UNCHANGED <<drawing, assets, run, byTools, crashes>>
    <3>1. OnlyMoves(w) /\ pc[w] \notin HoldSteps /\ pc'[w] \notin HoldSteps
      BY <2>3, ThreadMoves DEF ThreadSteps
    <3>2. UNCHANGED assets /\ ImagesGrow
      BY <2>3, SameImages DEF drawing
    <3> QED
      BY <3>1, <3>2, Besides
  <2>4. CASE SkipUsage(w) \/ BeginUsage(w) \/ EndUsage(w)
    <3>1. OnlyMoves(w) /\ pc[w] \notin HoldSteps /\ pc'[w] \notin HoldSteps
      BY <2>4, UsageMoves
    <3>2. UNCHANGED assets /\ images' = images
      BY <2>4 DEF SkipUsage, BeginUsage, EndUsage, drawing
    <3> QED
      BY <3>1, <3>2, SameImages, Besides
  <2> QED
    BY <1>1, <2>1, <2>2, <2>3, <2>4 DEF Proceed
<1>2. ASSUME NEW w \in Workers, NEW r \in Requests, Ask(w, r) PROVE Elsewhere
  <2>1. OnlyMoves(w) /\ pc[w] = "idle"
    BY <1>2, AskMoves DEF At
  <2>2. pc'[w] \in {"post", "rebuild", "snapshot", "ledger", "save", "ask", "plans", "start"}
    BY <1>2, AskMoves DEF Ask
  <2>3. UNCHANGED assets /\ images' = images
    BY <1>2 DEF Ask, BeginDraw, BeginRegistry, drawing
  <2> QED
    BY <2>1, <2>2, <2>3, SameImages, Besides
<1>3. CASE UNCHANGED <<work, assets, images>>
  BY <1>3, SameImages DEF Elsewhere, work
<1>4. CASE OpenPanel
  <2>1. UNCHANGED <<work, assets, images>>
    BY <1>4 DEF OpenPanel, LoadDraft, drawing
  <2> QED
    BY <1>3, <2>1
<1>5. CASE ServeThreads
  <2>1. UNCHANGED <<work, assets, images>>
    BY <1>5 DEF ServeThreads, Tick, TakeTurn, drawing
  <2> QED
    BY <1>3, <2>1
<1>6. CASE Send \/ UNCHANGED vars
  <2>1. UNCHANGED <<work, assets, images>>
    BY <1>6 DEF Send, vars, workbench, drawing
  <2> QED
    BY <1>3, <2>1
<1> QED
  BY <1>1, <1>2, <1>4, <1>5, <1>6 DEF Next, Serve

-----------------------------------------------------------------------------
(* What each step does to what the workers hold.                           *)

HeldMoves(w) ==
    /\ HeldShape'
    /\ \A v \in Workers : v # w => held'[v] = held[v]

LEMMA HeldChanges ==
    ASSUME NEW w \in Workers, HeldShape, NEW h, {"list", "game", "registry"} \subseteq DOMAIN h,
           held' = [held EXCEPT ![w] = h]
    PROVE  HeldMoves(w) /\ held'[w] = h
BY DEF HeldShape, HeldMoves

LEMMA NothingIsHeld == {"list", "game", "registry"} \subseteq DOMAIN NothingHeld
BY DEF NothingHeld

LEMMA ReadSourcesDoes ==
    ASSUME NEW w \in Workers, WorkInv, HeldShape, ReadSources(w)
    PROVE  /\ pc[w] = "rebuild" /\ pc'[w] = "built" /\ task'[w] = task[w]
           /\ HeldMoves(w) /\ held'[w].list = manifest /\ held'[w].game = game
           /\ UNCHANGED <<registry, game, sprites, books>>
<1>1. pc[w] = "rebuild" /\ pc'[w] = "built" /\ task'[w] = task[w]
      /\ UNCHANGED <<registry, game, sprites, books>>
  BY DEF ReadSources, At, Goto, WorkInv
<1> DEFINE h == [[held[w] EXCEPT !.list = manifest] EXCEPT !.game = game]
<1>2. held' = [held EXCEPT ![w] = h]
  BY DEF ReadSources, HeldShape
<1>3. {"list", "game", "registry"} \subseteq DOMAIN h /\ h.list = manifest /\ h.game = game
  BY DEF HeldShape
<1> HIDE DEF h
<1>4. HeldMoves(w) /\ held'[w] = h
  BY <1>2, <1>3, HeldChanges
<1> QED
  BY <1>1, <1>3, <1>4

LEMMA WriteBuiltDoes ==
    ASSUME NEW w \in Workers, WorkInv, HeldShape, WriteBuilt(w)
    PROVE  /\ pc[w] = "built" /\ pc'[w] \notin HoldSteps
           /\ HeldMoves(w) /\ registry' = Built(held[w].game, Elements(held[w].list))
           /\ marks' = <<>> /\ disturbed' = (disturbed \cup {v \in Workers : Holding(v)}) \ {w}
           /\ clashed' = (w \in disturbed \/ Clash(w))
           /\ UNCHANGED <<game, sprites>>
<1>1. pc'[w] \notin HoldSteps
  <2>1. pc'[w] \in {"usage", "idle", "snapshot"}
    BY DEF WriteBuilt, AfterRebuild, Goto, Done, WorkInv
  <2> QED
    BY <2>1 DEF HoldSteps
<1>2. held' = [held EXCEPT ![w] = NothingHeld]
  BY DEF WriteBuilt, AfterRebuild
<1>3. HeldMoves(w)
  BY <1>2, NothingIsHeld, HeldChanges
<1> QED
  BY <1>1, <1>3 DEF WriteBuilt, At

LEMMA ReadRegistryDoes ==
    ASSUME NEW w \in Workers, WorkInv, HeldShape, ReadRegistry(w)
    PROVE  /\ pc[w] = "snapshot" /\ task'[w] = task[w] /\ HeldMoves(w)
           /\ \/ pc'[w] = "rebuild"
              \/ pc'[w] = "normalise" /\ registry # None /\ held'[w].registry = registry
           /\ UNCHANGED <<registry, game, sprites, books>>
<1>1. pc[w] = "snapshot" /\ task'[w] = task[w] /\ UNCHANGED <<registry, game, sprites, books>>
  BY DEF ReadRegistry, At
<1>2. CASE registry = None
  BY <1>1, <1>2 DEF ReadRegistry, Goto, WorkInv, HeldMoves, HeldShape
<1>3. CASE registry # None
  <2> DEFINE h == [held[w] EXCEPT !.registry = registry]
  <2>1. held' = [held EXCEPT ![w] = h] /\ pc'[w] = "normalise"
    BY <1>3 DEF ReadRegistry, HeldShape, Goto, WorkInv
  <2>2. {"list", "game", "registry"} \subseteq DOMAIN h /\ h.registry = registry
    BY DEF HeldShape
  <2> HIDE DEF h
  <2>3. HeldMoves(w) /\ held'[w] = h
    BY <2>1, <2>2, HeldChanges
  <2> QED
    BY <1>1, <1>3, <2>1, <2>2, <2>3
<1> QED
  BY <1>2, <1>3

LEMMA NormaliseDoes ==
    ASSUME NEW w \in Workers, WorkInv, HeldShape, Normalise(w)
    PROVE  LET normal == Normalised(held[w].registry) IN
           /\ pc[w] = "normalise" /\ HeldMoves(w)
           /\ \/ pc'[w] = "idle"
              \/ /\ pc'[w] \in {"write", "copy"} /\ task'[w] = task[w]
                 /\ held'[w].registry = normal
                 /\ Image(task[w].id) \in DOMAIN held[w].registry
           /\ \/ normal = held[w].registry /\ registry' = registry /\ UNCHANGED books
              \/ registry' = normal /\ Disturb(w) /\ LoseMarks(w)
           /\ UNCHANGED <<game, sprites>>
<1> DEFINE normal == Normalised(held[w].registry)
<1>1. /\ pc[w] = "normalise"
      /\ \/ normal = held[w].registry /\ registry' = registry /\ UNCHANGED books
         \/ registry' = normal /\ Disturb(w) /\ LoseMarks(w)
      /\ UNCHANGED <<game, sprites>>
  BY DEF Normalise, At
<1>2. CASE Possible(w)
  <2> DEFINE h == [held[w] EXCEPT !.registry = normal]
  <2>1. held' = [held EXCEPT ![w] = h] /\ pc'[w] \in {"write", "copy"} /\ task'[w] = task[w]
    BY <1>2 DEF Normalise, HeldShape, Goto, WorkInv
  <2>2. {"list", "game", "registry"} \subseteq DOMAIN h /\ h.registry = normal
    BY DEF HeldShape
  <2> HIDE DEF h
  <2>3. HeldMoves(w) /\ held'[w] = h
    BY <2>1, <2>2, HeldChanges
  <2>4. Image(task[w].id) \in DOMAIN held[w].registry
    BY <1>2 DEF Possible, Known
  <2> QED
    BY <1>1, <2>1, <2>2, <2>3, <2>4
<1>3. CASE ~Possible(w)
  <2>1. held' = [held EXCEPT ![w] = NothingHeld] /\ pc'[w] = "idle"
    BY <1>3 DEF Normalise, Done, Goto, WorkInv
  <2>2. HeldMoves(w)
    BY <2>1, NothingIsHeld, HeldChanges
  <2> QED
    BY <1>1, <2>1, <2>2
<1> QED
  BY <1>2, <1>3

\* A write of an entry, for a mark or a promotion.
LEMMA WriteEntryDoes ==
    ASSUME NEW w \in Workers, WorkInv, HeldShape, NEW e, WriteEntry(w, e)
    PROVE  /\ pc'[w] = "idle" /\ HeldMoves(w)
           /\ registry' = [held[w].registry EXCEPT ![Image(task[w].id)] = e]
           /\ Disturb(w)
<1>1. held' = [held EXCEPT ![w] = NothingHeld] /\ pc'[w] = "idle"
  BY DEF WriteEntry, Done, Goto, WorkInv
<1>2. HeldMoves(w)
  BY <1>1, NothingIsHeld, HeldChanges
<1> QED
  BY <1>1, <1>2 DEF WriteEntry

LEMMA CopyFileDoes ==
    ASSUME NEW w \in Workers, WorkInv, HeldShape, CopyFile(w)
    PROVE  /\ pc[w] = "copy" /\ pc'[w] = "place" /\ task'[w] = task[w]
           /\ HeldMoves(w) /\ held'[w].game = game /\ held'[w].registry = held[w].registry
           /\ DOMAIN sprites' = DOMAIN sprites \cup {TargetFile(w)}
           /\ UNCHANGED <<registry, game, books>>
<1>1. pc[w] = "copy" /\ pc'[w] = "place" /\ task'[w] = task[w] /\ UNCHANGED <<registry, game, books>>
  BY DEF CopyFile, At, Goto, WorkInv
<1>2. DOMAIN sprites' = DOMAIN sprites \cup {TargetFile(w)}
  BY DEF CopyFile
<1> DEFINE h == [held[w] EXCEPT !.game = game]
<1>3. held' = [held EXCEPT ![w] = h]
  BY DEF CopyFile, HeldShape
<1>4. {"list", "game", "registry"} \subseteq DOMAIN h /\ h.game = game /\ h.registry = held[w].registry
  BY DEF HeldShape
<1> HIDE DEF h
<1>5. HeldMoves(w) /\ held'[w] = h
  BY <1>3, <1>4, HeldChanges
<1> QED
  BY <1>1, <1>2, <1>4, <1>5

LEMMA PlaceSpriteDoes ==
    ASSUME NEW w \in Workers, WorkInv, HeldShape, PlaceSprite(w)
    PROVE  /\ pc[w] = "place" /\ pc'[w] = "enter" /\ task'[w] = task[w]
           /\ HeldMoves(w) /\ held'[w] = held[w]
           /\ game'.slots = [held[w].game.slots EXCEPT ![task[w].slot] = TargetRef(w)]
           /\ DOMAIN game'.promoted = DOMAIN held[w].game.promoted \cup {Image(task[w].id)}
           /\ game'.promoted[Image(task[w].id)] = TargetRef(w)
           /\ \A id \in DOMAIN held[w].game.promoted : id # Image(task[w].id) =>
                 game'.promoted[id] = held[w].game.promoted[id]
           /\ Disturb(w) /\ UNCHANGED <<registry, sprites, marks>>
<1>1. /\ pc[w] = "place" /\ pc'[w] = "enter" /\ task'[w] = task[w]
      /\ Disturb(w) /\ UNCHANGED <<registry, sprites, held, marks>>
  BY DEF PlaceSprite, At, Goto, WorkInv
<1>2. HeldMoves(w) /\ held'[w] = held[w]
  BY <1>1 DEF HeldMoves, HeldShape
<1> DEFINE was == held[w].game.promoted
           id0 == Image(task[w].id)
           ref == TargetRef(w)
           is == [id \in DOMAIN was \cup {id0} |-> IF id = id0 THEN ref ELSE was[id]]
<1>3. game'.slots = [held[w].game.slots EXCEPT ![task[w].slot] = ref] /\ game'.promoted = is
  BY DEF PlaceSprite
<1> HIDE DEF was, id0, ref
<1>4. /\ DOMAIN is = DOMAIN was \cup {id0} /\ is[id0] = ref
      /\ \A id \in DOMAIN was : id # id0 => is[id] = was[id]
  OBVIOUS
<1> HIDE DEF is
<1> QED
  BY <1>1, <1>2, <1>3, <1>4 DEF was, id0, ref

\* What a promotion asks for.
LEMMA PromotionAsks ==
    ASSUME NEW w \in Workers, WorkInv, pc[w] \in {"copy", "place", "enter"}
    PROVE  /\ task[w].id \in 1 .. MaxImages /\ task[w].slot \in Slots /\ task[w].name \in Names
           /\ TargetRef(w) \in Refs /\ TargetFile(w) \in Refs
           /\ TargetRef(w) = <<task[w].name, "png">> \/ TargetRef(w) = <<task[w].name, "jpg">>
           /\ TargetFile(w) # TargetRef(w) => TargetFile(w) = <<task[w].name, "png">>
           /\ TargetFile(w) = <<task[w].name, "png">> \/ TargetFile(w) = TargetRef(w)
<1>1. task[w] \in Requests /\ task[w].kind = "promote"
  BY DEF WorkInv, Serves, Idle
<1>2. task[w] \in Promotions
  BY <1>1, RequestKinds
<1>3. task[w].id \in 1 .. MaxImages /\ task[w].slot \in Slots /\ task[w].name \in Names
  BY <1>2 DEF Promotions
<1>4. \A name \in Names, s \in Extensions : <<name, s>> \in Refs
  BY DEF Refs
<1>5. "jpg" \in Extensions /\ "png" \in Extensions
  BY DEF Extensions
<1>6. <<task[w].name, "png">> \in Refs /\ <<task[w].name, "jpg">> \in Refs
  BY <1>3, <1>4, <1>5, Zenon
<1>7. TargetRef(w) = <<task[w].name, "png">> \/ TargetRef(w) = <<task[w].name, "jpg">>
  BY DEF TargetRef
<1>8. TargetFile(w) = <<task[w].name, "png">> \/ TargetFile(w) = TargetRef(w)
  BY DEF TargetFile
<1> QED
  BY <1>3, <1>6, <1>7, <1>8, Zenon

LEMMA MarkDoes ==
    ASSUME NEW w \in Workers, WorkInv, AssetTypes, Mark(w)
    PROVE  /\ pc[w] = "write" /\ UNCHANGED <<game, sprites>>
           /\ \E e : /\ IsEntry(e) /\ WriteEntry(w, e) /\ e.refs = Entry(w).refs
                     /\ \/ /\ e.quality = task[w].quality
                           /\ marks' = IF Clash(w) THEN <<>>
                                 ELSE [i \in DOMAIN marks \cup {task[w].id} |->
                                          IF i = task[w].id THEN task[w].quality ELSE marks[i]]
                        \/ e.quality = Entry(w).quality /\ LoseMarks(w)
<1>1. pc[w] = "write" /\ UNCHANGED <<game, sprites>>
  BY DEF Mark, At
<1>2. IsEntry(Entry(w))
  <2>1. HolderTypes(w)
    BY DEF AssetTypes
  <2>2. Image(task[w].id) \in DOMAIN held[w].registry /\ IsRegistry(held[w].registry, Len(images))
    BY <1>1, <2>1 DEF HolderTypes, Changing, HasRegistry, In
  <2> QED
    BY <2>2 DEF IsRegistry, Entry
<1>3. task[w] \in MarkRequests /\ task[w].kind \in {"mark", "unmark"}
  <2>1. task[w] \in Requests /\ task[w].kind \in {"mark", "unmark"}
    BY <1>1 DEF WorkInv, Serves, Idle
  <2> QED
    BY <2>1, RequestKinds
<1>0. "passed" \in Qualities /\ "not_promoted" \in States
  BY DEF Qualities, States
<1>4. CASE task[w].kind = "mark"
  <2>1. task[w].quality \in Qualities
    BY <1>0, <1>3, <1>4 DEF MarkRequests
  <2> DEFINE e == [Entry(w) EXCEPT !.quality = task[w].quality]
  <2>2. IsEntry(e) /\ e.refs = Entry(w).refs /\ e.quality = task[w].quality
    BY <1>2, <2>1 DEF IsEntry
  <2>3. WriteEntry(w, e)
    BY <1>4 DEF Mark
  <2>4. marks' = IF Clash(w) THEN <<>>
                 ELSE [i \in DOMAIN marks \cup {task[w].id} |->
                          IF i = task[w].id THEN task[w].quality ELSE marks[i]]
    BY <1>4 DEF Mark
  <2> HIDE DEF e
  <2> QED
    BY <1>1, <2>2, <2>3, <2>4
<1>5. CASE task[w].kind # "mark"
  <2>1. task[w].state \in States
    BY <1>0, <1>3, <1>5 DEF MarkRequests
  <2> DEFINE e == [Entry(w) EXCEPT !.state = task[w].state]
  <2>2. IsEntry(e) /\ e.refs = Entry(w).refs /\ e.quality = Entry(w).quality
    BY <1>2, <2>1 DEF IsEntry
  <2>3. WriteEntry(w, e) /\ LoseMarks(w)
    BY <1>5 DEF Mark
  <2> HIDE DEF e
  <2> QED
    BY <1>1, <2>2, <2>3
<1> QED
  BY <1>4, <1>5

LEMMA EnterDoes ==
    ASSUME NEW w \in Workers, WorkInv, AssetTypes, EnterPromotion(w)
    PROVE  /\ pc[w] = "enter" /\ UNCHANGED <<game, sprites>> /\ LoseMarks(w)
           /\ \E e : /\ IsEntry(e) /\ WriteEntry(w, e)
                     /\ e.refs = Entry(w).refs \cup {TargetRef(w)} /\ e.quality = Entry(w).quality
<1>1. pc[w] = "enter" /\ UNCHANGED <<game, sprites>> /\ LoseMarks(w)
  BY DEF EnterPromotion, At
<1>2. IsEntry(Entry(w))
  <2>1. HolderTypes(w)
    BY DEF AssetTypes
  <2>2. Image(task[w].id) \in DOMAIN held[w].registry /\ IsRegistry(held[w].registry, Len(images))
    BY <1>1, <2>1 DEF HolderTypes, Changing, HasRegistry, In
  <2> QED
    BY <2>2 DEF IsRegistry, Entry
<1> DEFINE r == TargetRef(w)
           e0 == Entry(w)
           e == [e0 EXCEPT !.state = "promoted", !.refs = @ \cup {r}]
<1>3. WriteEntry(w, e)
  BY DEF EnterPromotion
<1>4. r \in Refs
  BY <1>1, PromotionAsks
<1> HIDE DEF r, e0
<1>5. IsEntry(e) /\ e.refs = e0.refs \cup {r} /\ e.quality = e0.quality
  BY <1>2, <1>4 DEF IsEntry, States, e0
<1> HIDE DEF e
<1> QED
  BY <1>1, <1>3, <1>5 DEF r, e0

LEMMA TypesFrame ==
    ASSUME NEW w \in Workers, AssetTypes, OnlyMoves(w), HeldMoves(w), images' = images,
           registry' # None => IsRegistry(registry', Len(images)),
           IsGame(game'), DOMAIN sprites' \subseteq Refs, HolderTypes(w)'
    PROVE  AssetTypes'
<1>1. ASSUME NEW v \in Workers PROVE HolderTypes(v)'
  <2>1. CASE v = w
    BY <2>1
  <2>2. CASE v # w
    <3>1. pc'[v] = pc[v] /\ task'[v] = task[v] /\ held'[v] = held[v] /\ HolderTypes(v)
      BY <2>2 DEF OnlyMoves, HeldMoves, AssetTypes
    <3> QED
      BY <3>1 DEF HolderTypes, HasRegistry, HasGame, Changing, In, At
  <2> QED
    BY <2>1, <2>2
<1>2. HeldShape'
  BY DEF HeldMoves
<1> QED
  BY <1>1, <1>2 DEF AssetTypes

\* Nothing is held at the steps in between.
LEMMA NoHolder ==
    ASSUME NEW w \in Workers, pc'[w] \notin HoldSteps
    PROVE  HolderTypes(w)'
BY DEF HolderTypes, HasRegistry, HasGame, Changing, In, At, HoldSteps

LEMMA WriteKeepsTypes ==
    ASSUME NEW w \in Workers, WorkInv, AssetTypes, OnlyMoves(w), images' = images,
           UNCHANGED <<game, sprites>>, pc[w] \in {"write", "enter"},
           NEW e, IsEntry(e), WriteEntry(w, e)
    PROVE  AssetTypes'
<1>1. HeldShape
  BY DEF AssetTypes
<1>2. pc'[w] = "idle" /\ HeldMoves(w) /\ registry' = [held[w].registry EXCEPT ![Image(task[w].id)] = e]
  BY <1>1, WriteEntryDoes
<1>3. Image(task[w].id) \in DOMAIN held[w].registry /\ IsRegistry(held[w].registry, Len(images))
  BY DEF AssetTypes, HolderTypes, Changing, HasRegistry, In
<1>4. IsRegistry(registry', Len(images))
  BY <1>2, <1>3, EntryChanges
<1>5. HolderTypes(w)'
  BY <1>2, NoHolder DEF HoldSteps
<1> QED
  BY <1>2, <1>4, <1>5, TypesFrame DEF AssetTypes

LEMMA StepKeepsTypes ==
    ASSUME NEW w \in Workers, WorkInv, DrawInv, AssetTypes, RegistryStep(w), UNCHANGED drawing
    PROVE  AssetTypes'
<1>0. OnlyMoves(w) /\ images' = images /\ HeldShape
  BY RegistryMoves DEF drawing, AssetTypes
<1>a. /\ registry # None => IsRegistry(registry, Len(images))
      /\ IsGame(game) /\ DOMAIN sprites \subseteq Refs /\ HolderTypes(w)
  BY DEF AssetTypes
<1>b. Len(images) \in Nat /\ Len(images) <= MaxImages /\ MaxImages \in Nat
  BY LenProperties, DrawAssumption DEF DrawInv, DrawTypes
<1> USE DEF HasRegistry, HasGame, Changing, In, At
<1>1. CASE ReadSources(w)
  <2>1. /\ pc[w] = "rebuild" /\ pc'[w] = "built" /\ task'[w] = task[w]
        /\ HeldMoves(w) /\ held'[w].list = manifest /\ held'[w].game = game
        /\ UNCHANGED <<registry, game, sprites, books>>
    BY <1>0, <1>1, ReadSourcesDoes
  <2>2. Elements(manifest) \subseteq 1 .. Len(images)
    BY DEF DrawInv, DrawTypes, Numbered, Elements
  <2>3. HolderTypes(w)'
    BY <1>0, <1>a, <2>1, <2>2 DEF HolderTypes
  <2> QED
    BY <1>0, <1>a, <2>1, <2>3, TypesFrame
<1>2. CASE WriteBuilt(w)
  <2> DEFINE g == held[w].game
             list == Elements(held[w].list)
  <2>1. /\ pc[w] = "built" /\ pc'[w] \notin HoldSteps /\ HeldMoves(w)
        /\ registry' = Built(g, list) /\ UNCHANGED <<game, sprites>>
    BY <1>0, <1>2, WriteBuiltDoes
  <2>2. IsGame(g) /\ list \subseteq 1 .. Len(images)
    BY <1>a, <2>1 DEF HolderTypes
  <2>3. \A i \in list : IsEntry(EntryOf(g, i))
    <3>1. \A i \in list : i \in 1 .. MaxImages
      BY <1>b, <2>2
    <3> HIDE DEF g, list
    <3> QED
      BY <2>2, <3>1, EntryIs
  <2>4. IsRegistry(registry', Len(images))
    <3> HIDE DEF g, list
    <3>1. /\ \A id \in DOMAIN registry' : IsEntry(registry'[id])
          /\ \A i : Image(i) \in DOMAIN registry' => i \in list
      BY <2>1, <2>2, <2>3, BuiltIsRegistry
    <3> QED
      BY <2>2, <3>1 DEF IsRegistry
  <2>5. HolderTypes(w)'
    BY <2>1, NoHolder
  <2> QED
    BY <1>0, <1>a, <2>1, <2>4, <2>5, TypesFrame
<1>3. CASE ReadRegistry(w)
  <2>1. /\ pc[w] = "snapshot" /\ task'[w] = task[w] /\ HeldMoves(w)
        /\ \/ pc'[w] = "rebuild"
           \/ pc'[w] = "normalise" /\ registry # None /\ held'[w].registry = registry
        /\ UNCHANGED <<registry, game, sprites, books>>
    BY <1>0, <1>3, ReadRegistryDoes
  <2>2. HolderTypes(w)'
    BY <1>0, <1>a, <2>1 DEF HolderTypes
  <2> QED
    BY <1>0, <1>a, <2>1, <2>2, TypesFrame
<1>4. CASE Normalise(w)
  <2> DEFINE reg == held[w].registry
             normal == Normalised(reg)
  <2>1. /\ pc[w] = "normalise" /\ HeldMoves(w)
        /\ \/ pc'[w] = "idle"
           \/ /\ pc'[w] \in {"write", "copy"} /\ task'[w] = task[w]
              /\ held'[w].registry = normal /\ Image(task[w].id) \in DOMAIN reg
        /\ registry' = registry \/ registry' = normal
        /\ UNCHANGED <<game, sprites>>
    BY <1>0, <1>4, NormaliseDoes
  <2>2. IsRegistry(reg, Len(images))
    BY <1>a, <2>1 DEF HolderTypes
  <2>3. IsRegistry(normal, Len(images)) /\ DOMAIN normal = DOMAIN reg
    <3> HIDE DEF reg
    <3> QED
      BY <2>2, NormalisedIs
  <2>4. HolderTypes(w)'
    <3> HIDE DEF normal, reg
    <3> QED
      BY <1>0, <1>a, <2>1, <2>3 DEF HolderTypes
  <2> QED
    BY <1>0, <1>a, <2>1, <2>3, <2>4, TypesFrame
<1>5. CASE Mark(w)
  BY <1>0, <1>5, MarkDoes, WriteKeepsTypes
<1>6. CASE CopyFile(w)
  <2>1. /\ pc[w] = "copy" /\ pc'[w] = "place" /\ task'[w] = task[w]
        /\ HeldMoves(w) /\ held'[w].game = game /\ held'[w].registry = held[w].registry
        /\ DOMAIN sprites' = DOMAIN sprites \cup {TargetFile(w)}
        /\ UNCHANGED <<registry, game, books>>
    BY <1>0, <1>6, CopyFileDoes
  <2>2. TargetFile(w) \in Refs
    BY <2>1, PromotionAsks
  <2>3. HolderTypes(w)'
    BY <1>0, <1>a, <2>1 DEF HolderTypes
  <2> QED
    BY <1>0, <1>a, <2>1, <2>2, <2>3, TypesFrame
<1>7. CASE PlaceSprite(w)
  <2> DEFINE was == held[w].game
             id0 == Image(task[w].id)
             ref == TargetRef(w)
  <2>1. /\ pc[w] = "place" /\ pc'[w] = "enter" /\ task'[w] = task[w]
        /\ HeldMoves(w) /\ held'[w] = held[w]
        /\ game'.slots = [was.slots EXCEPT ![task[w].slot] = ref]
        /\ DOMAIN game'.promoted = DOMAIN was.promoted \cup {id0}
        /\ game'.promoted[id0] = ref
        /\ \A id \in DOMAIN was.promoted : id # id0 => game'.promoted[id] = was.promoted[id]
        /\ UNCHANGED <<registry, sprites, marks>>
    BY <1>0, <1>7, PlaceSpriteDoes
  <2>2. IsGame(was)
    BY <1>a, <2>1 DEF HolderTypes
  <2>3. task[w].id \in 1 .. MaxImages /\ ref \in Refs
    BY <2>1, PromotionAsks
  <2>4. \E i \in 1 .. MaxImages : id0 = Image(i)
    BY <2>3
  <2>5. HolderTypes(w)'
    BY <1>0, <1>a, <2>1 DEF HolderTypes
  <2> HIDE DEF was, id0, ref
  <2>6. game'.slots \in [Slots -> Refs \cup {None}]
    BY <2>1, <2>2, <2>3 DEF IsGame
  <2>7. ASSUME NEW id \in DOMAIN game'.promoted
        PROVE  game'.promoted[id] \in Refs /\ \E i \in 1 .. MaxImages : id = Image(i)
    <3>1. CASE id = id0
      BY <2>1, <2>3, <2>4, <3>1
    <3>2. CASE id # id0
      BY <2>1, <2>2, <3>2 DEF IsGame
    <3> QED
      BY <3>1, <3>2
  <2>8. IsGame(game')
    BY <2>6, <2>7 DEF IsGame
  <2> QED
    BY <1>0, <1>a, <2>1, <2>5, <2>8, TypesFrame
<1>8. CASE EnterPromotion(w)
  BY <1>0, <1>8, EnterDoes, WriteKeepsTypes
<1> QED
  BY <1>1, <1>2, <1>3, <1>4, <1>5, <1>6, <1>7, <1>8 DEF RegistryStep

LEMMA TypesStart == Init => AssetTypes
<1>1. DOMAIN <<>> = {}
  BY EmptySeq
<1> QED
  BY <1>1, NothingIsHeld DEF Init, RegistryInit, WorkInit, AssetTypes, IsGame, HeldShape, HolderTypes,
     HasRegistry, HasGame, Changing, In, At

LEMMA TypesNext ==
    ASSUME WorkInv, DrawInv, AssetTypes, [Next]_vars, DrawInv'
    PROVE  AssetTypes'
<1>1. ASSUME NEW w \in Workers, RegistryStep(w), UNCHANGED drawing PROVE AssetTypes'
  BY <1>1, StepKeepsTypes
<1>2. CASE Crash
  <2>1. /\ UNCHANGED <<images, registry, game, sprites>>
        /\ held' = [w \in Workers |-> NothingHeld]
        /\ \A w \in Workers : pc'[w] = "idle"
    BY <1>2, CrashMoves DEF Crash
  <2>2. HeldShape'
    BY <2>1, NothingIsHeld DEF HeldShape
  <2>3. \A w \in Workers : HolderTypes(w)'
    BY <2>1, NoHolder DEF HoldSteps
  <2> QED
    BY <2>1, <2>2, <2>3 DEF AssetTypes
<1>3. CASE Elsewhere
  <2>1. UNCHANGED <<registry, game, sprites, held>>
    BY <1>3 DEF Elsewhere, assets
  <2>2. Len(images) \in Nat /\ Len(images') \in Nat /\ Len(images') >= Len(images)
    BY <1>3, LenProperties DEF DrawInv, DrawTypes, Elsewhere, ImagesGrow
  <2>3. \A reg : IsRegistry(reg, Len(images)) => IsRegistry(reg, Len(images'))
    BY <2>2, MoreImages
  <2>4. ASSUME NEW v \in Workers PROVE HolderTypes(v)'
    <3>1. CASE pc'[v] \notin HoldSteps
      BY <3>1, NoHolder
    <3>2. CASE pc'[v] \in HoldSteps
      <4>1. pc'[v] = pc[v] /\ task'[v] = task[v] /\ HolderTypes(v)
        BY <1>3, <3>2 DEF Elsewhere, AssetTypes
      <4>2. 1 .. Len(images) \subseteq 1 .. Len(images')
        BY <2>2
      <4> QED
        BY <2>1, <2>3, <4>1, <4>2 DEF HolderTypes, HasRegistry, HasGame, Changing, In, At
    <3> QED
      BY <3>1, <3>2
  <2>5. HeldShape'
    BY <2>1 DEF HeldShape, AssetTypes
  <2> QED
    BY <2>1, <2>3, <2>4, <2>5 DEF AssetTypes
<1> QED
  BY <1>1, <1>2, <1>3, RegistryOrNot

-----------------------------------------------------------------------------
(* The files of sprites.                                                   *)

LEMMA MoreFiles ==
    ASSUME DOMAIN sprites \subseteq DOMAIN sprites', NEW r, HasFile(r)
    PROVE  HasFile(r)'
BY DEF HasFile

LEMMA SameTarget ==
    ASSUME NEW v \in Workers, WorkInv, AssetTypes, ImagesGrow, pc[v] \in {"copy", "place", "enter"},
           task'[v] = task[v]
    PROVE  TargetRef(v)' = TargetRef(v) /\ TargetFile(v)' = TargetFile(v)
<1>1. task[v].id \in 1 .. MaxImages
  BY PromotionAsks
<1>2. Image(task[v].id) \in DOMAIN held[v].registry /\ IsRegistry(held[v].registry, Len(images))
  BY DEF AssetTypes, HolderTypes, Changing, HasRegistry, In
<1>3. task[v].id \in 1 .. Len(images)
  BY <1>1, <1>2 DEF IsRegistry
<1>4. images'[task[v].id] = images[task[v].id]
  BY <1>3 DEF ImagesGrow
<1> QED
  BY <1>4 DEF TargetRef, TargetFile

LEMMA FilesFrame ==
    ASSUME NEW w \in Workers, WorkInv, AssetTypes, Files, ImagesGrow,
           \A v \in Workers : v # w /\ pc'[v] \in HoldSteps =>
              pc'[v] = pc[v] /\ task'[v] = task[v] /\ held'[v] = held[v],
           DOMAIN sprites \subseteq DOMAIN sprites',
           \A r \in Shown(game') : HasFile(r)', HolderFiles(w)'
    PROVE  Files'
<1>1. ASSUME NEW v \in Workers, v # w PROVE HolderFiles(v)'
  <2>1. CASE pc'[v] \in {"place", "enter"}
    <3>1. pc'[v] = pc[v] /\ task'[v] = task[v] /\ held'[v] = held[v] /\ HolderFiles(v)
      BY <1>1, <2>1 DEF HoldSteps, Files
    <3>2. TargetFile(v)' = TargetFile(v)
      BY <2>1, <3>1, SameTarget
    <3>3. \A r : HasFile(r) => HasFile(r)'
      BY MoreFiles
    <3> QED
      BY <3>1, <3>2, <3>3 DEF HolderFiles, At, In, Shown
  <2>2. CASE pc'[v] \notin {"place", "enter"}
    BY <2>2 DEF HolderFiles, At, In
  <2> QED
    BY <2>1, <2>2
<1> QED
  BY <1>1 DEF Files

LEMMA StepKeepsSprites ==
    ASSUME NEW w \in Workers, WorkInv, DrawInv, AssetTypes, Files, RegistryStep(w), UNCHANGED drawing
    PROVE  Files'
<1>0. OnlyMoves(w) /\ images' = images /\ HeldShape /\ ImagesGrow
  BY RegistryMoves, SameImages DEF drawing, AssetTypes
<1>a. ASSUME HeldMoves(w), game' = game, DOMAIN sprites \subseteq DOMAIN sprites', HolderFiles(w)'
      PROVE  Files'
  <2>1. \A v \in Workers : v # w => pc'[v] = pc[v] /\ task'[v] = task[v] /\ held'[v] = held[v]
    BY <1>0, <1>a DEF OnlyMoves, HeldMoves
  <2>2. \A r \in Shown(game') : HasFile(r)'
    BY <1>a, MoreFiles DEF Files
  <2> QED
    BY <1>0, <1>a, <2>1, <2>2, FilesFrame
<1>b. ASSUME HeldMoves(w), UNCHANGED <<game, sprites>>, pc'[w] \notin {"place", "enter"}
      PROVE  Files'
  BY <1>a, <1>b DEF HolderFiles, At, In
<1>1. CASE ReadSources(w)
  BY <1>0, <1>1, <1>b, ReadSourcesDoes
<1>2. CASE WriteBuilt(w)
  BY <1>0, <1>2, <1>b, WriteBuiltDoes DEF HoldSteps
<1>3. CASE ReadRegistry(w)
  BY <1>0, <1>3, <1>b, ReadRegistryDoes
<1>4. CASE Normalise(w)
  <2>1. HeldMoves(w) /\ UNCHANGED <<game, sprites>> /\ pc'[w] \in {"idle", "write", "copy"}
    BY <1>0, <1>4, NormaliseDoes
  <2> QED
    BY <1>b, <2>1
<1>5. CASE Mark(w)
  BY <1>0, <1>5, <1>b, MarkDoes, WriteEntryDoes
<1>6. CASE CopyFile(w)
  <2>1. /\ pc[w] = "copy" /\ pc'[w] = "place" /\ task'[w] = task[w]
        /\ HeldMoves(w) /\ held'[w].game = game
        /\ DOMAIN sprites' = DOMAIN sprites \cup {TargetFile(w)} /\ game' = game
    BY <1>0, <1>6, CopyFileDoes
  <2>2. TargetFile(w)' = TargetFile(w)
    BY <1>0, <2>1, SameTarget
  <2>3. \A r : HasFile(r) => HasFile(r)'
    BY <2>1, MoreFiles
  <2>4. HolderFiles(w)'
    BY <2>1, <2>2, <2>3 DEF HolderFiles, At, In, Files
  <2> QED
    BY <1>a, <2>1, <2>4
<1>7. CASE PlaceSprite(w)
  <2> DEFINE was == held[w].game
             ref == TargetRef(w)
             file == TargetFile(w)
             name == task[w].name
  <2>1. /\ pc[w] = "place" /\ pc'[w] = "enter" /\ task'[w] = task[w] /\ HeldMoves(w)
        /\ game'.slots = [was.slots EXCEPT ![task[w].slot] = ref] /\ UNCHANGED sprites
    BY <1>0, <1>7, PlaceSpriteDoes
  <2>2. /\ \A r \in Shown(was) : HasFile(r)
        /\ file \in DOMAIN sprites
    BY <2>1 DEF Files, HolderFiles, At, In
  <2>3. IsGame(was)
    BY <2>1 DEF AssetTypes, HolderTypes, HasGame, In
  <2>4. /\ ref = <<name, "png">> \/ ref = <<name, "jpg">>
        /\ file = <<name, "png">> \/ file = ref
    BY <2>1, PromotionAsks
  <2>5. TargetFile(w)' = file
    BY <1>0, <2>1, SameTarget
  <2>6. HolderFiles(w)'
    BY <2>1, <2>2, <2>5 DEF HolderFiles, At, In
  <2> HIDE DEF was, ref, file, name
  <2>7. HasFile(ref)
    BY <2>2, <2>4 DEF HasFile
  <2>8. Shown(game') \subseteq Shown(was) \cup {ref}
    BY <2>1, <2>3 DEF Shown, IsGame
  <2>9. \A r \in Shown(game') : HasFile(r)'
    BY <2>1, <2>2, <2>7, <2>8, MoreFiles
  <2>10. \A v \in Workers : v # w => pc'[v] = pc[v] /\ task'[v] = task[v] /\ held'[v] = held[v]
    BY <1>0, <2>1 DEF OnlyMoves, HeldMoves
  <2> QED
    BY <1>0, <2>1, <2>6, <2>9, <2>10, FilesFrame
<1>8. CASE EnterPromotion(w)
  BY <1>0, <1>8, <1>b, EnterDoes, WriteEntryDoes
<1> QED
  BY <1>1, <1>2, <1>3, <1>4, <1>5, <1>6, <1>7, <1>8 DEF RegistryStep

LEMMA FilesStart == Init => Files
BY DEF Init, RegistryInit, WorkInit, Files, HolderFiles, Shown, At, In

LEMMA FilesNext ==
    ASSUME WorkInv, DrawInv, AssetTypes, Files, [Next]_vars
    PROVE  Files'
<1>1. ASSUME NEW w \in Workers, RegistryStep(w), UNCHANGED drawing PROVE Files'
  BY <1>1, StepKeepsSprites
<1>2. CASE Crash
  <2>1. UNCHANGED <<game, sprites>> /\ \A w \in Workers : pc'[w] = "idle"
    BY <1>2, CrashMoves DEF Crash
  <2> QED
    BY <2>1, MoreFiles DEF Files, HolderFiles, At, In
<1>3. CASE Elsewhere
  <2>1. UNCHANGED <<game, sprites, held>> /\ ImagesGrow
    BY <1>3 DEF Elsewhere, assets
  <2>2. ASSUME NEW v \in Workers PROVE HolderFiles(v)'
    <3>1. CASE pc'[v] \in {"place", "enter"}
      <4>1. pc'[v] = pc[v] /\ task'[v] = task[v] /\ HolderFiles(v)
        BY <1>3, <3>1 DEF Elsewhere, HoldSteps, Files
      <4>2. TargetFile(v)' = TargetFile(v)
        BY <2>1, <3>1, <4>1, SameTarget
      <4>3. \A r : HasFile(r) => HasFile(r)'
        BY <2>1, MoreFiles
      <4> QED
        BY <2>1, <4>1, <4>2, <4>3 DEF HolderFiles, At, In
    <3>2. CASE pc'[v] \notin {"place", "enter"}
      BY <3>2 DEF HolderFiles, At, In
    <3> QED
      BY <3>1, <3>2
  <2> QED
    BY <2>1, <2>2, MoreFiles DEF Files
<1> QED
  BY <1>1, <1>2, <1>3, RegistryOrNot

-----------------------------------------------------------------------------
(* What is held is what is there.                                          *)

LEMMA HoldingIs ==
    ASSUME NEW v \in Workers
    PROVE  Holding(v) <=> pc[v] \in HoldSteps
BY DEF Holding, In, HoldSteps

\* A write is noticed by the others that hold something.
Noticed(w) == \A v \in Workers : v # w /\ pc[v] \in HoldSteps => v \in disturbed' /\ clashed'

LEMMA DisturbIsNoticed ==
    ASSUME NEW w \in Workers, Disturb(w)
    PROVE  Noticed(w)
BY HoldingIs DEF Disturb, Noticed, Clash, Others

LEMMA BuiltIsNoticed ==
    ASSUME NEW w \in Workers,
           disturbed' = (disturbed \cup {v \in Workers : Holding(v)}) \ {w},
           clashed' = (w \in disturbed \/ Clash(w))
    PROVE  Noticed(w)
BY HoldingIs DEF Noticed, Clash, Others

LEMMA FreshAlone ==
    ASSUME NEW w \in Workers, Fresh, OnlyMoves(w), Noticed(w), HolderFresh(w)'
    PROVE  Fresh'
<1>1. ASSUME NEW v \in Workers, v # w PROVE HolderFresh(v)'
  <2>1. pc'[v] = pc[v]
    BY <1>1 DEF OnlyMoves
  <2> QED
    BY <1>1, <2>1 DEF HolderFresh, Noticed, HoldSteps, HasRegistry, HasGame, In, At
<1> QED
  BY <1>1 DEF Fresh

LEMMA FreshStill ==
    ASSUME NEW w \in Workers, Fresh, OnlyMoves(w), HeldMoves(w),
           UNCHANGED <<registry, game, disturbed, clashed>>, HolderFresh(w)'
    PROVE  Fresh'
<1>1. ASSUME NEW v \in Workers, v # w PROVE HolderFresh(v)'
  <2>1. pc'[v] = pc[v] /\ held'[v] = held[v] /\ HolderFresh(v)
    BY <1>1 DEF OnlyMoves, HeldMoves, Fresh
  <2> QED
    BY <2>1 DEF HolderFresh, HasRegistry, HasGame, In, At
<1> QED
  BY <1>1 DEF Fresh

LEMMA NotHolding ==
    ASSUME NEW w \in Workers, pc'[w] \notin HoldSteps
    PROVE  HolderFresh(w)'
BY DEF HolderFresh, HoldSteps, HasRegistry, HasGame, In, At

LEMMA StepKeepsFresh ==
    ASSUME NEW w \in Workers, WorkInv, AssetTypes, Fresh, RegistryStep(w)
    PROVE  Fresh'
<1>0. OnlyMoves(w) /\ HeldShape
  BY RegistryMoves DEF AssetTypes
<1>a. HolderFresh(w)
  BY DEF Fresh
<1> USE DEF HasRegistry, HasGame, In, At
<1>1. CASE ReadSources(w)
  <2>1. /\ pc'[w] = "built" /\ HeldMoves(w) /\ held'[w].game = game
        /\ UNCHANGED <<registry, game, books>>
    BY <1>0, <1>1, ReadSourcesDoes
  <2>2. HolderFresh(w)'
    BY <2>1 DEF HolderFresh
  <2> QED
    BY <1>0, <2>1, <2>2, FreshStill DEF books
<1>2. CASE WriteBuilt(w)
  BY <1>0, <1>2, WriteBuiltDoes, BuiltIsNoticed, NotHolding, FreshAlone
<1>3. CASE ReadRegistry(w)
  <2>1. /\ HeldMoves(w)
        /\ \/ pc'[w] = "rebuild"
           \/ pc'[w] = "normalise" /\ held'[w].registry = registry
        /\ UNCHANGED <<registry, game, books>>
    BY <1>0, <1>3, ReadRegistryDoes
  <2>2. HolderFresh(w)'
    BY <2>1 DEF HolderFresh
  <2> QED
    BY <1>0, <2>1, <2>2, FreshStill DEF books
<1>4. CASE Normalise(w)
  <2> DEFINE normal == Normalised(held[w].registry)
  <2>1. /\ pc[w] = "normalise" /\ HeldMoves(w)
        /\ \/ pc'[w] = "idle"
           \/ /\ pc'[w] \in {"write", "copy"} /\ held'[w].registry = normal
        /\ \/ normal = held[w].registry /\ registry' = registry /\ UNCHANGED books
           \/ registry' = normal /\ Disturb(w)
        /\ UNCHANGED game
    BY <1>0, <1>4, NormaliseDoes
  <2> HIDE DEF normal
  <2>2. CASE registry' = normal /\ Disturb(w)
    <3>1. HolderFresh(w)'
      BY <2>1, <2>2 DEF HolderFresh
    <3> QED
      BY <1>0, <2>2, <3>1, DisturbIsNoticed, FreshAlone
  <2>3. CASE normal = held[w].registry /\ registry' = registry /\ UNCHANGED books
    <3>1. HolderFresh(w)'
      BY <1>a, <2>1, <2>3 DEF HolderFresh, books
    <3> QED
      BY <1>0, <2>1, <2>3, <3>1, FreshStill DEF books
  <2> QED
    BY <2>1, <2>2, <2>3
<1>5. CASE Mark(w)
  <2>1. pc'[w] = "idle" /\ Disturb(w)
    BY <1>0, <1>5, MarkDoes, WriteEntryDoes
  <2> QED
    BY <1>0, <2>1, DisturbIsNoticed, NotHolding, FreshAlone DEF HoldSteps
<1>6. CASE CopyFile(w)
  <2>1. /\ pc[w] = "copy" /\ pc'[w] = "place" /\ HeldMoves(w)
        /\ held'[w].game = game /\ held'[w].registry = held[w].registry
        /\ UNCHANGED <<registry, game, books>>
    BY <1>0, <1>6, CopyFileDoes
  <2>2. HolderFresh(w)'
    BY <1>a, <2>1 DEF HolderFresh, books
  <2> QED
    BY <1>0, <2>1, <2>2, FreshStill DEF books
<1>7. CASE PlaceSprite(w)
  <2>1. /\ pc[w] = "place" /\ pc'[w] = "enter" /\ held'[w] = held[w]
        /\ Disturb(w) /\ UNCHANGED registry
    BY <1>0, <1>7, PlaceSpriteDoes
  <2>2. ~clashed' => ~clashed
    BY <2>1 DEF Disturb
  <2>3. HolderFresh(w)'
    BY <1>a, <2>1, <2>2 DEF HolderFresh
  <2> QED
    BY <1>0, <2>1, <2>3, DisturbIsNoticed, FreshAlone
<1>8. CASE EnterPromotion(w)
  <2>1. pc'[w] = "idle" /\ Disturb(w)
    BY <1>0, <1>8, EnterDoes, WriteEntryDoes
  <2> QED
    BY <1>0, <2>1, DisturbIsNoticed, NotHolding, FreshAlone DEF HoldSteps
<1> QED
  BY <1>1, <1>2, <1>3, <1>4, <1>5, <1>6, <1>7, <1>8 DEF RegistryStep

LEMMA FreshStart == Init => Fresh
BY DEF Init, WorkInit, Fresh, HolderFresh, HasRegistry, HasGame, At, In

LEMMA FreshNext ==
    ASSUME WorkInv, DrawInv, AssetTypes, Fresh, [Next]_vars
    PROVE  Fresh'
<1>1. ASSUME NEW w \in Workers, RegistryStep(w) PROVE Fresh'
  BY <1>1, StepKeepsFresh
<1>2. CASE Crash
  <2>1. \A w \in Workers : pc'[w] \notin HoldSteps
    BY <1>2, CrashMoves DEF HoldSteps
  <2> QED
    BY <2>1, NotHolding DEF Fresh
<1>3. CASE Elsewhere
  <2>1. UNCHANGED <<registry, game, held, disturbed, clashed>>
    BY <1>3 DEF Elsewhere, assets, books
  <2>2. ASSUME NEW v \in Workers PROVE HolderFresh(v)'
    <3>1. CASE pc'[v] \in HoldSteps
      <4>1. pc'[v] = pc[v] /\ HolderFresh(v)
        BY <1>3, <3>1 DEF Elsewhere, Fresh
      <4> QED
        BY <2>1, <4>1 DEF HolderFresh, HasRegistry, HasGame, In, At
    <3>2. CASE pc'[v] \notin HoldSteps
      BY <3>2, NotHolding
    <3> QED
      BY <3>1, <3>2
  <2> QED
    BY <2>2 DEF Fresh
<1> QED
  BY <1>1, <1>2, <1>3, RegistryOrNot

-----------------------------------------------------------------------------
(* The registry tells what the game shows.                                 *)

LEMMA PendingStays ==
    ASSUME WorkInv, AssetTypes, ImagesGrow,
           \A v \in Workers : pc[v] \in {"place", "enter"} => pc'[v] = pc[v] /\ task'[v] = task[v]
    PROVE  /\ \A r : Pending(r) => Pending(r)'
           /\ \A id, r : Promoting(id, r) => Promoting(id, r)'
<1>1. ASSUME NEW r, Pending(r) PROVE Pending(r)'
  <2>1. PICK v \in Workers : pc[v] \in {"place", "enter"} /\ r = TargetRef(v)
    BY <1>1 DEF Pending, In
  <2>2. pc'[v] = pc[v] /\ TargetRef(v)' = TargetRef(v)
    BY <2>1, SameTarget
  <2> QED
    BY <2>1, <2>2 DEF Pending, In
<1>2. ASSUME NEW id, NEW r, Promoting(id, r) PROVE Promoting(id, r)'
  <2>1. PICK v \in Workers : pc[v] = "enter" /\ id = Image(task[v].id) /\ r = TargetRef(v)
    BY <1>2 DEF Promoting, At
  <2>2. pc'[v] = pc[v] /\ task'[v] = task[v] /\ TargetRef(v)' = TargetRef(v)
    BY <2>1, SameTarget
  <2> QED
    BY <2>1, <2>2 DEF Promoting, At
<1> QED
  BY <1>1, <1>2

LEMMA TellsStays ==
    ASSUME WorkInv, AssetTypes, ImagesGrow, Tells(registry),
           \A v \in Workers : pc[v] \in {"place", "enter"} => pc'[v] = pc[v] /\ task'[v] = task[v],
           game' = game, sprites' = sprites,
           DOMAIN registry' = DOMAIN registry,
           \A id \in DOMAIN registry : registry[id].refs = registry'[id].refs,
           Marked(registry)'
    PROVE  Tells(registry)'
<1>1. /\ \A r : Pending(r) => Pending(r)'
      /\ \A id, r : Promoting(id, r) => Promoting(id, r)'
  BY PendingStays
<1>2. Entered(registry)'
  BY <1>1 DEF Entered, Tells
<1>3. AllBelong(registry)'
  BY <1>1 DEF AllBelong, Belongs, Tells, Shown
<1> QED
  BY <1>2, <1>3 DEF Tells

\* Who writes, and disturbs nobody, is alone and knows the registry.
LEMMA WritesAlone ==
    ASSUME NEW w \in Workers, Fresh, Disturb(w), ~clashed', HasRegistry(w)
    PROVE  /\ ~clashed /\ ~Clash(w) /\ held[w].registry = registry
           /\ \A v \in Workers : v # w => pc[v] \notin HoldSteps
<1>1. ~clashed /\ ~Clash(w)
  BY DEF Disturb
<1>2. \A v \in Workers : v # w => pc[v] \notin HoldSteps
  BY <1>1, HoldingIs DEF Clash, Others
<1> QED
  BY <1>1, <1>2 DEF Fresh, HolderFresh

LEMMA BuiltTellsAll ==
    ASSUME NEW w \in Workers, WorkInv, DrawInv, AssetTypes, Fresh, WriteBuilt(w), ~clashed'
    PROVE  Tells(registry)'
<1> DEFINE list == Elements(held[w].list)
<1>1. /\ pc[w] = "built" /\ registry' = Built(held[w].game, list) /\ marks' = <<>>
      /\ w \notin disturbed /\ UNCHANGED <<game, sprites>>
  BY WriteBuiltDoes DEF AssetTypes
<1>2. held[w].game = game
  BY <1>1 DEF Fresh, HolderFresh, At
<1>3. list \subseteq 1 .. Len(images)
  BY <1>1 DEF AssetTypes, HolderTypes, At
<1>4. Len(images) \in Nat /\ Len(images) <= MaxImages /\ MaxImages \in Nat
  BY LenProperties, DrawAssumption DEF DrawInv, DrawTypes
<1>5. list \subseteq 1 .. MaxImages
  BY <1>3, <1>4
<1>6. IsGame(game) /\ registry' = Built(game, list)
  BY <1>1, <1>2 DEF AssetTypes
<1> HIDE DEF list
<1>7. /\ \A id \in DOMAIN registry' \cap DOMAIN game.promoted : game.promoted[id] \in registry'[id].refs
      /\ \A r \in Shown(game) \cap DOMAIN sprites :
            \E id \in DOMAIN registry' : r \in registry'[id].refs \/ id = Sprite(r[1])
  BY <1>5, <1>6, BuiltTells
<1>8. Entered(registry)'
  BY <1>1, <1>7 DEF Entered
<1>9. AllBelong(registry)'
  BY <1>1, <1>7 DEF AllBelong, Belongs, Shown
<1>10. Marked(registry)'
  <2>1. DOMAIN <<>> = {}
    BY EmptySeq
  <2> QED
    BY <1>1, <2>1 DEF Marked
<1> QED
  BY <1>8, <1>9, <1>10 DEF Tells

LEMMA NormaliseTells ==
    ASSUME NEW w \in Workers, WorkInv, AssetTypes, Fresh, Follow, OnlyMoves(w), ImagesGrow,
           Normalise(w), ~clashed'
    PROVE  Tells(registry)'
<1> DEFINE reg == held[w].registry
           normal == Normalised(reg)
<1>1. /\ pc[w] = "normalise" /\ UNCHANGED <<game, sprites>>
      /\ \/ normal = reg /\ registry' = registry /\ UNCHANGED books
         \/ registry' = normal /\ Disturb(w) /\ LoseMarks(w)
  BY NormaliseDoes DEF AssetTypes
<1>2. HasRegistry(w) /\ Registered
  BY <1>1 DEF HasRegistry, In, Registered
<1>3. IsRegistry(reg, Len(images))
  BY <1>2 DEF AssetTypes, HolderTypes
<1>4. \A v \in Workers : pc[v] \in {"place", "enter"} => pc'[v] = pc[v] /\ task'[v] = task[v]
  BY <1>1 DEF OnlyMoves
<1> HIDE DEF reg
<1>5. /\ DOMAIN normal = DOMAIN reg
      /\ \A id \in DOMAIN reg : normal[id].refs = reg[id].refs /\ normal[id].quality = reg[id].quality
  BY <1>3, NormalisedIs
<1> HIDE DEF normal
<1>6. CASE normal = reg /\ registry' = registry /\ UNCHANGED books
  <2>1. Tells(registry) /\ marks' = marks
    BY <1>2, <1>6 DEF Follow, books
  <2>2. Marked(registry)'
    BY <1>6, <2>1 DEF Marked, Tells
  <2> QED
    BY <1>1, <1>4, <1>6, <2>1, <2>2, TellsStays
<1>7. CASE registry' = normal /\ Disturb(w) /\ LoseMarks(w)
  <2>1. ~clashed /\ ~Clash(w) /\ reg = registry
    BY <1>2, <1>7, WritesAlone DEF reg
  <2>2. Tells(registry) /\ marks' = marks
    BY <1>2, <1>7, <2>1 DEF Follow, LoseMarks
  <2>3. Marked(registry)'
    BY <1>5, <1>7, <2>1, <2>2 DEF Marked, Tells
  <2>4. DOMAIN registry' = DOMAIN registry /\ \A id \in DOMAIN registry : registry[id].refs = registry'[id].refs
    BY <1>5, <1>7, <2>1
  <2> QED
    BY <1>1, <1>4, <2>2, <2>3, <2>4, TellsStays
<1> QED
  BY <1>1, <1>6, <1>7

LEMMA MarkTells ==
    ASSUME NEW w \in Workers, WorkInv, AssetTypes, Fresh, Follow, OnlyMoves(w), ImagesGrow,
           Mark(w), ~clashed'
    PROVE  Tells(registry)'
<1> DEFINE n == task[w].id
           id0 == Image(n)
<1>1. pc[w] = "write" /\ UNCHANGED <<game, sprites>>
  BY MarkDoes
<1>2. PICK e : /\ IsEntry(e) /\ WriteEntry(w, e) /\ e.refs = Entry(w).refs
               /\ \/ /\ e.quality = task[w].quality
                     /\ marks' = IF Clash(w) THEN <<>>
                           ELSE [i \in DOMAIN marks \cup {n} |->
                                    IF i = n THEN task[w].quality ELSE marks[i]]
                  \/ e.quality = Entry(w).quality /\ LoseMarks(w)
  BY MarkDoes
<1>3. Disturb(w) /\ registry' = [held[w].registry EXCEPT ![id0] = e]
  BY <1>2, WriteEntryDoes DEF AssetTypes
<1>4. HasRegistry(w) /\ Registered
  BY <1>1 DEF HasRegistry, In, Registered
<1>5. ~clashed /\ ~Clash(w) /\ held[w].registry = registry
  BY <1>3, <1>4, WritesAlone
<1>6. Tells(registry)
  BY <1>4, <1>5 DEF Follow
<1>7. id0 \in DOMAIN registry /\ IsRegistry(registry, Len(images)) /\ Entry(w) = registry[id0]
  BY <1>1, <1>4, <1>5 DEF AssetTypes, HolderTypes, Changing, In, Entry
<1>8. \A v \in Workers : pc[v] \in {"place", "enter"} => pc'[v] = pc[v] /\ task'[v] = task[v]
  BY <1>1 DEF OnlyMoves
<1>o. \A i : Image(i) = id0 => i = n
  BY DEF Image
<1> DEFINE quality == task[w].quality
<1> HIDE DEF id0, n, quality
<1>9. /\ DOMAIN registry' = DOMAIN registry /\ registry'[id0] = e
      /\ \A id \in DOMAIN registry : id # id0 => registry'[id] = registry[id]
  BY <1>2, <1>3, <1>5, <1>7, EntryChanges
<1>10. \A id \in DOMAIN registry : registry[id].refs = registry'[id].refs
  BY <1>2, <1>7, <1>9
<1>11. Marked(registry)'
  <2>1. CASE /\ e.quality = quality
             /\ marks' = [i \in DOMAIN marks \cup {n} |-> IF i = n THEN quality ELSE marks[i]]
    <3>1. ASSUME NEW i \in DOMAIN marks'
          PROVE  Image(i) \in DOMAIN registry' /\ registry'[Image(i)].quality = marks'[i]
      <4>1. CASE i = n
        BY <1>7, <1>9, <2>1, <4>1 DEF id0
      <4>2. CASE i # n
        <5>1. i \in DOMAIN marks /\ marks'[i] = marks[i] /\ Image(i) # id0
          BY <1>o, <2>1, <4>2
        <5>2. Image(i) \in DOMAIN registry /\ registry[Image(i)].quality = marks[i]
          BY <1>6, <5>1 DEF Tells, Marked
        <5> QED
          BY <1>9, <5>1, <5>2
      <4> QED
        BY <4>1, <4>2
    <3> QED
      BY <3>1 DEF Marked
  <2>2. CASE e.quality = Entry(w).quality /\ LoseMarks(w)
    <3>1. marks' = marks
      BY <1>5, <2>2 DEF LoseMarks
    <3> QED
      BY <1>6, <1>7, <1>9, <2>2, <3>1 DEF Tells, Marked
  <2> QED
    BY <1>2, <1>5, <2>1, <2>2 DEF quality
<1> QED
  BY <1>1, <1>6, <1>8, <1>9, <1>10, <1>11, TellsStays

LEMMA CopyTells ==
    ASSUME NEW w \in Workers, WorkInv, AssetTypes, Files, Fresh, Follow, OnlyMoves(w), ImagesGrow,
           CopyFile(w), ~clashed'
    PROVE  Tells(registry)'
<1> DEFINE file == TargetFile(w)
           ref == TargetRef(w)
           name == task[w].name
<1>1. /\ pc[w] = "copy" /\ pc'[w] = "place" /\ task'[w] = task[w]
      /\ DOMAIN sprites' = DOMAIN sprites \cup {file}
      /\ UNCHANGED <<registry, game, books>>
  BY CopyFileDoes DEF AssetTypes
<1>2. Tells(registry)
  BY <1>1 DEF Follow, Registered, HasRegistry, In, books
<1>3. \A v \in Workers : pc[v] \in {"place", "enter"} => pc'[v] = pc[v] /\ task'[v] = task[v]
  BY <1>1 DEF OnlyMoves
<1>4. /\ \A r : Pending(r) => Pending(r)'
      /\ \A id, r : Promoting(id, r) => Promoting(id, r)'
  BY <1>3, PendingStays
<1>5. \A r : r = ref => Pending(r)'
  <2>1. TargetRef(w)' = ref
    BY <1>1, SameTarget
  <2> QED
    BY <1>1, <2>1 DEF Pending, In
<1>6. file = <<name, "png">> \/ file = ref
  BY <1>1, PromotionAsks
<1> HIDE DEF file, ref, name
<1>7. ASSUME NEW r \in Shown(game), r \in DOMAIN sprites' PROVE r \in DOMAIN sprites \/ Pending(r)'
  <2>1. CASE r = ref
    BY <1>5, <2>1
  <2>2. CASE r # ref /\ r = file
    <3>1. r = <<name, "png">> /\ r[2] # "jpg"
      BY <1>6, <2>2
    <3>2. HasFile(r)
      BY DEF Files
    <3> QED
      BY <3>1, <3>2 DEF HasFile
  <2> QED
    BY <1>1, <1>7, <2>1, <2>2
<1>8. Entered(registry)'
  BY <1>1, <1>2, <1>4 DEF Tells, Entered
<1>9. AllBelong(registry)'
  BY <1>1, <1>2, <1>4, <1>7 DEF Tells, AllBelong, Belongs, Shown
<1>10. Marked(registry)'
  BY <1>1, <1>2 DEF Tells, Marked, books
<1> QED
  BY <1>8, <1>9, <1>10 DEF Tells

LEMMA PlaceTells ==
    ASSUME NEW w \in Workers, WorkInv, AssetTypes, Fresh, Follow, OnlyMoves(w), ImagesGrow,
           PlaceSprite(w), ~clashed'
    PROVE  Tells(registry)'
<1> DEFINE was == held[w].game
           id0 == Image(task[w].id)
           ref == TargetRef(w)
<1>1. /\ pc[w] = "place" /\ pc'[w] = "enter" /\ task'[w] = task[w]
      /\ game'.slots = [was.slots EXCEPT ![task[w].slot] = ref]
      /\ DOMAIN game'.promoted = DOMAIN was.promoted \cup {id0}
      /\ game'.promoted[id0] = ref
      /\ \A id \in DOMAIN was.promoted : id # id0 => game'.promoted[id] = was.promoted[id]
      /\ Disturb(w) /\ UNCHANGED <<registry, sprites, marks>>
  BY PlaceSpriteDoes DEF AssetTypes
<1>2. HasRegistry(w) /\ Registered
  BY <1>1 DEF HasRegistry, In, Registered
<1>3. ~clashed /\ \A v \in Workers : v # w => pc[v] \notin HoldSteps
  BY <1>1, <1>2, WritesAlone
<1>4. Tells(registry)
  BY <1>2, <1>3 DEF Follow
<1>5. was = game
  BY <1>1, <1>3 DEF Fresh, HolderFresh, HasGame, In
<1>6. TargetRef(w)' = ref
  BY <1>1, SameTarget
<1>7. \A r : r = ref => Pending(r)'
  BY <1>1, <1>6 DEF Pending, In
<1>8. \A id, r : id = id0 /\ r = ref => Promoting(id, r)'
  BY <1>1, <1>6 DEF Promoting, At
<1>9. \A id, r : ~Promoting(id, r)
  BY <1>1, <1>3 DEF Promoting, At, HoldSteps
<1>10. \A r : Pending(r) => r = ref
  BY <1>1, <1>3 DEF Pending, In, HoldSteps
<1>11. was.slots \in [Slots -> Refs \cup {None}]
  BY <1>1 DEF AssetTypes, HolderTypes, HasGame, In, IsGame
<1> HIDE DEF was, id0, ref
<1>12. Shown(game') \subseteq Shown(game) \cup {ref}
  BY <1>1, <1>5, <1>11 DEF Shown
<1>13. Entered(registry)'
  <2>1. ASSUME NEW id \in DOMAIN registry, id \in DOMAIN game'.promoted
        PROVE  \E r : /\ r = game'.promoted[id]
                      /\ r \in registry[id].refs \/ Promoting(id, r)'
    <3>1. CASE id = id0
      BY <1>1, <1>8, <3>1
    <3>2. CASE id # id0
      <4>1. id \in DOMAIN game.promoted /\ game'.promoted[id] = game.promoted[id]
        BY <1>1, <1>5, <2>1, <3>2
      <4> QED
        BY <1>4, <1>9, <4>1 DEF Tells, Entered
    <3> QED
      BY <3>1, <3>2
  <2> QED
    BY <1>1, <2>1 DEF Entered
<1>14. AllBelong(registry)'
  <2>1. ASSUME NEW r \in Shown(game'), r \in DOMAIN sprites
        PROVE  Belongs(registry, r) \/ Pending(r)'
    <3>1. CASE r = ref
      BY <1>7, <3>1
    <3>2. CASE r # ref
      BY <1>4, <1>10, <1>12, <2>1, <3>2 DEF Tells, AllBelong
    <3> QED
      BY <3>1, <3>2
  <2> QED
    BY <1>1, <2>1 DEF AllBelong, Belongs, Shown
<1>15. Marked(registry)'
  BY <1>1, <1>4 DEF Tells, Marked
<1> QED
  BY <1>13, <1>14, <1>15 DEF Tells

LEMMA EnterTells ==
    ASSUME NEW w \in Workers, WorkInv, AssetTypes, Fresh, Follow, EnterPromotion(w), ~clashed'
    PROVE  Tells(registry)'
<1> DEFINE id0 == Image(task[w].id)
           ref == TargetRef(w)
<1>1. pc[w] = "enter" /\ UNCHANGED <<game, sprites>> /\ LoseMarks(w)
  BY EnterDoes
<1>2. PICK e : /\ IsEntry(e) /\ WriteEntry(w, e)
               /\ e.refs = Entry(w).refs \cup {ref} /\ e.quality = Entry(w).quality
  BY EnterDoes
<1>3. Disturb(w) /\ registry' = [held[w].registry EXCEPT ![id0] = e]
  BY <1>2, WriteEntryDoes DEF AssetTypes
<1>4. HasRegistry(w) /\ Registered
  BY <1>1 DEF HasRegistry, In, Registered
<1>5. /\ ~clashed /\ ~Clash(w) /\ held[w].registry = registry
      /\ \A v \in Workers : v # w => pc[v] \notin HoldSteps
  BY <1>3, <1>4, WritesAlone
<1>6. Tells(registry) /\ marks' = marks
  BY <1>1, <1>4, <1>5 DEF Follow, LoseMarks
<1>7. id0 \in DOMAIN registry /\ IsRegistry(registry, Len(images)) /\ Entry(w) = registry[id0]
  BY <1>1, <1>4, <1>5 DEF AssetTypes, HolderTypes, Changing, In, Entry
<1>8. \A id, r : Promoting(id, r) => id = id0 /\ r = ref
  BY <1>5 DEF Promoting, At, HoldSteps
<1>9. \A r : Pending(r) => r = ref
  BY <1>5 DEF Pending, In, HoldSteps
<1> HIDE DEF id0, ref
<1>10. /\ DOMAIN registry' = DOMAIN registry /\ registry'[id0] = e
       /\ \A id \in DOMAIN registry : id # id0 => registry'[id] = registry[id]
  BY <1>2, <1>3, <1>5, <1>7, EntryChanges
<1>11. /\ \A id \in DOMAIN registry : registry[id].refs \subseteq registry'[id].refs
       /\ \A id \in DOMAIN registry : registry[id].quality = registry'[id].quality
       /\ ref \in registry'[id0].refs
  BY <1>2, <1>7, <1>10
<1>12. Entered(registry)'
  <2>1. ASSUME NEW id \in DOMAIN registry, id \in DOMAIN game.promoted
        PROVE  game.promoted[id] \in registry'[id].refs
    BY <1>6, <1>8, <1>11, <2>1 DEF Tells, Entered
  <2> QED
    BY <1>1, <1>10, <2>1 DEF Entered
<1>13. AllBelong(registry)'
  <2>1. ASSUME NEW r \in Shown(game), r \in DOMAIN sprites
        PROVE  \E id \in DOMAIN registry : r \in registry'[id].refs \/ id = Sprite(r[1])
    <3>1. CASE r = ref
      BY <1>7, <1>11, <3>1
    <3>2. CASE r # ref
      <4>1. Belongs(registry, r)
        BY <1>6, <1>9, <2>1, <3>2 DEF Tells, AllBelong
      <4> QED
        BY <1>11, <4>1 DEF Belongs
    <3> QED
      BY <3>1, <3>2
  <2> QED
    BY <1>1, <1>10, <2>1 DEF AllBelong, Belongs, Shown
<1>14. Marked(registry)'
  BY <1>6, <1>10, <1>11 DEF Tells, Marked
<1> QED
  BY <1>12, <1>13, <1>14 DEF Tells

LEMMA StepTells ==
    ASSUME NEW w \in Workers, WorkInv, DrawInv, AssetTypes, Files, Fresh, Follow,
           RegistryStep(w), UNCHANGED drawing
    PROVE  Follow'
<1> SUFFICES ASSUME ~clashed', Registered' PROVE Tells(registry)'
  BY DEF Follow
<1>0. OnlyMoves(w) /\ HeldShape /\ ImagesGrow
  BY RegistryMoves, SameImages DEF drawing, AssetTypes
<1>1. CASE ReadSources(w) \/ ReadRegistry(w)
  <2>1. /\ pc[w] \in {"rebuild", "snapshot"} /\ UNCHANGED <<registry, game, sprites, books>>
        /\ pc'[w] \notin {"write", "copy", "place", "enter"}
        /\ pc'[w] = "normalise" => registry # None
    BY <1>0, <1>1, ReadSourcesDoes, ReadRegistryDoes
  <2>2. Registered
    <3>1. CASE \E v \in Workers : HasRegistry(v)'
      <4>1. PICK v \in Workers : HasRegistry(v)'
        BY <3>1
      <4>2. CASE v = w
        BY <2>1, <4>1, <4>2 DEF HasRegistry, In, Registered
      <4>3. CASE v # w
        BY <1>0, <4>1, <4>3 DEF OnlyMoves, HasRegistry, In, Registered
      <4> QED
        BY <4>2, <4>3
    <3>2. CASE registry' # None
      BY <2>1, <3>2 DEF Registered
    <3> QED
      BY <3>1, <3>2 DEF Registered
  <2>3. Tells(registry) /\ UNCHANGED marks
    BY <2>1, <2>2 DEF Follow, books
  <2>4. \A v \in Workers : pc[v] \in {"place", "enter"} => pc'[v] = pc[v] /\ task'[v] = task[v]
    BY <1>0, <2>1 DEF OnlyMoves
  <2>5. Marked(registry)'
    BY <2>1, <2>3 DEF Tells, Marked
  <2> QED
    BY <1>0, <2>1, <2>3, <2>4, <2>5, TellsStays
<1>2. CASE WriteBuilt(w)
  BY <1>2, BuiltTellsAll
<1>3. CASE Normalise(w)
  BY <1>0, <1>3, NormaliseTells
<1>4. CASE Mark(w)
  BY <1>0, <1>4, MarkTells
<1>5. CASE CopyFile(w)
  BY <1>0, <1>5, CopyTells
<1>6. CASE PlaceSprite(w)
  BY <1>0, <1>6, PlaceTells
<1>7. CASE EnterPromotion(w)
  BY <1>7, EnterTells
<1> QED
  BY <1>1, <1>2, <1>3, <1>4, <1>5, <1>6, <1>7 DEF RegistryStep

LEMMA FollowStart == Init => Follow
BY DEF Init, WorkInit, RegistryInit, Follow, Registered, HasRegistry, In

LEMMA FollowNext ==
    ASSUME WorkInv, DrawInv, AssetTypes, Files, Fresh, Follow, [Next]_vars
    PROVE  Follow'
<1>1. ASSUME NEW w \in Workers, RegistryStep(w), UNCHANGED drawing PROVE Follow'
  BY <1>1, StepTells
<1>2. CASE Crash
  <2> SUFFICES ASSUME ~clashed', Registered' PROVE Tells(registry)'
    BY DEF Follow
  <2>1. /\ UNCHANGED <<registry, game, sprites, marks, images>>
        /\ ~clashed /\ \A v \in Workers : ~Holding(v)
        /\ \A v \in Workers : pc'[v] = "idle"
    BY <1>2, CrashMoves DEF Crash
  <2>2. registry # None
    BY <2>1 DEF Registered, HasRegistry, In
  <2>3. Tells(registry)
    BY <2>1, <2>2 DEF Follow, Registered
  <2>4. \A v \in Workers : pc[v] \notin {"place", "enter"}
    BY <2>1, HoldingIs DEF HoldSteps
  <2>5. ImagesGrow
    BY <2>1, SameImages
  <2>6. Marked(registry)'
    BY <2>1, <2>3 DEF Tells, Marked
  <2> QED
    BY <2>1, <2>3, <2>4, <2>5, <2>6, TellsStays
<1>3. CASE Elsewhere
  <2> SUFFICES ASSUME ~clashed', Registered' PROVE Tells(registry)'
    BY DEF Follow
  <2>1. UNCHANGED <<registry, game, sprites, marks, clashed>> /\ ImagesGrow
    BY <1>3 DEF Elsewhere, assets, books
  <2>2. Registered
    BY <1>3, <2>1 DEF Elsewhere, Registered, HasRegistry, In, HoldSteps
  <2>3. Tells(registry)
    BY <2>1, <2>2 DEF Follow
  <2>4. \A v \in Workers : pc[v] \in {"place", "enter"} => pc'[v] = pc[v] /\ task'[v] = task[v]
    BY <1>3 DEF Elsewhere, HoldSteps
  <2>5. Marked(registry)'
    BY <2>1, <2>3 DEF Tells, Marked
  <2> QED
    BY <2>1, <2>3, <2>4, <2>5, TellsStays
<1> QED
  BY <1>1, <1>2, <1>3, RegistryOrNot

LEMMA AssetsFollow == AssetTypes /\ Files /\ Follow => AssetsAgree
<1> SUFFICES ASSUME AssetTypes, Files, Follow PROVE AssetsAgree
  OBVIOUS
<1>1. AssetTypeOK
  BY DEF AssetTypes, AssetTypeOK, IsRegistry, IsEntry, IsGame
<1>2. GameHasItsSprites
  BY DEF Files, HasFile, GameHasItsSprites
<1>3. ASSUME registry # None, Resting, ~clashed
      PROVE  /\ \A id \in DOMAIN registry \cap DOMAIN game.promoted :
                   game.promoted[id] \in registry[id].refs
             /\ \A r \in Shown(game) \cap DOMAIN sprites : \E id \in DOMAIN registry :
                   r \in registry[id].refs \/ id = Sprite(r[1])
             /\ \A i \in DOMAIN marks : registry[Image(i)].quality = marks[i]
  <2>1. Tells(registry)
    BY <1>3 DEF Follow, Registered
  <2>2. \A v \in Workers : pc[v] \notin HoldSteps
    BY <1>3, HoldingIs DEF Resting
  <2>3. \A id, r : ~Promoting(id, r) /\ ~Pending(r)
    BY <2>2 DEF Promoting, Pending, At, In, HoldSteps
  <2> QED
    BY <2>1, <2>3 DEF Tells, Entered, AllBelong, Belongs, Marked
<1>4. RegistryFollowsGame
  BY <1>3 DEF RegistryFollowsGame
<1> QED
  BY <1>1, <1>2, <1>4 DEF AssetsAgree

\* The registry, the game's manifest and the files of sprites agree after a
\* rebuild nobody disturbed, and a sprite the game shows has its file at all
\* times, even if the sidecar ends in the midst of a promotion
\* (asset_registry_service.py): for every number of workers, images, names and
\* places of the game.
THEOREM AssetsAgreed == Spec => []AssetsAgree
<1>1. Init => WorkInv /\ DrawInv /\ RegistryInv
  BY WorkStarts, DrawsStart, TypesStart, FilesStart, FreshStart, FollowStart DEF RegistryInv
<1>2. WorkInv /\ DrawInv /\ RegistryInv /\ [Next]_vars => WorkInv' /\ DrawInv' /\ RegistryInv'
  BY WorkStep, DrawsStep, TypesNext, FilesNext, FreshNext, FollowNext DEF RegistryInv
<1>3. RegistryInv => AssetsAgree
  BY AssetsFollow DEF RegistryInv
<1> QED
  BY <1>1, <1>2, <1>3, PTL DEF Spec
==============================================================================
