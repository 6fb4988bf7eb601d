----------------------------- MODULE Transcripts -----------------------------
(***************************************************************************)
(* What the project keeps of threads, beside the app-server that runs      *)
(* them: a transcript of each thread as it was read last                   *)
(* (task_conversation_service.py, read_thread in runtime_service.py), from *)
(* which the conversation of a task is put together, and the last plan of  *)
(* each thread (project_context_service.py), which notifications change    *)
(* and every change of the thread cache writes back.                       *)
(*                                                                         *)
(* Abstracted: what is in a turn, which is its number here, the last 60 of *)
(* them, handoffs as turns; goals, settings and names, which go the way of *)
(* plans.  Times are seconds: a turn begins at a whole second, and the 999 *)
(* milliseconds that are granted to it make up for that.                   *)
(***************************************************************************)
EXTENDS Workers

CONSTANTS
    Threads,
    First,          \* thread the task begins with
    MaxTurns,       \* bound: turns taken
    MaxClock        \* bound: seconds

ASSUME TranscriptAssumption == First \in Threads /\ {MaxTurns, MaxClock} \subseteq Nat

VARIABLES
    clock,
    began,          \* of each turn: its thread, and the second it began
    history,        \* turns of each thread the app-server has, copies included
    lanes,          \* provider_threads of the task: route and created_at
    transcripts,    \* task_transcripts.json: turns of each thread that was read
    plans,          \* project context: number of the last plan of each thread
    answer,         \* of each worker: what was read of its thread, or its plan
    copy,           \* and the file it is about to write
    stale           \* workers that hold what others have overwritten since

served == <<clock, began, history>>
kept == <<lanes, transcripts, plans>>
threadState == <<served, kept, answer, copy, stale>>

NoAnswer == [turns |-> {}, cached |-> FALSE, plan |-> 0]
NoCopy == [plans |-> <<>>, turns |-> <<>>]
Put(f, x, y) == [z \in DOMAIN f \cup {x} |-> IF z = x THEN y ELSE f[z]]

Reads == [kind : {"read"}, thread : Threads]
Plans == [kind : {"plan"}, thread : Threads]
Forks == [kind : {"fork"}, thread : Threads, from : Threads, route : {"fork"}]
Handoffs == [kind : {"handoff"}, thread : Threads, route : {"first", "other"}]
ThreadRequests == Reads \cup Plans \cup Forks \cup Handoffs

\* One thread is made at a time (_runtime_operation_lock), and one thread of the
\* client takes up the notifications in order.
Alone(r) ==
    \A v \in Workers : CASE r.kind = "read" -> TRUE
                         [] r.kind = "plan" -> task[v].kind # "plan"
                         [] OTHER -> task[v].kind \notin {"fork", "handoff"}

BeginThread(w, r) ==
    /\ r \in Reads \cup Plans <=> r.thread \in DOMAIN history
    /\ r \in Forks => r.from \in DOMAIN lanes
    /\ Alone(r)
    /\ Take(w, r, CASE r.kind = "read" -> "ask" [] r.kind = "plan" -> "plans" [] OTHER -> "start")
    /\ answer' = [answer EXCEPT ![w].plan = IF r.kind = "plan" THEN asked' ELSE 0]
    /\ UNCHANGED <<served, kept, copy, stale>>

EndThread(w) ==
    /\ answer' = [answer EXCEPT ![w] = NoAnswer]
    /\ copy' = [copy EXCEPT ![w] = NoCopy]
    /\ Done(w)

\* thread/start or thread/fork; the app-server copies the turns.
StartThread(w) ==
    /\ At(w, "start")
    /\ history' = Put(history, task[w].thread,
                      IF task[w].kind = "fork" THEN history[task[w].from] ELSE {})
    /\ Goto(w, "hint")
    /\ UNCHANGED <<bounds, task, clock, began, kept, answer, copy, stale>>

\* bind_thread: of two live threads of a route the newer one is kept
\* (_prune_provider_threads); a fork is read then.
Join(w) ==
    /\ At(w, "join")
    /\ LET others == {t \in DOMAIN lanes : lanes[t].route # task[w].route}
       IN  lanes' = Put([t \in others |-> lanes[t]], task[w].thread,
                        [route |-> task[w].route, since |-> clock])
    /\ IF task[w].kind = "fork" THEN Goto(w, "ask") /\ UNCHANGED <<task, answer, copy>>
       ELSE EndThread(w)
    /\ UNCHANGED <<bounds, served, transcripts, plans, stale>>

-----------------------------------------------------------------------------
\* read_thread: the app-server answers, and the cache is written.
Answer(w) ==
    /\ At(w, "ask")
    /\ answer' = [answer EXCEPT ![w].turns = history[task[w].thread]]
    /\ Goto(w, IF task[w].kind = "fork" THEN "turns" ELSE "hint")
    /\ UNCHANGED <<bounds, task, served, kept, copy, stale>>

\* The read is deferred while a turn of another runtime runs, or fails: a thread
\* of the cache has no turns.
FallBack(w) ==
    /\ At(w, "ask")
    /\ answer' = [answer EXCEPT ![w].cached = TRUE]
    /\ Goto(w, "turns")
    /\ UNCHANGED <<bounds, task, served, kept, copy, stale>>

\* record_thread_hint and record_runtime_notification.
ReadPlans(w) ==
    /\ In(w, {"hint", "plans"})
    /\ copy' = [copy EXCEPT ![w].plans = plans]
    /\ Goto(w, "plan")
    /\ UNCHANGED <<bounds, task, served, kept, answer, stale>>

WritePlans(w) ==
    LET t == task[w].thread
        kind == task[w].kind IN
    /\ At(w, "plan")
    /\ plans' = IF kind = "plan" THEN Put(copy[w].plans, t, answer[w].plan)
                ELSE IF t \in DOMAIN copy[w].plans THEN copy[w].plans ELSE Put(copy[w].plans, t, 0)
    /\ stale' = [stale EXCEPT !.plans = (@ \cup {v \in Workers : At(v, "plan")}) \ {w}]
    /\ IF kind = "plan" THEN EndThread(w)
       ELSE /\ copy' = [copy EXCEPT ![w] = NoCopy]
            /\ Goto(w, IF kind = "read" THEN "turns" ELSE "join")
            /\ UNCHANGED <<task, answer>>
    /\ UNCHANGED <<bounds, served, lanes, transcripts>>

\* record_thread_snapshot: a thread that has no task is left out.
ReadTranscripts(w) ==
    /\ At(w, "turns")
    /\ IF task[w].thread \in DOMAIN lanes
       THEN copy' = [copy EXCEPT ![w].turns = transcripts] /\ Goto(w, "keep") /\ UNCHANGED <<task, answer>>
       ELSE EndThread(w)
    /\ UNCHANGED <<bounds, served, kept, stale>>

\* Mutant: the file holds the thread alone.
WriteAlone(w) ==
    /\ At(w, "keep")
    /\ transcripts' = [t \in {task[w].thread} |-> answer[w].turns]
    /\ EndThread(w)
    /\ UNCHANGED <<bounds, served, lanes, plans, stale>>

\* Whoever holds the file, or an older answer about this thread, is behind now.
WriteTranscript(w) ==
    LET behind(v) == At(v, "keep")
                     \/ /\ task[v].kind \in {"read", "fork"} /\ task[v].thread = task[w].thread
                        /\ In(v, {"hint", "plan", "turns"})
    IN
    /\ At(w, "keep")
    /\ transcripts' = Put(copy[w].turns, task[w].thread, answer[w].turns)
    /\ stale' = [stale EXCEPT !.turns = (@ \cup {v \in Workers : behind(v)}) \ {w}]
    /\ EndThread(w)
    /\ UNCHANGED <<bounds, served, lanes, plans>>

ThreadStep(w) ==
    \/ StartThread(w) \/ Join(w) \/ Answer(w) \/ FallBack(w)
    \/ ReadPlans(w) \/ WritePlans(w) \/ ReadTranscripts(w) \/ WriteTranscript(w)

-----------------------------------------------------------------------------
\* The app-server: a turn of a thread of the task begins; time passes.
TakeTurn(t) ==
    /\ t \in DOMAIN lanes /\ Len(began) < MaxTurns
    /\ began' = Append(began, [in |-> t, at |-> clock])
    /\ history' = [history EXCEPT ![t] = @ \cup {Len(began')}]
    /\ UNCHANGED <<work, clock, kept, answer, copy, stale>>

Tick ==
    /\ clock < MaxClock
    /\ clock' = clock + 1
    /\ UNCHANGED <<work, began, history, kept, answer, copy, stale>>

ThreadInit ==
    /\ clock = 0 /\ began = <<>>
    /\ history = [t \in {First} |-> {}]
    /\ lanes = [t \in {First} |-> [route |-> "first", since |-> 0]]
    /\ transcripts = <<>> /\ plans = <<>>
    /\ answer = [w \in Workers |-> NoAnswer]
    /\ copy = [w \in Workers |-> NoCopy]
    /\ stale = [plans |-> {}, turns |-> {}]

-----------------------------------------------------------------------------
Recorded(t) == IF t \in DOMAIN transcripts THEN transcripts[t] ELSE {}

\* Mutant: turns from before a thread joined the task are shown, too.
ShowAll(t) == Recorded(t)

\* conversation: turns of a thread that began before it joined are left out.
TurnsShown(t) == {n \in Recorded(t) : began[n].at >= lanes[t].since}

\* The conversation of a task shows every turn that was recorded in the thread it
\* was taken in, if the task still has the thread, and the copy a fork has of it
\* only if it began in the second of the fork.
TurnsAreShownOnce ==
    \A t \in DOMAIN lanes : \A n \in Recorded(t) :
        IF began[n].in = t THEN n \in TurnsShown(t)
        ELSE n \in TurnsShown(t) => began[n].at = lanes[t].since

\* A transcript loses turns only by a read of that thread that was deferred or
\* failed, or by one that had read the thread, or the file, before another wrote
\* it; and a plan is replaced only by a later one, but for a thread of which the
\* file was read before and written after that.
ThreadFilesAreKept ==
    [][\A w \in Workers :
        /\ At(w, "keep") /\ pc'[w] # "keep" /\ w \notin stale.turns =>
              \A t \in DOMAIN transcripts :
                  \/ t \in DOMAIN transcripts' /\ transcripts[t] \subseteq transcripts'[t]
                  \/ t = task[w].thread /\ answer[w].cached
        /\ At(w, "plan") /\ pc'[w] # "plan" /\ w \notin stale.plans =>
              \A t \in DOMAIN plans : plans'[t] >= plans[t]]_threadState
=============================================================================
