---------------------------- MODULE ContextGuard ----------------------------
(***************************************************************************)
(* The two readers of the runtime's event log that judge the context of a  *)
(* thread: the guard of RuntimeService, which refuses turns, and           *)
(* RuntimeSupervisorService, which advises the user.                       *)
(*                                                                         *)
(* Both look for the latest event of a kind, so of the log the model keeps *)
(* for each thread and kind when it was last recorded.  The handler of a   *)
(* turn holds the operation lock and reads the log four times, while       *)
(* notifications go on arriving.                                           *)
(*                                                                         *)
(* Abstracted: a time is the number of events so far (no two events at the *)
(* same instant) and usage is a percentage out of a few.  Notifications    *)
(* are those of the app-server's protocol (external).                      *)
(***************************************************************************)
EXTENDS Naturals, FiniteSets, FiniteSetsExt

CONSTANTS
    Threads,
    None,           \* no thread
    Existing,       \* threads the app-server knows at first
    Percents,       \* context_percent of a token usage
    MaxEvents,      \* bound: events recorded
    MaxTurns,       \* bound: turns begun
    MaxGrants,      \* bound: decisions to continue once
    MaxRestarts     \* bound: exits of the app-server, with the sidecar or not

ASSUME GuardAssumption ==
    /\ None \notin Threads
    /\ Existing \subseteq Threads
    /\ Percents \subseteq Nat
    /\ MaxEvents \in Nat /\ MaxTurns \in Nat /\ MaxGrants \in Nat
    /\ MaxRestarts \in Nat

Kinds == {"usage", "started", "completed", "compacted", "status", "failed",
          "other", "missing"}

VARIABLES
    clock,          \* events recorded so far
    at,             \* at[t][k]: when k was last recorded for t, 0 for never
    usage,          \* percent and turn of the latest usage of t
    begun,          \* turn of the latest compaction started in t
    status,         \* status of the latest status event of t
    silent,         \* how long t is silent: 90, 180 or 240 s are 1, 2 and 3
    modal,          \* threads with a modal pending
    alive,          \* threads the app-server knows
    running,        \* running[t]: turn the app-server runs in t, 0 for none
    last,           \* status of the last turn of t, as thread/read tells it
    loaded,         \* threads it has in memory
    compacting,     \* threads it is compacting
    turns,          \* turns begun so far
    allowance,      \* _context_guard_continue_once
    starter,        \* the handler in start_turn: its thread, step and token
    granted,        \* granted[t]: decisions to continue t once
    hot,            \* hot[t]: turns sent although usage was known to be high
    cut,            \* threads whose compaction ended without an event
    orphans,        \* threads whose turn ended without one
    restarts

events == <<clock, at, usage, begun, status, silent>>
runs == <<running, last, loaded, turns>>
server == <<alive, compacting, modal, runs>>
history == <<granted, hot, cut, orphans, restarts>>
vars == <<events, server, allowance, starter, history>>

NoToken == [percent |-> 0, turn |-> 0, at |-> 0]
Free == [thread |-> None, step |-> "free", token |-> NoToken, since |-> 0]

-----------------------------------------------------------------------------
(* The log.                                                                *)

Recorded(t, k) ==
    /\ clock < MaxEvents
    /\ clock' = clock + 1
    /\ at' = [at EXCEPT ![t][k] = clock']
    /\ silent' = [silent EXCEPT ![t] = IF k = "missing" THEN @ ELSE 0]

Notify(t, k) ==
    Recorded(t, k)
    /\ UNCHANGED <<allowance, starter, granted, hot, orphans, restarts>>

LatestToken(t) == [usage[t] EXCEPT !.at = at[t]["usage"]]

CompletedAt(t) == Max({at[t]["completed"], at[t]["compacted"]})

\* Mutant: thread/compacted is not known to end a compaction.
RunningUntilItem(t) ==
    IF at[t]["started"] > at[t]["completed"] THEN begun[t] ELSE 0

\* The latest event of a compaction is that it started.
RunningCompaction(t) ==
    IF at[t]["started"] > CompletedAt(t) THEN begun[t] ELSE 0

MissingAt(t) == at[t]["missing"]

Judged(token, missing, completed, compaction) ==
    CASE token.at = 0                               -> "ok"
      [] missing > token.at                         -> "missing"
      [] completed > token.at                       -> "compacted"
      [] compaction # 0 /\ compaction = token.turn  -> "compacting"
      [] OTHER -> IF token.percent >= 90 THEN "pause" ELSE "ok"

\* _context_guard_state, when nothing is recorded between its reads
Level(t) == Judged(LatestToken(t), MissingAt(t), CompletedAt(t),
                   RunningCompaction(t))

-----------------------------------------------------------------------------
(* The supervisor.                                                         *)

StatusAt(t) == Max({at[t]["status"], at[t]["failed"]})

ThreadStatus(t) == IF MissingAt(t) > StatusAt(t) THEN "missing" ELSE status[t]

\* thread/read: the thread looks broken although its last turn went well.
StaleFailure(t) ==
    /\ t \in alive /\ last[t] = "completed"
    /\ t \notin loaded \/ status[t] = "systemError"

ShownStatus(t) == IF StaleFailure(t) THEN "idle" ELSE ThreadStatus(t)

RuntimeError(t) == at[t]["failed"] > 0 /\ ~StaleFailure(t)

\* Mutant: a modal of the sidecar's own is not known to make a turn wait.
WaitingByFlag(t) == ShownStatus(t) = "waiting"

Waiting(t) == ShownStatus(t) = "waiting" \/ t \in modal

Active(t) == ShownStatus(t) \in {"active", "waiting"}

Watchdog(t) ==
    CASE ~Active(t) \/ silent[t] = 0 -> "ok"
      [] Waiting(t)                  -> "waiting"
      [] OTHER -> <<"warning", "danger", "pause">>[silent[t]]

LaterActivity(t) == Max({at[t][k] : k \in {"usage", "compacted", "status", "failed",
                                        "other"}})

\* _latest_compaction knows a compaction's end by its item only.
Compaction(t) ==
    LET start == at[t]["started"] end == at[t]["completed"] IN
    IF end > start THEN "completed"
    ELSE IF start = 0 THEN "none"
    ELSE IF LaterActivity(t) > start THEN "stale_running" ELSE "running"

Percent(t) == usage[t].percent

Guard(t) ==
    LET p == Percent(t) IN
    CASE Compaction(t) = "completed" /\ at[t]["completed"] > at[t]["usage"]
                        -> "compacted"
      [] p >= 90        -> IF Active(t) /\ Waiting(t) THEN "approval_wait"
                           ELSE "pause"
      [] p \in 80 .. 89 -> "danger"
      [] p \in 70 .. 79 -> "warning"
      [] OTHER          -> "ok"

-----------------------------------------------------------------------------
(* Notifications of the app-server (external).                             *)

ReportUsage(t, p) ==
    /\ running[t] # 0
    /\ Notify(t, "usage")
    /\ usage' = [usage EXCEPT ![t] = [percent |-> p, turn |-> running[t], at |-> 0]]
    /\ UNCHANGED <<begun, status, server, cut>>

BeginCompaction(t) ==
    /\ running[t] # 0 /\ t \notin compacting
    /\ Notify(t, "started")
    /\ begun' = [begun EXCEPT ![t] = running[t]]
    /\ compacting' = compacting \cup {t}
    /\ UNCHANGED <<usage, status, alive, runs, modal, cut>>

EndCompaction(t, k) ==
    /\ t \in compacting /\ k \in {"completed", "compacted"}
    /\ Notify(t, k)
    /\ compacting' = compacting \ {t}
    /\ cut' = cut \ {t}
    /\ UNCHANGED <<usage, begun, status, alive, runs, modal>>

OtherNotification(t) ==
    /\ running[t] # 0
    /\ Notify(t, "other")
    /\ UNCHANGED <<usage, begun, status, server, cut>>

\* A request for an approval of the app-server's, and its answer, change the
\* flags of the status; a native tool's (flagged is FALSE) is a modal alone.
AskApproval(t, flagged) ==
    /\ running[t] # 0 /\ t \notin modal \cup compacting
    /\ Notify(t, IF flagged THEN "status" ELSE "other")
    /\ modal' = modal \cup {t}
    /\ status' = [status EXCEPT ![t] = IF flagged THEN "waiting" ELSE @]
    /\ UNCHANGED <<usage, begun, alive, runs, compacting, cut>>

Approved(t) ==
    /\ t \in modal
    /\ Notify(t, "status")
    /\ modal' = modal \ {t}
    /\ status' = [status EXCEPT ![t] = "active"]
    /\ UNCHANGED <<usage, begun, alive, runs, compacting, cut>>

EndTurn(t, end) ==
    /\ running[t] # 0 /\ t \notin compacting \cup modal
    /\ Notify(t, IF end = "failed" THEN "failed" ELSE "status")
    /\ running' = [running EXCEPT ![t] = 0]
    /\ last' = [last EXCEPT ![t] = end]
    /\ status' = [status EXCEPT
                    ![t] = IF end = "failed" THEN "systemError" ELSE "idle"]
    /\ UNCHANGED <<usage, begun, alive, compacting, turns, loaded, modal, cut>>

TimePasses ==
    /\ \E t \in Threads : silent[t] < 3
    /\ silent' = [t \in Threads |-> Min({silent[t] + 1, 3})]
    /\ UNCHANGED <<clock, at, usage, begun, status, server, allowance, starter,
                   history>>

\* The app-server exits; the next one knows the threads it can read.
Exit(kept) ==
    /\ restarts < MaxRestarts
    /\ restarts' = restarts + 1
    /\ alive' = alive \cap kept
    /\ running' = [t \in Threads |-> 0]
    /\ last' = [t \in Threads |-> IF running[t] = 0 THEN last[t]
                                  ELSE "interrupted"]
    /\ loaded' = {}
    /\ orphans' = orphans \cup {t \in Threads : running[t] # 0}
    /\ cut' = cut \cup compacting
    /\ compacting' = {}
    /\ modal' = {}
    /\ UNCHANGED <<turns, events, granted, hot>>

ServerExits == \E kept \in SUBSET Threads :
    Exit(kept) /\ UNCHANGED <<allowance, starter>>

SidecarRestarts == \E kept \in SUBSET Threads :
    Exit(kept) /\ allowance' = {} /\ starter' = Free

-----------------------------------------------------------------------------
(* start_turn.                                                             *)

Step(s) == starter' = [starter EXCEPT !.step = s]

Quiet == UNCHANGED <<events, server, allowance, history>>

ReadToken(t) ==
    /\ starter = Free
    /\ starter' = [thread |-> t, token |-> LatestToken(t), since |-> clock,
                   step |-> IF at[t]["usage"] = 0 THEN "send" ELSE "missing"]
    /\ Quiet

ReadMissing ==
    /\ starter.step = "missing"
    /\ Step(IF MissingAt(starter.thread) > starter.token.at THEN "send"
            ELSE "completed")
    /\ Quiet

ReadCompleted ==
    /\ starter.step = "completed"
    /\ Step(IF CompletedAt(starter.thread) > starter.token.at THEN "send"
            ELSE "running")
    /\ Quiet

ReadRunning ==
    /\ starter.step = "running"
    /\ LET level == Judged(starter.token, 0, 0, RunningCompaction(starter.thread)) IN
       starter' = CASE level = "compacting" -> Free
                    [] level = "pause" -> [starter EXCEPT !.step = "exists"]
                    [] OTHER -> [starter EXCEPT !.step = "send"]
    /\ Quiet

\* thread/read: a thread that is gone is not blocked, it is replaced.
AskExists ==
    LET t == starter.thread IN
    /\ starter.step = "exists"
    /\ IF t \in alive THEN Step("decide") /\ UNCHANGED events
       ELSE /\ Recorded(t, "missing")
            /\ Step("send")
            /\ UNCHANGED <<usage, begun, status>>
    /\ UNCHANGED <<server, allowance, history>>

\* Mutant: a decision to continue once is not used up.
DecideKeeps ==
    /\ starter.step = "decide"
    /\ IF starter.thread \in allowance THEN Step("send") ELSE starter' = Free
    /\ Quiet

Decide ==
    LET t == starter.thread IN
    /\ starter.step = "decide"
    /\ IF t \in allowance THEN allowance' = allowance \ {t} /\ Step("send")
       ELSE starter' = Free /\ UNCHANGED allowance
    /\ UNCHANGED <<events, server, history>>

BeginTurn(t) ==
    /\ turns < MaxTurns
    /\ turns' = turns + 1
    /\ running' = [running EXCEPT ![t] = turns']
    /\ last' = [last EXCEPT ![t] = "inProgress"]
    /\ loaded' = loaded \cup {t}
    /\ orphans' = orphans \ {t}
    /\ Recorded(t, "status")
    /\ status' = [status EXCEPT ![t] = "active"]
    /\ UNCHANGED <<usage, begun>>

\* Usage was high before the handler began, and nothing has relieved it.
Hot(t) == /\ usage[t].percent >= 90
          /\ at[t]["usage"] \in 1 .. starter.since
          /\ Max({MissingAt(t), CompletedAt(t)}) <= at[t]["usage"]

\* turn/start; a turn that runs is replaced, its compaction abandoned.
SendTurn ==
    LET t == starter.thread IN
    /\ starter.step = "send"
    /\ starter' = Free
    /\ IF t \in alive
       THEN /\ BeginTurn(t)
            /\ hot' = [hot EXCEPT ![t] = @ + (IF Hot(t) THEN 1 ELSE 0)]
            /\ cut' = cut \cup (compacting \cap {t})
            /\ compacting' = compacting \ {t}
            /\ modal' = modal \ {t}
       ELSE UNCHANGED <<events, runs, hot, cut, orphans, compacting, modal>>
    /\ UNCHANGED <<alive, allowance, granted, restarts>>

-----------------------------------------------------------------------------
(* Decisions of the user (RuntimeSupervisorService.decision): they do not  *)
(* take the operation lock.  A fork takes it, makes a thread without       *)
(* events and is left out.                                                 *)

ContinueOnce(t) ==
    /\ granted[t] < MaxGrants
    /\ granted' = [granted EXCEPT ![t] = @ + 1]
    /\ allowance' = allowance \cup {t}
    /\ UNCHANGED <<events, server, starter, hot, cut, orphans, restarts>>

\* thread/compact/start runs as a turn of its own.
CompactThread(t) ==
    /\ \/ /\ t \notin alive
          /\ Recorded(t, "missing")
          /\ UNCHANGED <<usage, begun, status, server, orphans>>
       \/ /\ t \in alive /\ running[t] = 0
          /\ BeginTurn(t)
          /\ UNCHANGED <<alive, compacting, modal>>
    /\ UNCHANGED <<allowance, starter, granted, hot, cut, restarts>>

InterruptTurn(t) ==
    /\ running[t] # 0
    /\ Recorded(t, "status")
    /\ status' = [status EXCEPT ![t] = "idle"]
    /\ running' = [running EXCEPT ![t] = 0]
    /\ last' = [last EXCEPT ![t] = "interrupted"]
    /\ cut' = cut \cup (compacting \cap {t})
    /\ compacting' = compacting \ {t}
    /\ modal' = modal \ {t}
    /\ UNCHANGED <<usage, begun, alive, turns, loaded, allowance, starter, granted,
                   hot, orphans, restarts>>

Decision(t) == ContinueOnce(t) \/ CompactThread(t) \/ InterruptTurn(t)

-----------------------------------------------------------------------------
Init ==
    /\ clock = 0
    /\ at = [t \in Threads |-> [k \in Kinds |-> 0]]
    /\ usage = [t \in Threads |-> NoToken]
    /\ begun = [t \in Threads |-> 0]
    /\ status = [t \in Threads |-> "unknown"]
    /\ silent = [t \in Threads |-> 0]
    /\ modal = {} /\ alive = Existing /\ compacting = {} /\ loaded = {}
    /\ running = [t \in Threads |-> 0] /\ last = [t \in Threads |-> "none"]
    /\ turns = 0 /\ allowance = {} /\ starter = Free
    /\ granted = [t \in Threads |-> 0] /\ hot = granted
    /\ cut = {} /\ orphans = {} /\ restarts = 0

Serve ==
    \/ ReadMissing \/ ReadCompleted \/ ReadRunning \/ AskExists \/ Decide
    \/ SendTurn

Next ==
    \/ Serve \/ ServerExits \/ SidecarRestarts \/ TimePasses
    \/ \E t \in Threads :
        \/ ReadToken(t) \/ Decision(t)
        \/ BeginCompaction(t) \/ OtherNotification(t)
        \/ Approved(t)
        \/ \E flagged \in BOOLEAN : AskApproval(t, flagged)
        \/ \E end \in {"completed", "failed"} : EndTurn(t, end)
        \/ \E p \in Percents : ReportUsage(t, p)
        \/ \E k \in Kinds : EndCompaction(t, k)

Spec == Init /\ [][Next]_vars

-----------------------------------------------------------------------------
(* Properties.                                                             *)

TypeOK ==
    /\ clock \in 0 .. MaxEvents /\ turns \in 0 .. MaxTurns
    /\ at \in [Threads -> [Kinds -> 0 .. clock]]
    /\ usage \in [Threads -> [percent : Percents \cup {0}, turn : 0 .. turns,
                             at : {0}]]
    /\ begun \in [Threads -> 0 .. turns] /\ running \in [Threads -> 0 .. turns]
    /\ status \in [Threads -> {"unknown", "active", "waiting", "idle",
                               "systemError"}]
    /\ silent \in [Threads -> 0 .. 3]
    /\ last \in [Threads -> {"none", "inProgress", "completed", "failed",
                             "interrupted"}]
    /\ modal \subseteq Threads /\ alive \subseteq Threads
    /\ compacting \subseteq Threads /\ loaded \subseteq Threads
    /\ allowance \subseteq Threads
    /\ cut \subseteq Threads /\ orphans \subseteq Threads
    /\ starter.thread \in Threads \cup {None}
    /\ starter.step \in {"free", "missing", "completed", "running", "exists",
                         "decide", "send"}
    /\ granted \in [Threads -> 0 .. MaxGrants] /\ hot \in [Threads -> Nat]

\* Turns that were sent to a thread with more than 90% of its context in use,
\* known when start_turn began and not compacted since, are no more than the
\* decisions to continue once (allow_context_guard_continue_once): a decision
\* lets one turn through, however its reads, the decisions and the app-server
\* interleave.  A part of TypeOK is that one turn is started at a time.
HotTurnsAreAllowed ==
    /\ TypeOK
    /\ \A t \in Threads : hot[t] + (IF t \in allowance THEN 1 ELSE 0) <= granted[t]

\* start_turn says that a compaction is running only while the app-server is
\* compacting, or when a compaction was cut short by its exit, an interrupt or
\* another turn (_latest_running_compaction).
BlockedMeansBusy == \A t \in Threads :
    Level(t) = "compacting" => t \in compacting \cup cut

\* When the runtime refuses turns for the context, the supervisor, which reads
\* the log by rules of its own, asks for a decision or for the approval that
\* stands before it (_guard): the refusal is never unexplained.
RefusalIsShown == \A t \in Threads :
    Level(t) = "pause" => Guard(t) \in {"pause", "approval_wait"}

\* The guard refuses turns for a reason that exists, and the supervisor says
\* which.
RefusalsAreExplained == BlockedMeansBusy /\ RefusalIsShown

\* The watchdog says that a turn is stalled (_turn_watchdog) exactly when one
\* runs, was not heard of for 240 s and waits for nobody, or when its
\* app-server is gone: it never asks for the interrupt of a turn that waits
\* for the user, be it on an approval of the app-server or a native tool's.
StallsAreTold == \A t \in Threads :
    /\ running[t] # 0 /\ silent[t] = 3 /\ t \notin modal => Watchdog(t) = "pause"
    /\ Watchdog(t) = "pause" => t \notin modal /\ (running[t] # 0 \/ t \in orphans)

\* A thread whose last turn failed does not look merely idle: the error is
\* shown, and taken for stale only after a turn that went well
\* (_latest_runtime_error, _thread_snapshot_has_stale_completed_failure).
FailuresAreShown == \A t \in Threads :
    last[t] = "failed" => RuntimeError(t) /\ ShownStatus(t) \notin {"idle", "active"}

\* The inspector tells a turn that is stalled or failed from one that runs.
TurnsAreWatched == StallsAreTold /\ FailuresAreShown
=============================================================================
