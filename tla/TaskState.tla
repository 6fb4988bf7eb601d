----------------------------- MODULE TaskState -----------------------------
(***************************************************************************)
(* The tasks of a project (task_service.py), the pointers the project file *)
(* keeps to them (project_service.py), and the requests that change both:  *)
(* the task routes of server.py, create_thread and start_turn of           *)
(* RuntimeService, goal and plan notifications, checkpoints                *)
(* (checkpoint_service.py) and the opening of a project.                   *)
(*                                                                         *)
(* tasks.json and the project file are read, changed in memory and written *)
(* back, each file in one atomic step and without any lock, by whichever   *)
(* threads serve the requests.  A request is a sequence of rounds; a round *)
(* reads tasks.json and the project held in memory, writes tasks.json, and *)
(* then synchronises the project: read the project file into memory, patch *)
(* the memory, write the file.  start_turn and create_thread exclude each  *)
(* other by the operation lock of RuntimeService.                          *)
(*                                                                         *)
(* Abstracted: a thread keeps its route (provider, model, effort) and its  *)
(* settings are plausible; goals, plans, titles, references and handoff    *)
(* events are not kept, only the writes that record them; fork lists,      *)
(* recent lists, the bounds of 40 threads and 100 tasks and closing the    *)
(* project are left out; a read takes tasks.json and the memory at once.   *)
(***************************************************************************)
EXTENDS Naturals, Sequences, SequencesExt, FiniteSets, Positions

CONSTANTS
    Requests,
    Menu,       \* Menu[r]: the kinds of request r may be
    Threads,    \* thread ids of the app-server
    RouteOf,    \* route a thread is made for
    Existing,   \* the threads of the first tasks, one per task
    None,
    Together,   \* the sets of requests that may be at work at the same time
    Called,     \* bound: threads tools are called for
    Apart,      \* bound: kinds that are not at work together, sets of two or one
    MaxTasks,   \* bound: tasks ever created
    MaxLost     \* bound: threads the app-server loses

Kinds == {"create", "thread", "switch", "record", "notify", "focus", "tool",
          "snapshot", "turn", "save", "load", "open", "restart"}
Routes == {RouteOf[t] : t \in Threads}

Maybe(S) == S \cup {None}

TaskIds == Nat \ {0}
Entries == [thread : Threads, missing : BOOLEAN]
Tasks == [id : TaskIds, threads : Seq(Entries), active : Maybe(Threads)]
TaskFiles == [current : TaskIds, tasks : Seq(Tasks)]
Pointed == [task : TaskIds, thread : Maybe(Threads)]

ASSUME TaskAssumption ==
    /\ Existing \in Seq(Threads) /\ Existing # <<>>
    /\ \A i, j \in DOMAIN Existing : Existing[i] = Existing[j] => i = j
    /\ None \notin Requests \cup Threads \cup Kinds /\ None \notin TaskIds
    /\ None \notin Entries \cup Tasks \cup TaskFiles
    /\ Menu \in [Requests -> SUBSET Kinds]
    /\ Together \subseteq SUBSET Requests
    /\ Called \subseteq Threads /\ Apart \subseteq SUBSET Kinds
    /\ MaxLost \in Nat /\ MaxTasks \in Nat /\ Len(Existing) <= MaxTasks

VARIABLES
    disk,       \* tasks.json: its current_task_id and its tasks, latest first
    file,       \* the project file: current_task_id and current_thread_id
    memory,     \* the same of ProjectService.current_project
    saves,      \* the checkpoints: what each holds of disk and file
    made,       \* threads the app-server has made
    live,       \* those it still knows
    born,       \* tasks created so far
    kind,       \* kind[r]: what request r is, None before it arrives
    plan,       \* plan[r]: the rounds request r still has to do
    stage,      \* stage[r]: the step of the first of them it takes next
    task,       \* task[r]: the task request r works on
    draft,      \* draft[r]: the tasks.json request r is about to write
    route,      \* route[r]: the route a start_turn wants
    mixed,      \* requests that were at work at the same time as another
    latest      \* the latest request to arrive

projects == <<disk, file, memory, saves>>
threads == <<made, live>>
vars == <<projects, threads, born, kind, plan, stage, task, draft, route,
          mixed, latest>>

-----------------------------------------------------------------------------
(* Tasks.                                                                  *)

Entry(t) == [thread |-> t, missing |-> FALSE]

NewTask(id) == [id |-> id, threads |-> <<>>, active |-> None]

Ids(tasks) == {tasks[i].id : i \in DOMAIN tasks}
ThreadIds(entries) == {entries[i].thread : i \in DOMAIN entries}

Earliest(at) == CHOOSE i \in at : \A j \in at : i <= j

\* What comes first at these positions, None without one.
FirstOf(seq, at) == IF at = {} THEN None ELSE seq[Earliest(at)]

FindTask(tasks, id) == FirstOf(tasks, {i \in DOMAIN tasks : tasks[i].id = id})

ReplaceTask(tasks, t) ==
    <<t>> \o Chosen(tasks, {i \in DOMAIN tasks : tasks[i].id # t.id})

\* The entries without those of some threads.
Without(entries, gone) ==
    Chosen(entries, {i \in DOMAIN entries : entries[i].thread \notin gone})

SameRoute(d, e) == RouteOf[d.thread] = RouteOf[e.thread] /\ d.missing = e.missing

\* The latest live and the latest missing thread of each route.
Prune(entries) ==
    Chosen(entries, {i \in DOMAIN entries :
                         \A j \in DOMAIN entries : SameRoute(entries[j], entries[i]) => i <= j})

\* The active thread, the project's thread or the latest one.
Pick(t, among, pointer) ==
    CASE t.active \in ThreadIds(among) -> t.active
      [] t.active \notin ThreadIds(among) /\ pointer \in ThreadIds(among) -> pointer
      [] OTHER -> IF among = <<>> THEN None ELSE among[1].thread

\* _preferred_active_thread_id: live threads first.
Preferred(t, entries, pointer) ==
    LET alive == Chosen(entries, {i \in DOMAIN entries : ~entries[i].missing})
    IN  Pick(t, IF alive # <<>> THEN alive ELSE entries, pointer)

\* Mutant: the active thread is left alone.
NormalizeThreads(t, pointer) == [t EXCEPT !.threads = Prune(t.threads)]

Normalize(t, pointer) ==
    LET entries == Prune(t.threads)
    IN  [t EXCEPT !.threads = entries, !.active = Preferred(t, entries, pointer)]

Bind(t, thread) ==
    [t EXCEPT !.threads = Prune(<<Entry(thread)>> \o Without(@, {thread})),
              !.active = thread]

MarkMissing(t, thread) ==
    [t EXCEPT !.threads = Prune([i \in DOMAIN @ |->
                  IF @[i].thread = thread THEN [@[i] EXCEPT !.missing = TRUE]
                                          ELSE @[i]]),
              !.active = IF @ = thread THEN None ELSE @]

\* Mutant: the other tasks keep their threads.
OwnNothing(tasks, owner, pointer) == tasks

\* _enforce_task_thread_ownership: the owner's threads leave other tasks.
Disown(t, owner, pointer) ==
    LET own == ThreadIds(owner.threads)
    IN  IF t.id = owner.id \/ (ThreadIds(t.threads) \cup {t.active}) \cap own = {}
        THEN t
        ELSE Normalize([t EXCEPT !.threads = Without(@, own),
                                 !.active = IF @ \in own THEN None ELSE @], pointer)

Own(tasks, owner, pointer) == [i \in DOMAIN tasks |-> Disown(tasks[i], owner, pointer)]

-----------------------------------------------------------------------------
(* What a round writes to tasks.json.                                      *)

Pointers(t) == [task |-> t.id, thread |-> t.active]

TaskFile(t, tasks) == [current |-> t.id, tasks |-> tasks]

CurrentId == IF memory.task # None THEN memory.task ELSE disk.current

SyncNeeded(t) == memory # Pointers(t)

Ensure(th) ==
    LET found == FindTask(disk.tasks, CurrentId)
        t == IF found = None THEN NewTask(born + 1) ELSE found
        bound == IF th = None THEN t ELSE Bind(t, th)
    IN  TaskFile(bound, Own(ReplaceTask(disk.tasks, bound), bound, memory.thread))

Create(th) ==
    LET t == NewTask(born + 1)
        bound == IF th = None THEN t ELSE Bind(t, th)
    IN  TaskFile(bound, Own(<<bound>> \o disk.tasks, bound, memory.thread))

\* A task edited since an earlier read, put back with its threads owned.
Saved(t) == TaskFile(t, Own(ReplaceTask(disk.tasks, t), t, memory.thread))

\* The same without a look at the other tasks.
Focused(t, th) ==
    LET moved == [t EXCEPT !.active = th]
    IN  TaskFile(moved, ReplaceTask(disk.tasks, moved))

\* The tasks.json round rd of request r writes, None when it writes nothing.
Drafted(rd, t) ==
    LET found == FindTask(disk.tasks, IF rd.do = "switch" THEN rd.arg ELSE CurrentId)
    IN  CASE rd.do = "ensure" -> Ensure(rd.arg)
          [] rd.do = "create" -> Create(rd.arg)
          [] rd.do = "bind" -> Saved(Bind(t, rd.arg))
          [] rd.do = "switch" /\ found # None ->
                 TaskFile(found, ReplaceTask(disk.tasks, found))
          [] rd.do = "force" /\ found # None -> Focused(found, rd.arg)
          [] rd.do = "put" /\ t # None -> Focused(t, rd.arg)
          [] rd.do = "edit" /\ t # None -> Saved(t)
          [] rd.do = "miss" /\ t # None /\ rd.arg \in ThreadIds(t.threads) ->
                 Saved(MarkMissing(t, rd.arg))
          [] OTHER -> None

\* _select_reloaded_task, among tasks that were normalised.
Selected(tasks) ==
    LET named == FindTask(tasks, CurrentId)
        bound == FirstOf(tasks, {i \in DOMAIN tasks : memory.thread \in ThreadIds(tasks[i].threads)})
    IN  CASE named # None -> named
          [] named = None /\ bound # None -> bound
          [] OTHER -> tasks[1]

-----------------------------------------------------------------------------
(* Rounds.                                                                 *)

Round(do, arg) == [do |-> do, arg |-> arg]

AtWork(r) == plan[r] # <<>>
Quiet == \A r \in Requests : ~AtWork(r)

Turn(do, r) == AtWork(r) /\ stage[r] = "read" /\ Head(plan[r]).do = do
Arg(r) == Head(plan[r]).arg

\* Request r goes on with the rounds in rest and with task t.
Continue(r, rest, t) ==
    /\ plan' = [plan EXCEPT ![r] = rest]
    /\ stage' = [stage EXCEPT ![r] = "read"]
    /\ task' = [task EXCEPT ![r] = IF rest = <<>> THEN None ELSE t]
    /\ route' = [route EXCEPT ![r] = IF rest = <<>> THEN None ELSE @]

\* Request r goes to step s of its round.
Step(r, s, t) ==
    /\ stage' = [stage EXCEPT ![r] = s]
    /\ task' = [task EXCEPT ![r] = t]
    /\ UNCHANGED <<plan, route>>

ToWrite(r, d) ==
    /\ draft' = [draft EXCEPT ![r] = d]
    /\ Step(r, "write", task[r])

Read(r) ==
    /\ \E do \in {"ensure", "create", "switch", "bind", "edit", "miss", "put",
                  "force"} : Turn(do, r)
    /\ LET d == Drafted(Head(plan[r]), task[r])
       IN  IF d = None
           THEN Continue(r, Tail(plan[r]), task[r]) /\ UNCHANGED <<draft, born>>
           ELSE /\ born' = IF d.current > born THEN d.current ELSE born
                /\ born' <= MaxTasks
                /\ ToWrite(r, d)
    /\ UNCHANGED <<projects, threads, kind, mixed, latest>>

\* current_task(): writes only what normalising changed.
ReadCurrent(r) ==
    /\ Turn("current", r)
    /\ LET found == FindTask(disk.tasks, CurrentId)
           t == IF found = None THEN None ELSE Normalize(found, memory.thread)
       IN  \/ /\ t # found
              /\ ToWrite(r, TaskFile(t, ReplaceTask(disk.tasks, t)))
           \/ /\ t = found /\ t # None /\ SyncNeeded(t)
              /\ Step(r, "refresh", t)
              /\ UNCHANGED draft
           \/ /\ t = found /\ (t # None => ~SyncNeeded(t))
              /\ Continue(r, Tail(plan[r]), t)
              /\ UNCHANGED draft
    /\ UNCHANGED <<projects, threads, born, kind, mixed, latest>>

\* reconcile_after_project_reload(): normalises every task.
ReadReload(r) ==
    /\ Turn("reconcile", r)
    /\ LET tasks == [i \in DOMAIN disk.tasks |->
                         Normalize(disk.tasks[i], memory.thread)]
           t == Selected(tasks)
       IN  \/ /\ disk # TaskFile(t, tasks)
              /\ ToWrite(r, TaskFile(t, tasks))
           \/ /\ disk = TaskFile(t, tasks) /\ SyncNeeded(t)
              /\ Step(r, "refresh", t)
              /\ UNCHANGED draft
           \/ /\ disk = TaskFile(t, tasks) /\ ~SyncNeeded(t)
              /\ Continue(r, Tail(plan[r]), t)
              /\ UNCHANGED draft
    /\ UNCHANGED <<projects, threads, born, kind, mixed, latest>>

Write(r) ==
    /\ AtWork(r) /\ stage[r] = "write"
    /\ disk' = draft[r]
    /\ draft' = [draft EXCEPT ![r] = None]
    /\ LET t == FindTask(draft[r].tasks, draft[r].current)
       IN  IF Head(plan[r]).do = "reconcile" /\ ~SyncNeeded(t)
           THEN Continue(r, Tail(plan[r]), t)
           ELSE Step(r, "refresh", t)
    /\ UNCHANGED <<file, memory, saves, threads, born, kind, mixed, latest>>

\* reconcile_task_projection(): the project file first.
Refresh(r) ==
    /\ AtWork(r) /\ stage[r] = "refresh"
    /\ memory' = file
    /\ IF file = Pointers(task[r])
       THEN Continue(r, Tail(plan[r]), task[r])
       ELSE Step(r, "patch", task[r])
    /\ UNCHANGED <<disk, file, saves, threads, born, kind, draft, mixed, latest>>

Patch(r) ==
    /\ AtWork(r) /\ stage[r] = "patch"
    /\ memory' = Pointers(task[r])
    /\ Step(r, "store", task[r])
    /\ UNCHANGED <<disk, file, saves, threads, born, kind, draft, mixed, latest>>

\* switch_thread() and _update_project_runtime_defaults(): update_project
\* without a look at the file.
Point(r) ==
    /\ \/ Turn("pointer", r) /\ memory' = [memory EXCEPT !.thread = Arg(r)]
       \/ Turn("defaults", r) /\ UNCHANGED memory
    /\ Step(r, "store", task[r])
    /\ UNCHANGED <<disk, file, saves, threads, born, kind, draft, mixed, latest>>

Store(r) ==
    /\ AtWork(r) /\ stage[r] = "store"
    /\ file' = memory
    /\ Continue(r, Tail(plan[r]), task[r])
    /\ UNCHANGED <<disk, memory, saves, threads, born, kind, draft, mixed, latest>>

-----------------------------------------------------------------------------
(* Checkpoints and the opening of a project: neither looks at tasks that   *)
(* are being written.                                                      *)

\* create(): the workspace with tasks.json first, then the project file.
ZipFiles(r) ==
    /\ Turn("zip", r)
    /\ draft' = [draft EXCEPT ![r] = disk]
    /\ Continue(r, Tail(plan[r]), task[r])
    /\ UNCHANGED <<projects, threads, born, kind, mixed, latest>>

CopyFile(r) ==
    /\ Turn("copy", r)
    /\ saves' = saves \cup {[disk |-> draft[r], file |-> file]}
    /\ draft' = [draft EXCEPT ![r] = None]
    /\ Continue(r, Tail(plan[r]), task[r])
    /\ UNCHANGED <<disk, file, memory, threads, born, kind, mixed, latest>>

Restore(r) ==
    /\ \/ Turn("unzip", r) /\ disk' = Arg(r).disk /\ UNCHANGED <<file, memory>>
       \/ Turn("recopy", r) /\ file' = Arg(r).file /\ UNCHANGED <<disk, memory>>
       \/ Turn("open", r) /\ memory' = file /\ UNCHANGED <<disk, file>>
    /\ Continue(r, Tail(plan[r]), task[r])
    /\ UNCHANGED <<saves, threads, born, kind, draft, mixed, latest>>

-----------------------------------------------------------------------------
(* The threads of a turn.                                                  *)

Mark(t) == <<Round("current", None), Round("miss", t), Round("current", None)>>
Rebind(t) == <<Round("ensure", None), Round("bind", t)>>
Handoff(t) == Rebind(t) \o <<Round("put", t), Round("pointer", t)>>
Created(t) == <<Round("pointer", t), Round("create", t), Round("defaults", None)>>
Started(t) == <<Round("pointer", t), Round("force", t), Round("defaults", None)>>
Pending(t) == <<Round("pointer", t), Round("defaults", None)>>

Exists(t) == t \in live

Goes(r, rest) ==
    /\ Continue(r, rest, task[r])
    /\ UNCHANGED <<projects, born, kind, draft, mixed, latest>>

\* _ensure_provider_thread_for_turn(): the source thread serves the route or
\* another one is looked for.
Decide(r) ==
    /\ Turn("decide", r)
    /\ LET src == Arg(r)
           search == <<Round("current", None), Round("find", src)>>
       IN  CASE RouteOf[src] # route[r] -> Goes(r, search)
             [] RouteOf[src] = route[r] /\ Exists(src) ->
                    Goes(r, Rebind(src) \o <<Round("guard", src)>>)
             [] OTHER -> Goes(r, Mark(src) \o search)
    /\ UNCHANGED threads

\* find_provider_thread(): the latest live thread of the route.
Reusable(t, to) ==
    IF t = None THEN None
    ELSE FirstOf(t.threads, {i \in DOMAIN t.threads :
                    ~t.threads[i].missing /\ RouteOf[t.threads[i].thread] = to})

Find(r) ==
    /\ Turn("find", r)
    /\ LET entry == Reusable(task[r], route[r])
           fresh == <<Round("make", "guard")>>
       IN  IF entry = None \/ entry.thread = Arg(r) THEN Goes(r, fresh)
           ELSE IF Exists(entry.thread)
           THEN Goes(r, Handoff(entry.thread) \o <<Round("guard", entry.thread)>>)
           ELSE Goes(r, Mark(entry.thread) \o fresh)
    /\ UNCHANGED threads

\* thread/start: for create_thread, for a turn, or for a turn whose thread
\* turned out to be missing.
MakeThread(r) ==
    /\ Turn("make", r)
    /\ \E t \in Threads \ made :
           /\ RouteOf[t] = route[r]
           /\ made' = made \cup {t}
           /\ live' = live \cup {t}
           /\ Goes(r, CASE Arg(r) = "task" -> Created(t)
                        [] Arg(r) = "startup" -> Handoff(t)
                        [] OTHER -> Handoff(t) \o <<Round(Arg(r), t)>>)

\* The context guard and turn/start; a thread that is not found is marked,
\* and replaced once.
SendTurn(r) ==
    /\ \/ Turn("guard", r) /\ Goes(r, IF Exists(Arg(r)) THEN <<Round("send", Arg(r))>>
                                     ELSE Mark(Arg(r)) \o <<Round("send", Arg(r))>>)
       \/ Turn("send", r) /\ ~Exists(Arg(r))
          /\ Goes(r, Mark(Arg(r)) \o <<Round("make", "resend")>>)
       \/ (Turn("send", r) \/ Turn("resend", r)) /\ Exists(Arg(r))
          /\ (Goes(r, Started(Arg(r))) \/ Goes(r, Pending(Arg(r))))
    /\ UNCHANGED threads

\* The app-server refuses or does not answer, or the guard blocks the turn; a
\* tool that fails, or need not preserve what is shown, restores nothing.
Fail(r) ==
    /\ \E do \in {"make", "guard", "send", "resend", "prior", "call", "revive"} : Turn(do, r)
    /\ Goes(r, <<>>)
    /\ UNCHANGED threads

\* The app-server forgets a thread: at any time, which is no different from
\* just before somebody asks for it.
Lose(t) ==
    /\ t \in live
    /\ \E r \in Requests :
           \/ \E do \in {"guard", "send", "resend", "probe"} :
                  Turn(do, r) /\ Arg(r) = t
           \/ /\ RouteOf[t] = route[r]
              /\ \/ Turn("decide", r) /\ Arg(r) = t
                 \/ Turn("find", r) /\ task[r] # None /\ t \in ThreadIds(task[r].threads)
    /\ Cardinality(made \ live) < MaxLost
    /\ live' = live \ {t}
    /\ UNCHANGED <<projects, made, born, kind, plan, stage, task, draft, route,
                   mixed, latest>>

-----------------------------------------------------------------------------
(* A call of a tool through a thread of its own, which no task knows       *)
(* (call_mcp_tool): what was shown before is shown again after it.         *)

Shown(t) == IF t = None THEN None ELSE t.active
Either(x, y) == IF x # None THEN x ELSE y

\* Mutant: the thread the tool is called for is bound to the task.
BindSource(r) ==
    /\ Turn("prior", r)
    /\ Goes(r, <<Round("ensure", Arg(r).source)>>)
    /\ UNCHANGED threads

\* The thread the caller names, or the one that is shown.
RememberFocus(r) ==
    LET source == Either(Either(Arg(r).source, memory.thread), Shown(task[r]))
        focus == [prior |-> Shown(task[r]), source |-> source,
                  thread |-> Either(Shown(task[r]), source),
                  pointer |-> Either(Arg(r).pointer, source)]
        look == IF source = None THEN <<>> ELSE <<Round("current", None)>>
    IN  /\ Turn("prior", r)
        /\ Goes(r, look \o <<Round("before", focus)>>)
        /\ UNCHANGED threads

\* What is shown once the thread of the tool has been made.
UpdateFocus(r) ==
    LET f == Arg(r)
        t == Shown(task[r])
        p == memory.thread
        moved == f.source # None /\ {t, p} # {None} /\ {t, p} # {f.source}
    IN  /\ Turn("before", r)
        /\ Goes(r, <<Round("call", IF ~moved THEN f
                                   ELSE [f EXCEPT !.thread = Either(t, @),
                                                  !.pointer = Either(p, Either(t, @))])>>)
        /\ UNCHANGED threads

\* _restore_active_thread_after_direct_mcp_tool_call, in whichever task is the
\* current one by then.
RestoreFocus(r) ==
    LET f == Arg(r)
        If(t, rounds) == IF t = None THEN <<>> ELSE rounds
    IN  /\ Turn("call", r)
        /\ Goes(r, If(f.pointer, <<Round("pointer", f.pointer)>>)
                    \o If(f.thread, <<Round("current", None), Round("put", f.thread),
                                      Round("current", None), Round("insist", f.thread),
                                      Round("fallback", f.thread)>>)
                    \o <<Round("current", None), Round("sync", f.prior)>>)
        /\ UNCHANGED threads

\* force_visible_provider_thread when the task has not taken the thread,
\* switch_thread when the project shows none.
Insist(r) ==
    LET rounds ==
          IF Turn("insist", r)
          THEN IF Shown(task[r]) = Arg(r) THEN <<>>
               ELSE <<Round("force", Arg(r)), Round("current", None)>>
          ELSE IF memory.thread # None THEN <<>> ELSE <<Round("pointer", Arg(r))>>
    IN  /\ Turn("insist", r) \/ Turn("fallback", r)
        /\ Goes(r, rounds \o Tail(plan[r]))
        /\ UNCHANGED threads

\* reconcile_task_projection() of the task, if there is one.
Reproject(r) ==
    /\ Turn("sync", r)
    /\ IF task[r] = None THEN Continue(r, <<>>, None) ELSE Step(r, "refresh", task[r])
    /\ UNCHANGED <<projects, threads, born, kind, draft, mixed, latest>>

ToolStep(r) ==
    \/ RememberFocus(r) \/ UpdateFocus(r) \/ RestoreFocus(r)
    \/ Insist(r) \/ Reproject(r)

-----------------------------------------------------------------------------
(* Requests.                                                               *)

\* The rounds a request of kind k may be.
Plans(k) ==
    CASE k = "create" -> {<<Round("create", None)>>}
      [] k = "thread" -> {<<Round("make", "task")>>}
      [] k = "switch" -> {<<Round("switch", id)>> : id \in 1..born}
      [] k = "record" -> {<<Round("current", None), Round("edit", None)>>}
      [] k = "notify" -> {<<Round("ensure", t), Round("edit", None)>> : t \in made}
      [] k = "focus" ->
             {<<Round("pointer", t), Round("current", None), Round("put", t)>> : t \in made}
      [] k = "snapshot" -> {<<Round("current", None)>>}
      [] k = "tool" ->
             {<<Round("current", None),
                Round("prior", [source |-> t, pointer |-> memory.thread])>> : t \in made \cap Called}
      [] k = "turn" ->
             {<<Round("ensure", None), Round("ensure", t), Round("ensure", t),
                Round("decide", t)>> : t \in made}
      [] k = "save" -> {<<Round("zip", None), Round("copy", None),
                          Round("current", None), Round("edit", None)>>}
      [] k = "load" ->
             {<<Round("zip", None), Round("copy", None), Round("unzip", s),
                Round("recopy", s), Round("open", None), Round("reconcile", None)>>
                 : s \in saves}
      [] k = "open" -> {<<Round("open", None), Round("reconcile", None)>>}

Locking == {"turn", "thread"}

Arrive(r) ==
    LET others == {q \in Requests : AtWork(q)}
    IN  /\ kind[r] = None
        /\ others \cup {r} \in Together
        /\ \E k \in Menu[r] \ {"restart"} :
               /\ ~(k \in Locking /\ \E q \in others : kind[q] \in Locking)
               /\ \A q \in others : {k, kind[q]} \notin Apart
               /\ kind' = [kind EXCEPT ![r] = k]
               /\ \E p \in Plans(k) : plan' = [plan EXCEPT ![r] = p]
               /\ IF k \in Locking
                  THEN \E to \in Routes : route' = [route EXCEPT ![r] = to]
                  ELSE UNCHANGED route
        /\ mixed' = IF others = {} THEN mixed ELSE mixed \cup others \cup {r}
        /\ latest' = r
        /\ UNCHANGED <<projects, threads, born, stage, task, draft>>

\* The sidecar dies with what it was doing and starts again: the constructor
\* of AppContext opens the project and looks at its task.
Restart(r) ==
    LET wake == <<Round("current", None), Round("wake", file.thread)>>
    IN  /\ kind[r] = None /\ "restart" \in Menu[r]
        /\ kind' = [kind EXCEPT ![r] = "restart"]
        /\ plan' = [q \in Requests |-> IF q = r THEN wake ELSE <<>>]
        /\ stage' = [q \in Requests |-> "read"]
        /\ task' = [q \in Requests |-> None]
        /\ draft' = [q \in Requests |-> None]
        /\ route' = [q \in Requests |-> None]
        /\ memory' = file
        /\ latest' = r
        /\ UNCHANGED <<disk, file, saves, threads, born, mixed>>

\* _restore_startup_state().
Wake(r) ==
    /\ Turn("wake", r)
    /\ LET t == Either(Arg(r), Shown(task[r]))
       IN  Goes(r, <<Round("ensure", t), Round("current", None), Round("probe", t)>>)
    /\ UNCHANGED threads

\* restore_startup_runtime(): nothing without a profile or a client; the project
\* has another thread, or one is made.
Probe(r) ==
    /\ \/ Turn("probe", r) /\ Goes(r, <<>>)
       \/ /\ Turn("probe", r) /\ Arg(r) # None /\ ~Exists(Arg(r))
          /\ Goes(r, Mark(Arg(r)) \o <<Round("recover", Arg(r))>>)
       \/ /\ Turn("recover", r)
          /\ Goes(r, IF memory.thread \notin {None, Arg(r)} THEN <<>>
                     ELSE <<Round("current", None), Round("revive", Arg(r))>>)
    /\ UNCHANGED threads

\* _recover_startup_provider_thread(): a thread like the one of the task that is
\* missing.
Revive(r) ==
    LET entries == IF task[r] = None THEN <<>> ELSE task[r].threads
        shown == FirstOf(entries, {i \in DOMAIN entries : entries[i].thread = memory.thread})
        hint == IF shown # None \/ entries = <<>> THEN shown ELSE entries[1]
    IN  /\ Turn("revive", r)
        /\ plan' = [plan EXCEPT ![r] = <<Round("make", "startup")>>]
        /\ \E to \in IF hint = None THEN Routes ELSE {RouteOf[hint.thread]} :
               route' = [route EXCEPT ![r] = to]
        /\ UNCHANGED <<projects, threads, born, kind, stage, task, draft, mixed, latest>>

Init ==
    LET n == Len(Existing)
        first(id) == Bind(NewTask(id), Existing[id])
        pointers == [task |-> n, thread |-> Existing[n]]
    IN  /\ disk = [current |-> n, tasks |-> [i \in 1..n |-> first(n + 1 - i)]]
        /\ file = pointers
        /\ memory = pointers
        /\ saves = {}
        /\ made = ToSet(Existing)
        /\ live = ToSet(Existing)
        /\ born = n
        /\ kind = [r \in Requests |-> None]
        /\ plan = [r \in Requests |-> <<>>]
        /\ stage = [r \in Requests |-> "read"]
        /\ task = [r \in Requests |-> None]
        /\ draft = [r \in Requests |-> None]
        /\ route = [r \in Requests |-> None]
        /\ mixed = {}
        /\ latest = None

Next ==
    \/ \E r \in Requests :
           \/ Arrive(r)
           \/ Read(r) \/ ReadCurrent(r) \/ ReadReload(r)
           \/ Write(r) \/ Refresh(r) \/ Patch(r) \/ Point(r) \/ Store(r)
           \/ ZipFiles(r) \/ CopyFile(r) \/ Restore(r)
           \/ Restart(r) \/ Wake(r) \/ Probe(r) \/ Revive(r)
           \/ Decide(r) \/ Find(r) \/ MakeThread(r) \/ SendTurn(r) \/ Fail(r)
           \/ ToolStep(r)
    \/ \E t \in Threads : Lose(t)

Spec == Init /\ [][Next]_vars

-----------------------------------------------------------------------------
(* Properties.                                                             *)

TypeOK ==
    /\ disk \in TaskFiles /\ {file, memory} \subseteq Pointed
    /\ saves \subseteq [disk : TaskFiles, file : Pointed]
    /\ live \subseteq made /\ made \subseteq Threads
    /\ born \in 1 .. MaxTasks
    /\ kind \in [Requests -> Maybe(Kinds)]
    /\ stage \in [Requests -> {"read", "write", "refresh", "patch", "store"}]
    /\ task \in [Requests -> Maybe(Tasks)]
    /\ draft \in [Requests -> Maybe(TaskFiles)]
    /\ route \in [Requests -> Maybe(Routes)]
    /\ mixed \subseteq Requests /\ latest \in Maybe(Requests)

\* Whatever requests write over each other, tasks.json stays a list of tasks
\* with ids of their own, one of them the current one, each with at most one
\* live and one missing thread per route (_prune_provider_threads).
StoreWellFormed ==
    /\ \A i, j \in DOMAIN disk.tasks : disk.tasks[i].id = disk.tasks[j].id => i = j
    /\ FindTask(disk.tasks, disk.current) # None
    /\ \A i \in DOMAIN disk.tasks :
           LET entries == disk.tasks[i].threads
           IN  \A j, k \in DOMAIN entries : SameRoute(entries[j], entries[k]) => j = k

Alone == mixed = {}
CurrentTask == FindTask(disk.tasks, disk.current)

\* Requests served one after the other leave the project file, the project in
\* memory and tasks.json agreeing on the current task and its active thread,
\* a loaded checkpoint and a crash in the middle of a request included.
PointersAgree ==
    Quiet /\ Alone =>
        file = Pointers(CurrentTask) /\ memory = Pointers(CurrentTask)

\* Requests served one after the other never leave a thread to two tasks.
ThreadsHaveOneTask ==
    Alone => \A i, j \in DOMAIN disk.tasks :
                 ThreadIds(disk.tasks[i].threads) \cap ThreadIds(disk.tasks[j].threads) # {}
                     => i = j

Reset == \E r \in Requests : kind[r] \in {"load", "restart"}

\* Requests served one after the other lose no task: what was created is in
\* tasks.json, unless a checkpoint was loaded or the sidecar died.
NoTaskLost ==
    Quiet /\ Alone /\ ~Reset => Ids(disk.tasks) = 1..born

\* The three files of a project are right in themselves and with each other.
StoreIsConsistent ==
    /\ TypeOK
    /\ StoreWellFormed
    /\ PointersAgree
    /\ ThreadsHaveOneTask
    /\ NoTaskLost

\* A snapshot that runs alone, whatever ran over each other before it, either
\* finds no task or leaves the project in memory on a task of tasks.json and
\* its active thread, a live one when the task has one.
SnapshotSettles ==
    LET shown == FindTask(disk.tasks, memory.task)
    IN  Quiet /\ latest # None /\ shown # None =>
            (kind[latest] = "snapshot" /\ latest \notin mixed =>
                /\ memory = Pointers(shown)
                /\ \A i \in DOMAIN shown.threads :
                       ~shown.threads[i].missing =>
                           \E j \in DOMAIN shown.threads :
                               shown.threads[j] = Entry(shown.active))

\* Opening the project repairs whatever requests that ran over each other have
\* left of the three pointers (reconcile_after_project_reload), and so does
\* loading a checkpoint.
ReloadSettles ==
    Quiet /\ latest # None =>
        (kind[latest] \in {"open", "load"} /\ latest \notin mixed =>
            file = Pointers(CurrentTask) /\ memory = Pointers(CurrentTask))

\* What requests that ran over each other left behind is put in order by the
\* next snapshot, opening or loading that runs alone.
Settles == SnapshotSettles /\ ReloadSettles

\* A turn and a call of a tool, each alone, keep the current task and every task
\* there is, whether a turn is handed to another thread, recovers a missing one
\* or fails; and a call of a tool shows the thread that was shown before it,
\* whatever thread it was for, and gives no task a thread.
FocusIsKept ==
    [][\A r \in Requests :
           Alone /\ Alone' /\ AtWork(r) =>
               /\ kind[r] \in {"turn", "tool"} =>
                     disk'.current = disk.current /\ Ids(disk'.tasks) = Ids(disk.tasks)
               /\ kind[r] = "tool" => \A i \in DOMAIN disk.tasks : \E j \in DOMAIN disk'.tasks :
                     /\ disk'.tasks[j].id = disk.tasks[i].id
                     /\ disk'.tasks[j].threads = disk.tasks[i].threads
               /\ Turn("sync", r) => Shown(task[r]) = Arg(r)]_vars

\* Claimed by project_service.py:200-205: the pointers of the project cannot
\* drift away from the current task and its active thread.
NoDrift ==
    Quiet => file = Pointers(CurrentTask) /\ memory = Pointers(CurrentTask)
=============================================================================
