----------------------------- MODULE EventFeed -----------------------------
(***************************************************************************)
(* Runtime events: the log of RuntimeService (_record_event, list_events,  *)
(* _hydrate_events_from_disk_locked), the event stream of server.py, and   *)
(* the desktop (App.tsx, store.ts), which follows the log by a stream and, *)
(* while it has none, by polls.                                            *)
(*                                                                         *)
(* An event is a number, in the order in which events are appended to the  *)
(* list in memory; its line in the file of a project is written later, by  *)
(* the same thread but without the lock.  The list is merged with the file *)
(* of a project when it is first looked at with that project open.         *)
(*                                                                         *)
(* Abstracted: events differ (they carry timestamps); a log is shorter     *)
(* than the tail that is read and can be read; the effects of React run    *)
(* with the state change that causes them.  The desktop has one request    *)
(* that answers with a project at a time.                                  *)
(***************************************************************************)
EXTENDS Naturals, Sequences, SequencesExt, FiniteSets, Positions

CONSTANTS
    Projects,
    None,           \* no project
    Logged,         \* Logged[p]: events in the file of p at first
    Opened,         \* project the sidecar opens at first
    MaxEvents,      \* bound: events ever recorded
    MaxAsks         \* bound: requests that answer with a project, and restarts

ASSUME FeedAssumption ==
    /\ None \notin Projects
    /\ Logged \in [Projects -> Seq(1 .. MaxEvents)]
    /\ \A p \in Projects : \A i, j \in DOMAIN Logged[p] : Logged[p][i] = Logged[p][j] => i = j
    /\ \E n \in 0 .. MaxEvents : UNION {ToSet(Logged[p]) : p \in Projects} = 1 .. n
    /\ Opened \in Projects \cup {None}
    /\ MaxEvents \in Nat /\ MaxAsks \in Nat

VARIABLES
    logs,           \* logs[p]: runtime_events.jsonl, events and their index
    memory,         \* _events; the index of an item is its position less one
    hydrated,       \* project of _hydrated_event_log_path
    merged,         \* projects whose file this process has merged
    project,        \* the project the sidecar has open
    writing,        \* events in memory whose line is not written yet
    born,           \* the latest event
    boot,           \* the latest event when this process began
    asks,           \* requests that answered with a project, and restarts
    answer,         \* the project such a request answers with, as a set
    shown,          \* project of the desktop's store
    cursor,         \* eventCursor
    ever,           \* events applied since the project is shown
    stream,         \* state of the event source and of the thread serving it
    frames,         \* frames between the two
    poll            \* the poll under way

log == <<logs, memory, hydrated, merged, writing, born, boot>>
store == <<shown, cursor, ever>>
vars == <<log, project, asks, answer, store, stream, frames, poll>>

-----------------------------------------------------------------------------
(* The list in memory and the files.                                       *)

Line(e, position) == [event |-> e, index |-> position - 1]

EventsOf(lines) == [i \in DOMAIN lines |-> lines[i].event]

Position(e) == CHOOSE i \in DOMAIN memory : memory[i] = e

Record ==
    /\ born < MaxEvents
    /\ born' = born + 1
    /\ memory' = Append(memory, born')
    /\ writing' = writing \cup {born'}
    /\ UNCHANGED <<logs, hydrated, merged, boot, project, asks, answer, store,
                   stream, frames, poll>>

\* The line goes to the project that is open by now.
WriteLine(e) ==
    /\ e \in writing
    /\ writing' = writing \ {e}
    /\ logs' = IF project = None THEN logs
               ELSE [logs EXCEPT ![project] = Append(@, Line(e, Position(e)))]
    /\ UNCHANGED <<memory, hydrated, merged, born, boot, project, asks, answer,
                   store, stream, frames, poll>>

\* Mutant: the list is replaced by what the file holds.
MergedFromFile(p) == EventsOf(logs[p])

\* The file, then what is in memory and differs from every line of the file:
\* the index is compared as well.
Merged(p) ==
    LET news == {i \in DOMAIN memory : Line(memory[i], i) \notin ToSet(logs[p])}
    IN  EventsOf(logs[p]) \o Chosen(memory, news)

Hydrate ==
    IF project \in {None, hydrated}
    THEN UNCHANGED <<memory, hydrated, merged>>
    ELSE /\ memory' = Merged(project)
         /\ hydrated' = project
         /\ merged' = merged \cup {project}

\* The supervisor and the context guard look at the list as well, and so do
\* threads that serve a desktop which does not listen any more.
Look ==
    /\ project \notin {None, hydrated}
    /\ Hydrate
    /\ UNCHANGED <<logs, writing, born, boot, project, asks, answer, store,
                   stream, frames, poll>>

\* Mutant: the cursor is read without the lock, one event later.
ListedLate(after) ==
    [events |-> SubSeq(memory', after + 1, Len(memory')), cursor |-> Len(memory') + 1]

\* list_events without a limit.
Listed(after) ==
    [events |-> SubSeq(memory', after + 1, Len(memory')), cursor |-> Len(memory')]

-----------------------------------------------------------------------------
(* The project of the sidecar and of the desktop.                          *)

Idle == [state |-> "off", after |-> 0, served |-> FALSE]
NoPoll == [state |-> "none", after |-> 0, got |-> [events |-> <<>>, cursor |-> 0]]

\* Opening and closing, and requests whose answer holds the project anew.
Ask(p) ==
    /\ asks < MaxAsks /\ answer = {}
    /\ shown = None \/ p \in {None, shown}
    /\ asks' = asks + 1
    /\ project' = p
    /\ answer' = {p}
    /\ UNCHANGED <<log, store, stream, frames, poll>>

\* Mutant: the cursor is kept.
ShowAtCursor(p) ==
    /\ answer = {p}
    /\ answer' = {}
    /\ shown' = p
    /\ poll' = NoPoll
    /\ IF p = shown THEN UNCHANGED <<ever, stream, frames>>
       ELSE ever' = {} /\ stream' = Idle /\ frames' = <<>>
    /\ UNCHANGED <<log, project, asks, cursor>>

\* setProject: the cursor and the snapshot start anew, and the poll; the
\* stream only with another project_id.
Show(p) ==
    /\ answer = {p}
    /\ answer' = {}
    /\ shown' = p
    /\ cursor' = 0
    /\ poll' = NoPoll
    /\ IF p = shown THEN UNCHANGED <<ever, stream, frames>>
       ELSE ever' = {} /\ stream' = Idle /\ frames' = <<>>
    /\ UNCHANGED <<log, project, asks>>

\* The application ends and starts again; the sidecar opens its last project.
Restart ==
    /\ asks < MaxAsks
    /\ asks' = asks + 1
    /\ memory' = <<>>
    /\ hydrated' = None
    /\ merged' = {}
    /\ writing' = {}
    /\ boot' = born
    /\ answer' = {project}
    /\ shown' = None /\ cursor' = 0
    /\ ever' = {}
    /\ stream' = Idle /\ frames' = <<>> /\ poll' = NoPoll
    /\ UNCHANGED <<logs, born, project>>

Apply(events) == ever' = ever \cup ToSet(events)

-----------------------------------------------------------------------------
(* The stream: _send_event_stream and the EventSource.                     *)

Frame(kind, e, c) == [kind |-> kind, event |-> e, cursor |-> c]

\* connect() asks for the address of the sidecar, with the cursor it has now.
Connect ==
    /\ shown # None /\ stream.state = "off"
    /\ stream' = [state |-> "connecting", after |-> cursor, served |-> FALSE]
    /\ UNCHANGED <<log, project, asks, answer, store, frames, poll>>

OpenStream ==
    /\ stream.state = "connecting"
    /\ stream' = [stream EXCEPT !.state = "open"]
    /\ frames' = <<Frame("hello", 0, stream.after)>>
    /\ poll' = NoPoll
    /\ UNCHANGED <<log, project, asks, answer, store>>

\* Every event is sent by its name and by its alias, with the cursor after
\* all of them; a cursor 0 does not count.
Serve ==
    /\ stream.state = "open"
    /\ Hydrate
    /\ LET got == Listed(stream.after)
           to == IF got.cursor = 0 THEN stream.after ELSE got.cursor
           twofold == [i \in 1 .. 2 * Len(got.events) |->
                          Frame("event", got.events[(i + 1) \div 2], to)]
       IN  /\ frames' = frames \o twofold
           /\ stream' = [stream EXCEPT !.after = to, !.served = TRUE]
    /\ UNCHANGED <<logs, writing, born, boot, project, asks, answer, store, poll>>

\* The sixty seconds are over.
EndStream ==
    /\ stream.state = "open" /\ stream.served
    /\ stream' = [stream EXCEPT !.state = "ended"]
    /\ frames' = Append(frames, Frame("end", 0, 0))
    /\ UNCHANGED <<log, project, asks, answer, store, poll>>

Receive ==
    /\ frames # <<>>
    /\ frames' = Tail(frames)
    /\ LET f == Head(frames)
       IN  \/ /\ f.kind = "hello"
              /\ cursor' = f.cursor
              /\ UNCHANGED <<ever, stream>>
           \/ /\ f.kind = "event"
              /\ Apply(<<f.event>>)
              /\ cursor' = f.cursor
              /\ UNCHANGED stream
           \/ /\ f.kind = "end"
              /\ stream' = Idle
              /\ UNCHANGED <<cursor, ever>>
    /\ UNCHANGED <<log, project, asks, answer, shown, poll>>

-----------------------------------------------------------------------------
(* The polls of the desktop while eventStreamActive is false.              *)

Active == stream.state \in {"open", "ended"}

AskPoll ==
    /\ shown # None /\ ~Active /\ poll = NoPoll
    /\ poll' = [NoPoll EXCEPT !.state = "asked", !.after = cursor]
    /\ UNCHANGED <<log, project, asks, answer, store, stream, frames>>

ServePoll ==
    /\ poll.state = "asked"
    /\ Hydrate
    /\ poll' = [poll EXCEPT !.state = "answered", !.got = Listed(poll.after)]
    /\ UNCHANGED <<logs, writing, born, boot, project, asks, answer, store,
                   stream, frames>>

ReceivePoll ==
    /\ poll.state = "answered"
    /\ Apply(poll.got.events)
    /\ cursor' = poll.got.cursor
    /\ poll' = NoPoll
    /\ UNCHANGED <<log, project, asks, answer, shown, stream, frames>>

-----------------------------------------------------------------------------
\* The sidecar opens the last project, and the desktop asks for it.
Init ==
    /\ logs = [p \in Projects |-> [i \in DOMAIN Logged[p] |-> Line(Logged[p][i], i)]]
    /\ memory = <<>>
    /\ hydrated = None
    /\ merged = {}
    /\ project = Opened
    /\ writing = {}
    /\ born = Cardinality(UNION {ToSet(Logged[p]) : p \in Projects})
    /\ boot = born
    /\ asks = 0
    /\ answer = {project}
    /\ shown = None /\ cursor = 0
    /\ ever = {}
    /\ stream = Idle
    /\ frames = <<>>
    /\ poll = NoPoll

Next ==
    \/ Record
    \/ \E e \in writing : WriteLine(e)
    \/ Look
    \/ \E p \in Projects \cup {None} : Ask(p) \/ Show(p)
    \/ Restart
    \/ Connect \/ OpenStream \/ Serve \/ EndStream \/ Receive
    \/ AskPoll \/ ServePoll \/ ReceivePoll

Spec == Init /\ [][Next]_vars

\* The desktop and the threads that serve it go on; streams may end at any
\* time, and nothing need be recorded, written or asked.
FairSpec ==
    /\ Spec
    /\ WF_vars(\E p \in Projects \cup {None} : Show(p))
    /\ WF_vars(Connect) /\ WF_vars(OpenStream) /\ WF_vars(Serve) /\ WF_vars(Receive)
    /\ WF_vars(AskPoll) /\ WF_vars(ServePoll) /\ WF_vars(ReceivePoll)

-----------------------------------------------------------------------------
(* Properties.                                                             *)

Events == 1..MaxEvents
FrameKinds == {"hello", "event", "end"}

TypeOK ==
    /\ \A p \in Projects, i \in 1..MaxEvents :
           i \in DOMAIN logs[p] => logs[p][i] \in [event : Events, index : Nat]
    /\ memory \in Seq(Events)
    /\ {hydrated, project, shown} \subseteq Projects \cup {None}
    /\ merged \subseteq Projects
    /\ writing \subseteq boot + 1 .. born
    /\ boot <= born /\ born <= MaxEvents
    /\ Cardinality(answer) <= 1 /\ answer \subseteq Projects \cup {None}
    /\ ever \subseteq Events
    /\ cursor \in Nat
    /\ stream \in [state : {"off", "connecting", "open", "ended"}, after : Nat,
                   served : BOOLEAN]
    /\ \A i \in DOMAIN frames :
           frames[i] \in [kind : FrameKinds, event : Nat, cursor : Nat]
    /\ poll.state \in {"none", "asked", "answered"}

\* Merging the files of whatever projects are opened, while lines are still
\* being written to them, takes no event of this process out of the list the
\* context guard and the supervisor decide by.
NothingForgotten == boot + 1 .. born \subseteq ToSet(memory)

\* As long as a process has one project, no event is in the list twice,
\* whether its line was written before, during or after the merge.
OneProjectOnce ==
    Cardinality(merged) <= 1 =>
        \A i, j \in DOMAIN memory : memory[i] = memory[j] => i = j

\* The list, and all there is, is what it should be, and holds every event of
\* this process, once.
ListIsWhole == TypeOK /\ NothingForgotten /\ OneProjectOnce

Following == shown # None /\ shown = project /\ answer = {}

UnderWay == {frames[i].event : i \in DOMAIN frames}

\* The desktop has seen every event before its cursor, or is about to, through
\* any alternation of streams and polls and any reset of the cursor.
NoGap ==
    Following =>
        \A i \in DOMAIN memory : i <= cursor => memory[i] \in ever \cup UnderWay

\* Every event reaches the desktop while it shows the project that is open.
EveryEventArrives ==
    \A e \in Events :
        Following /\ e \in ToSet(memory) ~> e \in ever \/ ~Following
=============================================================================
