----------------------------- MODULE ThreadView -----------------------------
(***************************************************************************)
(* What a read of a thread shows of its last turn (read_thread in          *)
(* runtime_service.py): the answer of the app-server, which may leave out  *)
(* the calls of dynamic tools, with what notifications have recorded of    *)
(* them laid over it; how the calls are labelled; whether the turn ended   *)
(* without a reply; and the status of the thread, from which an error     *)
(* that a completed turn has outlived is removed.                          *)
(*                                                                         *)
(* The app-server is external: it works, and tells of each item when it    *)
(* begins and when it is complete; notifications wait for the one thread   *)
(* that takes them up and records them, which is lost if the sidecar ends. *)
(* Abstracted: texts, by the lengths and marks that are compared.          *)
(***************************************************************************)
EXTENDS Naturals, Sequences, FiniteSets, Positions

CONSTANTS
    MaxItems,       \* bound: items of each turn, a sequence
    MaxReads        \* bound: reads in each turn

ASSUME ViewAssumption == MaxItems \in Seq(Nat) /\ MaxReads \in Seq(Nat) /\ Len(MaxItems) = Len(MaxReads)

VARIABLES
    turn,           \* last turn, as the app-server has it
    status,         \* of the thread, there
    sent,           \* notifications not yet recorded: items
    heard,          \* items of the notifications in the list of events
    reply,          \* what thread/read has answered, {} or a set of one
    cached,         \* status in thread_cache.json
    view,           \* what a read has shown in this step, {} or a set of one
    reads, turns

threadView == <<turn, status, sent, heard, reply, cached, view, reads, turns>>

Message(size, note) == [kind |-> "message", size |-> size, note |-> note]
Messages == {Message("medium", TRUE), Message("long", FALSE)}
Command(state) == [kind |-> "command", state |-> state]
Call(id, state, tells) == [kind |-> "call", id |-> id, state |-> state, tells |-> tells]
NewTurn == [items |-> <<>>, state |-> "inProgress"]

IsCall(item) == item.kind = "call"
Calls(items) == {i \in DOMAIN items : IsCall(items[i])}
Messaged(items) == {i \in DOMAIN items : items[i].kind = "message"}
Named(items, id) == {i \in DOMAIN items : IsCall(items[i]) /\ items[i].id = id}
CallsOf(items) == {items[i].id : i \in Calls(items)}
FirstMessage(items) ==
    IF Messaged(items) = {} THEN Len(items) + 1
    ELSE CHOOSE i \in Messaged(items) : \A j \in Messaged(items) : i <= j

-----------------------------------------------------------------------------
(* The app-server works on a turn.                                         *)

TellOf(item) == sent' = Append(sent, item)

BeginItem ==
    /\ turn.state = "inProgress" /\ Len(turn.items) < MaxItems[turns]
    /\ \E item \in Messages \cup {Command("inProgress"),
                                Call(Cardinality(CallsOf(turn.items)) + 1, "inProgress", "nothing")} :
          /\ turn' = [turn EXCEPT !.items = Append(@, item)]
          /\ IF IsCall(item) THEN TellOf(item) ELSE UNCHANGED sent
    /\ UNCHANGED <<status, heard, reply, cached, reads, turns>>
    /\ view' = {}

\* A tool tells where its result is, or says that it is verified.
CompleteItem ==
    /\ turn.state = "inProgress"
    /\ \E i \in DOMAIN turn.items, tells \in {"values", "marker"} :
          /\ turn.items[i].kind # "message" /\ turn.items[i].state = "inProgress"
          /\ IF IsCall(turn.items[i])
             THEN LET done == Call(turn.items[i].id, "completed", tells)
                  IN  turn' = [turn EXCEPT !.items[i] = done] /\ TellOf(done)
             ELSE tells = "values" /\ turn' = [turn EXCEPT !.items[i] = Command("completed")] /\ UNCHANGED sent
    /\ UNCHANGED <<status, heard, reply, cached, reads, turns>>
    /\ view' = {}

\* The thread is told as failed, too, if an earlier turn has failed, or as not
\* loaded, if the app-server has been started again.
EndTurn ==
    /\ turn.state = "inProgress"
    /\ \E state \in {"completed", "failed"} :
          /\ turn' = [turn EXCEPT !.state = state]
          /\ status' \in IF state = "failed" THEN {"systemError"} ELSE {"idle", "systemError", "notLoaded"}
    /\ UNCHANGED <<sent, heard, reply, cached, reads, turns>>
    /\ view' = {}

BeginTurn ==
    /\ turn.state # "inProgress" /\ turns < Len(MaxItems) /\ reply = {}
    /\ turns' = turns + 1 /\ reads' = 0
    /\ turn' = NewTurn /\ status' = "active"
    /\ sent' = <<>> /\ heard' = <<>> /\ view' = {}
    /\ UNCHANGED <<reply, cached>>

-----------------------------------------------------------------------------
(* The sidecar records what it is told, and reads.                         *)

RecordItem ==
    /\ sent # <<>>
    /\ heard' = Append(heard, Head(sent)) /\ sent' = Tail(sent)
    /\ UNCHANGED <<turn, status, reply, cached, reads, turns>>
    /\ view' = {}

\* The sidecar ends: what it had not recorded is lost, the turn with it.
EndSidecar ==
    /\ turn.state # "inProgress" /\ sent # <<>>
    /\ sent' = <<>> /\ reply' = {}
    /\ UNCHANGED <<turn, status, heard, cached, reads, turns>>
    /\ view' = {}

\* thread/read is answered, with the calls of dynamic tools or without them.
AnswerRead ==
    /\ reply = {} /\ reads < MaxReads[turns]
    /\ \E items \in {turn.items, Chosen(turn.items, DOMAIN turn.items \ Calls(turn.items))} :
          reply' = {[items |-> items, state |-> turn.state, status |-> status, truth |-> turn]}
    /\ UNCHANGED <<turn, status, sent, heard, cached, reads, turns>>
    /\ view' = {}

\* The item the last event of each call carries, in the order of these events.
LatestOf(events) ==
    Chosen(events, {i \in DOMAIN events : \A j \in Named(events, events[i].id) : j <= i})

\* _overlay_dynamic_tool_events: calls that are there are brought up to date, the
\* others come before the first message.
Overlaid(items, events) ==
    LET latest == LatestOf(events)
        At(id) == CHOOSE i \in Named(latest, id) : TRUE
        merged == [i \in DOMAIN items |->
                       IF IsCall(items[i]) /\ Named(latest, items[i].id) # {}
                       THEN latest[At(items[i].id)] ELSE items[i]]
        missing == Chosen(latest, {i \in DOMAIN latest : Named(items, latest[i].id) = {}})
        here == FirstMessage(merged)
    IN  SubSeq(merged, 1, here - 1) \o missing \o SubSeq(merged, here, Len(merged))

\* _dynamic_tool_verified_evidence, _command_execution_verified_evidence.
Verified(item) ==
    CASE item.kind = "call" -> \/ item.tells = "marker"
                               \/ item.state = "completed" /\ item.tells = "values"
      [] item.kind = "command" -> item.state = "completed"
      [] OTHER -> FALSE

\* _turn_completion_quality: tools have run, and nothing, a short text or a note
\* on what comes next was said in the end.
Suspect(items, state) ==
    LET said == Messaged(items)
        sizes == {items[i].size : i \in said}
        noted == \E i \in said : items[i].note /\ \A j \in said : j <= i
    IN  /\ state = "completed"
        /\ \E i \in DOMAIN items : i \notin said
        /\ "long" \notin sizes
        /\ noted \/ "medium" \notin sizes

\* _normalize_thread_status, _overlay_cached_thread_status.
IsStale(told) == told.status \in {"systemError", "notLoaded"} /\ told.truth.state = "completed"
ShownStatus(told) ==
    CASE IsStale(told) -> "normalized"
      [] told.status \in {"systemError", "notLoaded"} /\ cached = "normalized" -> "normalized"
      [] OTHER -> told.status

\* What is shown of a read, with what there was at the time.
ShowRead ==
    /\ \E told \in reply :
          LET items == Overlaid(told.items, heard) IN
          /\ view' = {[items |-> items, suspect |-> Suspect(items, told.state),
                       verified |-> {i \in DOMAIN items : Verified(items[i])},
                       status |-> ShownStatus(told), told |-> told,
                       before |-> cached, events |-> heard]}
          /\ cached' = ShownStatus(told)
    /\ reply' = {} /\ reads' = reads + 1
    /\ UNCHANGED <<turn, status, sent, heard, turns>>

-----------------------------------------------------------------------------
ViewInit ==
    /\ turn = NewTurn /\ status = "active" /\ turns = 1 /\ reads = 0
    /\ sent = <<>> /\ heard = <<>> /\ reply = {} /\ cached = "none" /\ view = {}

ViewNext ==
    \/ BeginItem \/ CompleteItem \/ EndTurn \/ BeginTurn
    \/ RecordItem \/ EndSidecar
    \/ AnswerRead \/ ShowRead

-----------------------------------------------------------------------------
Heard(v, item) == \E j \in DOMAIN v.events : v.events[j] = item

\* Each call is shown once, in a state it has been in, and complete if that was
\* recorded; an item that is labelled verified is complete; if items are missing,
\* a notification of one is not recorded; and if none are, the turn is judged as
\* if the app-server had left nothing out.
TurnIsTrue == \A v \in view : LET truth == v.told.truth.items IN
    /\ \A id \in CallsOf(v.items) \cup CallsOf(truth) :
          /\ \A i, j \in Named(v.items, id) : i = j
          /\ \A i \in Named(v.items, id) : \E j \in Named(turn.items, id) :
                v.items[i] \in {turn.items[j], Call(id, "inProgress", "nothing")}
          /\ \A j \in Named(truth, id) :
                Heard(v, truth[j]) => \E i \in Named(v.items, id) :
                    truth[j].state = "completed" => v.items[i] = truth[j]
    /\ \A i \in v.verified : v.items[i].state = "completed"
    /\ Len(v.items) >= Len(truth) \/ \E i \in DOMAIN truth : IsCall(truth[i]) /\ ~Heard(v, truth[i])
    /\ Len(v.items) = Len(truth) => v.suspect = Suspect(truth, v.told.state)

\* The thread of a turn that failed is shown as failed, unless it had been shown
\* with an error removed by the read before.
FailuresAreShown ==
    \A v \in view :
        v.told.state = "failed" => v.status = "systemError" \/ v.before = "normalized"
=============================================================================
