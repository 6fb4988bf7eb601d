----------------------------- MODULE NativeTurn -----------------------------
(***************************************************************************)
(* The native coding kernel: start_turn of a native thread with its loop   *)
(* of tool calls (coding_kernel/turn_loop.py), the tools that change the   *)
(* workspace (project_tools_service.py), and the demo that attaches a      *)
(* router of its own while it runs a turn.                                 *)
(*                                                                         *)
(* Turns hold the operation lock of RuntimeService; requests of the HTTP   *)
(* API that run a single tool do not.  All edits are made to one file: its *)
(* content is the set of the edits it shows.                               *)
(*                                                                         *)
(* Abstracted: arguments and texts; a call is of a kind, \E chooses what   *)
(* the provider answers, how a command is classified and what the user     *)
(* decides (see ModalService).                                             *)
(***************************************************************************)
EXTENDS ToolMessages, FiniteSetsExt

CONSTANTS
    Turns,          \* turns of users
    Demos,          \* runs of the native kernel demo
    Requests,       \* HTTP requests that run one tool
    Real,           \* the router
    None,
    ThreadOf,       \* thread of each turn and demo
    WireOf,         \* wire API of a turn's provider, responses or chat
    ModeOf,         \* permission mode of each actor
    Responses,      \* tool calls of a response: sequences of kinds
    Enabled,        \* ASTRABRIDGE_ENABLE_NATIVE_KERNEL at first
    MaxRounds,      \* MAX_NATIVE_TOOL_ROUNDS
    MaxHistory      \* messages kept of a thread

Handlers == Turns \cup Demos
Actors == Handlers \cup Requests
Threads == {ThreadOf[h] : h \in Handlers}
Kinds == {"look", "run", "edit", "fail"}

ASSUME NativeAssumption ==
    /\ {Real, None} \cap Actors = {} /\ Real # None
    /\ Turns \cap Demos = {} /\ Requests \cap Handlers = {}
    /\ WireOf \in [Handlers -> {"responses", "chat"}]
    /\ ModeOf \in [Actors -> {"full", "auto", "ask"}]
    /\ Responses \subseteq Seq(Kinds)
    /\ Enabled \in BOOLEAN
    /\ MaxRounds \in Nat \ {0} /\ MaxHistory \in Nat \ {0}

VARIABLES
    pc,             \* step of an actor
    lock,           \* holder of _runtime_operation_lock
    rounds,         \* responses received in the turn
    todo,           \* ids and kinds of the calls still to execute
    work,           \* working_history
    history,        \* native_history of a thread
    spoken,         \* wire APIs of the turns recorded in it
    router,         \* _router
    loop,           \* router of _native_turn_loop, None if there is no loop
    enabled,        \* the environment variable
    kept,           \* router, loop and flag a demo will put back
    overlap,        \* two demos were under way at once
    file,           \* edits the file shows
    base,           \* content an actor has read
    saved,          \* edits some checkpoint shows
    written,        \* edits written so far
    raced,          \* those written while another actor had its checkpoint
    brought         \* those a request of the API put into the file, or back

turn == <<lock, rounds, todo, work>>
kernel == <<router, loop, enabled, kept, overlap>>
workspace == <<file, base, saved, written, raced, brought>>
vars == <<pc, turn, history, spoken, kernel, workspace>>

At(a, step) == pc[a] = step
Goto(a, step) == pc' = [pc EXCEPT ![a] = step]

-----------------------------------------------------------------------------
(* run_turn.                                                               *)

\* Mutant: two turns may run at once.
AnyLock(h) == TRUE

LockFree(h) == lock = None

\* Mutant: a turn that fails keeps the lock.
EndLocked(h, step) ==
    /\ Goto(h, IF h \in Demos THEN "restore" ELSE step)
    /\ lock' = IF h \in Handlers /\ step = "done" THEN None ELSE lock
    /\ rounds' = [rounds EXCEPT ![h] = 0]
    /\ todo' = [todo EXCEPT ![h] = <<>>]
    /\ work' = [work EXCEPT ![h] = <<>>]

\* A turn is over: its locals go, and a demo goes on to put the router back.
End(h, step) ==
    /\ Goto(h, IF h \in Demos THEN "restore" ELSE step)
    /\ lock' = IF h \in Handlers THEN None ELSE lock
    /\ rounds' = [rounds EXCEPT ![h] = 0]
    /\ todo' = [todo EXCEPT ![h] = <<>>]
    /\ work' = [work EXCEPT ![h] = <<>>]

Begin(h) ==
    /\ At(h, IF h \in Demos THEN "swapped" ELSE "idle")
    /\ LockFree(h)
    /\ IF enabled /\ loop # None
       THEN /\ Goto(h, "ask")
            /\ lock' = h
            /\ work' = [work EXCEPT ![h] =
                            Append(history[ThreadOf[h]], Said("user"))]
            /\ UNCHANGED <<rounds, todo>>
       ELSE End(h, "failed")
    /\ UNCHANGED <<history, spoken, kernel, workspace>>

\* Ids differ from response to response; a chat provider makes one call.
Calls(h, kinds) ==
    LET ids == [i \in DOMAIN kinds |-> <<h, rounds[h], i>>]
    IN  IF WireOf[h] = "chat" THEN SerialCalls(ids) ELSE ids

\* complete_response; the provider may ask for calls, or for none.
Ask(h, kinds) ==
    LET ids == Calls(h, kinds) IN
    /\ At(h, "ask")
    /\ rounds' = [rounds EXCEPT ![h] = @ + 1]
    /\ todo' = [todo EXCEPT ![h] =
                    [i \in DOMAIN ids |-> [id |-> ids[i], kind |-> kinds[i]]]]
    /\ work' = [work EXCEPT ![h] = IF ids = <<>> THEN @
                                   ELSE Append(@, Calling(ids))]
    /\ Goto(h, IF ids = <<>> THEN "finish" ELSE "tool")
    /\ UNCHANGED <<lock, history, spoken, kernel, workspace>>

\* The provider fails, or a tool raises: nothing of the turn is recorded.
Fail(a) ==
    /\ \/ At(a, "ask")
       \/ At(a, "tool") /\ Head(todo[a]).kind = "fail"
       \/ At(a, "save")
    /\ End(a, "failed")
    /\ UNCHANGED <<history, spoken, kernel, workspace>>

\* The result of a call is appended; the next call, response or the end.
Answered(a) ==
    IF a \in Requests THEN End(a, "done") /\ UNCHANGED <<history, spoken, kernel>> ELSE
    /\ todo' = [todo EXCEPT ![a] = Tail(@)]
    /\ work' = [work EXCEPT ![a] = Append(@, Result(Head(todo[a]).id))]
    /\ Goto(a, IF Tail(todo[a]) # <<>> THEN "tool"
               ELSE IF rounds[a] = MaxRounds THEN "finish" ELSE "ask")
    /\ UNCHANGED <<lock, rounds, history, spoken, kernel>>

KeptHistory(messages) ==
    SubSeq(messages, Max({1, Len(messages) - MaxHistory + 1}), Len(messages))

Finish(h) ==
    LET t == ThreadOf[h] IN
    /\ At(h, "finish")
    /\ history' = [history EXCEPT ![t] =
                       KeptHistory(Append(work[h], Said("assistant")))]
    /\ spoken' = [spoken EXCEPT ![t] = @ \cup {WireOf[h]}]
    /\ End(h, "done")
    /\ UNCHANGED <<kernel, workspace>>

-----------------------------------------------------------------------------
(* Tools.                                                                  *)

Calls1(a, kind) == At(a, "tool") /\ Head(todo[a]).kind = kind

\* Reviews, files, terminal history: they change nothing.
Look(a) == Calls1(a, "look") /\ Answered(a) /\ UNCHANGED workspace

Allowed(a, harmless) ==
    ModeOf[a] = "full" \/ (ModeOf[a] = "auto" /\ harmless)

Classify(a, harmless) ==
    /\ Calls1(a, "run")
    /\ Goto(a, IF Allowed(a, harmless) THEN "command" ELSE "approval")
    /\ UNCHANGED <<turn, history, spoken, kernel, workspace>>

\* The decision of the user, or that of the modal's timeout.
Decide(a, accepted) ==
    /\ At(a, "approval")
    /\ IF accepted
       THEN Goto(a, "command") /\ UNCHANGED <<turn, history, spoken, kernel>>
       ELSE Answered(a)
    /\ UNCHANGED workspace

\* A command that fails or times out has a result as well.
RunCommand(a) == At(a, "command") /\ Answered(a) /\ UNCHANGED workspace

\* edit_apply reads the file; edits that only propose write nothing.
ReadFile(a, proposed) ==
    /\ Calls1(a, "edit")
    /\ IF proposed THEN Answered(a) /\ UNCHANGED base
       ELSE /\ base' = [base EXCEPT ![a] = file]
            /\ Goto(a, "save")
            /\ UNCHANGED <<turn, history, spoken, kernel>>
    /\ UNCHANGED <<file, saved, written, raced, brought>>

\* Mutant: the checkpoint is made of the text that was read.
SaveRead(a) ==
    /\ At(a, "save")
    /\ saved' = saved \cup base[a]
    /\ Goto(a, "write")
    /\ UNCHANGED <<turn, history, spoken, kernel, file, base, written, raced,
                   brought>>

Save(a) ==
    /\ At(a, "save")
    /\ saved' = saved \cup file
    /\ Goto(a, "write")
    /\ UNCHANGED <<turn, history, spoken, kernel, file, base, written, raced,
                   brought>>

WriteFile(a) ==
    /\ At(a, "write")
    /\ LET edit == Head(todo[a]).id IN
       /\ file' = base[a] \cup {edit}
       /\ written' = written \cup {edit}
       /\ raced' = IF \E b \in Actors \ {a} : At(b, "write")
                   THEN raced \cup {edit} ELSE raced
       /\ brought' = IF a \in Requests THEN brought \cup (file' \ file) ELSE brought
    /\ base' = [base EXCEPT ![a] = {}]
    /\ Answered(a)
    /\ UNCHANGED saved

Request(q, kind) ==
    /\ At(q, "idle")
    /\ todo' = [todo EXCEPT ![q] = <<[id |-> <<q, 0, 1>>, kind |-> kind]>>]
    /\ Goto(q, "tool")
    /\ UNCHANGED <<lock, rounds, work, history, spoken, kernel, workspace>>

-----------------------------------------------------------------------------
(* The demo.                                                               *)

Underway(d) == pc[d] \notin {"idle", "done"}

\* attach_router: there is a new loop only if there was none.
Attach(r) ==
    /\ router' = r
    /\ loop' = IF loop = None THEN r ELSE loop

TakeOut(d) ==
    /\ At(d, "idle")
    /\ kept' = [kept EXCEPT ![d] = [router |-> router, enabled |-> enabled]]
    /\ overlap' = (overlap \/ \E e \in Demos : Underway(e))
    /\ enabled' = TRUE
    /\ loop' = None
    /\ Goto(d, "swap")
    /\ UNCHANGED <<turn, history, spoken, router, workspace>>

PutIn(d) ==
    /\ At(d, "swap")
    /\ Attach(d)
    /\ Goto(d, "swapped")
    /\ UNCHANGED <<turn, history, spoken, enabled, kept, overlap, workspace>>

\* Mutant: the loop of the demo stays.
RestoreFlag(d) ==
    /\ At(d, "restore")
    /\ enabled' = kept[d].enabled
    /\ Goto(d, "reattach")
    /\ UNCHANGED <<turn, history, spoken, router, loop, kept, overlap, workspace>>

Restore(d) ==
    /\ At(d, "restore")
    /\ enabled' = kept[d].enabled
    /\ loop' = None
    /\ Goto(d, "reattach")
    /\ UNCHANGED <<turn, history, spoken, router, kept, overlap, workspace>>

Reattach(d) ==
    /\ At(d, "reattach")
    /\ Attach(kept[d].router)
    /\ Goto(d, "done")
    /\ UNCHANGED <<turn, history, spoken, enabled, kept, overlap, workspace>>

-----------------------------------------------------------------------------
Init ==
    /\ pc = [a \in Actors |-> "idle"]
    /\ lock = None
    /\ rounds = [a \in Actors |-> 0]
    /\ todo = [a \in Actors |-> <<>>]
    /\ work = [a \in Actors |-> <<>>]
    /\ history = [t \in Threads |-> <<>>]
    /\ spoken = [t \in Threads |-> {}]
    /\ router = Real /\ loop = Real /\ enabled = Enabled
    /\ kept = [d \in Demos |-> [router |-> Real, enabled |-> Enabled]]
    /\ overlap = FALSE
    /\ file = {} /\ saved = {} /\ written = {}
    /\ raced = {} /\ brought = {}
    /\ base = [a \in Actors |-> {}]

Tool(a) ==
    \/ Look(a) \/ RunCommand(a) \/ Save(a) \/ WriteFile(a)
    \/ \E b \in BOOLEAN : Classify(a, b) \/ Decide(a, b) \/ ReadFile(a, b)

\* What goes on by itself once a turn, demo or request is under way.
Proceed(a) ==
    \/ Tool(a) \/ Fail(a)
    \/ /\ a \in Handlers
       /\ Finish(a) \/ \E kinds \in Responses : Ask(a, kinds)
    \/ a \in Demos /\ (PutIn(a) \/ Restore(a) \/ Reattach(a))

Next ==
    \/ \E a \in Actors : Proceed(a)
    \/ \E h \in Handlers : Begin(h)
    \/ \E q \in Requests, kind \in Kinds : Request(q, kind)
    \/ \E d \in Demos : TakeOut(d)

Fairness == \A a \in Actors : WF_vars(Proceed(a))

Spec == Init /\ [][Next]_vars
FairSpec == Spec /\ Fairness

-----------------------------------------------------------------------------
(* Properties.                                                             *)

Steps == {"idle", "swap", "swapped", "ask", "tool", "approval", "command",
          "save", "write", "finish", "restore", "reattach", "done", "failed"}

TypeOK ==
    /\ pc \in [Actors -> Steps]
    /\ lock \in Handlers \cup {None}
    /\ rounds \in [Actors -> 0 .. MaxRounds]
    /\ \A a \in Actors : (todo[a] # <<>>) <=>
           pc[a] \in {"tool", "approval", "command", "save", "write"}
    /\ \A t \in Threads : Len(history[t]) <= MaxHistory
    /\ {router, loop} \subseteq {Real, None} \cup Demos
    /\ {enabled, overlap} \subseteq BOOLEAN
    /\ UNION {raced, brought, file} \subseteq written

Sent(h) == Repaired(Converted(work[h]))

AcceptedBy(h) ==
    /\ EveryCallAnswered(Sent(h))
    /\ EveryResultFollows(Sent(h))
    /\ EveryResultWanted(Sent(h))

\* Whatever turns came before, failed or were cut off the history, the messages
\* a chat provider gets hold every result after its call and a result for every
\* call (native_history[-120:], enforce_tool_message_sequence), as long as no
\* turn of a responses provider is in the history.
SentIsAccepted ==
    /\ TypeOK
    /\ \A h \in Handlers :
        At(h, "ask") /\ WireOf[h] = "chat" /\ "responses" \notin spoken[ThreadOf[h]]
            => AcceptedBy(h)

\* A native turn never writes over the edit of another turn: the edits of turns
\* are read, saved and written under one holding of the operation lock.  What a
\* turn may write over is what an HTTP request, which takes no lock, has put
\* into the file (_edit_operation), its own edit or one it had read.
TurnsKeepEachOthersEdits ==
    [][\A h \in Handlers : At(h, "write") /\ todo'[h] # todo[h]
           => file \ file' \subseteq brought]_vars

\* Every edit that was written is in the file or in a checkpoint (_edit_operation
\* makes one before it writes), unless it was written between the checkpoint
\* and the write of another actor.
EditsCanBeFound == written \subseteq file \cup saved \cup raced

\* When no demo is under way the loop, the router and the flag are those of the
\* beginning, if no two demos ever overlapped: whatever turns ran meanwhile,
\* failed or were refused because there was no loop.
RouterComesBack ==
    ~overlap /\ (\A d \in Demos : ~Underway(d))
        => router = Real /\ loop = Real /\ enabled = Enabled

\* The operation lock is free again and again: turns give it back after their
\* rounds, when a tool or the provider fails, and when nobody answers the
\* approval of a command (its modal times out).
LockIsReleased == []<>(lock = None)
=============================================================================
