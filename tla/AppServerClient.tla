-------------------------- MODULE AppServerClient --------------------------
(***************************************************************************)
(* One AppServerClient (app_server_client.py): the JSON-RPC transport      *)
(* between the sidecar and one codex app-server process, over stdio.       *)
(*                                                                         *)
(* Threads.  Every HTTP request of the sidecar runs in a thread of its     *)
(* own; a call of client.request is one member of Requests (request ids    *)
(* are never reused).  Boot is the "initialize" call that start() makes.   *)
(* The reader is the _reader_loop thread, the closer the thread that runs  *)
(* close().  A step is one access to shared state: a critical section of   *)
(* _pending_lock, a read or write of _process, a write to the pipe, an     *)
(* Event.set.  The app-server itself is external: it executes and answers  *)
(* what it reads, each request once and in any order, and may exit at any  *)
(* time.                                                                   *)
(***************************************************************************)
CONSTANTS
    Requests,   \* calls of request(), Boot included
    Boot,       \* the "initialize" call of start()
    Patient     \* calls whose timeout is too long to count on

ASSUME BootAssumption == Boot \in Requests

VARIABLES
    start,          \* progress of start()
    handle,         \* self._process is not None
    alive,          \* the process runs (poll() is None)
    disconnected,   \* the _disconnected event
    pending,        \* keys of self._pending
    pc,             \* pc[r]: where the calling thread is
    entry,          \* entry[r]: what its _PendingRequest holds, "none" while
                    \* its event is not set
    outcome,        \* outcome[r]: how request() returned
    wire,           \* wire[r]: how far the request and its answer have come
    reader,         \* state of the reader thread
    readerError,    \* the reader loop ended by an exception
    closer,         \* progress of close()
    taken           \* taken[t]: entries thread t took out of _pending and
                    \* has not settled yet

process == <<start, handle, alive, disconnected>>
calls == <<pending, pc, entry, outcome>>
threads == <<reader, readerError, closer, taken>>
vars == <<process, calls, wire, threads>>

Init ==
    /\ start = "idle"
    /\ handle = FALSE
    /\ alive = FALSE
    /\ disconnected = FALSE
    /\ pending = {}
    /\ pc = [r \in Requests |-> "idle"]
    /\ entry = [r \in Requests |-> "none"]
    /\ outcome = [r \in Requests |-> "none"]
    /\ wire = [r \in Requests |-> "unsent"]
    /\ reader = "off"
    /\ readerError = FALSE
    /\ closer = "idle"
    /\ taken = [t \in {"reader", "closer"} |-> {}]

-----------------------------------------------------------------------------
(* start(): spawn the process and the reader, call "initialize", then send *)
(* the "initialized" notification.                                         *)

Spawn ==
    /\ start = "idle"
    /\ start' = "initializing"
    /\ handle' = TRUE
    /\ alive' = TRUE
    /\ reader' = "starting"
    /\ UNCHANGED <<disconnected, calls, wire, readerError, closer, taken>>

\* Popen raises: no process, no reader.
SpawnFails ==
    /\ start = "idle"
    /\ start' = "failed"
    /\ UNCHANGED <<handle, alive, disconnected, calls, wire, threads>>

Started ==
    /\ start = "initializing"
    /\ outcome[Boot] = "answered"
    /\ alive
    /\ start' = "ready"
    /\ UNCHANGED <<handle, alive, disconnected, calls, wire, threads>>

\* The call raised; an answer may carry a JSON-RPC error.
InitializeFails ==
    /\ start = "initializing"
    /\ pc[Boot] = "returned"
    /\ start' = "failed"
    /\ UNCHANGED <<handle, alive, disconnected, calls, wire, threads>>

\* Writing the "initialized" notification raises.
InitializedFails ==
    /\ start = "initializing"
    /\ outcome[Boot] = "answered"
    /\ ~alive
    /\ start' = "failed"
    /\ disconnected' = TRUE
    /\ UNCHANGED <<handle, alive, calls, wire, threads>>

-----------------------------------------------------------------------------
(* request(): register under the lock, send, wait, return.                 *)

\* RuntimeService publishes a client once start() has returned.
MayCall(r) == IF r = Boot THEN start = "initializing" ELSE start = "ready"

Register(r) ==
    /\ pc[r] = "idle"
    /\ MayCall(r)
    /\ pending' = pending \cup {r}
    /\ pc' = [pc EXCEPT ![r] = "registered"]
    /\ UNCHANGED <<process, entry, outcome, wire, threads>>

Finish(r, how) ==
    /\ pc' = [pc EXCEPT ![r] = "returned"]
    /\ outcome' = [outcome EXCEPT ![r] = how]

\* _send reads self._process; without one the entry stays in _pending.
ReadProcess(r) ==
    /\ pc[r] = "registered"
    /\ IF handle
       THEN pc' = [pc EXCEPT ![r] = "sending"] /\ UNCHANGED outcome
       ELSE Finish(r, "not_running")
    /\ UNCHANGED <<process, pending, entry, wire, threads>>

Write(r) ==
    /\ pc[r] = "sending"
    /\ alive
    /\ wire' = [wire EXCEPT ![r] = "stdin"]
    /\ pc' = [pc EXCEPT ![r] = "waiting"]
    /\ UNCHANGED <<process, pending, entry, outcome, threads>>

\* The pipe is broken: the OSError leaves request() before the wait, and the
\* entry stays in _pending.
WriteFails(r) ==
    /\ pc[r] = "sending"
    /\ ~alive
    /\ disconnected' = TRUE
    /\ Finish(r, "write_failed")
    /\ UNCHANGED <<start, handle, alive, pending, entry, wire, threads>>

\* event.wait returned True: raise pending.error or return pending.result.
Wake(r) ==
    /\ pc[r] = "waiting"
    /\ entry[r] # "none"
    /\ Finish(r, entry[r])
    /\ UNCHANGED <<process, pending, entry, wire, threads>>

\* event.wait returned False.
WaitExpires(r) ==
    /\ pc[r] = "waiting"
    /\ entry[r] = "none"
    /\ pc' = [pc EXCEPT ![r] = "expired"]
    /\ UNCHANGED <<process, pending, entry, outcome, wire, threads>>

\* Mutant: the wait is taken up again.
RaiseTimeoutWaits(r) ==
    /\ pc[r] = "expired"
    /\ pc' = [pc EXCEPT ![r] = "waiting"]
    /\ UNCHANGED <<process, pending, entry, outcome, wire, threads>>

\* Drop the own entry under the lock and raise TimeoutError, even if the
\* event has been set since.
RaiseTimeout(r) ==
    /\ pc[r] = "expired"
    /\ pending' = pending \ {r}
    /\ Finish(r, "timeout")
    /\ UNCHANGED <<process, entry, wire, threads>>

-----------------------------------------------------------------------------
(* The app-server process (external).                                      *)

Execute(r) ==
    /\ alive
    /\ wire[r] = "stdin"
    /\ wire' = [wire EXCEPT ![r] = "executed"]
    /\ UNCHANGED <<process, calls, threads>>

Answer(r) ==
    /\ alive
    /\ wire[r] = "executed"
    /\ wire' = [wire EXCEPT ![r] = "stdout"]
    /\ UNCHANGED <<process, calls, threads>>

Exit ==
    /\ alive
    /\ alive' = FALSE
    /\ UNCHANGED <<start, handle, disconnected, calls, wire, threads>>

-----------------------------------------------------------------------------
(* An entry is settled in two steps: it is taken out of _pending under the *)
(* lock, and its result and event are set after the lock is released.      *)

\* Mutant: _pending is cleared before the list is taken.
TakeLoses(t, entries) ==
    /\ taken' = [taken EXCEPT ![t] = {}]
    /\ pending' = pending \ entries

Take(t, entries) ==
    /\ taken' = [taken EXCEPT ![t] = entries]
    /\ pending' = pending \ entries

Settle(t, how) ==
    /\ taken' = [taken EXCEPT ![t] = {}]
    /\ entry' = [r \in Requests |-> IF r \in taken[t] THEN how ELSE entry[r]]

-----------------------------------------------------------------------------
(* The reader thread: _reader_loop.                                        *)

\* The thread reads self._process once; None ends it silently.
ReaderStarts ==
    /\ reader = "starting"
    /\ reader' = IF handle THEN "reading" ELSE "done"
    /\ UNCHANGED <<process, calls, wire, readerError, closer, taken>>

\* on_notification is RuntimeService._on_notification, which appends to the
\* event list under RuntimeService._lock.  _ensure_client holds that lock
\* from before start() until the client is published, or closed because
\* start() failed.
HandlerFree == start = "ready" \/ (start = "failed" /\ closer = "done")

ReadNotification ==
    /\ reader = "reading"
    /\ alive
    /\ reader' = "notifying"
    /\ UNCHANGED <<process, calls, wire, readerError, closer, taken>>

HandlerReturns ==
    /\ reader = "notifying"
    /\ HandlerFree
    /\ reader' = "reading"
    /\ UNCHANGED <<process, calls, wire, readerError, closer, taken>>

\* Mutant: the answer goes to whichever calls are pending.
ReadAnswerOfAny(r) ==
    /\ reader = "reading"
    /\ wire[r] = "stdout"
    /\ wire' = [wire EXCEPT ![r] = "read"]
    /\ Take("reader", pending)
    /\ reader' = IF pending # {} THEN "resolving" ELSE "reading"
    /\ UNCHANGED <<process, pc, entry, outcome, readerError, closer>>

\* An answer whose entry is gone is dropped.
ReadAnswer(r) ==
    /\ reader = "reading"
    /\ wire[r] = "stdout"
    /\ wire' = [wire EXCEPT ![r] = "read"]
    /\ Take("reader", pending \cap {r})
    /\ reader' = IF r \in pending THEN "resolving" ELSE "reading"
    /\ UNCHANGED <<process, pc, entry, outcome, readerError, closer>>

Resolve ==
    /\ reader = "resolving"
    /\ Settle("reader", "answered")
    /\ reader' = "reading"
    /\ UNCHANGED <<process, pending, pc, outcome, wire, readerError, closer>>

LoopEnds ==
    /\ reader = "reading"
    /\ reader' = "ending"
    /\ disconnected' = TRUE
    /\ UNCHANGED <<start, handle, alive, calls, wire, closer, taken>>

\* The process has exited and its output is read.
EndOfFile ==
    /\ ~alive
    /\ \A r \in Requests : wire[r] # "stdout"
    /\ LoopEnds
    /\ UNCHANGED readerError

\* A line that is JSON and not a message makes _handle_message raise.
ReaderRaises ==
    /\ LoopEnds
    /\ readerError' = TRUE

\* "runtime/disconnected" is passed to the notification handler first.
ReaderTakesPending ==
    /\ reader = "ending"
    /\ HandlerFree
    /\ Take("reader", pending)
    /\ reader' = "failing"
    /\ UNCHANGED <<process, pc, entry, outcome, wire, readerError, closer>>

ReaderFailsPending ==
    /\ reader = "failing"
    /\ Settle("reader", "disconnected")
    /\ reader' = "done"
    /\ UNCHANGED <<process, pending, pc, outcome, wire, readerError, closer>>

-----------------------------------------------------------------------------
(* close(): called once on a client, by _close_client on one whose start() *)
(* succeeded, by _ensure_client on one whose start() failed.               *)

\* Set the flags, clear _process and kill the process, which goes away at
\* some later moment (Exit).  Without a process close() returns here.
Close ==
    /\ closer = "idle"
    /\ start \in {"ready", "failed"}
    /\ disconnected' = TRUE
    /\ handle' = FALSE
    /\ closer' = IF handle THEN "killed" ELSE "done"
    /\ UNCHANGED <<start, alive, calls, wire, reader, readerError, taken>>

CloseTakesPending ==
    /\ closer = "killed"
    /\ Take("closer", pending)
    /\ closer' = "failing"
    /\ UNCHANGED <<process, pc, entry, outcome, wire, reader, readerError>>

CloseFailsPending ==
    /\ closer = "failing"
    /\ Settle("closer", "closed")
    /\ closer' = "done"
    /\ UNCHANGED <<process, pending, pc, outcome, wire, reader, readerError>>

-----------------------------------------------------------------------------
Starting == Spawn \/ SpawnFails \/ Started \/ InitializeFails \/ InitializedFails

\* The steps of a calling thread that do not wait for anyone.
Calling(r) ==
    ReadProcess(r) \/ Write(r) \/ WriteFails(r) \/ Wake(r) \/ RaiseTimeout(r)

Reading ==
    \/ ReaderStarts
    \/ \E r \in Requests : ReadAnswer(r)
    \/ Resolve
    \/ HandlerReturns
    \/ EndOfFile
    \/ ReaderTakesPending
    \/ ReaderFailsPending

Closing == CloseTakesPending \/ CloseFailsPending

Next ==
    \/ Starting
    \/ \E r \in Requests :
          Register(r) \/ Calling(r) \/ WaitExpires(r) \/ Execute(r) \/ Answer(r)
    \/ Exit
    \/ Reading
    \/ ReadNotification
    \/ ReaderRaises
    \/ Close
    \/ Closing

Spec == Init /\ [][Next]_vars

-----------------------------------------------------------------------------
(* Fairness: the operating system schedules every runnable thread, a       *)
(* process that was killed goes away, and a wait that is not answered      *)
(* reaches its timeout, except that of a patient call.  Nothing is assumed *)
(* of the app-server: it may never answer and never exit.                  *)

ThreadFairness ==
    /\ WF_vars(Starting)
    /\ \A r \in Requests : WF_vars(Calling(r))
    /\ WF_vars(Reading)
    /\ WF_vars(Close /\ start = "failed")
    /\ WF_vars(Closing)
    /\ WF_vars(Exit /\ closer # "idle")

FairSpec ==
    Spec /\ ThreadFairness /\ \A r \in Requests \ Patient : WF_vars(WaitExpires(r))

-----------------------------------------------------------------------------
(* Properties.                                                             *)

CallStates == {"idle", "registered", "sending", "waiting", "expired", "returned"}
EntryStates == {"none", "answered", "disconnected", "closed"}
Outcomes == EntryStates \cup {"not_running", "write_failed", "timeout"}
WireStates == {"unsent", "stdin", "executed", "stdout", "read"}
ReaderStates == {"off", "starting", "reading", "notifying", "resolving",
                 "ending", "failing", "done"}
CloserStates == {"idle", "killed", "failing", "done"}

\* Every variable has its type, and a thread holds entries it took out of
\* _pending only while it is at the step that settles them.
TypeOK ==
    /\ start \in {"idle", "initializing", "ready", "failed"}
    /\ handle \in BOOLEAN
    /\ alive \in BOOLEAN
    /\ disconnected \in BOOLEAN
    /\ pending \in SUBSET Requests
    /\ pc \in [Requests -> CallStates]
    /\ entry \in [Requests -> EntryStates]
    /\ outcome \in [Requests -> Outcomes]
    /\ wire \in [Requests -> WireStates]
    /\ reader \in ReaderStates
    /\ readerError \in BOOLEAN
    /\ closer \in CloserStates
    /\ taken \in [{"reader", "closer"} -> SUBSET Requests]
    /\ taken["reader"] # {} => reader \in {"resolving", "failing"}
    /\ taken["closer"] # {} => closer = "failing"

Waiting(r) == pc[r] = "waiting" /\ entry[r] = "none"

\* The reader's _resolve_response, the reader's _fail_all_pending, close()'s
\* _fail_all_pending and the timeout compete for an entry: whoever takes it
\* out of _pending is the only one to settle it, so what a caller finds in
\* its entry never changes once its event is set.
SettledOnce ==
    [][\A r \in Requests : entry[r] # "none" => entry'[r] = entry[r]]_vars

\* A thread that waits without an answer is still known to some thread that
\* will settle it: popping an entry and setting its event are separate
\* steps, and no interleaving of them forgets a waiter.
WaiterIsHeld ==
    \A r \in Requests :
        Waiting(r) => r \in pending \cup taken["reader"] \cup taken["closer"]

\* close() clears _process before it fails the pending requests: a call that
\* registered too late to be failed finds no process to write to.  When
\* close() has returned only callers whose entry the reader already holds
\* still wait.
CloseLeavesNoWaiter ==
    closer = "done" =>
        \A r \in Requests : Waiting(r) => r \in taken["reader"]

\* The same at the end of the app-server's output, unless the reader loop
\* was ended by an exception while the process lived on.
DisconnectLeavesNoWaiter ==
    reader = "done" /\ ~readerError =>
        \A r \in Requests : Waiting(r) => r \in taken["closer"]

\* request() forgets its entry when the send raises.  Such a leaked entry
\* exists only in a client that is_running() already reports as dead, which
\* _ensure_client replaces, so leaks do not accumulate in a live client.
LeakOnlyWhenDisconnected ==
    \A r \in pending : pc[r] = "returned" => disconnected

\* Callers, reader, close() and the exit of the app-server hand the entries of
\* _pending to each other so that no waiting caller is forgotten, and none
\* leaks in a client that lives.
NobodyForgotten ==
    /\ TypeOK
    /\ WaiterIsHeld
    /\ CloseLeavesNoWaiter
    /\ DisconnectLeavesNoWaiter
    /\ LeakOnlyWhenDisconnected

\* Once close() has begun every call returns, the patient ones included.
CloseReleasesCallers ==
    \A r \in Requests :
        (closer # "idle" /\ pc[r] # "idle") ~> pc[r] = "returned"

\* Once the app-server has exited every call made after start() returns, the
\* patient ones included, unless the reader loop was ended by an exception.
\* The "initialize" call returns by its timeout only: until start() returns
\* the reader is kept from failing it (HandlerFree).
ExitReleasesCallers ==
    \A r \in Requests \ {Boot} :
        (~alive /\ pc[r] # "idle") ~> (pc[r] = "returned" \/ readerError)

\* With its timeout every call returns, whatever the app-server and the
\* reader thread do.
EveryCallReturns ==
    \A r \in Requests \ Patient : pc[r] # "idle" ~> pc[r] = "returned"

\* However the client ends, and whether or not it ends, its callers return.
CallersReturn == CloseReleasesCallers /\ ExitReleasesCallers /\ EveryCallReturns

-----------------------------------------------------------------------------
(* What the caller may conclude from the way its call returned.            *)

VerdictOf(how) ==
    CASE how = "none" -> "none"
      [] how = "answered" -> "answered"
      [] how \in {"not_running", "write_failed"} -> "rejected"
      [] how \in {"disconnected", "closed", "timeout"} -> "failed"

PhaseOf(state) ==
    IF state \in {"idle", "returned"} THEN state ELSE "open"

Contract == INSTANCE RpcContract WITH
    phase <- [r \in Requests |-> PhaseOf(pc[r])],
    verdict <- [r \in Requests |-> VerdictOf(outcome[r])],
    executed <- {r \in Requests : wire[r] \in {"executed", "stdout", "read"}}

\* The client implements the contract: "answered" means executed, a call
\* whose send failed never runs, and no request runs twice.
ImplementsContract == Contract!Spec

\* What a call returns is true of what the app-server did, and stays as it was
\* settled first.
ReturnsAreTrue == SettledOnce /\ ImplementsContract
=============================================================================
