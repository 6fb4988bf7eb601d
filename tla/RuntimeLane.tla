---------------------------- MODULE RuntimeLane ----------------------------
(***************************************************************************)
(* How the handlers of RuntimeService (runtime_service.py) share the one   *)
(* app-server process, its config.toml and the lock _runtime_operation_lock*)
(* when they ask for different provider profiles.                          *)
(*                                                                         *)
(* A handler is one HTTP request, in a thread of its own, of the kind      *)
(*   "turn"     start_turn on the app-server                               *)
(*   "create"   create_thread, which ends with a read_thread of its own    *)
(*   "query"    list_models: prepares under the lock, calls by the facade  *)
(*   "command"  the other callers of _prepare_runtime: interrupt_turn,     *)
(*              compact_thread, restore_startup_runtime                    *)
(*   "poll"     list_threads and read_thread: take no operation lock       *)
(*   "secret"   load_secret                                                *)
(*   "restart"  restart                                                    *)
(* A profile stands for all that runtime_signature is made of.  A step is  *)
(* a critical section of _lock, a file write, an assignment other threads  *)
(* see, or one call of the app-server, whose transport is AppServerClient. *)
(***************************************************************************)
EXTENDS Naturals, Sequences

CONSTANTS
    Handlers,
    Profiles,
    None,       \* no profile, no handler
    KindOf,     \* kind of a handler
    ProfileOf,  \* profile a handler asks for
    Casts,      \* sets of handlers: those of one of them arrive
    MaxProcs    \* bound: app-server processes ever launched

Kinds == {"turn", "create", "query", "command", "poll", "secret", "restart"}

ASSUME LaneAssumption ==
    /\ None \notin Profiles \cup Handlers
    /\ KindOf \in [Handlers -> Kinds]
    /\ ProfileOf \in [Handlers -> Profiles]
    /\ Casts \subseteq SUBSET Handlers
    /\ MaxProcs \in Nat

VARIABLES
    config,     \* the profile config.toml was written for
    active,     \* RuntimeConfigService._active_runtime
    signature,  \* _runtime_signature
    pin,        \* _runtime_pin_signature until it expires
    client,     \* index in procs of the process of _client, 0 for None
    procs,      \* the processes launched: what for (sig), on which config
                \* file, whether they run, and the turns they took
    owner,      \* holder of _runtime_operation_lock
    stage,      \* stage[h]: where handler h is
    want,       \* want[h]: the profile of its runtime_status
    ref,        \* ref[h]: index in procs of its client
    attempt,    \* attempt[h]: how often it has been here
    result      \* result[h]: how it returned

shared == <<config, active, signature, pin, client, procs, owner>>
local == <<stage, want, ref, attempt, result>>
vars == <<shared, local>>

Init ==
    /\ config = None
    /\ active = None
    /\ signature = None
    /\ pin = None
    /\ client = 0
    /\ procs = <<>>
    /\ owner = None
    /\ \E cast \in Casts :
          stage = [h \in Handlers |-> IF h \in cast THEN "idle" ELSE "done"]
    /\ want = ProfileOf
    /\ ref = [h \in Handlers |-> 0]
    /\ attempt = [h \in Handlers |-> "first"]
    /\ result = [h \in Handlers |-> "none"]

-----------------------------------------------------------------------------
(* A process is "up"; "deaf" when its reader thread has died, so that      *)
(* is_running() is False; "down" when it has exited; "closed" after        *)
(* close().                                                                *)

Running == client # 0 /\ procs[client].state = "up"

Mutating == {"turn", "create"}

\* in_progress of another thread: the flags are set while a start_turn or a
\* create_thread holds the operation lock.
OtherMutates(h) == owner \notin {None, h} /\ KindOf[owner] \in Mutating

\* Mutant: an expired or foreign pin is not looked at.
NeverPinned(h) == FALSE

\* _runtime_switch_is_pinned_signature
Pinned(h) ==
    /\ KindOf[h] # "turn"
    /\ Running
    /\ signature = pin
    /\ want[h] # signature

\* procs after _close_client.
Closed == IF client = 0 THEN procs ELSE [procs EXCEPT ![client].state = "closed"]

GoTo(h, where) == stage' = [stage EXCEPT ![h] = where]

\* Mutant: the lock stays with a handler that fails.
FinishKeepsLock(h, how) ==
    /\ GoTo(h, "done")
    /\ result' = [result EXCEPT ![h] = how]
    /\ owner' = IF owner = h /\ how = "ok" THEN None ELSE owner

\* Return or raise; the with and finally blocks release the lock.
Finish(h, how) ==
    /\ GoTo(h, "done")
    /\ result' = [result EXCEPT ![h] = how]
    /\ owner' = IF owner = h THEN None ELSE owner

-----------------------------------------------------------------------------
(* Entering.                                                               *)

Locking == {"turn", "create", "query", "command"}

Arrive(h) ==
    /\ stage[h] = "idle"
    /\ GoTo(h, CASE KindOf[h] \in Locking -> "acquire"
                 [] KindOf[h] = "poll" -> "status"
                 [] KindOf[h] = "secret" -> "write"
                 [] KindOf[h] = "restart" -> "restart")
    /\ UNCHANGED <<shared, want, ref, attempt, result>>

\* With the lock no other handler is mutating, so _should_defer_runtime_prepare
\* and _deferred_active_runtime_status do not apply.
Acquire(h) ==
    /\ stage[h] = "acquire"
    /\ owner = None
    /\ owner' = h
    /\ GoTo(h, "write")
    /\ UNCHANGED <<config, active, signature, pin, client, procs, want, ref,
                   attempt, result>>

\* _deferred_active_runtime_status: without the lock, a poll works with the
\* active runtime while another handler mutates, and prepares nothing.
CheckMutation(h) ==
    /\ stage[h] = "status"
    /\ IF OtherMutates(h) /\ active \notin {None, ProfileOf[h]}
       THEN want' = [want EXCEPT ![h] = active] /\ GoTo(h, "pinned")
       ELSE want' = [want EXCEPT ![h] = ProfileOf[h]] /\ GoTo(h, "write")
    /\ UNCHANGED <<shared, ref, attempt, result>>

-----------------------------------------------------------------------------
(* prepare_profile: write config.toml, look for the secret, then set       *)
(* _active_runtime.                                                        *)

\* Mutant: config.toml is taken to be that of the active runtime.
WriteConfigIfInactive(h) ==
    /\ stage[h] = "write"
    /\ config' = IF active = want[h] THEN config ELSE want[h]
    /\ GoTo(h, "activate")
    /\ UNCHANGED <<active, signature, pin, client, procs, owner, want, ref,
                   attempt, result>>

WriteConfig(h) ==
    /\ stage[h] = "write"
    /\ config' = want[h]
    /\ GoTo(h, "activate")
    /\ UNCHANGED <<active, signature, pin, client, procs, owner, want, ref,
                   attempt, result>>

\* Polls look at the pin before they refresh; so does the read_thread at the
\* end of a create_thread.
Reads(h) == KindOf[h] = "poll" \/ attempt[h] = "readback"

Activate(h) ==
    /\ stage[h] = "activate"
    /\ active' = want[h]
    /\ GoTo(h, IF Reads(h) THEN "pinned" ELSE "refresh")
    /\ UNCHANGED <<config, signature, pin, client, procs, owner, want, ref,
                   attempt, result>>

\* require_secret and none is loaded: config.toml is left as written.
SecretMissing(h) ==
    /\ stage[h] = "activate"
    /\ KindOf[h] \in {"turn", "create", "command", "secret"}
    /\ ~Reads(h)
    /\ Finish(h, "failed")
    /\ UNCHANGED <<config, active, signature, pin, client, procs, want, ref,
                   attempt>>

\* A read that finds the runtime pinned to another profile answers from the
\* cache.
CheckPin(h) ==
    /\ stage[h] = "pinned"
    /\ IF Pinned(h)
       THEN Finish(h, "ok")
       ELSE GoTo(h, "refresh") /\ UNCHANGED <<owner, result>>
    /\ UNCHANGED <<config, active, signature, pin, client, procs, want, ref,
                   attempt>>

-----------------------------------------------------------------------------
(* _refresh_client_if_runtime_changed and _ensure_client, under _lock.     *)

\* Leaving _prepare_runtime: only a mutating handler keeps the lock.
Prepared(h) ==
    IF KindOf[h] = "secret"
    THEN Finish(h, "ok")
    ELSE /\ GoTo(h, "ensure")
         /\ owner' = IF owner = h /\ KindOf[h] \notin Mutating THEN None ELSE owner
         /\ UNCHANGED result

\* Mutant: the signature is taken over and the client left running.
RefreshKeepsClient(h) ==
    /\ stage[h] = "refresh"
    /\ IF client # 0 /\ want[h] # signature /\ (OtherMutates(h) \/ Pinned(h))
       THEN UNCHANGED signature
       ELSE signature' = want[h]
    /\ Prepared(h)
    /\ UNCHANGED <<config, active, pin, client, procs, want, ref, attempt>>

Refresh(h) ==
    /\ stage[h] = "refresh"
    /\ LET differs == client # 0 /\ want[h] # signature
       IN  IF differs /\ (OtherMutates(h) \/ Pinned(h))
           THEN UNCHANGED <<signature, client, procs>>
           ELSE /\ signature' = want[h]
                /\ client' = IF differs THEN 0 ELSE client
                /\ procs' = IF differs THEN Closed ELSE procs
    /\ Prepared(h)
    /\ UNCHANGED <<config, active, pin, want, ref, attempt>>

\* Where a handler goes on with its client.
Proceed(h) ==
    IF KindOf[h] = "turn"
    THEN IF attempt[h] \in {"first", "again"} THEN "setup" ELSE "send"
    ELSE "call"

\* Mutant: any running client will do.
ReuseAny(h) ==
    /\ stage[h] = "ensure"
    /\ Running
    /\ ref' = [ref EXCEPT ![h] = client]
    /\ GoTo(h, Proceed(h))
    /\ UNCHANGED <<shared, want, attempt, result>>

Reuse(h) ==
    /\ stage[h] = "ensure"
    /\ Running
    /\ signature = want[h]
    /\ ref' = [ref EXCEPT ![h] = client]
    /\ GoTo(h, Proceed(h))
    /\ UNCHANGED <<shared, want, attempt, result>>

\* The client may not be replaced: "runtime_switch_deferred_start_turn" or
\* "runtime_switch_deferred_active_turn" is raised.
MayNotReplace(h) ==
    Running /\ signature # want[h] /\ (OtherMutates(h) \/ Pinned(h))

Defer(h) ==
    /\ stage[h] = "ensure"
    /\ MayNotReplace(h)
    /\ Finish(h, "failed")
    /\ UNCHANGED <<config, active, signature, pin, client, procs, want, ref,
                   attempt>>

\* A running client of another profile is closed; one that is not running is
\* dropped.  The new process reads config.toml.
Launch(h) ==
    /\ stage[h] = "ensure"
    /\ ~(Running /\ signature = want[h])
    /\ ~MayNotReplace(h)
    /\ Len(procs) < MaxProcs
    /\ procs' = Append(IF Running THEN Closed ELSE procs,
                       [sig |-> want[h], config |-> config,
                        state |-> "up", turns |-> {}])
    /\ client' = Len(procs')
    /\ signature' = want[h]
    /\ ref' = [ref EXCEPT ![h] = client']
    /\ GoTo(h, Proceed(h))
    /\ UNCHANGED <<config, active, pin, owner, want, attempt, result>>

LaunchFails(h) ==
    /\ stage[h] = "ensure"
    /\ ~(Running /\ signature = want[h])
    /\ ~MayNotReplace(h)
    /\ client' = IF Running THEN 0 ELSE client
    /\ procs' = IF Running THEN Closed ELSE procs
    /\ Finish(h, "failed")
    /\ UNCHANGED <<config, active, signature, pin, want, ref, attempt>>

-----------------------------------------------------------------------------
(* Calls.  A call of a process that does not run any more raises a         *)
(* transport error or, if the write breaks, an OSError.  Any call may time *)
(* out or be answered by an error.                                         *)

Up(h) == procs[ref[h]].state = "up"

\* A process whose reader has died still takes what is written to it.
Writable(h) == procs[ref[h]].state \in {"up", "deaf"}

CannotCall(h) == IF stage[h] = "send" THEN ~Writable(h) ELSE ~Up(h)

LocalUnchanged == UNCHANGED <<shared, want, ref, result>>

\* The calls of start_turn before turn/start: read, fork or start a thread.
SetupAnswered(h) ==
    /\ stage[h] = "setup"
    /\ Up(h)
    /\ GoTo(h, "send")
    /\ UNCHANGED attempt
    /\ LocalUnchanged

\* The calls of the other handlers; a create_thread goes on to read_thread.
CallAnswered(h) ==
    /\ stage[h] = "call"
    /\ Up(h)
    /\ IF KindOf[h] = "create" /\ attempt[h] # "readback"
       THEN /\ GoTo(h, "status")
            /\ attempt' = [attempt EXCEPT ![h] = "readback"]
            /\ UNCHANGED <<owner, result>>
       ELSE Finish(h, "ok") /\ UNCHANGED attempt
    /\ UNCHANGED <<config, active, signature, pin, client, procs, want, ref>>

CallFails(h) ==
    /\ stage[h] \in {"setup", "call"}
    /\ Finish(h, "failed")
    /\ UNCHANGED <<config, active, signature, pin, client, procs, want, ref,
                   attempt>>

\* What a transport error leads to: start_turn prepares once more during the
\* setup, and sends turn/start again through the facade, which has one retry
\* of its own; the facade of list_models and create_thread has one retry.
CanRetry(h) ==
    \/ stage[h] = "setup" /\ attempt[h] = "first"
    \/ stage[h] \in {"send", "await"} /\ attempt[h] \in {"first", "again", "retried"}
    \/ stage[h] = "call" /\ KindOf[h] \in {"query", "create"} /\ attempt[h] = "first"

NextAttempt(h) ==
    CASE stage[h] = "setup" -> "again"
      [] stage[h] \in {"send", "await"} /\ attempt[h] = "retried" -> "last"
      [] OTHER -> "retried"

\* The error reaches the handler.
TransportError(h) ==
    /\ stage[h] \in {"setup", "call", "send", "await"}
    /\ CannotCall(h)
    /\ CanRetry(h)
    /\ GoTo(h, "lost")
    /\ attempt' = [attempt EXCEPT ![h] = NextAttempt(h)]
    /\ LocalUnchanged

\* _close_client closes whatever client there is now; then start_turn
\* prepares again if it was in its setup, else the client is only ensured.
CloseLost(h) ==
    /\ stage[h] = "lost"
    /\ client' = 0
    /\ procs' = Closed
    /\ GoTo(h, IF attempt[h] = "again" THEN "write" ELSE "ensure")
    /\ UNCHANGED <<config, active, signature, pin, owner, want, ref, attempt, result>>

Restart(h) ==
    /\ stage[h] = "restart"
    /\ client' = 0
    /\ procs' = Closed
    /\ Finish(h, "ok")
    /\ UNCHANGED <<config, active, signature, pin, want, ref, attempt>>

-----------------------------------------------------------------------------
(* turn/start.  A process that took it runs the turn until it stops.       *)

\* Mutant: after a timeout turn/start is sent again.
TimedOutResends(h) ==
    /\ stage[h] = "await"
    /\ GoTo(h, "send")
    /\ UNCHANGED attempt
    /\ LocalUnchanged

Send(h) ==
    /\ stage[h] = "send"
    /\ Writable(h)
    /\ procs' = [procs EXCEPT ![ref[h]].turns = @ \cup {h}]
    /\ GoTo(h, "await")
    /\ UNCHANGED <<config, active, signature, pin, client, owner, want, ref,
                   attempt, result>>

\* An OSError, or a transport error that is not retried any more.
SendFails(h) ==
    /\ stage[h] \in {"send", "await"}
    /\ CannotCall(h)
    /\ stage[h] = "send" \/ ~CanRetry(h)
    /\ Finish(h, "failed")
    /\ UNCHANGED <<config, active, signature, pin, client, procs, want, ref,
                   attempt>>

TurnStarted(h) ==
    /\ stage[h] = "await"
    /\ Up(h)
    /\ pin' = want[h]
    /\ Finish(h, "ok")
    /\ UNCHANGED <<config, active, signature, client, procs, want, ref, attempt>>

\* turn/start is answered by an error and nothing runs: for a missing thread
\* another one is prepared on the same client and the turn is sent once
\* more; anything else is raised.
TurnRefused(h) ==
    /\ stage[h] = "await"
    /\ Up(h)
    /\ procs' = [procs EXCEPT ![ref[h]].turns = @ \ {h}]
    /\ \/ /\ attempt[h] \in {"first", "again"}
          /\ GoTo(h, "send")
          /\ attempt' = [attempt EXCEPT ![h] = "recovered"]
          /\ UNCHANGED <<owner, result>>
       \/ Finish(h, "failed") /\ UNCHANGED attempt
    /\ UNCHANGED <<config, active, signature, pin, client, want, ref>>

\* A timeout is answered by a "background pending" turn, without a pin; a
\* timeout after a transport retry is raised.
TimedOut(h) ==
    /\ stage[h] = "await"
    /\ Finish(h, IF attempt[h] \in {"first", "again", "recovered"}
                 THEN "background" ELSE "failed")
    /\ UNCHANGED <<config, active, signature, pin, client, procs, want, ref,
                   attempt>>

-----------------------------------------------------------------------------
(* The environment.                                                        *)

\* The current process exits.  Bounded: only if another may be launched.
Crash ==
    /\ Running
    /\ Len(procs) < MaxProcs
    /\ procs' = [procs EXCEPT ![client].state = "down"]
    /\ UNCHANGED <<config, active, signature, pin, client, owner, local>>

\* Its reader thread ends by an exception.  Bounded likewise.
GoDeaf ==
    /\ Running
    /\ Len(procs) < MaxProcs
    /\ procs' = [procs EXCEPT ![client].state = "deaf"]
    /\ UNCHANGED <<config, active, signature, pin, client, owner, local>>

PinExpires ==
    /\ pin # None
    /\ pin' = None
    /\ UNCHANGED <<config, active, signature, client, procs, owner, local>>

-----------------------------------------------------------------------------
Preparing(h) ==
    \/ Acquire(h) \/ CheckMutation(h) \/ WriteConfig(h) \/ Activate(h)
    \/ SecretMissing(h) \/ CheckPin(h) \/ Refresh(h)

Ensuring(h) == Reuse(h) \/ Defer(h) \/ Launch(h) \/ LaunchFails(h)

Calling(h) ==
    \/ SetupAnswered(h) \/ CallAnswered(h) \/ CallFails(h) \/ TransportError(h)
    \/ CloseLost(h) \/ Restart(h)
    \/ Send(h) \/ SendFails(h) \/ TurnStarted(h) \/ TurnRefused(h) \/ TimedOut(h)

Step(h) == Preparing(h) \/ Ensuring(h) \/ Calling(h)

Next ==
    \/ \E h \in Handlers : Arrive(h) \/ Step(h)
    \/ Crash
    \/ GoDeaf
    \/ PinExpires

Spec == Init /\ [][Next]_vars

\* Threads are scheduled, the lock is handed on, and every call has a timeout.
FairSpec == Spec /\ \A h \in Handlers : WF_vars(Step(h))

-----------------------------------------------------------------------------
(* Properties.                                                             *)

Stages == {"idle", "acquire", "status", "write", "activate", "pinned",
           "refresh", "ensure", "setup", "call", "send", "await", "lost",
           "restart", "done"}
InCall == {"setup", "call", "send", "await"}
Process == [sig : Profiles, config : Profiles \cup {None},
            state : {"up", "deaf", "down", "closed"}, turns : SUBSET Handlers]

\* Every variable has its type; a handler that calls has a client, and only
\* a handler between its prepare and its return holds the operation lock.
TypeOK ==
    /\ config \in Profiles \cup {None}
    /\ active \in Profiles \cup {None}
    /\ signature \in Profiles \cup {None}
    /\ pin \in Profiles \cup {None}
    /\ procs \in Seq(Process)
    /\ client \in 0..Len(procs)
    /\ owner \in Handlers \cup {None}
    /\ stage \in [Handlers -> Stages]
    /\ want \in [Handlers -> Profiles]
    /\ ref \in [Handlers -> 0..Len(procs)]
    /\ attempt \in [Handlers -> {"first", "again", "recovered", "retried",
                                 "last", "readback"}]
    /\ result \in [Handlers -> {"none", "ok", "background", "failed"}]
    /\ \A h \in Handlers : stage[h] \in InCall => ref[h] # 0
    /\ owner # None => stage[owner] \notin {"idle", "acquire", "restart", "done"}

\* _runtime_signature names the runtime of _client, whoever closed, replaced
\* or failed to start a client in between: _ensure_client hands out a client
\* by comparing nothing but the two.
SignatureIsOfClient == client # 0 => procs[client].sig = signature

\* A handler calls only a process that was launched for its own profile,
\* however the clients were replaced since it prepared.
CallsReachOwnRuntime ==
    \A h \in Handlers :
        stage[h] \in InCall => procs[ref[h]].sig = want[h]

\* A running process is the one of _client: replacing, retrying and failing
\* to start leave none behind.
NoOrphan == \A p \in 1..Len(procs) : procs[p].state = "up" => p = client

\* The one process that runs is the one of _client, and _runtime_signature
\* names its runtime; the operation lock is nobody's who has returned.
ClientIsKnown == TypeOK /\ SignatureIsOfClient /\ NoOrphan

\* "This facade keeps the whole handoff on the intended runtime"
\* (_RuntimeRequestClient): a process launched for a profile starts with the
\* config.toml of that profile.  With polls it is violated: they write
\* config.toml without the operation lock.
LaunchedOnItsConfig == \A p \in 1..Len(procs) : procs[p].config = procs[p].sig

\* Among start_turn, create_thread and restart it holds: they keep the
\* operation lock from the write of config.toml to the launch.  The commands
\* and queries release it before they launch.
HandoffKeepsConfig ==
    (\A h \in Handlers :
        KindOf[h] \in {"poll", "secret", "command", "query"}
            => stage[h] \in {"idle", "done"} /\ result[h] = "none")
    => LaunchedOnItsConfig

\* A turn is sent a second time only to another process, or to the same one
\* if that has refused it: the retries of start_turn and of the facade on
\* top of it never run a turn twice in one process.
SentOncePerProcess ==
    [][\A h \in Handlers :
            stage[h] = "send" /\ stage'[h] = "await"
                => h \notin procs[ref[h]].turns]_vars

Passive == {"poll", "secret", "command"}
Moves(h) == stage'[h] # stage[h]

\* A poll, a load_secret or a command never stops the process of a pinned
\* turn: what they found before they got _lock is looked up again under it.
PassiveSparesPinned ==
    [][\A h \in Handlers :
            KindOf[h] \in Passive /\ Moves(h) /\ Running /\ signature = pin
                => procs'[client].state = "up"]_vars

\* They never stop the process that a start_turn or create_thread is using.
PassiveSparesHandoff ==
    [][\A h, g \in Handlers :
            /\ KindOf[h] \in Passive /\ Moves(h)
            /\ KindOf[g] \in Mutating /\ stage[g] \in InCall /\ Up(g)
            => procs'[ref[g]].state = "up"]_vars

\* What polls, secrets and commands leave alone.
PassiveSpares == PassiveSparesPinned /\ PassiveSparesHandoff

\* Every handler returns, so the operation lock is always released.
EveryHandlerReturns ==
    \A h \in Handlers : stage[h] # "idle" ~> stage[h] = "done"
=============================================================================
