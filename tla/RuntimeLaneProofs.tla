------------------------- MODULE RuntimeLaneProofs -------------------------
(***************************************************************************)
(* Proofs about what the sidecar keeps on either side of an app-server:    *)
(* RuntimeLane, for any handlers, profiles and number of processes;        *)
(* ModalService, which the handler of interrupt_turn calls, for any        *)
(* requests, fakes and turns; and Router, through which the app-server     *)
(* calls the model, for any requests, providers, settings and answers.     *)
(*                                                                         *)
(* IInv: _runtime_signature and _client change together under              *)
(* _lock, the signature never without the client being None or of that     *)
(* signature already; so the test of _ensure_client is a test of the       *)
(* process, and what a process was launched for never changes.             *)
(*                                                                         *)
(* RetryInv has four parts.  A start_turn or create_thread owns the        *)
(* operation lock from the write of config.toml to its return (OwnerInv),  *)
(* so others find it mutating and may not close what it uses.  A handler   *)
(* is only at steps of its kind (KindInv).  A process that took a turn     *)
(* still runs only while the handler awaits its answer (TurnInv).  While   *)
(* nobody else has taken part, config.toml is the owner's (ConfigInv).     *)
(*                                                                         *)
(* ModalInv: a request is listed only between the registration by its      *)
(* thread and the pop by the same thread, resolve() and cancel_for_turn()  *)
(* decide listed modals only, and the reply is made in the step of the     *)
(* pop.  So the decision a reply was made of can no longer change.         *)
(*                                                                         *)
(* RouterInv: what a request has been told fits its step (GoodRequest).    *)
(* While a stream of a chat provider is read, its events tell every        *)
(* fragment of the lines so far once, in order, and leave nothing else     *)
(* open (Streamed); Closing then ends each item with the text its deltas   *)
(* told, which is that of the answer converted whole (ClosingIsWhole,      *)
(* SameSubstance).  These are facts about every answer, of any length:     *)
(* they rest on an induction that is made of the least element of a set    *)
(* of numbers (Least, Induction, Recursion).                               *)
(***************************************************************************)
EXTENDS RuntimeLane, ModalService, Router, SequenceTheorems, WellFoundedInduction, TLAPS

IInv == TypeOK /\ SignatureIsOfClient /\ NoOrphan /\ CallsReachOwnRuntime

ProcStates == {"up", "deaf", "down", "closed"}

-----------------------------------------------------------------------------
(* What the updates of procs do.                                           *)

\* A process that changes its state keeps what it was launched for.
LEMMA StateUpdate ==
    ASSUME procs \in Seq(Process), NEW i \in 1..Len(procs), NEW st \in ProcStates
    PROVE  LET q == [procs EXCEPT ![i].state = st]
           IN  /\ q \in Seq(Process)
               /\ Len(q) = Len(procs)
               /\ \A p \in 1..Len(procs) :
                      /\ q[p].sig = procs[p].sig
                      /\ q[p].state = IF p = i THEN st ELSE procs[p].state
<1> DEFINE e == [procs[i] EXCEPT !.state = st]
<1>1. procs[i] \in Process
  BY ElementOfSeq
<1>2. e \in Process /\ e.sig = procs[i].sig /\ e.state = st
  BY <1>1 DEF Process, ProcStates
<1>3. [procs EXCEPT ![i].state = st] = [procs EXCEPT ![i] = e]
  OBVIOUS
<1> HIDE DEF e
<1>. QED  BY <1>2, <1>3, ExceptSeq

\* So does one that takes or refuses a turn.
LEMMA TurnsUpdate ==
    ASSUME procs \in Seq(Process), NEW i \in 1..Len(procs),
           NEW ts \in SUBSET Handlers
    PROVE  LET q == [procs EXCEPT ![i].turns = ts]
           IN  /\ q \in Seq(Process)
               /\ Len(q) = Len(procs)
               /\ \A p \in 1..Len(procs) :
                      /\ q[p].sig = procs[p].sig
                      /\ q[p].state = procs[p].state
<1> DEFINE e == [procs[i] EXCEPT !.turns = ts]
<1>1. procs[i] \in Process
  BY ElementOfSeq
<1>2. e \in Process /\ e.sig = procs[i].sig /\ e.state = procs[i].state
  BY <1>1 DEF Process
<1>3. [procs EXCEPT ![i].turns = ts] = [procs EXCEPT ![i] = e]
  OBVIOUS
<1> HIDE DEF e
<1>. QED  BY <1>2, <1>3, ExceptSeq

\* _close_client stops the client's process and no other.
LEMMA ClosedFacts ==
    ASSUME TypeOK
    PROVE  /\ Closed \in Seq(Process)
           /\ Len(Closed) = Len(procs)
           /\ \A p \in 1..Len(procs) :
                  /\ Closed[p].sig = procs[p].sig
                  /\ Closed[p].state = IF p = client THEN "closed" ELSE procs[p].state
<1>1. CASE client = 0
  BY <1>1, LenProperties DEF Closed, TypeOK
<1>2. CASE client # 0
  <2>1. client \in 1..Len(procs) /\ procs \in Seq(Process) /\ "closed" \in ProcStates
    BY <1>2, LenProperties DEF TypeOK, ProcStates
  <2>2. Closed = [procs EXCEPT ![client].state = "closed"]
    BY <1>2 DEF Closed
  <2>. QED  BY <2>1, <2>2, StateUpdate
<1>. QED  BY <1>1, <1>2

\* A new process is the last one, up and launched for its handler's profile;
\* the others keep their signature, and none of them is up.
LEMMA LaunchFacts ==
    ASSUME TypeOK, NoOrphan, NEW h \in Handlers, Launch(h)
    PROVE  /\ procs' \in Seq(Process)
           /\ Len(procs') = Len(procs) + 1
           /\ client' = Len(procs')
           /\ procs'[client'].sig = want[h]
           /\ \A p \in 1..Len(procs) :
                  procs'[p].sig = procs[p].sig /\ procs'[p].state # "up"
<1> DEFINE old == IF Running THEN Closed ELSE procs
           new == [sig |-> want[h], config |-> config, state |-> "up", turns |-> {}]
<1>1. new \in Process /\ new.sig = want[h]
  BY DEF TypeOK, Process
<1>2. /\ old \in Seq(Process)
      /\ Len(old) = Len(procs)
      /\ \A p \in 1..Len(procs) : old[p].sig = procs[p].sig /\ old[p].state # "up"
  BY ClosedFacts DEF TypeOK, NoOrphan, Running
<1>3. procs' = Append(old, new) /\ client' = Len(procs')
  BY DEF Launch
<1> HIDE DEF old, new
<1>. QED  BY <1>1, <1>2, <1>3, AppendProperties, LenProperties

-----------------------------------------------------------------------------
(* What any step does to the processes and the client.                     *)

\* The steps that touch neither procs, nor client, nor signature.
Quiet(h) ==
    \/ Arrive(h) \/ Acquire(h) \/ CheckMutation(h) \/ WriteConfig(h)
    \/ Activate(h) \/ SecretMissing(h) \/ CheckPin(h) \/ Reuse(h) \/ Defer(h)
    \/ SetupAnswered(h) \/ CallAnswered(h) \/ CallFails(h) \/ TransportError(h)
    \/ SendFails(h) \/ TurnStarted(h) \/ TimedOut(h)

LEMMA QuietFacts ==
    ASSUME NEW h \in Handlers, Quiet(h)
    PROVE  UNCHANGED <<signature, client, procs>>
  BY DEF Quiet, Arrive, Acquire, CheckMutation, WriteConfig, Activate,
         SecretMissing, CheckPin, Reuse, Defer, SetupAnswered, CallAnswered,
         CallFails, TransportError, SendFails, TurnStarted, TimedOut,
         LocalUnchanged, shared

\* The processes keep their number and what they were launched for, the
\* signature stays that of the client, and only the client may be up.
Sound ==
    /\ procs' \in Seq(Process)
    /\ client' \in 0..Len(procs')
    /\ Len(procs) <= Len(procs')
    /\ \A p \in 1..Len(procs) : procs'[p].sig = procs[p].sig
    /\ SignatureIsOfClient'
    /\ NoOrphan'

LEMMA ProcsStep ==
    ASSUME IInv, [Next]_vars PROVE Sound
<1> USE DEF IInv
<1>1. Len(procs) \in Nat
  BY LenProperties DEF TypeOK
<1>2. CASE UNCHANGED <<signature, client, procs>>
  BY <1>1, <1>2 DEF Sound, TypeOK, SignatureIsOfClient, NoOrphan
<1>3. ASSUME client' = 0, procs' = Closed PROVE Sound
  <2>1. /\ procs' \in Seq(Process)
        /\ Len(procs') = Len(procs)
        /\ \A p \in 1..Len(procs) :
               /\ procs'[p].sig = procs[p].sig
               /\ procs'[p].state = IF p = client THEN "closed" ELSE procs[p].state
    BY <1>3, ClosedFacts
  <2>2. NoOrphan'
    BY <1>3, <2>1 DEF NoOrphan
  <2>. QED  BY <1>1, <1>3, <2>1, <2>2 DEF Sound, SignatureIsOfClient
<1>4. ASSUME NEW h \in Handlers, Refresh(h) PROVE Sound
  <2>1. CASE client # 0 /\ want[h] # signature /\ ~(OtherMutates(h) \/ Pinned(h))
    BY <1>3, <1>4, <2>1 DEF Refresh
  <2>2. CASE ~(client # 0 /\ want[h] # signature /\ ~(OtherMutates(h) \/ Pinned(h)))
    <3>1. UNCHANGED <<client, procs>> /\ (client # 0 => signature' = signature)
      BY <1>4, <2>2 DEF Refresh
    <3>. QED  BY <1>1, <3>1 DEF Sound, TypeOK, SignatureIsOfClient, NoOrphan
  <2>. QED  BY <2>1, <2>2
<1>5. ASSUME NEW h \in Handlers, Launch(h) PROVE Sound
  <2>1. signature' = want[h]
    BY <1>5 DEF Launch
  <2>. QED
    BY <1>1, <1>5, <2>1, LaunchFacts DEF Sound, SignatureIsOfClient, NoOrphan
<1>6. ASSUME NEW h \in Handlers, LaunchFails(h) PROVE Sound
  BY <1>2, <1>3, <1>6 DEF LaunchFails
<1>7. ASSUME NEW h \in Handlers, CloseLost(h) \/ Restart(h) PROVE Sound
  BY <1>3, <1>7 DEF CloseLost, Restart
<1>8. ASSUME NEW h \in Handlers, NEW ts \in SUBSET Handlers, ref[h] # 0,
             procs' = [procs EXCEPT ![ref[h]].turns = ts],
             UNCHANGED <<signature, client>>
      PROVE  Sound
  <2>1. ref[h] \in 1..Len(procs) /\ procs \in Seq(Process)
    BY <1>1, <1>8 DEF TypeOK
  <2>2. /\ procs' \in Seq(Process)
        /\ Len(procs') = Len(procs)
        /\ \A p \in 1..Len(procs) :
               procs'[p].sig = procs[p].sig /\ procs'[p].state = procs[p].state
    BY <1>8, <2>1, TurnsUpdate
  <2>. QED
    BY <1>1, <1>8, <2>2 DEF Sound, TypeOK, SignatureIsOfClient, NoOrphan
<1>9. ASSUME NEW h \in Handlers, Send(h) \/ TurnRefused(h) PROVE Sound
  <2>1. ref[h] \in 1..Len(procs) /\ procs[ref[h]].turns \in SUBSET Handlers
    <3>1. ref[h] \in 1..Len(procs)
      BY <1>1, <1>9 DEF Send, TurnRefused, TypeOK, InCall
    <3>2. procs[ref[h]] \in Process
      BY <3>1, ElementOfSeq DEF TypeOK
    <3>. QED  BY <3>1, <3>2 DEF Process
  <2>2. CASE Send(h)
    <3>1. procs[ref[h]].turns \cup {h} \in SUBSET Handlers /\ ref[h] # 0
      BY <1>1, <2>1
    <3>2. /\ procs' = [procs EXCEPT ![ref[h]].turns = procs[ref[h]].turns \cup {h}]
          /\ UNCHANGED <<signature, client>>
      BY <2>2 DEF Send
    <3>. QED  BY <1>8, <3>1, <3>2
  <2>3. CASE TurnRefused(h)
    <3>1. procs[ref[h]].turns \ {h} \in SUBSET Handlers /\ ref[h] # 0
      BY <1>1, <2>1
    <3>2. /\ procs' = [procs EXCEPT ![ref[h]].turns = procs[ref[h]].turns \ {h}]
          /\ UNCHANGED <<signature, client>>
      BY <2>3 DEF TurnRefused
    <3>. QED  BY <1>8, <3>1, <3>2
  <2>. QED  BY <1>9, <2>2, <2>3
<1>10. CASE Crash \/ GoDeaf
  <2>1. PICK st \in {"down", "deaf"} :
            /\ procs' = [procs EXCEPT ![client].state = st]
            /\ UNCHANGED <<signature, client>>
    BY <1>10 DEF Crash, GoDeaf
  <2>2. client \in 1..Len(procs) /\ procs \in Seq(Process) /\ st \in ProcStates
    BY <1>1, <1>10 DEF Crash, GoDeaf, Running, TypeOK, ProcStates
  <2>3. /\ procs' \in Seq(Process)
        /\ Len(procs') = Len(procs)
        /\ \A p \in 1..Len(procs) :
               /\ procs'[p].sig = procs[p].sig
               /\ procs'[p].state = "up" => procs[p].state = "up"
    BY <2>1, <2>2, StateUpdate
  <2>. QED
    BY <1>1, <2>1, <2>3 DEF Sound, TypeOK, SignatureIsOfClient, NoOrphan
<1>11. CASE PinExpires
  BY <1>2, <1>11 DEF PinExpires
<1>12. CASE UNCHANGED vars
  BY <1>2, <1>12 DEF vars, shared
<1>. QED
  BY <1>2, <1>4, <1>5, <1>6, <1>7, <1>9, <1>10, <1>11, <1>12, QuietFacts
  DEF Next, Step, Preparing, Ensuring, Calling, Quiet

-----------------------------------------------------------------------------
(* What any step does to the handlers.                                     *)

\* The values of the variables that are not about the processes.
LocalOK ==
    /\ config \in Profiles \cup {None}
    /\ active \in Profiles \cup {None}
    /\ signature \in Profiles \cup {None}
    /\ pin \in Profiles \cup {None}
    /\ owner \in Handlers \cup {None}
    /\ stage \in [Handlers -> Stages]
    /\ want \in [Handlers -> Profiles]
    /\ attempt \in [Handlers -> {"first", "again", "recovered", "retried",
                                 "last", "readback"}]
    /\ result \in [Handlers -> {"none", "ok", "background", "failed"}]
    /\ owner # None => stage[owner] \notin {"idle", "acquire", "restart", "done"}

\* A handler that returns leaves the rest as it is.
LEMMA FinishStep ==
    ASSUME TypeOK, NEW h \in Handlers,
           NEW how \in {"ok", "background", "failed"}, Finish(h, how),
           UNCHANGED want,
           config' \in Profiles \cup {None}, active' \in Profiles \cup {None},
           signature' \in Profiles \cup {None}, pin' \in Profiles \cup {None},
           attempt' \in [Handlers -> {"first", "again", "recovered", "retried",
                                     "last", "readback"}]
    PROVE  LocalOK'
  BY LaneAssumption DEF TypeOK, LocalOK, Finish, GoTo, Stages

\* A handler that goes on keeps or gives back the lock, or gets it.
LEMMA GoToStep ==
    ASSUME TypeOK, NEW h \in Handlers, NEW where \in Stages, GoTo(h, where),
           UNCHANGED result,
           config' \in Profiles \cup {None}, active' \in Profiles \cup {None},
           signature' \in Profiles \cup {None}, pin' \in Profiles \cup {None},
           want' \in [Handlers -> Profiles],
           attempt' \in [Handlers -> {"first", "again", "recovered", "retried",
                                     "last", "readback"}],
           owner' \in {owner, None, h},
           owner' = h => where \notin {"idle", "acquire", "restart", "done"}
    PROVE  LocalOK'
<1>1. stage' \in [Handlers -> Stages]
  BY DEF TypeOK, GoTo
<1>2. owner' \in Handlers \cup {None}
  BY DEF TypeOK
<1>3. ASSUME owner' # None
      PROVE  stage'[owner'] \notin {"idle", "acquire", "restart", "done"}
  <2>1. CASE owner' = h
    BY <2>1 DEF TypeOK, GoTo
  <2>2. CASE owner' # h
    <3>1. owner' = owner /\ owner \in Handlers
      BY <1>2, <1>3, <2>2
    <3>2. stage'[owner] = stage[owner]
      BY <2>2, <3>1 DEF TypeOK, GoTo
    <3>. QED  BY <1>3, <3>1, <3>2 DEF TypeOK
  <2>. QED  BY <2>1, <2>2
<1>. QED  BY <1>1, <1>2, <1>3 DEF TypeOK, LocalOK

LEMMA PreparingLocal ==
    ASSUME TypeOK, NEW h \in Handlers, Arrive(h) \/ Preparing(h) PROVE LocalOK'
<1> USE DEF TypeOK
<1>1. CASE Arrive(h)
  <2>1. owner # h
    BY <1>1, LaneAssumption DEF Arrive
  <2>2. PICK where \in {"acquire", "status", "write", "restart"} : GoTo(h, where)
    BY <1>1, LaneAssumption DEF Arrive, Locking, Kinds
  <2>3. where \in Stages
    BY DEF Stages
  <2>. QED  BY <1>1, <2>1, <2>2, <2>3, GoToStep DEF Arrive, shared
<1>2. CASE Acquire(h)
  BY <1>2, GoToStep DEF Acquire, Stages
<1>3. CASE CheckMutation(h)
  <2>1. want' \in [Handlers -> Profiles]
    BY <1>3, LaneAssumption DEF CheckMutation
  <2>. QED  BY <1>3, <2>1, GoToStep DEF CheckMutation, Stages, shared
<1>4. CASE WriteConfig(h)
  BY <1>4, GoToStep DEF WriteConfig, Stages
<1>5. CASE Activate(h)
  <2>1. PICK where \in {"pinned", "refresh"} : GoTo(h, where)
    BY <1>5 DEF Activate
  <2>. QED  BY <1>5, <2>1, GoToStep DEF Activate, Stages
<1>6. CASE SecretMissing(h)
  BY <1>6, FinishStep DEF SecretMissing
<1>7. CASE CheckPin(h)
  BY <1>7, FinishStep, GoToStep DEF CheckPin, Stages
<1>8. CASE Refresh(h)
  <2>1. signature' \in Profiles \cup {None}
    BY <1>8 DEF Refresh
  <2>2. CASE KindOf[h] = "secret"
    BY <1>8, <2>1, <2>2, FinishStep DEF Refresh, Prepared
  <2>3. CASE KindOf[h] # "secret"
    BY <1>8, <2>1, <2>3, GoToStep DEF Refresh, Prepared, Stages
  <2>. QED  BY <2>2, <2>3
<1>. QED
  BY <1>1, <1>2, <1>3, <1>4, <1>5, <1>6, <1>7, <1>8 DEF Preparing

LEMMA EnsuringLocal ==
    ASSUME TypeOK, NEW h \in Handlers, Ensuring(h) PROVE LocalOK'
<1> USE DEF TypeOK
<1>1. Proceed(h) \in Stages \ {"idle", "acquire", "restart", "done"}
  BY DEF Proceed, Stages
<1>2. CASE Reuse(h)
  BY <1>1, <1>2, GoToStep DEF Reuse, shared
<1>3. CASE Launch(h)
  BY <1>1, <1>3, GoToStep DEF Launch
<1>4. CASE Defer(h) \/ LaunchFails(h)
  BY <1>4, FinishStep DEF Defer, LaunchFails
<1>. QED  BY <1>2, <1>3, <1>4 DEF Ensuring

LEMMA CallingLocal ==
    ASSUME TypeOK, NEW h \in Handlers, Calling(h) PROVE LocalOK'
<1> USE DEF TypeOK
<1>1. CASE SetupAnswered(h) \/ Send(h)
  BY <1>1, GoToStep DEF SetupAnswered, Send, LocalUnchanged, shared, Stages
<1>2. CASE CallAnswered(h)
  BY <1>2, FinishStep, GoToStep DEF CallAnswered, Stages
<1>3. CASE CallFails(h) \/ SendFails(h) \/ TimedOut(h) \/ Restart(h) \/ TurnStarted(h)
  BY <1>3, FinishStep DEF CallFails, SendFails, TimedOut, Restart, TurnStarted
<1>4. CASE TransportError(h)
  <2>1. NextAttempt(h) \in {"again", "last", "retried"}
    BY DEF NextAttempt
  <2>. QED
    BY <1>4, <2>1, GoToStep DEF TransportError, LocalUnchanged, shared, Stages
<1>5. CASE CloseLost(h)
  BY <1>5, GoToStep DEF CloseLost, Stages
<1>6. CASE TurnRefused(h)
  BY <1>6, FinishStep, GoToStep DEF TurnRefused, Stages
<1>. QED  BY <1>1, <1>2, <1>3, <1>4, <1>5, <1>6 DEF Calling

\* A handler in a call has a client of its own profile: it gets one from
\* _ensure_client, and keeps it.
Served(h) == stage[h] \in InCall => ref[h] # 0 /\ procs[ref[h]].sig = want[h]

LEMMA ServedStep ==
    ASSUME IInv, NEW h \in Handlers, Arrive(h) \/ Step(h), Sound
    PROVE  /\ Served(h)'
           /\ ref' \in [Handlers -> 0..Len(procs')]
           /\ \A g \in Handlers \ {h} :
                  stage'[g] = stage[g] /\ ref'[g] = ref[g] /\ want'[g] = want[g]
<1> USE DEF IInv, TypeOK, GoTo
<1>0. Len(procs) \in Nat /\ Len(procs') \in Nat /\ Len(procs) <= Len(procs')
  BY LenProperties DEF Sound
<1>1. CASE Reuse(h)
  <2>1. client # 0 /\ client \in 1..Len(procs) /\ procs[client].sig = want[h]
    BY <1>0, <1>1 DEF Reuse, Running, SignatureIsOfClient
  <2>. QED  BY <1>0, <1>1, <2>1 DEF Reuse, Served, shared
<1>2. CASE Launch(h)
  <2>1. client' = Len(procs') /\ Len(procs') = Len(procs) + 1 /\ procs'[client'].sig = want[h]
    BY <1>2, LaunchFacts
  <2>. QED  BY <1>0, <1>2, <2>1 DEF Launch, Served
<1>3. ASSUME stage'[h] \in InCall => stage[h] \in InCall,
             UNCHANGED ref, want'[h] = want[h] \/ stage'[h] \notin InCall,
             \A g \in Handlers \ {h} : stage'[g] = stage[g] /\ want'[g] = want[g]
      PROVE  /\ Served(h)'
             /\ ref' \in [Handlers -> 0..Len(procs')]
             /\ \A g \in Handlers \ {h} :
                   stage'[g] = stage[g] /\ ref'[g] = ref[g] /\ want'[g] = want[g]
  BY <1>0, <1>3 DEF Served, Sound, CallsReachOwnRuntime
<1>4. CASE Arrive(h) \/ Preparing(h)
  BY <1>3, <1>4, LaneAssumption DEF Arrive, Preparing, Acquire, CheckMutation,
     WriteConfig, Activate, SecretMissing, CheckPin, Refresh, Prepared, Finish,
     InCall, Kinds, Locking
<1>5. CASE Defer(h) \/ LaunchFails(h)
  BY <1>3, <1>5 DEF Defer, LaunchFails, Finish, InCall
<1>6. CASE Calling(h)
  BY <1>3, <1>6 DEF Calling, SetupAnswered, CallAnswered, CallFails,
     TransportError, CloseLost, Restart, Send, SendFails, TurnStarted,
     TurnRefused, TimedOut, LocalUnchanged, Finish, InCall
<1>. QED  BY <1>1, <1>2, <1>4, <1>5, <1>6 DEF Step, Ensuring

LEMMA EnvironmentStep ==
    ASSUME IInv, Crash \/ GoDeaf \/ PinExpires \/ UNCHANGED vars, Sound
    PROVE  IInv'
<1> USE DEF IInv, TypeOK
<1>1. /\ UNCHANGED <<config, active, signature, owner, local>>
      /\ pin' \in Profiles \cup {None}
  BY DEF Crash, GoDeaf, PinExpires, vars, shared
<1>2. Len(procs) \in Nat /\ Len(procs') \in Nat /\ Len(procs) <= Len(procs')
  BY LenProperties DEF Sound
<1>3. ref' \in [Handlers -> 0..Len(procs')]
  BY <1>1, <1>2 DEF local
<1>4. TypeOK'
  BY <1>1, <1>3 DEF local, Sound
<1>5. CallsReachOwnRuntime'
  BY <1>1, <1>2 DEF local, Sound, CallsReachOwnRuntime
<1>. QED  BY <1>4, <1>5 DEF Sound

-----------------------------------------------------------------------------
LEMMA InitInv == Init => IInv
  BY LaneAssumption
  DEF Init, IInv, TypeOK, SignatureIsOfClient, NoOrphan, CallsReachOwnRuntime,
      Stages, InCall

\* The invariant holds in every reachable state.
THEOREM Invariant == Spec => []IInv
<1>1. IInv /\ [Next]_vars => IInv'
  <2> SUFFICES ASSUME IInv, [Next]_vars PROVE IInv'
    OBVIOUS
  <2>1. Sound
    BY ProcsStep
  <2>2. ASSUME NEW h \in Handlers, Arrive(h) \/ Step(h) PROVE IInv'
    <3>1. LocalOK'
      BY <2>2, PreparingLocal, EnsuringLocal, CallingLocal DEF Step, IInv
    <3>2. /\ Served(h)'
          /\ ref' \in [Handlers -> 0..Len(procs')]
          /\ \A g \in Handlers \ {h} :
                stage'[g] = stage[g] /\ ref'[g] = ref[g] /\ want'[g] = want[g]
      BY <2>1, <2>2, ServedStep
    <3>3. \A g \in Handlers \ {h} : Served(g)'
      <4>1. Len(procs) \in Nat
        BY LenProperties DEF IInv, TypeOK
      <4>. QED
        BY <2>1, <3>2, <4>1 DEF IInv, TypeOK, CallsReachOwnRuntime, Sound, Served
    <3>4. TypeOK' /\ CallsReachOwnRuntime'
      BY <2>1, <3>1, <3>2, <3>3 DEF LocalOK, Served, Sound, TypeOK, CallsReachOwnRuntime
    <3>. QED  BY <2>1, <3>4 DEF IInv, Sound
  <2>. QED  BY <2>1, <2>2, EnvironmentStep DEF Next
<1>. QED  BY InitInv, <1>1, PTL DEF Spec

-----------------------------------------------------------------------------
\* Every variable of the lane has its type, and the operation lock is held by
\* nobody who has returned.
THEOREM TypeCorrect == Spec => []TypeOK
  BY Invariant, PTL DEF IInv

\* _runtime_signature always names the runtime of _client.
THEOREM SignatureCorrect == Spec => []SignatureIsOfClient
  BY Invariant, PTL DEF IInv

\* No interleaving of handlers leaves a running process behind.
THEOREM NoOrphanLeft == Spec => []NoOrphan
  BY Invariant, PTL DEF IInv

\* The running process is that of _client, and of the runtime the signature
\* names.
THEOREM ClientKnown == Spec => []ClientIsKnown
  BY TypeCorrect, SignatureCorrect, NoOrphanLeft, PTL DEF ClientIsKnown

\* Every call goes to a process launched for the caller's profile.
THEOREM CallsCorrect == Spec => []CallsReachOwnRuntime
  BY Invariant, PTL DEF IInv

-----------------------------------------------------------------------------
(* What retries and handlers that are merely passing by do to a turn.      *)

\* A handler is at no step that is not of its kind.
KindInv == \A h \in Handlers :
    /\ stage[h] = "restart" => KindOf[h] = "restart"
    /\ KindOf[h] = "restart" => stage[h] \in {"idle", "restart", "done"}
    /\ stage[h] \in {"setup", "send", "await"} => KindOf[h] = "turn"
    /\ stage[h] = "lost" => KindOf[h] \in {"turn", "create", "query"}

\* Who mutates has the operation lock until it returns.
OwnerInv == \A h \in Handlers :
    KindOf[h] \in Mutating /\ stage[h] \notin {"idle", "acquire", "done"}
        => owner = h

\* A process that took a turn does not run any more, or is the one the
\* handler awaits.
TurnInv == \A h \in Handlers :
    /\ stage[h] \in {"setup", "send"} => h \notin procs[ref[h]].turns
    /\ stage[h] # "done" => \A p \in 1..Len(procs) :
           h \in procs[p].turns => procs[p].state # "up"
                                   \/ (stage[h] = "await" /\ p = ref[h])

\* None but start_turn, create_thread and restart has taken part.
Bystanders == {"poll", "secret", "command", "query"}

Undisturbed == \A h \in Handlers :
    KindOf[h] \in Bystanders => stage[h] \in {"idle", "done"} /\ result[h] = "none"

\* From its write to its return config.toml is that of the mutating handler.
Configured(h) ==
    KindOf[h] \in Mutating
    /\ stage[h] \in {"activate", "pinned", "refresh", "ensure", "lost"} \cup InCall
        => config = want[h]

ConfigInv == Undisturbed => LaunchedOnItsConfig /\ \A h \in Handlers : Configured(h)

RetryInv == KindInv /\ OwnerInv /\ TurnInv /\ ConfigInv

-----------------------------------------------------------------------------
(* What the updates of procs do, as far as turns and config.toml go.       *)

LEMMA StateKeeps ==
    ASSUME procs \in Seq(Process), NEW i \in 1..Len(procs), NEW st \in ProcStates
    PROVE  LET q == [procs EXCEPT ![i].state = st]
           IN  \A p \in 1..Len(procs) :
                  /\ q[p].config = procs[p].config
                  /\ q[p].turns = procs[p].turns
<1> DEFINE e == [procs[i] EXCEPT !.state = st]
<1>1. procs[i] \in Process
  BY ElementOfSeq
<1>2. e \in Process /\ e.config = procs[i].config /\ e.turns = procs[i].turns
  BY <1>1 DEF Process, ProcStates
<1>3. [procs EXCEPT ![i].state = st] = [procs EXCEPT ![i] = e]
  OBVIOUS
<1> HIDE DEF e
<1>. QED  BY <1>2, <1>3, ExceptSeq

LEMMA TurnsChange ==
    ASSUME procs \in Seq(Process), NEW i \in 1..Len(procs),
           NEW ts \in SUBSET Handlers
    PROVE  LET q == [procs EXCEPT ![i].turns = ts]
           IN  \A p \in 1..Len(procs) :
                  /\ q[p].config = procs[p].config
                  /\ q[p].turns = IF p = i THEN ts ELSE procs[p].turns
<1> DEFINE e == [procs[i] EXCEPT !.turns = ts]
<1>1. procs[i] \in Process
  BY ElementOfSeq
<1>2. e \in Process /\ e.config = procs[i].config /\ e.turns = ts
  BY <1>1 DEF Process
<1>3. [procs EXCEPT ![i].turns = ts] = [procs EXCEPT ![i] = e]
  OBVIOUS
<1> HIDE DEF e
<1>. QED  BY <1>2, <1>3, ExceptSeq

LEMMA ClosedKeeps ==
    ASSUME TypeOK
    PROVE  \A p \in 1..Len(procs) :
              /\ Closed[p].config = procs[p].config
              /\ Closed[p].turns = procs[p].turns
<1>1. CASE client = 0
  BY <1>1 DEF Closed
<1>2. CASE client # 0
  <2>1. client \in 1..Len(procs) /\ procs \in Seq(Process) /\ "closed" \in ProcStates
    BY <1>2, LenProperties DEF TypeOK, ProcStates
  <2>2. Closed = [procs EXCEPT ![client].state = "closed"]
    BY <1>2 DEF Closed
  <2>. QED  BY <2>1, <2>2, StateKeeps
<1>. QED  BY <1>1, <1>2

\* A new process has no turns and the config.toml there is.
LEMMA LaunchKeeps ==
    ASSUME TypeOK, NoOrphan, NEW h \in Handlers, Launch(h)
    PROVE  /\ procs'[client'].turns = {}
           /\ procs'[client'].config = config
           /\ \A p \in 1..Len(procs) :
                 /\ procs'[p].turns = procs[p].turns
                 /\ procs'[p].config = procs[p].config
<1> DEFINE old == IF Running THEN Closed ELSE procs
           new == [sig |-> want[h], config |-> config, state |-> "up", turns |-> {}]
<1>1. new \in Process /\ new.turns = {} /\ new.config = config
  BY DEF TypeOK, Process
<1>2. /\ old \in Seq(Process)
      /\ Len(old) = Len(procs)
      /\ \A p \in 1..Len(procs) :
            old[p].turns = procs[p].turns /\ old[p].config = procs[p].config
  BY ClosedFacts, ClosedKeeps DEF TypeOK
<1>3. procs' = Append(old, new) /\ client' = Len(procs')
  BY DEF Launch
<1> HIDE DEF old, new
<1>. QED  BY <1>1, <1>2, <1>3, AppendProperties, LenProperties

-----------------------------------------------------------------------------
(* Who moves, and where to.                                                *)

\* A step is one of a handler; the others stay where they are.
LEMMA OthersStay ==
    ASSUME IInv, NEW h \in Handlers, Arrive(h) \/ Step(h)
    PROVE  \A g \in Handlers \ {h} :
              /\ stage'[g] = stage[g] /\ ref'[g] = ref[g] /\ want'[g] = want[g]
              /\ attempt'[g] = attempt[g] /\ result'[g] = result[g]
<1> USE DEF IInv, TypeOK, GoTo, Finish
<1>1. CASE Arrive(h) \/ Preparing(h)
  BY <1>1 DEF Arrive, Preparing, Acquire, CheckMutation, WriteConfig, Activate,
     SecretMissing, CheckPin, Refresh, Prepared
<1>2. CASE Ensuring(h)
  BY <1>2 DEF Ensuring, Reuse, Defer, Launch, LaunchFails, shared
<1>3. CASE Calling(h)
  BY <1>3 DEF Calling, SetupAnswered, CallAnswered, CallFails,
     TransportError, CloseLost, Restart, Send, SendFails, TurnStarted,
     TurnRefused, TimedOut, LocalUnchanged
<1>. QED  BY <1>1, <1>2, <1>3 DEF Step

LEMMA KindStep ==
    ASSUME IInv, KindInv, [Next]_vars PROVE KindInv'
<1> USE DEF IInv, TypeOK, GoTo, Finish
<1>1. CASE UNCHANGED stage
  BY <1>1 DEF KindInv
<1>2. ASSUME NEW h \in Handlers, Arrive(h) \/ Step(h) PROVE KindInv'
  <2> DEFINE Fits(k, s) ==
          /\ s = "restart" => k = "restart"
          /\ k = "restart" => s \in {"idle", "restart", "done"}
          /\ s \in {"setup", "send", "await"} => k = "turn"
          /\ s = "lost" => k \in {"turn", "create", "query"}
  <2>0. KindOf[h] \in Kinds /\ Fits(KindOf[h], stage[h])
    BY LaneAssumption DEF KindInv
  <2>1. Fits(KindOf[h], stage'[h])
    <3>1. CASE Arrive(h) \/ Preparing(h)
      BY <2>0, <3>1 DEF Arrive, Preparing, Acquire, CheckMutation, WriteConfig,
         Activate, SecretMissing, CheckPin, Refresh, Prepared, Kinds, Locking
    <3>2. CASE Ensuring(h)
      BY <2>0, <3>2 DEF Ensuring, Reuse, Defer, Launch, LaunchFails, Proceed, shared
    <3>3. CASE Calling(h)
      BY <2>0, <3>3 DEF Calling, SetupAnswered, CallAnswered, CallFails,
         TransportError, CanRetry, CloseLost, Restart, Send, SendFails, TurnStarted,
         TurnRefused, TimedOut, LocalUnchanged
    <3>. QED  BY <1>2, <3>1, <3>2, <3>3 DEF Step
  <2>. QED  BY <1>2, <2>1, OthersStay DEF KindInv
<1>3. CASE Crash \/ GoDeaf \/ PinExpires \/ UNCHANGED vars
  BY <1>1, <1>3 DEF Crash, GoDeaf, PinExpires, vars, local
<1>. QED  BY <1>2, <1>3 DEF Next

LEMMA OwnerStep ==
    ASSUME IInv, KindInv, OwnerInv, [Next]_vars PROVE OwnerInv'
<1> USE DEF IInv, TypeOK, GoTo, Finish
<1>1. CASE UNCHANGED <<stage, owner>>
  BY <1>1 DEF OwnerInv
<1>2. ASSUME NEW h \in Handlers, Arrive(h) \/ Step(h) PROVE OwnerInv'
  <2>0. KindOf[h] \in Kinds /\ owner \in Handlers \cup {None} /\ None \notin Handlers
    BY LaneAssumption
  \* The lock changes hands from its owner to nobody, or from nobody to h.
  <2>1. owner' = owner \/ (owner = h /\ owner' = None) \/ (owner = None /\ owner' = h)
    BY <1>2 DEF Step, Arrive, Preparing, Acquire, CheckMutation, WriteConfig,
       Activate, SecretMissing, CheckPin, Refresh, Prepared, Ensuring, Reuse, Defer,
       Launch, LaunchFails, Calling, SetupAnswered, CallAnswered, CallFails,
       TransportError, CloseLost, Restart, Send, SendFails, TurnStarted,
       TurnRefused, TimedOut, LocalUnchanged, shared
  <2>2. KindOf[h] \in Mutating /\ stage'[h] \notin {"idle", "acquire", "done"}
            => owner' = h
    <3> SUFFICES ASSUME KindOf[h] \in Mutating,
                        stage'[h] \notin {"idle", "acquire", "done"}
                 PROVE  owner' = h
      OBVIOUS
    <3>1. CASE Arrive(h) \/ Acquire(h)
      BY <2>0, <3>1 DEF Arrive, Acquire, Locking, Mutating
    <3>2. CASE ~(Arrive(h) \/ Acquire(h))
      <4>1. stage[h] \notin {"idle", "acquire", "done"} /\ owner' = owner
        BY <1>2, <2>0, <3>2 DEF KindInv, Step, Preparing, CheckMutation,
           WriteConfig, Activate, SecretMissing, CheckPin, Refresh, Prepared,
           Ensuring, Reuse, Defer, Launch, LaunchFails, Calling, SetupAnswered,
           CallAnswered, CallFails, TransportError, CanRetry, CloseLost, Restart,
           Send, SendFails, TurnStarted, TurnRefused, TimedOut, LocalUnchanged,
           shared, Mutating
      <4>. QED  BY <4>1 DEF OwnerInv
    <3>. QED  BY <3>1, <3>2
  <2>3. ASSUME NEW g \in Handlers \ {h}, KindOf[g] \in Mutating,
               stage'[g] \notin {"idle", "acquire", "done"}
        PROVE  owner' = g
    <3>1. owner = g
      BY <1>2, <2>3, OthersStay DEF OwnerInv
    <3>. QED  BY <2>0, <2>1, <2>3, <3>1
  <2>. QED  BY <2>2, <2>3 DEF OwnerInv
<1>3. CASE Crash \/ GoDeaf \/ PinExpires \/ UNCHANGED vars
  BY <1>1, <1>3 DEF Crash, GoDeaf, PinExpires, vars, shared, local
<1>. QED  BY <1>2, <1>3 DEF Next

-----------------------------------------------------------------------------
(* Turns.                                                                  *)

\* No step lets a process run again, or take the turn of a handler other than
\* the one that sends it.
Monotone ==
    /\ Len(procs') >= Len(procs)
    /\ \A p \in 1..Len(procs) : procs'[p].state = "up" => procs[p].state = "up"
    /\ \A p \in 1..Len(procs), g \in Handlers :
           g \in procs'[p].turns => \/ g \in procs[p].turns
                                    \/ Send(g) /\ p = ref[g]
    /\ \A p \in 1..Len(procs') : p \notin 1..Len(procs) => procs'[p].turns = {}

LEMMA SendUpdate ==
    ASSUME IInv, NEW h \in Handlers, Send(h) \/ TurnRefused(h)
    PROVE  /\ ref[h] \in 1..Len(procs)
           /\ Len(procs') = Len(procs)
           /\ \A p \in 1..Len(procs) :
                 /\ procs'[p].config = procs[p].config
                 /\ procs'[p].sig = procs[p].sig
                 /\ procs'[p].state = procs[p].state
           /\ Send(h) => \A p \in 1..Len(procs) : procs'[p].turns =
                 IF p = ref[h] THEN procs[p].turns \cup {h} ELSE procs[p].turns
           /\ TurnRefused(h) => \A p \in 1..Len(procs) : procs'[p].turns =
                 IF p = ref[h] THEN procs[p].turns \ {h} ELSE procs[p].turns
<1> USE DEF IInv
<1>1. ref[h] \in 1..Len(procs) /\ procs \in Seq(Process)
  BY LenProperties DEF Send, TurnRefused, TypeOK, InCall
<1>2. procs[ref[h]].turns \in SUBSET Handlers
  <2>1. procs[ref[h]] \in Process
    BY <1>1, ElementOfSeq
  <2>. QED  BY <2>1 DEF Process
<1>3. ASSUME NEW ts \in SUBSET Handlers,
             procs' = [procs EXCEPT ![ref[h]].turns = ts]
      PROVE  /\ Len(procs') = Len(procs)
             /\ \A p \in 1..Len(procs) :
                   /\ procs'[p].config = procs[p].config
                   /\ procs'[p].sig = procs[p].sig
                   /\ procs'[p].state = procs[p].state
                   /\ procs'[p].turns = IF p = ref[h] THEN ts ELSE procs[p].turns
  BY <1>1, <1>3, TurnsUpdate, TurnsChange
<1>4. CASE Send(h)
  <2>1. procs[ref[h]].turns \cup {h} \in SUBSET Handlers
    BY <1>2
  <2>2. procs' = [procs EXCEPT ![ref[h]].turns = procs[ref[h]].turns \cup {h}]
    BY <1>4 DEF Send
  <2>3. ~TurnRefused(h)
    BY <1>4 DEF Send, TurnRefused
  <2>. QED  BY <1>1, <1>3, <2>1, <2>2, <2>3
<1>5. CASE TurnRefused(h)
  <2>1. procs[ref[h]].turns \ {h} \in SUBSET Handlers
    BY <1>2
  <2>2. procs' = [procs EXCEPT ![ref[h]].turns = procs[ref[h]].turns \ {h}]
    BY <1>5 DEF TurnRefused
  <2>3. ~Send(h)
    BY <1>5 DEF Send, TurnRefused
  <2>. QED  BY <1>1, <1>3, <2>1, <2>2, <2>3
<1>. QED  BY <1>4, <1>5

\* What an exit or a dead reader does.
LEMMA EnvironmentUpdate ==
    ASSUME IInv, Crash \/ GoDeaf
    PROVE  /\ Len(procs') = Len(procs)
           /\ \A p \in 1..Len(procs) :
                 /\ procs'[p].config = procs[p].config
                 /\ procs'[p].sig = procs[p].sig
                 /\ procs'[p].state = "up" => procs[p].state = "up"
                 /\ procs'[p].turns = procs[p].turns
<1>1. PICK st \in {"down", "deaf"} : procs' = [procs EXCEPT ![client].state = st]
  BY DEF Crash, GoDeaf
<1>2. client \in 1..Len(procs) /\ procs \in Seq(Process) /\ st \in ProcStates
  BY LenProperties DEF Crash, GoDeaf, Running, IInv, TypeOK, ProcStates
<1>. QED  BY <1>1, <1>2, StateUpdate, StateKeeps

LEMMA MonotoneStep ==
    ASSUME IInv, [Next]_vars PROVE Monotone
<1>1. Len(procs) \in Nat
  BY LenProperties DEF IInv, TypeOK
<1>2. CASE UNCHANGED procs
  BY <1>1, <1>2 DEF Monotone
<1>3. ASSUME procs' = Closed PROVE Monotone
  BY <1>1, <1>3, ClosedFacts, ClosedKeeps DEF IInv, Monotone
<1>4. ASSUME NEW h \in Handlers, Launch(h) PROVE Monotone
  <2>1. /\ Len(procs') = Len(procs) + 1 /\ client' = Len(procs')
        /\ procs'[client'].turns = {}
        /\ \A p \in 1..Len(procs) :
              procs'[p].state # "up" /\ procs'[p].turns = procs[p].turns
    BY <1>4, LaunchFacts, LaunchKeeps DEF IInv
  <2>. QED  BY <1>1, <2>1 DEF Monotone
<1>5. ASSUME NEW h \in Handlers, Refresh(h) \/ LaunchFails(h) \/ CloseLost(h) \/ Restart(h)
      PROVE  Monotone
  BY <1>2, <1>3, <1>5 DEF Refresh, LaunchFails, CloseLost, Restart
<1>6. ASSUME NEW h \in Handlers, Send(h) \/ TurnRefused(h) PROVE Monotone
  <2>1. CASE Send(h)
    <3>1. \A p \in 1..Len(procs), g \in Handlers :
             g \in procs'[p].turns => g \in procs[p].turns \/ (g = h /\ p = ref[h])
      BY <2>1, SendUpdate
    <3>. QED  BY <1>1, <2>1, <3>1, SendUpdate DEF Monotone
  <2>2. CASE TurnRefused(h)
    <3>1. \A p \in 1..Len(procs), g \in Handlers :
             g \in procs'[p].turns => g \in procs[p].turns
      BY <2>2, SendUpdate
    <3>. QED  BY <1>1, <2>2, <3>1, SendUpdate DEF Monotone
  <2>. QED  BY <1>6, <2>1, <2>2
<1>7. CASE Crash \/ GoDeaf
  BY <1>1, <1>7, EnvironmentUpdate DEF Monotone
<1>8. CASE PinExpires \/ UNCHANGED vars
  BY <1>2, <1>8 DEF PinExpires, vars, shared
<1>. QED
  BY <1>2, <1>4, <1>5, <1>6, <1>7, <1>8, QuietFacts
  DEF Next, Step, Preparing, Ensuring, Calling, Quiet

LEMMA TurnStep ==
    ASSUME IInv, TurnInv, [Next]_vars PROVE TurnInv'
<1> USE DEF IInv, TypeOK
<1> DEFINE TurnFacts(h) ==
        /\ stage[h] \in {"setup", "send"} => h \notin procs[ref[h]].turns
        /\ stage[h] # "done" => \A p \in 1..Len(procs) :
               h \in procs[p].turns => procs[p].state # "up"
                                       \/ (stage[h] = "await" /\ p = ref[h])
<1>0. /\ Monotone /\ Sound
      /\ Len(procs) \in Nat /\ Len(procs') \in Nat
  BY MonotoneStep, ProcsStep, LenProperties DEF Sound
\* A handler that does not move and sends nothing.
<1>1. ASSUME NEW h \in Handlers, stage'[h] = stage[h], ref'[h] = ref[h],
             ~Send(h)
      PROVE  TurnFacts(h)'
  <2>1. stage[h] \in {"setup", "send"} => ref[h] \in 1..Len(procs)
    BY <1>0 DEF InCall
  <2>2. \A p \in 1..Len(procs) : h \in procs'[p].turns => h \in procs[p].turns
    BY <1>0, <1>1 DEF Monotone
  <2>3. stage'[h] \in {"setup", "send"} => h \notin procs'[ref'[h]].turns
    BY <1>1, <2>1, <2>2 DEF TurnInv
  <2>4. ASSUME stage'[h] # "done", NEW p \in 1..Len(procs'), h \in procs'[p].turns
        PROVE  procs'[p].state # "up" \/ (stage'[h] = "await" /\ p = ref'[h])
    <3>1. p \in 1..Len(procs)
      BY <1>0, <2>4 DEF Monotone
    <3>2. procs[p].state # "up" \/ (stage[h] = "await" /\ p = ref[h])
      BY <1>1, <2>2, <2>4, <3>1 DEF TurnInv
    <3>. QED  BY <1>0, <1>1, <3>1, <3>2 DEF Monotone
  <2>. QED  BY <2>3, <2>4
<1>2. ASSUME NEW h \in Handlers, Arrive(h) \/ Step(h) PROVE TurnInv'
  <2>1. ASSUME NEW g \in Handlers \ {h} PROVE TurnFacts(g)'
    <3>1. stage'[g] = stage[g] /\ ref'[g] = ref[g]
      BY <1>2, OthersStay
    <3>2. ~Send(g)
      BY <3>1 DEF Send, GoTo
    <3>. QED  BY <1>1, <3>1, <3>2
  <2>2. TurnFacts(h)'
    \* It gets to a step at which it has not sent.
    <3>1. ASSUME stage[h] \notin {"done", "await"},
                 stage'[h] \notin {"setup", "send"}, ~Send(h)
          PROVE  TurnFacts(h)'
      BY <1>0, <3>1 DEF Monotone, TurnInv
    \* It returns.
    <3>2. CASE stage'[h] = "done"
      BY <3>2
    \* It gets a client, which runs and so has not taken its turn.
    <3>3. CASE Reuse(h)
      <4>1. /\ client \in 1..Len(procs) /\ procs[client].state = "up"
            /\ procs' = procs /\ ref'[h] = client /\ stage[h] = "ensure"
        BY <1>0, <3>3 DEF Reuse, Running, shared
      <4>2. \A p \in 1..Len(procs) : h \in procs[p].turns => procs[p].state # "up"
        BY <4>1 DEF TurnInv
      <4>. QED  BY <4>1, <4>2
    <3>4. CASE Launch(h)
      <4>1. /\ procs'[client'].turns = {} /\ ref'[h] = client'
            /\ stage[h] = "ensure"
        BY <3>4, LaunchKeeps DEF Launch
      <4>2. \A p \in 1..Len(procs') : h \in procs'[p].turns => procs'[p].state # "up"
        BY <1>0, <3>4, <4>1 DEF Monotone, TurnInv, Send
      <4>. QED  BY <4>1, <4>2
    <3>5. CASE SetupAnswered(h)
      <4>1. /\ stage[h] = "setup" /\ UNCHANGED <<procs, ref>>
        BY <3>5 DEF SetupAnswered, LocalUnchanged, shared
      <4>. QED  BY <4>1 DEF TurnInv
    <3>6. CASE Send(h)
      <4>1. /\ stage[h] = "send" /\ stage'[h] = "await" /\ ref' = ref
        BY <3>6 DEF Send, GoTo
      <4>2. \A p \in 1..Len(procs) : procs'[p].turns =
               IF p = ref[h] THEN procs[p].turns \cup {h} ELSE procs[p].turns
        BY <3>6, SendUpdate
      <4>3. /\ Len(procs') = Len(procs)
            /\ \A p \in 1..Len(procs) : procs'[p].state = procs[p].state
        BY <3>6, SendUpdate
      <4>. QED  BY <4>1, <4>2, <4>3 DEF TurnInv
    <3>7. CASE TurnRefused(h)
      <4>1. stage[h] = "await" /\ ref' = ref
        BY <3>7 DEF TurnRefused
      <4>2. /\ ref[h] \in 1..Len(procs) /\ Len(procs') = Len(procs)
            /\ \A p \in 1..Len(procs) : procs'[p].state = procs[p].state
            /\ \A p \in 1..Len(procs) : procs'[p].turns =
                  IF p = ref[h] THEN procs[p].turns \ {h} ELSE procs[p].turns
        BY <3>7, SendUpdate
      <4>3. \A p \in 1..Len(procs) :
               h \in procs[p].turns => procs[p].state # "up" \/ p = ref[h]
        BY <4>1 DEF TurnInv
      <4>4. h \notin procs'[ref'[h]].turns
        BY <4>1, <4>2
      <4>5. \A p \in 1..Len(procs') : h \in procs'[p].turns => procs'[p].state # "up"
        BY <4>2, <4>3
      <4>. QED  BY <4>4, <4>5
    <3>8. CASE TransportError(h)
      <4>1. /\ stage'[h] = "lost" /\ UNCHANGED procs
            /\ stage[h] \in {"setup", "call", "send", "await"}
        BY <3>8 DEF TransportError, LocalUnchanged, shared, GoTo
      <4>2. stage[h] = "await" => procs[ref[h]].state # "up"
        BY <3>8 DEF TransportError, CannotCall, Up
      <4>. QED  BY <4>1, <4>2 DEF TurnInv
    <3>9. CASE Arrive(h) \/ Preparing(h) \/ CallAnswered(h) \/ CloseLost(h)
      <4>1. stage[h] \notin {"done", "await", "send"}
        BY <3>9 DEF Arrive, Preparing, Acquire, CheckMutation, WriteConfig,
           Activate, SecretMissing, CheckPin, Refresh, CallAnswered, CloseLost
      <4>2. stage'[h] \notin {"setup", "send"}
        BY <3>9, LaneAssumption DEF Arrive, Preparing, Acquire, CheckMutation,
           WriteConfig, Activate, SecretMissing, CheckPin, Refresh, Prepared,
           CallAnswered, CloseLost, Finish, GoTo, Kinds, Locking
      <4>3. ~Send(h)
        BY <4>1 DEF Send
      <4>. QED  BY <3>1, <4>1, <4>2, <4>3
    <3>10. CASE \/ Defer(h) \/ LaunchFails(h) \/ CallFails(h) \/ Restart(h)
                \/ SendFails(h) \/ TurnStarted(h) \/ TimedOut(h)
      <4>1. stage'[h] = "done"
        BY <3>10 DEF Defer, LaunchFails, CallFails, Restart, SendFails, TurnStarted,
           TimedOut, Finish, GoTo
      <4>. QED  BY <3>2, <4>1
    <3>. QED
      BY <1>2, <3>3, <3>4, <3>5, <3>6, <3>7, <3>8, <3>9, <3>10
      DEF Step, Ensuring, Calling
  <2>. QED  BY <2>1, <2>2 DEF TurnInv
<1>3. CASE Crash \/ GoDeaf \/ PinExpires \/ UNCHANGED vars
  <2>1. UNCHANGED local
    BY <1>3 DEF Crash, GoDeaf, PinExpires, vars
  <2>2. ASSUME NEW h \in Handlers PROVE ~Send(h)
    BY <2>1 DEF local, Send, GoTo
  <2>. QED  BY <1>1, <2>1, <2>2 DEF local, TurnInv
<1>. QED  BY <1>2, <1>3 DEF Next

-----------------------------------------------------------------------------
(* config.toml.                                                            *)

\* Whoever moves has taken part for good.
LEMMA MoverMarks ==
    ASSUME IInv, NEW h \in Handlers, Arrive(h) \/ Step(h)
    PROVE  stage'[h] \notin {"idle", "done"} \/ result'[h] # "none"
<1> USE DEF IInv, TypeOK, GoTo, Finish
<1>1. CASE Arrive(h) \/ Preparing(h)
  BY <1>1, LaneAssumption DEF Arrive, Preparing, Acquire, CheckMutation,
     WriteConfig, Activate, SecretMissing, CheckPin, Refresh, Prepared, Kinds, Locking
<1>2. CASE Ensuring(h)
  BY <1>2 DEF Ensuring, Reuse, Defer, Launch, LaunchFails, Proceed
<1>3. CASE Calling(h)
  BY <1>3 DEF Calling, SetupAnswered, CallAnswered, CallFails, TransportError,
     CloseLost, Restart, Send, SendFails, TurnStarted, TurnRefused, TimedOut
<1>. QED  BY <1>1, <1>2, <1>3 DEF Step

\* What a process has read of config.toml does not change.
LEMMA ConfigKept ==
    ASSUME IInv, [Next]_vars
    PROVE  /\ \A p \in 1..Len(procs) : procs'[p].config = procs[p].config
           /\ Len(procs') = Len(procs) \/ \E h \in Handlers : Launch(h)
<1>1. CASE UNCHANGED procs
  BY <1>1
<1>2. ASSUME procs' = Closed
      PROVE  /\ \A p \in 1..Len(procs) : procs'[p].config = procs[p].config
             /\ Len(procs') = Len(procs)
  BY <1>2, ClosedFacts, ClosedKeeps DEF IInv
<1>3. ASSUME NEW h \in Handlers, Launch(h)
      PROVE  \A p \in 1..Len(procs) : procs'[p].config = procs[p].config
  BY <1>3, LaunchKeeps DEF IInv
<1>4. ASSUME NEW h \in Handlers, Refresh(h) \/ LaunchFails(h) \/ CloseLost(h) \/ Restart(h)
      PROVE  /\ \A p \in 1..Len(procs) : procs'[p].config = procs[p].config
             /\ Len(procs') = Len(procs)
  BY <1>2, <1>4 DEF Refresh, LaunchFails, CloseLost, Restart
<1>5. ASSUME NEW h \in Handlers, Send(h) \/ TurnRefused(h)
      PROVE  /\ \A p \in 1..Len(procs) : procs'[p].config = procs[p].config
             /\ Len(procs') = Len(procs)
  BY <1>5, SendUpdate
<1>6. CASE Crash \/ GoDeaf
  BY <1>6, EnvironmentUpdate
<1>7. CASE PinExpires \/ UNCHANGED vars
  BY <1>1, <1>7 DEF PinExpires, vars, shared
<1>. QED
  BY <1>1, <1>3, <1>4, <1>5, <1>6, <1>7, QuietFacts
  DEF Next, Step, Preparing, Ensuring, Calling, Quiet

LEMMA ConfigStep ==
    ASSUME IInv, KindInv, OwnerInv, ConfigInv, [Next]_vars PROVE ConfigInv'
<1> USE DEF IInv, TypeOK
<1>0. /\ Sound
      /\ Len(procs) \in Nat /\ Len(procs') \in Nat
      /\ \A p \in 1..Len(procs) : procs'[p].config = procs[p].config
  BY ProcsStep, ConfigKept, LenProperties DEF Sound
<1>1. ASSUME NEW h \in Handlers, Arrive(h) \/ Step(h), Undisturbed' PROVE
          /\ LaunchedOnItsConfig'
          /\ \A g \in Handlers : Configured(g)'
  <2>1. KindOf[h] \in {"turn", "create", "restart"}
    <3>1. KindOf[h] \notin Bystanders
      BY <1>1, MoverMarks DEF Undisturbed
    <3>. QED  BY <3>1, LaneAssumption DEF Kinds, Bystanders
  <2>2. Undisturbed
    <3>1. \A g \in Handlers \ {h} : stage'[g] = stage[g] /\ result'[g] = result[g]
      BY <1>1, OthersStay
    <3>. QED  BY <1>1, <2>1, <3>1 DEF Undisturbed, Bystanders
  <2>3. LaunchedOnItsConfig /\ \A g \in Handlers : Configured(g)
    BY <2>2 DEF ConfigInv
  <2>4. LaunchedOnItsConfig'
    <3>1. ASSUME NEW g \in Handlers, Launch(g) PROVE LaunchedOnItsConfig'
      <4>1. stage[g] = "ensure" /\ stage'[g] # "ensure"
        BY <3>1 DEF Launch, GoTo, Proceed
      <4>2. g = h
        BY <1>1, <4>1, OthersStay
      <4>3. config = want[h]
        BY <2>1, <2>3, <4>1, <4>2 DEF KindInv, Configured, Mutating
      <4>4. /\ Len(procs') = Len(procs) + 1 /\ client' = Len(procs')
            /\ procs'[client'].sig = want[h] /\ procs'[client'].config = config
        BY <3>1, <4>2, LaunchFacts, LaunchKeeps
      <4>. QED  BY <1>0, <2>3, <4>3, <4>4 DEF LaunchedOnItsConfig, Sound
    <3>2. CASE Len(procs') = Len(procs)
      BY <1>0, <2>3, <3>2 DEF LaunchedOnItsConfig, Sound
    <3>. QED  BY <3>1, <3>2, ConfigKept
  <2>5. ASSUME NEW g \in Handlers \ {h} PROVE Configured(g)'
    <3> SUFFICES ASSUME KindOf[g] \in Mutating,
                        stage[g] \in {"activate", "pinned", "refresh", "ensure",
                                      "lost"} \cup InCall
                 PROVE  config' = want[g]
      BY <1>1, OthersStay DEF Configured
    <3>1. config = want[g]
      BY <2>3 DEF Configured
    <3>2. owner = g
      BY DEF OwnerInv, InCall
    <3>3. ~WriteConfig(h)
      BY <2>1, <3>2 DEF WriteConfig, OwnerInv, KindInv, Mutating
    <3>4. UNCHANGED config
      BY <1>1, <3>3 DEF Arrive, Step, Preparing, Acquire, CheckMutation, Activate,
         SecretMissing, CheckPin, Refresh, Ensuring, Reuse, Defer, Launch,
         LaunchFails, Calling, SetupAnswered, CallAnswered, CallFails,
         TransportError, CloseLost, Restart, Send, SendFails, TurnStarted,
         TurnRefused, TimedOut, LocalUnchanged, shared
    <3>. QED  BY <3>1, <3>4
  <2>6. Configured(h)'
    <3> DEFINE Under(s) == s \in {"activate", "pinned", "refresh", "ensure",
                                  "lost"} \cup InCall
    <3> SUFFICES ASSUME KindOf[h] \in Mutating, Under(stage'[h])
                 PROVE  config' = want'[h]
      BY DEF Configured
    <3>1. CASE WriteConfig(h)
      BY <3>1 DEF WriteConfig
    <3>2. CASE Arrive(h) \/ Acquire(h) \/ CheckMutation(h)
      <4>1. ~OtherMutates(h) \/ ~CheckMutation(h)
        BY DEF CheckMutation, OtherMutates, OwnerInv
      <4>2. stage'[h] \in {"acquire", "write"}
        BY <3>2, <4>1 DEF Arrive, Acquire, CheckMutation, GoTo, Locking, Mutating
      <4>. QED  BY <4>2 DEF InCall
    <3>3. CASE ~(WriteConfig(h) \/ Arrive(h) \/ Acquire(h) \/ CheckMutation(h))
      <4>1. Under(stage[h]) /\ UNCHANGED <<config, want>>
        <5>1. CASE Preparing(h)
          BY <3>3, <5>1 DEF Preparing, Activate, SecretMissing, CheckPin, Refresh
        <5>2. CASE Ensuring(h)
          BY <5>2 DEF Ensuring, Reuse, Defer, Launch, LaunchFails, shared
        <5>3. CASE Calling(h)
          BY <5>3 DEF Calling, SetupAnswered, CallAnswered, CallFails,
             TransportError, CloseLost, Restart, Send, SendFails, TurnStarted,
             TurnRefused, TimedOut, LocalUnchanged, shared, InCall, Finish, GoTo
        <5>. QED  BY <1>1, <3>3, <5>1, <5>2, <5>3 DEF Step
      <4>. QED  BY <2>3, <4>1 DEF Configured
    <3>. QED  BY <3>1, <3>2, <3>3
  <2>. QED  BY <2>4, <2>5, <2>6
<1>2. CASE Crash \/ GoDeaf \/ PinExpires \/ UNCHANGED vars
  <2>1. UNCHANGED <<config, local>>
    BY <1>2 DEF Crash, GoDeaf, PinExpires, vars, shared
  <2>2. Len(procs') = Len(procs)
    BY <1>2, EnvironmentUpdate DEF PinExpires, vars, shared
  <2>. QED
    BY <1>0, <2>1, <2>2
    DEF local, ConfigInv, Undisturbed, LaunchedOnItsConfig, Configured, Sound
<1>. QED  BY <1>1, <1>2 DEF Next, ConfigInv

-----------------------------------------------------------------------------
LEMMA RetryInit == Init => RetryInv
  BY LaneAssumption
  DEF Init, RetryInv, KindInv, OwnerInv, TurnInv, ConfigInv, Undisturbed,
      LaunchedOnItsConfig, Configured, InCall

\* The locks, steps, turns and config.toml of the handlers in every reachable
\* state.
THEOREM RetryInvariant == Spec => [](IInv /\ RetryInv)
<1>1. IInv /\ RetryInv /\ [Next]_vars => RetryInv'
  BY KindStep, OwnerStep, TurnStep, ConfigStep DEF RetryInv
<1>2. Spec => []RetryInv
  BY <1>1, RetryInit, Invariant, PTL DEF Spec
<1>. QED  BY <1>2, Invariant, PTL

\* Among start_turn, create_thread and restart a process launched for a profile
\* starts with the config.toml of that profile.
THEOREM HandoffCorrect == Spec => []HandoffKeepsConfig
<1>1. RetryInv => HandoffKeepsConfig
  <2> SUFFICES ASSUME RetryInv, Undisturbed PROVE LaunchedOnItsConfig
    BY DEF HandoffKeepsConfig, Undisturbed, Bystanders
  <2>. QED  BY DEF RetryInv, ConfigInv
<1>. QED  BY <1>1, RetryInvariant, PTL

\* No process gets a turn twice, whatever is retried on top of what.
THEOREM TurnsOnce == Spec => SentOncePerProcess
<1>1. IInv /\ RetryInv /\ [Next]_vars =>
          [\A h \in Handlers : stage[h] = "send" /\ stage'[h] = "await"
               => h \notin procs[ref[h]].turns]_vars
  BY DEF RetryInv, TurnInv
<1>. QED  BY <1>1, RetryInvariant, PTL DEF Spec, SentOncePerProcess

-----------------------------------------------------------------------------
(* Passive handlers.                                                       *)

\* A step of a passive handler while a client runs that is pinned, or that a
\* mutating handler uses, leaves it up.
LEMMA PassiveStep ==
    ASSUME IInv, RetryInv, NEW h \in Handlers, Arrive(h) \/ Step(h),
           KindOf[h] \in Passive, Running, signature = pin \/ OtherMutates(h)
    PROVE  procs'[client].state = "up"
<1> USE DEF IInv, TypeOK
<1>1. stage[h] \notin {"setup", "send", "await", "lost", "restart"}
  BY DEF RetryInv, KindInv, Passive
<1>2. Pinned(h) \/ OtherMutates(h) \/ want[h] = signature
  BY DEF Pinned, Passive
<1>3. CASE UNCHANGED procs
  BY <1>3 DEF Running
<1>4. UNCHANGED procs
  <2>1. CASE Arrive(h) \/ Preparing(h)
    BY <1>2, <2>1 DEF Arrive, Preparing, Acquire, CheckMutation, WriteConfig, Activate,
       SecretMissing, CheckPin, Refresh, shared
  <2>2. CASE Ensuring(h)
    BY <1>2, <2>2 DEF Ensuring, Reuse, Defer, Launch, LaunchFails, MayNotReplace, shared
  <2>3. CASE Calling(h)
    BY <1>1, <2>3 DEF Calling, SetupAnswered, CallAnswered, CallFails,
       TransportError, CloseLost, Restart, Send, SendFails, TurnStarted,
       TurnRefused, TimedOut, LocalUnchanged, shared
  <2>. QED  BY <2>1, <2>2, <2>3 DEF Step
<1>. QED  BY <1>3, <1>4

\* Polls, load_secret and the commands leave the process of a pinned turn, or
\* of a start_turn or create_thread that is under way, alone.
THEOREM PassiveSpare == Spec => PassiveSpares
<1>0. ASSUME IInv, [Next]_vars, NEW h \in Handlers, Moves(h)
      PROVE  Arrive(h) \/ Step(h)
  <2>1. ~UNCHANGED stage
    BY <1>0 DEF Moves
  <2>2. PICK g \in Handlers : Arrive(g) \/ Step(g)
    BY <1>0, <2>1 DEF Next, Crash, GoDeaf, PinExpires, vars, local
  <2>3. g = h
    BY <1>0, <2>2, OthersStay DEF Moves
  <2>. QED  BY <2>2, <2>3
<1>1. IInv /\ RetryInv /\ [Next]_vars =>
          [\A h \in Handlers :
              KindOf[h] \in Passive /\ Moves(h) /\ Running /\ signature = pin
                  => procs'[client].state = "up"]_vars
  BY <1>0, PassiveStep
<1>2. IInv /\ RetryInv /\ [Next]_vars =>
          [\A h, g \in Handlers :
              /\ KindOf[h] \in Passive /\ Moves(h)
              /\ KindOf[g] \in Mutating /\ stage[g] \in InCall /\ Up(g)
              => procs'[ref[g]].state = "up"]_vars
  <2> SUFFICES ASSUME IInv, RetryInv, [Next]_vars, NEW h \in Handlers, NEW g \in Handlers,
                      KindOf[h] \in Passive, Moves(h), KindOf[g] \in Mutating,
                      stage[g] \in InCall, Up(g)
               PROVE  procs'[ref[g]].state = "up"
    OBVIOUS
  <2>1. owner = g /\ g # h /\ g # None
    BY LaneAssumption DEF RetryInv, OwnerInv, InCall, Passive, Mutating
  <2>2. ref[g] = client /\ Running
    BY LenProperties DEF IInv, TypeOK, Up, NoOrphan, Running
  <2>3. OtherMutates(h)
    BY <2>1 DEF OtherMutates
  <2>. QED  BY <1>0, <2>2, <2>3, PassiveStep
<1>3. Spec => PassiveSparesPinned
  BY <1>1, RetryInvariant, PTL DEF Spec, PassiveSparesPinned
<1>4. Spec => PassiveSparesHandoff
  BY <1>2, RetryInvariant, PTL DEF Spec, PassiveSparesHandoff
<1>. QED  BY <1>3, <1>4 DEF PassiveSpares

-----------------------------------------------------------------------------
(* Approval and input requests, for any requests, fakes and turns.         *)

\* A thread that has not finished has not replied.
ReplyInv == \A m \in Modals : thread[m] # "done" => reply[m] = "none"

ModalInv == ModalTypeOK /\ ReplyInv /\ ReplyIsOfDecision

-----------------------------------------------------------------------------
\* What the replies are, and which decisions lead to a grant.
LEMMA TranslateType ==
    ASSUME NEW method, NEW decision
    PROVE  /\ Translate(method, decision) \in Replies \ {"none"}
           /\ Translate(method, decision) \in Grants => decision \in Approving
<1>1. CASE method = "user_input"
  BY <1>1 DEF Translate, Replies, Grants, Approving
<1>2. CASE method = "permissions"
  BY <1>2 DEF Translate, Replies, Grants, Approving
<1>3. CASE method = "elicitation"
  BY <1>3 DEF Translate, Replies, Grants, Approving
<1>4. CASE method \notin {"user_input", "permissions", "elicitation"}
  BY <1>4 DEF Translate, Replies, Grants, Approving
<1>. QED  BY <1>1, <1>2, <1>3, <1>4

LEMMA ChoicesType ==
    ASSUME NEW method PROVE ChoicesOf(method) \subseteq Decisions
<1>1. CASE method = "user_input"
  BY <1>1 DEF ChoicesOf, Decisions
<1>2. CASE method = "elicitation"
  BY <1>2 DEF ChoicesOf, Decisions
<1>3. CASE method \notin {"user_input", "elicitation"}
  BY <1>3 DEF ChoicesOf, Decisions
<1>. QED  BY <1>1, <1>2, <1>3

-----------------------------------------------------------------------------
LEMMA ModalInitInv == ModalInit => ModalInv
  BY ModalAssumption
  DEF ModalInit, ModalInv, ModalTypeOK, ReplyInv, ReplyIsOfDecision, Decisions, Replies

\* The two steps of the user: resolve() of a request and of a fake.
LEMMA ResolveStep ==
    ASSUME ModalInv, NEW m \in Modals \cup Fakes, NEW choice \in Decisions,
           Resolve(m, choice)
    PROVE  ModalInv'
<1> USE DEF ModalInv, Resolve
<1>1. ModalTypeOK'
  BY ModalAssumption DEF ModalTypeOK
<1>2. ReplyInv'
  BY DEF ReplyInv
<1>3. ReplyIsOfDecision'
  BY DEF ReplyIsOfDecision, ModalTypeOK
<1>. QED  BY <1>1, <1>2, <1>3

LEMMA CancelStep ==
    ASSUME ModalInv, NEW t \in Turns, CancelForTurn(t) PROVE ModalInv'
<1> USE DEF ModalInv, CancelForTurn, OfTurn
<1>1. ModalTypeOK'
  <2>1. \A m \in Modals : CancelResolution(MethodOf[m]) \in Decisions
    BY DEF CancelResolution, Decisions
  <2>2. resolution' \in [Modals \cup Fakes -> Decisions]
    BY <2>1 DEF ModalTypeOK
  <2>3. interrupt' \in [Turns -> {"none", "requested", "failed", "acknowledged", "done"}]
    BY DEF ModalTypeOK
  <2>4. \A m \in pending' \cap Fakes : resolution'[m] = "none"
    BY ModalAssumption DEF ModalTypeOK
  <2>. QED  BY <2>2, <2>3, <2>4 DEF ModalTypeOK
<1>2. ReplyInv'
  BY DEF ReplyInv
<1>3. ReplyIsOfDecision'
  BY DEF ReplyIsOfDecision, ModalTypeOK
<1>. QED  BY <1>1, <1>2, <1>3

\* The step that pops the modal and makes the reply.
LEMMA CompleteStep ==
    ASSUME ModalInv, NEW m \in Modals, Complete(m) PROVE ModalInv'
<1> USE DEF ModalInv, Complete
<1>1. ModalTypeOK'
  BY TranslateType DEF ModalTypeOK
<1>2. ReplyInv'
  BY DEF ReplyInv, ModalTypeOK
<1>3. ReplyIsOfDecision'
  BY DEF ReplyIsOfDecision, ModalTypeOK
<1>. QED  BY <1>1, <1>2, <1>3

\* The other steps decide nothing and reply nothing.
LEMMA OtherStep ==
    ASSUME ModalInv, NEW m \in Modals,
           Ask(m) \/ Register(m) \/ Wake(m) \/ WaitExpires(m)
    PROVE  ModalInv'
<1> USE DEF ModalInv, Ask, Register, Wake, WaitExpires
<1>1. ModalTypeOK'
  BY ModalAssumption DEF ModalTypeOK
<1>2. ReplyInv' /\ ReplyIsOfDecision'
  BY DEF ReplyInv, ReplyIsOfDecision, ModalTypeOK
<1>. QED  BY <1>1, <1>2

LEMMA FakeStep ==
    ASSUME ModalInv, NEW m \in Fakes, CreateFake(m) PROVE ModalInv'
  BY ModalAssumption
  DEF ModalInv, CreateFake, ModalTypeOK, ReplyInv, ReplyIsOfDecision

LEMMA InterruptStep ==
    ASSUME ModalInv, NEW t \in Turns,
           InterruptRequest(t) \/ InterruptFails(t) \/ InterruptAcknowledged(t)
    PROVE  ModalInv'
  BY DEF ModalInv, InterruptRequest, InterruptFails, InterruptAcknowledged, ModalTypeOK,
         ReplyInv, ReplyIsOfDecision

\* The invariant holds in every reachable state.
THEOREM ModalInvariant == ModalSpec => []ModalInv
<1>1. ModalInv /\ [ModalNext]_modalVars => ModalInv'
  <2> SUFFICES ASSUME ModalInv, [ModalNext]_modalVars PROVE ModalInv'
    OBVIOUS
  <2>1. CASE UNCHANGED modalVars
    BY <2>1 DEF modalVars, ModalInv, ModalTypeOK, ReplyInv, ReplyIsOfDecision
  <2>2. ASSUME NEW m \in Modals, NEW choice \in ChoicesOf(MethodOf[m]),
               Resolve(m, choice)
        PROVE  ModalInv'
    BY <2>2, ChoicesType, ResolveStep
  <2>3. ASSUME NEW m \in Fakes, NEW choice \in FakeChoices, Resolve(m, choice)
        PROVE  ModalInv'
    <3>1. choice \in Decisions
      BY <2>3 DEF FakeChoices, Decisions
    <3>. QED  BY <2>3, <3>1, ResolveStep
  <2>. QED
    BY <2>1, <2>2, <2>3, CancelStep, CompleteStep, OtherStep, FakeStep,
       InterruptStep DEF ModalNext, Requesting
<1>. QED  BY ModalInitInv, <1>1, PTL DEF ModalSpec

-----------------------------------------------------------------------------
\* Every variable has its type, and a modal is listed only while its thread
\* waits for it (ModalService.request, resolve, cancel_for_turn).
THEOREM ModalTypeCorrect == ModalSpec => []ModalTypeOK
  BY ModalInvariant, PTL DEF ModalInv

\* The reply is made of the last decision that was accepted for the modal.
THEOREM DecisionHonoured == ModalSpec => []DecisionIsHonoured
  BY ModalInvariant, PTL DEF ModalInv, DecisionIsHonoured

\* Timeouts, interrupts and cancellations grant nothing.
THEOREM NoGrantWithoutApproval == ModalSpec => []GrantNeedsApproval
<1>1. ModalInv => GrantNeedsApproval
  BY TranslateType DEF ModalInv, ReplyInv, ReplyIsOfDecision, GrantNeedsApproval, Grants
<1>. QED  BY ModalInvariant, <1>1, PTL

\* A decision after the reply is refused.
THEOREM LateDecisionsRefused == ModalSpec => NoDecisionAfterReply
<1> DEFINE Kept == \A m \in Modals :
                       thread[m] = "done" => resolution'[m] = resolution[m]
<1>1. ModalInv /\ [ModalNext]_modalVars => [Kept]_modalVars
  <2> SUFFICES ASSUME ModalInv, ModalNext PROVE Kept
    OBVIOUS
  <2> USE DEF ModalInv, ModalTypeOK
  <2>1. ASSUME NEW m \in Modals \cup Fakes, NEW choice, Resolve(m, choice) PROVE Kept
    BY <2>1, ModalAssumption DEF Resolve
  <2>2. ASSUME NEW t \in Turns, CancelForTurn(t) PROVE Kept
    BY <2>2 DEF CancelForTurn
  <2>3. CASE UNCHANGED resolution
    BY <2>3
  <2>. QED
    BY <2>1, <2>2, <2>3 DEF ModalNext, Ask, Requesting, Register, Wake, Complete,
       WaitExpires, CreateFake, InterruptRequest, InterruptFails,
       InterruptAcknowledged
<1> HIDE DEF Kept
<1>2. ModalSpec => [][Kept]_modalVars
  BY ModalInvariant, <1>1, PTL DEF ModalSpec
<1>. QED  BY <1>2 DEF NoDecisionAfterReply, Kept

-----------------------------------------------------------------------------
(* Router: sequences, and functions that are defined by recursion.         *)

\* A set of numbers has a least one.
LEMMA Least ==
  ASSUME NEW T, T \subseteq Nat, T # {}
  PROVE  \E x \in T : \A y \in T : x <= y
<1> DEFINE R == OpToRel(<, Nat)
<1>1. IsWellFoundedOn(R, Nat)
  BY NatLessThanWellFounded
<1> HIDE DEF R
<1>2. PICK x \in T : \A y \in T : ~(<<y, x>> \in R)
  BY <1>1, WFMin
<1>3. ASSUME NEW y \in T PROVE x <= y
  <2>1. x \in Nat /\ y \in Nat
    OBVIOUS
  <2>2. ~(y < x)
    <3> SUFFICES ASSUME y < x PROVE FALSE
      OBVIOUS
    <3>1. <<y, x>> \in Nat \X Nat
      BY <2>1
    <3>2. <<y, x>>[1] < <<y, x>>[2]
      OBVIOUS
    <3> QED
      BY <1>2, <3>1, <3>2 DEF R, OpToRel
  <2> QED
    BY <2>1, <2>2
<1> QED
  BY <1>3

\* Induction over the numbers, for a property given by the set of those that
\* have it.
LEMMA Induction ==
  ASSUME NEW S, 0 \in S, \A n \in Nat : n \in S => n + 1 \in S
  PROVE  \A n \in Nat : n \in S
<1> SUFFICES ASSUME NEW k \in Nat, k \notin S PROVE FALSE
  OBVIOUS
<1> DEFINE T == {n \in Nat : n \notin S}
<1>1. PICK x \in T : \A y \in T : x <= y
  <2>1. T \subseteq Nat /\ T # {}
    OBVIOUS
  <2> HIDE DEF T
  <2> QED
    BY <2>1, Least
<1>2. x \in Nat /\ x # 0 /\ x - 1 \in Nat
  BY <1>1
<1>3. x - 1 \in S
  BY <1>1, <1>2
<1>4. (x - 1) + 1 \in S
  BY <1>2, <1>3
<1> QED
  BY <1>1, <1>2, <1>4

\* What a step F makes of a value of S, N times over, exists.
RunOf(f, a, N, F) == f[0] = a /\ \A i \in 1 .. N : f[i] = F[<<i, f[i - 1]>>]

LEMMA Recursion ==
  ASSUME NEW S, NEW a \in S, NEW N \in Nat, NEW F \in [(1 .. N) \X S -> S]
  PROVE  \E f \in [0 .. N -> S] : RunOf(f, a, N, F)
<1> DEFINE Runs(f, n) == f[0] = a /\ \A i \in 1 .. n : f[i] = F[<<i, f[i - 1]>>]
           G == {n \in Nat : n <= N => \E f \in [0 .. n -> S] : Runs(f, n)}
<1>1. 0 \in G
  <2>1. [x \in 0 .. 0 |-> a] \in [0 .. 0 -> S] /\ Runs([x \in 0 .. 0 |-> a], 0)
    OBVIOUS
  <2> QED
    BY <2>1
<1>2. ASSUME NEW n \in Nat, n \in G PROVE n + 1 \in G
  <2> SUFFICES ASSUME n + 1 <= N PROVE \E f \in [0 .. n + 1 -> S] : Runs(f, n + 1)
    OBVIOUS
  <2>1. PICK f \in [0 .. n -> S] : Runs(f, n)
    BY <1>2
  <2> DEFINE g == [x \in 0 .. n + 1 |-> IF x = n + 1 THEN F[<<n + 1, f[n]>>] ELSE f[x]]
  <2>2. <<n + 1, f[n]>> \in (1 .. N) \X S
    OBVIOUS
  <2>3. F[<<n + 1, f[n]>>] \in S
    BY <2>2
  <2>4. g \in [0 .. n + 1 -> S]
    BY <2>3
  <2>5. \A x \in 0 .. n : g[x] = f[x] /\ x \in 0 .. n + 1
    OBVIOUS
  <2>6. g[n + 1] = F[<<n + 1, f[n]>>] /\ (n + 1) - 1 = n
    OBVIOUS
  <2>7. ASSUME NEW i \in 1 .. n + 1 PROVE g[i] = F[<<i, g[i - 1]>>]
    <3>1. CASE i = n + 1
      <4>1. g[n] = f[n]
        BY <2>5
      <4> HIDE DEF g
      <4> QED
        BY <2>6, <3>1, <4>1
    <3>2. CASE i \in 1 .. n
      <4>1. i \in 0 .. n /\ i - 1 \in 0 .. n
        BY <3>2
      <4> QED
        BY <2>1, <2>5, <3>2, <4>1
    <3> QED
      BY <3>1, <3>2
  <2>8. g[0] = a
    BY <2>1, <2>5
  <2> HIDE DEF g
  <2> QED
    BY <2>4, <2>7, <2>8
<1>3. N \in G
  <2> HIDE DEF G
  <2>1. \A n \in Nat : n \in G => n + 1 \in G
    BY <1>2
  <2> QED
    BY <1>1, <2>1, Induction
<1> QED
  BY <1>3 DEF RunOf

\* The elements of a sequence.
LEMMA InSequence ==
  ASSUME NEW S, NEW s \in Seq(S)
  PROVE  /\ Len(s) \in Nat /\ DOMAIN s = 1 .. Len(s)
         /\ \A i \in DOMAIN s : s[i] \in S
         /\ ToSet(s) = {s[i] : i \in DOMAIN s}
BY LenProperties, ElementOfSeq DEF ToSet

\* Both parts of a sequence that is put together.
JoinOf(r, s, t) ==
  /\ Len(r) = Len(s) + Len(t)
  /\ DOMAIN r = 1 .. Len(s) + Len(t)
  /\ \A i \in 1 .. Len(s) : r[i] = s[i]
  /\ \A i \in 1 .. Len(t) : r[Len(s) + i] = t[i]
  /\ \A i \in 1 .. Len(s) + Len(t) :
        i \in 1 .. Len(s) \/ \E j \in 1 .. Len(t) : i = Len(s) + j

LEMMA Joined ==
  ASSUME NEW S, NEW s \in Seq(S), NEW t \in Seq(S)
  PROVE  s \o t \in Seq(S) /\ JoinOf(s \o t, s, t)
<1>1. Len(s) \in Nat /\ Len(t) \in Nat
  BY LenProperties
<1>2. s \o t \in Seq(S) /\ Len(s \o t) = Len(s) + Len(t)
  BY ConcatProperties
<1>3. DOMAIN (s \o t) = 1 .. Len(s) + Len(t)
  BY <1>2, LenProperties
<1>4. ASSUME NEW i \in 1 .. Len(s) PROVE (s \o t)[i] = s[i]
  BY <1>1, ConcatProperties
<1>5. ASSUME NEW i \in 1 .. Len(t) PROVE (s \o t)[Len(s) + i] = t[i]
  <2>1. Len(s) + i \in 1 .. Len(s) + Len(t) /\ ~(Len(s) + i <= Len(s)) /\ Len(s) + i - Len(s) = i
    BY <1>1
  <2> QED
    BY <2>1, ConcatProperties
<1>6. ASSUME NEW i \in 1 .. Len(s) + Len(t), i \notin 1 .. Len(s)
      PROVE  \E j \in 1 .. Len(t) : i = Len(s) + j
  <2>1. i - Len(s) \in 1 .. Len(t) /\ i = Len(s) + (i - Len(s))
    BY <1>1, <1>6
  <2> QED
    BY <2>1
<1> QED
  BY <1>2, <1>3, <1>4, <1>5, <1>6 DEF JoinOf


-----------------------------------------------------------------------------
(* FlattenSeq and Fragments, one element after the other.                  *)

\* The partial results of FlattenSeq.
FlatRun(f, q, n) ==
  f[1] = q[1] /\ \A i \in 2 .. n : f[i] = f[i - 1] \o q[i]

\* What FlattenSeq returns is the last of them.
LEMMA FlattenRun ==
  ASSUME NEW S, NEW q \in Seq(Seq(S)), Len(q) # 0
  PROVE  \E f : FlatRun(f, q, Len(q)) /\ FlattenSeq(q) = f[Len(q)]
<1> DEFINE N == Len(q)
           F == [x \in (1 .. N) \X Seq(S) |-> x[2] \o q[x[1]]]
           Is(f) == f = [i \in 1 .. N |-> IF i = 1 THEN q[i] ELSE f[i - 1] \o q[i]]
<1>1. N \in Nat /\ N # 0 /\ \A i \in 1 .. N : q[i] \in Seq(S)
  BY InSequence
<1>2. F \in [(1 .. N) \X Seq(S) -> Seq(S)]
  <2> SUFFICES ASSUME NEW i \in 1 .. N, NEW t \in Seq(S) PROVE t \o q[i] \in Seq(S)
    OBVIOUS
  <2> QED
    BY <1>1, ConcatProperties
<1>3. PICK g \in [0 .. N -> Seq(S)] : RunOf(g, <<>>, N, F)
  <2>1. <<>> \in Seq(S)
    BY EmptySeq
  <2> HIDE DEF F, N
  <2> QED
    BY <1>1, <1>2, <2>1, Recursion
<1>4. g[0] = <<>> /\ \A i \in 1 .. N : g[i] = g[i - 1] \o q[i]
  <2>0. \A i \in 1 .. N : i - 1 \in 0 .. N
    BY <1>1
  <2>1. \A i \in 1 .. N : <<i, g[i - 1]>> \in (1 .. N) \X Seq(S)
    <3> HIDE DEF N, F
    <3> QED
      BY <1>3, <2>0
  <2>2. \A i \in 1 .. N : g[i] = F[<<i, g[i - 1]>>]
    BY <1>3 DEF RunOf
  <2> QED
    BY <1>3, <2>1, <2>2 DEF RunOf
<1>5. g[1] = q[1]
  <2>1. 1 \in 1 .. N /\ 1 - 1 = 0
    BY <1>1
  <2>2. <<>> \o q[1] = q[1]
    BY <1>1, <2>1, ConcatEmptySeq
  <2> HIDE DEF N
  <2> QED
    BY <1>4, <2>1, <2>2
<1> DEFINE h == [i \in 1 .. N |-> g[i]]
<1>6. Is(h)
  <2> DEFINE k == [i \in 1 .. N |-> IF i = 1 THEN q[i] ELSE h[i - 1] \o q[i]]
  <2>1. \A i \in 1 .. N : h[i] = k[i]
    <3> TAKE i \in 1 .. N
    <3>1. CASE i = 1
      BY <1>5, <3>1
    <3>2. CASE i # 1
      <4>1. i - 1 \in 1 .. N
        BY <1>1, <3>2
      <4> HIDE DEF N
      <4> QED
        BY <1>4, <3>2, <4>1
    <3> QED
      BY <3>1, <3>2
  <2> HIDE DEF N
  <2> QED
    BY <2>1
<1>7. PICK f : Is(f) /\ FlattenSeq(q) = f[N]
  <2>1. FlattenSeq(q) = (CHOOSE f : Is(f))[N]
    BY <1>1 DEF FlattenSeq
  <2> HIDE DEF Is, h
  <2> QED
    BY <1>6, <2>1
<1>8. \A i \in 1 .. N : f[i] = IF i = 1 THEN q[i] ELSE f[i - 1] \o q[i]
  <2> HIDE DEF N
  <2> QED
    BY <1>7
<1>9. 1 \in 1 .. N /\ \A i \in 2 .. N : i \in 1 .. N /\ i # 1
  BY <1>1
<1> HIDE DEF N
<1>10. FlatRun(f, q, N)
  BY <1>8, <1>9 DEF FlatRun
<1> QED
  BY <1>7, <1>10 DEF N

\* The partial results of two sequences that agree are the same.
LEMMA SameRuns ==
  ASSUME NEW N \in Nat, NEW p, NEW q, \A i \in 1 .. N : p[i] = q[i],
         NEW f, FlatRun(f, p, N), NEW g, FlatRun(g, q, N)
  PROVE  \A i \in 1 .. N : f[i] = g[i]
<1> DEFINE G == {n \in Nat : n + 1 <= N => f[n + 1] = g[n + 1]}
<1>1. 0 \in G
  <2> SUFFICES ASSUME 0 + 1 <= N PROVE f[0 + 1] = g[0 + 1]
    OBVIOUS
  <2>1. 1 \in 1 .. N /\ 0 + 1 = 1
    OBVIOUS
  <2> QED
    BY <2>1 DEF FlatRun
<1>2. ASSUME NEW n \in Nat, n \in G PROVE n + 1 \in G
  <2> SUFFICES ASSUME (n + 1) + 1 <= N PROVE f[(n + 1) + 1] = g[(n + 1) + 1]
    OBVIOUS
  <2> DEFINE m == (n + 1) + 1
  <2>1. m \in 2 .. N /\ m \in 1 .. N /\ m - 1 = n + 1
    OBVIOUS
  <2>2. f[n + 1] = g[n + 1]
    BY <1>2
  <2> HIDE DEF m
  <2>3. f[m] = f[m - 1] \o p[m] /\ g[m] = g[m - 1] \o q[m] /\ p[m] = q[m]
    BY <2>1 DEF FlatRun
  <2>4. f[m] = g[m]
    BY <2>1, <2>2, <2>3
  <2> QED
    BY <2>4 DEF m
<1>3. \A n \in Nat : n \in G
  <2> HIDE DEF G
  <2> QED
    BY <1>1, <1>2, Induction
<1> TAKE i \in 1 .. N
<1>4. i - 1 \in Nat /\ (i - 1) + 1 = i
  OBVIOUS
<1> QED
  BY <1>3, <1>4

\* FlattenSeq returns the parts one after the other.
LEMMA Flattened ==
  ASSUME NEW S, NEW p \in Seq(Seq(S))
  PROVE  /\ FlattenSeq(p) \in Seq(S)
         /\ \A x \in Seq(S) : FlattenSeq(Append(p, x)) = FlattenSeq(p) \o x
<1> DEFINE N == Len(p)
<1>1. N \in Nat /\ \A i \in 1 .. N : p[i] \in Seq(S)
  BY InSequence
<1>2. CASE N = 0
  <2>1. p = <<>> /\ FlattenSeq(p) = <<>>
    BY <1>2, EmptySeq DEF FlattenSeq
  <2>2. <<>> \in Seq(S)
    BY EmptySeq
  <2>3. ASSUME NEW x \in Seq(S) PROVE FlattenSeq(Append(p, x)) = <<>> \o x
    <3>1. /\ Append(p, x) \in Seq(Seq(S)) /\ Len(Append(p, x)) = 1
          /\ Append(p, x)[1] = x
      BY <1>2, AppendProperties
    <3>2. PICK f : f[1] = Append(p, x)[1] /\ FlattenSeq(Append(p, x)) = f[Len(Append(p, x))]
      <4> DEFINE q == Append(p, x)
      <4>1. q \in Seq(Seq(S)) /\ Len(q) # 0
        BY <3>1
      <4> HIDE DEF q
      <4>2. \E f : f[1] = q[1] /\ FlattenSeq(q) = f[Len(q)]
        BY <4>1, FlattenRun DEF FlatRun
      <4> QED
        BY <4>2 DEF q
    <3>3. <<>> \o x = x
      BY ConcatEmptySeq
    <3> QED
      BY <3>1, <3>2, <3>3
  <2> QED
    BY <2>1, <2>2, <2>3
<1>3. CASE N # 0
  <2>1. PICK f : FlatRun(f, p, N) /\ FlattenSeq(p) = f[N]
    BY <1>3, FlattenRun
  <2> DEFINE G == {n \in Nat : n + 1 <= N => f[n + 1] \in Seq(S)}
  <2>2. 0 \in G
    <3>1. 0 + 1 = 1 /\ 1 \in 1 .. N
      BY <1>1, <1>3
    <3> QED
      BY <1>1, <2>1, <3>1 DEF FlatRun
  <2>3. ASSUME NEW n \in Nat, n \in G PROVE n + 1 \in G
    <3> SUFFICES ASSUME (n + 1) + 1 <= N PROVE f[(n + 1) + 1] \in Seq(S)
      OBVIOUS
    <3> DEFINE m == (n + 1) + 1
    <3>1. m \in 2 .. N /\ m \in 1 .. N /\ m - 1 = n + 1
      BY <1>1
    <3>2. f[n + 1] \in Seq(S)
      BY <1>1, <2>3
    <3> HIDE DEF m, N
    <3>3. f[m - 1] \in Seq(S) /\ p[m] \in Seq(S) /\ f[m] = f[m - 1] \o p[m]
      BY <1>1, <2>1, <3>1, <3>2 DEF FlatRun
    <3>4. f[m] \in Seq(S)
      BY <3>3, ConcatProperties
    <3> QED
      BY <3>4 DEF m
  <2>4. \A n \in Nat : n \in G
    <3> HIDE DEF G
    <3> QED
      BY <2>2, <2>3, Induction
  <2>5. FlattenSeq(p) \in Seq(S)
    <3>1. N - 1 \in Nat /\ (N - 1) + 1 = N /\ N <= N
      BY <1>1, <1>3
    <3> HIDE DEF N
    <3>2. f[N] \in Seq(S)
      BY <2>4, <3>1
    <3> QED
      BY <2>1, <3>2
  <2>6. ASSUME NEW x \in Seq(S) PROVE FlattenSeq(Append(p, x)) = FlattenSeq(p) \o x
    <3> DEFINE q == Append(p, x)
    <3>1. /\ q \in Seq(Seq(S)) /\ Len(q) = N + 1
          /\ \A i \in 1 .. N : q[i] = p[i]
          /\ q[N + 1] = x
      BY AppendProperties
    <3> HIDE DEF q, N
    <3>2. Len(q) # 0 /\ N + 1 \in 2 .. N + 1 /\ (N + 1) - 1 = N
      BY <1>1, <1>3, <3>1
    <3>3. PICK g : FlatRun(g, q, N + 1) /\ FlattenSeq(q) = g[N + 1]
      BY <3>1, <3>2, FlattenRun
    <3>4. FlatRun(g, q, N)
      <4>1. \A i \in 2 .. N : i \in 2 .. N + 1
        BY <1>1
      <4> QED
        BY <3>3, <4>1 DEF FlatRun
    <3>5. f[N] = g[N]
      <4>1. \A i \in 1 .. N : f[i] = g[i]
        <5>1. N \in Nat /\ \A i \in 1 .. N : p[i] = q[i]
          BY <1>1, <3>1
        <5> QED
          BY <2>1, <3>3, <3>4, <5>1, SameRuns
      <4> QED
        BY <1>1, <1>3, <4>1
    <3>6. g[N + 1] = g[N] \o x
      BY <3>1, <3>2, <3>3 DEF FlatRun
    <3> QED
      BY <2>1, <3>3, <3>5, <3>6 DEF q
  <2> QED
    BY <2>5, <2>6
<1> QED
  BY <1>2, <1>3

\* One more line adds its number to the fragments of its kinds.
LEMMA OneMoreLine ==
  ASSUME NEW S, NEW l \in Seq(S), NEW kinds
  PROVE  /\ Fragments(l, kinds) \in Seq(Nat)
         /\ \A x \in S : Fragments(Append(l, x), kinds) =
                IF x \in kinds THEN Append(Fragments(l, kinds), Len(l) + 1)
                ELSE Fragments(l, kinds)
<1> DEFINE Runs(q, f) == /\ f[0] = <<>>
                         /\ \A i \in 1 .. Len(q) :
                               f[i] = IF q[i] \in kinds THEN Append(f[i - 1], i) ELSE f[i - 1]
<1>0. ASSUME NEW q \in Seq(S)
      PROVE  \E f : Runs(q, f) /\ Fragments(q, kinds) = f[Len(q)]
  <2> DEFINE N == Len(q)
             More(i, t) == IF q[i] \in kinds THEN Append(t, i) ELSE t
             F == [x \in (1 .. N) \X Seq(Nat) |-> More(x[1], x[2])]
             Is(f) == f = [n \in 0 .. N |-> IF n = 0 THEN <<>> ELSE More(n, f[n - 1])]
  <2>1. N \in Nat /\ <<>> \in Seq(Nat)
    BY InSequence, EmptySeq
  <2>2. F \in [(1 .. N) \X Seq(Nat) -> Seq(Nat)]
    <3> SUFFICES ASSUME NEW i \in 1 .. N, NEW t \in Seq(Nat) PROVE More(i, t) \in Seq(Nat)
      OBVIOUS
    <3>1. i \in Nat
      BY <2>1
    <3> QED
      BY <3>1, AppendProperties
  <2>3. PICK g \in [0 .. N -> Seq(Nat)] : RunOf(g, <<>>, N, F)
    <3> HIDE DEF F, N
    <3> QED
      BY <2>1, <2>2, Recursion
  <2>4. g[0] = <<>> /\ \A i \in 1 .. N : g[i] = More(i, g[i - 1])
    <3>0. \A i \in 1 .. N : i - 1 \in 0 .. N
      BY <2>1
    <3>1. \A i \in 1 .. N : <<i, g[i - 1]>> \in (1 .. N) \X Seq(Nat)
      <4> HIDE DEF N, F
      <4> QED
        BY <2>3, <3>0
    <3> QED
      BY <2>3, <3>1 DEF RunOf
  <2>5. Is(g)
    <3> DEFINE k == [n \in 0 .. N |-> IF n = 0 THEN <<>> ELSE More(n, g[n - 1])]
    <3>1. \A n \in 0 .. N : g[n] = k[n]
      <4> TAKE n \in 0 .. N
      <4>1. n = 0 \/ n \in 1 .. N
        BY <2>1
      <4> HIDE DEF N, More
      <4> QED
        BY <2>4, <4>1
    <3> HIDE DEF N, More
    <3> QED
      BY <2>3, <3>1
  <2>6. PICK f : Is(f) /\ Fragments(q, kinds) = f[N]
    <3>1. Fragments(q, kinds) = (CHOOSE f : Is(f))[N]
      BY DEF Fragments
    <3> HIDE DEF Is
    <3> QED
      BY <2>5, <3>1
  <2>7. \A n \in 0 .. N : f[n] = IF n = 0 THEN <<>> ELSE More(n, f[n - 1])
    <3> HIDE DEF More, N
    <3> QED
      BY <2>6
  <2>8. 0 \in 0 .. N /\ \A i \in 1 .. N : i \in 0 .. N /\ i # 0
    BY <2>1
  <2>9. f[0] = <<>> /\ \A i \in 1 .. N : f[i] = More(i, f[i - 1])
    <3> HIDE DEF More, N
    <3> QED
      BY <2>7, <2>8
  <2> QED
    BY <2>6, <2>9
<1> DEFINE N == Len(l)
<1>1. N \in Nat
  BY InSequence
<1>2. PICK f : Runs(l, f) /\ Fragments(l, kinds) = f[N]
  <2> HIDE DEF Runs
  <2> QED
    BY <1>0
<1>3. Fragments(l, kinds) \in Seq(Nat)
  <2> DEFINE G == {n \in Nat : n <= N => f[n] \in Seq(Nat)}
  <2>1. 0 \in G
    BY <1>2, EmptySeq
  <2>2. ASSUME NEW n \in Nat, n \in G PROVE n + 1 \in G
    <3> SUFFICES ASSUME n + 1 <= N PROVE f[n + 1] \in Seq(Nat)
      OBVIOUS
    <3>1. n + 1 \in 1 .. N /\ (n + 1) - 1 = n /\ n <= N /\ n + 1 \in Nat
      BY <1>1
    <3>2. f[n] \in Seq(Nat)
      BY <2>2, <3>1
    <3>3. f[n + 1] = IF l[n + 1] \in kinds THEN Append(f[n], n + 1) ELSE f[n]
      <4> DEFINE m == n + 1
      <4> HIDE DEF m
      <4>1. m \in 1 .. Len(l) /\ m - 1 = n
        BY <3>1 DEF m
      <4> QED
        BY <1>2, <4>1 DEF m
    <3> QED
      BY <3>1, <3>2, <3>3, AppendProperties
  <2>3. \A n \in Nat : n \in G
    <3> HIDE DEF G
    <3> QED
      BY <2>1, <2>2, Induction
  <2>4. N <= N
    BY <1>1
  <2> HIDE DEF N
  <2> QED
    BY <1>1, <1>2, <2>3, <2>4
<1>4. ASSUME NEW x \in S
      PROVE  Fragments(Append(l, x), kinds) =
                IF x \in kinds THEN Append(Fragments(l, kinds), N + 1) ELSE Fragments(l, kinds)
  <2> DEFINE q == Append(l, x)
  <2>1. /\ q \in Seq(S) /\ Len(q) = N + 1 /\ q[N + 1] = x
        /\ \A i \in 1 .. N : q[i] = l[i]
    BY AppendProperties
  <2> HIDE DEF q
  <2>2. PICK g : Runs(q, g) /\ Fragments(q, kinds) = g[N + 1]
    <3>1. \E g : Runs(q, g) /\ Fragments(q, kinds) = g[Len(q)]
      <4> HIDE DEF Runs
      <4> QED
        BY <1>0, <2>1
    <3> QED
      BY <2>1, <3>1
  <2> DEFINE G == {n \in Nat : n <= N => f[n] = g[n]}
  <2>3. 0 \in G
    BY <1>2, <2>2
  <2>4. ASSUME NEW n \in Nat, n \in G PROVE n + 1 \in G
    <3> SUFFICES ASSUME n + 1 <= N PROVE f[n + 1] = g[n + 1]
      OBVIOUS
    <3> DEFINE m == n + 1
    <3>1. m \in 1 .. N /\ m \in 1 .. N + 1 /\ m - 1 = n /\ n <= N
      BY <1>1
    <3>2. f[n] = g[n]
      BY <2>4, <3>1
    <3> HIDE DEF m, N, G
    <3>3. f[m] = IF l[m] \in kinds THEN Append(f[n], m) ELSE f[n]
      BY <1>2, <3>1 DEF N
    <3>4. g[m] = IF q[m] \in kinds THEN Append(g[n], m) ELSE g[n]
      BY <2>1, <2>2, <3>1
    <3>5. f[m] = g[m]
      BY <2>1, <3>1, <3>2, <3>3, <3>4
    <3> QED
      BY <3>5 DEF m
  <2>5. f[N] = g[N]
    <3>1. \A n \in Nat : n \in G
      <4> HIDE DEF G
      <4> QED
        BY <2>3, <2>4, Induction
    <3>2. N <= N
      BY <1>1
    <3> HIDE DEF N
    <3> QED
      BY <1>1, <3>1, <3>2
  <2>6. g[N + 1] = IF x \in kinds THEN Append(g[N], N + 1) ELSE g[N]
    <3> DEFINE m == N + 1
    <3>1. m \in 1 .. N + 1 /\ m - 1 = N
      BY <1>1
    <3> HIDE DEF m, N
    <3>2. g[m] = IF q[m] \in kinds THEN Append(g[m - 1], m) ELSE g[m - 1]
      BY <2>1, <2>2, <3>1
    <3> QED
      BY <2>1, <3>1, <3>2 DEF m
  <2> QED
    BY <1>2, <2>2, <2>5, <2>6 DEF q
<1> QED
  BY <1>3, <1>4

-----------------------------------------------------------------------------
(* Streams of events.                                                      *)

Items == [type : {"message", "reasoning", "function_call", "raw"}, body : Seq(Nat)]
EventKinds == {"created", "added", "part", "delta", "text", "partdone", "done",
               "completed", "end", "chunk", "whole"}
Events == {e \in [is : EventKinds, at : Nat, items : Seq(Items)] :
               e.is = "delta" => e.items # <<>>}

\* An event of this kind is told of the item at this index.
Tells(ev, is, at) == \E j \in DOMAIN ev : ev[j].is = is /\ ev[j].at = at

\* What an event adds to the deltas of the item at an index.
Gain(e, at) == IF e.is = "delta" /\ e.at = at THEN e.items[1].body ELSE <<>>

LEMMA GainIs ==
  ASSUME NEW e \in Events, NEW at
  PROVE  Gain(e, at) \in Seq(Nat)
<1>1. CASE e.is = "delta"
  <2>1. e.items \in Seq(Items) /\ e.items # <<>>
    BY <1>1 DEF Events
  <2>2. e.items[1] \in Items
    <3>1. Len(e.items) \in Nat /\ Len(e.items) # 0 /\ DOMAIN e.items = 1 .. Len(e.items)
      BY <2>1, InSequence, EmptySeq
    <3>2. 1 \in DOMAIN e.items
      BY <3>1
    <3> QED
      BY <2>1, <3>2, InSequence
  <2>3. e.items[1].body \in Seq(Nat)
    BY <2>2 DEF Items
  <2> QED
    BY <2>3, EmptySeq DEF Gain
<1>2. CASE e.is # "delta"
  BY <1>2, EmptySeq DEF Gain
<1> QED
  BY <1>1, <1>2

\* What Append makes, place by place.
LEMMA Appended ==
  ASSUME NEW S, NEW s \in Seq(S), NEW x \in S
  PROVE  /\ Append(s, x) \in Seq(S)
         /\ Len(s) \in Nat /\ Len(Append(s, x)) = Len(s) + 1
         /\ DOMAIN s = 1 .. Len(s) /\ DOMAIN Append(s, x) = 1 .. Len(s) + 1
         /\ \A i \in 1 .. Len(s) : Append(s, x)[i] = s[i]
         /\ Append(s, x)[Len(s) + 1] = x
<1>1. Append(s, x) \in Seq(S) /\ Len(Append(s, x)) = Len(s) + 1
  BY AppendProperties
<1> QED
  BY <1>1, AppendProperties, LenProperties

\* An event more adds its text to the deltas of its item.
LEMMA DeltasOfMore ==
  ASSUME NEW ev \in Seq(Events), NEW at
  PROVE  /\ DeltasAt(ev, at) \in Seq(Nat)
         /\ \A e \in Events : DeltasAt(Append(ev, e), at) = DeltasAt(ev, at) \o Gain(e, at)
<1> DEFINE P(s) == [i \in DOMAIN s |-> Gain(s[i], at)]
<1>1. ASSUME NEW s \in Seq(Events) PROVE P(s) \in Seq(Seq(Nat)) /\ DeltasAt(s, at) = FlattenSeq(P(s))
  <2>1. Len(s) \in Nat /\ DOMAIN s = 1 .. Len(s) /\ \A i \in 1 .. Len(s) : s[i] \in Events
    BY InSequence
  <2>2. \A i \in 1 .. Len(s) : Gain(s[i], at) \in Seq(Nat)
    BY <2>1, GainIs
  <2>3. P(s) \in [1 .. Len(s) -> Seq(Nat)]
    BY <2>1, <2>2
  <2>4. DeltasAt(s, at) = FlattenSeq(P(s))
    BY DEF DeltasAt, Gain
  <2> QED
    BY <2>1, <2>3, <2>4, SeqDef
<1>2. DeltasAt(ev, at) \in Seq(Nat)
  BY <1>1, Flattened
<1>3. ASSUME NEW e \in Events PROVE DeltasAt(Append(ev, e), at) = DeltasAt(ev, at) \o Gain(e, at)
  <2> DEFINE q == Append(ev, e)
             g == Gain(e, at)
             N == Len(ev)
  <2>1. /\ q \in Seq(Events) /\ N \in Nat /\ DOMAIN ev = 1 .. N /\ DOMAIN q = 1 .. N + 1
        /\ q[N + 1] = e
        /\ \A i \in 1 .. N : q[i] = ev[i]
    BY Appended
  <2>2. g \in Seq(Nat)
    BY GainIs
  <2> HIDE DEF q, N
  <2>3. P(q) = Append(P(ev), g)
    <3> DEFINE a == P(ev)
               b == P(q)
    <3>1. a \in Seq(Seq(Nat)) /\ b \in Seq(Seq(Nat))
      BY <1>1, <2>1
    <3>2. Len(a) = N /\ Len(b) = N + 1
      <4>1. DOMAIN a = 1 .. N /\ DOMAIN b = 1 .. N + 1
        BY <2>1
      <4> HIDE DEF a, b
      <4> QED
        BY <2>1, <3>1, <4>1, LenProperties
    <3>3. \A i \in 1 .. N : b[i] = a[i]
      BY <2>1
    <3>4. b[N + 1] = g
      BY <2>1
    <3> HIDE DEF a, b
    <3> DEFINE c == Append(a, g)
    <3>5. /\ c \in Seq(Seq(Nat)) /\ Len(c) = N + 1
          /\ c[N + 1] = g
          /\ \A i \in 1 .. N : c[i] = a[i]
      BY <2>2, <3>1, <3>2, Appended
    <3> HIDE DEF c
    <3>6. \A i \in 1 .. Len(b) : b[i] = c[i]
      <4>1. \A i \in 1 .. N + 1 : i \in 1 .. N \/ i = N + 1
        BY <2>1
      <4> QED
        BY <3>2, <3>3, <3>4, <3>5, <4>1
    <3>7. b = c
      BY <3>1, <3>2, <3>5, <3>6, SeqEqual
    <3> QED
      BY <3>7 DEF a, b, c
  <2>4. DeltasAt(ev, at) = FlattenSeq(P(ev)) /\ DeltasAt(q, at) = FlattenSeq(P(q))
    BY <1>1, <2>1
  <2>5. P(ev) \in Seq(Seq(Nat))
    BY <1>1
  <2> HIDE DEF P, g
  <2>6. FlattenSeq(Append(P(ev), g)) = FlattenSeq(P(ev)) \o g
    BY <2>2, <2>5, Flattened
  <2>7. DeltasAt(q, at) = DeltasAt(ev, at) \o g
    BY <2>3, <2>4, <2>6
  <2> QED
    BY <2>7 DEF q, g
<1> QED
  BY <1>2, <1>3

\* So does it add to what is told.
LEMMA TellsMore ==
  ASSUME NEW ev \in Seq(Events), NEW e \in Events
  PROVE  /\ \A is, at : Tells(Append(ev, e), is, at) <=>
                            Tells(ev, is, at) \/ (e.is = is /\ e.at = at)
         /\ ToSet(Append(ev, e)) = ToSet(ev) \cup {e}
<1> DEFINE q == Append(ev, e)
           N == Len(ev)
<1>1. /\ q \in Seq(Events) /\ N \in Nat /\ DOMAIN ev = 1 .. N /\ DOMAIN q = 1 .. N + 1
      /\ q[N + 1] = e
      /\ \A i \in 1 .. N : q[i] = ev[i]
  BY Appended
<1> HIDE DEF q, N
<1>2. /\ N + 1 \in 1 .. N + 1
      /\ \A i \in 1 .. N : i \in 1 .. N + 1
      /\ \A i \in 1 .. N + 1 : i \in 1 .. N \/ i = N + 1
  BY <1>1
<1>3. \A is, at : Tells(q, is, at) <=> Tells(ev, is, at) \/ (e.is = is /\ e.at = at)
  BY <1>1, <1>2 DEF Tells
<1>4. ToSet(q) = ToSet(ev) \cup {e}
  BY <1>1, <1>2 DEF ToSet
<1> QED
  BY <1>3, <1>4 DEF q

\* An event that may come next.
Fits(ev, e) ==
  LET deltas == DeltasAt(ev, e.at) IN
  /\ e.is \in OfItem => /\ ~Tells(ev, "done", e.at)
                        /\ e.is = "added" <=> ~Tells(ev, "added", e.at)
  /\ e.is = "delta" => ~Tells(ev, "text", e.at)
  /\ e.is \in {"text", "done"} =>
        (deltas # <<>> \/ e.is = "text" => e.items[1].body = deltas)
  /\ e.is = "added" => \A at : ~Tells(ev, "completed", at)
  /\ e.is = "completed" =>
        /\ \A at : Tells(ev, "added", at) <=> at \in 0 .. Len(e.items) - 1
        /\ \A i \in DOMAIN e.items : Event("done", i - 1, <<e.items[i]>>) \in ToSet(ev)

LEMMA Extended ==
  ASSUME NEW ev \in Seq(Events), NEW e \in Events, WellFormed(ev), Fits(ev, e)
  PROVE  Append(ev, e) \in Seq(Events) /\ WellFormed(Append(ev, e))
<1> DEFINE q == Append(ev, e)
           N == Len(ev)
<1>1. /\ q \in Seq(Events) /\ N \in Nat /\ DOMAIN ev = 1 .. N /\ DOMAIN q = 1 .. N + 1
      /\ q[N + 1] = e
      /\ \A i \in 1 .. N : q[i] = ev[i]
  BY Appended
<1>2. \A at : DeltasAt(q, at) = DeltasAt(ev, at) \o Gain(e, at)
  BY DeltasOfMore
<1>3. \A at : DeltasAt(ev, at) \in Seq(Nat)
  BY DeltasOfMore
<1> HIDE DEF q, N
<1>4. /\ N + 1 \in 1 .. N + 1 /\ (N + 1) - 1 = N
      /\ \A i \in 1 .. N : i \in 1 .. N + 1 /\ \A j \in 1 .. i - 1 : j \in 1 .. N
      /\ \A i \in 1 .. N + 1 : i \in 1 .. N \/ i = N + 1
  BY <1>1
<1>5. ASSUME NEW k \in DOMAIN q, q[k].is \in OfItem \ {"added"}
      PROVE  \E j \in 1 .. k - 1 : q[j].is = "added" /\ q[j].at = q[k].at
  <2>1. CASE k \in 1 .. N
    <3>1. PICK j \in 1 .. k - 1 : ev[j].is = "added" /\ ev[j].at = ev[k].at
      BY <1>1, <1>5, <2>1 DEF WellFormed
    <3> QED
      BY <1>1, <1>4, <2>1, <3>1
  <2>2. CASE k = N + 1
    <3>1. Tells(ev, "added", e.at)
      BY <1>1, <1>5, <2>2 DEF Fits
    <3>2. PICK j \in 1 .. N : ev[j].is = "added" /\ ev[j].at = e.at
      BY <1>1, <3>1 DEF Tells
    <3> QED
      BY <1>1, <1>4, <2>2, <3>2
  <2> QED
    BY <1>1, <1>4, <2>1, <2>2
<1>6. ASSUME NEW k \in DOMAIN q, q[k].is \in OfItem,
             NEW j \in 1 .. k - 1, q[j].at = q[k].at
      PROVE  q[j].is # "done" /\ (q[j].is = "added" => q[k].is # "added")
  <2>1. CASE k \in 1 .. N
    <3>1. j \in 1 .. N
      BY <1>4, <2>1
    <3> QED
      BY <1>1, <1>6, <2>1, <3>1 DEF WellFormed
  <2>2. CASE k = N + 1
    <3>1. j \in 1 .. N /\ q[j] = ev[j] /\ q[k] = e
      BY <1>1, <1>4, <2>2
    <3>2. ~Tells(ev, "done", e.at) /\ (e.is = "added" => ~Tells(ev, "added", e.at))
      BY <1>6, <3>1 DEF Fits
    <3> QED
      BY <1>1, <1>6, <3>1, <3>2 DEF Tells
  <2> QED
    BY <1>1, <1>4, <2>1, <2>2
<1>7. ASSUME NEW k \in DOMAIN q, q[k].is \in {"text", "done"},
             DeltasAt(q, q[k].at) # <<>> \/ q[k].is = "text"
      PROVE  q[k].items[1].body = DeltasAt(q, q[k].at)
  <2>1. CASE k \in 1 .. N
    <3>1. q[k] = ev[k] /\ k \in DOMAIN ev
      BY <1>1, <2>1
    <3>2. Gain(e, ev[k].at) = <<>>
      <4> SUFFICES ASSUME e.is = "delta", e.at = ev[k].at PROVE FALSE
        BY DEF Gain
      <4>1. ~Tells(ev, "text", e.at) /\ ~Tells(ev, "done", e.at)
        BY DEF Fits, OfItem
      <4> QED
        BY <1>7, <3>1, <4>1 DEF Tells
    <3>3. DeltasAt(q, ev[k].at) = DeltasAt(ev, ev[k].at)
      BY <1>2, <1>3, <3>2, ConcatEmptySeq
    <3> QED
      BY <1>7, <3>1, <3>3 DEF WellFormed
  <2>2. CASE k = N + 1
    <3>1. q[k] = e
      BY <1>1, <2>2
    <3>2. DeltasAt(q, e.at) = DeltasAt(ev, e.at)
      <4>1. Gain(e, e.at) = <<>>
        BY <1>7, <3>1 DEF Gain
      <4> QED
        BY <1>2, <1>3, <4>1, ConcatEmptySeq
    <3> QED
      BY <1>7, <3>1, <3>2 DEF Fits
  <2> QED
    BY <1>1, <1>4, <2>1, <2>2
<1>8. ASSUME NEW k \in DOMAIN q, q[k].is = "completed"
      PROVE  /\ {q[j].at : j \in {i \in DOMAIN q : q[i].is = "added"}}
                   = 0 .. Len(q[k].items) - 1
             /\ \A i \in DOMAIN q[k].items : \E j \in 1 .. k - 1 :
                   q[j] = Event("done", i - 1, <<q[k].items[i]>>)
  <2>1. CASE k \in 1 .. N
    <3>1. q[k] = ev[k] /\ k \in DOMAIN ev
      BY <1>1, <2>1
    <3>2. e.is # "added"
      <4>1. Tells(ev, "completed", ev[k].at)
        BY <1>8, <3>1 DEF Tells
      <4> QED
        BY <4>1 DEF Fits
    <3>3. /\ {ev[j].at : j \in {i \in DOMAIN ev : ev[i].is = "added"}}
                   = 0 .. Len(ev[k].items) - 1
          /\ \A i \in DOMAIN ev[k].items : \E j \in 1 .. k - 1 :
                   ev[j] = Event("done", i - 1, <<ev[k].items[i]>>)
      BY <1>8, <3>1 DEF WellFormed
    <3>4. {q[j].at : j \in {i \in DOMAIN q : q[i].is = "added"}}
             = {ev[j].at : j \in {i \in DOMAIN ev : ev[i].is = "added"}}
      BY <1>1, <1>4, <3>2
    <3>5. \A j \in 1 .. k - 1 : q[j] = ev[j]
      BY <1>1, <1>4, <2>1
    <3> QED
      BY <3>1, <3>3, <3>4, <3>5
  <2>2. CASE k = N + 1
    <3>1. q[k] = e /\ e.is # "added"
      BY <1>1, <1>8, <2>2
    <3>2. /\ \A at : Tells(ev, "added", at) <=> at \in 0 .. Len(e.items) - 1
          /\ \A i \in DOMAIN e.items : Event("done", i - 1, <<e.items[i]>>) \in ToSet(ev)
      BY <1>8, <3>1 DEF Fits
    <3>3. ASSUME NEW at PROVE at \in {q[j].at : j \in {i \in DOMAIN q : q[i].is = "added"}}
                              <=> Tells(ev, "added", at)
      BY <1>1, <1>4, <3>1 DEF Tells
    <3>4. ASSUME NEW i \in DOMAIN e.items
          PROVE  \E j \in 1 .. k - 1 : q[j] = Event("done", i - 1, <<e.items[i]>>)
      <4>1. PICK j \in DOMAIN ev : ev[j] = Event("done", i - 1, <<e.items[i]>>)
        BY <3>2 DEF ToSet
      <4> QED
        BY <1>1, <1>4, <2>2, <4>1
    <3> QED
      BY <3>1, <3>2, <3>3, <3>4
  <2> QED
    BY <1>1, <1>4, <2>1, <2>2
<1>9. WellFormed(q)
  BY <1>5, <1>6, <1>7, <1>8 DEF WellFormed
<1> QED
  BY <1>1, <1>9 DEF q

\* A stream so far, which has told of the items before n.
InOrder(ev, n) ==
  /\ ev \in Seq(Events) /\ n \in Nat /\ WellFormed(ev)
  /\ \A at : Tells(ev, "added", at) <=> at \in 0 .. n - 1
  /\ \A at : ~Tells(ev, "completed", at)
  /\ \A at \in Nat : at >= n => DeltasAt(ev, at) = <<>>

LEMMA EventIs ==
  ASSUME NEW is \in EventKinds, NEW at \in Nat, NEW items \in Seq(Items),
         is = "delta" => items # <<>>
  PROVE  /\ Event(is, at, items) \in Events
         /\ Event(is, at, items).is = is
         /\ Event(is, at, items).at = at
         /\ Event(is, at, items).items = items
BY DEF Event, Events

\* Events without items, and of one item.
LEMMA PlainEvent ==
  ASSUME NEW is \in EventKinds \ {"delta"}, NEW at \in Nat
  PROVE  LET e == Event(is, at, <<>>) IN
         e \in Events /\ e.is = is /\ e.at = at /\ e.items = <<>>
<1> DEFINE none == <<>>
<1>1. none \in Seq(Items)
  BY EmptySeq
<1> HIDE DEF none
<1>2. /\ Event(is, at, none) \in Events /\ Event(is, at, none).is = is
      /\ Event(is, at, none).at = at /\ Event(is, at, none).items = none
  BY <1>1, EventIs
<1> QED
  BY <1>2 DEF none

LEMMA ItemEvent ==
  ASSUME NEW is \in EventKinds, NEW at \in Nat, NEW item \in Items
  PROVE  LET e == Event(is, at, <<item>>) IN
         e \in Events /\ e.is = is /\ e.at = at /\ e.items = <<item>> /\ e.items[1] = item
<1> DEFINE one == <<item>>
<1>1. one \in Seq(Items) /\ one # <<>> /\ one[1] = item
  OBVIOUS
<1> HIDE DEF one
<1>2. /\ Event(is, at, one) \in Events /\ Event(is, at, one).is = is
      /\ Event(is, at, one).at = at /\ Event(is, at, one).items = one
  BY <1>1, EventIs
<1> QED
  BY <1>1, <1>2 DEF one

LEMMA AddedEvent ==
  ASSUME NEW at \in Nat, NEW piece \in Items
  PROVE  LET e == Event("added", at, <<piece>>) IN
         e \in Events /\ e.is = "added" /\ e.at = at
<1>1. "added" \in EventKinds
  BY DEF EventKinds
<1> QED
  BY <1>1, ItemEvent

\* Nothing is told of an item that was not added.
LEMMA SoundTells ==
  ASSUME NEW ev, NEW n, InOrder(ev, n), NEW is \in OfItem, NEW at, Tells(ev, is, at)
  PROVE  at \in 0 .. n - 1
<1>1. PICK k \in DOMAIN ev : ev[k].is = is /\ ev[k].at = at
  BY DEF Tells
<1>2. CASE is = "added"
  BY <1>2 DEF InOrder
<1>3. CASE is # "added"
  <2>1. PICK j \in 1 .. k - 1 : ev[j].is = "added" /\ ev[j].at = ev[k].at
    BY <1>1, <1>3 DEF InOrder, WellFormed
  <2>2. j \in DOMAIN ev
    <3>1. Len(ev) \in Nat /\ DOMAIN ev = 1 .. Len(ev)
      BY InSequence DEF InOrder
    <3> QED
      BY <1>1, <2>1, <3>1
  <2> QED
    BY <1>1, <2>1, <2>2 DEF InOrder, Tells
<1> QED
  BY <1>2, <1>3

\* What an event changes.
Adds(q, ev, e) ==
  /\ \A at : DeltasAt(q, at) = DeltasAt(ev, at) \o Gain(e, at)
  /\ \A is, at : Tells(q, is, at) <=> Tells(ev, is, at) \/ (e.is = is /\ e.at = at)
  /\ ToSet(q) = ToSet(ev) \cup {e}

\* The next item is added.
LEMMA ItemAdded ==
  ASSUME NEW ev, NEW n, InOrder(ev, n), NEW e \in Events, e.is = "added", e.at = n
  PROVE  InOrder(Append(ev, e), n + 1) /\ Adds(Append(ev, e), ev, e)
<1> DEFINE q == Append(ev, e)
<1>1. ev \in Seq(Events) /\ n \in Nat /\ n + 1 \in Nat
  BY DEF InOrder
<1>2. Adds(q, ev, e)
  BY <1>1, DeltasOfMore, TellsMore DEF Adds
<1>3. n \notin 0 .. n - 1
  BY <1>1
<1>4. ~Tells(ev, "done", n)
  <2>1. "done" \in OfItem
    BY DEF OfItem
  <2> QED
    BY <1>3, <2>1, SoundTells
<1>5. Fits(ev, e)
  BY <1>3, <1>4 DEF Fits, InOrder
<1>6. q \in Seq(Events) /\ WellFormed(q)
  BY <1>1, <1>5, Extended DEF InOrder
<1>7. \A at : Tells(q, "added", at) <=> at \in 0 .. (n + 1) - 1
  <2>1. \A at : at \in 0 .. n - 1 \/ at = n <=> at \in 0 .. (n + 1) - 1
    BY <1>1
  <2> QED
    BY <1>2, <2>1 DEF Adds, InOrder
<1>8. \A at : ~Tells(q, "completed", at)
  BY <1>2 DEF Adds, InOrder
<1>9. ASSUME NEW at \in Nat, at >= n + 1 PROVE DeltasAt(q, at) = <<>>
  <2>1. at >= n /\ Gain(e, at) = <<>>
    BY <1>1, <1>9 DEF Gain
  <2>2. DeltasAt(ev, at) = <<>>
    BY <2>1 DEF InOrder
  <2>3. DeltasAt(q, at) = DeltasAt(ev, at) \o <<>>
    BY <1>2, <2>1 DEF Adds
  <2>4. DeltasAt(q, at) = DeltasAt(ev, at)
    BY <1>1, <2>3, DeltasOfMore, ConcatEmptySeq
  <2> QED
    BY <2>2, <2>4
<1> QED
  BY <1>1, <1>2, <1>6, <1>7, <1>8, <1>9 DEF InOrder

\* Something more is told of an item.
LEMMA ItemTold ==
  ASSUME NEW ev, NEW n, InOrder(ev, n), NEW e \in Events,
         e.is \in OfItem \ {"added"}, e.at \in 0 .. n - 1, ~Tells(ev, "done", e.at),
         e.is = "delta" => ~Tells(ev, "text", e.at),
         e.is \in {"text", "done"} =>
            (DeltasAt(ev, e.at) # <<>> \/ e.is = "text" => e.items[1].body = DeltasAt(ev, e.at))
  PROVE  InOrder(Append(ev, e), n) /\ Adds(Append(ev, e), ev, e)
<1> DEFINE q == Append(ev, e)
<1>1. ev \in Seq(Events) /\ n \in Nat
  BY DEF InOrder
<1>2. Adds(q, ev, e)
  BY <1>1, DeltasOfMore, TellsMore DEF Adds
<1>3. e.is # "added" /\ e.is # "completed"
  BY DEF OfItem
<1>4. Tells(ev, "added", e.at)
  BY DEF InOrder
<1>5. Fits(ev, e)
  BY <1>3, <1>4 DEF Fits
<1>6. q \in Seq(Events) /\ WellFormed(q)
  BY <1>1, <1>5, Extended DEF InOrder
<1>7. \A at : Tells(q, "added", at) <=> at \in 0 .. n - 1
  BY <1>2, <1>3 DEF Adds, InOrder
<1>8. \A at : ~Tells(q, "completed", at)
  BY <1>2, <1>3 DEF Adds, InOrder
<1>9. ASSUME NEW at \in Nat, at >= n PROVE DeltasAt(q, at) = <<>>
  <2>1. Gain(e, at) = <<>>
    <3>1. e.at # at
      BY <1>1, <1>9
    <3> QED
      BY <3>1 DEF Gain
  <2>2. DeltasAt(ev, at) = <<>>
    BY <1>9 DEF InOrder
  <2>3. DeltasAt(q, at) = DeltasAt(ev, at) \o <<>>
    BY <1>2, <2>1 DEF Adds
  <2>4. DeltasAt(q, at) = DeltasAt(ev, at)
    BY <1>1, <2>3, DeltasOfMore, ConcatEmptySeq
  <2> QED
    BY <2>2, <2>4
<1> QED
  BY <1>1, <1>2, <1>6, <1>7, <1>8, <1>9 DEF InOrder

\* The stream begins.
LEMMA Started ==
  LET e == Event("created", 0, <<>>) IN
  InOrder(<<e>>, 0) /\ (\A is \in OfItem : \A at : ~Tells(<<e>>, is, at)) /\ <<e>> = Append(<<>>, e)
<1> DEFINE e == Event("created", 0, <<>>)
           none == <<>>
           q == Append(none, e)
<1>1. e \in Events /\ e.is = "created" /\ e.at = 0
  <2>1. "created" \in EventKinds \ {"delta"}
    BY DEF EventKinds
  <2> QED
    BY <2>1, PlainEvent
<1>2. none \in Seq(Events) /\ Len(none) = 0 /\ DOMAIN none = 1 .. 0
  BY EmptySeq
<1> HIDE DEF e
<1>3. <<e>> = q
  OBVIOUS
<1>4. WellFormed(none) /\ (\A is, at : ~Tells(none, is, at)) /\ \A at : DeltasAt(none, at) = <<>>
  <2>1. DOMAIN none = {}
    BY <1>2
  <2>2. \A at : DeltasAt(none, at) = <<>>
    BY <1>2, <2>1 DEF DeltasAt, FlattenSeq
  <2> HIDE DEF none
  <2> QED
    BY <2>1, <2>2 DEF WellFormed, Tells
<1> HIDE DEF none
<1>5. Adds(q, none, e)
  BY <1>1, <1>2, DeltasOfMore, TellsMore DEF Adds
<1>6. Fits(none, e)
  BY <1>1 DEF Fits, OfItem
<1>7. q \in Seq(Events) /\ WellFormed(q)
  BY <1>1, <1>2, <1>4, <1>6, Extended
<1>8. \A is, at : is # "created" => ~Tells(q, is, at)
  BY <1>1, <1>4, <1>5 DEF Adds
<1>9. ASSUME NEW at \in Nat PROVE DeltasAt(q, at) = <<>>
  <2>1. Gain(e, at) = <<>>
    BY <1>1 DEF Gain
  <2>2. DeltasAt(q, at) = <<>> \o <<>>
    BY <1>4, <1>5, <2>1 DEF Adds
  <2> QED
    BY <1>2, <2>2, EmptySeq, ConcatEmptySeq
<1>10. InOrder(q, 0)
  <2>1. \A at : at \notin 0 .. 0 - 1
    OBVIOUS
  <2> QED
    BY <1>7, <1>8, <1>9, <2>1 DEF InOrder
<1>11. \A is \in OfItem : \A at : ~Tells(q, is, at)
  BY <1>8 DEF OfItem
<1> QED
  BY <1>3, <1>10, <1>11 DEF e, none

\* The response is completed once each of its items is done.
LEMMA ItemsCompleted ==
  ASSUME NEW ev, NEW output \in Seq(Items), InOrder(ev, Len(output)),
         \A i \in 1 .. Len(output) : Event("done", i - 1, <<output[i]>>) \in ToSet(ev)
  PROVE  LET c == Event("completed", 0, output)
             e == Event("end", 0, <<>>)
         IN  /\ c \in Events /\ e \in Events
             /\ WellFormed(Append(ev, c)) /\ WellFormed(Append(Append(ev, c), e))
<1> DEFINE c == Event("completed", 0, output)
           e == Event("end", 0, <<>>)
           q == Append(ev, c)
<1>1. c \in Events /\ c.is = "completed" /\ c.items = output
  <2>1. "completed" \in EventKinds
    BY DEF EventKinds
  <2> QED
    BY <2>1, EventIs
<1>2. e \in Events /\ e.is = "end"
  <2>1. "end" \in EventKinds \ {"delta"}
    BY DEF EventKinds
  <2> QED
    BY <2>1, PlainEvent
<1>3. ev \in Seq(Events) /\ WellFormed(ev) /\ DOMAIN output = 1 .. Len(output)
  BY InSequence DEF InOrder
<1>4. \A at : Tells(ev, "added", at) <=> at \in 0 .. Len(output) - 1
  BY DEF InOrder
<1> HIDE DEF c, e
<1>5. Fits(ev, c)
  BY <1>1, <1>3, <1>4 DEF Fits, OfItem
<1>6. q \in Seq(Events) /\ WellFormed(q)
  BY <1>1, <1>3, <1>5, Extended
<1>7. Fits(q, e)
  BY <1>2 DEF Fits, OfItem
<1>8. WellFormed(Append(q, e))
  <2> HIDE DEF q
  <2> QED
    BY <1>2, <1>6, <1>7, Extended
<1> QED
  BY <1>1, <1>2, <1>6, <1>8 DEF c, e

-----------------------------------------------------------------------------
(* What is told of one item.                                               *)

LEMMA FewMore ==
  ASSUME NEW S, NEW s \in Seq(S), NEW a \in S, NEW b \in S, NEW c \in S
  PROVE  /\ s \o <<a>> = Append(s, a)
         /\ s \o <<a, b>> = Append(Append(s, a), b)
         /\ s \o <<a, b, c>> = Append(Append(Append(s, a), b), c)
<1>1. ASSUME NEW t \in Seq(S), NEW u \in Seq(S), NEW x \in S
      PROVE  t \o Append(u, x) = Append(t \o u, x)
  <2>1. Append(u, x) = u \o <<x>> /\ Append(t \o u, x) = (t \o u) \o <<x>> /\ <<x>> \in Seq(S)
    BY AppendIsConcat, ConcatProperties
  <2> QED
    BY <2>1, ConcatAssociative
<1>2. /\ <<a>> \in Seq(S) /\ <<a, b>> \in Seq(S)
      /\ <<a, b>> = Append(<<a>>, b) /\ <<a, b, c>> = Append(<<a, b>>, c)
  OBVIOUS
<1>3. s \o <<a>> = Append(s, a)
  BY AppendIsConcat
<1>4. s \o <<a, b>> = Append(Append(s, a), b)
  BY <1>1, <1>2, <1>3
<1>5. s \o <<a, b, c>> = Append(Append(Append(s, a), b), c)
  BY <1>1, <1>2, <1>4
<1> QED
  BY <1>3, <1>4, <1>5

LEMMA PairOf ==
  ASSUME NEW S, NEW a \in S, NEW b \in S
  PROVE  <<a>> \o <<b>> = <<a, b>> /\ <<a, b>> \in Seq(S)
<1>1. <<a>> \in Seq(S) /\ <<a, b>> \in Seq(S) /\ <<a, b>> = Append(<<a>>, b)
  OBVIOUS
<1>2. <<a>> \o <<b>> = Append(<<a>>, b)
  BY <1>1, AppendIsConcat
<1> QED
  BY <1>1, <1>2

\* The item at an index is done, and nothing else has changed.
Finished(q, ev, at, item) ==
  /\ \A a : DeltasAt(q, a) = DeltasAt(ev, a)
  /\ \A a : Tells(q, "done", a) <=> Tells(ev, "done", a) \/ a = at
  /\ ToSet(ev) \subseteq ToSet(q)
  /\ Event("done", at, <<item>>) \in ToSet(q)

\* An event that is no delta leaves the deltas alone.
LEMMA NoGain ==
  ASSUME NEW ev \in Seq(Events), NEW q, NEW e, Adds(q, ev, e), e.is # "delta"
  PROVE  \A a : DeltasAt(q, a) = DeltasAt(ev, a)
<1> TAKE a
<1>1. DeltasAt(q, a) = DeltasAt(ev, a) \o <<>>
  BY DEF Adds, Gain
<1> QED
  BY <1>1, DeltasOfMore, ConcatEmptySeq

\* The last event of an item.
LEMMA DoneEvent ==
  ASSUME NEW at \in Nat, NEW item \in Items
  PROVE  LET e == Event("done", at, <<item>>) IN
         e \in Events /\ e.is = "done" /\ e.at = at /\ e.items[1] = item
<1>1. "done" \in EventKinds
  BY DEF EventKinds
<1> QED
  BY <1>1, ItemEvent

\* An item that has no deltas, or whose deltas make it up, is done.
LEMMA ItemDone ==
  ASSUME NEW ev, NEW n, InOrder(ev, n), NEW at \in 0 .. n - 1, NEW item \in Items,
         ~Tells(ev, "done", at), DeltasAt(ev, at) # <<>> => item.body = DeltasAt(ev, at)
  PROVE  LET e == Event("done", at, <<item>>) IN
         /\ e \in Events /\ InOrder(Append(ev, e), n)
         /\ Finished(Append(ev, e), ev, at, item)
         /\ \A is, a : is # "done" => (Tells(Append(ev, e), is, a) <=> Tells(ev, is, a))
<1> DEFINE e == Event("done", at, <<item>>)
           q == Append(ev, e)
<1>1. ev \in Seq(Events) /\ at \in Nat
  BY DEF InOrder
<1>2. e \in Events /\ e.is = "done" /\ e.at = at /\ e.items[1] = item
  BY <1>1, DoneEvent
<1> HIDE DEF e
<1>3. "done" \in OfItem \ {"added"}
  BY DEF OfItem
<1>4. InOrder(q, n) /\ Adds(q, ev, e)
  BY <1>2, <1>3, ItemTold
<1>5. \A a : DeltasAt(q, a) = DeltasAt(ev, a)
  BY <1>1, <1>2, <1>4, NoGain
<1>6. Finished(q, ev, at, item)
  BY <1>2, <1>4, <1>5 DEF Finished, Adds, e
<1> QED
  BY <1>2, <1>4, <1>6 DEF Adds, e

\* A message is done: its text, its part and itself.
LEMMA MessageDone ==
  ASSUME NEW ev, NEW n, InOrder(ev, n), NEW at \in 0 .. n - 1, NEW item \in Items,
         ~Tells(ev, "done", at), DeltasAt(ev, at) = item.body
  PROVE  LET t == <<Event("text", at, <<item>>), Event("partdone", at, <<item>>),
                    Event("done", at, <<item>>)>>
         IN  t \in Seq(Events) /\ InOrder(ev \o t, n) /\ Finished(ev \o t, ev, at, item)
<1> DEFINE x == Event("text", at, <<item>>)
           y == Event("partdone", at, <<item>>)
           z == Event("done", at, <<item>>)
           r == Append(ev, x)
           s == Append(r, y)
           q == Append(s, z)
<1>1. ev \in Seq(Events) /\ at \in Nat
  BY DEF InOrder
<1>2. {"text", "partdone"} \subseteq EventKinds /\ {"text", "partdone"} \subseteq OfItem \ {"added"}
  BY DEF EventKinds, OfItem
<1>3. /\ x \in Events /\ x.is = "text" /\ x.at = at /\ x.items[1] = item
      /\ y \in Events /\ y.is = "partdone" /\ y.at = at
  BY <1>1, <1>2, ItemEvent
<1> HIDE DEF x, y
<1>4. InOrder(r, n) /\ Adds(r, ev, x)
  BY <1>2, <1>3, ItemTold
<1>5. \A a : DeltasAt(r, a) = DeltasAt(ev, a)
  BY <1>1, <1>3, <1>4, NoGain
<1>6. ~Tells(r, "done", at)
  BY <1>3, <1>4 DEF Adds
<1> HIDE DEF r
<1>7. InOrder(s, n) /\ Adds(s, r, y)
  BY <1>2, <1>3, <1>4, <1>6, ItemTold
<1>8. \A a : DeltasAt(s, a) = DeltasAt(r, a)
  <2>1. r \in Seq(Events)
    BY <1>4 DEF InOrder
  <2> QED
    BY <1>3, <1>7, <2>1, NoGain
<1>9. ~Tells(s, "done", at)
  BY <1>3, <1>6, <1>7 DEF Adds
<1> HIDE DEF s
<1>10. /\ z \in Events /\ InOrder(q, n) /\ Finished(q, s, at, item)
  BY <1>5, <1>7, <1>8, <1>9, ItemDone
<1>11. Finished(q, ev, at, item)
  BY <1>3, <1>4, <1>5, <1>7, <1>8, <1>10 DEF Finished, Adds
<1>12. ev \o <<x, y, z>> = q /\ <<x, y, z>> \in Seq(Events)
  <2> HIDE DEF z
  <2>1. ev \o <<x, y, z>> = Append(Append(Append(ev, x), y), z)
    BY <1>1, <1>3, <1>10, FewMore
  <2> QED
    BY <1>3, <1>10, <2>1 DEF r, s
<1> QED
  BY <1>10, <1>11, <1>12 DEF x, y

\* A call, or another item that is told at once, is added and done.
LEMMA CallTold ==
  ASSUME NEW ev, NEW n, InOrder(ev, n), NEW item \in Items
  PROVE  LET t == <<Event("added", n, <<item>>), Event("done", n, <<item>>)>> IN
         /\ t \in Seq(Events) /\ InOrder(ev \o t, n + 1)
         /\ ToSet(ev) \subseteq ToSet(ev \o t)
         /\ Event("done", n, <<item>>) \in ToSet(ev \o t)
<1> DEFINE x == Event("added", n, <<item>>)
           z == Event("done", n, <<item>>)
           r == Append(ev, x)
           q == Append(r, z)
<1>1. ev \in Seq(Events) /\ n \in Nat /\ n \in 0 .. (n + 1) - 1 /\ n \notin 0 .. n - 1
  BY DEF InOrder
<1>2. x \in Events /\ x.is = "added" /\ x.at = n
  <2>1. "added" \in EventKinds
    BY DEF EventKinds
  <2> QED
    BY <1>1, <2>1, ItemEvent
<1> HIDE DEF x
<1>3. InOrder(r, n + 1) /\ Adds(r, ev, x)
  BY <1>2, ItemAdded
<1>4. DeltasAt(r, n) = <<>>
  <2>1. DeltasAt(ev, n) = <<>>
    BY <1>1 DEF InOrder
  <2>2. \A a : DeltasAt(r, a) = DeltasAt(ev, a)
    BY <1>1, <1>2, <1>3, NoGain
  <2> QED
    BY <2>1, <2>2
<1>5. ~Tells(r, "done", n)
  <2>1. "done" \in OfItem
    BY DEF OfItem
  <2>2. ~Tells(ev, "done", n)
    BY <1>1, <2>1, SoundTells
  <2> QED
    BY <1>2, <1>3, <2>2 DEF Adds
<1> HIDE DEF r
<1>6. z \in Events /\ InOrder(q, n + 1) /\ Finished(q, r, n, item)
  BY <1>1, <1>3, <1>4, <1>5, ItemDone
<1>7. ev \o <<x, z>> = q /\ <<x, z>> \in Seq(Events)
  <2> HIDE DEF z
  <2>1. ev \o <<x, z>> = Append(Append(ev, x), z)
    BY <1>1, <1>2, <1>6, FewMore
  <2> QED
    BY <1>2, <1>6, <2>1 DEF r
<1>8. ToSet(ev) \subseteq ToSet(q) /\ z \in ToSet(q)
  BY <1>3, <1>6 DEF Adds, Finished
<1> QED
  BY <1>6, <1>7, <1>8 DEF x

\* A message that is replayed: it is added, told as one delta, and done.
LEMMA MessageTold ==
  ASSUME NEW ev, NEW n, InOrder(ev, n), NEW item \in Items
  PROVE  LET t == <<Event("added", n, <<Item("message", <<>>)>>), Event("part", n, <<>>)>>
                     \o (IF item.body # <<>> THEN <<Event("delta", n, <<item>>)>> ELSE <<>>)
                     \o <<Event("text", n, <<item>>), Event("partdone", n, <<item>>),
                          Event("done", n, <<item>>)>>
         IN  /\ t \in Seq(Events) /\ InOrder(ev \o t, n + 1)
             /\ ToSet(ev) \subseteq ToSet(ev \o t)
             /\ Event("done", n, <<item>>) \in ToSet(ev \o t)
<1> DEFINE m == Item("message", <<>>)
           x == Event("added", n, <<m>>)
           p == Event("part", n, <<>>)
           d == Event("delta", n, <<item>>)
           first == <<x, p>>
           second == IF item.body # <<>> THEN <<d>> ELSE <<>>
           third == <<Event("text", n, <<item>>), Event("partdone", n, <<item>>),
                      Event("done", n, <<item>>)>>
           r == Append(ev, x)
           s == Append(r, p)
           u == s \o second
<1>1. ev \in Seq(Events) /\ n \in Nat /\ n \in 0 .. (n + 1) - 1 /\ n \notin 0 .. n - 1
  BY DEF InOrder
<1>2. m \in Items
  BY EmptySeq DEF Item, Items
<1> HIDE DEF m
<1>3. /\ x \in Events /\ x.is = "added" /\ x.at = n
      /\ p \in Events /\ p.is = "part" /\ p.at = n
      /\ d \in Events /\ d.is = "delta" /\ d.at = n /\ d.items[1] = item
  <2>1. "added" \in EventKinds /\ "part" \in EventKinds \ {"delta"} /\ "delta" \in EventKinds
    BY DEF EventKinds
  <2>2. x \in Events /\ x.is = "added" /\ x.at = n
    <3>1. n \in Nat /\ m \in Items
      BY <1>1, <1>2
    <3> QED
      BY <3>1, AddedEvent
  <2>3. p \in Events /\ p.is = "part" /\ p.at = n
    BY <1>1, <2>1, PlainEvent
  <2>4. d \in Events /\ d.is = "delta" /\ d.at = n /\ d.items[1] = item
    BY <1>1, <2>1, ItemEvent
  <2> QED
    BY <2>2, <2>3, <2>4
<1> HIDE DEF x, p, d
<1>4. InOrder(r, n + 1) /\ Adds(r, ev, x)
  BY <1>3, ItemAdded
<1>5. DeltasAt(r, n) = <<>>
  <2>1. DeltasAt(ev, n) = <<>>
    BY <1>1 DEF InOrder
  <2>2. \A a : DeltasAt(r, a) = DeltasAt(ev, a)
    BY <1>1, <1>3, <1>4, NoGain
  <2> QED
    BY <2>1, <2>2
<1>6. ~Tells(r, "done", n) /\ ~Tells(r, "text", n)
  <2>1. {"done", "text"} \subseteq OfItem
    BY DEF OfItem
  <2>2. ~Tells(ev, "done", n) /\ ~Tells(ev, "text", n)
    BY <1>1, <2>1, SoundTells
  <2> QED
    BY <1>3, <1>4, <2>2 DEF Adds
<1> HIDE DEF r
<1>7. InOrder(s, n + 1) /\ Adds(s, r, p)
  <2>1. "part" \in OfItem \ {"added"}
    BY DEF OfItem
  <2> QED
    BY <1>1, <1>3, <1>4, <1>6, <2>1, ItemTold
<1>8. DeltasAt(s, n) = <<>> /\ s \in Seq(Events)
  <2>1. r \in Seq(Events) /\ s \in Seq(Events)
    BY <1>4, <1>7 DEF InOrder
  <2>2. \A a : DeltasAt(s, a) = DeltasAt(r, a)
    BY <1>3, <1>7, <2>1, NoGain
  <2> QED
    BY <1>5, <2>1, <2>2
<1>9. ~Tells(s, "done", n) /\ ~Tells(s, "text", n)
  BY <1>3, <1>6, <1>7 DEF Adds
<1>10. s = ev \o first /\ first \in Seq(Events)
  BY <1>1, <1>3, FewMore DEF s, r
<1>11. ToSet(ev) \subseteq ToSet(s)
  BY <1>4, <1>7 DEF Adds
<1> HIDE DEF s, first
<1>12. /\ second \in Seq(Events) /\ InOrder(u, n + 1) /\ DeltasAt(u, n) = item.body
       /\ ~Tells(u, "done", n) /\ ToSet(ev) \subseteq ToSet(u)
  <2>1. CASE item.body = <<>>
    <3>1. second = <<>> /\ u = s
      BY <1>8, <2>1, ConcatEmptySeq
    <3> QED
      BY <1>7, <1>8, <1>9, <1>11, <2>1, <3>1, EmptySeq
  <2>2. CASE item.body # <<>>
    <3>1. second = <<d>> /\ second \in Seq(Events) /\ u = Append(s, d)
      BY <1>3, <1>8, <2>2, FewMore
    <3>2. "delta" \in OfItem \ {"added"}
      BY DEF OfItem
    <3>3. InOrder(u, n + 1) /\ Adds(u, s, d)
      BY <1>1, <1>3, <1>7, <1>9, <3>1, <3>2, ItemTold
    <3>4. Gain(d, n) = item.body /\ item.body \in Seq(Nat)
      BY <1>3 DEF Gain, Items
    <3>5. DeltasAt(u, n) = <<>> \o item.body
      BY <1>8, <3>3, <3>4 DEF Adds
    <3>6. DeltasAt(u, n) = item.body
      BY <3>4, <3>5, ConcatEmptySeq
    <3> QED
      BY <1>3, <1>9, <1>11, <3>1, <3>3, <3>6 DEF Adds
  <2> QED
    BY <2>1, <2>2
<1> HIDE DEF u
<1>13. third \in Seq(Events) /\ InOrder(u \o third, n + 1) /\ Finished(u \o third, u, n, item)
  BY <1>1, <1>12, MessageDone
<1>14. Event("done", n, <<item>>) \in ToSet(u \o third) /\ ToSet(ev) \subseteq ToSet(u \o third)
  BY <1>12, <1>13 DEF Finished
<1> HIDE DEF second, third
<1>15. /\ first \o second \o third \in Seq(Events)
       /\ ev \o (first \o second \o third) = u \o third
  <2>1. first \o second \in Seq(Events) /\ first \o second \o third \in Seq(Events)
    BY <1>10, <1>12, <1>13, ConcatProperties
  <2> DEFINE both == first \o second
  <2>2. ev \o (both \o third) = (ev \o both) \o third
    <3>1. both \in Seq(Events) /\ third \in Seq(Events)
      BY <1>13, <2>1
    <3> HIDE DEF both
    <3> QED
      BY <1>1, <3>1, ConcatAssociative
  <2>3. ev \o (first \o second) = (ev \o first) \o second
    BY <1>1, <1>10, <1>12, ConcatAssociative
  <2> QED
    BY <1>10, <2>1, <2>2, <2>3 DEF u
<1> QED
  BY <1>13, <1>14, <1>15 DEF first, second, third, x, p, d, m

\* What is said of an item from its addition on.
ToldBy(ev, t, at, item) ==
  /\ InOrder(ev \o t, at + 1)
  /\ ToSet(ev) \subseteq ToSet(ev \o t)
  /\ Event("done", at, <<item>>) \in ToSet(ev \o t)

LEMMA Rejoined ==
  ASSUME NEW s \in Seq(Events), NEW t \in Seq(Events), NEW u \in Seq(Events)
  PROVE  s \o (t \o u) = (s \o t) \o u
BY ConcatAssociative

\* One item is told after the other.
LEMMA AllTold ==
  ASSUME NEW items \in Seq(Items), NEW b \in Nat, NEW ev, InOrder(ev, b),
         NEW T \in Seq(Seq(Events)), Len(T) = Len(items),
         \A i \in 1 .. Len(items) : \A s : InOrder(s, b + i - 1) =>
             ToldBy(s, T[i], b + i - 1, items[i])
  PROVE  LET q == ev \o FlattenSeq(T) IN
         /\ FlattenSeq(T) \in Seq(Events) /\ InOrder(q, b + Len(items))
         /\ ToSet(ev) \subseteq ToSet(q)
         /\ \A i \in 1 .. Len(items) : Event("done", b + i - 1, <<items[i]>>) \in ToSet(q)
<1> DEFINE N == Len(items)
           P(n) == [i \in 1 .. n |-> T[i]]
           Q(n) == ev \o FlattenSeq(P(n))
           Good(n) == /\ InOrder(Q(n), b + n) /\ ToSet(ev) \subseteq ToSet(Q(n))
                      /\ \A i \in 1 .. n : Event("done", b + i - 1, <<items[i]>>) \in ToSet(Q(n))
           G == {n \in Nat : n <= N => Good(n)}
<1>1. /\ N \in Nat /\ ev \in Seq(Events) /\ DOMAIN T = 1 .. N /\ Len(T) = N
      /\ \A i \in 1 .. N : T[i] \in Seq(Events)
  BY InSequence DEF InOrder
<1>2. ASSUME NEW n \in 0 .. N PROVE P(n) \in Seq(Seq(Events)) /\ Len(P(n)) = n
  <2>1. \A i \in 1 .. n : i \in 1 .. N
    BY <1>1
  <2>2. P(n) \in [1 .. n -> Seq(Events)] /\ n \in Nat /\ DOMAIN P(n) = 1 .. n
    BY <1>1, <2>1
  <2>3. P(n) \in Seq(Seq(Events))
    <3> HIDE DEF P
    <3> QED
      BY <2>2, SeqDef
  <2>4. Len(P(n)) \in Nat /\ 1 .. Len(P(n)) = 1 .. n
    <3> HIDE DEF P
    <3> QED
      BY <2>2, <2>3, LenProperties
  <2>5. Len(P(n)) = n
    BY <2>2, <2>4
  <2> QED
    BY <2>3, <2>5
<1>3. ASSUME NEW n \in 0 .. N, n + 1 <= N PROVE P(n + 1) = Append(P(n), T[n + 1])
  <2> DEFINE a == P(n)
             c == P(n + 1)
             x == T[n + 1]
             d == Append(a, x)
  <2>1. n + 1 \in 0 .. N /\ n + 1 \in 1 .. N
    BY <1>1, <1>3
  <2>2. a \in Seq(Seq(Events)) /\ Len(a) = n /\ c \in Seq(Seq(Events)) /\ Len(c) = n + 1
    BY <1>2, <2>1
  <2>3. x \in Seq(Events)
    BY <1>1, <2>1
  <2>4. (\A i \in 1 .. n : c[i] = a[i]) /\ c[n + 1] = x
    <3>1. \A i \in 1 .. n : i \in 1 .. n + 1
      BY <1>1
    <3> QED
      BY <2>1, <3>1
  <2> HIDE DEF a, c, x
  <2>5. d \in Seq(Seq(Events)) /\ Len(d) = n + 1 /\ d[n + 1] = x /\ \A i \in 1 .. n : d[i] = a[i]
    BY <2>2, <2>3, Appended
  <2> HIDE DEF d
  <2>6. \A i \in 1 .. Len(c) : c[i] = d[i]
    <3>1. \A i \in 1 .. n + 1 : i \in 1 .. n \/ i = n + 1
      BY <1>1
    <3> QED
      BY <2>2, <2>4, <2>5, <3>1
  <2>7. c = d
    BY <2>2, <2>5, <2>6, SeqEqual
  <2> QED
    BY <2>7 DEF a, c, d, x
<1>4. 0 \in G
  <2>1. P(0) \in Seq(Seq(Events)) /\ Len(P(0)) = 0
    BY <1>1, <1>2
  <2>2. P(0) = <<>>
    <3> HIDE DEF P
    <3> QED
      BY <2>1, EmptySeq
  <2>3. FlattenSeq(P(0)) = <<>>
    <3> HIDE DEF P
    <3> QED
      BY <2>1, <2>2 DEF FlattenSeq
  <2>4. Q(0) = ev
    BY <1>1, <2>3, ConcatEmptySeq
  <2>5. b + 0 = b /\ \A i : i \notin 1 .. 0
    OBVIOUS
  <2> HIDE DEF Q
  <2> QED
    BY <2>4, <2>5
<1>5. ASSUME NEW n \in Nat, n \in G PROVE n + 1 \in G
  <2> SUFFICES ASSUME n + 1 <= N PROVE Good(n + 1)
    OBVIOUS
  <2> DEFINE m == n + 1
             q == Q(n)
             x == T[m]
             f == FlattenSeq(P(n))
             at == b + n
  <2>1. n \in 0 .. N /\ m \in 1 .. N /\ m \in Nat /\ b + m - 1 = at /\ b + m = at + 1 /\ n <= N
    BY <1>1
  <2>2. Good(n)
    BY <1>5, <2>1
  <2>3. P(n) \in Seq(Seq(Events)) /\ x \in Seq(Events)
    BY <1>1, <1>2, <2>1
  <2>4. f \in Seq(Events) /\ FlattenSeq(Append(P(n), x)) = f \o x
    <3> HIDE DEF P, x
    <3> QED
      BY <2>3, Flattened
  <2>5. FlattenSeq(P(m)) = f \o x
    <3>1. P(m) = Append(P(n), x)
      BY <1>3, <2>1
    <3> HIDE DEF P, x, m
    <3> QED
      BY <2>4, <3>1
  <2>6. Q(m) = q \o x
    <3>1. ev \o (f \o x) = (ev \o f) \o x
      <4>1. ev \in Seq(Events) /\ f \in Seq(Events) /\ x \in Seq(Events)
        BY <1>1, <2>3, <2>4
      <4> HIDE DEF f, x
      <4> QED
        BY <4>1, Rejoined
    <3> HIDE DEF P, x
    <3> QED
      BY <2>5, <3>1
  <2>7. /\ InOrder(q, at) /\ ToSet(ev) \subseteq ToSet(q)
        /\ \A i \in 1 .. n : Event("done", b + i - 1, <<items[i]>>) \in ToSet(q)
    BY <2>2
  <2> HIDE DEF q, Q, P, f
  <2>8. ToldBy(q, x, at, items[m])
    <3> HIDE DEF m, at
    <3>1. InOrder(q, b + m - 1)
      BY <2>1, <2>7
    <3>2. ToldBy(q, T[m], b + m - 1, items[m])
      BY <2>1, <3>1
    <3> QED
      BY <2>1, <3>2
  <2>9. ASSUME NEW i \in 1 .. m PROVE Event("done", b + i - 1, <<items[i]>>) \in ToSet(q \o x)
    <3>1. CASE i = m
      <4> HIDE DEF m, at, x
      <4> QED
        BY <2>1, <2>8, <3>1 DEF ToldBy
    <3>2. CASE i \in 1 .. n
      BY <2>7, <2>8, <3>2 DEF ToldBy
    <3> QED
      BY <2>1, <3>1, <3>2
  <2>10. InOrder(q \o x, b + m) /\ ToSet(ev) \subseteq ToSet(q \o x)
    <3> HIDE DEF m, at, x
    <3> QED
      BY <2>1, <2>7, <2>8 DEF ToldBy
  <2> HIDE DEF m, at, x
  <2>11. Good(m)
    BY <2>6, <2>9, <2>10
  <2> QED
    BY <2>11 DEF m
<1>6. Good(N)
  <2>1. \A n \in Nat : n \in G
    <3> HIDE DEF G
    <3> QED
      BY <1>4, <1>5, Induction
  <2>2. N <= N
    BY <1>1
  <2> HIDE DEF N, Good
  <2> QED
    BY <1>1, <2>1, <2>2
<1>7. P(N) = T
  <2>1. P(N) \in Seq(Seq(Events)) /\ Len(P(N)) = N
    BY <1>1, <1>2
  <2>2. \A i \in 1 .. N : P(N)[i] = T[i]
    BY <1>1
  <2> HIDE DEF P, N
  <2> QED
    BY <1>1, <2>1, <2>2, SeqEqual
<1>8. FlattenSeq(T) \in Seq(Events)
  BY Flattened
<1>9. Q(N) = ev \o FlattenSeq(T)
  <2> HIDE DEF P, N
  <2> QED
    BY <1>7
<1> HIDE DEF Q, N
<1> QED
  BY <1>6, <1>8, <1>9 DEF N

\* What is said of an item consists of events.
LEMMA ToldTypes ==
  ASSUME NEW at \in Nat, NEW item \in Items
  PROVE  /\ <<Event("added", at, <<item>>), Event("done", at, <<item>>)>> \in Seq(Events)
         /\ <<Event("added", at, <<Item("message", <<>>)>>), Event("part", at, <<>>)>>
              \o (IF item.body # <<>> THEN <<Event("delta", at, <<item>>)>> ELSE <<>>)
              \o <<Event("text", at, <<item>>), Event("partdone", at, <<item>>),
                   Event("done", at, <<item>>)>> \in Seq(Events)
<1> DEFINE m == Item("message", <<>>)
           x == Event("added", at, <<m>>)
           p == Event("part", at, <<>>)
           d == Event("delta", at, <<item>>)
           a == Event("added", at, <<item>>)
           t == Event("text", at, <<item>>)
           y == Event("partdone", at, <<item>>)
           z == Event("done", at, <<item>>)
           second == IF item.body # <<>> THEN <<d>> ELSE <<>>
<1>1. m \in Items
  BY EmptySeq DEF Item, Items
<1> HIDE DEF m
<1>2. /\ {"added", "delta", "text", "partdone", "done"} \subseteq EventKinds
      /\ "part" \in EventKinds \ {"delta"}
  BY DEF EventKinds
<1>3. /\ x \in Events /\ p \in Events /\ d \in Events /\ a \in Events
      /\ t \in Events /\ y \in Events /\ z \in Events
  BY <1>1, <1>2, ItemEvent, PlainEvent
<1> HIDE DEF x, p, d, a, t, y, z
<1>4. <<a, z>> \in Seq(Events) /\ <<x, p>> \in Seq(Events) /\ <<t, y, z>> \in Seq(Events)
  BY <1>3
<1>5. second \in Seq(Events)
  BY <1>3, EmptySeq
<1> HIDE DEF second
<1>6. <<x, p>> \o second \o <<t, y, z>> \in Seq(Events)
  BY <1>4, <1>5, ConcatProperties
<1> QED
  BY <1>4, <1>6 DEF x, p, d, a, t, y, z, second, m

\* A response that is replayed is well-formed, whatever its items are.
LEMMA ReplayIsWellFormed ==
  ASSUME NEW output \in Seq(Items)
  PROVE  WellFormed(Replayed(output))
<1> DEFINE N == Len(output)
           Short(i) == <<Event("added", i - 1, <<output[i]>>), Event("done", i - 1, <<output[i]>>)>>
           Long(i) ==
              <<Event("added", i - 1, <<Item("message", <<>>)>>), Event("part", i - 1, <<>>)>>
              \o (IF output[i].body # <<>> THEN <<Event("delta", i - 1, <<output[i]>>)>> ELSE <<>>)
              \o <<Event("text", i - 1, <<output[i]>>), Event("partdone", i - 1, <<output[i]>>),
                   Event("done", i - 1, <<output[i]>>)>>
           Told(i) == IF output[i].type # "message" THEN Short(i) ELSE Long(i)
           T == [i \in DOMAIN output |-> Told(i)]
           c == Event("created", 0, <<>>)
           ev == <<c>>
           last == Event("completed", 0, output)
<1>1. N \in Nat /\ DOMAIN output = 1 .. N /\ \A i \in 1 .. N : output[i] \in Items
  BY InSequence
<1>2. InOrder(ev, 0)
  BY Started
<1>3. ASSUME NEW i \in 1 .. N, NEW s, InOrder(s, i - 1)
      PROVE  Told(i) \in Seq(Events) /\ ToldBy(s, Told(i), i - 1, output[i])
  <2>1. Short(i) \in Seq(Events) /\ ToldBy(s, Short(i), i - 1, output[i])
    BY <1>1, <1>3, CallTold DEF ToldBy
  <2>2. Long(i) \in Seq(Events) /\ ToldBy(s, Long(i), i - 1, output[i])
    BY <1>1, <1>3, MessageTold DEF ToldBy
  <2> HIDE DEF Short, Long
  <2> QED
    BY <2>1, <2>2
<1>4. \A i \in 1 .. N : Told(i) \in Seq(Events)
  <2> TAKE i \in 1 .. N
  <2>1. i - 1 \in Nat /\ output[i] \in Items
    BY <1>1
  <2>2. Short(i) \in Seq(Events) /\ Long(i) \in Seq(Events)
    <3> DEFINE at == i - 1
               item == output[i]
    <3>1. at \in Nat /\ item \in Items
      BY <2>1
    <3> HIDE DEF at, item
    <3>2. /\ <<Event("added", at, <<item>>), Event("done", at, <<item>>)>> \in Seq(Events)
          /\ <<Event("added", at, <<Item("message", <<>>)>>), Event("part", at, <<>>)>>
              \o (IF item.body # <<>> THEN <<Event("delta", at, <<item>>)>> ELSE <<>>)
              \o <<Event("text", at, <<item>>), Event("partdone", at, <<item>>),
                   Event("done", at, <<item>>)>> \in Seq(Events)
      BY <3>1, ToldTypes
    <3> QED
      BY <3>2 DEF at, item
  <2> HIDE DEF Short, Long
  <2> QED
    BY <2>2
<1>5. T \in Seq(Seq(Events)) /\ Len(T) = N /\ \A i \in 1 .. N : T[i] = Told(i)
  <2>1. T \in [1 .. N -> Seq(Events)] /\ DOMAIN T = 1 .. N /\ \A i \in 1 .. N : T[i] = Told(i)
    <3> HIDE DEF Told, N
    <3> QED
      BY <1>1, <1>4
  <2>2. T \in Seq(Seq(Events))
    <3> HIDE DEF T, N
    <3> QED
      BY <1>1, <2>1, SeqDef
  <2>3. Len(T) \in Nat /\ 1 .. Len(T) = 1 .. N
    <3> HIDE DEF T, N
    <3> QED
      BY <2>1, <2>2, LenProperties
  <2>4. Len(T) = N
    <3> HIDE DEF T, N
    <3> QED
      BY <1>1, <2>3
  <2> QED
    BY <2>1, <2>2, <2>4
<1> DEFINE q == ev \o FlattenSeq(T)
<1>6. /\ FlattenSeq(T) \in Seq(Events) /\ InOrder(q, N)
      /\ \A i \in 1 .. N : Event("done", i - 1, <<output[i]>>) \in ToSet(q)
  <2> HIDE DEF Told, T, N, ev
  <2>0. 0 \in Nat /\ Len(output) = N /\ 0 + N = N /\ \A i \in 1 .. N : 0 + i - 1 = i - 1
    BY <1>1 DEF N
  <2>1. \A i \in 1 .. N : \A s : InOrder(s, 0 + i - 1) => ToldBy(s, T[i], 0 + i - 1, output[i])
    BY <1>3, <1>5, <2>0
  <2>2. /\ FlattenSeq(T) \in Seq(Events) /\ InOrder(q, 0 + N)
        /\ \A i \in 1 .. N : Event("done", 0 + i - 1, <<output[i]>>) \in ToSet(q)
    BY <1>2, <1>5, <2>0, <2>1, AllTold
  <2> HIDE DEF q
  <2> QED
    BY <2>0, <2>2
<1>7. last \in Events /\ WellFormed(Append(q, last))
  <2> HIDE DEF q, T
  <2> QED
    BY <1>6, ItemsCompleted
<1>8. Replayed(output) = q \o <<last>>
  BY DEF Replayed
<1>9. q \o <<last>> = Append(q, last)
  <2>1. q \in Seq(Events)
    BY <1>6 DEF InOrder
  <2> HIDE DEF q, last
  <2> QED
    BY <1>7, <2>1, AppendIsConcat
<1> HIDE DEF q, last
<1> QED
  BY <1>7, <1>8, <1>9

-----------------------------------------------------------------------------
(* The answer of a chat provider.                                          *)

Answers == Seq(LineKinds)

\* What the lines hold are sequences of numbers and of items.
LEMMA AnswerTypes ==
  ASSUME NEW l \in Answers
  PROVE  /\ Text(l) \in Seq(Nat) /\ Thought(l) \in Seq(Nat) /\ Visible(l) \in Seq(Nat)
         /\ CallItems(l) \in Seq(Items) /\ ReasoningItems(l) \in Seq(Items)
         /\ StreamOutput(l) \in Seq(Items) /\ ConvertedOutput(l) \in Seq(Items)
         /\ Item("message", Visible(l)) \in Items
<1>1. \A kinds : Fragments(l, kinds) \in Seq(Nat)
  BY OneMoreLine DEF Answers
<1>2. \A type \in {"message", "reasoning", "function_call"}, body \in Seq(Nat) :
         Item(type, body) \in Items
  BY DEF Item, Items
<1>3. Text(l) \in Seq(Nat) /\ Thought(l) \in Seq(Nat)
  BY <1>1 DEF Text, Thought
<1>4. Visible(l) \in Seq(Nat)
  <2>1. <<Notice>> \in Seq(Nat)
    BY DEF Notice
  <2> QED
    BY <1>3, <2>1 DEF Visible
<1>5. Item("message", Visible(l)) \in Items
  BY <1>2, <1>4
<1>6. CallItems(l) \in Seq(Items)
  <2> DEFINE One(mark) == Item("function_call", Fragments(l, {mark}))
             Call(mark) == IF Fragments(l, {mark}) = <<>> THEN <<>> ELSE <<One(mark)>>
  <2>1. \A mark : One(mark) \in Items
    BY <1>1, <1>2
  <2>2. \A mark : Call(mark) \in Seq(Items)
    <3> HIDE DEF One
    <3> QED
      BY <2>1, EmptySeq
  <2>3. CallItems(l) = Call("call1") \o Call("call2")
    BY DEF CallItems
  <2> HIDE DEF Call
  <2> QED
    BY <2>2, <2>3, ConcatProperties
<1>7. ReasoningItems(l) \in Seq(Items)
  <2> DEFINE one == Item("reasoning", Thought(l))
  <2>1. one \in Items
    BY <1>2, <1>3
  <2>2. ReasoningItems(l) = IF Thought(l) = <<>> THEN <<>> ELSE <<one>>
    BY DEF ReasoningItems
  <2> HIDE DEF one
  <2> QED
    BY <2>1, <2>2, EmptySeq
<1> DEFINE m == Item("message", Visible(l))
           R == ReasoningItems(l)
           C == CallItems(l)
           V == IF Visible(l) = <<>> THEN <<>> ELSE <<m>>
<1>8. StreamOutput(l) = <<m>> \o R \o C /\ ConvertedOutput(l) = R \o V \o C
  BY DEF StreamOutput, ConvertedOutput
<1>9. m \in Items /\ R \in Seq(Items) /\ C \in Seq(Items)
  BY <1>5, <1>6, <1>7
<1> HIDE DEF m, R, C
<1>10. <<m>> \in Seq(Items) /\ V \in Seq(Items)
  BY <1>9, EmptySeq
<1> HIDE DEF V
<1>11. <<m>> \o R \in Seq(Items) /\ R \o V \in Seq(Items)
  BY <1>9, <1>10, ConcatProperties
<1>12. <<m>> \o R \o C \in Seq(Items) /\ R \o V \o C \in Seq(Items)
  BY <1>9, <1>11, ConcatProperties
<1> QED
  BY <1>3, <1>4, <1>5, <1>6, <1>7, <1>8, <1>12

\* What a sequence that is put together has.
LEMMA SetJoined ==
  ASSUME NEW S, NEW s \in Seq(S), NEW t \in Seq(S)
  PROVE  s \o t \in Seq(S) /\ ToSet(s \o t) = ToSet(s) \cup ToSet(t)
<1> DEFINE r == s \o t
<1>1. r \in Seq(S) /\ JoinOf(r, s, t)
  BY Joined
<1>2. /\ Len(s) \in Nat /\ DOMAIN s = 1 .. Len(s) /\ Len(t) \in Nat /\ DOMAIN t = 1 .. Len(t)
  BY InSequence
<1> HIDE DEF r
<1>3. ASSUME NEW x \in ToSet(r) PROVE x \in ToSet(s) \cup ToSet(t)
  <2>1. PICK i \in 1 .. Len(s) + Len(t) : x = r[i]
    BY <1>1 DEF ToSet, JoinOf
  <2> QED
    BY <1>1, <1>2, <2>1 DEF ToSet, JoinOf
<1>4. ASSUME NEW x \in ToSet(s) PROVE x \in ToSet(r)
  <2>1. PICK i \in 1 .. Len(s) : x = s[i]
    BY <1>2 DEF ToSet
  <2>2. i \in 1 .. Len(s) + Len(t) /\ r[i] = x
    BY <1>1, <1>2, <2>1 DEF JoinOf
  <2> QED
    BY <1>1, <2>2 DEF ToSet, JoinOf
<1>5. ASSUME NEW x \in ToSet(t) PROVE x \in ToSet(r)
  <2>1. PICK i \in 1 .. Len(t) : x = t[i]
    BY <1>2 DEF ToSet
  <2>2. Len(s) + i \in 1 .. Len(s) + Len(t) /\ r[Len(s) + i] = x
    BY <1>1, <1>2, <2>1 DEF JoinOf
  <2> QED
    BY <1>1, <2>2 DEF ToSet, JoinOf
<1>6. ToSet(r) = ToSet(s) \cup ToSet(t)
  BY <1>3, <1>4, <1>5
<1> QED
  BY <1>1, <1>6 DEF r

\* The response of a stream has the items of the one that is converted whole,
\* but for a message without text.
LEMMA SameSubstance ==
  ASSUME NEW l \in Answers
  PROVE  Substance(StreamOutput(l)) = Substance(ConvertedOutput(l))
<1> DEFINE m == Item("message", Visible(l))
           R == ReasoningItems(l)
           C == CallItems(l)
           V == IF Visible(l) = <<>> THEN <<>> ELSE <<m>>
<1>1. StreamOutput(l) = <<m>> \o R \o C /\ ConvertedOutput(l) = R \o V \o C
  BY DEF StreamOutput, ConvertedOutput
<1>2. m \in Items /\ R \in Seq(Items) /\ C \in Seq(Items) /\ m.body = Visible(l)
  BY AnswerTypes DEF Item
<1> HIDE DEF m, R, C
<1>3. <<m>> \in Seq(Items) /\ ToSet(<<m>>) = {m}
  BY <1>2 DEF ToSet
<1>4. V \in Seq(Items) /\ ToSet(V) = IF m.body = <<>> THEN {} ELSE {m}
  <2>1. CASE m.body = <<>>
    <3>1. V = <<>>
      BY <1>2, <2>1
    <3>2. V \in Seq(Items) /\ DOMAIN V = {}
      BY <3>1, EmptySeq
    <3> QED
      BY <2>1, <3>2 DEF ToSet
  <2>2. CASE m.body # <<>>
    <3>1. V = <<m>>
      BY <1>2, <2>2
    <3> QED
      BY <1>3, <2>2, <3>1
  <2> QED
    BY <2>1, <2>2
<1> HIDE DEF V
<1>5. /\ <<m>> \o R \in Seq(Items) /\ ToSet(<<m>> \o R) = {m} \cup ToSet(R)
      /\ R \o V \in Seq(Items) /\ ToSet(R \o V) = ToSet(R) \cup ToSet(V)
  <2> DEFINE first == <<m>>
  <2>1. first \in Seq(Items) /\ ToSet(first) = {m}
    BY <1>3
  <2> HIDE DEF first
  <2>2. first \o R \in Seq(Items) /\ ToSet(first \o R) = ToSet(first) \cup ToSet(R)
    BY <1>2, <2>1, SetJoined
  <2>3. R \o V \in Seq(Items) /\ ToSet(R \o V) = ToSet(R) \cup ToSet(V)
    BY <1>2, <1>4, SetJoined
  <2> QED
    BY <2>1, <2>2, <2>3 DEF first
<1> DEFINE a == <<m>> \o R
           c == R \o V
<1>6. ToSet(a \o C) = ToSet(a) \cup ToSet(C) /\ ToSet(c \o C) = ToSet(c) \cup ToSet(C)
  <2> HIDE DEF a, c
  <2> SUFFICES a \in Seq(Items) /\ c \in Seq(Items)
    BY <1>2, SetJoined
  <2> QED
    BY <1>5 DEF a, c
<1>7. /\ ToSet(StreamOutput(l)) = {m} \cup ToSet(R) \cup ToSet(C)
      /\ ToSet(ConvertedOutput(l)) = ToSet(R) \cup ToSet(V) \cup ToSet(C)
  BY <1>1, <1>5, <1>6
<1> QED
  BY <1>4, <1>7 DEF Substance

\* A stream in which nothing is done yet.
Open(ev, n) == InOrder(ev, n) /\ \A at : ~Tells(ev, "done", at) /\ ~Tells(ev, "text", at)

LEMMA OpenAdded ==
  ASSUME NEW ev, NEW n, Open(ev, n), NEW item \in Items
  PROVE  LET e == Event("added", n, <<item>>) IN
         /\ e \in Events /\ Open(Append(ev, e), n + 1)
         /\ \A at : DeltasAt(Append(ev, e), at) = DeltasAt(ev, at)
<1> DEFINE e == Event("added", n, <<item>>)
           q == Append(ev, e)
<1>1. InOrder(ev, n) /\ n \in Nat /\ ev \in Seq(Events)
  BY DEF Open, InOrder
<1>2. e \in Events /\ e.is = "added" /\ e.at = n
  <2>1. "added" \in EventKinds
    BY DEF EventKinds
  <2> QED
    BY <1>1, <2>1, ItemEvent
<1> HIDE DEF e
<1>3. InOrder(q, n + 1) /\ Adds(q, ev, e)
  BY <1>1, <1>2, ItemAdded
<1>4. \A at : DeltasAt(q, at) = DeltasAt(ev, at)
  BY <1>1, <1>2, <1>3, NoGain
<1>5. Open(q, n + 1)
  BY <1>2, <1>3 DEF Open, Adds
<1> QED
  BY <1>2, <1>4, <1>5 DEF e

LEMMA OpenPart ==
  ASSUME NEW ev, NEW n, Open(ev, n), NEW at \in 0 .. n - 1
  PROVE  LET e == Event("part", at, <<>>) IN
         /\ e \in Events /\ Open(Append(ev, e), n)
         /\ \A a : DeltasAt(Append(ev, e), a) = DeltasAt(ev, a)
<1> DEFINE e == Event("part", at, <<>>)
           q == Append(ev, e)
<1>1. InOrder(ev, n) /\ at \in Nat /\ ev \in Seq(Events) /\ ~Tells(ev, "done", at)
  BY DEF Open, InOrder
<1>2. e \in Events /\ e.is = "part" /\ e.at = at
  <2>1. "part" \in EventKinds \ {"delta"}
    BY DEF EventKinds
  <2> QED
    BY <1>1, <2>1, PlainEvent
<1> HIDE DEF e
<1>3. InOrder(q, n) /\ Adds(q, ev, e)
  <2>1. "part" \in OfItem \ {"added"}
    BY DEF OfItem
  <2> QED
    BY <1>1, <1>2, <2>1, ItemTold
<1>4. \A a : DeltasAt(q, a) = DeltasAt(ev, a)
  BY <1>1, <1>2, <1>3, NoGain
<1>5. Open(q, n)
  BY <1>2, <1>3 DEF Open, Adds
<1> QED
  BY <1>2, <1>4, <1>5 DEF e

\* The body of an event has joined the deltas of its item.
Gained(q, ev, at, body) ==
  /\ DeltasAt(q, at) = DeltasAt(ev, at) \o body
  /\ \A a : a # at => DeltasAt(q, a) = DeltasAt(ev, a)

LEMMA OpenDelta ==
  ASSUME NEW ev, NEW n, Open(ev, n), NEW at \in 0 .. n - 1, NEW item \in Items
  PROVE  LET e == Event("delta", at, <<item>>) IN
         /\ e \in Events /\ Open(Append(ev, e), n)
         /\ Gained(Append(ev, e), ev, at, item.body)
<1> DEFINE e == Event("delta", at, <<item>>)
           q == Append(ev, e)
<1>1. /\ InOrder(ev, n) /\ at \in Nat /\ ev \in Seq(Events)
      /\ ~Tells(ev, "done", at) /\ ~Tells(ev, "text", at)
  BY DEF Open, InOrder
<1>2. e \in Events /\ e.is = "delta" /\ e.at = at /\ e.items[1] = item
  <2>1. "delta" \in EventKinds
    BY DEF EventKinds
  <2> QED
    BY <1>1, <2>1, ItemEvent
<1> HIDE DEF e
<1>3. InOrder(q, n) /\ Adds(q, ev, e)
  <2>1. "delta" \in OfItem \ {"added"}
    BY DEF OfItem
  <2> QED
    BY <1>1, <1>2, <2>1, ItemTold
<1>4. Gain(e, at) = item.body /\ \A a : a # at => Gain(e, a) = <<>>
  BY <1>2 DEF Gain
<1>5. DeltasAt(q, at) = DeltasAt(ev, at) \o item.body
  BY <1>3, <1>4 DEF Adds
<1>6. ASSUME NEW a, a # at PROVE DeltasAt(q, a) = DeltasAt(ev, a)
  <2>1. DeltasAt(q, a) = DeltasAt(ev, a) \o <<>>
    BY <1>3, <1>4, <1>6 DEF Adds
  <2> QED
    BY <1>1, <2>1, DeltasOfMore, ConcatEmptySeq
<1>7. Open(q, n)
  BY <1>2, <1>3 DEF Open, Adds
<1> QED
  BY <1>2, <1>5, <1>6, <1>7 DEF e, Gained

\* What the stream has told when these lines have come: of a message, whose
\* deltas are the text, and once there is a thought of a reasoning.
Streamed(ev, l) ==
  /\ Open(ev, IF Thought(l) = <<>> THEN 1 ELSE 2)
  /\ DeltasAt(ev, 0) = Text(l) /\ DeltasAt(ev, 1) = Thought(l)

LEMMA OpeningIsStreamed ==
  Streamed(Opening, <<>>)
<1> DEFINE c == Event("created", 0, <<>>)
           m == Item("message", <<>>)
           ev == <<c>>
           a == Event("added", 0, <<m>>)
           p == Event("part", 0, <<>>)
           none == <<>>
<1>1. InOrder(ev, 0) /\ \A is \in OfItem : \A at : ~Tells(ev, is, at)
  BY Started
<1>2. Open(ev, 0)
  BY <1>1 DEF Open, OfItem
<1>3. m \in Items
  BY EmptySeq DEF Item, Items
<1> HIDE DEF m, ev
<1>4. /\ a \in Events /\ Open(Append(ev, a), 0 + 1)
      /\ \A at : DeltasAt(Append(ev, a), at) = DeltasAt(ev, at)
  BY <1>2, <1>3, OpenAdded
<1> DEFINE r == Append(ev, a)
<1>5. Open(r, 1)
  BY <1>4
<1> HIDE DEF a, r
<1>6. /\ p \in Events /\ Open(Append(r, p), 1)
      /\ \A at : DeltasAt(Append(r, p), at) = DeltasAt(r, at)
  <2>1. 0 \in 0 .. 1 - 1
    OBVIOUS
  <2> QED
    BY <1>5, <2>1, OpenPart
<1>7. DeltasAt(ev, 0) = <<>> /\ DeltasAt(ev, 1) = <<>>
  <2>1. 0 \in Nat /\ 1 \in Nat /\ 0 >= 0 /\ 1 >= 0
    OBVIOUS
  <2> QED
    BY <1>1, <2>1 DEF InOrder
<1>8. Text(none) = <<>> /\ Thought(none) = <<>>
  <2>1. \A kinds : Fragments(none, kinds) = <<>>
    <3> TAKE kinds
    <3> DEFINE Is(f) == f = [n \in 0 .. Len(none) |->
                  IF n = 0 THEN <<>>
                  ELSE IF none[n] \in kinds THEN Append(f[n - 1], n) ELSE f[n - 1]]
               g == [n \in 0 .. 0 |-> <<>>]
    <3>1. Fragments(none, kinds) = (CHOOSE f : Is(f))[Len(none)]
      BY DEF Fragments
    <3>2. Len(none) = 0
      OBVIOUS
    <3>3. \E f : Is(f)
      <4>1. Is(g)
        <5>1. \A n \in 0 .. 0 : n = 0
          OBVIOUS
        <5> QED
          BY <3>2, <5>1
      <4> QED
        BY <4>1
    <3>4. PICK f : Is(f) /\ Fragments(none, kinds) = f[Len(none)]
      <4> HIDE DEF Is
      <4> QED
        BY <3>1, <3>3
    <3>5. 0 \in 0 .. Len(none)
      BY <3>2
    <3>6. f[0] = <<>>
      BY <3>4, <3>5
    <3> QED
      BY <3>2, <3>4, <3>6
  <2> HIDE DEF none
  <2> QED
    BY <2>1 DEF Text, Thought
<1>9. Opening = Append(r, p)
  <2>1. <<c, a, p>> = Append(Append(<<c>>, a), p)
    OBVIOUS
  <2>2. Opening = <<c, a, p>>
    BY DEF Opening, a, m
  <2> HIDE DEF c, p
  <2> QED
    BY <2>1, <2>2 DEF r, ev
<1>10. /\ Open(Opening, 1) /\ DeltasAt(Opening, 0) = <<>> /\ DeltasAt(Opening, 1) = <<>>
  BY <1>4, <1>6, <1>7, <1>9 DEF r
<1> QED
  BY <1>8, <1>10 DEF Streamed

\* The events of a line that arrives tell what it adds.
LEMMA ArrivalIsStreamed ==
  ASSUME NEW ev, NEW l \in Answers, NEW x \in LineKinds, Streamed(ev, l)
  PROVE  /\ Arrival(Append(l, x)) \in Seq(Events)
         /\ Streamed(ev \o Arrival(Append(l, x)), Append(l, x))
<1> DEFINE more == Append(l, x)
           n == Len(more)
           thinks == x \in {"think", "both"}
           speaks == x \in {"text", "both"}
           u == Item("reasoning", <<>>)
           v == Item("reasoning", <<n>>)
           w == Item("message", <<n>>)
           a == Event("added", 1, <<u>>)
           d == Event("delta", 1, <<v>>)
           e == Event("delta", 0, <<w>>)
           opened == IF Len(Thought(more)) = 1 THEN <<a>> ELSE <<>>
           first == IF thinks THEN opened \o <<d>> ELSE <<>>
           second == IF speaks THEN <<e>> ELSE <<>>
           N == IF Thought(l) = <<>> THEN 1 ELSE 2
           N2 == IF Thought(more) = <<>> THEN 1 ELSE 2
<1>1. n \in Nat /\ n = Len(l) + 1 /\ more[n] = x /\ more \in Answers
  BY Appended DEF Answers
<1>2. /\ Text(l) \in Seq(Nat) /\ Thought(l) \in Seq(Nat)
      /\ Thought(more) = (IF thinks THEN Append(Thought(l), n) ELSE Thought(l))
      /\ Text(more) = (IF speaks THEN Append(Text(l), n) ELSE Text(l))
  BY <1>1, OneMoreLine DEF Text, Thought, Answers
<1>3. Arrival(more) = first \o second
  BY <1>1 DEF Arrival
<1>4. /\ Open(ev, N) /\ DeltasAt(ev, 0) = Text(l) /\ DeltasAt(ev, 1) = Thought(l)
      /\ ev \in Seq(Events)
  BY DEF Streamed, Open, InOrder
<1>5. /\ u \in Items
      /\ v \in Items /\ v.body = <<n>>
      /\ w \in Items /\ w.body = <<n>>
  <2>1. <<n>> \in Seq(Nat) /\ <<>> \in Seq(Nat)
    BY <1>1, EmptySeq
  <2> QED
    BY <2>1 DEF Item, Items
<1>0. \A s \in Seq(Nat) : Append(s, n) = s \o <<n>>
  BY <1>1, AppendIsConcat
<1> HIDE DEF more, n, u, v, w
<1>6. /\ first \in Seq(Events) /\ Open(ev \o first, N2)
      /\ DeltasAt(ev \o first, 0) = Text(l) /\ DeltasAt(ev \o first, 1) = Thought(more)
  <2>1. CASE ~thinks
    <3>1. first = <<>> /\ Thought(more) = Thought(l) /\ ev \o first = ev
      BY <1>2, <1>4, <2>1, ConcatEmptySeq
    <3> QED
      BY <1>4, <3>1, EmptySeq
  <2>2. CASE thinks /\ Thought(l) = <<>>
    <3> DEFINE r == Append(ev, a)
               q == Append(r, d)
    <3>1. Thought(more) = <<n>> /\ Len(Thought(more)) = 1 /\ N = 1 /\ N2 = 2
      <4>1. Append(<<>>, n) = <<n>> /\ Len(<<n>>) = 1 /\ <<n>> # <<>>
        OBVIOUS
      <4> QED
        BY <1>2, <2>2, <4>1
    <3>2. a \in Events /\ Open(r, 2) /\ \A at : DeltasAt(r, at) = DeltasAt(ev, at)
      <4>1. Open(ev, 1) /\ 1 + 1 = 2
        BY <1>4, <3>1
      <4>2. /\ a \in Events /\ Open(r, 1 + 1)
            /\ \A at : DeltasAt(r, at) = DeltasAt(ev, at)
        BY <1>5, <4>1, OpenAdded
      <4> QED
        BY <4>1, <4>2
    <3> HIDE DEF a, r
    <3>3. d \in Events /\ Open(q, 2) /\ Gained(q, r, 1, <<n>>)
      <4>1. 1 \in 0 .. 2 - 1 /\ Open(r, 2) /\ v \in Items
        BY <1>5, <3>2
      <4>2. d \in Events /\ Open(q, 2) /\ Gained(q, r, 1, v.body)
        BY <4>1, OpenDelta
      <4> QED
        BY <1>5, <4>2
    <3> HIDE DEF d
    <3>4. DeltasAt(q, 1) = <<n>> /\ DeltasAt(q, 0) = Text(l)
      <4>1. DeltasAt(r, 1) = <<>> /\ DeltasAt(r, 0) = Text(l)
        BY <1>4, <2>2, <3>2
      <4>2. <<>> \o <<n>> = <<n>> /\ 0 # 1
        OBVIOUS
      <4> QED
        BY <3>3, <4>1, <4>2 DEF Gained
    <3>5. first = <<a, d>> /\ first \in Seq(Events)
      <4>1. first = <<a>> \o <<d>>
        BY <2>2, <3>1
      <4>2. <<a>> \o <<d>> = <<a, d>> /\ <<a, d>> \in Seq(Events)
        <5>1. a \in Events /\ d \in Events
          BY <3>2, <3>3
        <5> QED
          BY <5>1, PairOf
      <4> QED
        BY <4>1, <4>2
    <3>6. ev \o first = q
      <4>1. a \in Events /\ d \in Events /\ ev \in Seq(Events)
        BY <1>4, <3>2, <3>3
      <4>2. ev \o <<a, d>> = Append(Append(ev, a), d)
        BY <4>1, FewMore
      <4> QED
        BY <3>5, <4>2 DEF r
    <3> HIDE DEF q, first
    <3> QED
      BY <3>1, <3>3, <3>4, <3>5, <3>6
  <2>3. CASE thinks /\ Thought(l) # <<>>
    <3> DEFINE q == Append(ev, d)
    <3>1. Thought(more) = Append(Thought(l), n) /\ Len(Thought(more)) # 1 /\ N = 2 /\ N2 = 2
      <4>1. Thought(more) = Append(Thought(l), n) /\ Thought(more) # <<>>
        BY <1>1, <1>2, <2>3, AppendProperties
      <4>2. Len(Thought(more)) = Len(Thought(l)) + 1 /\ Len(Thought(l)) \in Nat \ {0}
        BY <1>1, <1>2, <2>3, <4>1, AppendProperties, EmptySeq
      <4> QED
        BY <2>3, <4>1, <4>2
    <3>2. d \in Events /\ Open(q, 2) /\ Gained(q, ev, 1, <<n>>)
      <4>1. 1 \in 0 .. 2 - 1 /\ Open(ev, 2) /\ v \in Items
        BY <1>4, <1>5, <3>1
      <4>2. d \in Events /\ Open(q, 2) /\ Gained(q, ev, 1, v.body)
        BY <4>1, OpenDelta
      <4> QED
        BY <1>5, <4>2
    <3> HIDE DEF d
    <3>3. DeltasAt(q, 1) = Thought(more) /\ DeltasAt(q, 0) = Text(l)
      <4>1. Append(Thought(l), n) = Thought(l) \o <<n>> /\ 0 # 1
        BY <1>0, <1>2
      <4> QED
        BY <1>4, <3>1, <3>2, <4>1 DEF Gained
    <3>4. first = <<d>> /\ first \in Seq(Events)
      <4>1. first = <<>> \o <<d>>
        BY <2>3, <3>1
      <4>2. <<>> \o <<d>> = <<d>> /\ <<d>> \in Seq(Events)
        BY <3>2
      <4> QED
        BY <4>1, <4>2
    <3>5. ev \o first = q
      BY <1>4, <3>2, <3>4, AppendIsConcat
    <3> HIDE DEF q, first
    <3> QED
      BY <3>1, <3>2, <3>3, <3>4, <3>5
  <2> QED
    BY <2>1, <2>2, <2>3
<1> DEFINE ev1 == ev \o first
<1>7. ev1 \in Seq(Events) /\ Open(ev1, N2) /\ DeltasAt(ev1, 0) = Text(l) /\ DeltasAt(ev1, 1) = Thought(more)
  BY <1>6 DEF Open, InOrder
<1> HIDE DEF ev1, first
<1>8. /\ second \in Seq(Events) /\ Open(ev1 \o second, N2)
      /\ DeltasAt(ev1 \o second, 0) = Text(more)
      /\ DeltasAt(ev1 \o second, 1) = Thought(more)
  <2>1. CASE ~speaks
    <3>1. second = <<>> /\ Text(more) = Text(l) /\ ev1 \o second = ev1
      BY <1>2, <1>7, <2>1, ConcatEmptySeq
    <3> QED
      BY <1>7, <3>1, EmptySeq
  <2>2. CASE speaks
    <3> DEFINE q == Append(ev1, e)
    <3>1. e \in Events /\ Open(q, N2) /\ Gained(q, ev1, 0, <<n>>)
      <4>1. 0 \in 0 .. N2 - 1
        OBVIOUS
      <4> HIDE DEF N2
      <4>2. Open(ev1, N2) /\ w \in Items
        BY <1>5, <1>7
      <4>3. e \in Events /\ Open(q, N2) /\ Gained(q, ev1, 0, w.body)
        BY <4>1, <4>2, OpenDelta
      <4> QED
        BY <1>5, <4>3
    <3> HIDE DEF e
    <3>2. DeltasAt(q, 0) = Text(more) /\ DeltasAt(q, 1) = Thought(more)
      <4>1. Append(Text(l), n) = Text(l) \o <<n>> /\ 1 # 0
        BY <1>0, <1>2
      <4> QED
        BY <1>2, <1>7, <2>2, <3>1, <4>1 DEF Gained
    <3>3. second = <<e>> /\ second \in Seq(Events)
      BY <2>2, <3>1
    <3>4. ev1 \o second = q
      BY <1>7, <3>1, <3>3, AppendIsConcat
    <3> HIDE DEF q, second
    <3> QED
      BY <3>1, <3>2, <3>3, <3>4
  <2> QED
    BY <2>1, <2>2
<1> HIDE DEF second
<1>9. first \o second \in Seq(Events) /\ ev \o (first \o second) = ev1 \o second
  <2>1. first \o second \in Seq(Events)
    BY <1>6, <1>8, ConcatProperties
  <2> QED
    BY <1>4, <1>6, <1>8, <2>1, Rejoined DEF ev1
<1>10. Streamed(ev \o Arrival(more), more)
  BY <1>3, <1>8, <1>9 DEF Streamed
<1> QED
  BY <1>3, <1>9, <1>10 DEF more

\* The three parts of the response of a stream, place by place.
LEMMA OutputPlaces ==
  ASSUME NEW m \in Items, NEW R \in Seq(Items), NEW C \in Seq(Items)
  PROVE  LET output == <<m>> \o R \o C IN
         /\ output \in Seq(Items) /\ Len(output) = 1 + Len(R) + Len(C)
         /\ output[1] = m
         /\ \A i \in 1 .. Len(R) : output[1 + i] = R[i]
         /\ \A i \in 1 .. Len(C) : output[1 + Len(R) + i] = C[i]
         /\ \A i \in 1 .. Len(output) :
               \/ i = 1
               \/ \E j \in 1 .. Len(R) : i = 1 + j
               \/ \E j \in 1 .. Len(C) : i = 1 + Len(R) + j
<1> DEFINE first == <<m>>
           a == first \o R
           o == a \o C
<1>1. first \in Seq(Items) /\ Len(first) = 1 /\ first[1] = m
  OBVIOUS
<1>2. Len(R) \in Nat /\ Len(C) \in Nat
  BY InSequence
<1> HIDE DEF first
<1>3. a \in Seq(Items) /\ JoinOf(a, first, R)
  BY <1>1, Joined
<1> HIDE DEF a
<1>4. o \in Seq(Items) /\ JoinOf(o, a, C)
  BY <1>3, Joined
<1> HIDE DEF o
<1>5. Len(a) = 1 + Len(R) /\ Len(o) = 1 + Len(R) + Len(C)
  BY <1>1, <1>3, <1>4 DEF JoinOf
<1>6. o[1] = m
  <2>1. 1 \in 1 .. Len(first) /\ 1 \in 1 .. Len(a)
    BY <1>1, <1>2, <1>5
  <2> QED
    BY <1>1, <1>3, <1>4, <2>1 DEF JoinOf
<1>7. ASSUME NEW i \in 1 .. Len(R) PROVE o[1 + i] = R[i]
  <2>1. 1 + i \in 1 .. Len(a)
    BY <1>2, <1>5
  <2>2. a[1 + i] = R[i]
    BY <1>1, <1>3 DEF JoinOf
  <2> QED
    BY <1>4, <2>1, <2>2 DEF JoinOf
<1>8. ASSUME NEW i \in 1 .. Len(C) PROVE o[1 + Len(R) + i] = C[i]
  BY <1>4, <1>5 DEF JoinOf
<1>9. ASSUME NEW i \in 1 .. Len(o), i # 1, \A j \in 1 .. Len(R) : i # 1 + j
      PROVE  \E j \in 1 .. Len(C) : i = 1 + Len(R) + j
  <2>1. i \notin 1 .. 1 + Len(R)
    <3> SUFFICES ASSUME i \in 1 .. 1 + Len(R) PROVE FALSE
      OBVIOUS
    <3>1. i - 1 \in 1 .. Len(R) /\ i = 1 + (i - 1)
      BY <1>2, <1>9
    <3> QED
      BY <1>9, <3>1
  <2>2. i - (1 + Len(R)) \in 1 .. Len(C) /\ i = 1 + Len(R) + (i - (1 + Len(R)))
    BY <1>2, <1>5, <2>1
  <2> QED
    BY <2>2
<1> QED
  BY <1>4, <1>5, <1>6, <1>7, <1>8, <1>9 DEF o, a, first

\* The calls are told one after the other, each at its index.
LEMMA CallsTold ==
  ASSUME NEW C \in Seq(Items), NEW b \in Nat, NEW ev, InOrder(ev, b)
  PROVE  LET f == FlattenSeq([i \in DOMAIN C |->
                     <<Event("added", b + i - 1, <<C[i]>>), Event("done", b + i - 1, <<C[i]>>)>>])
         IN  /\ f \in Seq(Events) /\ InOrder(ev \o f, b + Len(C))
             /\ ToSet(ev) \subseteq ToSet(ev \o f)
             /\ \A i \in 1 .. Len(C) : Event("done", b + i - 1, <<C[i]>>) \in ToSet(ev \o f)
<1> DEFINE N == Len(C)
           Told(i) == <<Event("added", b + i - 1, <<C[i]>>), Event("done", b + i - 1, <<C[i]>>)>>
           T == [i \in DOMAIN C |-> Told(i)]
<1>1. N \in Nat /\ DOMAIN C = 1 .. N /\ \A i \in 1 .. N : C[i] \in Items
  BY InSequence
<1>2. ASSUME NEW i \in 1 .. N PROVE Told(i) \in Seq(Events)
  <2> DEFINE at == b + i - 1
             item == C[i]
  <2>1. at \in Nat /\ item \in Items
    BY <1>1
  <2> HIDE DEF at, item
  <2>2. <<Event("added", at, <<item>>), Event("done", at, <<item>>)>> \in Seq(Events)
    BY <2>1, ToldTypes
  <2> QED
    BY <2>2 DEF at, item
<1>3. ASSUME NEW i \in 1 .. N, NEW s, InOrder(s, b + i - 1)
      PROVE  ToldBy(s, Told(i), b + i - 1, C[i])
  <2> DEFINE at == b + i - 1
             item == C[i]
  <2>1. item \in Items /\ InOrder(s, at)
    BY <1>1, <1>3
  <2> HIDE DEF at, item
  <2>2. ToldBy(s, <<Event("added", at, <<item>>), Event("done", at, <<item>>)>>, at, item)
    BY <2>1, CallTold DEF ToldBy
  <2> QED
    BY <2>2 DEF at, item
<1>4. T \in Seq(Seq(Events)) /\ Len(T) = N /\ \A i \in 1 .. N : T[i] = Told(i)
  <2>1. T \in [1 .. N -> Seq(Events)] /\ DOMAIN T = 1 .. N /\ \A i \in 1 .. N : T[i] = Told(i)
    <3> HIDE DEF Told, N
    <3> QED
      BY <1>1, <1>2
  <2>2. T \in Seq(Seq(Events))
    <3> HIDE DEF T, N
    <3> QED
      BY <1>1, <2>1, SeqDef
  <2>3. Len(T) \in Nat /\ 1 .. Len(T) = 1 .. N
    <3> HIDE DEF T, N
    <3> QED
      BY <2>1, <2>2, LenProperties
  <2>4. Len(T) = N
    <3> HIDE DEF T, N
    <3> QED
      BY <1>1, <2>3
  <2> QED
    BY <2>1, <2>2, <2>4
<1>5. \A i \in 1 .. N : \A s : InOrder(s, b + i - 1) => ToldBy(s, T[i], b + i - 1, C[i])
  <2> HIDE DEF Told, T, N
  <2> QED
    BY <1>3, <1>4
<1> HIDE DEF Told, T
<1>6. /\ FlattenSeq(T) \in Seq(Events) /\ InOrder(ev \o FlattenSeq(T), b + N)
      /\ ToSet(ev) \subseteq ToSet(ev \o FlattenSeq(T))
      /\ \A i \in 1 .. N : Event("done", b + i - 1, <<C[i]>>) \in ToSet(ev \o FlattenSeq(T))
  BY <1>4, <1>5, AllTold
<1> QED
  BY <1>6 DEF T, Told

\* The stream ends with each item done and the response completed.
LEMMA ClosingIsWhole ==
  ASSUME NEW ev, NEW l \in Answers, Streamed(ev, l)
  PROVE  LET q == ev \o Closing(l) IN
         /\ Closing(l) \in Seq(Events) /\ q \in Seq(Events) /\ WellFormed(q)
         /\ Last(q).is = "end" /\ q[Len(q) - 1].items = StreamOutput(l)
<1> DEFINE m == Item("message", Visible(l))
           think == Item("reasoning", Thought(l))
           R == ReasoningItems(l)
           C == CallItems(l)
           output == StreamOutput(l)
           d == Event("delta", 0, <<m>>)
           A == IF Visible(l) # Text(l) THEN <<d>> ELSE <<>>
           B == <<Event("text", 0, <<m>>), Event("partdone", 0, <<m>>), Event("done", 0, <<m>>)>>
           z == Event("done", 1, <<think>>)
           D == IF R # <<>> THEN <<z>> ELSE <<>>
           F == FlattenSeq([i \in DOMAIN C |->
                   <<Event("added", Len(R) + i, <<C[i]>>), Event("done", Len(R) + i, <<C[i]>>)>>])
           c == Event("completed", 0, output)
           e == Event("end", 0, <<>>)
           N == IF Thought(l) = <<>> THEN 1 ELSE 2
<1>1. /\ m \in Items /\ m.body = Visible(l) /\ think \in Items /\ think.body = Thought(l)
      /\ C \in Seq(Items) /\ R \in Seq(Items) /\ output = <<m>> \o R \o C
      /\ Visible(l) \in Seq(Nat) /\ Text(l) \in Seq(Nat)
  BY AnswerTypes DEF Item, Items, StreamOutput
<1>2. /\ R = (IF Thought(l) = <<>> THEN <<>> ELSE <<think>>)
      /\ Len(R) = N - 1 /\ N \in 1 .. 2
  BY DEF ReasoningItems
<1>3. /\ output \in Seq(Items) /\ Len(output) = 1 + Len(R) + Len(C) /\ output[1] = m
      /\ \A i \in 1 .. Len(R) : output[1 + i] = R[i]
      /\ \A i \in 1 .. Len(C) : output[1 + Len(R) + i] = C[i]
      /\ \A i \in 1 .. Len(output) :
               \/ i = 1
               \/ \E j \in 1 .. Len(R) : i = 1 + j
               \/ \E j \in 1 .. Len(C) : i = 1 + Len(R) + j
  <2> HIDE DEF m, R, C, output
  <2> QED
    BY <1>1, OutputPlaces
<1>4. Closing(l) = A \o B \o D \o F \o <<c, e>>
  <2>1. <<output[1]>> = <<m>>
    BY <1>3
  <2>2. (IF R # <<>> THEN <<Event("done", 1, R)>> ELSE <<>>) = D
    BY <1>2
  <2> QED
    BY <2>1, <2>2 DEF Closing
<1>5. /\ Open(ev, N) /\ DeltasAt(ev, 0) = Text(l) /\ DeltasAt(ev, 1) = Thought(l)
      /\ ev \in Seq(Events)
  BY DEF Streamed, Open, InOrder
<1>6. Visible(l) # Text(l) => Text(l) = <<>>
  BY DEF Visible
<1> HIDE DEF m, think, R, C, output, N
<1> DEFINE ev1 == ev \o A
<1>7. /\ A \in Seq(Events) /\ Open(ev1, N) /\ DeltasAt(ev1, 0) = m.body
      /\ DeltasAt(ev1, 1) = Thought(l)
  <2>1. CASE Visible(l) = Text(l)
    <3>1. A = <<>> /\ ev1 = ev
      BY <1>5, <2>1, ConcatEmptySeq
    <3> QED
      BY <1>1, <1>5, <2>1, <3>1, EmptySeq
  <2>2. CASE Visible(l) # Text(l)
    <3>1. d \in Events /\ Open(Append(ev, d), N) /\ Gained(Append(ev, d), ev, 0, m.body)
      <4>1. 0 \in 0 .. N - 1 /\ m \in Items
        BY <1>1, <1>2
      <4> QED
        BY <1>5, <4>1, OpenDelta
    <3> HIDE DEF d
    <3>2. A = <<d>> /\ <<d>> \in Seq(Events)
      BY <2>2, <3>1
    <3>3. ev1 = Append(ev, d)
      BY <1>5, <3>1, <3>2, AppendIsConcat
    <3>4. DeltasAt(ev1, 0) = <<>> \o Visible(l) /\ DeltasAt(ev1, 1) = Thought(l)
      <4>1. 1 # 0
        OBVIOUS
      <4> QED
        BY <1>1, <1>5, <1>6, <2>2, <3>1, <3>3, <4>1 DEF Gained
    <3>5. <<>> \o Visible(l) = Visible(l)
      BY <1>1, ConcatEmptySeq
    <3> QED
      BY <1>1, <3>1, <3>2, <3>3, <3>4, <3>5
  <2> QED
    BY <2>1, <2>2
<1> HIDE DEF A, ev1
<1> DEFINE ev2 == ev1 \o B
<1>8. B \in Seq(Events) /\ InOrder(ev2, N) /\ Finished(ev2, ev1, 0, m)
  <2>1. InOrder(ev1, N) /\ ~Tells(ev1, "done", 0) /\ 0 \in 0 .. N - 1 /\ m \in Items
    BY <1>1, <1>2, <1>7 DEF Open
  <2> QED
    BY <1>7, <2>1, MessageDone
<1> DEFINE first == Event("done", 0, <<m>>)
<1>9. /\ DeltasAt(ev2, 1) = Thought(l) /\ ~Tells(ev2, "done", 1) /\ first \in ToSet(ev2)
  <2>1. 1 # 0
    OBVIOUS
  <2> QED
    BY <1>7, <1>8, <2>1 DEF Finished, Open
<1> HIDE DEF B, ev2, first
<1> DEFINE ev3 == ev2 \o D
<1>10. /\ D \in Seq(Events) /\ InOrder(ev3, N) /\ first \in ToSet(ev3)
       /\ R # <<>> => z \in ToSet(ev3)
  <2>1. ev2 \in Seq(Events)
    BY <1>8 DEF InOrder
  <2>2. CASE R = <<>>
    <3>1. D = <<>> /\ ev3 = ev2
      BY <2>1, <2>2, ConcatEmptySeq
    <3> QED
      BY <1>8, <1>9, <2>2, <3>1, EmptySeq
  <2>3. CASE R # <<>>
    <3>1. Thought(l) # <<>> /\ N = 2 /\ 1 \in 0 .. N - 1
      BY <1>2, <2>3 DEF N
    <3>2. z \in Events /\ InOrder(Append(ev2, z), N) /\ Finished(Append(ev2, z), ev2, 1, think)
      <4>1. think \in Items /\ (DeltasAt(ev2, 1) # <<>> => think.body = DeltasAt(ev2, 1))
        BY <1>1, <1>9
      <4> QED
        BY <1>8, <1>9, <3>1, <4>1, ItemDone
    <3>3. z \in ToSet(Append(ev2, z)) /\ first \in ToSet(Append(ev2, z))
      BY <1>9, <3>2 DEF Finished
    <3> HIDE DEF z
    <3>4. D = <<z>> /\ <<z>> \in Seq(Events)
      BY <2>3, <3>2
    <3>5. ev3 = Append(ev2, z)
      BY <2>1, <3>2, <3>4, AppendIsConcat
    <3> QED
      BY <3>2, <3>3, <3>4, <3>5
  <2> QED
    BY <2>2, <2>3
<1> HIDE DEF D, ev3
<1> DEFINE ev4 == ev3 \o F
<1>11. /\ F \in Seq(Events) /\ InOrder(ev4, N + Len(C)) /\ ToSet(ev3) \subseteq ToSet(ev4)
       /\ \A i \in 1 .. Len(C) : Event("done", Len(R) + i, <<C[i]>>) \in ToSet(ev4)
  <2> DEFINE G == FlattenSeq([i \in DOMAIN C |->
                     <<Event("added", N + i - 1, <<C[i]>>), Event("done", N + i - 1, <<C[i]>>)>>])
  <2>1. Len(C) \in Nat /\ DOMAIN C = 1 .. Len(C) /\ N \in Nat
    BY <1>1, <1>2, InSequence
  <2>2. \A i \in 1 .. Len(C) : N + i - 1 = Len(R) + i
    BY <1>2, <2>1
  <2>3. /\ G \in Seq(Events) /\ InOrder(ev3 \o G, N + Len(C))
        /\ ToSet(ev3) \subseteq ToSet(ev3 \o G)
        /\ \A i \in 1 .. Len(C) : Event("done", N + i - 1, <<C[i]>>) \in ToSet(ev3 \o G)
    BY <1>1, <1>10, <2>1, CallsTold
  <2>4. F = G
    BY <2>1, <2>2
  <2> HIDE DEF F, G
  <2> QED
    BY <2>2, <2>3, <2>4
<1> HIDE DEF F, ev4
<1>12. InOrder(ev4, Len(output)) /\ \A i \in 1 .. Len(output) : Event("done", i - 1, <<output[i]>>) \in ToSet(ev4)
  <2>1. Len(C) \in Nat /\ Len(R) \in Nat /\ N + Len(C) = Len(output)
    <3>1. Len(C) \in Nat /\ Len(R) \in Nat
      BY <1>1, InSequence
    <3> QED
      BY <1>2, <1>3, <3>1
  <2>2. ASSUME NEW i \in 1 .. Len(output) PROVE Event("done", i - 1, <<output[i]>>) \in ToSet(ev4)
    <3>1. CASE i = 1
      <4>1. i - 1 = 0 /\ output[i] = m
        BY <1>3, <3>1
      <4> QED
        BY <1>10, <1>11, <4>1 DEF first
    <3>2. ASSUME NEW j \in 1 .. Len(R), i = 1 + j PROVE Event("done", i - 1, <<output[i]>>) \in ToSet(ev4)
      <4>1. j = 1 /\ i - 1 = 1 /\ R # <<>>
        BY <1>2, <2>1, <3>2
      <4>2. R[1] = think
        BY <1>2, <4>1
      <4>3. output[i] = think
        BY <1>3, <3>2, <4>1, <4>2
      <4> QED
        BY <1>10, <1>11, <4>1, <4>3
    <3>3. ASSUME NEW j \in 1 .. Len(C), i = 1 + Len(R) + j
          PROVE  Event("done", i - 1, <<output[i]>>) \in ToSet(ev4)
      <4>1. i - 1 = Len(R) + j /\ output[i] = C[j]
        BY <1>3, <2>1, <3>3
      <4> QED
        BY <1>11, <4>1
    <3> QED
      BY <1>3, <3>1, <3>2, <3>3
  <2> QED
    BY <1>11, <2>1, <2>2
<1> DEFINE r == Append(ev4, c)
           q == Append(r, e)
<1>13. c \in Events /\ e \in Events /\ WellFormed(q)
  BY <1>3, <1>12, ItemsCompleted
<1>14. e.is = "end" /\ c.items = output
  BY DEF Event
<1> HIDE DEF c, e
<1>15. /\ ev4 \in Seq(Events) /\ q \in Seq(Events) /\ Len(q) = Len(ev4) + 2 /\ Len(ev4) \in Nat
       /\ q[Len(ev4) + 2] = e /\ q[Len(ev4) + 1] = c
  <2>1. ev4 \in Seq(Events)
    BY <1>12 DEF InOrder
  <2>2. /\ r \in Seq(Events) /\ Len(r) = Len(ev4) + 1 /\ r[Len(ev4) + 1] = c /\ Len(ev4) \in Nat
    BY <1>13, <2>1, Appended
  <2> HIDE DEF r
  <2>3. /\ q \in Seq(Events) /\ Len(q) = Len(r) + 1 /\ q[Len(r) + 1] = e
        /\ \A i \in 1 .. Len(r) : q[i] = r[i]
    BY <1>13, <2>2, Appended
  <2>4. Len(ev4) + 1 \in 1 .. Len(r) /\ Len(r) + 1 = Len(ev4) + 2
    BY <2>2
  <2> HIDE DEF q
  <2> QED
    BY <2>1, <2>2, <2>3, <2>4
<1>16. Last(q).is = "end" /\ q[Len(q) - 1].items = output
  <2>1. Len(q) - 1 = Len(ev4) + 1
    BY <1>15
  <2> HIDE DEF q
  <2> QED
    BY <1>14, <1>15, <2>1 DEF Last
<1>17. /\ Closing(l) \in Seq(Events) /\ ev \o Closing(l) = q
  <2>1. <<c, e>> \in Seq(Events)
    BY <1>13, PairOf
  <2>2. /\ A \o B \in Seq(Events) /\ A \o B \o D \in Seq(Events)
        /\ A \o B \o D \o F \in Seq(Events) /\ A \o B \o D \o F \o <<c, e>> \in Seq(Events)
    BY <1>7, <1>8, <1>10, <1>11, <2>1, ConcatProperties
  <2> DEFINE end == <<c, e>>
             AB == A \o B
             ABD == AB \o D
             ABDF == ABD \o F
  <2>3. /\ AB \in Seq(Events) /\ ABD \in Seq(Events) /\ ABDF \in Seq(Events) /\ end \in Seq(Events)
    BY <2>1, <2>2
  <2>4. ev \o AB = ev2
    BY <1>5, <1>7, <1>8, Rejoined DEF ev1, ev2
  <2> HIDE DEF AB
  <2>5. ev \o ABD = ev3
    BY <1>5, <1>10, <2>3, <2>4, Rejoined DEF ev3
  <2> HIDE DEF ABD
  <2>6. ev \o ABDF = ev4
    BY <1>5, <1>11, <2>3, <2>5, Rejoined DEF ev4
  <2> HIDE DEF ABDF
  <2>7. ev \o (ABDF \o end) = ev4 \o end
    BY <1>5, <2>3, <2>6, Rejoined
  <2>8. ev4 \o end = q
    BY <1>13, <1>15, FewMore
  <2>9. Closing(l) = ABDF \o end
    BY <1>4 DEF ABDF, ABD, AB
  <2> HIDE DEF end, q
  <2>10. ABDF \o end \in Seq(Events)
    BY <2>3, ConcatProperties
  <2> QED
    BY <2>7, <2>8, <2>9, <2>10
<1> HIDE DEF q
<1> QED
  BY <1>13, <1>15, <1>16, <1>17 DEF output

-----------------------------------------------------------------------------
(* Requests.                                                               *)

Steps == {"idle", "preview", "received", "asked", "retry", "reading", "done"}
Before == {"idle", "preview", "received"}
Waiting == {"asked", "retry"}
Statuses == {"auth", "bad", "busy", "refused", "ok"}

\* A response that is passed through: an event for each line.
Passed(ev, l) ==
  /\ ev \in Seq(Events) /\ Len(ev) = Len(l)
  /\ \A i \in 1 .. Len(l) : ev[i] = Event("chunk", 0, <<Item("raw", <<i>>)>>)

\* A stream of a chat provider that was not broken off.
Ended(ev, l) == Last(ev).is = "end" /\ ev[Len(ev) - 1].items = StreamOutput(l)

\* A request at a step: what it asked for, whom it was sent to, what came back
\* and what it was told.
GoodRequest(step, k, a, t, l, h, o, w, p, d) ==
  /\ step # "idle" => a \in Providers
  /\ step \in Before => t = Nothing
  /\ step \in Waiting \cup {"reading"} => t \in Providers
  /\ t # Nothing => FamilyOf[t] = FamilyOf[a]
  /\ step \in Before \cup Waiting => h = <<>> /\ l = <<>> /\ o = <<>>
  /\ step = "done" => h # <<>>
  /\ step = "reading" =>
        /\ h = IF k \in {"stream", "test"} \/ (k = "whole" /\ WireOf[t] # "chat")
               THEN <<"ok">> ELSE <<>>
        /\ k \notin {"stream", "test"} => o = <<>>
        /\ k \in {"stream", "test"} =>
              IF WireOf[t] = "chat" THEN Streamed(o, l) ELSE Passed(o, l)
  /\ WellFormed(o)
  /\ step = "done" /\ h = <<"ok">> /\ k \in {"stream", "test"} =>
        IF WireOf[t] = "chat" THEN Ended(o, l) ELSE Passed(o, l)
  /\ k = "test" /\ (step \in Waiting \cup {"received", "reading"}
                       \/ (step = "done" /\ h = <<"ok">>)) =>
        (d <=> Warned(PolicyOf[FamilyOf[a]], w))
  /\ step \in Waiting \cup {"reading"} \/ (step = "done" /\ h = <<"ok">>) =>
        p = Applied(PolicyOf[FamilyOf[a]], w)

RequestInv(r) ==
  GoodRequest(pc[r], kind[r], asked[r], target[r], lines[r], heads[r], out[r],
              wanted[r], passed[r], warned[r])

RouterTypes ==
  /\ configured \subseteq Providers /\ secrets \subseteq Providers
  /\ {token, env, held} \subseteq 0 .. MaxRotations /\ rotating \in BOOLEAN
  /\ pc \in [Requests -> Steps]
  /\ kind \in [Requests -> RequestKinds]
  /\ asked \in [Requests -> Providers \cup {Nothing}]
  /\ target \in [Requests -> Providers \cup {Nothing}]
  /\ tries \in [Requests -> 0 .. MaxRetries]
  /\ lines \in [Requests -> Answers]
  /\ heads \in [Requests -> Seq(Statuses)]
  /\ out \in [Requests -> Seq(Events)]
  /\ wanted \in [Requests -> Temperatures \cup {Nothing}]
  /\ passed \in [Requests -> Int \cup {Nothing}]
  /\ warned \in [Requests -> BOOLEAN]

RouterInv == RouterTypes /\ \A r \in Requests : RequestInv(r)

-----------------------------------------------------------------------------
\* Warnings tell which temperatures are not sent as they are set.
LEMMA WarnedWhenChanged ==
  ASSUME NEW policy, NEW value \in Temperatures \cup {Nothing}
  PROVE  /\ Warned(policy, value) <=> Applied(policy, value) # value
         /\ Applied(policy, value) \in Int \cup {Nothing}
         /\ Warned(policy, value) \in BOOLEAN
<1>1. CASE value = Nothing
  BY <1>1 DEF Warned, Applied
<1>2. CASE value # Nothing
  <2>1. value \in Int
    BY <1>2, RouterAssumption
  <2>2. CASE policy = "qwen_omit_zero_clamp_1"
    BY <1>2, <2>1, <2>2 DEF Warned, Applied, Clamped
  <2>3. CASE policy = "kimi_only_temperature_1"
    BY <1>2, <2>1, <2>3 DEF Warned, Applied, Clamped
  <2>4. CASE policy # "qwen_omit_zero_clamp_1" /\ policy # "kimi_only_temperature_1"
    BY <1>2, <2>1, <2>4 DEF Warned, Applied, Clamped
  <2> QED
    BY <2>2, <2>3, <2>4
<1> QED
  BY <1>1, <1>2

\* Events that tell of no item break no rule.
LEMMA Mute ==
  ASSUME NEW ev, \A k \in DOMAIN ev : ev[k].is \notin OfItem \cup {"completed"}
  PROVE  WellFormed(ev)
BY DEF WellFormed, OfItem

LEMMA NothingIsWellFormed ==
  WellFormed(<<>>)
<1> DEFINE none == <<>>
<1>1. DOMAIN none = {}
  OBVIOUS
<1> HIDE DEF none
<1>2. WellFormed(none)
  BY <1>1, Mute
<1> QED
  BY <1>2 DEF none

LEMMA PassedIsWellFormed ==
  ASSUME NEW ev, NEW l \in Answers, Passed(ev, l)
  PROVE  WellFormed(ev)
<1>1. DOMAIN ev = 1 .. Len(l)
  BY InSequence DEF Passed
<1>2. \A k \in DOMAIN ev : ev[k].is = "chunk"
  <2> TAKE k \in DOMAIN ev
  <2> DEFINE items == <<Item("raw", <<k>>)>>
  <2>1. ev[k] = Event("chunk", 0, items)
    BY <1>1 DEF Passed
  <2> HIDE DEF items
  <2> QED
    BY <2>1 DEF Event
<1>3. "chunk" \notin OfItem \cup {"completed"}
  BY DEF OfItem
<1> QED
  BY <1>2, <1>3, Mute

LEMMA NothingIsPassed ==
  Passed(<<>>, <<>>)
BY EmptySeq DEF Passed

\* A line more is an event more.
LEMMA PassedMore ==
  ASSUME NEW ev, NEW l \in Answers, NEW x \in LineKinds, Passed(ev, l)
  PROVE  LET more == Append(l, x)
             q == ev \o <<Event("chunk", 0, <<Item("raw", <<Len(more)>>)>>)>>
         IN  more \in Answers /\ q \in Seq(Events) /\ Passed(q, more)
<1> DEFINE more == Append(l, x)
           n == Len(more)
           u == Item("raw", <<n>>)
           e == Event("chunk", 0, <<u>>)
           q == Append(ev, e)
<1>1. more \in Answers /\ n = Len(l) + 1 /\ Len(l) \in Nat
  BY Appended DEF Answers
<1> HIDE DEF more, n
<1>2. u \in Items
  <2>1. <<n>> \in Seq(Nat)
    BY <1>1
  <2> QED
    BY <2>1 DEF Item, Items
<1>3. e \in Events
  <2>1. "chunk" \in EventKinds
    BY DEF EventKinds
  <2> HIDE DEF u
  <2> QED
    BY <1>2, <2>1, ItemEvent
<1> HIDE DEF e
<1>4. /\ q \in Seq(Events) /\ Len(q) = n /\ q[n] = e
      /\ \A i \in 1 .. Len(l) : q[i] = ev[i]
  <2>1. ev \in Seq(Events) /\ Len(ev) = Len(l)
    BY DEF Passed
  <2> QED
    BY <1>1, <1>3, <2>1, Appended
<1>5. ev \o <<e>> = q
  <2>1. ev \in Seq(Events)
    BY DEF Passed
  <2> QED
    BY <1>3, <2>1, AppendIsConcat
<1> HIDE DEF q
<1>6. \A i \in 1 .. n : q[i] = Event("chunk", 0, <<Item("raw", <<i>>)>>)
  <2> TAKE i \in 1 .. n
  <2>1. CASE i \in 1 .. Len(l)
    BY <1>4, <2>1 DEF Passed
  <2>2. CASE i = n
    BY <1>4, <2>2 DEF e, u
  <2> QED
    BY <1>1, <2>1, <2>2
<1>7. Passed(q, more)
  BY <1>4, <1>6 DEF Passed, n
<1> QED
  BY <1>1, <1>4, <1>5, <1>7 DEF more, e, n, u

\* A provider that a request is sent to is of the family it asked for.
LEMMA RoutesAre ==
  ASSUME configured \subseteq Providers, NEW p \in Providers, NEW q \in Routes(p)
  PROVE  q \in Providers /\ q # Nothing /\ FamilyOf[q] = FamilyOf[p]
BY RouterAssumption DEF Routes

\* Another request is as it was.
LEMMA Others ==
  ASSUME NEW r, RequestInv(r),
         pc'[r] = pc[r], kind'[r] = kind[r], asked'[r] = asked[r], target'[r] = target[r],
         lines'[r] = lines[r], heads'[r] = heads[r], out'[r] = out[r],
         wanted'[r] = wanted[r], passed'[r] = passed[r], warned'[r] = warned[r]
  PROVE  RequestInv(r)'
BY DEF RequestInv

-----------------------------------------------------------------------------
(* The steps of a request.                                                 *)

\* A request that goes to a step.
LEMMA GotoIs ==
  ASSUME RouterTypes, NEW r \in Requests, NEW step \in Steps, Goto(r, step)
  PROVE  /\ pc' \in [Requests -> Steps] /\ pc'[r] = step
         /\ \A s \in Requests : s # r => pc'[s] = pc[s]
BY DEF Goto, RouterTypes

\* The invariant after a step of request r.
LEMMA StepOf ==
  ASSUME RouterInv, RouterTypes', NEW r \in Requests, RequestInv(r)',
         \A s \in Requests : s # r =>
             /\ pc'[s] = pc[s] /\ kind'[s] = kind[s] /\ asked'[s] = asked[s]
             /\ target'[s] = target[s] /\ lines'[s] = lines[s] /\ heads'[s] = heads[s]
             /\ out'[s] = out[s] /\ wanted'[s] = wanted[s] /\ passed'[s] = passed[s]
             /\ warned'[s] = warned[s]
  PROVE  RouterInv'
<1>1. ASSUME NEW s \in Requests PROVE RequestInv(s)'
  <2>1. CASE s = r
    BY <2>1
  <2>2. CASE s # r
    <3>1. RequestInv(s)
      BY DEF RouterInv
    <3> QED
      BY <2>2, <3>1, Others
  <2> QED
    BY <2>1, <2>2
<1> QED
  BY <1>1 DEF RouterInv

LEMMA InitIsSound ==
  RouterInit => RouterInv
<1> SUFFICES ASSUME RouterInit PROVE RouterInv
  OBVIOUS
<1>1. <<>> \in Answers /\ <<>> \in Seq(Statuses) /\ <<>> \in Seq(Events)
  BY EmptySeq DEF Answers
<1>2. 0 \in 0 .. MaxRotations /\ 0 \in 0 .. MaxRetries
  BY RouterAssumption
<1>3. RouterTypes
  BY <1>1, <1>2 DEF RouterInit, RouterTypes, Steps, RequestKinds
<1>4. ASSUME NEW r \in Requests PROVE RequestInv(r)
  <2>1. /\ pc[r] = "idle" /\ kind[r] = "stream" /\ target[r] = Nothing
        /\ lines[r] = <<>> /\ heads[r] = <<>> /\ out[r] = <<>>
    BY DEF RouterInit
  <2> QED
    BY <2>1, NothingIsWellFormed DEF RequestInv, GoodRequest, Before, Waiting
<1> QED
  BY <1>3, <1>4 DEF RouterInv

\* Settings and tokens are no part of a request.
LEMMA SettingsStep ==
  ASSUME RouterInv, Configure \/ Rotate \/ RotateEnv \/ LaunchClient
  PROVE  RouterInv'
<1>1. UNCHANGED <<pc, request, upstream, answer>>
  BY DEF Configure, Rotate, RotateEnv, LaunchClient
<1>2. /\ UNCHANGED pc /\ UNCHANGED kind /\ UNCHANGED asked /\ UNCHANGED wanted
      /\ UNCHANGED warned /\ UNCHANGED target /\ UNCHANGED tries /\ UNCHANGED passed
      /\ UNCHANGED lines /\ UNCHANGED heads /\ UNCHANGED out
  BY <1>1 DEF request, upstream, answer
<1>3. /\ (configured \subseteq Providers /\ secrets \subseteq Providers)'
      /\ ({token, env, held} \subseteq 0 .. MaxRotations /\ rotating \in BOOLEAN)'
  <2>1. /\ configured \subseteq Providers /\ secrets \subseteq Providers
        /\ token \in 0 .. MaxRotations /\ env \in 0 .. MaxRotations /\ held \in 0 .. MaxRotations
        /\ rotating \in BOOLEAN /\ MaxRotations \in Nat
    BY RouterAssumption DEF RouterInv, RouterTypes
  <2>2. CASE Configure
    <3>1. PICK s \in Settings : configured' = s.configured /\ secrets' = s.secrets
      BY <2>2 DEF Configure
    <3>2. s.configured \subseteq Providers /\ s.secrets \subseteq Providers
      BY RouterAssumption
    <3> QED
      BY <2>1, <2>2, <3>1, <3>2 DEF Configure, tokens
  <2>3. CASE Rotate
    BY <2>1, <2>3 DEF Rotate, settings
  <2>4. CASE RotateEnv
    BY <2>1, <2>4 DEF RotateEnv, settings
  <2>5. CASE LaunchClient
    BY <2>1, <2>5 DEF LaunchClient, settings
  <2> QED
    BY <2>2, <2>3, <2>4, <2>5
<1>4. RouterTypes'
  BY <1>2, <1>3 DEF RouterInv, RouterTypes
<1>5. ASSUME NEW r \in Requests PROVE RequestInv(r)'
  <2>1. RequestInv(r)
    BY DEF RouterInv
  <2> QED
    BY <1>2, <2>1, Others
<1> QED
  BY <1>4, <1>5 DEF RouterInv

LEMMA ReceiveStep ==
  ASSUME RouterInv, NEW r \in Requests, NEW k \in RequestKinds, NEW p \in Providers,
         NEW t \in Temperatures \cup {Nothing}, Receive(r, k, p, t)
  PROVE  RouterInv'
<1>0. RouterTypes /\ RequestInv(r) /\ pc[r] = "idle"
  BY DEF RouterInv, Receive, At
<1>1. /\ UNCHANGED configured /\ UNCHANGED secrets
      /\ UNCHANGED <<token, env, rotating, held>>
      /\ UNCHANGED warned /\ UNCHANGED target /\ UNCHANGED tries /\ UNCHANGED passed
      /\ UNCHANGED lines /\ UNCHANGED out
  BY DEF Receive, settings, tokens, upstream
<1>2. kind' = Set(kind, r, k) /\ asked' = Set(asked, r, p) /\ wanted' = Set(wanted, r, t)
  BY DEF Receive
<1>3. PICK step \in {"preview", "received", "done"}, h \in Seq(Statuses) :
         /\ Goto(r, step) /\ heads' = Set(heads, r, h)
         /\ step = "done" => h = <<"auth">>
         /\ step # "done" => h = <<>>
         /\ k = "test" => step = "preview"
  <2>1. <<"auth">> \in Seq(Statuses)
    BY DEF Statuses
  <2>2. heads[r] = <<>> /\ heads[r] \in Seq(Statuses) /\ heads = Set(heads, r, heads[r])
    BY <1>0 DEF RequestInv, GoodRequest, Before, RouterTypes, Set
  <2>3. CASE k \in {"stream", "whole"} /\ held # token
    BY <2>1, <2>3 DEF Receive
  <2>4. CASE ~(k \in {"stream", "whole"} /\ held # token)
    <3>1. heads' = heads /\ Goto(r, IF k = "test" THEN "preview" ELSE "received")
      BY <2>4 DEF Receive
    <3> QED
      BY <2>2, <3>1
  <2> QED
    BY <2>3, <2>4
<1>4. /\ pc' \in [Requests -> Steps] /\ pc'[r] = step
      /\ \A s \in Requests : s # r => pc'[s] = pc[s]
  BY <1>0, <1>3, GotoIs DEF Steps
<1>5. /\ kind' \in [Requests -> RequestKinds] /\ asked' \in [Requests -> Providers \cup {Nothing}]
      /\ wanted' \in [Requests -> Temperatures \cup {Nothing}]
      /\ heads' \in [Requests -> Seq(Statuses)]
      /\ kind'[r] = k /\ asked'[r] = p /\ wanted'[r] = t /\ heads'[r] = h
      /\ \A s \in Requests : s # r => /\ kind'[s] = kind[s] /\ asked'[s] = asked[s]
                                      /\ wanted'[s] = wanted[s] /\ heads'[s] = heads[s]
  <2>1. /\ kind \in [Requests -> RequestKinds]
        /\ asked \in [Requests -> Providers \cup {Nothing}]
        /\ wanted \in [Requests -> Temperatures \cup {Nothing}]
        /\ heads \in [Requests -> Seq(Statuses)]
    BY <1>0 DEF RouterTypes
  <2>2. /\ kind' \in [Requests -> RequestKinds] /\ kind'[r] = k
        /\ \A s \in Requests : s # r => kind'[s] = kind[s]
    BY <1>2, <2>1 DEF Set
  <2>3. /\ asked' \in [Requests -> Providers \cup {Nothing}] /\ asked'[r] = p
        /\ \A s \in Requests : s # r => asked'[s] = asked[s]
    <3>1. p \in Providers \cup {Nothing}
      OBVIOUS
    <3> QED
      BY <1>2, <2>1, <3>1 DEF Set
  <2>4. /\ wanted' \in [Requests -> Temperatures \cup {Nothing}] /\ wanted'[r] = t
        /\ \A s \in Requests : s # r => wanted'[s] = wanted[s]
    BY <1>2, <2>1 DEF Set
  <2>5. /\ heads' \in [Requests -> Seq(Statuses)] /\ heads'[r] = h
        /\ \A s \in Requests : s # r => heads'[s] = heads[s]
    BY <1>3, <2>1 DEF Set
  <2> QED
    BY <2>2, <2>3, <2>4, <2>5
<1>6. RouterTypes'
  BY <1>0, <1>1, <1>4, <1>5 DEF RouterTypes
<1>7. RequestInv(r)'
  <2>1. target[r] = Nothing /\ lines[r] = <<>> /\ out[r] = <<>> /\ WellFormed(out[r])
    BY <1>0 DEF RequestInv, GoodRequest, Before
  <2>2. h # <<"ok">> /\ (step = "done" => h # <<>>)
    <3>1. <<"auth">> # <<"ok">> /\ <<"auth">> # <<>> /\ <<>> # <<"ok">>
      OBVIOUS
    <3> QED
      BY <1>3, <3>1
  <2>3. GoodRequest(step, k, p, Nothing, <<>>, h, <<>>, t, passed[r], warned[r])
    BY <1>3, <2>1, <2>2 DEF GoodRequest, Before, Waiting
  <2> QED
    BY <1>1, <1>4, <1>5, <2>1, <2>3 DEF RequestInv
<1> QED
  BY <1>1, <1>4, <1>5, <1>6, <1>7, StepOf

LEMMA PreviewStep ==
  ASSUME RouterInv, NEW r \in Requests, Preview(r)
  PROVE  RouterInv'
<1>0. RouterTypes /\ RequestInv(r) /\ pc[r] = "preview"
  BY DEF RouterInv, Preview, At
<1>1. /\ UNCHANGED <<configured, secrets, token, env, rotating, held>>
      /\ UNCHANGED <<kind, asked, wanted, target, tries, passed, lines, heads, out>>
  BY DEF Preview, settings, tokens, upstream, answer
<1>2. PICK q \in Routes(asked[r]) : warned' = Set(warned, r, Warned(PolicyOf[FamilyOf[q]], wanted[r]))
  BY DEF Preview
<1> DEFINE d == Warned(PolicyOf[FamilyOf[q]], wanted[r])
<1>3. asked[r] \in Providers /\ FamilyOf[q] = FamilyOf[asked[r]]
  <2>1. asked[r] \in Providers
    BY <1>0 DEF RequestInv, GoodRequest
  <2> QED
    BY <1>0, <2>1, RoutesAre DEF RouterTypes
<1>4. d \in BOOLEAN
  <2>1. wanted[r] \in Temperatures \cup {Nothing}
    BY <1>0 DEF RouterTypes
  <2> QED
    BY <2>1, WarnedWhenChanged
<1> HIDE DEF d
<1>5. /\ warned' \in [Requests -> BOOLEAN] /\ warned'[r] = d
      /\ \A s \in Requests : s # r => warned'[s] = warned[s]
  <2>1. warned \in [Requests -> BOOLEAN]
    BY <1>0 DEF RouterTypes
  <2>2. d \in BOOLEAN /\ warned' = Set(warned, r, d)
    BY <1>2, <1>4 DEF d
  <2> QED
    BY <2>1, <2>2 DEF Set
<1>6. /\ pc' \in [Requests -> Steps] /\ pc'[r] = "received"
      /\ \A s \in Requests : s # r => pc'[s] = pc[s]
  BY <1>0, GotoIs DEF Steps, Preview
<1>7. RouterTypes'
  BY <1>0, <1>1, <1>5, <1>6 DEF RouterTypes
<1>8. RequestInv(r)'
  <2>1. GoodRequest("received", kind[r], asked[r], target[r], lines[r], heads[r], out[r],
                    wanted[r], passed[r], d)
    BY <1>0, <1>3 DEF RequestInv, GoodRequest, Before, Waiting, d
  <2> QED
    BY <1>1, <1>5, <1>6, <2>1 DEF RequestInv
<1> QED
  BY <1>1, <1>5, <1>6, <1>7, <1>8, StepOf

LEMMA ResolveProviderStep ==
  ASSUME RouterInv, NEW r \in Requests, ResolveProvider(r)
  PROVE  RouterInv'
<1>0. RouterTypes /\ RequestInv(r) /\ pc[r] = "received"
  BY DEF RouterInv, ResolveProvider, At
<1>1. /\ UNCHANGED <<configured, secrets, token, env, rotating, held>>
      /\ UNCHANGED <<kind, asked, wanted, warned, tries, lines, heads, out>>
  BY DEF ResolveProvider, settings, tokens, request, answer
<1>2. PICK q \in Routes(asked[r]) :
         /\ target' = Set(target, r, q)
         /\ passed' = Set(passed, r, Applied(PolicyOf[FamilyOf[q]], wanted[r]))
  BY DEF ResolveProvider
<1> DEFINE p == Applied(PolicyOf[FamilyOf[q]], wanted[r])
<1>3. /\ asked[r] \in Providers /\ q \in Providers /\ q # Nothing
      /\ FamilyOf[q] = FamilyOf[asked[r]]
  <2>1. asked[r] \in Providers
    BY <1>0 DEF RequestInv, GoodRequest
  <2> QED
    BY <1>0, <2>1, RoutesAre DEF RouterTypes
<1>4. p \in Int \cup {Nothing}
  <2>1. wanted[r] \in Temperatures \cup {Nothing}
    BY <1>0 DEF RouterTypes
  <2> QED
    BY <2>1, WarnedWhenChanged
<1> HIDE DEF p
<1>5. /\ target' \in [Requests -> Providers \cup {Nothing}] /\ target'[r] = q
      /\ \A s \in Requests : s # r => target'[s] = target[s]
  <2>1. target \in [Requests -> Providers \cup {Nothing}]
    BY <1>0 DEF RouterTypes
  <2>2. q \in Providers \cup {Nothing} /\ target' = Set(target, r, q)
    BY <1>2, <1>3
  <2> QED
    BY <2>1, <2>2 DEF Set
<1>6. /\ passed' \in [Requests -> Int \cup {Nothing}] /\ passed'[r] = p
      /\ \A s \in Requests : s # r => passed'[s] = passed[s]
  <2>1. passed \in [Requests -> Int \cup {Nothing}]
    BY <1>0 DEF RouterTypes
  <2>2. p \in Int \cup {Nothing} /\ passed' = Set(passed, r, p)
    BY <1>2, <1>4 DEF p
  <2> QED
    BY <2>1, <2>2 DEF Set
<1>7. /\ pc' \in [Requests -> Steps] /\ pc'[r] = "asked"
      /\ \A s \in Requests : s # r => pc'[s] = pc[s]
  BY <1>0, GotoIs DEF Steps, ResolveProvider
<1>8. RouterTypes'
  BY <1>0, <1>1, <1>5, <1>6, <1>7 DEF RouterTypes
<1>9. RequestInv(r)'
  <2>1. GoodRequest("asked", kind[r], asked[r], q, lines[r], heads[r], out[r],
                    wanted[r], p, warned[r])
    BY <1>0, <1>3 DEF RequestInv, GoodRequest, Before, Waiting, p
  <2> QED
    BY <1>1, <1>5, <1>6, <1>7, <2>1 DEF RequestInv
<1> QED
  BY <1>1, <1>5, <1>6, <1>7, <1>8, <1>9, StepOf

LEMMA RetryStep ==
  ASSUME RouterInv, NEW r \in Requests, Retry(r)
  PROVE  RouterInv'
<1>0. RouterTypes /\ RequestInv(r) /\ pc[r] = "retry"
  BY DEF RouterInv, Retry, At
<1>1. /\ UNCHANGED <<configured, secrets, token, env, rotating, held>>
      /\ UNCHANGED <<kind, asked, wanted, warned, target, tries, passed, lines, heads, out>>
  BY DEF Retry, settings, tokens, request, upstream, answer
<1>2. /\ pc' \in [Requests -> Steps] /\ pc'[r] = "asked"
      /\ \A s \in Requests : s # r => pc'[s] = pc[s]
  BY <1>0, GotoIs DEF Steps, Retry
<1>3. RouterTypes'
  BY <1>0, <1>1, <1>2 DEF RouterTypes
<1>4. RequestInv(r)'
  <2>1. GoodRequest("asked", kind[r], asked[r], target[r], lines[r], heads[r], out[r],
                    wanted[r], passed[r], warned[r])
    BY <1>0 DEF RequestInv, GoodRequest, Before, Waiting
  <2> QED
    BY <1>1, <1>2, <2>1 DEF RequestInv
<1> QED
  BY <1>1, <1>2, <1>3, <1>4, StepOf

\* A status more is not the one status of an answer that is complete.
LEMMA StatusMore ==
  ASSUME NEW h \in Seq(Statuses), NEW status \in Statuses \ {"ok"}
  PROVE  LET q == Append(h, status) IN
         /\ q \in Seq(Statuses) /\ q # <<>> /\ q # <<"ok">>
         /\ Last(q) = status /\ Len(q) = Len(h) + 1 /\ Len(h) \in Nat
<1> DEFINE q == Append(h, status)
           ok == <<"ok">>
<1>1. /\ q \in Seq(Statuses) /\ Len(q) = Len(h) + 1 /\ Len(h) \in Nat
      /\ q[Len(h) + 1] = status
  BY Appended
<1>2. q # <<>>
  BY AppendProperties
<1>3. ok \in Seq(Statuses) /\ Len(ok) = 1 /\ ok[1] = "ok"
  BY DEF Statuses
<1> HIDE DEF q, ok
<1>4. q # ok
  <2> SUFFICES ASSUME q = ok PROVE FALSE
    OBVIOUS
  <2>1. Len(h) + 1 = 1
    BY <1>1, <1>3
  <2> QED
    BY <1>1, <1>3, <2>1
<1> QED
  BY <1>1, <1>2, <1>4 DEF q, ok, Last

LEMMA FailStep ==
  ASSUME RouterInv, NEW r \in Requests, Fail(r)
  PROVE  RouterInv'
<1>0. RouterTypes /\ RequestInv(r) /\ pc[r] \notin {"idle", "done"}
  BY DEF RouterInv, Fail
<1>1. /\ UNCHANGED <<configured, secrets, token, env, rotating, held>>
      /\ UNCHANGED <<kind, asked, wanted, warned, target, tries, passed, lines, out>>
  BY DEF Fail, settings, tokens, request, upstream
<1> DEFINE h == Append(heads[r], "bad")
<1>2. heads' = Set(heads, r, h) /\ h \in Seq(Statuses) /\ h # <<>> /\ h # <<"ok">>
  <2>1. heads[r] \in Seq(Statuses) /\ "bad" \in Statuses \ {"ok"}
    BY <1>0 DEF RouterTypes, Statuses
  <2> QED
    BY <2>1, StatusMore DEF Fail
<1> HIDE DEF h
<1>3. /\ heads' \in [Requests -> Seq(Statuses)] /\ heads'[r] = h
      /\ \A s \in Requests : s # r => heads'[s] = heads[s]
  <2>1. heads \in [Requests -> Seq(Statuses)]
    BY <1>0 DEF RouterTypes
  <2>2. h \in Seq(Statuses) /\ heads' = Set(heads, r, h)
    BY <1>2
  <2> QED
    BY <2>1, <2>2 DEF Set
<1>4. /\ pc' \in [Requests -> Steps] /\ pc'[r] = "done"
      /\ \A s \in Requests : s # r => pc'[s] = pc[s]
  BY <1>0, GotoIs DEF Steps, Fail
<1>5. RouterTypes'
  BY <1>0, <1>1, <1>3, <1>4 DEF RouterTypes
<1>6. RequestInv(r)'
  <2>1. GoodRequest("done", kind[r], asked[r], target[r], lines[r], h, out[r],
                    wanted[r], passed[r], warned[r])
    BY <1>0, <1>2 DEF RequestInv, GoodRequest, Before, Waiting
  <2> QED
    BY <1>1, <1>3, <1>4, <2>1 DEF RequestInv
<1> QED
  BY <1>1, <1>3, <1>4, <1>5, <1>6, StepOf

LEMMA RefuseStep ==
  ASSUME RouterInv, NEW r \in Requests, NEW status \in {"busy", "refused"}, Refuse(r, status)
  PROVE  RouterInv'
<1>0. RouterTypes /\ RequestInv(r) /\ pc[r] = "asked"
  BY DEF RouterInv, Refuse, At
<1>1. /\ UNCHANGED <<configured, secrets, token, env, rotating, held>>
      /\ UNCHANGED <<kind, asked, wanted, warned, target, passed, lines, out>>
  BY DEF Refuse, settings, tokens, request
<1>2. PICK step \in {"retry", "done"}, h \in Seq(Statuses), n \in 0 .. MaxRetries :
         /\ Goto(r, step) /\ heads' = Set(heads, r, h) /\ tries' = Set(tries, r, n)
         /\ step = "done" => h # <<>> /\ h # <<"ok">>
         /\ step = "retry" => h = <<>>
  <2>1. heads[r] = <<>> /\ heads[r] \in Seq(Statuses) /\ heads = Set(heads, r, heads[r])
    BY <1>0 DEF RequestInv, GoodRequest, Waiting, RouterTypes, Set
  <2>2. tries[r] \in 0 .. MaxRetries /\ tries = Set(tries, r, tries[r]) /\ MaxRetries \in Nat
    BY <1>0, RouterAssumption DEF RouterTypes, Set
  <2>3. CASE status = "busy" /\ tries[r] < MaxRetries
    <3>1. Goto(r, "retry") /\ tries' = Set(tries, r, tries[r] + 1) /\ heads' = heads
      BY <2>3 DEF Refuse
    <3>2. tries[r] + 1 \in 0 .. MaxRetries
      BY <2>2, <2>3
    <3> QED
      BY <2>1, <3>1, <3>2
  <2>4. CASE ~(status = "busy" /\ tries[r] < MaxRetries)
    <3>1. Goto(r, "done") /\ heads' = Set(heads, r, <<status>>) /\ tries' = tries
      BY <2>4 DEF Refuse
    <3>2. <<status>> \in Seq(Statuses) /\ <<status>> # <<>> /\ <<status>> # <<"ok">>
      BY DEF Statuses
    <3> QED
      BY <2>2, <3>1, <3>2
  <2> QED
    BY <2>3, <2>4
<1>3. /\ heads' \in [Requests -> Seq(Statuses)] /\ heads'[r] = h
      /\ \A s \in Requests : s # r => heads'[s] = heads[s]
  <2>1. heads \in [Requests -> Seq(Statuses)]
    BY <1>0 DEF RouterTypes
  <2>2. h \in Seq(Statuses) /\ heads' = Set(heads, r, h)
    BY <1>2
  <2> QED
    BY <2>1, <2>2 DEF Set
<1>4. tries' \in [Requests -> 0 .. MaxRetries]
  <2>1. tries \in [Requests -> 0 .. MaxRetries]
    BY <1>0 DEF RouterTypes
  <2>2. n \in 0 .. MaxRetries /\ tries' = Set(tries, r, n)
    BY <1>2
  <2> QED
    BY <2>1, <2>2 DEF Set
<1>5. /\ pc' \in [Requests -> Steps] /\ pc'[r] = step
      /\ \A s \in Requests : s # r => pc'[s] = pc[s]
  BY <1>0, <1>2, GotoIs DEF Steps
<1>6. RouterTypes'
  BY <1>0, <1>1, <1>3, <1>4, <1>5 DEF RouterTypes
<1>7. RequestInv(r)'
  <2>1. GoodRequest(step, kind[r], asked[r], target[r], lines[r], h, out[r],
                    wanted[r], passed[r], warned[r])
    BY <1>0, <1>2 DEF RequestInv, GoodRequest, Before, Waiting
  <2> QED
    BY <1>1, <1>3, <1>5, <2>1 DEF RequestInv
<1> QED
  BY <1>1, <1>3, <1>5, <1>6, <1>7, StepOf

LEMMA AcceptStep ==
  ASSUME RouterInv, NEW r \in Requests, Accept(r)
  PROVE  RouterInv'
<1>0. RouterTypes /\ RequestInv(r) /\ pc[r] = "asked"
  BY DEF RouterInv, Accept, At
<1>1. /\ UNCHANGED <<configured, secrets, token, env, rotating, held>>
      /\ UNCHANGED <<kind, asked, wanted, warned, target, tries, passed, lines>>
  BY DEF Accept, settings, tokens, request, upstream
<1> DEFINE k == kind[r]
           t == target[r]
           h == IF k \in {"stream", "test"} \/ (k = "whole" /\ WireOf[t] # "chat")
                THEN <<"ok">> ELSE <<>>
           o == IF k \in {"stream", "test"} /\ WireOf[t] = "chat" THEN Opening ELSE <<>>
<1>2. heads[r] = <<>> /\ lines[r] = <<>> /\ out[r] = <<>>
  BY <1>0 DEF RequestInv, GoodRequest, Waiting
<1>3. heads' = Set(heads, r, h) /\ h \in Seq(Statuses)
  <2>1. heads = Set(heads, r, <<>>)
    BY <1>0, <1>2 DEF RouterTypes, Set
  <2>2. <<>> \in Seq(Statuses) /\ <<"ok">> \in Seq(Statuses)
    BY DEF Statuses
  <2>3. heads' = IF Streams(r) \/ (OfHttp(r) /\ ~Chat(r)) THEN Set(heads, r, <<"ok">>) ELSE heads
    BY DEF Accept
  <2>4. Streams(r) \/ (OfHttp(r) /\ ~Chat(r)) <=>
           (k \in {"stream", "test"} \/ (k = "whole" /\ WireOf[t] # "chat"))
    BY DEF Streams, OfHttp, Chat
  <2> QED
    BY <2>1, <2>2, <2>3, <2>4
<1>4. Streamed(Opening, <<>>) /\ Opening \in Seq(Events)
  BY OpeningIsStreamed DEF Streamed, Open, InOrder
<1>5. out' = Set(out, r, o) /\ o \in Seq(Events)
  <2>1. out = Set(out, r, <<>>)
    BY <1>0, <1>2 DEF RouterTypes, Set
  <2>2. <<>> \in Seq(Events)
    BY EmptySeq
  <2>3. out' = IF Streams(r) /\ Chat(r) THEN Set(out, r, Opening) ELSE out
    BY DEF Accept
  <2> QED
    BY <1>4, <2>1, <2>2, <2>3 DEF Streams, Chat
<1>6. /\ k \in {"stream", "test"} => IF WireOf[t] = "chat" THEN Streamed(o, <<>>) ELSE Passed(o, <<>>)
      /\ k \notin {"stream", "test"} => o = <<>>
      /\ WellFormed(o)
  <2>1. WellFormed(Opening)
    BY <1>4 DEF Streamed, Open, InOrder
  <2> QED
    BY <1>4, <2>1, NothingIsPassed, NothingIsWellFormed
<1> HIDE DEF h, o
<1>7. /\ heads' \in [Requests -> Seq(Statuses)] /\ heads'[r] = h
      /\ \A s \in Requests : s # r => heads'[s] = heads[s]
  <2>1. heads \in [Requests -> Seq(Statuses)]
    BY <1>0 DEF RouterTypes
  <2> QED
    BY <1>3, <2>1 DEF Set
<1>8. /\ out' \in [Requests -> Seq(Events)] /\ out'[r] = o
      /\ \A s \in Requests : s # r => out'[s] = out[s]
  <2>1. out \in [Requests -> Seq(Events)]
    BY <1>0 DEF RouterTypes
  <2> QED
    BY <1>5, <2>1 DEF Set
<1>9. /\ pc' \in [Requests -> Steps] /\ pc'[r] = "reading"
      /\ \A s \in Requests : s # r => pc'[s] = pc[s]
  BY <1>0, GotoIs DEF Steps, Accept
<1>10. RouterTypes'
  BY <1>0, <1>1, <1>7, <1>8, <1>9 DEF RouterTypes
<1>11. RequestInv(r)'
  <2>1. GoodRequest("reading", k, asked[r], t, <<>>, h, o, wanted[r], passed[r], warned[r])
    BY <1>0, <1>6 DEF RequestInv, GoodRequest, Before, Waiting, h
  <2> QED
    BY <1>1, <1>2, <1>7, <1>8, <1>9, <2>1 DEF RequestInv
<1> QED
  BY <1>1, <1>7, <1>8, <1>9, <1>10, <1>11, StepOf

LEMMA ReadLineStep ==
  ASSUME RouterInv, NEW r \in Requests, NEW line \in LineKinds, ReadLine(r, line)
  PROVE  RouterInv'
<1> DEFINE k == kind[r]
           t == target[r]
           l == lines[r]
           more == Append(l, line)
           chunk == <<Event("chunk", 0, <<Item("raw", <<Len(more)>>)>>)>>
           o == IF k \notin {"stream", "test"} THEN out[r]
                ELSE out[r] \o IF WireOf[t] = "chat" THEN Arrival(more) ELSE chunk
<1>0. RouterTypes /\ RequestInv(r) /\ pc[r] = "reading"
  BY DEF RouterInv, ReadLine, At
<1>1. /\ UNCHANGED <<configured, secrets, token, env, rotating, held>>
      /\ UNCHANGED <<pc, kind, asked, wanted, warned, target, tries, passed, heads>>
  BY DEF ReadLine, settings, tokens, request, upstream
<1>2. l \in Answers /\ more \in Answers /\ out[r] \in Seq(Events)
  <2>1. l \in Answers /\ out[r] \in Seq(Events)
    BY <1>0 DEF RouterTypes
  <2> QED
    BY <2>1, AppendProperties DEF Answers
<1>3. lines' = Set(lines, r, more)
  BY DEF ReadLine
<1>4. out' = Set(out, r, o)
  <2>1. out = Set(out, r, out[r])
    BY <1>0 DEF RouterTypes, Set
  <2>2. out' = IF ~Streams(r) THEN out
               ELSE Set(out, r, out[r] \o IF Chat(r) THEN Arrival(more) ELSE chunk)
    BY DEF ReadLine
  <2> HIDE DEF more, chunk
  <2> QED
    BY <2>1, <2>2 DEF Streams, Chat
<1>5. /\ o \in Seq(Events) /\ WellFormed(o)
      /\ k \in {"stream", "test"} => IF WireOf[t] = "chat" THEN Streamed(o, more) ELSE Passed(o, more)
      /\ k \notin {"stream", "test"} => o = <<>>
  <2>1. CASE k \notin {"stream", "test"}
    <3>1. o = out[r] /\ out[r] = <<>>
      BY <1>0, <2>1 DEF RequestInv, GoodRequest
    <3> QED
      BY <1>2, <2>1, <3>1, NothingIsWellFormed
  <2>2. CASE k \in {"stream", "test"} /\ WireOf[t] = "chat"
    <3>1. Streamed(out[r], l)
      BY <1>0, <2>2 DEF RequestInv, GoodRequest
    <3>2. o = out[r] \o Arrival(more)
      BY <2>2
    <3>3. Streamed(out[r] \o Arrival(more), more)
      BY <1>2, <3>1, ArrivalIsStreamed
    <3> HIDE DEF o, more
    <3>4. Streamed(o, more)
      BY <3>2, <3>3
    <3>5. o \in Seq(Events) /\ WellFormed(o)
      BY <3>4 DEF Streamed, Open, InOrder
    <3> QED
      BY <2>2, <3>4, <3>5
  <2>3. CASE k \in {"stream", "test"} /\ WireOf[t] # "chat"
    <3>1. Passed(out[r], l)
      BY <1>0, <2>3 DEF RequestInv, GoodRequest
    <3>2. o = out[r] \o chunk
      BY <2>3
    <3>3. out[r] \o chunk \in Seq(Events) /\ Passed(out[r] \o chunk, more)
      BY <1>2, <3>1, PassedMore
    <3> HIDE DEF o, more, chunk
    <3>4. o \in Seq(Events) /\ Passed(o, more)
      BY <3>2, <3>3
    <3>5. WellFormed(o)
      BY <1>2, <3>4, PassedIsWellFormed
    <3> QED
      BY <2>3, <3>4, <3>5
  <2> QED
    BY <2>1, <2>2, <2>3
<1> HIDE DEF o, more
<1>6. /\ lines' \in [Requests -> Answers] /\ lines'[r] = more
      /\ \A s \in Requests : s # r => lines'[s] = lines[s]
  <2>1. lines \in [Requests -> Answers]
    BY <1>0 DEF RouterTypes
  <2> QED
    BY <1>2, <1>3, <2>1 DEF Set
<1>7. /\ out' \in [Requests -> Seq(Events)] /\ out'[r] = o
      /\ \A s \in Requests : s # r => out'[s] = out[s]
  <2>1. out \in [Requests -> Seq(Events)]
    BY <1>0 DEF RouterTypes
  <2> QED
    BY <1>4, <1>5, <2>1 DEF Set
<1>8. RouterTypes'
  BY <1>0, <1>1, <1>6, <1>7 DEF RouterTypes
<1>9. RequestInv(r)'
  <2>1. GoodRequest("reading", k, asked[r], t, more, heads[r], o, wanted[r], passed[r], warned[r])
    BY <1>0, <1>5 DEF RequestInv, GoodRequest, Before, Waiting
  <2> QED
    BY <1>0, <1>1, <1>6, <1>7, <2>1 DEF RequestInv
<1> QED
  BY <1>1, <1>6, <1>7, <1>8, <1>9, StepOf

\* An answer that is told whole.
LEMMA WholeIs ==
  ASSUME NEW items \in Seq(Items)
  PROVE  <<Event("whole", 0, items)>> \in Seq(Events) /\ WellFormed(<<Event("whole", 0, items)>>)
<1> DEFINE e == Event("whole", 0, items)
           ev == <<e>>
<1>1. e \in Events /\ e.is = "whole"
  <2>1. "whole" \in EventKinds /\ 0 \in Nat
    BY DEF EventKinds
  <2> QED
    BY <2>1, EventIs
<1> HIDE DEF e
<1>2. ev \in Seq(Events) /\ \A k \in DOMAIN ev : ev[k] = e
  BY <1>1
<1>3. \A k \in DOMAIN ev : ev[k].is \notin OfItem \cup {"completed"}
  BY <1>1, <1>2 DEF OfItem
<1>4. WellFormed(ev)
  <2> HIDE DEF ev
  <2> QED
    BY <1>3, Mute
<1> QED
  BY <1>2, <1>4 DEF e

LEMMA RawIs ==
  ASSUME NEW l \in Answers
  PROVE  <<Item("raw", [i \in DOMAIN l |-> i])>> \in Seq(Items)
<1> DEFINE body == [i \in DOMAIN l |-> i]
           item == Item("raw", body)
<1>1. Len(l) \in Nat /\ DOMAIN l = 1 .. Len(l)
  BY InSequence DEF Answers
<1>2. body \in [1 .. Len(l) -> Nat]
  BY <1>1
<1>3. body \in Seq(Nat)
  <2> HIDE DEF body
  <2> QED
    BY <1>1, <1>2, SeqDef
<1> HIDE DEF body
<1>4. item \in Items
  BY <1>3 DEF Item, Items
<1> HIDE DEF item
<1>5. <<item>> \in Seq(Items)
  BY <1>4
<1> QED
  BY <1>5 DEF item, body

LEMMA CallsAre ==
  ASSUME NEW l \in Answers, NEW parallel
  PROVE  NormalizedCalls(l, parallel) \in Seq(Items)
<1> DEFINE C == CallItems(l)
<1>1. C \in Seq(Items)
  BY AnswerTypes
<1>2. NormalizedCalls(l, parallel) = IF parallel \/ C = <<>> THEN C ELSE <<C[1]>>
  BY DEF NormalizedCalls
<1> HIDE DEF C
<1>3. ASSUME C # <<>> PROVE <<C[1]>> \in Seq(Items)
  <2>1. Len(C) \in Nat /\ Len(C) # 0 /\ DOMAIN C = 1 .. Len(C)
    BY <1>1, <1>3, InSequence, EmptySeq
  <2>2. 1 \in DOMAIN C
    BY <2>1
  <2>3. C[1] \in Items
    BY <1>1, <2>2, InSequence
  <2> QED
    BY <2>3
<1> QED
  BY <1>1, <1>2, <1>3

LEMMA EndOfAnswerStep ==
  ASSUME RouterInv, NEW r \in Requests, EndOfAnswer(r)
  PROVE  RouterInv'
<1> DEFINE k == kind[r]
           t == target[r]
           l == lines[r]
           whole == IF kind[r] = "complete" THEN Returned(r)
                    ELSE IF Chat(r) THEN ConvertedOutput(lines[r])
                    ELSE <<Item("raw", [i \in DOMAIN lines[r] |-> i])>>
           o == IF k \notin {"stream", "test"} THEN <<Event("whole", 0, whole)>>
                ELSE IF WireOf[t] = "chat" THEN out[r] \o Closing(l) ELSE out[r]
           h == <<"ok">>
<1>0. RouterTypes /\ RequestInv(r) /\ pc[r] = "reading"
  BY DEF RouterInv, EndOfAnswer, At
<1>1. /\ UNCHANGED <<configured, secrets, token, env, rotating, held>>
      /\ UNCHANGED <<kind, asked, wanted, warned, target, tries, passed, lines>>
  BY DEF EndOfAnswer, settings, tokens, request, upstream
<1>2. l \in Answers /\ out[r] \in Seq(Events) /\ h \in Seq(Statuses) /\ h # <<>>
  BY <1>0 DEF RouterTypes, Statuses
<1>3. whole \in Seq(Items)
  <2>1. Returned(r) \in Seq(Items)
    BY <1>2, CallsAre DEF Returned
  <2>2. ConvertedOutput(l) \in Seq(Items)
    BY <1>2, AnswerTypes
  <2>3. <<Item("raw", [i \in DOMAIN l |-> i])>> \in Seq(Items)
    BY <1>2, RawIs
  <2> QED
    BY <2>1, <2>2, <2>3
<1>4. heads' = Set(heads, r, h)
  BY DEF EndOfAnswer
<1>5. out' = Set(out, r, o)
  <2>1. out' = Set(out, r, IF ~Streams(r) THEN <<Event("whole", 0, whole)>>
                           ELSE IF Chat(r) THEN out[r] \o Closing(lines[r])
                           ELSE out[r])
    BY DEF EndOfAnswer
  <2> HIDE DEF whole
  <2> QED
    BY <2>1 DEF Streams, Chat
<1> HIDE DEF whole
<1>6. /\ o \in Seq(Events) /\ WellFormed(o)
      /\ k \in {"stream", "test"} => IF WireOf[t] = "chat" THEN Ended(o, l) ELSE Passed(o, l)
  <2>1. CASE k \notin {"stream", "test"}
    <3>1. o = <<Event("whole", 0, whole)>>
      BY <2>1
    <3> HIDE DEF o
    <3> QED
      BY <1>3, <2>1, <3>1, WholeIs
  <2>2. CASE k \in {"stream", "test"} /\ WireOf[t] = "chat"
    <3>1. Streamed(out[r], l)
      BY <1>0, <2>2 DEF RequestInv, GoodRequest
    <3>2. o = out[r] \o Closing(l)
      BY <2>2
    <3>3. /\ out[r] \o Closing(l) \in Seq(Events) /\ WellFormed(out[r] \o Closing(l))
          /\ Ended(out[r] \o Closing(l), l)
      BY <1>2, <3>1, ClosingIsWhole DEF Ended
    <3> HIDE DEF o
    <3> QED
      BY <2>2, <3>2, <3>3
  <2>3. CASE k \in {"stream", "test"} /\ WireOf[t] # "chat"
    <3>1. Passed(out[r], l) /\ WellFormed(out[r])
      BY <1>0, <2>3 DEF RequestInv, GoodRequest
    <3>2. o = out[r]
      BY <2>3
    <3> HIDE DEF o
    <3> QED
      BY <1>2, <2>3, <3>1, <3>2
  <2> QED
    BY <2>1, <2>2, <2>3
<1> HIDE DEF h, o
<1>7. /\ heads' \in [Requests -> Seq(Statuses)] /\ heads'[r] = h
      /\ \A s \in Requests : s # r => heads'[s] = heads[s]
  <2>1. heads \in [Requests -> Seq(Statuses)]
    BY <1>0 DEF RouterTypes
  <2> QED
    BY <1>2, <1>4, <2>1 DEF Set
<1>8. /\ out' \in [Requests -> Seq(Events)] /\ out'[r] = o
      /\ \A s \in Requests : s # r => out'[s] = out[s]
  <2>1. out \in [Requests -> Seq(Events)]
    BY <1>0 DEF RouterTypes
  <2> QED
    BY <1>5, <1>6, <2>1 DEF Set
<1>9. /\ pc' \in [Requests -> Steps] /\ pc'[r] = "done"
      /\ \A s \in Requests : s # r => pc'[s] = pc[s]
  BY <1>0, GotoIs DEF Steps, EndOfAnswer
<1>10. RouterTypes'
  BY <1>0, <1>1, <1>7, <1>8, <1>9 DEF RouterTypes
<1>11. RequestInv(r)'
  <2>1. GoodRequest("done", k, asked[r], t, l, h, o, wanted[r], passed[r], warned[r])
    BY <1>0, <1>2, <1>6 DEF RequestInv, GoodRequest, Before, Waiting
  <2> QED
    BY <1>1, <1>7, <1>8, <1>9, <2>1 DEF RequestInv
<1> QED
  BY <1>1, <1>7, <1>8, <1>9, <1>10, <1>11, StepOf

-----------------------------------------------------------------------------
(* Theorems.                                                               *)

\* Every step of the router keeps RouterInv: what a client has been told so
\* far is a stream that tells what has come so far.
LEMMA NextIsSound ==
  ASSUME RouterInv, [RouterNext]_routerVars
  PROVE  RouterInv'
<1>1. CASE Configure \/ Rotate \/ RotateEnv \/ LaunchClient
  BY <1>1, SettingsStep
<1>2. ASSUME NEW r \in Requests, GoOn(r) PROVE RouterInv'
  BY <1>2, PreviewStep, ResolveProviderStep, RetryStep, AcceptStep, EndOfAnswerStep, FailStep,
     RefuseStep, ReadLineStep DEF GoOn
<1>3. ASSUME NEW r \in Requests, NEW k \in RequestKinds, NEW p \in Providers,
             NEW t \in Temperatures \cup {Nothing}, Receive(r, k, p, t)
      PROVE  RouterInv'
  BY <1>3, ReceiveStep
<1>4. CASE UNCHANGED routerVars
  <2>1. /\ UNCHANGED <<configured, secrets, token, env, rotating, held, pc>>
        /\ UNCHANGED <<kind, asked, wanted, warned, target, tries, passed, lines, heads, out>>
    BY <1>4 DEF routerVars, settings, tokens, request, upstream, answer
  <2>2. RouterTypes'
    BY <2>1 DEF RouterInv, RouterTypes
  <2>3. ASSUME NEW r \in Requests PROVE RequestInv(r)'
    <3>1. RequestInv(r)
      BY DEF RouterInv
    <3> QED
      BY <2>1, <3>1, Others
  <2> QED
    BY <2>2, <2>3 DEF RouterInv
<1> QED
  BY <1>1, <1>2, <1>3, <1>4 DEF RouterNext

\* In every state each request has been told what its step has to show for:
\* the events so far are those of the lines so far (RouterInv).
THEOREM RouterInvariant == RouterSpec => []RouterInv
<1>1. RouterInv /\ [RouterNext]_routerVars => RouterInv'
  BY NextIsSound
<1> QED
  BY <1>1, InitIsSound, PTL DEF RouterSpec

LEMMA TypesFollow ==
  RouterInv => RouterTypeOK
<1> SUFFICES ASSUME RouterInv PROVE RouterTypeOK
  OBVIOUS
<1>1. RouterTypes /\ \A r \in Requests : RequestInv(r)
  BY DEF RouterInv
<1>2. ASSUME NEW r \in Requests
      PROVE  /\ tries[r] \in 0 .. MaxRetries
             /\ Done(r) => heads[r] # <<>>
             /\ target[r] # Nothing => FamilyOf[target[r]] = FamilyOf[asked[r]]
  BY <1>1 DEF RouterTypes, RequestInv, GoodRequest, Done, At
<1> QED
  BY <1>1, <1>2 DEF RouterTypeOK, RouterTypes, Steps

\* Types of the router's variables; a request that is done has been told what
\* came of it, and was sent to a provider of the family it asked for.
THEOREM RouterTypeCorrect == RouterSpec => []RouterTypeOK
BY RouterInvariant, TypesFollow, PTL

LEMMA AnswersFollow ==
  RouterInv => AnswersAreTrue
<1> SUFFICES ASSUME RouterInv PROVE AnswersAreTrue
  OBVIOUS
<1>1. ASSUME NEW r \in Requests PROVE StreamsAreWhole(r) /\ TestsTellTheTruth(r)
  <2>1. lines[r] \in Answers /\ out[r] \in Seq(Events) /\ RequestInv(r)
        /\ wanted[r] \in Temperatures \cup {Nothing}
    BY DEF RouterInv, RouterTypes
  <2>2. WellFormed(out[r])
    BY <2>1 DEF RequestInv, GoodRequest
  <2>3. WellFormed(Replayed(ConvertedOutput(lines[r])))
    BY <2>1, AnswerTypes, ReplayIsWellFormed
  <2>4. ASSUME Done(r), heads[r] = <<"ok">>, Streams(r)
        PROVE  IF Chat(r) THEN Ended(out[r], lines[r]) ELSE Passed(out[r], lines[r])
    BY <2>1, <2>4 DEF RequestInv, GoodRequest, Done, At, Streams, Chat
  <2>5. Substance(StreamOutput(lines[r])) = Substance(ConvertedOutput(lines[r]))
    BY <2>1, SameSubstance
  <2>6. ASSUME Passed(out[r], lines[r])
        PROVE  [i \in DOMAIN out[r] |-> out[r][i].items[1].body] = [i \in DOMAIN lines[r] |-> <<i>>]
    <3>1. DOMAIN out[r] = 1 .. Len(lines[r]) /\ DOMAIN lines[r] = 1 .. Len(lines[r])
      BY <2>1, <2>6, InSequence DEF Passed, Answers
    <3>2. \A i \in 1 .. Len(lines[r]) : out[r][i].items[1].body = <<i>>
      <4> TAKE i \in 1 .. Len(lines[r])
      <4> DEFINE u == Item("raw", <<i>>)
      <4>1. out[r][i] = Event("chunk", 0, <<u>>)
        BY <2>6 DEF Passed
      <4>2. u.body = <<i>>
        BY DEF Item
      <4> HIDE DEF u
      <4>3. out[r][i].items[1] = u
        BY <4>1 DEF Event
      <4> QED
        BY <4>2, <4>3
    <3> QED
      BY <3>1, <3>2
  <2>7. StreamsAreWhole(r)
    BY <2>2, <2>3, <2>4, <2>5, <2>6 DEF StreamsAreWhole, Ended
  <2>8. ASSUME Done(r), kind[r] = "test", heads[r] = <<"ok">>
        PROVE  warned[r] <=> passed[r] # wanted[r]
    <3>1. /\ warned[r] <=> Warned(PolicyOf[FamilyOf[asked[r]]], wanted[r])
          /\ passed[r] = Applied(PolicyOf[FamilyOf[asked[r]]], wanted[r])
      BY <2>1, <2>8 DEF RequestInv, GoodRequest, Done, At
    <3> QED
      BY <2>1, <3>1, WarnedWhenChanged
  <2>9. TestsTellTheTruth(r)
    <3>1. kind[r] = "test" => Streams(r)
      BY DEF Streams
    <3> QED
      BY <2>4, <2>8, <3>1 DEF TestsTellTheTruth, Verdict, Ended
  <2> QED
    BY <2>7, <2>9
<1> QED
  BY <1>1, TypesFollow DEF AnswersAreTrue

\* What clients and users are told is true: a stream is at every moment one of
\* the Responses API, tells every fragment of the answer once, ends with the
\* response that the same answer is converted to, and a test warns of each
\* temperature that is not sent as it was set (forward_response,
\* _stream_chat_completion, providers/transports/base.py, test_provider).
THEOREM AnswersTrue == RouterSpec => []AnswersAreTrue
BY RouterInvariant, AnswersFollow, PTL

-----------------------------------------------------------------------------
(* Failures.                                                               *)

\* rotate_token replaces the token first and the environment right after.
TokensAgree == ~rotating => env = token

\* What a status in h says of the request r that is told it.
Explains(r, h) ==
  /\ Last(h) = "auth" => rotating \/ held # env
  /\ Last(h) = "busy" => tries[r] = MaxRetries
  /\ Len(h) > 1 => heads[r] = <<"ok">> /\ At(r, "reading") /\ Last(h) = "bad"

\* A step tells one request at most.
ToldOf(r) == heads' = heads \/ \E h : heads' = Set(heads, r, h) /\ Explains(r, h)

LEMMA TokensAgreeStep ==
  TokensAgree /\ [RouterNext]_routerVars => TokensAgree'
<1> SUFFICES ASSUME TokensAgree, [RouterNext]_routerVars PROVE TokensAgree'
  OBVIOUS
<1>1. CASE UNCHANGED tokens
  BY <1>1 DEF TokensAgree, tokens
<1>2. CASE Rotate
  BY <1>2 DEF TokensAgree, Rotate
<1>3. CASE RotateEnv
  BY <1>3 DEF TokensAgree, RotateEnv
<1>4. CASE LaunchClient
  BY <1>4 DEF TokensAgree, LaunchClient
<1>5. CASE Configure \/ UNCHANGED routerVars
  BY <1>1, <1>5 DEF Configure, routerVars
<1>6. ASSUME NEW r \in Requests, GoOn(r) PROVE UNCHANGED tokens
  BY <1>6 DEF GoOn, Preview, ResolveProvider, Retry, Accept, EndOfAnswer, Fail, Refuse, ReadLine
<1>7. ASSUME NEW r \in Requests, NEW k \in RequestKinds, NEW p \in Providers,
             NEW t \in Temperatures \cup {Nothing}, Receive(r, k, p, t)
      PROVE  UNCHANGED tokens
  BY <1>7 DEF Receive
<1> QED
  BY <1>1, <1>2, <1>3, <1>4, <1>5, <1>6, <1>7 DEF RouterNext

LEMMA OneStatus ==
  ASSUME NEW status
  PROVE  Last(<<status>>) = status /\ Len(<<status>>) = 1
BY DEF Last

LEMMA FailTells ==
  ASSUME RouterInv, NEW r \in Requests, Fail(r)
  PROVE  ToldOf(r)
<1>0. RouterTypes /\ RequestInv(r) /\ pc[r] \notin {"idle", "done"}
  BY DEF RouterInv, Fail
<1> DEFINE h == Append(heads[r], "bad")
<1>1. heads' = Set(heads, r, h)
  BY DEF Fail
<1>2. heads[r] \in Seq(Statuses) /\ pc[r] \in Steps
  BY <1>0 DEF RouterTypes
<1>3. Last(h) = "bad" /\ Len(h) = Len(heads[r]) + 1 /\ Len(heads[r]) \in Nat
  BY <1>2, StatusMore DEF Statuses
<1>4. ASSUME Len(h) > 1 PROVE heads[r] = <<"ok">> /\ pc[r] = "reading"
  <2>1. heads[r] # <<>>
    <3> SUFFICES ASSUME heads[r] = <<>> PROVE FALSE
      OBVIOUS
    <3>1. Len(heads[r]) = 0
      OBVIOUS
    <3> HIDE DEF h
    <3> QED
      BY <1>3, <1>4, <3>1
  <2> QED
    BY <1>0, <1>2, <2>1 DEF RequestInv, GoodRequest, Steps, Before, Waiting
<1> HIDE DEF h
<1>5. Explains(r, h)
  BY <1>3, <1>4 DEF Explains, At
<1> QED
  BY <1>1, <1>5 DEF ToldOf

LEMMA RefuseTells ==
  ASSUME RouterInv, NEW r \in Requests, NEW status \in {"busy", "refused"}, Refuse(r, status)
  PROVE  ToldOf(r)
<1>1. tries[r] \in 0 .. MaxRetries /\ MaxRetries \in Nat
  BY RouterAssumption DEF RouterInv, RouterTypes
<1>2. CASE status = "busy" /\ tries[r] < MaxRetries
  BY <1>2 DEF Refuse, ToldOf
<1>3. CASE ~(status = "busy" /\ tries[r] < MaxRetries)
  <2> DEFINE h == <<status>>
  <2>1. heads' = Set(heads, r, h)
    BY <1>3 DEF Refuse
  <2>2. Last(h) = status /\ Len(h) = 1
    BY OneStatus
  <2> HIDE DEF h
  <2>3. Explains(r, h)
    BY <1>1, <1>3, <2>2 DEF Explains
  <2> QED
    BY <2>1, <2>3 DEF ToldOf
<1> QED
  BY <1>2, <1>3

LEMMA ReceiveTells ==
  ASSUME RouterInv, TokensAgree, NEW r \in Requests, NEW k \in RequestKinds, NEW p \in Providers,
         NEW t \in Temperatures \cup {Nothing}, Receive(r, k, p, t)
  PROVE  ToldOf(r)
<1>1. CASE k \in {"stream", "whole"} /\ held # token
  <2> DEFINE h == <<"auth">>
  <2>1. heads' = Set(heads, r, h)
    BY <1>1 DEF Receive
  <2>2. Last(h) = "auth" /\ Len(h) = 1
    BY OneStatus
  <2> HIDE DEF h
  <2>3. Explains(r, h)
    BY <1>1, <2>2 DEF Explains, TokensAgree
  <2> QED
    BY <2>1, <2>3 DEF ToldOf
<1>2. CASE ~(k \in {"stream", "whole"} /\ held # token)
  BY <1>2 DEF Receive, ToldOf
<1> QED
  BY <1>1, <1>2

LEMMA OthersTell ==
  ASSUME NEW r \in Requests,
         \/ Preview(r) \/ ResolveProvider(r) \/ Retry(r) \/ Accept(r) \/ EndOfAnswer(r)
         \/ \E line \in LineKinds : ReadLine(r, line)
  PROVE  ToldOf(r)
<1>1. heads' = heads \/ heads' = Set(heads, r, <<"ok">>)
  BY DEF Preview, ResolveProvider, Retry, Accept, EndOfAnswer, ReadLine, answer
<1> DEFINE h == <<"ok">>
<1>2. Last(h) = "ok" /\ Len(h) = 1
  BY OneStatus
<1>3. heads' = heads \/ heads' = Set(heads, r, h)
  BY <1>1
<1> HIDE DEF h
<1>4. Explains(r, h)
  BY <1>2 DEF Explains
<1> QED
  BY <1>3, <1>4 DEF ToldOf

LEMMA FailuresFollow ==
  ASSUME RouterInv, TokensAgree, [RouterNext]_routerVars,
         NEW s \in Requests, heads'[s] # heads[s]
  PROVE  Explains(s, heads'[s])
<1>1. heads \in [Requests -> Seq(Statuses)]
  BY DEF RouterInv, RouterTypes
<1>2. ASSUME NEW r \in Requests, ToldOf(r) PROVE Explains(s, heads'[s])
  <2>1. PICK h : heads' = Set(heads, r, h) /\ Explains(r, h)
    BY <1>2 DEF ToldOf
  <2>2. s = r /\ heads'[s] = h
    BY <1>1, <2>1 DEF Set
  <2> QED
    BY <2>1, <2>2
<1>3. CASE UNCHANGED routerVars
  BY <1>3 DEF routerVars, answer
<1>4. CASE Configure \/ Rotate \/ RotateEnv \/ LaunchClient
  BY <1>4 DEF Configure, Rotate, RotateEnv, LaunchClient, answer
<1>5. ASSUME NEW r \in Requests, GoOn(r) PROVE ToldOf(r)
  BY <1>5, FailTells, RefuseTells, OthersTell DEF GoOn
<1>6. ASSUME NEW r \in Requests, NEW k \in RequestKinds, NEW p \in Providers,
             NEW t \in Temperatures \cup {Nothing}, Receive(r, k, p, t)
      PROVE  ToldOf(r)
  BY <1>6, ReceiveTells
<1> QED
  BY <1>2, <1>3, <1>4, <1>5, <1>6 DEF RouterNext

\* Every failure a client is told has its reason: a refused token was rotated
\* since the app-server was started, a transient error is passed on after all
\* retries only, and an error comes after another head only when the answer
\* was broken off in the middle (do_POST, _upstream_request, forward_response).
THEOREM FailuresExplained == RouterSpec => FailuresAreExplained
<1>1. RouterInit => TokensAgree
  BY DEF RouterInit, TokensAgree
<1>2. RouterSpec => []TokensAgree
  BY <1>1, TokensAgreeStep, PTL DEF RouterSpec
<1>3. ASSUME RouterInv, TokensAgree, [RouterNext]_routerVars
      PROVE  [\A r \in Requests :
                  heads'[r] # heads[r] =>
                      LET status == Last(heads'[r]) IN
                      /\ status = "auth" => rotating \/ held # env
                      /\ status = "busy" => tries[r] = MaxRetries
                      /\ Len(heads'[r]) > 1 => heads[r] = <<"ok">> /\ At(r, "reading")
                                                   /\ status = "bad"]_routerVars
  BY <1>3, FailuresFollow DEF Explains
<1> QED
  BY <1>2, <1>3, RouterInvariant, PTL DEF RouterSpec, FailuresAreExplained
=============================================================================
