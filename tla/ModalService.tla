---------------------------- MODULE ModalService ----------------------------
(***************************************************************************)
(* Approval and input requests of the app-server (modal_service.py) with   *)
(* the two handlers that end them: the user's answer (POST resolve) and    *)
(* RuntimeService.interrupt_turn.                                          *)
(*                                                                         *)
(* Each request of the app-server runs in a daemon thread of its own       *)
(* (_resolve_server_request), which the client starts when it reads the    *)
(* line; the thread registers a modal, waits for its event and returns the *)
(* reply.  The resolution and the event of a modal are set together under  *)
(* the lock, so "the event is set" is "resolution[m] # none".              *)
(***************************************************************************)
CONSTANTS
    Modals,     \* requests of the app-server
    Fakes,      \* modals made by create_fake: nobody waits for them
    Turns,
    TurnOf,     \* turn a request names; legacy requests name none
    MethodOf,   \* method of a request
    Patient     \* requests whose timeout is too long to count on

Methods == {"command", "permissions", "legacy", "elicitation", "user_input"}

ASSUME ModalAssumption ==
    /\ Modals \cap Fakes = {}
    /\ MethodOf \in [Modals -> Methods]

VARIABLES
    thread,     \* thread[m]: the requesting thread
    pending,    \* keys of self._pending
    resolution, \* resolution[m]: the modal's "resolution", "none" at first
    reply,      \* reply[m]: what request() returned
    interrupt   \* interrupt[t]: the latest interrupt_turn of turn t

modalVars == <<thread, pending, resolution, reply, interrupt>>

ModalInit ==
    /\ thread = [m \in Modals |-> "absent"]
    /\ pending = {}
    /\ resolution = [m \in Modals \cup Fakes |-> "none"]
    /\ reply = [m \in Modals |-> "none"]
    /\ interrupt = [t \in Turns |-> "none"]

-----------------------------------------------------------------------------
(* The decisions the desktop offers (ModalHost), and the reply each method *)
(* makes of one (_default_resolution, _cancel_resolution,                  *)
(* _translate_resolution).                                                 *)

ChoicesOf(method) ==
    CASE method = "user_input" -> {"answers"}
      [] method = "elicitation" -> {"accept", "decline", "cancel"}
      [] OTHER -> {"approve", "approve_session", "decline", "cancel"}

CancelResolution(method) == IF method = "permissions" THEN "decline" ELSE "cancel"

\* Mutant: what is not a refusal counts as an approval.
TranslatePermissive(method, decision) ==
    CASE method = "user_input" /\ decision = "answers" -> "answers"
      [] decision \in {"approve", "accept", "none"} -> "granted"
      [] decision = "approve_session" -> "granted_for_session"
      [] OTHER -> "refused"

\* "none" is the default resolution of a modal nobody decided.
Translate(method, decision) ==
    CASE method = "user_input" ->
            IF decision = "answers" THEN "answers" ELSE "no_answers"
      [] method = "permissions" ->
            IF decision = "approve" THEN "granted" ELSE "refused"
      [] method = "elicitation" ->
            IF decision = "accept" THEN "granted" ELSE "refused"
      [] OTHER ->
            CASE decision = "approve" -> "granted"
              [] decision = "approve_session" -> "granted_for_session"
              [] OTHER -> "refused"

-----------------------------------------------------------------------------
(* request()                                                               *)

\* The app-server asks (external): it asks nothing more for a turn once it
\* has acknowledged the interrupt of that turn.
Ask(m) ==
    /\ thread[m] = "absent"
    /\ TurnOf[m] \in Turns => interrupt[TurnOf[m]] \notin {"acknowledged", "done"}
    /\ thread' = [thread EXCEPT ![m] = "started"]
    /\ UNCHANGED <<pending, resolution, reply, interrupt>>

Register(m) ==
    /\ thread[m] = "started"
    /\ thread' = [thread EXCEPT ![m] = "waiting"]
    /\ pending' = pending \cup {m}
    /\ UNCHANGED <<resolution, reply, interrupt>>

Wake(m) ==
    /\ thread[m] = "waiting"
    /\ resolution[m] # "none"
    /\ thread' = [thread EXCEPT ![m] = "awake"]
    /\ UNCHANGED <<pending, resolution, reply, interrupt>>

\* Mutant: only approvals time out.
WaitExpiresForApprovals(m) ==
    /\ thread[m] = "waiting"
    /\ resolution[m] = "none"
    /\ MethodOf[m] # "user_input"
    /\ thread' = [thread EXCEPT ![m] = "expired"]
    /\ UNCHANGED <<pending, resolution, reply, interrupt>>

WaitExpires(m) ==
    /\ thread[m] = "waiting"
    /\ resolution[m] = "none"
    /\ thread' = [thread EXCEPT ![m] = "expired"]
    /\ UNCHANGED <<pending, resolution, reply, interrupt>>

\* Mutant: a request that timed out is declined without a look at the modal.
CompleteDeclines(m) ==
    /\ thread[m] \in {"awake", "expired"}
    /\ thread' = [thread EXCEPT ![m] = "done"]
    /\ pending' = pending \ {m}
    /\ reply' = [reply EXCEPT ![m] =
                    Translate(MethodOf[m], IF thread[m] = "expired"
                                           THEN "none" ELSE resolution[m])]
    /\ UNCHANGED <<resolution, interrupt>>

\* Pop the modal under the lock; from here on the resolution is final.
Complete(m) ==
    /\ thread[m] \in {"awake", "expired"}
    /\ thread' = [thread EXCEPT ![m] = "done"]
    /\ pending' = pending \ {m}
    /\ reply' = [reply EXCEPT ![m] = Translate(MethodOf[m], resolution[m])]
    /\ UNCHANGED <<resolution, interrupt>>

-----------------------------------------------------------------------------
(* create_fake() and resolve(): an unknown modal is an error, a decided    *)
(* one may be decided again until its thread has popped it.                *)

CreateFake(m) ==
    /\ m \notin pending
    /\ resolution[m] = "none"
    /\ pending' = pending \cup {m}
    /\ UNCHANGED <<thread, resolution, reply, interrupt>>

Resolve(m, choice) ==
    /\ m \in pending
    /\ resolution' = [resolution EXCEPT ![m] = choice]
    /\ pending' = pending \ (Fakes \cap {m})
    /\ UNCHANGED <<thread, reply, interrupt>>

-----------------------------------------------------------------------------
(* interrupt_turn: ask the app-server, then cancel the modals of the turn. *)

InterruptRequest(t) ==
    /\ interrupt[t] \in {"none", "failed"}
    /\ interrupt' = [interrupt EXCEPT ![t] = "requested"]
    /\ UNCHANGED <<thread, pending, resolution, reply>>

\* turn/interrupt raises, or the thread is reported missing.
InterruptFails(t) ==
    /\ interrupt[t] = "requested"
    /\ interrupt' = [interrupt EXCEPT ![t] = "failed"]
    /\ UNCHANGED <<thread, pending, resolution, reply>>

InterruptAcknowledged(t) ==
    /\ interrupt[t] = "requested"
    /\ interrupt' = [interrupt EXCEPT ![t] = "acknowledged"]
    /\ UNCHANGED <<thread, pending, resolution, reply>>

OfTurn(t) == {m \in Modals : TurnOf[m] = t}

CancelForTurn(t) ==
    /\ interrupt[t] = "acknowledged"
    /\ interrupt' = [interrupt EXCEPT ![t] = "done"]
    /\ resolution' = [m \in Modals \cup Fakes |->
                        IF m \in pending \cap OfTurn(t)
                        THEN CancelResolution(MethodOf[m]) ELSE resolution[m]]
    /\ pending' = pending \ OfTurn(t)
    /\ UNCHANGED <<thread, reply>>

-----------------------------------------------------------------------------
Requesting(m) == Register(m) \/ Wake(m) \/ Complete(m)

FakeChoices == {"answers", "approve", "approve_session", "decline", "cancel"}

ModalNext ==
    \/ \E m \in Modals :
          \/ Ask(m) \/ Requesting(m) \/ WaitExpires(m)
          \/ \E choice \in ChoicesOf(MethodOf[m]) : Resolve(m, choice)
    \/ \E m \in Fakes :
          CreateFake(m) \/ \E choice \in FakeChoices : Resolve(m, choice)
    \/ \E t \in Turns :
          \/ InterruptRequest(t) \/ InterruptFails(t)
          \/ InterruptAcknowledged(t) \/ CancelForTurn(t)

ModalSpec == ModalInit /\ [][ModalNext]_modalVars

\* Threads are scheduled, and a wait that is not decided reaches its timeout
\* (one hour), except that of a patient request.  Nobody needs to answer a
\* modal.
ModalFairSpec ==
    /\ ModalSpec
    /\ \A m \in Modals : WF_modalVars(Requesting(m))
    /\ \A t \in Turns : WF_modalVars(CancelForTurn(t))
    /\ \A m \in Modals \ Patient : WF_modalVars(WaitExpires(m))

-----------------------------------------------------------------------------
(* Properties.                                                             *)

Decisions == {"none", "answers", "accept", "approve", "approve_session",
              "decline", "cancel"}
Replies == {"none", "answers", "no_answers", "granted", "granted_for_session",
            "refused"}

\* Every variable has its type; a request is listed only while its thread
\* still waits for it, and a listed fake is undecided.
ModalTypeOK ==
    /\ thread \in [Modals -> {"absent", "started", "waiting", "awake",
                              "expired", "done"}]
    /\ pending \in SUBSET (Modals \cup Fakes)
    /\ resolution \in [Modals \cup Fakes -> Decisions]
    /\ reply \in [Modals -> Replies]
    /\ interrupt \in [Turns -> {"none", "requested", "failed", "acknowledged",
                                "done"}]
    /\ \A m \in pending \cap Modals : thread[m] \in {"waiting", "awake", "expired"}
    /\ \A m \in pending \cap Fakes : resolution[m] = "none"

\* The reply is made of the last decision anyone was told had been accepted.
ReplyIsOfDecision ==
    \A m \in Modals :
        thread[m] = "done" => reply[m] = Translate(MethodOf[m], resolution[m])

\* A modal is listed only while its thread waits, and a decision that is
\* accepted is the one that counts, also when the answer or the cancellation
\* races the timeout or another answer.
DecisionIsHonoured == ModalTypeOK /\ ReplyIsOfDecision

\* Nobody can decide a modal any more once its reply is made: a late click
\* is told "Unknown modal".
NoDecisionAfterReply ==
    [][\A m \in Modals :
            thread[m] = "done" => resolution'[m] = resolution[m]]_modalVars

Grants == {"granted", "granted_for_session"}
Approving == {"approve", "approve_session", "accept"}

\* Timeouts, interrupts and cancellations never grant anything: a grant takes
\* an approving decision of the user.
GrantNeedsApproval ==
    \A m \in Modals : reply[m] \in Grants => resolution[m] \in Approving

\* Every request of the app-server is replied to, if need be by its timeout.
EveryModalCompletes ==
    \A m \in Modals \ Patient : thread[m] = "started" ~> thread[m] = "done"

\* A modal that is listed when the app-server acknowledges the interrupt of
\* its turn is replied to, also when its timeout is far away.
InterruptReleasesModals ==
    \A m \in Modals : \A t \in Turns :
        (m \in pending /\ TurnOf[m] = t /\ interrupt[t] = "acknowledged")
            ~> thread[m] = "done"

\* Every request of the app-server is replied to, by its timeout or with the
\* turn it belongs to.
ModalsEnd == EveryModalCompletes /\ InterruptReleasesModals
=============================================================================
