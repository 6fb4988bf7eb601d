---------------------------- MODULE RpcContract ----------------------------
(***************************************************************************)
(* What AppServerClient.request promises to the code that calls it.        *)
(*                                                                         *)
(* A call is opened once and returns once.  The way it returns says what   *)
(* the caller may conclude about the app-server:                           *)
(*   "answered"  the app-server executed the request;                      *)
(*   "rejected"  the request was never executed and never will be;         *)
(*   "failed"    nothing: the connection was lost, or the wait timed out,  *)
(*               and the request may have run already or may still run.    *)
(* RuntimeService decides whether to send a request again from exactly     *)
(* this information.                                                       *)
(***************************************************************************)
CONSTANT Requests

VARIABLES
    phase,      \* phase[r]: "idle", "open" or "returned"
    verdict,    \* verdict[r]: how the call returned, "none" before
    executed    \* the requests the app-server has executed

rpcVars == <<phase, verdict, executed>>

Verdicts == {"answered", "rejected", "failed"}

Init ==
    /\ phase = [r \in Requests |-> "idle"]
    /\ verdict = [r \in Requests |-> "none"]
    /\ executed = {}

Open(r) ==
    /\ phase[r] = "idle"
    /\ phase' = [phase EXCEPT ![r] = "open"]
    /\ UNCHANGED <<verdict, executed>>

\* The app-server executes a request at most once, possibly after the caller
\* was told that the call had failed, never after it was told "rejected".
Execute(r) ==
    /\ phase[r] # "idle"
    /\ verdict[r] # "rejected"
    /\ r \notin executed
    /\ executed' = executed \cup {r}
    /\ UNCHANGED <<phase, verdict>>

Return(r, v) ==
    /\ phase[r] = "open"
    /\ v = "answered" => r \in executed
    /\ v = "rejected" => r \notin executed
    /\ phase' = [phase EXCEPT ![r] = "returned"]
    /\ verdict' = [verdict EXCEPT ![r] = v]
    /\ UNCHANGED executed

Next ==
    \E r \in Requests :
        \/ Open(r)
        \/ Execute(r)
        \/ \E v \in Verdicts : Return(r, v)

Spec == Init /\ [][Next]_rpcVars
=============================================================================
