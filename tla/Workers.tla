------------------------------- MODULE Workers -------------------------------
(***************************************************************************)
(* The threads that serve requests of the front end and calls of tools     *)
(* (ThreadingHTTPServer in server.py, one thread for each request of the   *)
(* app-server in app_server_client.py).  Each goes through the steps of    *)
(* one request at a time.  What a step reads it holds in "copy" until it   *)
(* writes it back; no lock is held in between.                             *)
(***************************************************************************)
EXTENDS Naturals, Sequences, FiniteSets

CONSTANTS
    Workers,
    None,           \* stands for a file or a copy that is not there
    Casts,          \* bound: kinds of requests made together, sets of kinds
    MaxRequests     \* bound: requests made, for each of these

VARIABLES
    cast,           \* kinds of requests that are made
    pc,             \* step of a worker
    task,           \* request it serves
    asked           \* requests so far

work == <<cast, pc, task, asked>>

At(w, step) == pc[w] = step
In(w, steps) == pc[w] \in steps
Others(w) == Workers \ {w}

Goto(w, step) == pc' = [pc EXCEPT ![w] = step]

Idle == [kind |-> "none"]

\* A request of a kind is taken up at its first step.
Take(w, request, step) ==
    /\ At(w, "idle") /\ request.kind \in cast /\ asked < MaxRequests[cast]
    /\ asked' = asked + 1
    /\ task' = [task EXCEPT ![w] = request]
    /\ Goto(w, step)
    /\ UNCHANGED cast

\* The bounds, which only Take changes.
bounds == <<cast, asked>>

\* The request is answered, whether it did what it was to do or raised.
Done(w) ==
    /\ task' = [task EXCEPT ![w] = Idle]
    /\ Goto(w, "idle")

WorkInit ==
    /\ cast \in Casts /\ asked = 0
    /\ pc = [w \in Workers |-> "idle"]
    /\ task = [w \in Workers |-> Idle]
=============================================================================
