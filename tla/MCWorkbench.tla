----------------------------- MODULE MCWorkbench -----------------------------
(* Workbench with two requests at once.  Draws, the registry, the ledger   *)
(* and smoke tests are looked at apart and two by two.                     *)
EXTENDS Workbench, TLC

CONSTANTS w1, w2, key, tile, t1, t2, t3

MCDraws ==
    {[kind |-> "draw", tool |-> FALSE, edit |-> FALSE, n |-> 0, clear |-> TRUE, jpeg |-> FALSE],
     [kind |-> "draw", tool |-> TRUE, edit |-> TRUE, n |-> 2, clear |-> FALSE, jpeg |-> FALSE]}
\* t2 is made by a fork, t3 by a handoff.
MCThreads == Reads \cup Plans \cup {r \in Forks : r.thread = t2} \cup {r \in Handoffs : r.thread = t3}
MCRequests ==
    MCDraws \cup MarkRequests \cup Promotions \cup Looks \cup Rebuilds
    \cup Smokes \cup Milestones \cup Captures \cup Saves \cup MCThreads
MCPages == AllPages
MCSymmetry == Permutations(Workers)
Plain == [saved |-> TRUE, jpeg |-> FALSE, failed |-> FALSE]
Flawed == [saved |-> TRUE, jpeg |-> TRUE, failed |-> TRUE]
Missing == [saved |-> FALSE, jpeg |-> FALSE, failed |-> FALSE]
MCStock == {<<Plain, Flawed>>, <<Flawed, Missing>>}
MCDrawn == {Plain, Flawed}
MCCasts ==
    {{"draw"}, {"draw", "save"}, {"draw", "promote"}, {"promote", "crash"},
     {"promote", "mark", "unmark", "look", "rebuild"},
     {"smoke"}, {"smoke", "capture"}, {"milestone", "capture", "save", "crash"},
     {"read", "plan", "fork"}, {"fork", "handoff"}, {"read", "crash"}, {"turn"}}
MCMaxRequests ==
    [c \in MCCasts |-> IF c = {"smoke"} THEN 1
                       ELSE IF c \in {{"draw"}, {"draw", "save"}, {"smoke", "capture"},
                                        {"milestone", "capture", "save", "crash"}} THEN 4 ELSE 3]
\* Some models leave a text exactly as much room as its sections take.
Target(window, limit, schema) == [window |-> window, limit |-> limit, schema |-> schema]
MCTargets ==
    {Target(0, 0, 240), Target(600, 0, 240), Target(8000, 783, 240), Target(32000, 1533, 240),
     Target(32000, 0, 2390)}
MCTexts ==
    {[intro |-> 329, project |-> p, file_map |-> f, task |-> t, task_digest |-> d,
      selected_thread |-> s, dogfood |-> g, assets |-> 0, recent_threads |-> r, rules |-> 1193] :
        p \in {240, 241}, f \in {0, 1500}, t \in {0, 400, 401, 2601}, d \in {0, 7000},
        g \in {0, 600}, s \in {0, 97}, r \in {0, 904}}
=============================================================================
