------------------------------ MODULE KeyVault ------------------------------
(***************************************************************************)
(* The key manager (llm_api_manager_service.py): vaults of users, sealed   *)
(* with keys derived from their passwords, the session, and the secrets it *)
(* puts into the environment, for turns and, for a while, for tests of a   *)
(* provider.  Tests go through the router and record their result in the   *)
(* settings (RouterConfig).  Requests hold no lock.                        *)
(*                                                                         *)
(* A user has one key, for the one environment variable there is; the      *)
(* secret of the key of u is written u.  Passwords, and the keys derived   *)
(* from them, are numbered.                                                *)
(***************************************************************************)
EXTENDS RouterConfig

CONSTANTS
    Users, Nobody,
    Own,            \* what the variable holds when the sidecar starts
    Nothing,
    MaxPasswords,   \* bound: numbers of a password that is changed
    Areas           \* bound: what requests there are at once, sets of areas

ASSUME VaultAssumption ==
    /\ {Nobody, Own, Nothing} \cap Users = {} /\ Own # Nothing
    /\ MaxPasswords \in Nat \ {0}
    /\ Areas \subseteq SUBSET {"settings", "sessions", "passwords", "health",
                         "refresh", "import", "matrix"}

VARIABLES
    area,           \* areas requests are made in
    vault,          \* vault.abvault of each user: salt, key, has it the key
    session,        \* user and _unlock_key
    plain,          \* _vault_plain has the key
    env,            \* the environment variable
    injected,       \* _injected_env of it
    restore,        \* original of a test
    head,           \* user and salt a save has read
    change,         \* user and content a change of the password has read
    clashed,        \* users whose vault two requests were about at once
    mixed           \* the variable was changed while a test was under way

files == <<vault, head, change, clashed>>
memory == <<session, plain>>
variable == <<env, injected, restore, mixed>>
requests == <<pc, op, after>>
vaultVars == <<requests, config, area, files, memory, variable>>

NoHead == [user |-> Nobody, salt |-> 0]
NoChange == [user |-> Nobody, key |-> 0, full |-> FALSE]
NoVault == [salt |-> 0, key |-> 0, full |-> FALSE]
LoggedIn == session.user # Nobody
Exists(u) == vault[u].salt # 0
Opens(u) == Exists(u) /\ vault[u].salt = vault[u].key

Testing(a) == restore[a] # Nothing
\* A save reads the salt of the vault, a change its content.
Sealing(a, u) == At(a, "seal") /\ head[a].user = u
Changing(a, u) == pc[a] \in {"changing", "changed"} /\ change[a].user = u
BusyWith(u) == \E a \in Actors : Sealing(a, u) \/ Changing(a, u)

-----------------------------------------------------------------------------
(* Sessions.                                                               *)

\* Whoever is saving will find another session.
Enter(u, key, full) ==
    /\ session' = [user |-> u, key |-> key]
    /\ plain' = full
    /\ clashed' = clashed \cup {v \in Users : \E a \in Actors : Sealing(a, v)}

CreateUser(u) ==
    /\ ~Exists(u)
    /\ vault' = [vault EXCEPT ![u] = [salt |-> 1, key |-> 1, full |-> FALSE]]
    /\ Enter(u, 1, FALSE)
    /\ UNCHANGED <<requests, config, area, head, change, variable>>

\* The session of another user, and what it has injected, is not ended first.
Login(u) ==
    /\ Opens(u)
    /\ Enter(u, vault[u].key, vault[u].full)
    /\ UNCHANGED <<requests, config, area, vault, head, change, variable>>

\* inject_profile_key, whenever a profile is resolved.
Inject ==
    /\ LoggedIn /\ plain
    /\ env' = session.user
    /\ injected' = IF injected = Nothing THEN env ELSE injected
    /\ mixed' = (mixed \/ \E a \in Actors : Testing(a))
    /\ UNCHANGED <<requests, config, area, files, memory, restore>>

RestoreInjected ==
    /\ env' = IF injected = Nothing THEN env ELSE injected
    /\ injected' = Nothing
    /\ mixed' = (mixed \/ (injected # Nothing /\ \E a \in Actors : Testing(a)))
    /\ UNCHANGED restore

Logout ==
    /\ RestoreInjected
    /\ Enter(Nobody, 0, FALSE)
    /\ UNCHANGED <<requests, config, area, vault, head, change>>

-----------------------------------------------------------------------------
(* Saves of the vault.                                                     *)

\* _save_current_vault up to the header; without a session nothing is saved.
ReadHead(a) ==
    IF ~LoggedIn THEN Goto(a, "idle") /\ UNCHANGED <<head, clashed>>
    ELSE /\ head' = [head EXCEPT ![a] =
                        [user |-> session.user, salt |-> vault[session.user].salt]]
         /\ Goto(a, "seal")
         /\ clashed' = IF \E b \in Actors : Changing(b, session.user)
                       THEN clashed \cup {session.user} ELSE clashed

SaveKey(a) ==
    /\ At(a, "idle") /\ LoggedIn
    /\ plain' = TRUE
    /\ ReadHead(a)
    /\ UNCHANGED <<op, after, config, area, vault, session, change, variable>>

DeleteKey(a) ==
    /\ At(a, "idle") /\ LoggedIn
    /\ plain' = FALSE
    /\ IF plain THEN RestoreInjected ELSE UNCHANGED variable
    /\ ReadHead(a)
    /\ UNCHANGED <<op, after, config, area, vault, session, change>>

\* The key and the content are those of the session there is now.
Seal(a) ==
    /\ At(a, "seal")
    /\ vault' = IF ~LoggedIn THEN vault
                ELSE [vault EXCEPT ![head[a].user] =
                         [salt |-> head[a].salt, key |-> session.key, full |-> plain]]
    /\ head' = [head EXCEPT ![a] = NoHead]
    /\ Goto(a, "idle")
    /\ UNCHANGED <<op, after, config, area, change, clashed, memory, variable>>

-----------------------------------------------------------------------------
(* change_password.                                                        *)

ReadOld(a, u) ==
    /\ At(a, "idle") /\ Opens(u) /\ vault[u].salt < MaxPasswords
    /\ change' = [change EXCEPT ![a] = [user |-> u, key |-> 0, full |-> vault[u].full]]
    /\ clashed' = IF BusyWith(u) THEN clashed \cup {u} ELSE clashed
    /\ Goto(a, "changing")
    /\ UNCHANGED <<op, after, config, area, vault, head, memory, variable>>

WriteNew(a) ==
    LET u == change[a].user
        next == vault[u].salt + 1
    IN
    /\ At(a, "changing")
    /\ vault' = [vault EXCEPT ![u] = [salt |-> next, key |-> next, full |-> change[a].full]]
    /\ change' = [change EXCEPT ![a].key = next]
    /\ Goto(a, "changed")
    /\ UNCHANGED <<op, after, config, area, head, clashed, memory, variable>>

\* Mutant: the session keeps the old key.
TakeUpNothing(a) ==
    /\ At(a, "changed")
    /\ change' = [change EXCEPT ![a] = NoChange]
    /\ Goto(a, "idle")
    /\ UNCHANGED <<op, after, config, area, vault, head, clashed, memory, variable>>

\* The session of the user goes on with the new key.
TakeUp(a) ==
    LET u == change[a].user IN
    /\ At(a, "changed")
    /\ IF session.user = u
       THEN /\ session' = [session EXCEPT !.key = change[a].key]
            /\ plain' = change[a].full
       ELSE UNCHANGED memory
    /\ change' = [change EXCEPT ![a] = NoChange]
    /\ Goto(a, "idle")
    /\ UNCHANGED <<op, after, config, area, vault, head, clashed, variable>>

-----------------------------------------------------------------------------
(* test_key and run_health.                                                *)

BeginTest(a) ==
    /\ At(a, "idle") /\ LoggedIn /\ plain
    /\ restore' = [restore EXCEPT ![a] = env]
    /\ env' = session.user
    /\ mixed' = (mixed \/ \E b \in Actors : Testing(b))
    /\ Use(a, <<"result", 0>>, "restore")
    /\ UNCHANGED <<config, area, files, memory, injected>>

\* Without a key of the session it goes on with what the variable holds.
BeginHealth(a) ==
    /\ At(a, "idle")
    /\ IF LoggedIn /\ plain
       THEN /\ restore' = [restore EXCEPT ![a] = env]
            /\ env' = session.user
            /\ mixed' = (mixed \/ \E b \in Actors : Testing(b))
       ELSE UNCHANGED <<env, restore, mixed>>
    \* Only if it succeeds it saves the entry of the model.
    /\ \E o \in {<<"result", 0>>} \cup ({"health"} \X store.models) :
           Use(a, o, "restore")
    /\ UNCHANGED <<config, area, files, memory, injected>>

EndTest(a) ==
    /\ At(a, "restore")
    /\ env' = IF Testing(a) THEN restore[a] ELSE env
    /\ restore' = [restore EXCEPT ![a] = Nothing]
    /\ ReadHead(a)
    /\ UNCHANGED <<op, after, config, area, vault, change, memory, injected, mixed>>

-----------------------------------------------------------------------------
VaultInit ==
    /\ pc = [a \in Actors |-> "idle"]
    /\ ConfigInit
    /\ area \in Areas
    /\ vault = [u \in Users |-> NoVault]
    /\ session = [user |-> Nobody, key |-> 0] /\ plain = FALSE
    /\ env = Own /\ injected = Nothing /\ mixed = FALSE
    /\ restore = [a \in Actors |-> Nothing]
    /\ head = [a \in Actors |-> NoHead]
    /\ change = [a \in Actors |-> NoChange]
    /\ clashed = {}

SessionNext ==
    \/ Inject \/ Logout
    \/ \E u \in Users : CreateUser(u) \/ Login(u)
    \/ \E a \in Actors : SaveKey(a) \/ DeleteKey(a) \/ BeginTest(a)

\* What a request about a vault goes on with.
VaultStep(a) == Seal(a) \/ WriteNew(a) \/ TakeUp(a) \/ EndTest(a)

VaultNext ==
    \/ "sessions" \in area /\ SessionNext
    \/ \E a \in Actors :
           \/ VaultStep(a)
           \/ "passwords" \in area /\ \E u \in Users : ReadOld(a, u)
           \/ "health" \in area /\ BeginHealth(a)

-----------------------------------------------------------------------------
(* Properties.                                                             *)

\* A vault can be opened with the password its user set last, and while nothing
\* is being written it has the key the session shows, whatever other users do:
\* _save_current_vault seals with the key of the session under the salt of the
\* file.  That takes that no two requests were about the vault at once.
VaultsOpen ==
    /\ \A u \in Users : Exists(u) /\ u \notin clashed =>
        /\ Opens(u) \/ \E a \in Actors : Sealing(a, u)
        /\ session.user = u /\ ~BusyWith(u) =>
              vault[u].full = plain /\ session.key = vault[u].key

\* After a logout the variable is what it was when the sidecar started, through
\* injections, switches of users without a logout, tests and deleted keys, if
\* no test was under way while a session changed the variable.
VariableComesBack ==
    ~mixed /\ ~LoggedIn /\ (\A a \in Actors : ~Testing(a)) => env = Own
=============================================================================
