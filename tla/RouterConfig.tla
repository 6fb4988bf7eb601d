---------------------------- MODULE RouterConfig ----------------------------
(***************************************************************************)
(* The settings of providers and models (router_config_service.py).  Every *)
(* request, one that only reads as well, loads the file, completes it and  *)
(* writes it back; no lock is held in between.                             *)
(*                                                                         *)
(* Abstracted: the fields of providers and models; the reasoning settings  *)
(* and the last test result, which are written along.                      *)
(***************************************************************************)
EXTENDS Naturals, Sequences, FiniteSets

CONSTANTS
    Actors,         \* requests under way at once
    Providers,
    Profiled,       \* providers with a default profile
    Models,         \* provider and native model of each entry there may be
    Seed            \* default model of each provider that has one

ASSUME ConfigAssumption ==
    /\ Profiled \subseteq Providers /\ Profiled # {}
    /\ Providers \cap Models = {}
    /\ \A m \in Models : m[1] \in Providers
    /\ \A p \in DOMAIN Seed : <<p, Seed[p]>> \in Models
    /\ Profiled \subseteq DOMAIN Seed

VARIABLES
    pc, op,         \* step of an actor, and what it does to the file
    after,          \* step it goes on with when it is done with the file
    store,          \* router_config.json
    profiles,       \* providers that have a profile with a base URL
    copy,           \* what an actor has loaded
    saved, gone     \* items whose last request saved or deleted them, if no
                    \* other request held a copy of the file then

config == <<store, profiles, copy, saved, gone>>

At(a, step) == pc[a] = step
Goto(a, step) == pc' = [pc EXCEPT ![a] = step]

Seeds == {<<p, Seed[p]>> : p \in DOMAIN Seed}
NoFile == [providers |-> {}, models |-> {}]
NoOp == <<"read", 0>>

\* Mutant: providers of the profiles are added every time.
LoadedAnew(file) ==
    LET providers == file.providers \cup profiles
        bare == {p \in providers : \A m \in file.models : m[1] # p}
    IN  [providers |-> providers,
         models |-> file.models \cup {m \in Seeds : m[1] \in bare}]

\* _load: without providers those of the profiles are taken; a provider that
\* has no model gets its own.
Loaded(file) ==
    LET providers == IF file.providers = {} THEN profiles ELSE file.providers
        bare == {p \in providers : \A m \in file.models : m[1] # p}
    IN  [providers |-> providers,
         models |-> file.models \cup {m \in Seeds : m[1] \in bare}]

\* What a request makes of the file.
Changed(file, change, item) ==
    CASE change = "provider" -> [file EXCEPT !.providers = @ \cup {item}]
      [] change \in {"model", "default", "checked"} -> [file EXCEPT !.models = @ \cup {item}]
      [] change = "unprovider" ->
            [providers |-> file.providers \ {item},
             models |-> {m \in file.models : m[1] # item}]
      [] change = "unmodel" -> [file EXCEPT !.models = @ \ {item}]
      [] OTHER -> file

Changes ==
    ({"provider", "unprovider"} \X Providers)
    \cup ({"model", "unmodel"} \X Models)
    \cup {NoOp}

-----------------------------------------------------------------------------
\* A step of an actor that needs the file, and goes on with step `then`.
Use(a, change, then) ==
    /\ op' = [op EXCEPT ![a] = change]
    /\ after' = [after EXCEPT ![a] = then]
    /\ Goto(a, "load")

Request(a, change) ==
    /\ At(a, "idle")
    /\ Use(a, change, "idle")
    /\ UNCHANGED config

Load(a) ==
    /\ At(a, "load")
    /\ copy' = [copy EXCEPT ![a] = Loaded(store)]
    /\ Goto(a, "loaded")
    /\ UNCHANGED <<op, after, store, profiles, saved, gone>>

\* What has been listed is kept.
EndConfig(a) ==
    /\ Goto(a, after[a])
    /\ after' = [after EXCEPT ![a] = "idle"]
    /\ op' = [op EXCEPT ![a] = NoOp]
    /\ copy' = [copy EXCEPT ![a] = IF after[a] = "listed" THEN @ ELSE NoFile]

WriteBack(a) ==
    /\ At(a, "loaded")
    /\ store' = copy[a]
    /\ IF op[a] = NoOp THEN EndConfig(a)
       ELSE Goto(a, "write") /\ UNCHANGED <<op, after, copy>>
    /\ UNCHANGED <<profiles, saved, gone>>

Raced(a) == \E b \in Actors \ {a} : pc[b] \in {"loaded", "write"}

\* The items a change saves or deletes.
Subjects(change, item) ==
    IF change = "unprovider" THEN {item} \cup {m \in Models : m[1] = item}
    ELSE IF change \in {"result", "health"} THEN {} ELSE {item}

\* What a request does next: upsert_provider makes an entry for the default
\* model, and a health check that succeeded saves the entry of the model.
Follow(change, item) ==
    IF change = "provider" /\ item \in DOMAIN Seed
    THEN <<"default", <<item, Seed[item]>>>>
    ELSE IF change = "health" THEN <<"checked", item>>
    ELSE NoOp

Write(a) ==
    LET change == op[a][1]
        item == op[a][2]
        subjects == Subjects(change, item)
        deletes == change \in {"unprovider", "unmodel"}
    IN
    /\ At(a, "write")
    /\ store' = Changed(copy[a], change, item)
    /\ saved' = (saved \ subjects) \cup IF deletes \/ Raced(a) THEN {} ELSE subjects
    \* Without providers, those of the profiles will come back.
    /\ gone' = IF store'.providers = {} THEN {}
               ELSE (gone \ subjects) \cup IF deletes /\ ~Raced(a) THEN subjects ELSE {}
    /\ profiles' = IF change = "provider" /\ item \in DOMAIN Seed
                   THEN profiles \cup {item} ELSE profiles
    /\ IF Follow(change, item) # NoOp
       THEN /\ op' = [op EXCEPT ![a] = Follow(change, item)]
            /\ Goto(a, "load")
            /\ UNCHANGED <<after, copy>>
       ELSE EndConfig(a)

ConfigStep(a) == Load(a) \/ WriteBack(a) \/ Write(a)

ConfigInit ==
    /\ op = [a \in Actors |-> NoOp]
    /\ after = [a \in Actors |-> "idle"]
    /\ store = NoFile
    /\ profiles = Profiled
    /\ copy = [a \in Actors |-> NoFile]
    /\ saved = {} /\ gone = {}

-----------------------------------------------------------------------------
Items(file) == file.providers \cup file.models

ConfigTypeOK ==
    /\ \A file \in {store} \cup {copy[a] : a \in Actors} :
           file.providers \subseteq Providers /\ file.models \subseteq Models
    /\ saved \cap gone = {}

\* A provider or a model that was saved is there until it is deleted, and one
\* that was deleted is not, however many polls write the file back (providers(),
\* models() and snapshot() do), unless another request had loaded the file
\* before.  Only the seed of a provider comes back when its last model goes, and
\* the providers of the profiles when the last provider does.
SettingsAreKept ==
    /\ saved \subseteq Items(store)
    /\ gone \cap Items(store) \subseteq Seeds
=============================================================================
