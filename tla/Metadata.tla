------------------------------ MODULE Metadata ------------------------------
(***************************************************************************)
(* The catalog of models (metadata_service.py): refreshes, which run in    *)
(* threads of their own and may import the catalog into the settings, one  *)
(* request of RouterConfig after the other, and the matrix of tests, which *)
(* puts the secrets of key files into the environment.                     *)
(*                                                                         *)
(* Abstracted: the contents of sources and reports; efforts and            *)
(* temperatures, which only make more cases.                               *)
(***************************************************************************)
EXTENDS KeyVault

CONSTANTS
    Managed,        \* models of the catalog
    Filed,          \* the secret of the key file
    KeptJobs,       \* jobs that are remembered
    MaxJobs         \* bound

ASSUME MetadataAssumption ==
    /\ Managed \subseteq Models
    /\ \A m \in Managed : m[1] \in DOMAIN Seed => <<m[1], Seed[m[1]]>> \in Managed
    /\ Filed \notin Users \cup {Nobody, Own, Nothing}
    /\ KeptJobs \in Nat \ {0} /\ MaxJobs \in Nat

VARIABLES
    jobs,           \* status of each refresh that was started
    work,           \* refresh of an actor; alone, if no one else has changed
                    \* the settings since it listed the models
    todo            \* what an import has yet to write

catalog == <<jobs, work, todo>>
vars == <<vaultVars, catalog>>

NoWork == [job |-> 0, apply |-> FALSE, alone |-> FALSE]
Vaults == <<area, files, memory>>

-----------------------------------------------------------------------------
(* Refreshes.                                                              *)

\* start_refresh; the oldest jobs are forgotten, running or not.  The worker
\* takes the place of an actor.
StartRefresh(a, apply) ==
    LET j == Len(jobs) + 1 IN
    /\ At(a, "idle") /\ j <= MaxJobs
    /\ jobs' = [i \in 1 .. j |->
                  IF i = j THEN "running"
                  ELSE IF i <= j - KeptJobs THEN "forgotten" ELSE jobs[i]]
    /\ work' = [work EXCEPT ![a] = [job |-> j, apply |-> apply, alone |-> FALSE]]
    /\ Goto(a, "fetch")
    /\ UNCHANGED <<op, after, config, Vaults, variable, todo>>

\* refresh and import_seed are made by the request itself.
Refresh(a, apply) ==
    /\ At(a, "idle")
    /\ work' = [work EXCEPT ![a] = [NoWork EXCEPT !.apply = apply]]
    /\ Goto(a, "fetch")
    /\ UNCHANGED <<op, after, config, Vaults, variable, jobs, todo>>

\* _fetch_sources does not fail; what it brings goes into the report only.
Fetch(a) ==
    /\ At(a, "fetch")
    /\ IF work[a].apply THEN Use(a, NoOp, "listed")
       ELSE Goto(a, "artifacts") /\ UNCHANGED <<op, after>>
    /\ UNCHANGED <<config, Vaults, variable, catalog>>

ManagedProviders == {m[1] : m \in Managed}
Belongs(m) == m[1] \in ManagedProviders

\* Mutant: models that are not of the catalog are left.
ToImportOver(file) ==
    ({"provider"} \X ManagedProviders) \cup ({"model"} \X Managed)

\* Models a managed provider has beside those of the catalog are deleted.
ToImport(file) ==
    ({"unmodel"} \X {m \in file.models : Belongs(m) /\ m \notin Managed})
    \cup ({"provider"} \X ManagedProviders)
    \cup ({"model"} \X Managed)

List(a) ==
    /\ At(a, "listed")
    /\ todo' = [todo EXCEPT ![a] = ToImport(copy[a])]
    /\ copy' = [copy EXCEPT ![a] = NoFile]
    /\ work' = [work EXCEPT ![a].alone = (store = copy[a])]
    /\ Goto(a, "import")
    /\ UNCHANGED <<op, after, store, profiles, saved, gone, Vaults, variable, jobs>>

Rank(kind) ==
    CASE kind = "unmodel" -> 1 [] kind = "provider" -> 2 [] OTHER -> 3

Import(a) ==
    /\ At(a, "import")
    /\ IF todo[a] = {}
       THEN Goto(a, "artifacts") /\ UNCHANGED <<op, after, todo>>
       ELSE \E o \in todo[a] :
              /\ \A q \in todo[a] : Rank(o[1]) <= Rank(q[1])
              /\ Use(a, o, "import")
              /\ todo' = [todo EXCEPT ![a] = @ \ {o}]
    /\ UNCHANGED <<config, Vaults, variable, jobs, work>>

Remembered(j) == j \in DOMAIN jobs /\ jobs[j] # "forgotten"

End(a, status) ==
    LET j == work[a].job IN
    /\ jobs' = IF Remembered(j) THEN [jobs EXCEPT ![j] = status] ELSE jobs
    /\ work' = [work EXCEPT ![a] = NoWork]
    /\ todo' = [todo EXCEPT ![a] = {}]
    /\ Goto(a, "idle")
    /\ UNCHANGED <<op, after, config, Vaults, variable>>

\* The artifacts are written; "partial" is also what a refresh is none of
\* whose sources answered.
Finish(a) == At(a, "artifacts") /\ \E status \in {"success", "partial"} : End(a, status)

\* A file can not be written; what has been imported stays.
Fail(a) == pc[a] \in {"import", "artifacts"} /\ End(a, "failed")

-----------------------------------------------------------------------------
(* test_matrix.                                                            *)

\* It reads the providers, and the models.
BeginMatrix(a) ==
    /\ At(a, "idle")
    /\ Use(a, NoOp, "models")
    /\ UNCHANGED <<config, Vaults, variable, catalog>>

ReadOn(a) ==
    /\ pc[a] \in {"models", "catalog"}
    /\ Use(a, NoOp, IF At(a, "models") THEN "cases" ELSE "end")
    /\ UNCHANGED <<config, Vaults, variable, catalog>>

\* The secret of the key file, or the one the variable holds, is tried; the
\* original is that of the first case.
Case(a) ==
    /\ At(a, "cases")
    /\ restore' = [restore EXCEPT ![a] = IF Testing(a) THEN @ ELSE env]
    /\ env' \in {env, Filed}
    /\ mixed' = (mixed \/ \E b \in Actors \ {a} : Testing(b))
    /\ Use(a, <<"result", 0>>, "cases")
    /\ UNCHANGED <<config, Vaults, injected, catalog>>

\* Mutant: the variable keeps what the last case has put there.
LeaveIt(a) == restore' = [restore EXCEPT ![a] = Nothing] /\ UNCHANGED env

PutBack(a) ==
    /\ env' = IF Testing(a) THEN restore[a] ELSE env
    /\ restore' = [restore EXCEPT ![a] = Nothing]

\* After too many errors the report is written first.
EndMatrix(a) ==
    /\ At(a, "cases")
    /\ PutBack(a) \/ UNCHANGED <<env, restore>>
    /\ Use(a, NoOp, "catalog")
    /\ UNCHANGED <<config, Vaults, injected, mixed, catalog>>

\* The report is written, or a key file without a line ends it before that.
LeaveMatrix(a) ==
    /\ pc[a] \in {"cases", "end"}
    /\ PutBack(a)
    /\ Goto(a, "idle")
    /\ UNCHANGED <<op, after, config, Vaults, injected, mixed, catalog>>

-----------------------------------------------------------------------------
Init ==
    /\ VaultInit
    /\ jobs = <<>>
    /\ work = [a \in Actors |-> NoWork]
    /\ todo = [a \in Actors |-> {}]

\* Those who were importing are not alone any more when the settings change.
Step(a) ==
    /\ ConfigStep(a)
    /\ work' = [b \in Actors |-> IF b = a \/ store' = store THEN work[b]
                                 ELSE [work[b] EXCEPT !.alone = FALSE]]
    /\ UNCHANGED <<Vaults, variable, jobs, todo>>

RefreshNext(a) ==
    \/ Fetch(a) \/ List(a) \/ Import(a) \/ Finish(a) \/ Fail(a)
    \/ "refresh" \in area /\ \E apply \in BOOLEAN : StartRefresh(a, apply)
    \/ "import" \in area /\ \E apply \in BOOLEAN : Refresh(a, apply)

MatrixNext(a) ==
    \/ ReadOn(a) \/ Case(a) \/ EndMatrix(a) \/ LeaveMatrix(a)
    \/ "matrix" \in area /\ BeginMatrix(a)

Next ==
    \/ VaultNext /\ UNCHANGED catalog
    \/ \E a \in Actors :
           \/ Step(a) \/ RefreshNext(a) \/ MatrixNext(a)
           \/ /\ "settings" \in area
              /\ \E c \in Changes : Request(a, c)
              /\ UNCHANGED <<Vaults, variable, catalog>>

Spec == Init /\ [][Next]_vars

-----------------------------------------------------------------------------
(* Properties.                                                             *)

TypeOK ==
    /\ ConfigTypeOK
    /\ pc \in [Actors -> {"idle", "load", "loaded", "write", "restore", "seal",
                          "changing", "changed", "fetch", "listed", "import",
                          "artifacts", "models", "cases", "catalog", "end"}]
    /\ \A u \in Users : vault[u].salt \in Nat
    /\ session.user \in Users \cup {Nobody} /\ plain \in BOOLEAN
    /\ env \in Users \cup {Own, Filed}
    /\ injected \in Users \cup {Own, Nothing, Filed}
    /\ clashed \subseteq Users /\ mixed \in BOOLEAN
    /\ jobs \in Seq({"running", "success", "partial", "failed", "forgotten"})
    /\ \A a \in Actors : At(a, "idle") => ~Testing(a) /\ work[a] = NoWork /\ todo[a] = {}

NoJobIsStuck ==
    \A j \in DOMAIN jobs : Remembered(j) =>
        (jobs[j] = "running" <=> \E a \in Actors : work[a].job = j)

ImportIsWhole ==
    \A a \in Actors : At(a, "artifacts") /\ work[a].apply /\ work[a].alone =>
        /\ ManagedProviders \subseteq store.providers
        /\ {m \in store.models : Belongs(m)} = Managed

\* A job that is shown as running has a worker that will end it, whatever fails,
\* and one that is shown as ended has none, though jobs are forgotten while they
\* run; and an import that is not disturbed leaves the providers of the catalog
\* with its models and no others, though it is made of many requests each of
\* which completes the file, and makes entries, by itself.
RefreshIsTold == TypeOK /\ NoJobIsStuck /\ ImportIsWhole
=============================================================================
