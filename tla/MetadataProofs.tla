--------------------------- MODULE MetadataProofs ---------------------------
(***************************************************************************)
(* Proofs about the settings, the vaults, the environment variable and the *)
(* refreshes, in the composition of Metadata with KeyVault and             *)
(* RouterConfig, for any requests, users, providers and models.            *)
(*                                                                         *)
(* They hold of each other's steps because these leave alone what they are *)
(* about, and so have an invariant each: SettingsInv of the copies that    *)
(* requests hold of the file, VaultInv of the salts and contents they have *)
(* read, VariableInv of the values they will restore, and RefreshInv of    *)
(* what an import has yet to do and who works on which job.                *)
(***************************************************************************)
EXTENDS Metadata, TLAPS

Steps == {"idle", "load", "loaded", "write", "restore", "seal", "changing",
          "changed", "fetch", "listed", "import", "artifacts", "models", "cases",
          "catalog", "end"}

\* Steps a request goes on with after it has used the file.
Later == {"idle", "restore", "import", "listed", "models", "cases", "catalog", "end"}

Ops ==
    ({"provider", "unprovider"} \X Providers)
    \cup ({"model", "unmodel", "default", "checked", "health"} \X Models)
    \cup {NoOp, <<"result", 0>>}

File == [providers : SUBSET Providers, models : SUBSET Models]
Secret == Users \cup {Own, Filed}
Vault == [salt : Nat, key : Nat, full : BOOLEAN]

PcType == pc \in [Actors -> Steps] /\ after \in [Actors -> Later]

ConfigType ==
    /\ op \in [Actors -> Ops] /\ todo \in [Actors -> SUBSET Ops]
    /\ store \in File /\ copy \in [Actors -> File]
    /\ profiles \subseteq Providers /\ profiles # {}

VaultType ==
    /\ vault \in [Users -> Vault]
    /\ session \in [user : Users \cup {Nobody}, key : Nat] /\ plain \in BOOLEAN
    /\ head \in [Actors -> [user : Users \cup {Nobody}, salt : Nat]]
    /\ change \in [Actors -> [user : Users \cup {Nobody}, key : Nat, full : BOOLEAN]]
    /\ clashed \subseteq Users

VariableType ==
    /\ env \in Secret /\ injected \in Secret \cup {Nothing} /\ mixed \in BOOLEAN
    /\ restore \in [Actors -> Secret \cup {Nothing}]

-----------------------------------------------------------------------------
(* The steps, by what they are about.                                      *)

FileAct(a) == Step(a)

SessionAct ==
    Inject \/ Logout \/ \E u \in Users : CreateUser(u) \/ Login(u)

VaultAct(a) ==
    SaveKey(a) \/ DeleteKey(a) \/ Seal(a) \/ WriteNew(a) \/ TakeUp(a)
    \/ \E u \in Users : ReadOld(a, u)

TestAct(a) == BeginTest(a) \/ BeginHealth(a) \/ EndTest(a)

MatrixAct(a) == BeginMatrix(a) \/ ReadOn(a) \/ Case(a) \/ EndMatrix(a) \/ LeaveMatrix(a)

RefreshAct(a) ==
    \/ Fetch(a) \/ List(a) \/ Import(a) \/ Finish(a) \/ Fail(a)
    \/ \E apply \in BOOLEAN : StartRefresh(a, apply) \/ Refresh(a, apply)

RequestAct(a) ==
    \E c \in Changes : Request(a, c) /\ UNCHANGED <<Vaults, variable, catalog>>

LEMMA NextCases ==
    ASSUME Next
    PROVE  \/ SessionAct /\ UNCHANGED catalog
           \/ \E a \in Actors :
                 \/ VaultAct(a) /\ UNCHANGED catalog
                 \/ TestAct(a) /\ UNCHANGED catalog
                 \/ FileAct(a) \/ MatrixAct(a) \/ RefreshAct(a) \/ RequestAct(a)
  BY DEF Next, VaultNext, SessionNext, VaultStep, RefreshNext, MatrixNext, SessionAct,
     VaultAct, TestAct, FileAct, MatrixAct, RefreshAct, RequestAct

\* The others stay where they are.
LEMMA PcStep ==
    ASSUME PcType, NEW a \in Actors,
           VaultAct(a) \/ TestAct(a) \/ FileAct(a) \/ MatrixAct(a) \/ RefreshAct(a)
           \/ RequestAct(a)
    PROVE  /\ PcType'
           /\ \A b \in Actors \ {a} : pc'[b] = pc[b] /\ after'[b] = after[b]
<1> USE DEF PcType, Steps, Later, Goto, Use
<1>1. CASE VaultAct(a)
  BY <1>1 DEF VaultAct, SaveKey, DeleteKey, ReadHead, Seal, WriteNew, TakeUp, ReadOld
<1>2. CASE TestAct(a)
  BY <1>2 DEF TestAct, BeginTest, BeginHealth, EndTest, ReadHead
<1>3. CASE FileAct(a)
  BY <1>3 DEF FileAct, Step, ConfigStep, Load, WriteBack, Write, EndConfig
<1>4. CASE MatrixAct(a)
  BY <1>4 DEF MatrixAct, BeginMatrix, ReadOn, Case, EndMatrix, LeaveMatrix
<1>5. CASE RefreshAct(a)
  BY <1>5 DEF RefreshAct, Fetch, List, Import, Finish, Fail, End, StartRefresh, Refresh
<1>6. CASE RequestAct(a)
  BY <1>6 DEF RequestAct, Request
<1>. QED  BY <1>1, <1>2, <1>3, <1>4, <1>5, <1>6

LEMMA SessionPc == ASSUME SessionAct PROVE UNCHANGED <<requests, config>>
  BY DEF SessionAct, Inject, Logout, CreateUser, Login

-----------------------------------------------------------------------------
(* The environment variable.                                               *)

\* A test is between its begin and its end.
Tests(a) ==
    LET steps == {"restore", "cases", "catalog", "end"} IN
    pc[a] \in steps \/ (pc[a] \in {"load", "loaded", "write"} /\ after[a] \in steps)

\* What the variable would hold without the test that is under way.
Beneath(v) ==
    /\ (\A a \in Actors : ~Testing(a)) => env = v
    /\ \A a \in Actors : Testing(a) => restore[a] = v

VariableInv ==
    /\ VariableType
    /\ \A a \in Actors : Testing(a) => Tests(a)
    /\ ~LoggedIn => injected = Nothing
    /\ ~mixed => /\ \A a, b \in Actors : Testing(a) /\ Testing(b) => a = b
                 /\ injected \in {Own, Nothing}
                 /\ injected = Nothing => Beneath(Own)

LEMMA SessionVariable ==
    ASSUME VaultType, VariableInv, SessionAct PROVE VariableInv'
<1> USE DEF VariableInv, VariableType, Secret, Beneath, Testing, Tests, LoggedIn
<1>1. UNCHANGED <<pc, after, restore>>
  BY DEF SessionAct, Inject, Logout, RestoreInjected, CreateUser, Login, requests,
     variable
<1>2. CASE Inject
  <2>1. /\ env' = session.user /\ session.user \in Users /\ UNCHANGED session
        /\ injected' = IF injected = Nothing THEN env ELSE injected
        /\ mixed' = (mixed \/ \E a \in Actors : Testing(a))
    BY <1>2 DEF Inject, memory, VaultType, LoggedIn
  <2>. QED  BY <1>1, <2>1, VaultAssumption, MetadataAssumption
<1>3. CASE Logout
  BY <1>1, <1>3, VaultAssumption, MetadataAssumption DEF Logout, RestoreInjected
<1>4. ASSUME NEW u \in Users, CreateUser(u) \/ Login(u) PROVE VariableInv'
  <2>1. UNCHANGED <<env, injected, mixed>> /\ session'.user = u
    BY <1>4 DEF CreateUser, Login, Enter, variable
  <2>. QED  BY <1>1, <2>1, VaultAssumption
<1>. QED  BY <1>2, <1>3, <1>4 DEF SessionAct

\* A test begins and ends.
LEMMA TestVariable ==
    ASSUME PcType, VaultType, VariableInv, NEW a \in Actors, TestAct(a) PROVE VariableInv'
<1> USE DEF VariableInv, VariableType, Secret, Beneath, Testing, Tests, LoggedIn
<1>1. \A b \in Actors \ {a} : pc'[b] = pc[b] /\ after'[b] = after[b]
  BY PcStep
<1>2. UNCHANGED session
  BY DEF TestAct, BeginTest, BeginHealth, EndTest, ReadHead, memory
<1>3. ASSUME pc[a] = "idle", LoggedIn,
             restore' = [restore EXCEPT ![a] = env], env' = session.user,
             mixed' = (mixed \/ \E b \in Actors : Testing(b)), UNCHANGED injected,
             pc'[a] = "load", after'[a] = "restore"
      PROVE  VariableInv'
  <2>1. session.user \in Users /\ ~Testing(a) /\ env # Nothing
    BY <1>3, VaultAssumption, MetadataAssumption DEF VaultType
  <2>2. restore'[a] = env /\ \A b \in Actors \ {a} : restore'[b] = restore[b]
    BY <1>3
  <2>. QED  BY <1>1, <1>2, <1>3, <2>1, <2>2
<1>4. CASE BeginTest(a)
  BY <1>3, <1>4 DEF BeginTest, Use, At, Goto, PcType
<1>5. CASE BeginHealth(a)
  <2>1. CASE LoggedIn /\ plain
    BY <1>3, <1>5, <2>1 DEF BeginHealth, Use, At, Goto, PcType
  <2>2. CASE ~(LoggedIn /\ plain)
    <3>1. UNCHANGED <<env, restore, mixed, injected>> /\ pc[a] = "idle"
      BY <1>5, <2>2 DEF BeginHealth, At
    <3>2. ~Testing(a)
      BY <3>1
    <3>. QED  BY <1>1, <1>2, <3>1, <3>2
  <2>. QED  BY <2>1, <2>2
<1>6. CASE EndTest(a)
  <2>1. /\ env' = IF Testing(a) THEN restore[a] ELSE env
        /\ restore' = [restore EXCEPT ![a] = Nothing]
        /\ UNCHANGED <<injected, mixed>>
    BY <1>6 DEF EndTest
  <2>. QED  BY <1>1, <1>2, <2>1
<1>. QED  BY <1>4, <1>5, <1>6 DEF TestAct

LEMMA MatrixVariable ==
    ASSUME PcType, VariableInv, NEW a \in Actors, MatrixAct(a) PROVE VariableInv'
<1> USE DEF VariableInv, VariableType, Secret, Beneath, Testing, Tests, LoggedIn
<1>1. \A b \in Actors \ {a} : pc'[b] = pc[b] /\ after'[b] = after[b]
  BY PcStep
<1>2. UNCHANGED <<session, injected>>
  BY DEF MatrixAct, BeginMatrix, ReadOn, Case, EndMatrix, LeaveMatrix, Vaults, memory,
     variable
<1>3. CASE BeginMatrix(a) \/ ReadOn(a)
  <2>1. UNCHANGED <<env, restore, mixed>>
    BY <1>3 DEF BeginMatrix, ReadOn, variable
  <2>2. Testing(a) => pc'[a] = "load" /\ after'[a] \in {"cases", "end"}
    BY <1>3 DEF BeginMatrix, ReadOn, Use, At, Goto, PcType
  <2>. QED  BY <1>1, <1>2, <2>1, <2>2
<1>4. CASE Case(a)
  <2>1. /\ restore' = [restore EXCEPT ![a] = IF Testing(a) THEN restore[a] ELSE env]
        /\ env' \in {env, Filed}
        /\ mixed' = (mixed \/ \E b \in Actors \ {a} : Testing(b))
        /\ pc'[a] = "load" /\ after'[a] = "cases"
    BY <1>4 DEF Case, Use, Goto, PcType
  <2>2. env # Nothing
    BY VaultAssumption, MetadataAssumption
  <2>. QED  BY <1>1, <1>2, <2>1, <2>2
<1>5. CASE EndMatrix(a)
  <2>1. /\ UNCHANGED mixed /\ pc'[a] = "load" /\ after'[a] = "catalog"
        /\ \/ UNCHANGED <<env, restore>>
           \/ /\ env' = IF Testing(a) THEN restore[a] ELSE env
              /\ restore' = [restore EXCEPT ![a] = Nothing]
    BY <1>5 DEF EndMatrix, PutBack, Use, Goto, PcType
  <2>. QED  BY <1>1, <1>2, <2>1
<1>6. CASE LeaveMatrix(a)
  <2>1. /\ UNCHANGED mixed
        /\ env' = IF Testing(a) THEN restore[a] ELSE env
        /\ restore' = [restore EXCEPT ![a] = Nothing]
    BY <1>6 DEF LeaveMatrix, PutBack
  <2>. QED  BY <1>1, <1>2, <2>1
<1>. QED  BY <1>3, <1>4, <1>5, <1>6 DEF MatrixAct

\* A request that uses the file goes on with a test, if it was in one.
LEMMA OtherVariable ==
    ASSUME PcType, VaultType, VariableInv, NEW a \in Actors,
           VaultAct(a) \/ FileAct(a) \/ RefreshAct(a) \/ RequestAct(a)
    PROVE  VariableInv'
<1> USE DEF VariableInv, VariableType, Secret, Beneath, Testing, Tests, LoggedIn
<1>1. \A b \in Actors \ {a} : pc'[b] = pc[b] /\ after'[b] = after[b]
  BY PcStep
<1>2. session'.user = session.user
  BY DEF VaultAct, SaveKey, DeleteKey, ReadHead, Seal, WriteNew, TakeUp, ReadOld,
     FileAct, Step, RefreshAct, Fetch, List, Import, Finish, Fail, End, StartRefresh,
     Refresh, RequestAct, Vaults, memory, VaultType
<1>3. CASE VaultAct(a)
  <2>1. ~Testing(a)
    BY <1>3 DEF VaultAct, SaveKey, DeleteKey, Seal, WriteNew, TakeUp, ReadOld, At
  <2>2. UNCHANGED variable \/ RestoreInjected
    BY <1>3 DEF VaultAct, SaveKey, DeleteKey, Seal, WriteNew, TakeUp, ReadOld
  <2>3. CASE UNCHANGED variable
    BY <1>1, <1>2, <2>1, <2>3 DEF variable
  <2>4. CASE RestoreInjected
    BY <1>1, <1>2, <2>1, <2>4, VaultAssumption, MetadataAssumption DEF RestoreInjected
  <2>. QED  BY <2>2, <2>3, <2>4
<1>4. CASE FileAct(a)
  <2>1. UNCHANGED variable
    BY <1>4 DEF FileAct, Step
  <2>2. Tests(a) => Tests(a)'
    BY <1>4 DEF FileAct, Step, ConfigStep, Load, WriteBack, Write, EndConfig, Goto, At,
       PcType
  <2>. QED  BY <1>1, <1>2, <2>1, <2>2 DEF variable
<1>5. CASE RefreshAct(a) \/ RequestAct(a)
  <2>1. UNCHANGED variable
    BY <1>5 DEF RefreshAct, Fetch, List, Import, Finish, Fail, End, StartRefresh,
       Refresh, RequestAct
  <2>2. ~Testing(a)
    BY <1>5 DEF RefreshAct, Fetch, List, Import, Finish, Fail, End, StartRefresh,
       Refresh, RequestAct, Request, At
  <2>. QED  BY <1>1, <1>2, <2>1, <2>2 DEF variable
<1>. QED  BY <1>3, <1>4, <1>5

-----------------------------------------------------------------------------
(* The vaults.                                                             *)

\* What holds of the vault of a user no two requests were about at once: it
\* opens; who saves it does so in its session and under its salt; who changes
\* its password is alone and has read its content; the session shows its content
\* but for a save, and has its key but for a change.
KeptOpen(u) == vault[u].salt = vault[u].key

KeptSeal(u) == \A a \in Actors :
    Sealing(a, u) => session.user = u /\ head[a].salt = vault[u].salt

KeptChange(u) == \A a \in Actors : Changing(a, u) =>
    /\ change[a].full = vault[u].full
    /\ At(a, "changed") => change[a].key = vault[u].key

KeptAlone(u) == \A a, b \in Actors :
    Changing(a, u) => ~Sealing(b, u) /\ (Changing(b, u) => b = a)

KeptPlain(u) == session.user = u =>
    vault[u].full = plain \/ \E a \in Actors : Sealing(a, u)

KeptKey(u) == session.user = u =>
    session.key = vault[u].key \/ \E a \in Actors : At(a, "changed") /\ change[a].user = u

Kept(u) ==
    /\ KeptOpen(u) /\ KeptSeal(u) /\ KeptChange(u) /\ KeptAlone(u)
    /\ KeptPlain(u) /\ KeptKey(u)

\* Whom the session and the requests are about has a vault.
Known ==
    /\ LoggedIn => Exists(session.user)
    /\ \A a \in Actors : At(a, "seal") =>
           head[a].user \in Users /\ Exists(head[a].user) /\ head[a].salt # 0
    /\ \A a \in Actors : pc[a] \in {"changing", "changed"} =>
           change[a].user \in Users /\ Exists(change[a].user)

VaultInv ==
    /\ VaultType /\ Known
    /\ \A u \in Users : Exists(u) /\ u \notin clashed => Kept(u)

\* Steps that are about something else.
LEMMA KeptFrame ==
    ASSUME NEW u \in Users, Kept(u), vault'[u] = vault[u],
           \/ session' = session /\ plain' = plain
           \/ session'.user # u /\ \A b \in Actors : ~Sealing(b, u),
           \A b \in Actors :
               /\ Sealing(b, u)' <=> Sealing(b, u)
               /\ Sealing(b, u) => head'[b] = head[b]
               /\ Changing(b, u)' <=> Changing(b, u)
               /\ Changing(b, u) => change'[b] = change[b] /\ pc'[b] = pc[b]
    PROVE  Kept(u)'
<1> USE DEF Kept
<1>1. KeptOpen(u)'
  BY DEF KeptOpen
<1>2. KeptSeal(u)'
  BY DEF KeptSeal
<1>3. KeptChange(u)'
  BY DEF KeptChange, At
<1>4. KeptAlone(u)'
  BY DEF KeptAlone
<1>5. KeptPlain(u)'
  BY DEF KeptPlain
<1>6. KeptKey(u)'
  BY DEF KeptKey, Changing, At
<1>. QED  BY <1>1, <1>2, <1>3, <1>4, <1>5, <1>6

LEMMA VaultFrame ==
    ASSUME VaultInv, UNCHANGED <<vault, session, plain, head, change, clashed>>,
           \A b \in Actors :
               \/ pc'[b] = pc[b]
               \/ {pc[b], pc'[b]} \cap {"seal", "changing", "changed"} = {}
    PROVE  VaultInv'
<1> USE DEF VaultInv
<1>1. VaultType'
  BY DEF VaultType
<1>2. Known'
  BY DEF Known, LoggedIn, Exists, At
<1>3. ASSUME NEW u \in Users, Exists(u), u \notin clashed PROVE Kept(u)'
  <2>1. Kept(u)
    BY <1>3
  <2>2. \A b \in Actors : /\ Sealing(b, u)' <=> Sealing(b, u)
                          /\ Changing(b, u)' <=> Changing(b, u)
                          /\ Changing(b, u) => pc'[b] = pc[b]
    BY DEF Sealing, Changing, At
  <2>. QED  BY <2>1, <2>2, KeptFrame
<1>. QED  BY <1>1, <1>2, <1>3 DEF Exists

LEMMA SessionVault ==
    ASSUME PcType, VaultInv, SessionAct PROVE VaultInv'
<1> USE VaultAssumption DEF VaultInv
<1>1. UNCHANGED <<pc, head, change>>
  BY DEF SessionAct, Inject, Logout, CreateUser, Login, requests, files
<1>2. CASE Inject
  BY <1>1, <1>2, VaultFrame DEF Inject, files, memory
<1>3. ASSUME NEW w \in Users \cup {Nobody}, NEW key \in Nat, NEW full \in BOOLEAN,
             Enter(w, key, full), VaultType', Known',
             \A u \in Users : u # w => vault'[u] = vault[u],
             w \in Users => /\ vault'[w].salt = vault'[w].key
                            /\ vault'[w].key = key /\ vault'[w].full = full
                            /\ \/ vault'[w] = vault[w]
                               \/ ~Exists(w)
      PROVE  VaultInv'
  <2>1. /\ session' = [user |-> w, key |-> key] /\ plain' = full
        /\ \A u \in Users : u \notin clashed' =>
               u \notin clashed /\ \A b \in Actors : ~Sealing(b, u)
    BY <1>3 DEF Enter
  <2>2. ASSUME NEW u \in Users, Exists(u)', u \notin clashed' PROVE Kept(u)'
    <3>1. CASE u # w
      <4>1. Kept(u) /\ vault'[u] = vault[u]
        BY <1>3, <2>1, <2>2, <3>1 DEF Exists
      <4>2. session'.user # u
        BY <2>1, <3>1
      <4>3. \A b \in Actors : /\ ~Sealing(b, u) /\ ~Sealing(b, u)'
                              /\ Changing(b, u)' <=> Changing(b, u)
        BY <1>1, <2>1, <2>2 DEF Sealing, Changing, At
      <4>. QED  BY <1>1, <4>1, <4>2, <4>3, KeptFrame
    <3>2. CASE u = w
      <4>1. KeptOpen(u)' /\ KeptPlain(u)' /\ KeptKey(u)'
        BY <1>3, <2>1, <3>2 DEF KeptOpen, KeptPlain, KeptKey
      <4>2. KeptSeal(u)'
        BY <1>1, <2>1, <2>2 DEF KeptSeal, Sealing, At
      <4>3. KeptChange(u)' /\ KeptAlone(u)'
        <5>1. CASE Exists(u)
          <6>1. Kept(u) /\ vault'[u] = vault[u]
            BY <1>3, <2>1, <2>2, <3>2, <5>1
          <6>. QED
            BY <1>1, <6>1 DEF Kept, KeptChange, KeptAlone, Sealing, Changing, At
        <5>2. CASE ~Exists(u)
          <6>1. \A b \in Actors : ~Changing(b, u)
            BY <5>2 DEF Known, Changing
          <6>. QED
            BY <1>1, <6>1 DEF KeptChange, KeptAlone, Changing, Sealing, At
        <5>. QED  BY <5>1, <5>2
      <4>. QED  BY <4>1, <4>2, <4>3 DEF Kept
    <3>. QED  BY <3>1, <3>2
  <2>. QED  BY <1>3, <2>2
<1>4. CASE Logout
  <2>1. Enter(Nobody, 0, FALSE) /\ UNCHANGED vault
    BY <1>4 DEF Logout
  <2>2. VaultType' /\ Known'
    BY <1>1, <2>1 DEF Enter, VaultType, Known, LoggedIn, Exists, At
  <2>. QED  BY <1>3, <2>1, <2>2
<1>5. ASSUME NEW u \in Users, CreateUser(u) PROVE VaultInv'
  <2>1. Enter(u, 1, FALSE) /\ ~Exists(u)
    BY <1>5 DEF CreateUser
  <2>2. /\ vault'[u] = [salt |-> 1, key |-> 1, full |-> FALSE]
        /\ \A v \in Users : v # u => vault'[v] = vault[v]
        /\ vault' \in [Users -> Vault]
    BY <1>5 DEF CreateUser, VaultType, Vault
  <2>3. VaultType'
    BY <1>1, <2>1, <2>2 DEF Enter, VaultType
  <2>4. Exists(u)' /\ \A v \in Users : Exists(v) => Exists(v)'
    BY <2>2 DEF Exists
  <2>5. Known'
    BY <1>1, <2>1, <2>4 DEF Enter, Known, LoggedIn, At
  <2>6. /\ vault'[u].salt = vault'[u].key /\ vault'[u].key = 1 /\ vault'[u].full = FALSE
        /\ 1 \in Nat /\ FALSE \in BOOLEAN
    BY <2>2
  <2>. QED  BY <1>3, <2>1, <2>2, <2>3, <2>5, <2>6
<1>6. ASSUME NEW u \in Users, Login(u) PROVE VaultInv'
  <2>1. /\ Enter(u, vault[u].key, vault[u].full) /\ UNCHANGED vault
        /\ Exists(u) /\ vault[u].salt = vault[u].key
        /\ vault[u].key \in Nat /\ vault[u].full \in BOOLEAN
    BY <1>6 DEF Login, Opens, VaultType, Vault
  <2>2. VaultType' /\ Known'
    BY <1>1, <2>1 DEF Enter, VaultType, Known, LoggedIn, Exists, At
  <2>. QED  BY <1>3, <2>1, <2>2
<1>. QED  BY <1>2, <1>4, <1>5, <1>6 DEF SessionAct

\* The header of the vault of the session is read.
LEMMA HeadVault ==
    ASSUME PcType, VaultInv, NEW a \in Actors, ReadHead(a),
           pc[a] \notin {"seal", "changing", "changed"},
           UNCHANGED <<vault, session, change>>, plain' \in BOOLEAN,
           LoggedIn \/ plain' = plain
    PROVE  VaultInv'
<1> USE DEF VaultInv
<1>1. CASE LoggedIn
  <2> DEFINE s == session.user
  <2>1. /\ pc' = [pc EXCEPT ![a] = "seal"]
        /\ head' = [head EXCEPT ![a] = [user |-> s, salt |-> vault[s].salt]]
        /\ clashed' = IF \E b \in Actors : Changing(b, s) THEN clashed \cup {s} ELSE clashed
        /\ s \in Users /\ vault[s].salt \in Nat /\ Exists(s)
    BY <1>1 DEF ReadHead, Goto, VaultType, Vault, Known, LoggedIn
  <2>2. /\ pc'[a] = "seal" /\ head'[a] = [user |-> s, salt |-> vault[s].salt]
        /\ \A b \in Actors \ {a} : pc'[b] = pc[b] /\ head'[b] = head[b]
    BY <2>1 DEF PcType, VaultType
  <2>3. VaultType'
    BY <2>1 DEF VaultType
  <2>4. Known'
    BY <2>1, <2>2 DEF Known, Exists, LoggedIn, At
  <2>5. ASSUME NEW u \in Users, Exists(u), u \notin clashed' PROVE Kept(u)'
    <3>0. Kept(u)
      BY <2>1, <2>5
    <3>1. CASE u = s
      <4>1. \A b \in Actors : ~Changing(b, u) /\ ~Changing(b, u)'
        BY <2>1, <2>2, <2>5, <3>1 DEF Changing
      <4>2. KeptOpen(u)'
        BY <3>0 DEF Kept, KeptOpen
      <4>3. KeptSeal(u)'
        BY <2>2, <3>0, <3>1 DEF Kept, KeptSeal, Sealing, At
      <4>4. KeptChange(u)' /\ KeptAlone(u)'
        BY <4>1 DEF KeptChange, KeptAlone
      <4>5. KeptPlain(u)'
        BY <2>2, <3>1 DEF KeptPlain, Sealing, At
      <4>6. KeptKey(u)'
        BY <2>2, <3>0 DEF Kept, KeptKey, At
      <4>. QED  BY <4>2, <4>3, <4>4, <4>5, <4>6 DEF Kept
    <3>2. CASE u # s
      BY <2>2, <3>0, <3>2 DEF Kept, KeptOpen, KeptSeal, KeptChange, KeptAlone, KeptPlain,
         KeptKey, Sealing, Changing, At
    <3>. QED  BY <3>1, <3>2
  <2>6. \A u \in Users : Exists(u)' <=> Exists(u)
    BY DEF Exists
  <2>. QED  BY <2>3, <2>4, <2>5, <2>6
<1>2. CASE ~LoggedIn
  <2>1. /\ UNCHANGED <<head, clashed, plain>> /\ pc'[a] = "idle"
        /\ \A b \in Actors \ {a} : pc'[b] = pc[b]
    BY <1>2 DEF ReadHead, Goto, PcType
  <2>. QED  BY <2>1, VaultFrame
<1>. QED  BY <1>1, <1>2

LEMMA SealVault ==
    ASSUME PcType, VaultInv, NEW a \in Actors, Seal(a) PROVE VaultInv'
<1> USE DEF VaultInv
<1> DEFINE h == head[a].user
<1>1. /\ pc[a] = "seal" /\ pc'[a] = "idle"
      /\ \A b \in Actors \ {a} : pc'[b] = pc[b] /\ head'[b] = head[b]
      /\ UNCHANGED <<change, clashed, session, plain>>
  BY DEF Seal, Goto, PcType, memory, At, VaultType
<1>2. h \in Users /\ Exists(h) /\ head[a].salt # 0 /\ head[a].salt \in Nat
  BY <1>1 DEF Known, At, VaultType
<1>3. /\ \A u \in Users \ {h} : vault'[u] = vault[u]
      /\ vault'[h] = IF ~LoggedIn THEN vault[h]
                     ELSE [salt |-> head[a].salt, key |-> session.key, full |-> plain]
  BY <1>2 DEF Seal, VaultType
<1>4. VaultType'
  <2>1. head' \in [Actors -> [user : Users \cup {Nobody}, salt : Nat]]
    BY DEF Seal, VaultType, NoHead
  <2>2. vault' \in [Users -> Vault]
    <3>1. session.key \in Nat /\ plain \in BOOLEAN
      BY DEF VaultType
    <3>2. [salt |-> head[a].salt, key |-> session.key, full |-> plain] \in Vault
      BY <1>2, <3>1 DEF Vault
    <3>. QED  BY <1>2, <3>2 DEF Seal, VaultType
  <2>. QED  BY <1>1, <2>1, <2>2 DEF VaultType
<1>5. \A u \in Users : Exists(u)' <=> Exists(u)
  BY <1>2, <1>3 DEF Exists
<1>6. Known'
  BY <1>1, <1>5 DEF Known, LoggedIn, At, VaultType
<1>7. ASSUME NEW u \in Users, Exists(u), u \notin clashed PROVE Kept(u)'
  <2>0. Kept(u)
    BY <1>7
  <2>1. CASE u = h
    <3>1. session.user = u /\ head[a].salt = vault[u].salt
      BY <1>1, <2>0, <2>1 DEF Kept, KeptSeal, Sealing, At
    <3>2. \A b \in Actors : ~Changing(b, u)
      BY <1>1, <2>0, <2>1 DEF Kept, KeptAlone, Sealing, At
    <3>3. session.key = vault[u].key
      BY <2>0, <3>1, <3>2 DEF Kept, KeptKey, Changing, At
    <3>4. LoggedIn
      BY <3>1, VaultAssumption DEF LoggedIn
    <3>5. /\ vault'[u].salt = vault[u].salt /\ vault'[u].key = vault[u].key
          /\ vault'[u].full = plain
      BY <1>3, <2>1, <3>1, <3>3, <3>4
    <3>6. KeptOpen(u)' /\ KeptPlain(u)' /\ KeptKey(u)'
      BY <1>1, <2>0, <3>3, <3>5 DEF Kept, KeptOpen, KeptPlain, KeptKey
    <3>7. KeptSeal(u)'
      BY <1>1, <2>0, <3>5 DEF Kept, KeptSeal, Sealing, At
    <3>8. \A b \in Actors : ~Changing(b, u)'
      BY <1>1, <3>2 DEF Changing
    <3>9. KeptChange(u)' /\ KeptAlone(u)'
      BY <3>8 DEF KeptChange, KeptAlone
    <3>. QED  BY <3>6, <3>7, <3>9 DEF Kept
  <2>2. CASE u # h
    BY <1>1, <1>3, <2>0, <2>2 DEF Kept, KeptOpen, KeptSeal, KeptChange, KeptAlone,
       KeptPlain, KeptKey, Sealing, Changing, At
  <2>. QED  BY <2>1, <2>2
<1>. QED  BY <1>1, <1>4, <1>5, <1>6, <1>7

ChangeType == [user : Users \cup {Nobody}, key : Nat, full : BOOLEAN]

LEMMA ReadOldVault ==
    ASSUME PcType, VaultInv, NEW a \in Actors, NEW u \in Users, ReadOld(a, u)
    PROVE  VaultInv'
<1> USE DEF VaultInv
<1>1. /\ pc[a] = "idle" /\ pc'[a] = "changing" /\ Exists(u)
      /\ change'[a] = [user |-> u, key |-> 0, full |-> vault[u].full]
      /\ \A b \in Actors \ {a} : pc'[b] = pc[b] /\ change'[b] = change[b]
      /\ clashed' = IF BusyWith(u) THEN clashed \cup {u} ELSE clashed
      /\ UNCHANGED <<vault, session, plain, head>>
  BY DEF ReadOld, Opens, Goto, PcType, memory, At, VaultType
<1>2. change' \in [Actors -> ChangeType]
  <2>1. [user |-> u, key |-> 0, full |-> vault[u].full] \in ChangeType
    BY DEF VaultType, Vault, ChangeType
  <2>. QED  BY <2>1 DEF ReadOld, VaultType, ChangeType
<1>3. VaultType' /\ Known'
  BY <1>1, <1>2 DEF VaultType, ChangeType, Known, LoggedIn, Exists, At
<1>4. ASSUME NEW v \in Users, Exists(v), v \notin clashed' PROVE Kept(v)'
  <2>0. Kept(v)
    BY <1>1, <1>4
  <2>1. CASE v = u
    <3>1. \A b \in Actors : ~Sealing(b, v) /\ ~Changing(b, v)
      BY <1>1, <1>4, <2>1 DEF BusyWith
    <3>2. \A b \in Actors : ~Sealing(b, v)' /\ (Changing(b, v)' => b = a)
      BY <1>1, <3>1 DEF Sealing, Changing, At
    <3>3. KeptSeal(v)' /\ KeptAlone(v)'
      BY <3>2 DEF KeptSeal, KeptAlone
    <3>4. KeptChange(v)'
      BY <1>1, <2>1, <3>2 DEF KeptChange, At
    <3>5. KeptOpen(v)' /\ KeptPlain(v)'
      BY <1>1, <2>0, <3>1 DEF Kept, KeptOpen, KeptPlain
    <3>6. KeptKey(v)'
      BY <1>1, <2>0, <3>1 DEF Kept, KeptKey, Changing, At
    <3>. QED  BY <3>3, <3>4, <3>5, <3>6 DEF Kept
  <2>2. CASE v # u
    BY <1>1, <2>0, <2>2 DEF Kept, KeptOpen, KeptSeal, KeptChange, KeptAlone,
       KeptPlain, KeptKey, Sealing, Changing, At
  <2>. QED  BY <2>1, <2>2
<1>. QED  BY <1>1, <1>3, <1>4 DEF Exists

LEMMA WriteNewVault ==
    ASSUME PcType, VaultInv, NEW a \in Actors, WriteNew(a) PROVE VaultInv'
<1> USE DEF VaultInv
<1> DEFINE c == change[a].user
           next == vault[c].salt + 1
<1>1. /\ pc[a] = "changing" /\ pc'[a] = "changed" /\ c \in Users
      /\ \A b \in Actors \ {a} : pc'[b] = pc[b] /\ change'[b] = change[b]
      /\ UNCHANGED <<clashed, session, plain, head>>
  BY DEF WriteNew, Goto, PcType, memory, At, VaultType, Known
<1>2. next \in Nat /\ next # 0 /\ change[a] \in ChangeType
  BY <1>1 DEF VaultType, Vault, ChangeType
<1>3. /\ vault' = [vault EXCEPT ![c] = [salt |-> next, key |-> next, full |-> change[a].full]]
      /\ change' = [change EXCEPT ![a].key = next]
  BY DEF WriteNew
<1>4. /\ vault'[c] = [salt |-> next, key |-> next, full |-> change[a].full]
      /\ \A u \in Users \ {c} : vault'[u] = vault[u]
  BY <1>1, <1>3 DEF VaultType
<1>5. change'[a].user = c /\ change'[a].full = change[a].full /\ change'[a].key = next
  BY <1>2, <1>3 DEF VaultType, ChangeType
<1>6. VaultType'
  <2>1. [salt |-> next, key |-> next, full |-> change[a].full] \in Vault
    BY <1>2 DEF Vault, ChangeType
  <2>2. [change[a] EXCEPT !.key = next] \in ChangeType
    BY <1>2 DEF ChangeType
  <2>3. vault' \in [Users -> Vault]
    BY <1>3, <2>1 DEF VaultType
  <2>4. change' \in [Actors -> ChangeType]
    BY <1>3, <2>2 DEF VaultType, ChangeType
  <2>. QED  BY <1>1, <2>3, <2>4 DEF VaultType, ChangeType
<1>7. \A u \in Users : Exists(u)' <=> Exists(u)
  BY <1>1, <1>2, <1>4 DEF Exists, Known
<1>8. Known'
  BY <1>1, <1>5, <1>7 DEF Known, LoggedIn, At, VaultType
<1>9. ASSUME NEW u \in Users, Exists(u), u \notin clashed PROVE Kept(u)'
  <2>0. Kept(u)
    BY <1>9
  <2>1. CASE u = c
    <3>1. /\ Changing(a, u) /\ change[a].full = vault[u].full
          /\ \A b \in Actors : ~Sealing(b, u) /\ (Changing(b, u) => b = a)
      BY <1>1, <2>0, <2>1 DEF Kept, KeptChange, KeptAlone, Changing
    <3>2. \A b \in Actors : ~Sealing(b, u)' /\ (Changing(b, u)' => b = a)
      BY <1>1, <3>1 DEF Sealing, Changing, At
    <3>3. KeptSeal(u)' /\ KeptAlone(u)'
      BY <3>2 DEF KeptSeal, KeptAlone
    <3>4. KeptChange(u)'
      BY <1>4, <1>5, <2>1, <3>2 DEF KeptChange
    <3>5. KeptOpen(u)'
      BY <1>4, <2>1 DEF KeptOpen
    <3>6. KeptPlain(u)'
      BY <1>1, <1>4, <2>0, <2>1, <3>1 DEF Kept, KeptPlain
    <3>7. KeptKey(u)'
      BY <1>1, <1>5, <2>1 DEF KeptKey, At
    <3>. QED  BY <3>3, <3>4, <3>5, <3>6, <3>7 DEF Kept
  <2>2. CASE u # c
    BY <1>1, <1>4, <1>5, <2>0, <2>2 DEF Kept, KeptOpen, KeptSeal, KeptChange, KeptAlone,
       KeptPlain, KeptKey, Sealing, Changing, At
  <2>. QED  BY <2>1, <2>2
<1>. QED  BY <1>1, <1>6, <1>7, <1>8, <1>9

LEMMA TakeUpVault ==
    ASSUME PcType, VaultInv, NEW a \in Actors, TakeUp(a) PROVE VaultInv'
<1> USE DEF VaultInv
<1> DEFINE c == change[a].user
<1>1. /\ pc[a] = "changed" /\ pc'[a] = "idle" /\ c \in Users
      /\ \A b \in Actors \ {a} : pc'[b] = pc[b] /\ change'[b] = change[b]
      /\ UNCHANGED <<clashed, vault, head>>
  BY DEF TakeUp, Goto, PcType, At, VaultType, Known
<1>2. change[a] \in ChangeType /\ session \in [user : Users \cup {Nobody}, key : Nat]
  BY DEF VaultType, ChangeType
<1>3. \/ session.user # c /\ UNCHANGED <<session, plain>>
      \/ /\ session.user = c /\ session'.user = c
         /\ session'.key = change[a].key /\ plain' = change[a].full
  BY <1>2 DEF TakeUp, memory
<1>4. VaultType'
  <2>1. session' \in [user : Users \cup {Nobody}, key : Nat] /\ plain' \in BOOLEAN
    BY <1>2 DEF TakeUp, memory, VaultType, ChangeType
  <2>2. change' \in [Actors -> ChangeType]
    BY VaultAssumption DEF TakeUp, VaultType, ChangeType, NoChange
  <2>. QED  BY <1>1, <2>1, <2>2 DEF VaultType, ChangeType
<1>5. \A u \in Users : Exists(u)' <=> Exists(u)
  BY <1>1 DEF Exists
<1>6. Known'
  BY <1>1, <1>3, <1>5 DEF Known, LoggedIn, At, VaultType
<1>7. ASSUME NEW u \in Users, Exists(u), u \notin clashed PROVE Kept(u)'
  <2>0. Kept(u)
    BY <1>7
  <2>1. CASE u = c
    <3>1. /\ change[a].full = vault[u].full /\ change[a].key = vault[u].key
          /\ \A b \in Actors : ~Sealing(b, u) /\ (Changing(b, u) => b = a)
      BY <1>1, <2>0, <2>1 DEF Kept, KeptChange, KeptAlone, Changing, At
    <3>2. \A b \in Actors : ~Sealing(b, u)' /\ ~Changing(b, u)'
      BY <1>1, <3>1 DEF Sealing, Changing, At
    <3>3. KeptSeal(u)' /\ KeptAlone(u)' /\ KeptChange(u)'
      BY <3>2 DEF KeptSeal, KeptAlone, KeptChange
    <3>4. KeptOpen(u)' /\ KeptPlain(u)' /\ KeptKey(u)'
      BY <1>1, <1>3, <2>0, <2>1, <3>1 DEF Kept, KeptOpen, KeptPlain, KeptKey
    <3>. QED  BY <3>3, <3>4 DEF Kept
  <2>2. CASE u # c
    <3>1. session.user = u => session' = session /\ plain' = plain
      BY <1>3, <2>2
    <3>2. session'.user = u => session.user = u
      BY <1>3, <2>2
    <3>3. \A b \in Actors : /\ Sealing(b, u)' <=> Sealing(b, u)
                            /\ Changing(b, u)' => Changing(b, u) /\ b # a
      BY <1>1, <2>2 DEF Sealing, Changing, At
    <3>4. KeptOpen(u)' /\ KeptPlain(u)'
      BY <1>1, <2>0, <3>1, <3>2, <3>3 DEF Kept, KeptOpen, KeptPlain
    <3>5. KeptSeal(u)'
      BY <1>1, <2>0, <2>2, <3>1 DEF Kept, KeptSeal, Sealing, At
    <3>6. KeptChange(u)' /\ KeptAlone(u)'
      BY <1>1, <2>0, <3>3 DEF Kept, KeptChange, KeptAlone, At
    <3>7. KeptKey(u)'
      BY <1>1, <2>0, <2>2, <3>1, <3>2 DEF Kept, KeptKey, At
    <3>. QED  BY <3>4, <3>5, <3>6, <3>7 DEF Kept
  <2>. QED  BY <2>1, <2>2
<1>. QED  BY <1>1, <1>4, <1>5, <1>6, <1>7

LEMMA OtherVault ==
    ASSUME PcType, VaultInv, NEW a \in Actors,
           BeginTest(a) \/ BeginHealth(a) \/ FileAct(a) \/ MatrixAct(a)
           \/ RefreshAct(a) \/ RequestAct(a)
    PROVE  VaultInv'
<1>1. \A b \in Actors \ {a} : pc'[b] = pc[b]
  BY PcStep DEF TestAct
<1>2. UNCHANGED <<vault, session, plain, head, change, clashed>>
  BY DEF BeginTest, BeginHealth, FileAct, Step, MatrixAct, BeginMatrix, ReadOn, Case,
     EndMatrix, LeaveMatrix, RefreshAct, Fetch, List, Import, Finish, Fail, End,
     StartRefresh, Refresh, RequestAct, Vaults, files, memory
<1>3. pc[a] \notin {"seal", "changing", "changed"} /\ pc'[a] \notin {"seal", "changing", "changed"}
  BY DEF BeginTest, BeginHealth, FileAct, Step, ConfigStep, Load, WriteBack, Write,
     EndConfig, MatrixAct, BeginMatrix, ReadOn, Case, EndMatrix, LeaveMatrix,
     RefreshAct, Fetch, List, Import, Finish, Fail, End, StartRefresh, Refresh,
     RequestAct, Request, Use, Goto, At, PcType, Later
<1>. QED  BY <1>1, <1>2, <1>3, VaultFrame

LEMMA VaultStep1 ==
    ASSUME PcType, VaultInv, NEW a \in Actors, VaultAct(a) \/ EndTest(a) PROVE VaultInv'
<1>1. CASE SaveKey(a) \/ DeleteKey(a) \/ EndTest(a)
  BY <1>1, HeadVault DEF SaveKey, DeleteKey, EndTest, VaultInv, VaultType, memory, At
<1>. QED  BY <1>1, SealVault, ReadOldVault, WriteNewVault, TakeUpVault DEF VaultAct

-----------------------------------------------------------------------------
(* The settings.                                                           *)

\* A request has the file in its hands.
Holds(a) == pc[a] \in {"loaded", "write"}

Fits(file) == saved \subseteq Items(file) /\ gone \cap Items(file) \subseteq Seeds

\* What holds of the file holds of the copies that will be written over it.
SettingsInv ==
    /\ ConfigType
    /\ Fits(store) /\ (gone # {} => store.providers # {}) /\ saved \cap gone = {}
    /\ \A a \in Actors : Holds(a) => Fits(copy[a]) /\ copy[a].providers # {}
    /\ \A a \in Actors : At(a, "write") => op[a] # NoOp

\* A file that is loaded has providers, and only seeds are added if it had some.
LEMMA LoadedFile ==
    ASSUME NEW file \in File, ConfigType
    PROVE  /\ Loaded(file) \in File /\ Loaded(file).providers # {}
           /\ Items(file) \subseteq Items(Loaded(file))
           /\ file.providers # {} => Items(Loaded(file)) \subseteq Items(file) \cup Seeds
<1> DEFINE providers == IF file.providers = {} THEN profiles ELSE file.providers
           bare == {p \in providers : \A m \in file.models : m[1] # p}
           seeds == {m \in Seeds : m[1] \in bare}
<1>1. Loaded(file) = [providers |-> providers, models |-> file.models \cup seeds]
  BY DEF Loaded
<1>2. seeds \subseteq Models /\ seeds \subseteq Seeds
  BY ConfigAssumption DEF Seeds
<1>3. providers \subseteq Providers /\ providers # {} /\ file.models \subseteq Models
  BY DEF ConfigType, File
<1> HIDE DEF providers, seeds
<1>4. Loaded(file) \in File
  BY <1>1, <1>2, <1>3 DEF File
<1>5. /\ file.providers \subseteq providers
      /\ file.providers # {} => providers = file.providers
  BY DEF providers
<1>. QED  BY <1>1, <1>2, <1>3, <1>4, <1>5 DEF Items

LEMMA OpCases ==
    ASSUME NEW o \in Ops, o # NoOp
    PROVE  \/ o[1] = "provider" /\ o[2] \in Providers
           \/ o[1] = "unprovider" /\ o[2] \in Providers
           \/ o[1] \in {"model", "default", "checked"} /\ o[2] \in Models
           \/ o[1] = "unmodel" /\ o[2] \in Models
           \/ o[1] = "health" /\ o[2] \in Models
           \/ o[1] = "result"
  BY DEF Ops

\* A change is about its subjects only: they are there after it, unless it
\* deletes them.
LEMMA ChangedFile ==
    ASSUME NEW file \in File, NEW o \in Ops, o # NoOp
    PROVE  LET new == Changed(file, o[1], o[2])
               subjects == Subjects(o[1], o[2])
           IN  /\ new \in File
               /\ Items(file) \subseteq Items(new) \cup subjects
               /\ Items(new) \subseteq Items(file) \cup subjects
               /\ IF o[1] \in {"unprovider", "unmodel"} THEN subjects \cap Items(new) = {}
                  ELSE subjects \subseteq Items(new)
<1> DEFINE new == Changed(file, o[1], o[2])
           subjects == Subjects(o[1], o[2])
<1>1. file.providers \subseteq Providers /\ file.models \subseteq Models
      /\ file = [providers |-> file.providers, models |-> file.models]
  BY DEF File
<1>2. CASE o[1] = "provider" /\ o[2] \in Providers
  <2>1. /\ new = [providers |-> file.providers \cup {o[2]}, models |-> file.models]
        /\ subjects = {o[2]}
    BY <1>1, <1>2 DEF Changed, Subjects
  <2>. QED  BY <1>1, <1>2, <2>1 DEF Items, File
<1>3. CASE o[1] = "unprovider" /\ o[2] \in Providers
  <2>1. /\ new = [providers |-> file.providers \ {o[2]},
                  models |-> {m \in file.models : m[1] # o[2]}]
        /\ subjects = {o[2]} \cup {m \in Models : m[1] = o[2]}
    BY <1>1, <1>3 DEF Changed, Subjects
  <2>. QED  BY <1>1, <1>3, <2>1, ConfigAssumption DEF Items, File
<1>4. CASE o[1] \in {"model", "default", "checked"} /\ o[2] \in Models
  <2>1. /\ new = [providers |-> file.providers, models |-> file.models \cup {o[2]}]
        /\ subjects = {o[2]}
    BY <1>1, <1>4 DEF Changed, Subjects
  <2>. QED  BY <1>1, <1>4, <2>1 DEF Items, File
<1>5. CASE o[1] = "unmodel" /\ o[2] \in Models
  <2>1. /\ new = [providers |-> file.providers, models |-> file.models \ {o[2]}]
        /\ subjects = {o[2]}
    BY <1>1, <1>5 DEF Changed, Subjects
  <2>. QED  BY <1>1, <1>5, <2>1, ConfigAssumption DEF Items, File
<1>6. CASE o[1] \in {"health", "result"}
  BY <1>6 DEF Changed, Subjects
<1>. QED  BY <1>2, <1>3, <1>4, <1>5, <1>6, OpCases

LEMMA FollowOp == ASSUME NEW o \in Ops, o # NoOp PROVE Follow(o[1], o[2]) \in Ops
<1>1. CASE o[1] = "provider" /\ o[2] \in DOMAIN Seed
  <2>1. <<o[2], Seed[o[2]]>> \in Models
    BY <1>1, ConfigAssumption
  <2>. QED  BY <1>1, <2>1 DEF Follow, Ops
<1>2. CASE o[1] = "health"
  BY <1>2, OpCases DEF Follow, Ops
<1>3. CASE o[1] # "health" /\ ~(o[1] = "provider" /\ o[2] \in DOMAIN Seed)
  BY <1>3 DEF Follow, Ops
<1>. QED  BY <1>1, <1>2, <1>3

\* What a request goes on with when it is done with the file.
LEMMA EndConfigType ==
    ASSUME PcType, ConfigType, NEW a \in Actors, EndConfig(a)
    PROVE  /\ op' \in [Actors -> Ops] /\ op'[a] = NoOp
           /\ copy' \in [Actors -> File] /\ ~Holds(a)'
           /\ \A b \in Actors \ {a} : copy'[b] = copy[b] /\ op'[b] = op[b]
<1>1. NoOp \in Ops /\ NoFile \in File
  BY DEF Ops, NoFile, File
<1>2. (IF after[a] = "listed" THEN copy[a] ELSE NoFile) \in File
  BY <1>1 DEF ConfigType
<1>3. pc'[a] = after[a] /\ after[a] \in Later
  BY DEF EndConfig, Goto, PcType
<1>. QED  BY <1>1, <1>2, <1>3 DEF EndConfig, ConfigType, Holds, Later

LEMMA FileSettings ==
    ASSUME PcType, SettingsInv, NEW a \in Actors, FileAct(a) PROVE SettingsInv'
<1> USE DEF SettingsInv
<1>1. /\ \A b \in Actors \ {a} : pc'[b] = pc[b]
      /\ UNCHANGED todo
  BY PcStep DEF FileAct, Step
<1>2. copy[a] \in File /\ op[a] \in Ops /\ store \in File
  BY DEF ConfigType
<1>3. CASE Load(a)
  <2>1. /\ copy' = [copy EXCEPT ![a] = Loaded(store)] /\ pc'[a] = "loaded"
        /\ UNCHANGED <<op, store, profiles, saved, gone>>
    BY <1>3 DEF Load, Goto, PcType
  <2>2. Loaded(store) \in File /\ Loaded(store).providers # {}
    BY <1>2, LoadedFile
  <2>3. Fits(Loaded(store))
    BY <1>2, LoadedFile DEF Fits
  <2>4. ConfigType'
    BY <1>1, <2>1, <2>2 DEF ConfigType
  <2>5. /\ copy'[a] = Loaded(store)
        /\ \A b \in Actors \ {a} : copy'[b] = copy[b]
    BY <2>1 DEF ConfigType
  <2>6. Fits(store)' /\ \A b \in Actors : Holds(b)' => Fits(copy[b])'
    BY <1>1, <2>1, <2>3, <2>5 DEF Fits, Holds
  <2>. QED  BY <1>1, <2>1, <2>2, <2>4, <2>5, <2>6 DEF Holds, At
<1>4. CASE WriteBack(a)
  <2>1. /\ pc[a] = "loaded" /\ store' = copy[a] /\ UNCHANGED <<profiles, saved, gone>>
        /\ \/ EndConfig(a)
           \/ op[a] # NoOp /\ UNCHANGED <<op, copy>>
    BY <1>4 DEF WriteBack, At
  <2>2. Holds(a) /\ Fits(copy[a]) /\ copy[a].providers # {}
    BY <2>1 DEF Holds
  <2>3. /\ op' \in [Actors -> Ops] /\ copy' \in [Actors -> File]
        /\ \A b \in Actors \ {a} : copy'[b] = copy[b] /\ op'[b] = op[b]
        /\ Holds(a)' => op'[a] # NoOp /\ copy'[a] = copy[a]
    BY <2>1, EndConfigType DEF ConfigType
  <2>4. ConfigType'
    BY <1>1, <1>2, <2>1, <2>3 DEF ConfigType
  <2>5. Fits(store)' /\ \A b \in Actors : Holds(b)' => Fits(copy[b])'
    BY <1>1, <2>1, <2>2, <2>3 DEF Fits, Holds
  <2>6. \A b \in Actors : Holds(b)' => copy'[b].providers # {}
    BY <1>1, <2>2, <2>3 DEF Holds
  <2>7. \A b \in Actors : At(b, "write")' => op'[b] # NoOp
    BY <1>1, <2>3 DEF At, Holds
  <2>. QED  BY <2>1, <2>2, <2>4, <2>5, <2>6, <2>7
<1>5. CASE Write(a)
  <2> DEFINE kind == op[a][1]
             item == op[a][2]
             subjects == Subjects(kind, item)
             deletes == kind \in {"unprovider", "unmodel"}
             new == Changed(copy[a], kind, item)
  <2>1. /\ pc[a] = "write" /\ store' = new
        /\ saved' = (saved \ subjects) \cup IF deletes \/ Raced(a) THEN {} ELSE subjects
        /\ gone' = IF new.providers = {} THEN {}
                   ELSE (gone \ subjects) \cup IF deletes /\ ~Raced(a) THEN subjects ELSE {}
        /\ profiles' = IF kind = "provider" /\ item \in DOMAIN Seed
                       THEN profiles \cup {item} ELSE profiles
    BY <1>5 DEF Write, At
  <2>2. op[a] # NoOp /\ Holds(a) /\ Fits(copy[a])
    BY <2>1 DEF Holds, At
  <2>3. /\ new \in File
        /\ Items(copy[a]) \subseteq Items(new) \cup subjects
        /\ Items(new) \subseteq Items(copy[a]) \cup subjects
        /\ deletes => subjects \cap Items(new) = {}
        /\ ~deletes => subjects \subseteq Items(new)
    BY <1>2, <2>2, ChangedFile
  <2>4. /\ op' \in [Actors -> Ops] /\ copy' \in [Actors -> File]
        /\ \A b \in Actors \ {a} : copy'[b] = copy[b] /\ op'[b] = op[b]
        /\ ~Holds(a)'
    <3>1. CASE EndConfig(a)
      BY <3>1, EndConfigType
    <3>2. CASE ~EndConfig(a)
      <4>1. /\ op' = [op EXCEPT ![a] = Follow(kind, item)]
            /\ pc' = [pc EXCEPT ![a] = "load"] /\ UNCHANGED copy
        BY <1>5, <3>2 DEF Write, Goto
      <4>2. Follow(kind, item) \in Ops
        BY <1>2, <2>2, FollowOp
      <4>. QED  BY <4>1, <4>2 DEF ConfigType, PcType, Holds
    <3>. QED  BY <3>1, <3>2
  <2>5. profiles' \subseteq Providers /\ profiles' # {}
    BY <2>1, ConfigAssumption DEF ConfigType
  <2>6. ConfigType'
    BY <1>1, <2>1, <2>3, <2>4, <2>5 DEF ConfigType
  <2> HIDE DEF subjects, deletes, new
  <2>7. Fits(store)'
    BY <2>1, <2>2, <2>3 DEF Fits
  <2>8. ASSUME NEW b \in Actors, Holds(b)'
        PROVE  Fits(copy[b])' /\ copy'[b].providers # {} /\ op'[b] = op[b] /\ b # a
    <3>1. b # a /\ Holds(b) /\ copy'[b] = copy[b] /\ op'[b] = op[b]
      BY <1>1, <2>4, <2>8 DEF Holds
    <3>2. Raced(a)
      BY <3>1 DEF Raced, Holds
    <3>3. saved' \subseteq saved /\ gone' \subseteq gone
      BY <2>1, <3>2
    <3>. QED  BY <3>1, <3>3 DEF Fits
  <2>9. \A b \in Actors : At(b, "write")' => op'[b] # NoOp
    BY <1>1, <2>8 DEF At, Holds
  <2>. QED  BY <2>1, <2>6, <2>7, <2>8, <2>9
<1>. QED  BY <1>3, <1>4, <1>5 DEF FileAct, Step, ConfigStep

\* The steps that leave the file alone, and say what is done with it next.
LEMMA ImportOps ==
    ASSUME NEW file \in File PROVE ToImport(file) \subseteq Ops
<1>1. ManagedProviders \subseteq Providers /\ Managed \subseteq Models
  BY ConfigAssumption, MetadataAssumption DEF ManagedProviders
<1>. QED  BY <1>1 DEF ToImport, Ops, File

LEMMA OtherSettings ==
    ASSUME PcType, SettingsInv, NEW a \in Actors,
           \/ (VaultAct(a) \/ TestAct(a)) /\ UNCHANGED catalog
           \/ MatrixAct(a) \/ RefreshAct(a) \/ RequestAct(a)
    PROVE  SettingsInv'
<1> USE DEF SettingsInv
<1>1. \A b \in Actors \ {a} : pc'[b] = pc[b]
  BY PcStep
<1>2. ASSUME UNCHANGED <<store, profiles, saved, gone>>,
             op' \in [Actors -> Ops], todo' \in [Actors -> SUBSET Ops],
             copy' \in [Actors -> File],
             \A b \in Actors \ {a} : op'[b] = op[b] /\ copy'[b] = copy[b],
             pc'[a] \notin {"loaded", "write"}
      PROVE  SettingsInv'
  <2>1. ConfigType'
    BY <1>2 DEF ConfigType
  <2>2. Fits(store)' /\ \A b \in Actors : Holds(b)' => Fits(copy[b])'
    BY <1>1, <1>2 DEF Fits, Holds
  <2>. QED  BY <1>1, <1>2, <2>1, <2>2 DEF Holds, At
<1>3. NoOp \in Ops /\ <<"result", 0>> \in Ops /\ Changes \subseteq Ops /\ NoFile \in File
  BY DEF Ops, Changes, NoFile, File
<1>4. CASE VaultAct(a) /\ UNCHANGED catalog
  BY <1>2, <1>4 DEF VaultAct, SaveKey, DeleteKey, ReadHead, Seal, WriteNew, TakeUp,
     ReadOld, catalog, Goto, PcType, config, ConfigType
<1>5. CASE TestAct(a) /\ UNCHANGED catalog
  <2>1. ASSUME NEW o \in {<<"result", 0>>} \cup ({"health"} \X store.models) PROVE o \in Ops
    BY <1>3 DEF ConfigType, File, Ops
  <2>. QED
    BY <1>2, <1>3, <1>5, <2>1 DEF TestAct, BeginTest, BeginHealth, EndTest, ReadHead, Use,
       Goto, PcType, config, catalog, ConfigType
<1>6. CASE MatrixAct(a)
  BY <1>2, <1>3, <1>6 DEF MatrixAct, BeginMatrix, ReadOn, Case, EndMatrix, LeaveMatrix, Use,
     Goto, PcType, config, catalog, ConfigType
<1>7. CASE RequestAct(a)
  BY <1>2, <1>3, <1>7 DEF RequestAct, Request, Use, Goto, PcType, config, catalog, ConfigType
<1>8. CASE RefreshAct(a)
  <2>1. CASE Fetch(a)
    BY <1>2, <1>3, <2>1 DEF Fetch, Use, Goto, PcType, config, catalog, ConfigType
  <2>2. CASE List(a)
    <3>1. ToImport(copy[a]) \subseteq Ops
      BY ImportOps DEF ConfigType
    <3>. QED
      BY <1>2, <1>3, <2>2, <3>1 DEF List, Goto, PcType, ConfigType
  <2>3. CASE Import(a)
    <3>1. /\ UNCHANGED <<store, profiles, saved, gone, copy>>
          /\ \/ UNCHANGED <<op, todo>> /\ pc'[a] = "artifacts"
             \/ \E o \in todo[a] : /\ op' = [op EXCEPT ![a] = o] /\ pc'[a] = "load"
                                   /\ todo' = [todo EXCEPT ![a] = @ \ {o}]
      BY <2>3 DEF Import, Use, Goto, PcType, config
    <3>. QED  BY <1>2, <3>1 DEF ConfigType
  <2>4. CASE Finish(a) \/ Fail(a)
    BY <1>2, <2>4 DEF Finish, Fail, End, Goto, PcType, config, ConfigType
  <2>5. CASE \E apply \in BOOLEAN : StartRefresh(a, apply) \/ Refresh(a, apply)
    BY <1>2, <2>5 DEF StartRefresh, Refresh, Goto, PcType, config, ConfigType
  <2>. QED  BY <1>8, <2>1, <2>2, <2>3, <2>4, <2>5 DEF RefreshAct
<1>. QED  BY <1>4, <1>5, <1>6, <1>7, <1>8

-----------------------------------------------------------------------------
(* The refreshes.                                                          *)

Statuses == {"running", "success", "partial", "failed", "forgotten"}

RefreshType ==
    /\ jobs \in Seq(Statuses)
    /\ work \in [Actors -> [job : Nat, apply : BOOLEAN, alone : BOOLEAN]]

\* Where who refreshes, and who imports, is.
InFile(a) == pc[a] \in {"load", "loaded", "write"}
Importing(a) == At(a, "import") \/ (InFile(a) /\ after[a] = "import")
Refreshing(a) ==
    \/ pc[a] \in {"fetch", "listed", "artifacts"} \/ Importing(a)
    \/ InFile(a) /\ after[a] = "listed"

Places == \A a \in Actors :
    /\ work[a] # NoWork => Refreshing(a)
    /\ todo[a] # {} => Importing(a)

\* A job has one worker, until it ends.
JobsHaveWorkers ==
    /\ \A a \in Actors : work[a].job \in 0 .. Len(jobs)
    /\ \A a, b \in Actors : work[a].job = work[b].job => a = b \/ work[a].job = 0
    /\ \A j \in 1 .. Len(jobs) : jobs[j] # "forgotten" =>
           (jobs[j] = "running" <=> \E a \in Actors : work[a].job = j)

\* What an import does, with the entries that are made of it, and what it has
\* yet to do, the request under way included.
ImportOp ==
    ({"unmodel"} \X {m \in Models : Belongs(m) /\ m \notin Managed})
    \cup ({"provider"} \X ManagedProviders) \cup ({"model", "default"} \X Managed)
Pending(a) == todo[a] \cup IF InFile(a) THEN {op[a]} ELSE {}

\* A copy that has been completed.
Grown(file, from) ==
    /\ from.providers \subseteq file.providers /\ from.models \subseteq file.models
    /\ file.models \subseteq from.models \cup Seeds

\* What an import that nobody disturbs has not yet put right, it has yet to do.
Made(a) ==
    /\ Importing(a) \/ At(a, "artifacts")
    /\ Pending(a) \subseteq ImportOp
    /\ \A m \in store.models : Belongs(m) /\ m \notin Managed => <<"unmodel", m>> \in Pending(a)
    /\ \A p \in ManagedProviders \ store.providers : <<"provider", p>> \in Pending(a)
    /\ \A m \in Managed \ store.models : <<"model", m>> \in Pending(a)
    /\ At(a, "loaded") => Grown(copy[a], store)
    /\ At(a, "write") => copy[a] = store

RefreshInv ==
    /\ RefreshType /\ Places /\ JobsHaveWorkers
    /\ \A a \in Actors : work[a].alone => Made(a)

\* What the others are about is left alone.
LEMMA MadeFrame ==
    ASSUME NEW b \in Actors, work[b].alone => Made(b),
           work'[b].alone => work[b].alone /\ store' = store,
           pc'[b] = pc[b], after'[b] = after[b], op'[b] = op[b], todo'[b] = todo[b],
           copy'[b] = copy[b]
    PROVE  work'[b].alone => Made(b)'
  BY DEF Made, Importing, InFile, Pending, At, Grown

LEMMA PlaceFrame ==
    ASSUME Places, NEW a \in Actors,
           \A b \in Actors \ {a} :
               /\ pc'[b] = pc[b] /\ after'[b] = after[b] /\ todo'[b] = todo[b]
               /\ work'[b] = NoWork <=> work[b] = NoWork,
           work'[a] # NoWork => Refreshing(a)', todo'[a] # {} => Importing(a)'
    PROVE  Places'
  BY DEF Places, Refreshing, Importing, InFile, At

LEMMA SameRefresh ==
    ASSUME RefreshInv, UNCHANGED <<pc, op, after, copy, store, jobs, work, todo>>
    PROVE  RefreshInv'
<1> USE DEF RefreshInv
<1>1. RefreshType' /\ JobsHaveWorkers'
  BY DEF RefreshType, JobsHaveWorkers
<1>2. Places'
  BY DEF Places, Refreshing, Importing, InFile, At
<1>3. ASSUME NEW b \in Actors PROVE work'[b].alone => Made(b)'
  BY MadeFrame
<1>. QED  BY <1>1, <1>2, <1>3

LEMMA IdleRefresh ==
    ASSUME PcType, ConfigType, RefreshInv, NEW a \in Actors,
           \/ (VaultAct(a) \/ TestAct(a)) /\ UNCHANGED catalog
           \/ MatrixAct(a) \/ RequestAct(a)
    PROVE  RefreshInv'
<1> USE DEF RefreshInv
<1>1. \A b \in Actors \ {a} : pc'[b] = pc[b] /\ after'[b] = after[b]
  BY PcStep
<1>2. UNCHANGED <<store, copy, catalog>> /\ \A b \in Actors \ {a} : op'[b] = op[b]
  BY DEF VaultAct, SaveKey, DeleteKey, ReadHead, Seal, WriteNew, TakeUp, ReadOld, TestAct,
     BeginTest, BeginHealth, EndTest, MatrixAct, BeginMatrix, ReadOn, Case, EndMatrix,
     LeaveMatrix, RequestAct, Request, Use, config, catalog, ConfigType
<1>3. ~Refreshing(a) /\ ~Importing(a)
  BY DEF VaultAct, SaveKey, DeleteKey, ReadHead, Seal, WriteNew, TakeUp, ReadOld, TestAct,
     BeginTest, BeginHealth, EndTest, MatrixAct, BeginMatrix, ReadOn, Case, EndMatrix,
     LeaveMatrix, RequestAct, Request, At, Refreshing, Importing, InFile
<1>4. work[a] = NoWork /\ todo[a] = {}
  BY <1>3 DEF Places
<1>5. RefreshType' /\ JobsHaveWorkers'
  BY <1>2 DEF RefreshType, JobsHaveWorkers, catalog
<1>6. Places'
  BY <1>1, <1>2, <1>4, PlaceFrame DEF catalog
<1>7. ASSUME NEW b \in Actors PROVE work'[b].alone => Made(b)'
  <2>1. CASE b = a
    BY <1>2, <1>4, <2>1 DEF catalog, NoWork
  <2>2. CASE b # a
    BY <1>1, <1>2, <2>2, MadeFrame DEF catalog
  <2>. QED  BY <2>1, <2>2
<1>. QED  BY <1>5, <1>6, <1>7

\* An import that is not disturbed comes a request further.
LEMMA MadeStep ==
    ASSUME PcType, ConfigType, RefreshInv, NEW a \in Actors, work[a].alone, ConfigStep(a),
           todo' = todo
    PROVE  Made(a)'
<1> USE DEF RefreshInv
<1>1. Made(a) /\ copy[a] \in File /\ store \in File
  BY DEF ConfigType
<1>2. /\ Seeds \subseteq Models
      /\ \A m \in Seeds : Belongs(m) => m \in Managed
  BY ConfigAssumption, MetadataAssumption DEF Seeds, Belongs, ManagedProviders
<1>3. CASE Load(a)
  <2>1. /\ pc[a] = "load" /\ pc'[a] = "loaded" /\ copy'[a] = Loaded(store)
        /\ UNCHANGED <<op, after, store>>
    BY <1>3 DEF Load, Goto, At, PcType, ConfigType
  <2>2. Grown(Loaded(store), store)
    BY DEF Grown, Loaded
  <2>. QED  BY <1>1, <2>1, <2>2 DEF Made, Importing, InFile, Pending, At, Grown
<1>4. CASE WriteBack(a)
  <2>1. pc[a] = "loaded" /\ store' = copy[a] /\ Grown(copy[a], store)
    BY <1>1, <1>4 DEF WriteBack, At, Made
  <2>2. op[a] \in ImportOp /\ op[a] # NoOp
    BY <1>1, <2>1 DEF Made, Pending, InFile, ImportOp, NoOp
  <2>3. pc'[a] = "write" /\ UNCHANGED <<op, after, copy>>
    BY <1>4, <2>2 DEF WriteBack, Goto, PcType
  <2>4. Pending(a)' = Pending(a)
    BY <2>1, <2>3 DEF Pending, InFile
  <2>5. \A m \in copy[a].models : Belongs(m) /\ m \notin Managed => m \in store.models
    BY <1>2, <2>1 DEF Grown
  <2>6. /\ \A m \in store'.models : Belongs(m) /\ m \notin Managed => <<"unmodel", m>> \in Pending(a)
        /\ \A p \in ManagedProviders \ store'.providers : <<"provider", p>> \in Pending(a)
        /\ \A m \in Managed \ store'.models : <<"model", m>> \in Pending(a)
    BY <1>1, <2>1, <2>5 DEF Made, Grown
  <2>7. Importing(a)'
    BY <1>1, <2>1, <2>3 DEF Made, Importing, InFile, At
  <2>. QED  BY <1>1, <2>1, <2>3, <2>4, <2>6, <2>7 DEF Made, At, Belongs
<1>5. CASE Write(a)
  <2> DEFINE kind == op[a][1]
             item == op[a][2]
  <2>1. /\ pc[a] = "write" /\ after[a] = "import" /\ copy[a] = store
        /\ op[a] \in ImportOp /\ Pending(a) = todo[a] \cup {op[a]}
        /\ store' = Changed(store, kind, item)
    BY <1>1, <1>5 DEF Write, At, Made, Pending, InFile, Importing
  <2>2. /\ Importing(a)' /\ pc'[a] \in {"import", "load"}
        /\ Pending(a)' = todo[a] \cup IF Follow(kind, item) = NoOp THEN {} ELSE {Follow(kind, item)}
    <3>1. CASE Follow(kind, item) # NoOp
      BY <1>5, <2>1, <3>1 DEF Write, Goto, PcType, ConfigType, Importing, InFile, Pending
    <3>2. CASE Follow(kind, item) = NoOp
      <4>1. pc'[a] = "import"
        BY <1>5, <2>1, <3>2 DEF Write, EndConfig, Goto, PcType
      <4>. QED  BY <3>2, <4>1 DEF Importing, InFile, Pending, At
    <3>. QED  BY <3>1, <3>2
  <2>3. /\ store.providers \ store'.providers = {}
        /\ \A m \in store.models \ store'.models : kind = "unmodel" /\ item = m /\ m \notin Managed
        /\ \A m \in store'.models \ store.models : m \in Managed
        /\ kind = "unmodel" => item \notin store'.models
        /\ kind = "provider" => item \in store'.providers
        /\ kind = "model" => item \in store'.models
        /\ kind \in {"unmodel", "provider", "model", "default"}
    BY <1>1, <2>1 DEF Changed, ImportOp, File
  <2>4. Follow(kind, item) # NoOp => Follow(kind, item) \in ImportOp
    <3>1. CASE kind = "provider" /\ item \in DOMAIN Seed
      <4>1. item \in ManagedProviders
        BY <2>1, <3>1 DEF ImportOp
      <4>2. <<item, Seed[item]>> \in Managed
        BY <3>1, <4>1, MetadataAssumption DEF ManagedProviders
      <4>. QED  BY <3>1, <4>2 DEF Follow, ImportOp
    <3>. QED  BY <2>3, <3>1 DEF Follow
  <2>5. todo[a] \subseteq ImportOp
    BY <1>1 DEF Made, Pending
  <2>6. op[a] = <<kind, item>>
    BY <2>1 DEF ImportOp
  <2>7. /\ \A m \in store'.models : Belongs(m) /\ m \notin Managed => <<"unmodel", m>> \in todo[a]
        /\ \A p \in ManagedProviders \ store'.providers : <<"provider", p>> \in todo[a]
        /\ \A m \in Managed \ store'.models : <<"model", m>> \in todo[a]
    BY <1>1, <2>1, <2>3, <2>6 DEF Made
  <2>. QED  BY <2>2, <2>4, <2>5, <2>7 DEF Made, At, Belongs
<1>. QED  BY <1>3, <1>4, <1>5 DEF ConfigStep

LEMMA FileRefresh ==
    ASSUME PcType, ConfigType, RefreshInv, NEW a \in Actors, FileAct(a)
    PROVE  RefreshInv'
<1> USE DEF RefreshInv
<1>1. \A b \in Actors \ {a} : pc'[b] = pc[b] /\ after'[b] = after[b]
  BY PcStep
<1>2. /\ ConfigStep(a) /\ UNCHANGED <<jobs, todo>>
      /\ work' = [b \in Actors |-> IF b = a \/ store' = store THEN work[b]
                                   ELSE [work[b] EXCEPT !.alone = FALSE]]
  BY DEF FileAct, Step
<1>3. \A b \in Actors \ {a} : op'[b] = op[b] /\ copy'[b] = copy[b]
  BY <1>2 DEF ConfigStep, Load, WriteBack, Write, EndConfig, ConfigType
<1>4. /\ work' \in [Actors -> [job : Nat, apply : BOOLEAN, alone : BOOLEAN]]
      /\ \A b \in Actors : work'[b].job = work[b].job /\ (work'[b].alone => work[b].alone)
  BY <1>2 DEF RefreshType
<1>5. RefreshType' /\ JobsHaveWorkers'
  BY <1>2, <1>4 DEF RefreshType, JobsHaveWorkers
<1>6. Places'
  <2>1. /\ Refreshing(a) => Refreshing(a)'
        /\ Importing(a) => Importing(a)'
    BY <1>2 DEF ConfigStep, Load, WriteBack, Write, EndConfig, Goto, PcType, At, Refreshing,
       Importing, InFile
  <2>2. ASSUME NEW b \in Actors, work'[b] # NoWork PROVE work[b] # NoWork
    <3>1. SUFFICES ASSUME work[b] = [job |-> 0, apply |-> FALSE, alone |-> FALSE]
                   PROVE  work'[b] = [job |-> 0, apply |-> FALSE, alone |-> FALSE]
      BY <2>2 DEF NoWork
    <3>2. \/ work'[b] = work[b]
          \/ work'[b] = [[job |-> 0, apply |-> FALSE, alone |-> FALSE] EXCEPT !.alone = FALSE]
      BY <1>2, <3>1
    <3>. QED  BY <3>1, <3>2
  <2>3. \A b \in Actors \ {a} : (Refreshing(b) => Refreshing(b)') /\ (Importing(b) => Importing(b)')
    BY <1>1 DEF Refreshing, Importing, InFile, At
  <2>. QED  BY <1>2, <2>1, <2>2, <2>3 DEF Places
<1>7. ASSUME NEW b \in Actors PROVE work'[b].alone => Made(b)'
  <2>1. CASE b = a
    BY <1>2, <1>4, <2>1, MadeStep
  <2>2. CASE b # a
    <3>1. work'[b].alone => work[b].alone /\ store' = store
      BY <1>2, <1>4, <2>2
    <3>. QED  BY <1>1, <1>2, <1>3, <2>2, <3>1, MadeFrame
  <2>. QED  BY <2>1, <2>2
<1>. QED  BY <1>5, <1>6, <1>7

\* A step of a refresh that leaves the file alone, by the place of it.
LEMMA RefreshFrame ==
    ASSUME PcType, ConfigType, RefreshInv, NEW a \in Actors, RefreshAct(a),
           RefreshType', JobsHaveWorkers',
           \A b \in Actors \ {a} : work'[b] = work[b] /\ todo'[b] = todo[b],
           work'[a] # NoWork => Refreshing(a)', todo'[a] # {} => Importing(a)',
           work'[a].alone => Made(a)'
    PROVE  RefreshInv'
<1>1. \A b \in Actors \ {a} : pc'[b] = pc[b] /\ after'[b] = after[b]
  BY PcStep
<1>2. store' = store /\ \A b \in Actors \ {a} : op'[b] = op[b] /\ copy'[b] = copy[b]
  BY DEF RefreshAct, Fetch, List, Import, Finish, Fail, End, StartRefresh, Refresh, Use,
     config, ConfigType
<1>3. Places'
  BY <1>1, PlaceFrame DEF RefreshInv
<1>4. ASSUME NEW b \in Actors PROVE work'[b].alone => Made(b)'
  <2>1. CASE b # a
    BY <1>1, <1>2, <2>1, MadeFrame DEF RefreshInv
  <2>. QED  BY <2>1
<1>. QED  BY <1>3, <1>4 DEF RefreshInv

LEMMA StartedRefresh ==
    ASSUME PcType, ConfigType, RefreshInv, NEW a \in Actors, NEW apply \in BOOLEAN,
           StartRefresh(a, apply)
    PROVE  RefreshInv'
<1> DEFINE j == Len(jobs) + 1
<1>1. /\ pc'[a] = "fetch" /\ pc[a] = "idle" /\ todo' = todo
      /\ work' = [work EXCEPT ![a] = [job |-> j, apply |-> apply, alone |-> FALSE]]
      /\ jobs' = [i \in 1 .. j |->
                    IF i = j THEN "running"
                    ELSE IF i <= j - KeptJobs THEN "forgotten" ELSE jobs[i]]
  BY DEF StartRefresh, Goto, At, PcType
<1>2. j \in Nat \ {0} /\ \A i \in 1 .. Len(jobs) : jobs[i] \in Statuses
  BY DEF RefreshInv, RefreshType
<1>3. work[a] = NoWork /\ todo[a] = {}
  BY <1>1 DEF RefreshInv, Places, Refreshing, Importing, InFile, At
<1> HIDE DEF j
<1>4. /\ jobs' \in Seq(Statuses) /\ Len(jobs') = j
      /\ jobs'[j] = "running"
      /\ \A i \in 1 .. j : i # j => jobs'[i] \in {"forgotten", jobs[i]}
  <2>1. \A i \in 1 .. j : i # j => i \in 1 .. Len(jobs)
    BY <1>2 DEF j, RefreshInv, RefreshType
  <2>2. \A i \in 1 .. j : (IF i = j THEN "running"
                           ELSE IF i <= j - KeptJobs THEN "forgotten" ELSE jobs[i]) \in Statuses
    BY <1>2, <2>1 DEF Statuses
  <2>3. jobs' \in Seq(Statuses) /\ Len(jobs') = j
    BY <1>1, <1>2, <2>2
  <2>4. \A i \in 1 .. j : i # j => jobs'[i] \in {"forgotten", jobs[i]}
    BY <1>1
  <2>. QED  BY <1>1, <1>2, <2>3, <2>4
<1>5. /\ work'[a] = [job |-> j, apply |-> apply, alone |-> FALSE]
      /\ \A b \in Actors \ {a} : work'[b] = work[b]
      /\ work' \in [Actors -> [job : Nat, apply : BOOLEAN, alone : BOOLEAN]]
  BY <1>1, <1>2 DEF RefreshInv, RefreshType
<1>6. /\ \A b \in Actors : work[b].job \in 0 .. j - 1
      /\ work[a].job = 0 /\ work'[a].job = j
  BY <1>3, <1>5 DEF RefreshInv, JobsHaveWorkers, RefreshType, NoWork, j
<1>7. JobsHaveWorkers'
  <2>1. \A b \in Actors : work'[b].job \in 0 .. Len(jobs')
    BY <1>2, <1>4, <1>5, <1>6
  <2>2. ASSUME NEW b \in Actors, NEW c \in Actors, work'[b].job = work'[c].job
        PROVE  b = c \/ work'[b].job = 0
    BY <1>2, <1>5, <1>6, <2>2 DEF RefreshInv, JobsHaveWorkers
  <2>3. ASSUME NEW i \in 1 .. j, jobs'[i] # "forgotten"
        PROVE  jobs'[i] = "running" <=> \E b \in Actors : work'[b].job = i
    <3>1. CASE i = j
      BY <1>4, <1>5, <1>6, <3>1
    <3>2. CASE i # j
      <4>1. i \in 1 .. Len(jobs) /\ jobs'[i] = jobs[i]
        BY <1>2, <1>4, <2>3, <3>2 DEF j
      <4>2. \A b \in Actors : work'[b].job = i <=> work[b].job = i
        BY <1>5, <1>6, <3>2
      <4>. QED  BY <2>3, <4>1, <4>2 DEF RefreshInv, JobsHaveWorkers
    <3>. QED  BY <3>1, <3>2
  <2>. QED  BY <1>4, <2>1, <2>2, <2>3 DEF JobsHaveWorkers
<1>8. RefreshType' /\ Refreshing(a)' /\ ~work'[a].alone /\ RefreshAct(a)
  BY <1>1, <1>4, <1>5 DEF RefreshType, Refreshing, RefreshAct
<1>. QED  BY <1>1, <1>3, <1>5, <1>7, <1>8, RefreshFrame

LEMMA EndedRefresh ==
    ASSUME PcType, ConfigType, RefreshInv, NEW a \in Actors,
           NEW status \in {"success", "partial", "failed"}, End(a, status), RefreshAct(a)
    PROVE  RefreshInv'
<1> DEFINE j == work[a].job
<1>1. /\ jobs' = IF Remembered(j) THEN [jobs EXCEPT ![j] = status] ELSE jobs
      /\ work' = [work EXCEPT ![a] = NoWork] /\ todo' = [todo EXCEPT ![a] = {}]
  BY DEF End
<1>2. /\ work'[a] = NoWork /\ todo'[a] = {}
      /\ \A b \in Actors \ {a} : work'[b] = work[b] /\ todo'[b] = todo[b]
      /\ work' \in [Actors -> [job : Nat, apply : BOOLEAN, alone : BOOLEAN]]
  BY <1>1 DEF RefreshInv, RefreshType, ConfigType, NoWork
<1>3. /\ jobs' \in Seq(Statuses) /\ Len(jobs') = Len(jobs)
      /\ \A i \in 1 .. Len(jobs) : i # j => jobs'[i] = jobs[i]
      /\ j \in 1 .. Len(jobs) => jobs'[j] \in {"forgotten", status}
  <2>1. status \in Statuses /\ jobs \in Seq(Statuses) /\ DOMAIN jobs = 1 .. Len(jobs)
    BY DEF RefreshInv, RefreshType, Statuses
  <2>2. CASE Remembered(j)
    BY <1>1, <2>1, <2>2 DEF Remembered
  <2>3. CASE ~Remembered(j)
    BY <1>1, <2>1, <2>3 DEF Remembered
  <2>. QED  BY <2>2, <2>3
<1>4. /\ \A b \in Actors : work[b].job \in 0 .. Len(jobs) /\ work[b].job \in Nat
      /\ work'[a].job = 0 /\ ~work'[a].alone
      /\ \A b \in Actors \ {a} : work'[b].job = work[b].job
  BY <1>2 DEF RefreshInv, JobsHaveWorkers, RefreshType, NoWork
<1>5. JobsHaveWorkers'
  <2>1. \A b \in Actors : work'[b].job \in 0 .. Len(jobs')
    BY <1>2, <1>3, <1>4
  <2>2. ASSUME NEW b \in Actors, NEW c \in Actors, work'[b].job = work'[c].job
        PROVE  b = c \/ work'[b].job = 0
    BY <1>2, <1>4, <2>2 DEF RefreshInv, JobsHaveWorkers
  <2>3. ASSUME NEW i \in 1 .. Len(jobs), jobs'[i] # "forgotten"
        PROVE  jobs'[i] = "running" <=> \E b \in Actors : work'[b].job = i
    <3>1. CASE i = j
      <4>1. jobs'[i] # "running"
        BY <1>3, <2>3, <3>1
      <4>2. ASSUME NEW b \in Actors, work'[b].job = i PROVE FALSE
        BY <1>4, <3>1, <4>2 DEF RefreshInv, JobsHaveWorkers
      <4>. QED  BY <4>1, <4>2
    <3>2. CASE i # j
      <4>1. \A b \in Actors : work'[b].job = i <=> work[b].job = i
        BY <1>4, <3>2
      <4>. QED  BY <1>3, <2>3, <3>2, <4>1 DEF RefreshInv, JobsHaveWorkers
    <3>. QED  BY <3>1, <3>2
  <2>. QED  BY <1>3, <2>1, <2>2, <2>3 DEF JobsHaveWorkers
<1>6. RefreshType'
  BY <1>2, <1>3 DEF RefreshType
<1>. QED  BY <1>2, <1>4, <1>5, <1>6, RefreshFrame

\* The models that are to be imported are those the settings lack or have too many.
LEMMA ListMade ==
    ASSUME PcType, ConfigType, RefreshInv, NEW a \in Actors, List(a), store = copy[a]
    PROVE  Made(a)'
<1>1. /\ pc'[a] = "import" /\ todo'[a] = ToImport(store) /\ store' = store
  BY DEF List, Goto, PcType, ConfigType
<1>2. store.models \subseteq Models
  BY DEF ConfigType, File
<1>3. Importing(a)' /\ Pending(a)' = ToImport(store)
  BY <1>1 DEF Importing, Pending, InFile, At
<1>4. ToImport(store) \subseteq ImportOp
  BY <1>2 DEF ToImport, ImportOp, Belongs
<1>. QED  BY <1>1, <1>3, <1>4 DEF Made, ToImport, At, Belongs

LEMMA RefreshStep ==
    ASSUME PcType, ConfigType, RefreshInv, NEW a \in Actors, RefreshAct(a)
    PROVE  RefreshInv'
<1>0. /\ work \in [Actors -> [job : Nat, apply : BOOLEAN, alone : BOOLEAN]]
      /\ work[a].alone => Made(a)
      /\ work[a] # NoWork => Refreshing(a)
      /\ todo[a] # {} => Importing(a)
      /\ RefreshType /\ JobsHaveWorkers
  BY DEF RefreshInv, RefreshType, Places
<1>1. CASE Fetch(a)
  <2>1. /\ UNCHANGED catalog /\ Refreshing(a)' /\ ~Importing(a) /\ ~At(a, "artifacts")
    BY <1>1 DEF Fetch, Use, Goto, At, PcType, Refreshing, Importing, InFile
  <2>2. ~work[a].alone /\ todo[a] = {}
    BY <1>0, <2>1 DEF Made
  <2>3. RefreshType' /\ JobsHaveWorkers'
    BY <1>0, <2>1 DEF catalog, RefreshType, JobsHaveWorkers
  <2>. QED  BY <2>1, <2>2, <2>3, RefreshFrame DEF catalog
<1>2. CASE List(a)
  <2>1. /\ UNCHANGED <<jobs, store>> /\ pc'[a] = "import"
        /\ work' = [work EXCEPT ![a].alone = (store = copy[a])]
        /\ \A b \in Actors \ {a} : todo'[b] = todo[b]
    BY <1>2 DEF List, Goto, PcType, ConfigType
  <2>2. /\ work' \in [Actors -> [job : Nat, apply : BOOLEAN, alone : BOOLEAN]]
        /\ \A b \in Actors : work'[b].job = work[b].job
        /\ \A b \in Actors \ {a} : work'[b] = work[b]
        /\ work'[a].alone = (store = copy[a])
    BY <1>0, <2>1
  <2>3. RefreshType' /\ JobsHaveWorkers'
    BY <1>0, <2>1, <2>2 DEF RefreshType, JobsHaveWorkers
  <2>4. Refreshing(a)' /\ Importing(a)'
    BY <2>1 DEF Refreshing, Importing, At
  <2>5. work'[a].alone => Made(a)'
    BY <1>2, <2>2, ListMade
  <2>. QED  BY <2>1, <2>2, <2>3, <2>4, <2>5, RefreshFrame
<1>3. CASE Import(a)
  <2>1. /\ UNCHANGED <<jobs, work, store>> /\ pc[a] = "import"
        /\ \A b \in Actors \ {a} : todo'[b] = todo[b]
        /\ \/ todo[a] = {} /\ todo'[a] = {} /\ pc'[a] = "artifacts"
           \/ \E o \in todo[a] : /\ op'[a] = o /\ todo'[a] = todo[a] \ {o}
                                 /\ pc'[a] = "load" /\ after'[a] = "import"
    BY <1>3 DEF Import, Use, Goto, At, PcType, ConfigType, config
  <2>2. /\ Refreshing(a)' /\ (todo'[a] # {} => Importing(a)')
        /\ (Importing(a)' \/ At(a, "artifacts")')
    BY <2>1 DEF Refreshing, Importing, InFile, At
  <2>3. Pending(a)' = Pending(a) /\ pc'[a] \notin {"loaded", "write"}
    BY <2>1 DEF Pending, InFile
  <2>4. work'[a].alone => Made(a)'
    BY <1>0, <2>1, <2>2, <2>3 DEF Made, At
  <2>5. RefreshType' /\ JobsHaveWorkers'
    BY <1>0, <2>1 DEF RefreshType, JobsHaveWorkers
  <2>. QED  BY <2>1, <2>2, <2>4, <2>5, RefreshFrame
<1>4. CASE Finish(a) \/ Fail(a)
  BY <1>4, EndedRefresh DEF Finish, Fail
<1>5. ASSUME NEW apply \in BOOLEAN, Refresh(a, apply) PROVE RefreshInv'
  <2> DEFINE own == [NoWork EXCEPT !.apply = apply]
  <2>1. /\ UNCHANGED <<jobs, todo>> /\ pc'[a] = "fetch" /\ pc[a] = "idle"
        /\ work' = [work EXCEPT ![a] = own]
    BY <1>5 DEF Refresh, Goto, At, PcType
  <2>2. todo[a] = {} /\ work[a].job = 0
    BY <1>0, <2>1 DEF Refreshing, Importing, InFile, At, NoWork
  <2>3. /\ own \in [job : Nat, apply : BOOLEAN, alone : BOOLEAN]
        /\ own.job = 0 /\ own.alone = FALSE
    BY DEF NoWork
  <2> HIDE DEF own
  <2>4. /\ work' \in [Actors -> [job : Nat, apply : BOOLEAN, alone : BOOLEAN]]
        /\ \A b \in Actors \ {a} : work'[b] = work[b]
        /\ work'[a].job = 0 /\ ~work'[a].alone
    BY <1>0, <2>1, <2>3
  <2>5. RefreshType' /\ JobsHaveWorkers'
    <3>1. \A b \in Actors : work'[b].job = work[b].job
      BY <2>2, <2>4
    <3>. QED  BY <1>0, <2>1, <2>4, <3>1 DEF RefreshType, JobsHaveWorkers
  <2>6. Refreshing(a)' /\ RefreshAct(a)
    BY <1>5, <2>1 DEF Refreshing, RefreshAct
  <2>. QED  BY <2>1, <2>2, <2>4, <2>5, <2>6, RefreshFrame
<1>. QED  BY <1>1, <1>2, <1>3, <1>4, <1>5, StartedRefresh DEF RefreshAct

-----------------------------------------------------------------------------
(* Together.                                                               *)

IInv == PcType /\ SettingsInv /\ VaultInv /\ VariableInv /\ RefreshInv

LEMMA InitInv == ASSUME Init PROVE IInv
<1> USE VaultAssumption, MetadataAssumption, ConfigAssumption DEF Init, VaultInit, ConfigInit
<1>1. PcType
  BY DEF PcType, Steps, Later
<1>2. SettingsInv
  BY DEF SettingsInv, ConfigType, Ops, File, NoFile, NoOp, Fits, Items, Holds, At
<1>3. VaultInv
  BY DEF VaultInv, VaultType, Vault, NoVault, NoHead, NoChange, Known, LoggedIn, Exists, At
<1>4. VariableInv
  BY DEF VariableInv, VariableType, Secret, Testing, LoggedIn, Beneath
<1>5. RefreshInv
  BY DEF RefreshInv, RefreshType, Places, JobsHaveWorkers, NoWork
<1>. QED  BY <1>1, <1>2, <1>3, <1>4, <1>5 DEF IInv

LEMMA NextInv == ASSUME IInv, Next PROVE IInv'
<1> USE DEF IInv
<1>1. CASE SessionAct /\ UNCHANGED catalog
  <2>1. UNCHANGED <<pc, op, after, todo, store, profiles, copy, saved, gone>>
    BY <1>1, SessionPc DEF requests, config, catalog
  <2>2. PcType' /\ SettingsInv'
    BY <2>1 DEF PcType, SettingsInv, ConfigType, Fits, Holds, At
  <2>3. RefreshInv'
    BY <2>1, <1>1, SameRefresh DEF catalog
  <2>. QED  BY <1>1, <2>2, <2>3, SessionVault, SessionVariable DEF VaultInv
<1>2. ASSUME NEW a \in Actors,
             \/ (VaultAct(a) \/ TestAct(a)) /\ UNCHANGED catalog
             \/ FileAct(a) \/ MatrixAct(a) \/ RefreshAct(a) \/ RequestAct(a)
      PROVE  IInv'
  <2>1. PcType'
    BY <1>2, PcStep
  <2>2. SettingsInv'
    BY <1>2, FileSettings, OtherSettings
  <2>3. VaultInv'
    BY <1>2, VaultStep1, OtherVault DEF TestAct
  <2>4. VariableInv'
    BY <1>2, TestVariable, MatrixVariable, OtherVariable DEF VaultInv
  <2>5. RefreshInv'
    BY <1>2, IdleRefresh, FileRefresh, RefreshStep DEF SettingsInv
  <2>. QED  BY <2>1, <2>2, <2>3, <2>4, <2>5
<1>. QED  BY <1>1, <1>2, NextCases

LEMMA Stutter == ASSUME IInv, UNCHANGED vars PROVE IInv'
<1> USE DEF IInv, vars, vaultVars, catalog, requests, config, files, memory, variable
<1>1. PcType' /\ SettingsInv'
  BY DEF PcType, SettingsInv, ConfigType, Fits, Holds, At
<1>2. VaultInv'
  BY VaultFrame
<1>3. VariableInv'
  BY DEF VariableInv, VariableType, Testing, Tests, LoggedIn, Beneath
<1>4. RefreshInv'
  BY SameRefresh
<1>. QED  BY <1>1, <1>2, <1>3, <1>4

\* The requests keep the settings, the vaults and the variable together.
THEOREM Invariant == Spec => []IInv
<1>1. Init => IInv
  BY InitInv
<1>2. IInv /\ [Next]_vars => IInv'
  BY NextInv, Stutter
<1>. QED  BY <1>1, <1>2, PTL DEF Spec

\* router_config_service.py: what was saved is there, and what was deleted is
\* not, for any number of requests that load, complete and write the file.
THEOREM SettingsKept == Spec => []SettingsAreKept
<1>1. IInv => SettingsAreKept
  BY DEF IInv, SettingsInv, Fits, SettingsAreKept
<1>. QED  BY <1>1, Invariant, PTL

\* llm_api_manager_service.py: a vault opens with the password set last, for any
\* users and any interleaving of saves, logins and changes of passwords.
THEOREM VaultsOpenAlways == Spec => []VaultsOpen
<1>1. ASSUME IInv, NEW u \in Users, Exists(u) /\ u \notin clashed
      PROVE  /\ Opens(u)
             /\ session.user = u /\ ~BusyWith(u) =>
                   vault[u].full = plain /\ session.key = vault[u].key
  <2>1. Kept(u)
    BY <1>1 DEF IInv, VaultInv
  <2>2. Opens(u)
    BY <1>1, <2>1 DEF Kept, KeptOpen, Opens
  <2>3. ASSUME session.user = u, ~BusyWith(u)
        PROVE  vault[u].full = plain /\ session.key = vault[u].key
    BY <2>1, <2>3 DEF Kept, KeptPlain, KeptKey, BusyWith, Changing, At
  <2>. QED  BY <2>2, <2>3
<1>2. IInv => VaultsOpen
  BY <1>1 DEF VaultsOpen
<1>. QED  BY <1>2, Invariant, PTL

\* After a logout the variable is what it was, through any injections and tests.
THEOREM VariableRestored == Spec => []VariableComesBack
<1>1. IInv => VariableComesBack
  BY DEF IInv, VariableInv, Beneath, VariableComesBack
<1>. QED  BY <1>1, Invariant, PTL

\* metadata_service.py: a job that is shown as running has its worker and one that
\* is shown as ended has none, and an import nobody disturbs leaves the providers
\* of the catalog with its models and no others, for any catalog, number of
\* refreshes at once, other requests and bound on the jobs that are remembered.
THEOREM RefreshTold == Spec => []RefreshIsTold
<1>1. ASSUME IInv PROVE TypeOK
  <2> USE <1>1 DEF IInv
  <2>1. ConfigTypeOK
    BY DEF SettingsInv, ConfigType, ConfigTypeOK, File
  <2>2. /\ \A u \in Users : vault[u].salt \in Nat
        /\ session.user \in Users \cup {Nobody} /\ plain \in BOOLEAN
    BY DEF VaultInv, VaultType, Vault
  <2>3. /\ env \in Users \cup {Own, Filed} /\ mixed \in BOOLEAN
        /\ injected \in Users \cup {Own, Nothing, Filed}
    BY DEF VariableInv, VariableType, Secret
  <2>4. ASSUME NEW a \in Actors, At(a, "idle")
        PROVE  ~Testing(a) /\ work[a] = NoWork /\ todo[a] = {}
    BY <2>4 DEF VariableInv, Tests, RefreshInv, Places, Refreshing, Importing, InFile, At
  <2>. QED
    BY <2>1, <2>2, <2>3, <2>4 DEF TypeOK, PcType, Steps, VaultInv, VaultType, RefreshInv,
       RefreshType, Statuses
<1>2. ASSUME IInv PROVE NoJobIsStuck
  BY <1>2 DEF IInv, RefreshInv, RefreshType, JobsHaveWorkers, NoJobIsStuck, Remembered
<1>3. ASSUME IInv PROVE ImportIsWhole
  <2>1. ASSUME NEW a \in Actors, At(a, "artifacts") /\ work[a].apply /\ work[a].alone
        PROVE  /\ ManagedProviders \subseteq store.providers
               /\ {m \in store.models : Belongs(m)} = Managed
    <3>1. Made(a) /\ Pending(a) = {}
      BY <1>3, <2>1 DEF IInv, RefreshInv, Places, Importing, Pending, InFile, At
    <3>2. \A m \in Managed : Belongs(m)
      BY DEF Belongs, ManagedProviders
    <3>. QED  BY <3>1, <3>2 DEF Made
  <2>. QED  BY <2>1 DEF ImportIsWhole
<1>4. IInv => RefreshIsTold
  BY <1>1, <1>2, <1>3 DEF RefreshIsTold
<1>. QED  BY <1>4, Invariant, PTL
=============================================================================
