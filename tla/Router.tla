------------------------------- MODULE Router -------------------------------
(***************************************************************************)
(* The local router (router_service.py): requests of app-servers over HTTP *)
(* (forward_response), of the native kernel (complete_response), and tests *)
(* of a provider, which go through either and report what came of it.      *)
(*                                                                         *)
(* The upstream, its errors and the time they take are nondeterministic.   *)
(* The settings change at any time (Configure); a provider stands for      *)
(* its enabled entry with its default model.  Requests share nothing but   *)
(* the settings and the token.                                             *)
(***************************************************************************)
EXTENDS ResponseStream

CONSTANTS
    Requests, Providers, Nothing,
    FamilyOf,           \* provider family: it decides the policies
    WireOf,             \* "chat" or "responses" of each provider
    PolicyOf,           \* temperature policy of each family
    Settings,           \* bound: the settings there may be
    Temperatures,       \* temperatures of tests, in tenths
    MaxRetries,         \* retries of a transient error
    MaxLines,           \* bound: lines of an answer
    MaxRotations        \* bound: rotations of the token

RequestKinds == {"stream", "whole", "complete", "test"}
Policies == {"pass_through_0_2", "qwen_omit_zero_clamp_1", "kimi_only_temperature_1"}

ASSUME RouterAssumption ==
    /\ Nothing \notin Providers
    /\ WireOf \in [Providers -> {"chat", "responses"}]
    /\ PolicyOf \in [{FamilyOf[p] : p \in Providers} -> Policies]
    /\ Settings \subseteq [configured : SUBSET Providers, secrets : SUBSET Providers]
    /\ Temperatures \subseteq Int
    /\ {MaxRetries, MaxLines, MaxRotations} \subseteq Nat

VARIABLES
    configured,     \* providers of the settings
    secrets,        \* those whose env key is set
    token,          \* _token
    env,            \* os.environ[ROUTER_ENV_KEY]
    rotating,       \* rotate_token is between its two assignments
    held,           \* the token the app-server was started with
    pc, kind,
    asked,          \* provider of a request's model
    target,         \* provider it was sent to
    tries,          \* retries so far
    lines,          \* lines the upstream has sent
    heads,          \* statuses written to the client, or told to the caller
    out,            \* events written
    wanted,         \* temperature of a test, or Nothing
    passed,         \* the one sent upstream
    warned          \* the result of the test warns that it was changed

settings == <<configured, secrets>>
tokens == <<token, env, rotating, held>>
request == <<kind, asked, wanted, warned>>
upstream == <<target, tries, passed>>
answer == <<lines, heads, out>>
routerVars == <<settings, tokens, pc, request, upstream, answer>>

At(r, step) == pc[r] = step
Goto(r, step) == pc' = [pc EXCEPT ![r] = step]
Set(f, r, value) == [f EXCEPT ![r] = value]

-----------------------------------------------------------------------------
(* Settings and token.                                                     *)

Configure ==
    /\ \E s \in Settings : configured' = s.configured /\ secrets' = s.secrets
    /\ UNCHANGED <<tokens, pc, request, upstream, answer>>

Rotate ==
    /\ ~rotating /\ token < MaxRotations
    /\ token' = token + 1
    /\ rotating' = TRUE
    /\ UNCHANGED <<settings, env, held, pc, request, upstream, answer>>

\* Mutant: the environment keeps the old token.
RotateAlone ==
    /\ rotating
    /\ rotating' = FALSE
    /\ UNCHANGED <<settings, token, env, held, pc, request, upstream, answer>>

RotateEnv ==
    /\ rotating
    /\ env' = token
    /\ rotating' = FALSE
    /\ UNCHANGED <<settings, token, held, pc, request, upstream, answer>>

\* An app-server is started with the environment of the sidecar.
LaunchClient ==
    /\ held # env
    /\ held' = env
    /\ UNCHANGED <<settings, token, env, rotating, pc, request, upstream, answer>>

-----------------------------------------------------------------------------
(* Temperatures.                                                           *)

Clamped(value, low, high) == IF value < low THEN low ELSE IF value > high THEN high ELSE value

Applied(policy, value) ==
    IF value = Nothing THEN Nothing
    ELSE CASE policy = "qwen_omit_zero_clamp_1" ->
                  IF value <= 0 THEN Nothing ELSE Clamped(value, 0, 10)
           [] policy = "kimi_only_temperature_1" ->
                  IF value = 10 THEN value ELSE Nothing
           [] OTHER -> Clamped(value, 0, 20)

Warned(policy, value) ==
    /\ value # Nothing
    /\ \/ policy = "qwen_omit_zero_clamp_1" /\ (value <= 0 \/ value > 10)
       \/ policy = "kimi_only_temperature_1" /\ value # 10
       \/ value < 0 \/ value > 20

-----------------------------------------------------------------------------
(* A request.                                                              *)

OfHttp(r) == kind[r] \in {"stream", "whole"}
Streams(r) == kind[r] \in {"stream", "test"}
Chat(r) == WireOf[target[r]] = "chat"

\* An HTTP request is let in only with the token of the router.
Receive(r, k, p, t) ==
    /\ At(r, "idle")
    /\ t # Nothing => k = "test"
    /\ kind' = Set(kind, r, k)
    /\ asked' = Set(asked, r, p)
    /\ wanted' = Set(wanted, r, t)
    /\ IF k \in {"stream", "whole"} /\ held # token
       THEN heads' = Set(heads, r, <<"auth">>) /\ Goto(r, "done")
       ELSE heads' = heads /\ Goto(r, IF k = "test" THEN "preview" ELSE "received")
    /\ UNCHANGED <<settings, tokens, warned, upstream, lines, out>>

\* The provider of the model, or else another one of its family.
Routes(p) ==
    IF p \in configured THEN {p}
    ELSE {q \in configured : FamilyOf[q] = FamilyOf[p]}

\* Any exception.  HTTP requests get a head and an error, even after a head.
Fail(r) ==
    /\ pc[r] \notin {"idle", "done"}
    /\ heads' = Set(heads, r, Append(heads[r], "bad"))
    /\ Goto(r, "done")
    /\ UNCHANGED <<settings, tokens, request, upstream, lines, out>>

\* A test makes its warnings from a preview of the request.
Preview(r) ==
    /\ At(r, "preview")
    /\ \E q \in Routes(asked[r]) :
           warned' = Set(warned, r, Warned(PolicyOf[FamilyOf[q]], wanted[r]))
    /\ Goto(r, "received")
    /\ UNCHANGED <<settings, tokens, kind, asked, wanted, upstream, answer>>

ResolveProvider(r) ==
    /\ At(r, "received")
    /\ \E q \in Routes(asked[r]) \cap secrets :
           /\ target' = Set(target, r, q)
           /\ passed' = Set(passed, r, Applied(PolicyOf[FamilyOf[q]], wanted[r]))
    /\ Goto(r, "asked")
    /\ UNCHANGED <<settings, tokens, request, tries, answer>>

\* Mutant: a retry is not counted.
RefuseAgain(r, status) ==
    /\ At(r, "asked")
    /\ tries' = tries
    /\ IF status = "busy" /\ tries[r] < MaxRetries
       THEN Goto(r, "retry") /\ heads' = heads
       ELSE Goto(r, "done") /\ heads' = Set(heads, r, <<status>>)
    /\ UNCHANGED <<settings, tokens, request, target, passed, lines, out>>

\* 502, 503, 504 and an overloaded 429 are transient ("busy").
Refuse(r, status) ==
    /\ At(r, "asked")
    /\ IF status = "busy" /\ tries[r] < MaxRetries
       THEN /\ Goto(r, "retry")
            /\ tries' = Set(tries, r, tries[r] + 1)
            /\ heads' = heads
       ELSE /\ Goto(r, "done")
            /\ heads' = Set(heads, r, <<status>>)
            /\ tries' = tries
    /\ UNCHANGED <<settings, tokens, request, target, passed, lines, out>>

\* The same request once more, after a pause.
Retry(r) ==
    /\ At(r, "retry")
    /\ Goto(r, "asked")
    /\ UNCHANGED <<settings, tokens, request, upstream, answer>>

\* The head goes to the client at once, unless the answer is to be converted.
Accept(r) ==
    /\ At(r, "asked")
    /\ Goto(r, "reading")
    /\ heads' = IF Streams(r) \/ (OfHttp(r) /\ ~Chat(r))
                THEN Set(heads, r, <<"ok">>) ELSE heads
    /\ out' = IF Streams(r) /\ Chat(r) THEN Set(out, r, Opening) ELSE out
    /\ UNCHANGED <<settings, tokens, request, upstream, lines>>

ReadLine(r, line) ==
    LET more == Append(lines[r], line)
        chunk == <<Event("chunk", 0, <<Item("raw", <<Len(more)>>)>>)>>
    IN
    /\ At(r, "reading") /\ Len(lines[r]) < MaxLines
    /\ lines' = Set(lines, r, more)
    /\ out' = IF ~Streams(r) THEN out
              ELSE Set(out, r, out[r] \o IF Chat(r) THEN Arrival(more) ELSE chunk)
    /\ UNCHANGED <<settings, tokens, pc, request, upstream, heads>>

\* The calls that complete_response returns to the kernel.
Returned(r) == NormalizedCalls(lines[r], ~Chat(r))

\* ok in the result of a test: an exception makes it a failure.
Verdict(r) == heads[r] = <<"ok">>

\* The upstream has no more, or has closed the connection early.
EndOfAnswer(r) ==
    LET whole == IF kind[r] = "complete" THEN Returned(r)
                 ELSE IF Chat(r) THEN ConvertedOutput(lines[r])
                 ELSE <<Item("raw", [i \in DOMAIN lines[r] |-> i])>>
    IN
    /\ At(r, "reading")
    /\ Goto(r, "done")
    /\ heads' = Set(heads, r, <<"ok">>)
    /\ out' = Set(out, r, IF ~Streams(r) THEN <<Event("whole", 0, whole)>>
                          ELSE IF Chat(r) THEN out[r] \o Closing(lines[r])
                          ELSE out[r])
    /\ UNCHANGED <<settings, tokens, request, upstream, lines>>

-----------------------------------------------------------------------------
RouterInit ==
    /\ configured = Providers /\ secrets = Providers
    /\ token = 0 /\ env = 0 /\ held = 0 /\ rotating = FALSE
    /\ pc = [r \in Requests |-> "idle"]
    /\ kind = [r \in Requests |-> "stream"]
    /\ asked = [r \in Requests |-> Nothing]
    /\ target = [r \in Requests |-> Nothing]
    /\ tries = [r \in Requests |-> 0]
    /\ lines = [r \in Requests |-> <<>>]
    /\ heads = [r \in Requests |-> <<>>]
    /\ out = [r \in Requests |-> <<>>]
    /\ wanted = [r \in Requests |-> Nothing]
    /\ passed = [r \in Requests |-> Nothing]
    /\ warned = [r \in Requests |-> FALSE]

\* What a request goes on with; every wait on the upstream ends after 300 s.
GoOn(r) ==
    \/ Preview(r) \/ ResolveProvider(r) \/ Retry(r) \/ Accept(r)
    \/ EndOfAnswer(r) \/ Fail(r)
    \/ \E status \in {"busy", "refused"} : Refuse(r, status)
    \/ \E line \in LineKinds : ReadLine(r, line)

RouterNext ==
    \/ Configure \/ Rotate \/ RotateEnv \/ LaunchClient
    \/ \E r \in Requests :
           \/ GoOn(r)
           \/ \E k \in RequestKinds, p \in Providers, t \in Temperatures \cup {Nothing} :
                  Receive(r, k, p, t)

RouterSpec == RouterInit /\ [][RouterNext]_routerVars
RouterFairSpec == RouterSpec /\ \A r \in Requests : WF_routerVars(GoOn(r))

-----------------------------------------------------------------------------
(* Properties.                                                             *)

Done(r) == At(r, "done")

RouterTypeOK ==
    /\ configured \subseteq Providers /\ secrets \subseteq Providers
    /\ {token, env, held} \subseteq 0 .. MaxRotations /\ rotating \in BOOLEAN
    /\ pc \in [Requests -> {"idle", "preview", "received", "asked", "retry",
                       "reading", "done"}]
    /\ kind \in [Requests -> RequestKinds]
    /\ target \in [Requests -> Providers \cup {Nothing}]
    /\ \A r \in Requests :
           /\ tries[r] \in 0 .. MaxRetries
           /\ Done(r) => heads[r] # <<>>
           /\ target[r] # Nothing => FamilyOf[target[r]] = FamilyOf[asked[r]]

\* At every moment the events of a stream are those of the Responses API, and a
\* stream of a chat provider that was not broken off ends with a response that
\* has the items the same answer has when it is converted whole; a response
\* that is passed through lacks nothing.
StreamsAreWhole(r) ==
    /\ WellFormed(out[r])
    /\ WellFormed(Replayed(ConvertedOutput(lines[r])))
    /\ Done(r) /\ heads[r] = <<"ok">> /\ Streams(r) =>
           IF Chat(r)
           THEN /\ Last(out[r]).is = "end"
                /\ Substance(out[r][Len(out[r]) - 1].items)
                       = Substance(ConvertedOutput(lines[r]))
           ELSE [i \in DOMAIN out[r] |-> out[r][i].items[1].body]
                    = [i \in DOMAIN lines[r] |-> <<i>>]

\* A test that succeeded has seen a whole answer, and warns of a temperature
\* that was not sent as it was set (temperature_warnings beside
\* apply_temperature_config).
TestsTellTheTruth(r) ==
    Done(r) /\ kind[r] = "test" /\ Verdict(r) =>
        /\ Chat(r) => Last(out[r]).is = "end"
        /\ warned[r] <=> passed[r] # wanted[r]

\* What clients and users are told is true, and of the provider they asked for.
AnswersAreTrue == RouterTypeOK /\ \A r \in Requests : StreamsAreWhole(r) /\ TestsTellTheTruth(r)

\* A client is refused only if the token was rotated since it was started; an
\* error of the provider that is transient is passed on only after all retries;
\* an error of the router comes last, and after another head only if the answer
\* was broken off in the middle.
FailuresAreExplained == [][\A r \in Requests :
    heads'[r] # heads[r] =>
        LET status == Last(heads'[r]) IN
        /\ status = "auth" => rotating \/ held # env
        /\ status = "busy" => tries[r] = MaxRetries
        /\ Len(heads'[r]) > 1 => heads[r] = <<"ok">> /\ At(r, "reading")
                                     /\ status = "bad"]_routerVars

\* Every request comes to an end, whatever the upstream does: retries are
\* counted, and errors and breaks are answered.
EveryRequestEnds == \A r \in Requests : ~At(r, "idle") ~> Done(r)
=============================================================================
