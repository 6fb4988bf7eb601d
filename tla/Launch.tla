------------------------------- MODULE Launch -------------------------------
(***************************************************************************)
(* Sidecars and their app-servers on one machine: the desktop shell, which *)
(* starts a sidecar and kills the one it finds (main.rs), what a sidecar   *)
(* does before it serves (serve and AppContext of server.py, start of      *)
(* RouterService), and how it launches an app-server that is to reach its  *)
(* router, on Windows or in a WSL distribution all sidecars share          *)
(* (_resolve_launch_target and what it calls, runtime_service.py).         *)
(*                                                                         *)
(* Sidecars have the same project open.  The operating system, WSL and the *)
(* app-server are external.  A host is what answers there: "here" is this  *)
(* machine as Linux sees it, "other" a machine with an AstraBridge of its  *)
(* own on the default port, and "none" is unreachable.                     *)
(***************************************************************************)
EXTENDS Naturals, FiniteSets

CONSTANTS
    Sidecars,
    Nowhere,        \* no sidecar, no port, no configuration
    Default,        \* the default port of the router
    Reaches,        \* hosts WSL may try, in their order
    MaxRotations    \* bound: times a token is rotated

ASSUME LaunchAssumption ==
    /\ {Nowhere, Default} \cap Sidecars = {} /\ Nowhere # Default
    /\ MaxRotations \in Nat

VARIABLES
    hosts,          \* hosts WSL may try; none if app-servers run on Windows
    dev,            \* sidecars started by hand, on a port of their own
    step,           \* step of a sidecar's life
    stage,          \* stage of the launch it is in
    desk,           \* sidecars that hold the port of the front end
    router,         \* port of a router: the default or one of its own
    token,          \* rotations of its token
    rendered,       \* port in the config.toml of the project
    translated,     \* host and port in its config.wsl.toml
    installed,      \* host and port in the config.toml in WSL
    app,            \* the app-server a sidecar is connected to
    strays,         \* app-servers in WSL nobody is connected to
    overlapped      \* sidecars whose launch another one overlapped

configs == <<rendered, translated, installed>>
processes == <<app, strays, overlapped>>
machine == <<hosts, dev>>
launch == <<machine, step, stage, desk, router, token, configs, processes>>

NoConfig == [host |-> "none", port |-> Nowhere]
NoApp == [host |-> "none", port |-> Nowhere, alone |-> FALSE]
Ports == Sidecars \cup {Default}
wsl == hosts # <<>>
Alive(s) == step[s] \notin {"none", "gone"}
Launching(s) == stage[s] # "none"
To(s, next) == stage' = [stage EXCEPT ![s] = next]

\* Who answers at a port of a host, as /readyz tells.
Answers(host, port) ==
    IF host = "here" THEN {s \in Sidecars : Alive(s) /\ router[s] = port} ELSE {}

\* App-servers: whose, whether its launch was alone, whether it is connected.
Instances ==
    {<<s, app[s].alone, TRUE>> : s \in {t \in Sidecars : app[t] # NoApp}}
    \cup {<<x[1], x[2], FALSE>> : x \in strays}

-----------------------------------------------------------------------------
(* A sidecar that is gone, and what may be left of its app-server in WSL.  *)

Leave(s) ==
    \/ app[s] # NoApp /\ wsl /\ strays' = strays \cup {<<s, app[s].alone>>}
    \/ strays' = strays

End(s) ==
    /\ step' = [step EXCEPT ![s] = "gone"]
    /\ stage' = [stage EXCEPT ![s] = "none"]
    /\ desk' = desk \ {s}
    /\ router' = [router EXCEPT ![s] = Nowhere]
    /\ app' = [app EXCEPT ![s] = NoApp]
    /\ Leave(s)

Crash(s) ==
    /\ Alive(s)
    /\ End(s)
    /\ UNCHANGED <<machine, token, configs, overlapped>>

-----------------------------------------------------------------------------
(* The start of a sidecar.                                                 *)

\* spawn_sidecar: on Windows, a sidecar that listens on the port is killed.
Spawn(s) ==
    LET found == IF s \in dev THEN {} ELSE desk
        Dies(killed, f, end) == [t \in Sidecars |-> IF t \in killed THEN end ELSE f[t]]
    IN
    /\ step[s] = "none"
    /\ \E killed \in {{}} \cup {{t} : t \in found} :
       /\ desk' = desk \ killed
       /\ router' = Dies(killed, router, Nowhere)
       /\ app' = Dies(killed, app, NoApp)
       /\ step' = Dies(killed, [step EXCEPT ![s] = "spawned"], "gone")
       /\ stage' = Dies(killed, stage, "none")
       /\ IF killed = {} THEN strays' = strays ELSE \A t \in killed : Leave(t)
    /\ UNCHANGED <<machine, token, configs, overlapped>>

\* serve: the port is looked at before the context is made, which takes long.
CheckPort(s) ==
    /\ step[s] = "spawned"
    /\ step' = [step EXCEPT ![s] = IF s \notin dev /\ desk # {} THEN "gone" ELSE "checked"]
    /\ UNCHANGED <<machine, stage, desk, router, token, configs, processes>>

InUse(port) == Answers("here", port) # {}

\* The default port, or any if it is in use when looked at or when bound.
PortFor(s) == IF InUse(Default) THEN s ELSE Default

\* AppContext: the router listens before anything else is there.
StartRouter(s) ==
    /\ step[s] = "checked"
    /\ router' = [router EXCEPT ![s] = PortFor(s)]
    /\ step' = [step EXCEPT ![s] = "routed"]
    /\ UNCHANGED <<machine, stage, desk, token, configs, processes>>

BeginLaunch(s) ==
    LET others == {t \in Sidecars \ {s} : Launching(t)} IN
    /\ stage' = [stage EXCEPT ![s] = "render"]
    /\ overlapped' = IF others = {} THEN overlapped \ {s}
                     ELSE overlapped \cup others \cup {s}

\* _restore_startup_state, for a project with a profile or without.
Restore(s) ==
    /\ step[s] = "routed"
    /\ step' = [step EXCEPT ![s] = "restored"]
    /\ \/ BeginLaunch(s)
       \/ UNCHANGED <<stage, overlapped>>
    /\ UNCHANGED <<machine, desk, router, token, configs, app, strays>>

\* Of two that found the port free, Windows lets the later one share it, other
\* systems do not.
BindPort(s) ==
    /\ step[s] = "restored" /\ ~Launching(s)
    /\ \/ /\ step' = [step EXCEPT ![s] = "open"]
          /\ desk' = IF s \in dev THEN desk ELSE desk \cup {s}
          /\ UNCHANGED <<stage, router, processes>>
       \/ /\ s \notin dev /\ desk # {}
          /\ End(s)
          /\ UNCHANGED overlapped
    /\ UNCHANGED <<machine, token, configs>>

-----------------------------------------------------------------------------
(* The launch of an app-server.                                            *)

\* _ensure_client has no client that runs, or one on another configuration.
Relaunch(s) ==
    /\ step[s] = "open" /\ ~Launching(s)
    /\ BeginLaunch(s)
    /\ app' = [app EXCEPT ![s] = NoApp] /\ Leave(s)
    /\ UNCHANGED <<machine, step, desk, router, token, configs>>

LaunchFails(s) ==
    /\ Launching(s)
    /\ To(s, "none")
    /\ UNCHANGED <<machine, step, desk, router, token, configs, processes>>

\* _write_config, with ASTRABRIDGE_BASE_URL.
Render(s) ==
    /\ stage[s] = "render"
    /\ rendered' = router[s]
    /\ To(s, IF wsl THEN "terminate" ELSE "start")
    /\ UNCHANGED <<machine, step, desk, router, token, translated, installed,
                   processes>>

\* Those of other sidecars as well.
Terminate(s) ==
    /\ stage[s] = "terminate"
    /\ app' = [t \in Sidecars |-> NoApp] /\ strays' = {}
    /\ To(s, "probe")
    /\ UNCHANGED <<machine, step, desk, router, token, configs, overlapped>>

\* Mutant: any AstraBridge will do.
IsAny(s, host) ==
    Answers(host, router[s]) # {} \/ (host = "other" /\ router[s] = Default)

\* The fingerprint that is expected is that of the first token.
IsOwn(s, host) == Answers(host, router[s]) = {s} /\ token[s] = 0

\* _rewrite_wsl_config_text: the host is replaced, the port stays.
Translated(host) == [host |-> host, port |-> rendered]

Found(s, i) == IsOwn(s, hosts[i]) /\ \A j \in 1 .. i - 1 : ~IsOwn(s, hosts[j])

Probe(s) ==
    /\ stage[s] = "probe"
    /\ \E i \in DOMAIN hosts :
           /\ Found(s, i)
           /\ translated' = Translated(hosts[i])
    /\ To(s, "copy")
    /\ UNCHANGED <<machine, step, desk, router, token, rendered, installed,
                   processes>>

Copy(s) ==
    /\ stage[s] = "copy"
    /\ installed' = translated
    /\ To(s, "start")
    /\ UNCHANGED <<machine, step, desk, router, token, rendered, translated,
                   processes>>

\* In WSL, CODEX_HOME is one directory for all.
Read == IF wsl THEN installed ELSE [host |-> "here", port |-> rendered]

Start(s) ==
    /\ stage[s] = "start"
    /\ app' = [app EXCEPT ![s] = [host |-> Read.host, port |-> Read.port,
                                  alone |-> s \notin overlapped]]
    /\ To(s, "none")
    /\ UNCHANGED <<machine, step, desk, router, token, configs, strays, overlapped>>

RotateToken(s) ==
    /\ step[s] = "open" /\ token[s] < MaxRotations
    /\ token' = [token EXCEPT ![s] = @ + 1]
    /\ UNCHANGED <<machine, step, stage, desk, router, configs, processes>>

-----------------------------------------------------------------------------
LaunchInit ==
    /\ hosts \in Reaches \cup {<<>>} /\ dev \in SUBSET Sidecars
    /\ step = [s \in Sidecars |-> "none"] /\ stage = step
    /\ desk = {} /\ overlapped = {} /\ strays = {}
    /\ router = [s \in Sidecars |-> Nowhere]
    /\ token = [s \in Sidecars |-> 0]
    /\ rendered = Nowhere /\ translated = NoConfig /\ installed = NoConfig
    /\ app = [s \in Sidecars |-> NoApp]

LaunchNext == \E s \in Sidecars :
    \/ Spawn(s) \/ CheckPort(s) \/ StartRouter(s) \/ Restore(s) \/ BindPort(s)
    \/ Relaunch(s) \/ LaunchFails(s) \/ Render(s) \/ Terminate(s) \/ Probe(s)
    \/ Copy(s) \/ Start(s)
    \/ RotateToken(s) \/ Crash(s)

-----------------------------------------------------------------------------
LaunchTypeOK ==
    /\ step \in [Sidecars -> {"none", "spawned", "checked", "routed", "restored",
                              "open", "gone"}]
    /\ stage \in [Sidecars -> {"none", "render", "terminate", "probe", "copy", "start"}]
    /\ desk \cup overlapped \subseteq Sidecars
    /\ \A s \in Sidecars : router[s] \in {Nowhere, Default, s}
    /\ strays \subseteq Sidecars \X BOOLEAN
    /\ rendered \in Ports \cup {Nowhere}

\* No two routers have one port, however sidecars start and end.
RoutersApart == \A s, t \in Sidecars :
    s # t /\ Alive(s) /\ Alive(t) /\ router[s] = router[t] => router[s] = Nowhere

\* An app-server sends its requests to the router of the sidecar that launched
\* it, whatever sidecars and app-servers were there before, and whoever else
\* answers on that port (_wsl_router_base_url).
RequestsReachOwnRouter == \A s \in Sidecars :
    app[s].alone => Answers(app[s].host, app[s].port) = {s}

\* Of app-servers in WSL there is one, those sidecars that have ended left
\* behind included (_terminate_stale_astrabridge_wsl_app_servers).
OneAppServer == wsl =>
    \A i, j \in Instances : i # j => ~i[2] /\ ~j[2]

\* An app-server whose launch no other sidecar's overlapped is the only one, and
\* it is its sidecar's own.
AppServersAreOwn ==
    LaunchTypeOK /\ RoutersApart /\ RequestsReachOwnRouter /\ OneAppServer
=============================================================================
