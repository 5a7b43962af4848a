----------------------------- MODULE VpnGateway -----------------------------
(***************************************************************************)
(* The agent on a VPN gateway container: the startup of main.go, POST      *)
(* /connect (httpapi), the self-heal cycle (selfheal), state.json (state), *)
(* the kill switch (netctl) and wg0 (wireguard).                           *)
(*                                                                         *)
(* Startup runs alone; afterwards the self-heal goroutine and one          *)
(* goroutine per request run together, without a lock, over state.json,    *)
(* wg0.conf and the interface.  Each of them is a flow that goes through   *)
(* the same steps: pick a server, wg-quick down, write wg0.conf, wg-quick  *)
(* up, save.  Every call that leaves the process is one step.              *)
(*                                                                         *)
(* A request is identified with the country, city and group it asks for,   *)
(* and a server with the selection it was picked for.                      *)
(***************************************************************************)
EXTENDS Naturals, Sequences, FiniteSets

CONSTANTS
    Requests,   \* bound: the POST /connect requests made, by selection
    AnyServer,  \* the empty selection of a fresh gateway
    Resolved,   \* the country a provider reports, no selection of anybody's
    NoPeer      \* no interface, or no wg0.conf yet

ASSUME SelectionAssumption ==
    AnyServer \notin Requests /\ Resolved \notin Requests \union {AnyServer}
        /\ NoPeer \notin Requests \union {AnyServer}

Selections == Requests \union {AnyServer}

VARIABLES
    file,       \* state.json: requested selection, server, and what /status says
    conf,       \* the server wg0.conf describes
    wg0,        \* the server the interface is up with
    forwarding, \* net.ipv4.ip_forward
    iptables,   \* the rules installed
    main,       \* where startup is, "off" while the agent does not run
    heal,       \* where the self-heal cycle is
    request,    \* where each request is
    loaded      \* the state startup ("main") and self-heal ("heal") loaded

kernelVars == <<wg0, forwarding, iptables>>
flowVars == <<main, heal, request>>
vars == <<file, conf, kernelVars, flowVars, loaded>>

\* State.Country, City and Group; Connected; LastHealthCheckOK
State == [sel : Selections, connected : BOOLEAN, ok : BOOLEAN]

\* The steps of a reconnect, in the order a flow takes them.
ReconnectStep == {"connect", "down", "write", "up", "save"}

TypeOK ==
    /\ file \in State
    /\ conf \in Selections \union {NoPeer}
    /\ wg0 \in Selections \union {NoPeer}
    /\ forwarding \in BOOLEAN
    /\ iptables \subseteq {"drop", "in", "out", "masquerade"}
    /\ main \in ReconnectStep \union {"off", "rules", "load", "serving"}
    /\ heal \in ReconnectStep \union {"idle", "check", "saveHealthy", "saveFailed"}
    /\ request \in [Requests -> ReconnectStep \union {"new", "done"}]
    /\ loaded \in [{"main", "heal"} -> State]

\* Load of a file that does not exist yet: the zero value.
Init ==
    /\ file = [sel |-> AnyServer, connected |-> FALSE, ok |-> FALSE]
    /\ conf = NoPeer
    /\ wg0 = NoPeer
    /\ forwarding = FALSE
    /\ iptables = {}
    /\ main = "off"
    /\ heal = "idle"
    /\ request = [r \in Requests |-> "new"]
    /\ loaded = [f \in {"main", "heal"} |-> file]

-----------------------------------------------------------------------------
(* Startup.  A failure of any of its steps is a log.Fatal, after which     *)
(* systemd starts the agent again.                                         *)

\* rules() and natRule(), in the order ApplyKillSwitch applies them.
Rules == <<"drop", "in", "out", "masquerade">>

\* applyRule skips what `iptables -C` finds.
Missing == {k \in DOMAIN Rules : Rules[k] \notin iptables}

\* ApplyKillSwitch turns forwarding on before anything else.
StartAgent ==
    /\ main = "off"
    /\ forwarding' = TRUE
    /\ main' = "rules"
    /\ UNCHANGED <<file, conf, wg0, iptables, heal, request, loaded>>

\* Mutant: a rule that fails is logged, like a failure of ApplyLanBypass.
ApplyRule_WarnOnly ==
    /\ main = "rules"
    /\ main' = "load"
    /\ UNCHANGED <<file, conf, kernelVars, heal, request, loaded>>

\* The next missing rule; with none left, startup goes on to Authenticate.
ApplyRule ==
    /\ main = "rules"
    /\ \/ /\ Missing = {}
          /\ main' = "load"
          /\ UNCHANGED iptables
       \/ \E k \in Missing :
            /\ \A l \in Missing : k <= l
            /\ iptables' = iptables \union {Rules[k]}
            /\ UNCHANGED main
    /\ UNCHANGED <<file, conf, wg0, forwarding, heal, request, loaded>>

StartupLoad ==
    /\ main = "load"
    /\ loaded' = [loaded EXCEPT !["main"] = file]
    /\ main' = "connect"
    /\ UNCHANGED <<file, conf, kernelVars, heal, request>>

\* log.Fatal: defers do not run and wg0 is kernel state, so it stays.
StartupFails ==
    /\ main \notin {"off", "serving"}
    /\ main' = "off"
    /\ UNCHANGED <<file, conf, kernelVars, heal, request, loaded>>

-----------------------------------------------------------------------------
(* The steps of a reconnect, by what they do to the shared state.          *)

\* provider.Connect picks a server for the selection; wg0 is not touched.
Pick == UNCHANGED <<file, conf, kernelVars, loaded>>

\* Mutant: startup and its restarts do not tear down a wg0 left behind.
Down_Dropped == UNCHANGED <<file, conf, kernelVars, loaded>>

\* wg-quick down: best effort, its error is ignored.
Down ==
    /\ wg0' \in {wg0, NoPeer}
    /\ UNCHANGED <<file, conf, forwarding, iptables, loaded>>

WriteConf(server) ==
    /\ conf' = server
    /\ UNCHANGED <<file, kernelVars, loaded>>

\* wg-quick up refuses an interface that exists, and reads whatever
\* wg0.conf says by now.
Up ==
    /\ wg0 = NoPeer
    /\ wg0' = conf
    /\ UNCHANGED <<file, conf, forwarding, iptables, loaded>>

Save(s) ==
    /\ file' = s
    /\ UNCHANGED <<conf, kernelVars, loaded>>

\* One step of a reconnect to a server of selection sel, of a flow at at
\* that goes to to, and that saves s in the end.
Reconnect(at, to, sel, s) ==
    \/ at = "connect" /\ to = "down" /\ Pick
    \/ at = "down" /\ to = "write" /\ Down
    \/ at = "write" /\ to = "up" /\ WriteConf(sel)
    \/ at = "up" /\ to = "save" /\ Up
    \/ at = "save" /\ Save(s)

\* `initial`: the selection is carried forward from the loaded state.
StartupState == [sel |-> loaded["main"].sel, connected |-> TRUE, ok |-> TRUE]

StartupReconnect ==
    /\ main \in ReconnectStep
    /\ \E to \in ReconnectStep \union {"serving"} :
        /\ main = "save" <=> to = "serving"
        /\ main' = to
        /\ Reconnect(main, to, loaded["main"].sel, StartupState)
    /\ UNCHANGED <<heal, request>>

\* newState of handleConnect: nothing of the old state is kept.
ConnectState(r) == [sel |-> r, connected |-> TRUE, ok |-> TRUE]

\* handleConnect; r.Context() and every call in it may fail, which is
\* answered with an error and saves nothing.
HandleConnect(r) ==
    /\ main = "serving"
    /\ \/ /\ request[r] = "new"
          /\ request' = [request EXCEPT ![r] = "connect"]
          /\ UNCHANGED <<file, conf, kernelVars, loaded>>
       \/ \E to \in ReconnectStep \union {"done"} :
            /\ request[r] = "save" <=> to = "done"
            /\ request' = [request EXCEPT ![r] = to]
            /\ Reconnect(request[r], to, r, ConnectState(r))
    /\ UNCHANGED <<main, heal>>

ConnectFails(r) ==
    /\ main = "serving"
    /\ request[r] \in {"connect", "write", "up", "save"}
    /\ request' = [request EXCEPT ![r] = "done"]
    /\ UNCHANGED <<file, conf, kernelVars, main, heal, loaded>>

-----------------------------------------------------------------------------
(* RunOnce, on the ticker of Loop.                                         *)

HealLoad ==
    /\ main = "serving"
    /\ heal = "idle"
    /\ heal' = "check"
    /\ loaded' = [loaded EXCEPT !["heal"] = file]
    /\ UNCHANGED <<file, conf, kernelVars, main, request>>

\* Mutant: an error of `wg show` does not count against the tunnel.
Healthy_IgnoresError == TRUE

\* `healthy && hcErr == nil`: wg show fails on an interface that is gone.
Healthy == wg0 # NoPeer

\* The handshake of a tunnel that is up may still be too old.
HealthCheck ==
    /\ main = "serving"
    /\ heal = "check"
    /\ \/ heal' = "saveHealthy" /\ Healthy
       \/ heal' = "connect" /\ (wg0 # NoPeer \/ ~Healthy)
    /\ UNCHANGED <<file, conf, kernelVars, main, request, loaded>>

\* What RunOnce saves; after a reconnect LastHealthCheckOK stays false.
HealState(connected, ok) ==
    [sel |-> loaded["heal"].sel, connected |-> connected, ok |-> ok]

HealSave ==
    /\ main = "serving"
    /\ \/ heal = "saveHealthy" /\ Save(HealState(loaded["heal"].connected, TRUE))
       \/ heal = "saveFailed" /\ Save(HealState(FALSE, FALSE))
    /\ heal' = "idle"
    /\ UNCHANGED <<main, request>>

HealReconnect ==
    /\ main = "serving"
    /\ heal \in ReconnectStep
    /\ \E to \in ReconnectStep \union {"idle"} :
        /\ heal = "save" <=> to = "idle"
        /\ heal' = to
        /\ Reconnect(heal, to, loaded["heal"].sel, HealState(TRUE, FALSE))
    /\ UNCHANGED <<main, request>>

\* Connect or Up failed (runOnceTimeout included), or a Save did.
HealFails ==
    /\ main = "serving"
    /\ \/ heal \in {"connect", "write", "up"} /\ heal' = "saveFailed"
       \/ heal \in {"save", "saveHealthy", "saveFailed"} /\ heal' = "idle"
    /\ UNCHANGED <<file, conf, kernelVars, main, request, loaded>>

-----------------------------------------------------------------------------
(* The agent dies at any moment: wg0 and iptables outlive it.  The         *)
(* container reboots: only the two files do.                               *)

Forget ==
    /\ main' = "off"
    /\ heal' = "idle"
    /\ request' = [r \in Requests |-> IF request[r] = "new" THEN "new" ELSE "done"]
    /\ UNCHANGED <<file, conf, loaded>>

Crash == main # "off" /\ Forget /\ UNCHANGED kernelVars

Reboot ==
    /\ Forget
    /\ wg0' = NoPeer
    /\ forwarding' = FALSE
    /\ iptables' = {}

Next ==
    \/ StartAgent \/ ApplyRule \/ StartupLoad \/ StartupReconnect \/ StartupFails
    \/ HealLoad \/ HealthCheck \/ HealReconnect \/ HealSave \/ HealFails
    \/ \E r \in Requests : HandleConnect(r) \/ ConnectFails(r)
    \/ Crash \/ Reboot

Spec == Init /\ [][Next]_vars

\* A flow's step at at succeeds; of wg-quick down this says more than that
\* it returns.
Succeeds(at, A) == A /\ (at = "down" => wg0' = NoPeer)

\* systemd and the Go scheduler let every call start and return.  A step
\* that fails now and then succeeds in the end: this is assumed of the
\* provider, of wg-quick and of the disk, and only liveness depends on it.
Fairness ==
    /\ WF_vars(StartAgent) /\ WF_vars(StartupReconnect \/ StartupFails)
    /\ SF_vars(ApplyRule) /\ SF_vars(StartupLoad)
    /\ WF_vars(HealLoad) /\ WF_vars(HealthCheck) /\ WF_vars(HealSave)
    /\ WF_vars(HealReconnect \/ HealFails)
    /\ \A at \in ReconnectStep :
        /\ SF_vars(main = at /\ Succeeds(at, StartupReconnect))
        /\ SF_vars(heal = at /\ Succeeds(at, HealReconnect))
    /\ \A r \in Requests :
        WF_vars((request[r] # "new" /\ HandleConnect(r)) \/ ConnectFails(r))

FairSpec == Spec /\ Fairness

-----------------------------------------------------------------------------
(* Properties. *)

\* The tunnel is only ever up behind a complete kill switch, through every
\* failed start, crash and reboot (main.go applies it "before bringing wg0
\* up"; a failure of it "must stop the gateway from starting").
KillSwitchBeforeTunnel ==
    wg0 # NoPeer => forwarding /\ {"drop", "in", "out", "masquerade"} \subseteq iptables

\* However often startup is retried, and wherever it dies, it carries the
\* operator's selection forward: only a serving agent changes it.
StartupKeepsChoice ==
    [][file'.sel # file.sel => main = "serving"]_vars

\* A gateway that is neither crashed nor rebooted any more comes back, even
\* if wg0 was left up by the agent's predecessor (main.go: without the Down
\* "the gateway could never come back once restarted").
GatewayComesBack ==
    <>[][main' = "off" => main \notin {"off", "serving"}]_vars /\ <>[][~Reboot]_vars
        => <>(main = "serving")

\* While the agent serves, self-heal brings back a tunnel that is gone,
\* whatever took it down: a failed POST /connect, or a race of two flows.
TunnelComesBack ==
    <>[](main = "serving") => []<>(wg0 # NoPeer)

-----------------------------------------------------------------------------
(* What comments of the repository say, and the code does not keep.        *)

=============================================================================
