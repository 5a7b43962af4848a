-------------------------- MODULE VpnGatewayProofs --------------------------
(***************************************************************************)
(* Proofs about VpnGateway, for any number of concurrent requests.         *)
(***************************************************************************)
EXTENDS VpnGateway, TLAPS

KillSwitchOn == forwarding /\ {"drop", "in", "out", "masquerade"} \subseteq iptables

\* Past the rules, startup and what it starts run behind the kill switch.
SwitchedPastRules ==
    /\ main # "off" => forwarding
    /\ main \in ReconnectStep \union {"load", "serving"} => KillSwitchOn

\* Nothing else runs before the agent serves.
AloneAtStartup ==
    main # "serving" => heal = "idle" /\ \A r \in Requests : request[r] \in {"new", "done"}

\* What startup has loaded is still what the file says.
CarriesChoice == main \in ReconnectStep => loaded["main"].sel = file.sel

IInv ==
    /\ TypeOK
    /\ KillSwitchBeforeTunnel
    /\ SwitchedPastRules
    /\ AloneAtStartup
    /\ CarriesChoice

\* A step of a reconnect, of whatever flow, keeps the files and the interface
\* in their types and the tunnel behind the kill switch.
LEMMA ReconnectKeeps ==
    ASSUME IInv, NEW at, NEW to, NEW sel \in Selections, NEW s \in State,
           KillSwitchOn, Reconnect(at, to, sel, s)
    PROVE  /\ file' \in State /\ conf' \in Selections \union {NoPeer}
           /\ wg0' \in Selections \union {NoPeer}
           /\ UNCHANGED <<forwarding, iptables, loaded>>
           /\ file' = file \/ (at = "save" /\ file' = s)
           /\ KillSwitchBeforeTunnel'
BY DEF IInv, TypeOK, Reconnect, Pick, Down, WriteConf, Up, Save, kernelVars,
       KillSwitchBeforeTunnel, KillSwitchOn

\* Every step preserves the invariant.
LEMMA InvStep == IInv /\ [Next]_vars => IInv'
<1>. SUFFICES ASSUME IInv, [Next]_vars PROVE IInv'
  OBVIOUS
<1>. USE DEF IInv, TypeOK, KillSwitchBeforeTunnel, SwitchedPastRules, AloneAtStartup,
             CarriesChoice, KillSwitchOn, kernelVars
<1>1. CASE UNCHANGED vars
  BY <1>1 DEF vars, flowVars
<1>2. CASE StartAgent
  BY <1>2 DEF StartAgent, ReconnectStep
<1>3. CASE ApplyRule
  <2>1. CASE Missing = {} /\ main' = "load" /\ UNCHANGED iptables
    <3>1. {"drop", "in", "out", "masquerade"} \subseteq iptables
      <4>1. \A k \in 1..4 : Rules[k] \in iptables
        BY <2>1 DEF Missing, Rules
      <4>. QED  BY <4>1 DEF Rules
    <3>. QED  BY <1>3, <2>1, <3>1 DEF ApplyRule, ReconnectStep
  <2>2. CASE UNCHANGED main /\ \E k \in Missing : iptables' = iptables \union {Rules[k]}
    <3>1. iptables' \subseteq {"drop", "in", "out", "masquerade"}
      <4>1. PICK k \in Missing : iptables' = iptables \union {Rules[k]}
        BY <2>2
      <4>2. k \in 1..4
        BY DEF Missing, Rules
      <4>3. Rules[k] \in {"drop", "in", "out", "masquerade"}
        BY <4>2 DEF Rules
      <4>. QED  BY <4>1, <4>3
    <3>. QED  BY <1>3, <2>2, <3>1 DEF ApplyRule, ReconnectStep
  <2>. QED  BY <1>3, <2>1, <2>2 DEF ApplyRule
<1>4. CASE StartupLoad
  BY <1>4 DEF StartupLoad, ReconnectStep
<1>5. CASE StartupReconnect
  <2>1. PICK to \in ReconnectStep \union {"serving"} :
            /\ main = "save" <=> to = "serving"
            /\ main' = to
            /\ Reconnect(main, to, loaded["main"].sel, StartupState)
    BY <1>5 DEF StartupReconnect
  <2>2. StartupState \in State /\ loaded["main"].sel \in Selections
    BY DEF StartupState, State
  <2>3. KillSwitchOn /\ main \in ReconnectStep /\ main # "serving"
    BY <1>5 DEF StartupReconnect, ReconnectStep
  <2>4. /\ file' \in State /\ conf' \in Selections \union {NoPeer}
        /\ wg0' \in Selections \union {NoPeer}
        /\ UNCHANGED <<forwarding, iptables, loaded>>
        /\ file' = file \/ (main = "save" /\ file' = StartupState)
        /\ KillSwitchBeforeTunnel'
    BY <2>1, <2>2, <2>3, ReconnectKeeps
  <2>5. UNCHANGED <<heal, request>>
    BY <1>5 DEF StartupReconnect
  <2>6. file'.sel = file.sel
    BY <2>3, <2>4 DEF StartupState
  <2>. QED  BY <2>1, <2>3, <2>4, <2>5, <2>6 DEF ReconnectStep
<1>6. CASE StartupFails
  BY <1>6 DEF StartupFails, ReconnectStep
<1>7. CASE HealLoad \/ HealthCheck \/ HealFails
  BY <1>7 DEF HealLoad, HealthCheck, HealFails, ReconnectStep
<1>8. CASE HealReconnect
  <2>1. PICK to \in ReconnectStep \union {"idle"} :
            /\ heal' = to
            /\ Reconnect(heal, to, loaded["heal"].sel, HealState(TRUE, FALSE))
    BY <1>8 DEF HealReconnect
  <2>2. HealState(TRUE, FALSE) \in State /\ loaded["heal"].sel \in Selections
    BY DEF HealState, State
  <2>3. main = "serving" /\ UNCHANGED <<main, request>>
    BY <1>8 DEF HealReconnect
  <2>4. /\ file' \in State /\ conf' \in Selections \union {NoPeer}
        /\ wg0' \in Selections \union {NoPeer}
        /\ UNCHANGED <<forwarding, iptables, loaded>> /\ KillSwitchBeforeTunnel'
    BY <2>1, <2>2, <2>3, ReconnectKeeps
  <2>. QED  BY <2>1, <2>3, <2>4 DEF ReconnectStep
<1>9. CASE HealSave
  <2>1. /\ HealState(loaded["heal"].connected, TRUE) \in State
        /\ HealState(FALSE, FALSE) \in State
    BY DEF HealState, State
  <2>2. file' \in State
    BY <1>9, <2>1 DEF HealSave, Save
  <2>. QED  BY <1>9, <2>2 DEF HealSave, Save, ReconnectStep
<1>10. ASSUME NEW r \in Requests, HandleConnect(r) PROVE IInv'
  <2>1. main = "serving" /\ UNCHANGED <<main, heal>>
    BY <1>10 DEF HandleConnect
  <2>2. CASE request' = [request EXCEPT ![r] = "connect"]
             /\ UNCHANGED <<file, conf, kernelVars, loaded>>
    BY <2>1, <2>2 DEF ReconnectStep
  <2>3. ASSUME NEW to \in ReconnectStep \union {"done"},
               request' = [request EXCEPT ![r] = to],
               Reconnect(request[r], to, r, ConnectState(r))
        PROVE  IInv'
    <3>1. ConnectState(r) \in State /\ r \in Selections
      BY DEF ConnectState, State, Selections
    <3>2. /\ file' \in State /\ conf' \in Selections \union {NoPeer}
          /\ wg0' \in Selections \union {NoPeer}
          /\ UNCHANGED <<forwarding, iptables, loaded>> /\ KillSwitchBeforeTunnel'
      BY <2>1, <2>3, <3>1, ReconnectKeeps
    <3>. QED  BY <2>1, <2>3, <3>2 DEF ReconnectStep
  <2>. QED  BY <1>10, <2>2, <2>3 DEF HandleConnect
<1>11. ASSUME NEW r \in Requests, ConnectFails(r) PROVE IInv'
  BY <1>11 DEF ConnectFails, ReconnectStep
<1>12. CASE Crash \/ Reboot
  BY <1>12 DEF Crash, Reboot, Forget, ReconnectStep
<1>. QED  BY <1>1, <1>2, <1>3, <1>4, <1>5, <1>6, <1>7, <1>8, <1>9, <1>10, <1>11, <1>12
          DEF Next

\* Every reachable state of the agent satisfies the invariant.
LEMMA Invariance == Spec => []IInv
<1>1. Init => IInv
  <2>. SUFFICES ASSUME Init PROVE IInv
    OBVIOUS
  <2>1. file \in State
    BY DEF Init, State, Selections
  <2>2. TypeOK
    BY <2>1 DEF Init, TypeOK
  <2>. QED  BY <2>2 DEF Init, IInv, KillSwitchBeforeTunnel, SwitchedPastRules,
                        AloneAtStartup, CarriesChoice, ReconnectStep
<1>. QED  BY <1>1, InvStep, PTL DEF Spec

\* state.json, wg0.conf and the interface always hold values of their types.
THEOREM TypeCorrect == Spec => []TypeOK
<1>1. IInv => TypeOK
  BY DEF IInv
<1>. QED  BY <1>1, Invariance, PTL

\* For any number of concurrent reconnects, crashes and reboots: wg0 is up
\* only behind the complete kill switch.
THEOREM TunnelIsBehindKillSwitch == Spec => []KillSwitchBeforeTunnel
<1>1. IInv => KillSwitchBeforeTunnel
  BY DEF IInv
<1>. QED  BY <1>1, Invariance, PTL

\* No startup, however it is interrupted and retried, loses the selection.
THEOREM StartupCarriesChoice == Spec => StartupKeepsChoice
<1>1. IInv /\ [Next]_vars => [file'.sel # file.sel => main = "serving"]_vars
  <2>. SUFFICES ASSUME IInv, Next, main # "serving" PROVE file'.sel = file.sel
    OBVIOUS
  <2>1. CASE StartupReconnect
    <3>1. CASE file' = file
      BY <3>1
    <3>2. CASE file' = StartupState
      BY <2>1, <3>2 DEF StartupReconnect, StartupState, IInv, CarriesChoice
    <3>. QED  BY <2>1, <3>1, <3>2
              DEF StartupReconnect, Reconnect, Pick, Down, WriteConf, Up, Save
  <2>2. CASE StartAgent \/ ApplyRule \/ StartupLoad \/ StartupFails \/ Crash \/ Reboot
    BY <2>2 DEF StartAgent, ApplyRule, StartupLoad, StartupFails, Crash, Reboot, Forget
  <2>. QED  BY <2>1, <2>2 DEF Next, HealLoad, HealthCheck, HealReconnect, HealSave,
                              HealFails, HandleConnect, ConnectFails
<1>. QED  BY <1>1, Invariance, PTL DEF Spec, StartupKeepsChoice
=============================================================================
