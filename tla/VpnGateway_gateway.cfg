\* Startup, self-heal and one POST /connect.
SPECIFICATION FairSpec
CONSTANTS
    Requests = {r1}
    AnyServer = AnyServer
    Resolved = Resolved
    NoPeer = NoPeer
INVARIANTS KillSwitchBeforeTunnel
PROPERTIES GatewayComesBack TunnelComesBack
