SPECIFICATION FairSpec
CONSTANTS
    Clients = {c1, c2, c3}
    Listen = listen
    MaxSignals = 3
INVARIANTS ServiceInv NoStrayDescriptor
PROPERTIES PortFreed ClientsReleased SessionsFollowServer
