SPECIFICATION Spec
CONSTANTS
    d1 = d1
    d2 = d2
    g1 = g1
    g2 = g2
    k1 = k1
    k2 = k2
    Dev = {d1, d2}
    Modem = d1
    Knobs = {k1, k2}
    NOBODY = NOBODY
    Mgr = {g1, g2}
    MAddrs = {"/Mic", "/Tap"}
    Nodes = {1}
    Osc <- MCOsc
    m1 = m1
    m2 = m2
    m3 = m3
    s1 = s1
    s2 = s2
    a1 = a1
    p1 = p1
    p2 = p2
    Places = {p1, p2}
    Numbers = {"80", "0", "1", "2001"}
    Hosts <- MCHosts
    Ports <- MCPorts
    Urls <- MCUrls
    Groups <- MCGroups
    HostName <- MCHostName
    Interfaces <- MCInterfaces
    IPv4 = {"127.0.0.1", "10.0.0.1", "10.0.0.9"}
    Fd = {1, 2, 3, 4}
    Servers = {s1, s2}
    Addresses = {a1}
    Tries = 2
    Process <- MCProcess
    NIL = NIL
    Ring = 32
    ReadMax = 15
    Skipped = 1
    Summed = 1
    Device <- MCDevice
    Module <- MCModule
    Movable = {m2}
    MaxLost = 1
    NumPackets = 2
    Part = 4
    Sound <- MCSound
    Value = {0, 10, 80}
    FloatBits = {0, 1000}
    Size = 8
    PacketSize = 2
    Table <- MCTable
    Effect <- MCEffect
    Scenario <- MCScenario
    mic1 = mic1
    mic2 = mic2
    sp1 = sp1
    sp2 = sp2
    Mics = {mic1, mic2}
    Speakers = {sp1, sp2}
    Manager <- MCManager
    Letters <- MCLetters
    PointerSize = 8
    Containing <- MCContaining
    NULL = NULL
    NONE = NONE
    FREED = FREED
CHECK_DEADLOCK FALSE
INVARIANTS
    LineInv
    SoundInv
    EffectsInv
    SocketsInv
    AddressInv
    DevicesInv
    ObjectsInv
