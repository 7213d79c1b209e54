CONSTANTS
    Focus = {"bus", "key", "view", "unit"}
    n1 = n1
    n2 = n2
    cl = cl
    t1 = t1
    me = me
    a = a
    b = b
    r1 = r1
    Routers = {n1, n2}
    Clients = {cl}
    Rank <- MCRank
    Seeds <- MCSeeds
    Watchers = {n2, cl}
    Keys = {t1}
    StartToken <- MCStartToken
    Topic = topic
    Svc = svc
    Subscribers = {cl}
    Servers = {n2}
    Local = Local
    ReqCap = 1
    DataCap = 1
    Declarers = {cl}
    Putters = {n2, cl}
    Getters = {cl}
    Flaky = {n2}
    Crashing = {n1}
    MaxSno <- MCMaxSno
    MaxFault = 1
    MaxCall = 1
    Subs = {1, 2}
    Letters = {"a", "b"}
    Plain = {"a"}
    MaxChunks = 3
    Me = me
    Others = {a, b}
    Rooms = {r1}
    Score <- MCScore
    MaxRooms = 0
    MaxChange = 4
    IntensityMax = 2
    MaxBoot = 4
    MaxReq = 3
SPECIFICATION Spec
CHECK_DEADLOCK FALSE
INVARIANTS ClusterTypesOK SessionsAgree DialsSettle TokensConverge QueriesLive
     RoutesExact ViewConverges OneMediaServer
PROPERTY NoBlindDrop
