SPECIFICATION FairSpec
CONSTANTS
    u1 = u1
    u2 = u2
    k1 = k1
    k2 = k2
    k3 = k3
    timer = timer
    request = request
    None = None
    Users = {u1}
    Keys = {k1}
    Drains = {timer, request}
    Timer = timer
    MaxCrashes = 1
PROPERTIES
    QueuedPictureGoes
