SPECIFICATION WahaSpec
CONSTANTS
    Endpoints = {"e1", "e2"}
    Sessions = {"default"}
    Deliveries = {"d1", "d2"}
    Ttl = 3
    MaxRestarts = 1
    Idle = Idle
INVARIANTS ServingIsFounded FailureStands
PROPERTIES FailureIsHeard WorkingSenderServes
