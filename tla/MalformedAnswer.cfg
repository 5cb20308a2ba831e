SPECIFICATION Spec
CONSTANTS
    d1 = d1
    Deliveries <- MCOneDelivery
    Urls = 2
    MaxAttempts = 3
    Malformed = TRUE
    MaxSends = 1
INVARIANTS
    SendNeverRaises
CHECK_DEADLOCK FALSE
