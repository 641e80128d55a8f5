SPECIFICATION FairSpec
CONSTANTS
    Request = {r1, r2, r3, r4}
    Limit = 2
    MaxQueue = 1
    HasTimer = TRUE
INVARIANTS SlotsExact QueueExact RejectionsExact
PROPERTIES ImplementsAdmission EveryRequestAnswered
