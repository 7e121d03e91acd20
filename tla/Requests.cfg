CONSTANTS
    Reqs = {r1, r2}
    Addresses = {ada}
    MaxFaults = 2
SPECIFICATION FairSpec
CHECK_DEADLOCK FALSE
INVARIANTS
    TypeOK
    OneAccountPerAddress
    AnswersAreTrue
    AnnouncedUnlessCut
    HealthIsWitnessed
PROPERTY EveryRequestAnswered
