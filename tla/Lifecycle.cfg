SPECIFICATION FairSpec
CONSTANTS
    Requests = {r1}
    Retries = 3
INVARIANTS
    TypeOK
    ServingIsReady
    HealthReportExact
PROPERTIES
    GraceHonoured
    SignalEndsProcess
    StartsOrDies
    HangIsNoticed
