\* Four callers for a threshold of three: results outlive the generation they began in.
CONSTANTS
    Callers = {c1, c2, c3, c4}
    MaxFailures = 3
    Cooldown = 2
SPECIFICATION FairSpec
INVARIANTS TypeOK OneProbe
PROPERTIES OpenRejects OnlyProbeDecides Recovers
