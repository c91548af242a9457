SPECIFICATION FairSpec
CONSTANTS
    Slots = {s1, s2, s3, s4}
    Tasks = {scrapers, outcomes}
    CooldownChecks = 2
    Uptimes = {0, 1, 2}
    MaxDeaths = 2
    MaxMisreads = 1
    MaxOperatorStarts = 1
    MaxPopenFailures = 1
INVARIANTS
    InstancesBounded
    CooldownIsOver
PROPERTIES
    SeenDeathRestarted
