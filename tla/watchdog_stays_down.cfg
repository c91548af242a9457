SPECIFICATION FairSpec
CONSTANTS
    Slots = {s1, s2, s3}
    Tasks = {scrapers, outcomes}
    CooldownChecks = 2
    Uptimes = {2}
    MaxDeaths = 2
    MaxMisreads = 0
    MaxOperatorStarts = 0
    MaxPopenFailures = 0
PROPERTIES
    RestartsOnCrash
