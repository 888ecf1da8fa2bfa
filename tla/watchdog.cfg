CONSTANTS
    router = router
    phone = phone
    Sections = {router, phone}
    Rebooting = {router}
    Messaging = {phone}
    RETRIES = 2
    MaxDisturbances = 2
SPECIFICATION FairSpec
INVARIANTS
    ActionEarned
    ResultsTrue
PROPERTY WatchdogActs
