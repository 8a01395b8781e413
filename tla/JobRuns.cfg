SPECIFICATION Spec
CONSTANTS
    i1 = i1
    i2 = i2
    cron1 = cron1
    manual1 = manual1
    cron2 = cron2
    Instance = {i1, i2}
    Firing = {cron1, manual1, cron2}
    Home <- MCHome
    NoOwner = NoOwner
    NoRun = NoRun
    Orphan = Orphan
    Second = {now}
INVARIANTS ExclusiveUnlessOverrun LockIsNotStolen RunningMeansRunning
PROPERTY JobRunsAgain
