\* Redis and smtp servers need not answer; one publisher, two mailers, three tries.
SPECIFICATION NotifyFairSpec
CONSTANTS
    MaxPublishers = 1
    MaxMailers = 2
    MaxTryTimes = 3
    None = None
    MaxCalls = 1
CHECK_DEADLOCK FALSE
INVARIANTS TokensAreHeld MailsArePublished
PROPERTIES LockIsLetGo
