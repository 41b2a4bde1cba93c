SPECIFICATION FairSpec
CONSTANTS
    invite = invite
    reset = reset
    Mails = {invite, reset}
    Providers = 2
    MaxRetry = 1
    MaxOutages = 1
PROPERTIES
    ImplementsDelivery
    MailSettles
INVARIANTS
    DuplicatesInDoubt
    CompletedIsSent
    GivenUpTried
    IInv
CHECK_DEADLOCK FALSE
