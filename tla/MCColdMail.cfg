CONSTANTS
    h1 = h1
    h2 = h2
    o1 = o1
    o2 = o2
    leave = leave
    again = again
    temp = temp
    ana = ana
    luis = luis
    Handlers <- MCHandlers
    Operators <- MCOperators
    Mails <- MCMails
    Mail <- MCMail
    OptOuts <- MCOptOuts
    NoMail = NoMail
    NoCopy = NoCopy
    DefaultKeywords <- MCDefaultKeywords
    RuleChoices <- MCRuleChoices
    Bodies <- MCBodies
    Keep = Keep
    RuleSets <- MCRuleSets
    Sellers <- MCSellers
    SellerRecords <- MCSellerRecords
    Unassigned = Unassigned
    NoSeller = NoSeller
    NoWindow = NoWindow
    Forever = Forever
    Instants <- MCInstants
    Scoring <- MCScoring
    MaxDeliveries = 2
    MaxWrites = 2
    MaxRouters = 2
SYMMETRY MCSymmetry
SPECIFICATION Spec
INVARIANTS
    TypeOK
    UnsubscribedStaysOut
    AllowedGetsThrough
    RotationEven
    TuningKept
CHECK_DEADLOCK FALSE
