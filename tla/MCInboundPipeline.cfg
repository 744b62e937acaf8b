CONSTANTS
    h1 = h1
    h2 = h2
    l1 = l1
    l2 = l2
    l3 = l3
    own = own
    first = first
    reply = reply
    leave = leave
    cold = cold
    sent = sent
    other = other
    hello = hello
    NoHeader = NoHeader
    NoDay = NoDay
    NoLead = NoLead
    NoMail = NoMail
    Handlers <- MCHandlers
    Mails <- MCMails
    Leads <- MCLeads
    Composed <- MCComposed
    Threads <- MCThreads
    Thread <- MCThread
    Answers <- MCAnswers
    Unsubscribes <- MCUnsubscribes
    MayFail = TRUE
    MaxDeliveries = 4
SYMMETRY MCSymmetry
SPECIFICATION Spec
INVARIANTS
    TypeOK
    SiblingsNeedOverlap
    RepliesThreadBack
    FiledWhereItBelongs
