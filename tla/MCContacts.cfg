CONSTANTS
    h1 = h1
    h2 = h2
    m1 = m1
    m2 = m2
    m3 = m3
    ana = ana
    bob = bob
    wa = wa
    acme = acme
    Handlers <- MCHandlers
    Mails <- MCMails
    Sender <- MCSender
    Contacts <- MCContacts
    Companies <- MCCompanies
    CompanyOf <- MCCompanyOf
    NamesOf <- MCNamesOf
    TypedNames <- MCTypedNames
    Words <- MCWords
    None = None
    MaxEvents = 4
SYMMETRY MCSymmetry
SPECIFICATION Spec
INVARIANTS
    TypeOK
    NoSilentTwins
CHECK_DEADLOCK FALSE
