CONSTANTS
    m1 = m1
    m2 = m2
    m3 = m3
    c1 = c1
    Mails <- MCMails
    Confirms <- MCConfirms
    Domains <- MCDomains
    Domain <- MCDomain
    Permits = 1
SPECIFICATION FairSpec
INVARIANTS
    TypeOK
    KnownDomainsLink
    LinksHold
    ScrapesShareARow
PROPERTIES
    LeadsGoOn
