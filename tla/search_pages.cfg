SPECIFICATION Spec
CONSTANTS
    techKeywords = {"golang", "java", "javascript"}
    remoteFullKeywords = {"anywhere"}
    remotePartialKeywords = {"hybrid"}
    Substrings <- Inside
    Listings <- Crawls
    PageAt <- Versions
    Queries <- Searches
    Alerts <- Saved
    DefaultPerPage = 2
    MaxPerPage = 2
    MaxSalary = 100000
    MaxInt = 15
    TitleOrder <- Collation
    MaxEntries = 2
INVARIANTS
    TypeOK
    ListingComplete
    PageHonest
    PagesComplete
    AlertsNotNarrower
CHECK_DEADLOCK FALSE
