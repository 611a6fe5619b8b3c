\* The log of a form in use and of requests over REST.
SPECIFICATION LogSpec
CONSTANTS
    Null = Null
    Servers <- MCServers
    Versions <- MCVersions
    Specs = {"CONFIG"}
    Standalone = {"GRAPHQL"}
    JavaVersions = {"SE8"}
    DefaultJava = "SE8"
    Ordinal <- MCOrdinal
    MpVersions <- MCMpVersions
    GradleServers <- MCGradleServers
    SpecVersions <- MCSpecVersions
    JavaRules <- MCJavaRules
    Restrictions <- MCRestrictions
    Tasks = {t1, t2}
    RestData <- MCRestData
    Instants = {1}
CONSTRAINT MCFewChanges
SYMMETRY MCSymmetry
INVARIANTS
    LogTypeOK
    LoggedAsDownloaded
    RefusedOnlyIfChanged
    LoggedOnce
PROPERTIES
    ReplacedByEqual
