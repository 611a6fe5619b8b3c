\* The form filled in, in any order, with the real tables.
SPECIFICATION Spec
CONSTANTS
    Null = Null
    None = Null
    Servers <- TheServers
    Versions <- TheVersions
    Specs <- MCSpecs
    Standalone <- TheStandalone
    JavaVersions <- TheJavaVersions
    DefaultJava = "SE8"
    Ordinal <- TheOrdinal
    MpVersions <- TheMpVersions
    GradleServers <- TheGradleServers
    SpecVersions <- MCSpecVersions
    JavaRules <- TheJavaRules
    Restrictions <- TheRestrictions
INVARIANTS
    TypeOK
    GeneratedFits
    MenusFit
    AlwaysAServer
PROPERTIES
    ChoicesSurvive
