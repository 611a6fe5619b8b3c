\* Two requests, one of them any of over a thousand.
SPECIFICATION Spec
CONSTANTS
    r1 = r1
    r2 = r2
    Requests = {r1, r2}
    AsksOf <- MCAsksOf
    Illegal = Illegal
    Default = Default
    Null = Null
    None = Null
    Servers <- TheServers
    Versions <- TheVersions
    Specs <- TheSpecs
    Standalone <- TheStandalone
    JavaVersions <- TheJavaVersions
    DefaultJava = "SE8"
    Ordinal <- TheOrdinal
    MpVersions <- TheMpVersions
    GradleServers <- TheGradleServers
    SpecVersions <- TheSpecVersions
    JavaRules <- TheJavaRules
    Restrictions <- TheRestrictions
INVARIANTS
    GeneratedIsOffered
    DefaultsUsable
    SpecsAsAsked
    NotModifiedUpToStandalone
