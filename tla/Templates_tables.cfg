\* Every kind of project, with the real tables and templates.
SPECIFICATION Spec
CONSTANTS
    Null = Null
    None = Null
    Servers <- TheServers
    Versions <- TheVersions
    Specs <- TheSpecs
    Standalone <- TheStandalone
    JavaVersions <- TheJavaVersions
    DefaultJava = "SE8"
    Ordinal <- TheOrdinal
    MpVersions <- TheMpVersions
    GradleServers <- TheGradleServers
    SpecVersions <- TheSpecVersions
    JavaRules <- TheJavaRules
    Restrictions <- TheRestrictions
    Projects <- MCValid
    Code <- TheCode
    ProfileUses <- TheProfileUses
    ServerVersions <- TheServerVersions
    MatrixSpecs <- TheMatrixSpecs
    MatrixStandalone <- TheMatrixStandalone
    VersionAlternatives <- TheVersionAlternatives
    TemplateFiles <- TheTemplateFiles
    Priority <- ThePriority
    TemplateAddons <- TheTemplateAddons
INVARIANTS
    EveryTemplateFound
    OwnTemplates
    NoBetterTemplate
    HealthPageFits
    BeansOnce
    PomResolves
    ExamplesSupported
CHECK_DEADLOCK FALSE
