\* Two requests, for Quarkus and for another server.
SPECIFICATION Spec
CONSTANTS
    Requests = {r1, r2}
    s1 = s1
    s2 = s2
    Sessions = {s1, s2}
    Artifacts = {"demo", "shop"}
    Servers <- MCServers
    Specs <- MCSpecs
    RestClient = "rest_client"
    JwtAuth = "JWT_auth"
    Projects <- MCPairProjects
    Removes <- MCRemoves
    ServerWrites <- MCServerWrites
    PomCompatible <- MCPomCompatible
    TemplateCompatible <- MCTemplateCompatible
    ExecutorRejects = FALSE
    RacyKinds = {"pom"}
    Nobody = Nobody
SYMMETRY RequestSymmetry
INVARIANTS
    QuarkusWithoutEnforcedVersion
