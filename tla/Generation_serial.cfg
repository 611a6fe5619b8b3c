\* Three requests, one after the other.
SPECIFICATION SerialSpec
CONSTANTS
    Requests = {r1, r2, r3}
    s1 = s1
    s2 = s2
    Sessions = {s1, s2}
    Artifacts = {"demo", "shop"}
    Servers <- MCServers
    Specs <- MCSpecs
    RestClient = "rest_client"
    JwtAuth = "JWT_auth"
    Projects <- MCProjects
    Removes <- MCRemoves
    ServerWrites <- MCServerWrites
    PomCompatible <- MCPomCompatible
    TemplateCompatible <- MCTemplateCompatible
    ExecutorRejects = FALSE
    RacyKinds = {}
    Nobody = Nobody
PROPERTIES
    ImplementsService
