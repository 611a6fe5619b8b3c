------------------------------- MODULE Templates ------------------------------
(***************************************************************************)
(* From a valid request to the templates its project is made of: the       *)
(* resolution of addons and alternatives by ModelManager, the lookups that *)
(* the creators and the addons make one after the other, the choice of     *)
(* FilesLocator among the templates of a name, and the removals.           *)
(*                                                                         *)
(* A template is its name and its alternatives, the directories it lies    *)
(* in.  The poms, which come from no template, are in a variable of their  *)
(* own; .gitkeep files, variables and text are left out.  Interference by  *)
(* other requests is the subject of Generation; here a request is alone.   *)
(***************************************************************************)
EXTENDS Poms

CONSTANTS
    Projects,             \* what may be asked for
    VersionAlternatives,  \* VersionAlternatives[v]: MicroProfileVersion.alternatives
    TemplateFiles,        \* the templates listed in files.lst
    Priority,             \* Priority[a]: priority of the registered addon a
    TemplateAddons        \* the addons that defaultMP.yaml adds

Secondary == "service-b"       \* JessieModel.SECONDARY_INDICATOR
Alternatives ==
    {"gradle", Secondary} \cup {Code[s] : s \in Servers}
    \cup UNION {VersionAlternatives[v] : v \in Versions}

ASSUME AlternativesAssumption ==
    /\ VersionAlternatives \in [Versions -> SUBSET Alternatives]
    /\ IsFiniteSet(Alternatives)
    /\ IsFiniteSet(TemplateFiles)
    /\ \A t \in TemplateFiles : t.alternatives \subseteq Alternatives
\* The names of alternatives tell servers, versions, Gradle and the second service
\* apart.  All addons are registered, none to come before "mp", which is the first
\* of the template's.
ASSUME CodesAssumption ==
    /\ Servers \subseteq {"WILDFLY_SWARM", "THORNTAIL_V2", "QUARKUS", "WILDFLY", "LIBERTY",
                          "KUMULUZEE", "PAYARA_MICRO", "TOMEE", "HELIDON"}
    /\ {"CONFIG", "REST_CLIENT"} \subseteq Specs
    /\ \A s, t \in Servers : Code[s] = Code[t] => s = t
    /\ \A s \in Servers : Code[s] \notin {"mp", "gradle", Secondary}
    /\ \A v \in Versions :
           VersionAlternatives[v] \cap ({Code[s] : s \in Servers} \cup {"gradle", Secondary}) = {}
    /\ Priority \in [DOMAIN Priority -> Nat]
    /\ \A a \in DOMAIN Priority : Priority["mp"] <= Priority[a]
    /\ \A s \in Servers : Code[s] \in DOMAIN Priority
    /\ TemplateAddons \in Seq(DOMAIN Priority)
    /\ TemplateAddons # <<>> /\ Head(TemplateAddons) = "mp"
\* What RestApi and ProjectForm let pass.  A server without support for Gradle
\* is included, as a v1 body without a build tool passes for one for Gradle.
ASSUME ProjectsAssumption ==
    \A p \in Projects :
        /\ p \in Project
        /\ p.version \in Offered(p.server)
        /\ p.specs \subseteq SpecsIn(p.version)
        /\ \A spec \in p.standalone : IsEnabled(spec, p.server, p.version)

VARIABLES
    project,
    stage,         \* how far the request has come
    addons,        \* the list that becomes the parameter ADDONS
    alternatives,  \* the parameter ALTERNATIVES
    todo,          \* what the current creator or addon has still to do
    files,         \* the archive: paths with the templates used for them
    poms           \* and the pom.xml of each of its directories

vars == <<project, stage, addons, alternatives, todo, files, poms>>

Stages == <<"template", "dependent", "order", "alternatives",
            "build", "cdi", "java", "addons", "done">>
NextStage(s) == Stages[1 + CHOOSE i \in DOMAIN Stages : Stages[i] = s]

-----------------------------------------------------------------------------
(* FilesLocator *)

Candidates(name) == {t \in TemplateFiles : t.name = name}

\* createAlternativeSets: tuples of alternatives, of which those without
\* repetition make the sets
AlternativeSets(alts, size) == {s \in SUBSET alts : Cardinality(s) = size}

Matches(candidates, alts, size) ==
    {t \in candidates : t.alternatives \in AlternativeSets(alts, size)}
MatchingSizes(candidates, alts) ==
    {size \in 1..Cardinality(alts) : Matches(candidates, alts, size) # {}}
\* Fault: no candidate without alternatives.
SelectExactly(candidates, alts) ==
    LET sizes == MatchingSizes(candidates, alts)
        best == Matches(candidates, alts, CHOOSE i \in sizes : \A j \in sizes : j <= i)
    IN  IF sizes # {} /\ Cardinality(best) = 1 THEN best ELSE {}
\* The loop over idx goes down to the first size with a match, and if there is
\* none a candidate without alternatives will do.
SelectBasedOnAlternatives(candidates, alts) ==
    LET sizes == MatchingSizes(candidates, alts)
        best == IF sizes # {}
                THEN Matches(candidates, alts, CHOOSE i \in sizes : \A j \in sizes : j <= i)
                ELSE {t \in candidates : t.alternatives = {}}
    IN  IF Cardinality(best) = 1 THEN best ELSE {}

\* The template found, or none.  A single candidate is taken whatever its
\* alternatives.
FindFile(name, alts) ==
    IF Cardinality(Candidates(name)) = 1 THEN Candidates(name)
    ELSE SelectBasedOnAlternatives(Candidates(name), alts)

\* Which names the creators and addons look up with "gradle" among the
\* alternatives, which of the second service with its mark, and which for one
\* server only.  A template has these alternatives only if it is looked up that
\* way: one for Gradle or the second service would otherwise be passed over, and
\* the only one of its name would be found by all servers and services.
GradleNames == {"gradlew", "gradlew.bat", "gradle-wrapper.jar", "gradle-wrapper.properties",
                "build.gradle", "gradle.properties", "settings.gradle"}
SecondaryNames == {"RestApplication.java", "microprofile-config.properties",
                   "ServiceController.java", "ProtectedController.java", "config.yaml",
                   "server.xml", "application.properties"}
OwnNames == {<<"HELIDON", "logging.properties">>, <<"LIBERTY", "public.jks">>,
             <<"LIBERTY", "server.xml">>, <<"KUMULUZEE", "config.yaml">>,
             <<"QUARKUS", "application.properties">>,
             <<"PAYARA_MICRO", "payara-mp-jwt.properties">>}
ASSUME TemplatesAssumption ==
    \A t \in TemplateFiles :
        /\ "gradle" \in t.alternatives => t.name \in GradleNames
        /\ Secondary \in t.alternatives => t.name \in SecondaryNames
        /\ Candidates(t.name) = {t} /\ t.name # "gradle.properties" =>
               /\ Secondary \notin t.alternatives
               /\ \A s \in Servers : Code[s] \in t.alternatives => <<s, t.name>> \in OwnNames

\* All names that are looked up: by some servers and for some specs, by the service
\* that calls the other one, by all.
PlainNames ==
    {"Booking.java", "BookingController.java", "ConfigTestController.java",
     "Destination.java", "DuplicateSuperHeroException.java", "HelloController.java",
     "HeroDatabase.java", "HeroFinder.java", "MPJWTToken.java", "MetricController.java",
     "ResilienceController.java", "ServiceHealthCheck.java",
     "ServiceLiveHealthCheck.java", "ServiceReadyHealthCheck.java",
     "ServiceStartupHealthCheck.java", "SuperHero.java", "Team.java",
     "UnknownCharacterException.java", "UnknownHeroException.java",
     "UnknownTeamException.java", "index.html", "jwt-roles.properties",
     "privateKey.pem", "project-defaults.yml", "publicKey.pem", "readme.md",
     "readme.md.secondary", "readme.md.top", "web.xml"}
CallingNames == {"Service.java", "ClientController.java", "TestSecureController.java"}
Names == PlainNames \cup CallingNames \cup {"beans.xml"} \cup GradleNames \cup SecondaryNames
         \cup {pair[2] : pair \in OwnNames}

\* The only template of the name, or one that fits with more alternatives than any
\* other one that fits.
StandsOut(t, alts) ==
    \/ Candidates(t.name) = {t}
    \/ /\ t.alternatives \subseteq alts
       /\ \A u \in Candidates(t.name) \ {t} : u.alternatives \subseteq alts =>
              Cardinality(u.alternatives) < Cardinality(t.alternatives)

\* For every name that a server may look up and every version it offers, one template
\* can be chosen.
ASSUME LookupsAssumption ==
    \A s \in Servers : \A v \in Offered(s), name \in Names, extra \in SUBSET {"gradle", Secondary} :
        /\ name \in GradleNames => "gradle" \in extra
        /\ \A pair \in OwnNames : pair[2] = name => pair[1] = s
        => \E t \in Candidates(name) :
               StandsOut(t, VersionAlternatives[v] \cup {Code[s]} \cup extra)
\* The health checks differ in three generations of MicroProfile, and the page that a
\* server has for a version is for the generation of the version; 5.0 has no page.
Generations == {"mp3_x", "mp4_1", "mp5_x"}
ASSUME PagesAssumption ==
    \A s \in Servers : \A v \in Offered(s) \ {"MP50"} :
        LET alts == VersionAlternatives[v] \cup {Code[s]} IN
        /\ alts \cap Generations \in {{}, {"mp3_x"}, {"mp4_1"}}
        /\ \A t \in Candidates("index.html") : StandsOut(t, alts) =>
               t.alternatives \cap Generations = alts \cap Generations

-----------------------------------------------------------------------------
(* What the creators and addons do *)

Has(spec) == spec \in project.specs
Split == Has("REST_CLIENT") \/ Has("JWT_AUTH")
JwtB == Split /\ Has("JWT_AUTH")
\* model.getDirectory(mainProject)
Dir(main) == IF ~Split THEN "top" ELSE IF main THEN "service-a" ELSE Secondary

When(condition, steps) == IF condition THEN steps ELSE <<>>

\* processTemplateFile(directory, template, file name, alternatives, variables)
WriteAs(dir, place, template, name, alts) ==
    <<[dir |-> dir, place |-> place, template |-> template, name |-> name,
       alternatives |-> alts, remove |-> FALSE]>>
Write(dir, place, name, alts) == WriteAs(dir, place, name, name, alts)
WriteAll(dir, place, names, alts) ==
    FlattenSeq([i \in DOMAIN names |-> Write(dir, place, names[i], alts)])
\* directoryCreator.removeDirectory
RemoveDir(dir, place) ==
    <<[dir |-> dir, place |-> place, template |-> Null, name |-> Null,
       alternatives |-> {}, remove |-> TRUE]>>

A == alternatives
B == alternatives \cup {Secondary}

GradleDirectories(main) ==
    LET alts == (IF main THEN A ELSE B) \cup {"gradle"} IN
    WriteAll(Dir(main), "root", <<"gradlew", "gradlew.bat">>, alts)
    \o WriteAll(Dir(main), "wrapper", <<"gradle-wrapper.jar", "gradle-wrapper.properties">>, alts)
    \o WriteAll(Dir(main), "root", <<"build.gradle", "gradle.properties", "settings.gradle">>, alts)
CreateGradleFiles == GradleDirectories(TRUE) \o When(Split, GradleDirectories(FALSE))

BeansXml(main, place) == When(project.beans, Write(Dir(main), place, "beans.xml", A))
CreateCDIFilesForWeb == BeansXml(TRUE, "WEB-INF") \o When(Split, BeansXml(FALSE, "WEB-INF"))

\* Fault: the set of alternatives of the first service extended, not a copy.
CreateJavaFilesShared ==
    WriteAll(Dir(TRUE), "java", <<"RestApplication.java", "HelloController.java">>,
             IF Split THEN B ELSE A)
    \o When(Split, Write(Dir(FALSE), "java", "RestApplication.java", B))
CreateJavaFiles ==
    WriteAll(Dir(TRUE), "java", <<"RestApplication.java", "HelloController.java">>, A)
    \o When(Split, Write(Dir(FALSE), "java", "RestApplication.java", B))

\* Fault: the startup check is taken for a part of 3.x.
HealthFilesStarted ==
    IF {"mp4_1", "mp3_x", "mp5_x"} \cap A # {}
    THEN WriteAll(Dir(TRUE), "health",
                  <<"ServiceLiveHealthCheck.java", "ServiceReadyHealthCheck.java",
                    "ServiceStartupHealthCheck.java">>, A)
    ELSE Write(Dir(TRUE), "health", "ServiceHealthCheck.java", A)
\* Examples of MicroprofileServersAddon.createFiles
HealthFiles ==
    IF {"mp4_1", "mp3_x", "mp5_x"} \cap A # {}
    THEN WriteAll(Dir(TRUE), "health",
                  <<"ServiceLiveHealthCheck.java", "ServiceReadyHealthCheck.java">>, A)
         \o When({"mp4_1", "mp5_x"} \cap A # {},
                 Write(Dir(TRUE), "health", "ServiceStartupHealthCheck.java", A))
    ELSE Write(Dir(TRUE), "health", "ServiceHealthCheck.java", A)
ExampleFiles ==
    When(Has("HEALTH_CHECKS"), HealthFiles)
    \o When(Has("CONFIG"), Write(Dir(TRUE), "config", "ConfigTestController.java", A))
    \o When(Has("METRICS"), Write(Dir(TRUE), "metric", "MetricController.java", A))
    \o When(Has("OPEN_API"),
            WriteAll(Dir(TRUE), "openapi",
                     <<"BookingController.java", "Booking.java", "Destination.java">>, A))
    \o When(Has("FAULT_TOLERANCE"),
            Write(Dir(TRUE), "resilient", "ResilienceController.java", A))
    \o When(Has("REST_CLIENT"),
            Write(Dir(FALSE), "client", "ServiceController.java", B)
            \o WriteAll(Dir(TRUE), "client", <<"Service.java", "ClientController.java">>, A))
    \o When(Has("JWT_AUTH"),
            When(Split, Write(Dir(FALSE), "secure", "ProtectedController.java", B))
            \o WriteAll(Dir(TRUE), "secure", <<"TestSecureController.java", "MPJWTToken.java">>, A)
            \o Write(Dir(TRUE), "resources", "privateKey.pem", A))
    \o When("GRAPHQL" \in project.standalone,
            WriteAll(Dir(TRUE), "graphql",
                     <<"HeroFinder.java", "SuperHero.java", "Team.java",
                       "UnknownCharacterException.java", "HeroDatabase.java",
                       "DuplicateSuperHeroException.java", "UnknownHeroException.java",
                       "UnknownTeamException.java">>, A))
PageFiles ==
    When(project.server \notin {"KUMULUZEE", "QUARKUS", "WILDFLY"},
         Write(Dir(TRUE), "META-INF", "microprofile-config.properties", A))
    \o When(project.server \notin {"HELIDON", "QUARKUS"},
            Write(Dir(TRUE), "webapp", "index.html", A))
    \o Write(Dir(TRUE), "root", "readme.md", A)
    \o When(Split, WriteAs("top", "root", "readme.md.top", "readme.md", A)
                   \o WriteAs(Dir(FALSE), "root", "readme.md.secondary", "readme.md", A))

\* createFiles of the servers' addons
SwarmFiles(webXmlInMain) ==
    When(JwtB,
         WriteAll(Dir(FALSE), "resources", <<"project-defaults.yml", "jwt-roles.properties">>, A)
         \o WriteAs(Dir(FALSE), "META-INF", "publicKey.pem", "MP-JWT-SIGNER", A)
         \o Write(Dir(webXmlInMain), "WEB-INF", "web.xml", A))
QuarkusFiles ==
    RemoveDir(Dir(TRUE), "webapp") \o When(Split, RemoveDir(Dir(FALSE), "webapp"))
    \o Write(Dir(TRUE), "resources", "application.properties", A)
    \o When(Split, Write(Dir(FALSE), "resources", "application.properties", B))
    \o Write(Dir(TRUE), "META-INF", "index.html", A)
    \o When(JwtB, Write(Dir(FALSE), "META-INF", "publicKey.pem", A))
WildFlyFiles ==
    When(Split, Write(Dir(FALSE), "META-INF", "microprofile-config.properties", B))
    \o Write(Dir(TRUE), "META-INF", "microprofile-config.properties", A)
    \o When(JwtB, Write(Dir(FALSE), "META-INF", "publicKey.pem", B))
LibertyFiles ==
    Write(Dir(TRUE), "liberty", "server.xml", A)
    \o When(Split, Write(Dir(FALSE), "liberty", "server.xml", B))
    \o When(JwtB, WriteAll(Dir(FALSE), "security", <<"public.jks", "public.jks">>, A))
KumuluzEEPart(main) ==
    BeansXml(main, "META-INF") \o RemoveDir(Dir(main), "WEB-INF")
    \o Write(Dir(main), "resources", "config.yaml", IF main THEN A ELSE B)
\* Fault: the second service forgotten.
KumuluzEEFilesOfMain == KumuluzEEPart(TRUE)
KumuluzEEFiles == KumuluzEEPart(TRUE) \o When(Split, KumuluzEEPart(FALSE))
PayaraFiles ==
    When(JwtB, WriteAll(Dir(FALSE), "resources",
                        <<"publicKey.pem", "payara-mp-jwt.properties">>, A))
TomeeFiles == When(JwtB, Write(Dir(FALSE), "resources", "publicKey.pem", A))
\* Fault: the second service's configuration looked up like the first one's.
HelidonFilesWith(second) ==
    Write(Dir(TRUE), "WEB", "index.html", A)
    \o RemoveDir(Dir(TRUE), "webapp") \o When(Split, RemoveDir(Dir(FALSE), "webapp"))
    \o BeansXml(TRUE, "META-INF") \o When(Split, BeansXml(FALSE, "META-INF"))
    \o RemoveDir(Dir(TRUE), "WEB-INF")
    \o WriteAll(Dir(TRUE), "resources", <<"logging.properties", "privateKey.pem">>, A)
    \o When(Split, Write(Dir(FALSE), "java", "RestApplication.java", B))
    \o When(JwtB, Write(Dir(FALSE), "resources", "publicKey.pem", A))
    \o When(Split, Write(Dir(FALSE), "META-INF", "microprofile-config.properties", second))
HelidonFilesAlike == HelidonFilesWith(A)
HelidonFiles == HelidonFilesWith(B)

ServerFiles ==
    CASE project.server = "WILDFLY_SWARM" -> SwarmFiles(TRUE)
      [] project.server = "THORNTAIL_V2" -> SwarmFiles(FALSE)
      [] project.server = "QUARKUS" -> QuarkusFiles
      [] project.server = "WILDFLY" -> WildFlyFiles
      [] project.server = "LIBERTY" -> LibertyFiles
      [] project.server = "KUMULUZEE" -> KumuluzEEFiles
      [] project.server = "PAYARA_MICRO" -> PayaraFiles
      [] project.server = "TOMEE" -> TomeeFiles
      [] project.server = "HELIDON" -> HelidonFiles

CreateFiles(a) == IF a = "mp" THEN ExampleFiles \o PageFiles ELSE ServerFiles
\* Creator.createArtifacts
Creators == {"build", "cdi", "java", "addons"}
CreateArtifacts(s) ==
    CASE s = "build" -> CreateGradleFiles
      [] s = "cdi" -> CreateCDIFilesForWeb
      [] s = "java" -> CreateJavaFiles
      [] s = "addons" -> FlattenSeq([i \in DOMAIN addons |-> CreateFiles(addons[i])])

-----------------------------------------------------------------------------

Init ==
    /\ project \in Projects
    /\ stage = "template"
    /\ addons = <<>> /\ alternatives = {} /\ todo = <<>> /\ files = {} /\ poms = <<>>

\* TemplateModelValues.applyTemplateValues: addons of the template are added.
ApplyTemplateValues ==
    /\ stage = "template"
    /\ stage' = NextStage(stage)
    /\ addons' = addons \o TemplateAddons
    /\ UNCHANGED <<project, alternatives, todo, files, poms>>

\* MicroprofileServersAddon.getDependentAddons; the servers' addons have none.
DependentAddons(a) == IF a = "mp" THEN {Code[project.server]} ELSE {}

\* One call of addDependentAddons, which calls itself until nothing is missing.
AddDependentAddons ==
    /\ stage = "dependent"
    /\ LET names == ToSet(addons)
           missing == (UNION {DependentAddons(a) : a \in names}) \ names
       IN  \/ /\ missing = {}
              /\ stage' = NextStage(stage)
              /\ UNCHANGED addons
           \/ /\ missing # {} /\ missing \subseteq DOMAIN Priority
              /\ \E order \in SetToSeqs(missing) : addons' = addons \o order
              /\ UNCHANGED stage
           \/ /\ ~ missing \subseteq DOMAIN Priority   \* "Unable to find addon"
              /\ stage' = "failed"
              /\ UNCHANGED addons
    /\ UNCHANGED <<project, alternatives, todo, files, poms>>

\* orderAddons: List.sort is stable.
Sooner(i, j) == \/ Priority[addons[i]] < Priority[addons[j]]
                \/ Priority[addons[i]] = Priority[addons[j]] /\ i < j
OrderAddons ==
    /\ stage = "order"
    /\ stage' = NextStage(stage)
    /\ \E from \in [DOMAIN addons -> DOMAIN addons] :
           /\ \A i, j \in DOMAIN addons : i < j => Sooner(from[i], from[j])
           /\ addons' = [i \in DOMAIN addons |-> addons[from[i]]]
    /\ UNCHANGED <<project, alternatives, todo, files, poms>>

\* alternativesNames of an addon: only the addon mp has one.
AlternativesNames(a) == IF a = "mp" THEN {Code[project.server]} ELSE {}

DetermineAlternatives ==
    /\ stage = "alternatives"
    /\ alternatives' = VersionAlternatives[project.version]
                       \cup UNION {AlternativesNames(a) : a \in ToSet(addons)}
    /\ stage' = "build"
    /\ UNCHANGED <<project, addons, todo, files, poms>>

\* MavenCreator.createMavenFiles
CreateMavenFiles ==
    /\ stage = "build" /\ project.tool = "MAVEN"
    /\ LET built == [dir \in {Dir(main) : main \in BOOLEAN} |->
                        Pom(project, addons, dir # Secondary)]
       IN  \/ /\ \A dir \in DOMAIN built : built[dir] # Null
              /\ poms' = built
              /\ stage' = NextStage(stage)
           \/ /\ \E dir \in DOMAIN built : built[dir] = Null   \* an addon has thrown
              /\ stage' = "failed"
              /\ UNCHANGED poms
    /\ UNCHANGED <<project, addons, alternatives, todo, files>>

EnterCreator ==
    /\ stage \in Creators /\ todo = <<>>
    /\ stage = "build" => project.tool = "GRADLE"
    /\ todo' = CreateArtifacts(stage)
    /\ stage' = NextStage(stage)
    /\ UNCHANGED <<project, addons, alternatives, files, poms>>

PathOf(step) == [dir |-> step.dir, place |-> step.place, name |-> step.name]

\* ThymeleafEngine.processFile or FileCopyEngine.processFile with writeContents
ProcessTemplate ==
    /\ todo # <<>> /\ ~Head(todo).remove
    /\ LET step == Head(todo)
           found == FindFile(step.template, step.alternatives)
       IN  \/ /\ found # {}
              /\ files' = {f \in files : f.path # PathOf(step)}
                          \cup {[path |-> PathOf(step), template |-> t] : t \in found}
              /\ todo' = Tail(todo)
              /\ UNCHANGED stage
           \/ /\ found = {}      \* TemplateFileResolutionException
              /\ stage' = "failed" /\ todo' = <<>>
              /\ UNCHANGED files
    /\ UNCHANGED <<project, addons, alternatives, poms>>

\* The directories that a removal empties: WEB-INF lies in webapp.
Below(place) == IF place = "webapp" THEN {"webapp", "WEB-INF"} ELSE {place}

RemoveDirectory ==
    /\ todo # <<>> /\ Head(todo).remove
    /\ files' = {f \in files : f.path.dir = Head(todo).dir
                                => f.path.place \notin Below(Head(todo).place)}
    /\ todo' = Tail(todo)
    /\ UNCHANGED <<project, stage, addons, alternatives, poms>>

Next ==
    \/ ApplyTemplateValues \/ AddDependentAddons \/ OrderAddons \/ DetermineAlternatives
    \/ CreateMavenFiles \/ EnterCreator \/ ProcessTemplate \/ RemoveDirectory

Spec == Init /\ [][Next]_vars

-----------------------------------------------------------------------------

Complete == stage = "done" /\ todo = <<>>

\* No valid request ends in "Unable to find addon", in a pom without a profile or
\* a version, or in the failed lookup of a template: no version of a server has
\* alternatives between which FilesLocator cannot decide.
EveryTemplateFound == stage # "failed"

\* Code of a project is made from templates for its own server and service.  The
\* one exception is gradle.properties: Quarkus has the only template of that
\* name, which every Gradle project gets.
OwnTemplates ==
    \A f \in files : f.template.name # "gradle.properties" =>
        /\ \A s \in Servers : Code[s] \in f.template.alternatives => s = project.server
        /\ Secondary \in f.template.alternatives => f.path.dir = Secondary
        /\ "gradle" \in f.template.alternatives => project.tool = "GRADLE"

\* No file comes from a template when another one fits its server, version and
\* service better, whatever set of alternatives its addon has looked it up with.
NoBetterTemplate ==
    \A f \in files : \A t \in Candidates(f.template.name) :
        /\ t.alternatives \subseteq alternatives \cup {"gradle"}
                                    \cup (IF f.path.dir = Secondary THEN {Secondary} ELSE {})
        /\ f.template.alternatives \subseteq t.alternatives
        => t = f.template

\* The page links the health checks that the project has: the two of 3.0 to 4.0, the
\* three of 4.1, or the one of all other versions (1.x and 2.x, and 6.0 as well).
\* With MicroProfile 5.0 the page is that of 1.x too, which names a class that is
\* not generated.
HealthPageFits ==
    Complete /\ Has("HEALTH_CHECKS") /\ project.version # "MP50" =>
        \A f \in files : f.path.name = "index.html" =>
            {g.path.name : g \in {g \in files : g.path.place = "health"}}
            = CASE "mp3_x" \in f.template.alternatives ->
                       {"ServiceLiveHealthCheck.java", "ServiceReadyHealthCheck.java"}
                [] "mp4_1" \in f.template.alternatives ->
                       {"ServiceLiveHealthCheck.java", "ServiceReadyHealthCheck.java",
                        "ServiceStartupHealthCheck.java"}
                [] OTHER -> {"ServiceHealthCheck.java"}

\* Each service has one beans.xml where its packaging looks for it, or none with
\* mode implicit (and with Quarkus, which has no webapp directory).
Jar(main) == IF project.tool = "MAVEN" THEN poms[Dir(main)].packaging = "jar"
             ELSE project.server \in {"KUMULUZEE", "HELIDON"}
BeansOnce ==
    Complete => \A main \in BOOLEAN :
        {f.path.place : f \in {f \in files : f.path.name = "beans.xml" /\ f.path.dir = Dir(main)}}
        = IF ~project.beans \/ project.server = "QUARKUS" THEN {}
          ELSE IF Jar(main) THEN {"META-INF"} ELSE {"WEB-INF"}

\* The switches of nine addons, the versions of SupportedServer and the profiles
\* of pom-servers.xml fit: no pom of a valid request refers to a property that
\* no addon has given a value, or relies on a parent it has not.
PomResolves == \A dir \in DOMAIN poms : Resolved(poms[dir])

\* What the code of an example imports or is configured by: the client of the
\* protected resource is a JAX-RS client, which comes with the rest client.  The
\* resource that service-b offers to the client of service-a needs no spec.
Needs(f) ==
    CASE f.path.place = "health" -> {"HEALTH_CHECKS"}
      [] f.path.place = "config" -> {"CONFIG"}
      [] f.path.place = "metric" -> {"METRICS"}
      [] f.path.place = "openapi" -> {"OPEN_API"}
      [] f.path.place = "resilient" -> {"FAULT_TOLERANCE"}
      [] f.path.place = "graphql" -> {"GRAPHQL"}
      [] f.path.name \in {"Service.java", "ClientController.java"} -> {"REST_CLIENT", "CONFIG"}
      [] f.path.name = "TestSecureController.java" -> {"vertx-auth-jwt", "CONFIG", "REST_CLIENT"}
      [] f.path.name = "ProtectedController.java" -> {"JWT_AUTH"}
      [] OTHER -> {}
\* The files that createFiles writes into a service and the dependencies that
\* adaptMavenModel has given it, one by one for each spec and each service, agree.
ExamplesSupported ==
    \A f \in {f \in files : f.path.dir \in DOMAIN poms} :
        Needs(f) \subseteq Usable(poms[f.path.dir], project)
===============================================================================
