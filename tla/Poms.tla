---------------------------------- MODULE Poms ---------------------------------
(***************************************************************************)
(* The pom.xml of a service: what MavenCreator starts it with and the      *)
(* addons make of it, one after the other.                                 *)
(*                                                                         *)
(* Of the many version numbers it only matters whether there is one.       *)
(* Ports, artifact ids and the text of profiles are left out.              *)
(***************************************************************************)
EXTENDS Catalogue, SequencesExt

CONSTANTS
    Code,              \* Code[s]: SupportedServer.code, an alternative and an addon
    ProfileUses,       \* the profiles of pom-servers.xml, with what they take from the pom
    ServerVersions,    \* ServerVersions[s]: for which versions the addon of s has one of s
    MatrixSpecs,       \* MatrixSpecs[v]: the specs that VersionSpecMatrix has for v
    MatrixStandalone   \* MatrixStandalone[v]: those of VersionStandaloneMatrix

Project == [server : Servers, version : Versions, tool : {"MAVEN", "GRADLE"},
            specs : SUBSET Specs, standalone : SUBSET Standalone,
            beans : BOOLEAN]   \* beans.xml wanted: not BeansXMLMode.IMPLICIT

\* What links and poms take for granted of the matrices: a spec that can be
\* selected has a version there.  Without one, handleStandaloneSpecOptions ends
\* in a null pointer, and getSpecificationLink has "null" in its result.
ASSUME MatrixAssumption ==
    \A v \in Versions :
        /\ MatrixSpecs[v] = SpecsIn(v)
        /\ \A s \in Servers : \A spec \in Standalone :
               IsEnabled(spec, s, v) => spec \in MatrixStandalone[v]

-----------------------------------------------------------------------------
(* MavenCreator.createSingleModule *)

Platform(p) == IF p.server = "QUARKUS" THEN {} ELSE {"microprofile"}
CreateSingleModule(p) ==
    [profile |-> Null, parent |-> FALSE, packaging |-> "war",
     properties |-> {"maven.compiler.source", "maven.compiler.target", "failOnMissingWebXml",
                     "final.name"},
     dependencies |-> Platform(p),
     extensions |-> {}]      \* parts of the server, named after the specs they are for

-----------------------------------------------------------------------------
(* MicroprofileServersAddon.adaptMavenModel *)

\* Fault: MicroProfile 3.2 taken for one of the versions with the old profile.
OldHelidonProfile(p) ==
    IF p.server = "HELIDON" /\ ~NotOlder("MP32", p.version) THEN "helidon2" ELSE Code[p.server]
ServerName(p) ==
    IF p.server = "HELIDON" /\ NotOlder(p.version, "MP32") THEN "helidon2" ELSE Code[p.server]

Id(name, version) == [name |-> name, version |-> version]
ProfileOf(name, version) ==
    IF Id(name, version) \in DOMAIN ProfileUses THEN Id(name, version) ELSE Id(name, Null)
FindProfile(p) == ProfileOf(ServerName(p), p.version)

AdaptByMp(pom, p, main) ==
    IF FindProfile(p) \notin DOMAIN ProfileUses THEN Null    \* "Profile not found"
    ELSE [pom EXCEPT
        !.profile = FindProfile(p),
        !.dependencies = @ \cup (IF main /\ "JWT_AUTH" \in p.specs THEN {"vertx-auth-jwt"} ELSE {})
                           \cup (IF main THEN {"GRAPHQL"} \cap p.standalone ELSE {})]

-----------------------------------------------------------------------------
(* adaptMavenModel of the servers' addons *)

HasVersion(p) == p.version \in ServerVersions[p.server]
Given(p, properties) == IF HasVersion(p) THEN properties ELSE {}
MainOnly == {"FAULT_TOLERANCE", "HEALTH_CHECKS", "METRICS", "OPEN_API"}
Calls(p) == p.specs \cap {"REST_CLIENT", "JWT_AUTH"} # {}

\* Fault: a layer for each spec that is selected, and no other.
LayersAsSelected(p, main) ==
    (p.specs \cap {"CONFIG", "JWT_AUTH", "OPEN_TRACING"})
    \cup (IF main THEN p.specs \cap MainOnly ELSE {})
\* The service that calls the other one reads its address with MicroProfile Config.
WildFlyLayers(p, main) ==
    (p.specs \cap {"CONFIG", "JWT_AUTH", "OPEN_TRACING"})
    \cup (IF main THEN p.specs \cap MainOnly ELSE {})
    \cup (IF main /\ Calls(p) THEN {"CONFIG"} ELSE {})

QuarkusExtensions(p, main) ==
    (p.specs \cap {"JWT_AUTH", "OPEN_TRACING"})
    \cup (IF main THEN p.specs \cap MainOnly ELSE {})
    \cup (IF main /\ Calls(p) THEN {"REST_CLIENT"} ELSE {})

\* The property is set to null without a version, a null pointer, and the profile
\* is the first one of the pom.
AdaptByWildFly(pom, p, main) ==
    IF ~HasVersion(p) \/ pom.profile = Null THEN Null
    ELSE [pom EXCEPT !.properties = @ \cup {"version.wildfly"},
                     !.extensions = WildFlyLayers(p, main)]
AdaptByQuarkus(pom, p, main) ==
    IF ~HasVersion(p) THEN Null
    ELSE [pom EXCEPT !.properties = @ \cup {"version.quarkus"}, !.packaging = "jar",
                     !.extensions = QuarkusExtensions(p, main)]
AdaptByThorntail(pom, p) == [pom EXCEPT !.properties = @ \cup Given(p, {"version.thorntail"})]
AdaptByLiberty(pom) ==
    [pom EXCEPT !.properties = @ \cup {"openliberty.maven.version", "jaeger.client.version",
                                       "slf4j.api.version", "slf4j.jdk.version"}]
AdaptByKumuluzEE(pom, p) ==
    [pom EXCEPT !.packaging = "jar",
                !.properties = @ \cup Given(p, {"kumuluz.version", "kumuluzee-config-mp.version",
                                                "kumuluzee-microprofile.version"})]
\* The version of the plugin depends on that of the server, and is always there.
AdaptByPayara(pom, p) ==
    [pom EXCEPT !.properties = @ \cup {"payaraMavenPluginVersion"} \cup Given(p, {"payaraVersion"})]
AdaptByTomee(pom, p) ==
    IF pom.profile = Null THEN Null
    ELSE [pom EXCEPT !.properties = @ \cup Given(p, {"tomee.version"})]
\* useApplicationsParentPom is set to false for three versions.
AdaptByHelidon(pom, p) ==
    [pom EXCEPT !.packaging = "jar",
                !.properties = @ \cup {"package"} \cup Given(p, {"helidonVersion", "mpVersion"}),
                !.parent = p.version \notin {"MP30", "MP22", "MP12"}]

AdaptByServer(pom, p, main) ==
    CASE p.server = "WILDFLY_SWARM" -> pom
      [] p.server = "THORNTAIL_V2" -> AdaptByThorntail(pom, p)
      [] p.server = "QUARKUS" -> AdaptByQuarkus(pom, p, main)
      [] p.server = "WILDFLY" -> AdaptByWildFly(pom, p, main)
      [] p.server = "LIBERTY" -> AdaptByLiberty(pom)
      [] p.server = "KUMULUZEE" -> AdaptByKumuluzEE(pom, p)
      [] p.server = "PAYARA_MICRO" -> AdaptByPayara(pom, p)
      [] p.server = "TOMEE" -> AdaptByTomee(pom, p)
      [] p.server = "HELIDON" -> AdaptByHelidon(pom, p)

\* applyMavenAdapters: the addons in their order.  Null if one throws.
AdaptMavenModel(pom, a, p, main) ==
    IF pom = Null THEN Null
    ELSE IF a = "mp" THEN AdaptByMp(pom, p, main) ELSE AdaptByServer(pom, p, main)
Pom(p, addonList, main) ==
    FoldLeft(LAMBDA pom, a : AdaptMavenModel(pom, a, p, main), CreateSingleModule(p), addonList)

-----------------------------------------------------------------------------

\* Everything that the selected profile refers to is defined, with a value, and
\* a profile that leaves versions to a parent pom has one, and no other.
Resolved(pom) ==
    /\ pom.profile # Null
    /\ ProfileUses[pom.profile] \ {"parent"} \subseteq pom.properties
    /\ pom.parent <=> "parent" \in ProfileUses[pom.profile]

\* What a pom may be, so that null is none.
Properties ==
    {"maven.compiler.source", "maven.compiler.target", "failOnMissingWebXml", "final.name",
     "version.wildfly", "version.quarkus", "version.thorntail", "openliberty.maven.version",
     "jaeger.client.version", "slf4j.api.version", "slf4j.jdk.version", "kumuluz.version",
     "kumuluzee-config-mp.version", "kumuluzee-microprofile.version", "payaraVersion",
     "payaraMavenPluginVersion", "tomee.version", "package", "helidonVersion", "mpVersion"}
Profiles == [name : {"helidon2"} \cup {Code[s] : s \in Servers}, version : Versions \cup {Null}]
PomType == [profile : {Null} \cup Profiles, parent : BOOLEAN, packaging : {"war", "jar"},
            properties : SUBSET Properties,
            dependencies : SUBSET ({"microprofile", "vertx-auth-jwt"} \cup Standalone),
            extensions : SUBSET Specs]

\* What the pom of a service takes for granted of the tables.  Each server has a
\* profile for each version it offers, and its addon, asked for nothing, gives a pom
\* what that profile refers to.  Helidon has its two profiles chosen by the addon
\* mp and the parent pom that the newer one relies on by its own addon.
Bare(s, v) == [server |-> s, version |-> v, tool |-> "MAVEN", specs |-> {}, standalone |-> {},
               beans |-> FALSE]
BarePom(s, v) ==
    AdaptByServer([CreateSingleModule(Bare(s, v)) EXCEPT !.profile = Id(Code[s], v)], Bare(s, v), TRUE)
ASSUME PomsAssumption ==
    \A s \in Servers : \A v \in Offered(s) :
        LET pom == BarePom(s, v)
            profile == ProfileOf(IF pom.parent THEN "helidon2" ELSE Code[s], v)
        IN  /\ pom # Null
            /\ profile \in DOMAIN ProfileUses
            /\ Resolved([pom EXCEPT !.profile = profile])
            /\ s = "HELIDON" => (pom.parent <=> NotOlder(v, "MP32"))
ASSUME PomTypeAssumption == Null \notin PomType

\* What a service can use.  With most servers, the platform with all specs; of
\* WildFly and Quarkus only the parts asked for (external: jaxrs comes with the
\* rest client, and Config is a part of Quarkus).
Usable(pom, p) ==
    pom.dependencies \cup pom.extensions
    \cup CASE p.server = "WILDFLY" -> {"REST_CLIENT"}
           [] p.server = "QUARKUS" -> {"CONFIG"}
           [] OTHER -> IF "microprofile" \in pom.dependencies THEN Specs ELSE {}
===============================================================================
