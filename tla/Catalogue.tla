------------------------------- MODULE Catalogue ------------------------------
(***************************************************************************)
(* What the starter knows about MicroProfile: which server offers which    *)
(* versions, which specs a version has, on which Java versions a server    *)
(* runs.  The REST API and the web form both decide with these tables.     *)
(* The tables themselves are constants; SupportTables has the real ones.   *)
(***************************************************************************)
EXTENDS Integers, Sequences, FiniteSets

CONSTANTS
    Servers,        \* SupportedServer
    Versions,       \* MicroProfileVersion without NONE
    Specs,          \* MicroprofileSpec
    Standalone,     \* StandaloneMPSpec
    JavaVersions,   \* JavaSEVersion without NONE
    DefaultJava,    \* EngineData.DEFAULT_JAVA_SE_VERSION
    Ordinal,        \* Ordinal[v]: the position of v in its enum, newest first
    MpVersions,     \* MpVersions[s]: the list SupportedServer.mpVersions of s
    GradleServers,  \* the servers with gradleSupport
    SpecVersions,   \* SpecVersions[spec]: MicroprofileSpec.mpVersions of spec
    JavaRules,      \* the calls of JDKSelector.fillJavaSEVersion
    Restrictions,   \* Restrictions[spec]: StandaloneMPSpec.serverRestrictions
    Null            \* null, or NONE

Codes == Specs \cup Standalone
Rule == [server : Servers, java : JavaVersions,
         min : Versions \cup {Null}, max : Versions \cup {Null}]
ServerMPVersion == [server : Servers, min : Versions \cup {Null}]

ASSUME TablesAssumption ==
    /\ Ordinal \in [Versions -> Nat]
    /\ MpVersions \in [Servers -> Seq(Versions)]
    /\ \A s \in Servers : MpVersions[s] # <<>>
    /\ GradleServers \subseteq Servers
    /\ SpecVersions \in [Specs -> SUBSET Versions]
    /\ JavaRules \subseteq Rule
    /\ Restrictions \in [Standalone -> Seq(ServerMPVersion)]
ASSUME NamesAssumption ==
    /\ Specs \cap Standalone = {}
    /\ DefaultJava \in JavaVersions
    /\ Null \notin Servers \cup Versions \cup Codes \cup JavaVersions

-----------------------------------------------------------------------------

Offered(s) == {MpVersions[s][i] : i \in DOMAIN MpVersions[s]}
\* versions.get(versions.size() - 1), "the latest MP version"
Latest(s) == MpVersions[s][Len(MpVersions[s])]
SpecsIn(v) == {spec \in Specs : v \in SpecVersions[spec]}

\* The newest version has the smallest ordinal.
NotOlder(v, w) == Ordinal[v] <= Ordinal[w]

\* JDKSelector.getSupportedVersion, for the rules that fillJavaSEVersion entered
SupportedJava(s, v) ==
    {rule.java : rule \in {rule \in JavaRules :
        /\ rule.server = s
        /\ rule.min = Null \/ NotOlder(v, rule.min)
        /\ rule.max = Null \/ NotOlder(rule.max, v)}}

\* ServerMPVersion.isEnabled: of a server's restrictions the last one decides.
IsEnabled(spec, s, v) ==
    LET list == Restrictions[spec] IN
    \E i \in DOMAIN list :
        /\ list[i].server = s
        /\ \A j \in DOMAIN list : list[j].server = s => j <= i
        /\ list[i].min = Null \/ NotOlder(v, list[i].min)

\* APIService.defineStandaloneSpecs: with a server, the loop over restrictions
\* ends at the first one that is for another server.
DefineStandaloneSpecs(v, s) ==
    {spec \in Standalone :
        LET list == Restrictions[spec] IN
        \E i \in DOMAIN list :
            /\ s = Null \/ \A j \in 1..i : list[j].server = s
            /\ list[i].min = Null \/ NotOlder(v, list[i].min)}

\* What the callers take for granted of the tables: the last version of a
\* server is its newest, a server runs on some Java version with every version
\* it offers, and on the default one when there is a choice; the two ways to
\* ask for standalone specs agree.
ASSUME LatestAssumption ==
    \A s \in Servers : \A v \in Offered(s) : NotOlder(Latest(s), v)
ASSUME JavaAssumption ==
    \A s \in Servers : \A v \in Offered(s) :
        /\ SupportedJava(s, v) # {}
        /\ Cardinality(SupportedJava(s, v)) # 1 => DefaultJava \in SupportedJava(s, v)
ASSUME StandaloneAssumption ==
    \A s \in Servers : \A v \in Versions :
        DefineStandaloneSpecs(v, s) = {spec \in Standalone : IsEnabled(spec, s, v)}
===============================================================================
