-------------------------------- MODULE RestApi -------------------------------
(***************************************************************************)
(* Requests for a project over the REST API: what each version of the API  *)
(* makes of what the client leaves open (setDefaultsV1, setDefaults), what *)
(* it refuses (validate), and when it answers "304 Not Modified" to a      *)
(* client that shows the entity tag of an earlier answer.                  *)
(*                                                                         *)
(* Requests interact through entity tags, which outlive them, and through  *)
(* the lists of servers that SharedServers is about.  Of those lists this  *)
(* module knows only whether calls have overlapped on one (listsWhole):    *)
(* from then on an available server may be missed.  The generation itself, *)
(* which Generation models, here succeeds or fails.                        *)
(***************************************************************************)
EXTENDS Catalogue

CONSTANTS
    Requests,
    AsksOf,           \* bound: AsksOf[r]: what request r may be
    Illegal,          \* a spec code, or a name, that is not valid
    Default           \* the default groupId or artifactId

Names == {Null, "name", Illegal}   \* a blank name is treated like none

Ask == [entry : {"v1", "v5", "latest"}, body : BOOLEAN,
        groupId : Names, artifactId : Names,
        supportedServer : Servers \cup {Null},
        mpVersion : Versions \cup {Null},
        javaSEVersion : JavaVersions \cup {Null},
        buildTool : {"MAVEN", "GRADLE", Null},
        selectedSpecs : {Null} \cup SUBSET (Codes \cup {Illegal}),
        standalone : {Null} \cup SUBSET Standalone,
        selectAllSpecs : BOOLEAN]

\* A query has a list of codes, maybe an empty one, and cannot name standalone
\* specs apart; v1 queries have no buildTool and no selectAllSpecs, and v5 has
\* no POST of its own.
ASSUME AsksAssumption ==
    /\ \A r \in Requests : AsksOf[r] \subseteq Ask
    /\ \A r \in Requests : \A ask \in AsksOf[r] :
        /\ ~ask.body => ask.selectedSpecs # Null /\ ask.standalone = Null
        /\ ~ask.body /\ ask.entry = "v1" => ~ask.selectAllSpecs /\ ask.buildTool = "MAVEN"
        /\ ask.entry = "v5" => ~ask.body
ASSUME IllegalAssumption ==
    Illegal \notin Codes \cup {Null, "name"} /\ Default \notin Names

VARIABLES
    pc,          \* pc[r]: how far r is
    ask,         \* ask[r]: the request as it came in
    shown,       \* shown[r]: the request whose answer had the entity tag that
                 \* r sends as If-None-Match
    project,     \* project[r]: the Project object of r
    answer,      \* answer[r]: the status, or the error code, of its answer
    delivered,   \* delivered[r]: what the zip file was made from
    listsWhole   \* have the lists of servers not been raced for?

vars == <<pc, ask, shown, project, answer, delivered, listsWhole>>

Stages == {"new", "sent", "complete", "valid", "logged", "answered"}
Errors == {"ERROR001", "ERROR002", "ERROR003", "ERROR004", "ERROR005", "ERROR006", "ERROR007"}
Answers == Errors \cup {"zip", "304", "500"}
ASSUME AnswersAssumption == Null \notin Answers

Goto(r, stage) == pc' = [pc EXCEPT ![r] = stage]
Answered(r, status) == Goto(r, "answered") /\ answer' = [answer EXCEPT ![r] = status]

\* Fault: the Java version is left out of the hash.
TagWithoutJava(p) ==
    [f \in {"groupId", "artifactId", "mpVersion", "supportedServer", "buildTool",
            "selectedSpecs", "selectAllSpecs"} |-> p[f]]
\* Project.hashCode, without collisions
Tag(p) ==
    [f \in {"groupId", "artifactId", "mpVersion", "javaSEVersion", "supportedServer",
            "buildTool", "selectedSpecs", "selectAllSpecs"} |-> p[f]]
Matches(r) == shown[r] # Null /\ Tag(delivered[shown[r]]) = Tag(project[r])

Init ==
    /\ pc = [r \in Requests |-> "new"]
    /\ ask = [r \in Requests |-> Null]
    /\ shown = [r \in Requests |-> Null]
    /\ project = [r \in Requests |-> Null]
    /\ answer = [r \in Requests |-> Null]
    /\ delivered = [r \in Requests |-> Null]
    /\ listsWhole = TRUE

\* The Project that the endpoint builds, or gets as body; v5 has no buildTool.
AsProject(a) ==
    [groupId |-> a.groupId, artifactId |-> a.artifactId,
     supportedServer |-> a.supportedServer, mpVersion |-> a.mpVersion,
     javaSEVersion |-> a.javaSEVersion,
     buildTool |-> IF a.entry = "v5" THEN "MAVEN" ELSE a.buildTool,
     selectedSpecs |-> a.selectedSpecs, standalone |-> a.standalone,
     selectAllSpecs |-> a.selectAllSpecs]

Send(r) ==
    /\ pc[r] = "new"
    /\ \E a \in AsksOf[r] : \E q \in {q \in Requests : answer[q] = "zip"} \cup {Null} :
        /\ ask' = [ask EXCEPT ![r] = a]
        /\ project' = [project EXCEPT ![r] = AsProject(a)]
        /\ shown' = [shown EXCEPT ![r] = q]
    /\ Goto(r, "sent")
    /\ UNCHANGED <<answer, delivered, listsWhole>>

-----------------------------------------------------------------------------
(* Defaults *)

Or(value, default) == IF value = Null THEN default ELSE value

DefaultVersion(s) == Latest(s)

\* Fault: the default Java version, whatever the server runs on.
AlwaysDefaultJava(s, v) == DefaultJava
JavaFor(s, v) ==
    LET versions == SupportedJava(s, v) IN
    IF Cardinality(versions) = 1 THEN CHOOSE java \in versions : TRUE ELSE DefaultJava

\* Fault: all specs are selected for a request that names none.
AllSpecsByDefault(p, all, chosen) == IF chosen = {} THEN all ELSE chosen
\* An empty selection stands for everything if selectAllSpecs is set.
Selection(p, all, chosen) ==
    IF chosen = {} /\ p.selectAllSpecs THEN all ELSE chosen

\* The rest of the defaults, for a version v and a Java version
Completed(p, v, java, codes, standalone) ==
    [p EXCEPT
        !.groupId = Or(@, Default), !.artifactId = Or(@, Default),
        !.mpVersion = v,
        !.javaSEVersion = java,
        !.selectedSpecs = Selection(p, SpecsIn(v), codes),
        !.standalone = Selection(p, {spec \in Standalone : IsEnabled(spec, p.supportedServer, v)},
                                 standalone),
        !.buildTool = Or(@, "MAVEN")]

\* setDefaultsV1 and setDefaults dereference a server that is not there when
\* they have to look something up for it ...
LooksUpServer(p) ==
    \/ p.mpVersion = Null
    \/ p.selectAllSpecs /\ p.standalone \in {Null, {}}

\* ... and setDefaultsV1 the lists of specs in any case: its only default is for
\* the wrong one of them.
ThrowsV1(p) ==
    \/ p.supportedServer = Null /\ LooksUpServer(p)
    \/ p.selectedSpecs = Null
    \/ p.standalone = Null

Throws(p) == p.supportedServer = Null /\ (LooksUpServer(p) \/ p.javaSEVersion = Null)

VersionOf(p) == IF p.mpVersion = Null THEN DefaultVersion(p.supportedServer) ELSE p.mpVersion

DefaultsV1(p) ==
    [Completed(p, VersionOf(p), Or(p.javaSEVersion, DefaultJava), p.selectedSpecs, p.standalone)
     EXCEPT !.buildTool = p.buildTool]

Defaults(p) ==
    Completed(p, VersionOf(p),
              IF p.javaSEVersion = Null THEN JavaFor(p.supportedServer, VersionOf(p))
              ELSE p.javaSEVersion,
              Or(p.selectedSpecs, {}), Or(p.standalone, {}))

SetDefaultsV1(r) ==
    /\ pc[r] = "sent"
    /\ ask[r].entry = "v1"
    /\ \/ /\ ThrowsV1(project[r])
          /\ Answered(r, "500")
          /\ UNCHANGED project
       \/ /\ ~ThrowsV1(project[r])
          /\ project' = [project EXCEPT ![r] = DefaultsV1(@)]
          /\ Goto(r, "complete")
          /\ UNCHANGED answer
    /\ UNCHANGED <<ask, shown, delivered, listsWhole>>

SetDefaults(r) ==
    /\ pc[r] = "sent"
    /\ ask[r].entry # "v1"
    /\ \/ /\ Throws(project[r])
          /\ Answered(r, "500")
          /\ UNCHANGED project
       \/ /\ ~Throws(project[r])
          /\ project' = [project EXCEPT ![r] = Defaults(@)]
          /\ Goto(r, "complete")
          /\ UNCHANGED answer
    /\ UNCHANGED <<ask, shown, delivered, listsWhole>>

-----------------------------------------------------------------------------
(* Validation *)

\* Two calls overlap on a list of servers (SharedServers): from now on it may
\* miss some.
Race ==
    /\ listsWhole
    /\ listsWhole' = FALSE
    /\ UNCHANGED <<pc, ask, shown, project, answer, delivered>>

\* defineIncorrectSpecCodes moves the standalone specs among the codes to a list
\* of their own, without those that the server cannot have.
SortOut(p) ==
    [p EXCEPT !.selectedSpecs = @ \cap Specs,
              !.standalone = (@ \cup (p.selectedSpecs \cap Standalone))
                             \cap DefineStandaloneSpecs(p.mpVersion, p.supportedServer)]

GradleMissing(p) == p.buildTool = "GRADLE" /\ p.supportedServer \notin GradleServers

\* Fault: the build tool is not looked at.
FirstErrorButGradle(p) ==
    IF p.supportedServer = Null THEN "ERROR001"
    ELSE IF p.groupId = Illegal THEN "ERROR004"
    ELSE IF p.artifactId = Illegal THEN "ERROR005"
    ELSE "none"

\* What validate refuses before it asks the lists
FirstError(p) ==
    IF p.supportedServer = Null THEN "ERROR001"
    ELSE IF p.groupId = Illegal THEN "ERROR004"
    ELSE IF p.artifactId = Illegal THEN "ERROR005"
    ELSE IF GradleMissing(p) THEN "ERROR007"
    ELSE "none"

\* ... and what it refuses afterwards
SpecError(p) ==
    IF Illegal \in p.selectedSpecs THEN "ERROR006"
    ELSE IF ~ (p.selectedSpecs \cap Specs \subseteq SpecsIn(p.mpVersion)) THEN "ERROR003"
    ELSE "none"

ListsServer(p) == p.mpVersion \in Offered(p.supportedServer)

Validate(r) ==
    /\ pc[r] = "complete"
    /\ LET p == project[r] IN
        \/ /\ FirstError(p) # "none"
           /\ Answered(r, FirstError(p))
           /\ UNCHANGED project
        \/ /\ FirstError(p) = "none"
           /\ ListsServer(p) => ~listsWhole
           /\ Answered(r, "ERROR002")
           /\ UNCHANGED project
        \/ /\ FirstError(p) = "none"
           /\ ListsServer(p)
           /\ project' = [project EXCEPT ![r] = SortOut(p)]
           /\ IF SpecError(p) = "none" THEN Goto(r, "valid") /\ UNCHANGED answer
              ELSE Answered(r, SpecError(p))
    /\ UNCHANGED <<ask, shown, delivered, listsWhole>>

-----------------------------------------------------------------------------
(* Logging and the answer *)

\* The LoggingTask of UsageLog is submitted.  The executor may reject it, which
\* nothing here catches.
SubmitLog(r) ==
    /\ pc[r] = "valid"
    /\ \/ Goto(r, "logged") /\ UNCHANGED answer
       \/ Answered(r, "500")
    /\ UNCHANGED <<ask, shown, project, delivered, listsWhole>>

NotModified(r) ==
    /\ pc[r] = "logged"
    /\ Matches(r)
    /\ Answered(r, "304")
    /\ UNCHANGED <<ask, shown, project, delivered, listsWhole>>

Deliver(r) ==
    /\ pc[r] = "logged"
    /\ ~Matches(r)
    /\ \/ /\ Answered(r, "zip")
          /\ delivered' = [delivered EXCEPT ![r] = project[r]]
       \/ /\ Answered(r, "500")
          /\ UNCHANGED delivered
    /\ UNCHANGED <<ask, shown, project, listsWhole>>

\* All requests are answered.
Quiet == (\A r \in Requests : pc[r] = "answered") /\ UNCHANGED vars

Process(r) == Validate(r) \/ SubmitLog(r) \/ NotModified(r) \/ Deliver(r)
Handle(r) == Send(r) \/ SetDefaultsV1(r) \/ SetDefaults(r) \/ Process(r)
Next == (\E r \in Requests : Handle(r)) \/ Race \/ Quiet

Spec == Init /\ [][Next]_vars
-----------------------------------------------------------------------------
(* Properties *)

Accepted(r) == pc[r] \in {"valid", "logged"} \/ answer[r] \in {"zip", "304"}

\* Nothing is left open in a project, and its two lists hold codes of their kind.
Definite(p) ==
    /\ Null \notin {p.groupId, p.artifactId, p.supportedServer, p.mpVersion, p.javaSEVersion}
    /\ p.selectedSpecs \subseteq Specs
    /\ p.standalone \subseteq Standalone

\* Whatever a client sends, and whatever happens to the lists of servers, what
\* reaches the generator is complete and something the tables offer: a version
\* of the server, specs of the version, standalone specs the server can have,
\* and Gradle only for a server that supports it.  (Creator takes every
\* buildTool but MAVEN for Gradle.  A v1 body with an explicit null as
\* buildTool slips through validate, and is left out here.)
GeneratedIsOffered ==
    \A r \in Requests : Accepted(r) =>
        LET p == project[r] IN
        /\ Definite(p)
        /\ p.mpVersion \in Offered(p.supportedServer)
        /\ p.selectedSpecs \subseteq SpecsIn(p.mpVersion)
        /\ \A spec \in p.standalone : IsEnabled(spec, p.supportedServer, p.mpVersion)
        /\ p.buildTool = "MAVEN" \/ p.supportedServer \in GradleServers
              \/ (ask[r].entry = "v1" /\ ask[r].buildTool = Null)

\* From v3 on, r asks for a server and leaves the version and the specs open.
Minimal(r) ==
    LET a == ask[r] IN
    /\ a # Null /\ a.entry # "v1"
    /\ a.supportedServer # Null /\ a.mpVersion = Null
    /\ a.selectedSpecs \in {Null, {}} /\ Illegal \notin {a.groupId, a.artifactId}
    /\ a.buildTool # "GRADLE" \/ a.supportedServer \in GradleServers

\* What a client leaves open is given a usable value: "the only mandatory
\* attribute is supportedServer" (REST-README.md:103), so a request with nothing
\* but a server, be it with selectAllSpecs, is not refused, unless by a race on
\* the lists of servers; and a project without a Java version of its own is for
\* one that its server runs on with its version of MicroProfile.
DefaultsUsable ==
    \A r \in Requests :
        /\ Minimal(r) /\ listsWhole => answer[r] \notin Errors
        /\ Accepted(r) /\ ask[r].entry # "v1" /\ ask[r].javaSEVersion = Null =>
                project[r].javaSEVersion
                    \in SupportedJava(project[r].supportedServer, project[r].mpVersion)

\* The specs of a project are those asked for.  From v3 on, none named means
\* none, or all there are if selectAllSpecs is set; a spec that is named is
\* never dropped in silence, unless it is a standalone one the server cannot have.
SpecsAsAsked ==
    \A r \in Requests : (Accepted(r) /\ ask[r].entry # "v1") =>
        LET p == project[r]
            named == Or(ask[r].selectedSpecs, {}) \cup Or(ask[r].standalone, {})
            enabled == {spec \in Standalone : IsEnabled(spec, p.supportedServer, p.mpVersion)}
        IN
        /\ named \cap (Specs \cup enabled) \subseteq p.selectedSpecs \cup p.standalone
        /\ ~p.selectAllSpecs => p.selectedSpecs \cup p.standalone \subseteq named
        /\ p.selectAllSpecs /\ named = {} =>
                p.selectedSpecs = SpecsIn(p.mpVersion) /\ p.standalone = enabled

\* A client that is told "304 Not Modified" holds the project it has asked for
\* now, up to the standalone specs, however its request and the one before
\* were phrased.
NotModifiedUpToStandalone ==
    \A r \in Requests : answer[r] = "304" =>
        [delivered[shown[r]] EXCEPT !.standalone = {}] = [project[r] EXCEPT !.standalone = {}]

\* If-None-Match serves "to avoid unnecessary deserialization of identical
\* responses" (REST-README.md:282): who is told "304 Not Modified" holds exactly
\* the project that this request would give.
NotModifiedMeansSame ==
    \A r \in Requests : answer[r] = "304" => delivered[shown[r]] = project[r]
===============================================================================
