----------------------------- MODULE RestApiProofs ----------------------------
(***************************************************************************)
(* For every content of the tables, every set of requests and whatever     *)
(* happens to the lists of servers: what reaches the generator is complete *)
(* and offered, the defaults are usable, the specs are those asked for,    *)
(* and 304 is told to no one but a client that holds the project.          *)
(*                                                                         *)
(* Once its defaults are set, the project of a request is a function of    *)
(* what was asked (Completion), and so is what it has become once it is    *)
(* accepted (SortOut).  The invariant says so; that the tables offer this  *)
(* project is then a fact about operators.                                 *)
(***************************************************************************)
EXTENDS RestApi, FiniteSetTheorems, TLAPS

Fields == {"groupId", "artifactId", "mpVersion", "javaSEVersion", "supportedServer",
           "buildTool", "selectedSpecs", "standalone", "selectAllSpecs"}
ProjectType ==
    [groupId : Names \cup {Default}, artifactId : Names \cup {Default},
     supportedServer : Servers \cup {Null}, mpVersion : Versions \cup {Null},
     javaSEVersion : JavaVersions \cup {Null}, buildTool : {"MAVEN", "GRADLE", Null},
     selectedSpecs : {Null} \cup SUBSET (Codes \cup {Illegal}),
     standalone : {Null} \cup SUBSET Standalone, selectAllSpecs : BOOLEAN]

\* What the defaults make of a request, and whether they can be set
Completion(a) ==
    IF a.entry = "v1" THEN DefaultsV1(AsProject(a)) ELSE Defaults(AsProject(a))
Completes(a) == IF a.entry = "v1" THEN ~ThrowsV1(AsProject(a)) ELSE ~Throws(AsProject(a))

Passes(p) == FirstError(p) = "none" /\ ListsServer(p) /\ SpecError(p) = "none"

\* The codes that validate answers with
Refusals(p) ==
    {FirstError(p), SpecError(p)} \cup
        (IF ListsServer(p) /\ listsWhole THEN {} ELSE {"ERROR002"})

RequestInv(r) ==
    /\ pc[r] = "new" => ask[r] = Null
    /\ pc[r] # "new" => ask[r] \in AsksOf[r]
    /\ pc[r] = "sent" => project[r] = AsProject(ask[r])
    /\ pc[r] = "complete" => Completes(ask[r]) /\ project[r] = Completion(ask[r])
    /\ Accepted(r) => /\ Completes(ask[r]) /\ Passes(Completion(ask[r]))
                      /\ project[r] = SortOut(Completion(ask[r]))
    /\ pc[r] # "answered" => answer[r] = Null
    /\ pc[r] = "answered" => answer[r] \in Answers
    /\ answer[r] \in Errors => Completes(ask[r]) /\ answer[r] \in Refusals(Completion(ask[r]))

TagInv(r) ==
    /\ shown[r] # Null => shown[r] \in Requests /\ answer[shown[r]] = "zip"
    /\ answer[r] = "zip" => delivered[r] = project[r]
    /\ answer[r] = "304" => Matches(r)

Functions ==
    /\ pc \in [Requests -> Stages] /\ answer \in [Requests -> Answers \cup {Null}]
    /\ ask = [r \in Requests |-> ask[r]] /\ shown = [r \in Requests |-> shown[r]]
    /\ project = [r \in Requests |-> project[r]]
    /\ delivered = [r \in Requests |-> delivered[r]]

IInv ==
    /\ Functions
    /\ \A r \in Requests : RequestInv(r) /\ TagInv(r)
-----------------------------------------------------------------------------
(* Tables and defaults *)

LEMMA TablesTyped ==
    /\ \A s \in Servers : Latest(s) \in Versions /\ Latest(s) \in Offered(s)
    /\ \A s \in Servers : Offered(s) \subseteq Versions
    /\ \A v : SpecsIn(v) \subseteq Specs
    /\ \A s, v : SupportedJava(s, v) \subseteq JavaVersions
<1>1. ASSUME NEW s \in Servers
      PROVE  /\ Latest(s) \in Versions /\ Latest(s) \in Offered(s)
             /\ Offered(s) \subseteq Versions
    <2>1. MpVersions[s] \in Seq(Versions) /\ MpVersions[s] # <<>>
        BY TablesAssumption
    <2>2. Len(MpVersions[s]) \in DOMAIN MpVersions[s]
        BY <2>1
    <2> QED
        BY <2>1, <2>2 DEF Latest, Offered
<1>2. \A v : SpecsIn(v) \subseteq Specs
    BY DEF SpecsIn
<1>3. \A s, v : SupportedJava(s, v) \subseteq JavaVersions
    BY TablesAssumption DEF SupportedJava, Rule
<1> QED
    BY <1>1, <1>2, <1>3

\* The Java version that is chosen for a client exists, and is one that the
\* server runs on if the server offers the version of MicroProfile.
LEMMA JavaChosen ==
    ASSUME NEW s, NEW v
    PROVE  /\ JavaFor(s, v) \in JavaVersions
           /\ s \in Servers /\ v \in Offered(s) => JavaFor(s, v) \in SupportedJava(s, v)
<1>1. CASE Cardinality(SupportedJava(s, v)) = 1
    <2>1. SupportedJava(s, v) # {}
        BY <1>1, FS_EmptySet
    <2>2. JavaFor(s, v) \in SupportedJava(s, v)
        BY <1>1, <2>1 DEF JavaFor
    <2> QED
        BY <2>2, TablesTyped
<1>2. CASE Cardinality(SupportedJava(s, v)) # 1
    <2>1. JavaFor(s, v) = DefaultJava
        BY <1>2 DEF JavaFor
    <2> QED
        BY <1>2, <2>1, NamesAssumption, JavaAssumption
<1> QED
    BY <1>1, <1>2

LEMMA AsProjectTyped ==
    ASSUME NEW a \in Ask
    PROVE  AsProject(a) \in ProjectType
BY DEF Ask, AsProject, ProjectType

\* What a request is completed to, field by field
LEMMA CompletionParts ==
    ASSUME NEW a \in Ask, Completes(a)
    PROVE  LET c == Completion(a)
               v == VersionOf(AsProject(a))
               enabled == {spec \in Standalone : IsEnabled(spec, a.supportedServer, v)}
           IN  /\ c \in ProjectType
               /\ c.groupId = Or(a.groupId, Default) /\ c.artifactId = Or(a.artifactId, Default)
               /\ c.supportedServer = a.supportedServer
               /\ c.mpVersion = v /\ v \in Versions
               /\ c.javaSEVersion \in JavaVersions
               /\ a.javaSEVersion = Null /\ a.entry # "v1" =>
                        c.javaSEVersion = JavaFor(a.supportedServer, v)
               /\ c.selectedSpecs =
                        Selection(AsProject(a), SpecsIn(v), Or(a.selectedSpecs, {}))
               /\ c.standalone = Selection(AsProject(a), enabled, Or(a.standalone, {}))
               /\ c.selectAllSpecs = a.selectAllSpecs
               /\ a.entry # "v1" => c.buildTool = Or(AsProject(a).buildTool, "MAVEN")
               /\ a.entry = "v1" => c.buildTool = a.buildTool
<1> DEFINE p == AsProject(a)
           v == VersionOf(p)
           enabled == {spec \in Standalone : IsEnabled(spec, a.supportedServer, v)}
<1>1. /\ p \in ProjectType
      /\ p.groupId = a.groupId /\ p.artifactId = a.artifactId
      /\ p.supportedServer = a.supportedServer /\ p.mpVersion = a.mpVersion
      /\ p.javaSEVersion = a.javaSEVersion
      /\ p.selectedSpecs = a.selectedSpecs /\ p.standalone = a.standalone
      /\ p.selectAllSpecs = a.selectAllSpecs
      /\ a.entry = "v1" => p.buildTool = a.buildTool
    BY AsProjectTyped DEF AsProject
<1>2. v \in Versions
    <2>1. p.mpVersion = Null => p.supportedServer # Null
        BY <1>1 DEF Completes, Throws, ThrowsV1, LooksUpServer
    <2> QED
        BY <1>1, <2>1, TablesTyped DEF VersionOf, DefaultVersion, ProjectType
<1>3. SpecsIn(v) \subseteq Specs /\ enabled \subseteq Standalone
    BY TablesTyped
<1>4. ASSUME NEW java \in JavaVersions,
             NEW codes \in SUBSET (Codes \cup {Illegal}), NEW sa \in SUBSET Standalone
      PROVE  LET c == Completed(p, v, java, codes, sa) IN
             /\ c \in ProjectType
             /\ c.groupId = Or(a.groupId, Default) /\ c.artifactId = Or(a.artifactId, Default)
             /\ c.supportedServer = a.supportedServer
             /\ c.mpVersion = v /\ c.javaSEVersion = java
             /\ c.selectedSpecs = Selection(p, SpecsIn(v), codes)
             /\ c.standalone = Selection(p, enabled, sa)
             /\ c.selectAllSpecs = a.selectAllSpecs
             /\ c.buildTool = Or(p.buildTool, "MAVEN")
    <2>1. Selection(p, SpecsIn(v), codes) \in SUBSET (Codes \cup {Illegal})
        BY <1>3 DEF Selection, Codes
    <2>2. Selection(p, enabled, sa) \in SUBSET Standalone
        BY <1>3 DEF Selection
    <2>3. /\ Or(p.groupId, Default) \in Names \cup {Default}
          /\ Or(p.artifactId, Default) \in Names \cup {Default}
          /\ Or(p.buildTool, "MAVEN") \in {"MAVEN", "GRADLE", Null}
        BY <1>1 DEF Or, ProjectType
    <2> HIDE DEF v, p
    <2> QED
        BY <1>1, <1>2, <2>1, <2>2, <2>3 DEF Completed, ProjectType
<1>5. CASE a.entry = "v1"
    <2>1. p.selectedSpecs # Null /\ p.standalone # Null
        BY <1>5 DEF Completes, ThrowsV1
    <2>2. /\ p.selectedSpecs \in SUBSET (Codes \cup {Illegal})
          /\ p.standalone \in SUBSET Standalone
          /\ Or(p.javaSEVersion, DefaultJava) \in JavaVersions
        BY <1>1, <2>1, NamesAssumption DEF ProjectType, Or
    <2>3. /\ Or(a.selectedSpecs, {}) = p.selectedSpecs
          /\ Or(a.standalone, {}) = p.standalone
        BY <1>1, <2>1 DEF Or
    <2> DEFINE java == Or(p.javaSEVersion, DefaultJava)
               b == Completed(p, v, java, p.selectedSpecs, p.standalone)
    <2>4. Completion(a) = [b EXCEPT !.buildTool = p.buildTool]
        BY <1>5 DEF Completion, DefaultsV1
    <2> HIDE DEF b
    <2>5. b \in ProjectType => /\ Completion(a) \in ProjectType
                               /\ Completion(a).buildTool = p.buildTool
                               /\ \A f \in Fields \ {"buildTool"} : Completion(a)[f] = b[f]
        BY <1>1, <2>4 DEF ProjectType, Fields
    <2> USE DEF b
    <2>6. b \in ProjectType /\ b.groupId = Or(a.groupId, Default) /\ b.artifactId = Or(a.artifactId, Default)
             /\ b.supportedServer = a.supportedServer
             /\ b.mpVersion = v /\ b.javaSEVersion \in JavaVersions
             /\ b.selectedSpecs = Selection(p, SpecsIn(v), p.selectedSpecs)
             /\ b.standalone = Selection(p, enabled, p.standalone)
             /\ b.selectAllSpecs = a.selectAllSpecs
        <3> HIDE DEF v, p, enabled
        <3> QED
            BY <1>4, <2>2
    <2> HIDE DEF b
    <2> QED
        BY <1>1, <1>2, <1>5, <2>3, <2>5, <2>6 DEF Fields
<1>6. CASE a.entry # "v1"
    <2> DEFINE java == IF p.javaSEVersion = Null THEN JavaFor(p.supportedServer, v)
                       ELSE p.javaSEVersion
               codes == Or(p.selectedSpecs, {})
               sa == Or(p.standalone, {})
    <2>1. codes \in SUBSET (Codes \cup {Illegal}) /\ sa \in SUBSET Standalone
        BY <1>1 DEF ProjectType, Or
    <2>2. java \in JavaVersions
        BY <1>1, JavaChosen DEF ProjectType
    <2>3. Completion(a) = Completed(p, v, java, codes, sa)
        BY <1>6 DEF Completion, Defaults
    <2>4. codes = Or(a.selectedSpecs, {}) /\ sa = Or(a.standalone, {})
        BY <1>1
    <2>5. a.javaSEVersion = Null => java = JavaFor(a.supportedServer, v)
        BY <1>1
    <2> HIDE DEF java, codes, sa, p, v, enabled
    <2>6. /\ Completion(a) \in ProjectType
          /\ Completion(a).groupId = Or(a.groupId, Default)
          /\ Completion(a).artifactId = Or(a.artifactId, Default)
          /\ Completion(a).supportedServer = a.supportedServer
          /\ Completion(a).mpVersion = v /\ Completion(a).javaSEVersion = java
          /\ Completion(a).selectedSpecs = Selection(p, SpecsIn(v), codes)
          /\ Completion(a).standalone = Selection(p, enabled, sa)
          /\ Completion(a).selectAllSpecs = a.selectAllSpecs
          /\ Completion(a).buildTool = Or(p.buildTool, "MAVEN")
        BY <1>4, <2>1, <2>2, <2>3
    <2> QED
        BY <1>2, <1>6, <2>2, <2>4, <2>5, <2>6 DEF p, v, enabled
<1> QED
    BY <1>5, <1>6
-----------------------------------------------------------------------------
(* What validation lets through *)

\* validate refuses an unknown code and keeps the standalone specs a server has.
LEMMA SortedOut ==
    ASSUME NEW a \in Ask, Completes(a), Passes(Completion(a))
    PROVE  LET c == Completion(a)
               p == SortOut(c)
               enabled == {spec \in Standalone : IsEnabled(spec, c.supportedServer, c.mpVersion)}
           IN  /\ c \in ProjectType /\ p \in ProjectType
               /\ \A f \in Fields \ {"selectedSpecs", "standalone"} : p[f] = c[f]
               /\ p.supportedServer \in Servers /\ p.mpVersion \in Offered(p.supportedServer)
               /\ p.selectedSpecs = c.selectedSpecs \cap Specs
               /\ p.selectedSpecs \subseteq SpecsIn(p.mpVersion)
               /\ p.standalone = (c.standalone \cup (c.selectedSpecs \cap Standalone)) \cap enabled
<1> DEFINE c == Completion(a)
           p == SortOut(c)
           enabled == {spec \in Standalone : IsEnabled(spec, c.supportedServer, c.mpVersion)}
<1>1. c \in ProjectType /\ c.mpVersion \in Versions
    BY CompletionParts
<1>2. /\ c.supportedServer # Null /\ c.mpVersion \in Offered(c.supportedServer)
      /\ c.selectedSpecs \cap Specs \subseteq SpecsIn(c.mpVersion)
    BY DEF Passes, FirstError, ListsServer, SpecError
<1>3. c.supportedServer \in Servers
    BY <1>1, <1>2 DEF ProjectType
<1>4. DefineStandaloneSpecs(c.mpVersion, c.supportedServer) = enabled
    BY <1>1, <1>3, StandaloneAssumption
<1> HIDE DEF c
<1>5. /\ p \in ProjectType
      /\ \A f \in Fields \ {"selectedSpecs", "standalone"} : p[f] = c[f]
      /\ p.selectedSpecs = c.selectedSpecs \cap Specs
      /\ p.standalone = (c.standalone \cup (c.selectedSpecs \cap Standalone)) \cap enabled
    <2> DEFINE sa == (c.standalone \cup (c.selectedSpecs \cap Standalone)) \cap enabled
    <2>1. c.selectedSpecs \cap Specs \in SUBSET (Codes \cup {Illegal}) /\ sa \in SUBSET Standalone
        BY DEF Codes
    <2>2. p = [c EXCEPT !.selectedSpecs = c.selectedSpecs \cap Specs, !.standalone = sa]
        BY <1>4 DEF SortOut
    <2> HIDE DEF sa, p
    <2>3. /\ p \in ProjectType
          /\ \A f \in Fields \ {"selectedSpecs", "standalone"} : p[f] = c[f]
          /\ p.selectedSpecs = c.selectedSpecs \cap Specs /\ p.standalone = sa
        BY <1>1, <2>1, <2>2 DEF ProjectType, Fields
    <2> QED
        BY <2>3 DEF sa
<1>6. p.supportedServer = c.supportedServer /\ p.mpVersion = c.mpVersion
    BY <1>5 DEF Fields
<1> HIDE DEF p
<1>7. /\ p.supportedServer \in Servers /\ p.mpVersion \in Offered(p.supportedServer)
      /\ p.selectedSpecs \subseteq SpecsIn(p.mpVersion)
    BY <1>2, <1>3, <1>5, <1>6
<1> QED
    BY <1>1, <1>5, <1>7 DEF c, p

\* An accepted project is one that the tables offer.
LEMMA AcceptedIsOffered ==
    ASSUME NEW a \in Ask, Completes(a), Passes(Completion(a))
    PROVE  LET p == SortOut(Completion(a)) IN
           /\ Definite(p)
           /\ p.mpVersion \in Offered(p.supportedServer)
           /\ p.selectedSpecs \subseteq SpecsIn(p.mpVersion)
           /\ \A spec \in p.standalone : IsEnabled(spec, p.supportedServer, p.mpVersion)
           /\ p.buildTool = "MAVEN" \/ p.supportedServer \in GradleServers
                \/ (a.entry = "v1" /\ a.buildTool = Null)
           /\ a.entry # "v1" /\ a.javaSEVersion = Null =>
                p.javaSEVersion \in SupportedJava(p.supportedServer, p.mpVersion)
<1> DEFINE c == Completion(a)
           p == SortOut(c)
<1>1. /\ \A f \in Fields \ {"selectedSpecs", "standalone"} : p[f] = c[f]
      /\ p \in ProjectType /\ c \in ProjectType
      /\ p.supportedServer \in Servers /\ p.mpVersion \in Offered(p.supportedServer)
      /\ p.selectedSpecs \subseteq SpecsIn(p.mpVersion) /\ p.selectedSpecs \subseteq Specs
      /\ \A spec \in p.standalone :
            spec \in Standalone /\ IsEnabled(spec, c.supportedServer, c.mpVersion)
    BY SortedOut
<1>2. /\ c.groupId = Or(a.groupId, Default) /\ c.artifactId = Or(a.artifactId, Default)
      /\ c.supportedServer = a.supportedServer
      /\ c.mpVersion = VersionOf(AsProject(a)) /\ c.javaSEVersion \in JavaVersions
      /\ a.javaSEVersion = Null /\ a.entry # "v1" =>
            c.javaSEVersion = JavaFor(a.supportedServer, VersionOf(AsProject(a)))
      /\ a.entry # "v1" => c.buildTool = Or(AsProject(a).buildTool, "MAVEN")
      /\ a.entry = "v1" => c.buildTool = a.buildTool
    BY CompletionParts
<1> HIDE DEF c, p
<1>3. /\ p.groupId = c.groupId /\ p.artifactId = c.artifactId /\ p.buildTool = c.buildTool
      /\ p.supportedServer = c.supportedServer /\ p.mpVersion = c.mpVersion
      /\ p.javaSEVersion = c.javaSEVersion
    BY <1>1 DEF Fields
<1>4. Null \notin {p.groupId, p.artifactId, p.supportedServer, p.mpVersion, p.javaSEVersion}
    <2>1. p.groupId # Null /\ p.artifactId # Null
        BY <1>2, <1>3, IllegalAssumption DEF Or, Names
    <2>2. p.supportedServer # Null /\ p.javaSEVersion # Null
        BY <1>1, <1>2, <1>3, NamesAssumption
    <2>3. p.mpVersion # Null
        BY <1>1, TablesTyped, NamesAssumption
    <2> QED
        BY <2>1, <2>2, <2>3
<1>5. p.buildTool = "MAVEN" \/ p.supportedServer \in GradleServers
        \/ (a.entry = "v1" /\ a.buildTool = Null)
    <2>1. ~GradleMissing(c)
        BY DEF Passes, FirstError, c
    <2>2. c.buildTool \in {"MAVEN", "GRADLE", Null}
        BY <1>1 DEF ProjectType
    <2>3. a.entry # "v1" => c.buildTool \in {"MAVEN", "GRADLE"}
        <3>1. AsProject(a).buildTool \in {"MAVEN", "GRADLE", Null}
            BY AsProjectTyped DEF ProjectType
        <3> QED
            BY <1>2, <3>1 DEF Or
    <2> QED
        BY <1>2, <1>3, <2>1, <2>2, <2>3 DEF GradleMissing
<1>6. a.entry # "v1" /\ a.javaSEVersion = Null =>
        p.javaSEVersion \in SupportedJava(p.supportedServer, p.mpVersion)
    BY <1>1, <1>2, <1>3, JavaChosen
<1> QED
    BY <1>1, <1>3, <1>4, <1>5, <1>6 DEF Definite, c, p
\* Its specs are those asked for.
LEMMA AcceptedAsAsked ==
    ASSUME NEW a \in Ask, Completes(a), Passes(Completion(a)), a.entry # "v1"
    PROVE  LET p == SortOut(Completion(a))
               named == Or(a.selectedSpecs, {}) \cup Or(a.standalone, {})
               enabled == {spec \in Standalone : IsEnabled(spec, p.supportedServer, p.mpVersion)}
           IN  /\ named \cap (Specs \cup enabled) \subseteq p.selectedSpecs \cup p.standalone
               /\ ~p.selectAllSpecs => p.selectedSpecs \cup p.standalone \subseteq named
               /\ p.selectAllSpecs /\ named = {} =>
                    p.selectedSpecs = SpecsIn(p.mpVersion) /\ p.standalone = enabled
<1> DEFINE c == Completion(a)
           p == SortOut(c)
           v == VersionOf(AsProject(a))
           codes == Or(a.selectedSpecs, {})
           sa == Or(a.standalone, {})
           enabled == {spec \in Standalone : IsEnabled(spec, a.supportedServer, v)}
<1>1. /\ \A f \in Fields \ {"selectedSpecs", "standalone"} : p[f] = c[f]
      /\ p.selectedSpecs = c.selectedSpecs \cap Specs
      /\ p.standalone = (c.standalone \cup (c.selectedSpecs \cap Standalone))
            \cap {spec \in Standalone : IsEnabled(spec, c.supportedServer, c.mpVersion)}
    BY SortedOut
<1>2. /\ c.supportedServer = a.supportedServer /\ c.mpVersion = v
      /\ c.selectedSpecs = Selection(AsProject(a), SpecsIn(v), codes)
      /\ c.standalone = Selection(AsProject(a), enabled, sa)
      /\ c.selectAllSpecs = a.selectAllSpecs
    BY CompletionParts
<1>3. AsProject(a).selectAllSpecs = a.selectAllSpecs
    BY DEF AsProject
<1>4. codes \subseteq Codes \cup {Illegal} /\ sa \subseteq Standalone
    BY DEF Ask, Or
<1>5. SpecsIn(v) \subseteq Specs /\ Specs \cap Standalone = {}
    BY TablesTyped, NamesAssumption
<1> HIDE DEF c, p, v, codes, sa
<1>6. /\ p.supportedServer = a.supportedServer /\ p.mpVersion = v
      /\ p.selectAllSpecs = a.selectAllSpecs
    BY <1>1, <1>2 DEF Fields
<1>7. p.standalone = (c.standalone \cup (c.selectedSpecs \cap Standalone)) \cap enabled
    BY <1>1, <1>2
<1> HIDE DEF enabled
<1>8. /\ codes # {} => c.selectedSpecs = codes
      /\ sa # {} => c.standalone = sa
      /\ ~a.selectAllSpecs => c.selectedSpecs = codes /\ c.standalone = sa
      /\ a.selectAllSpecs /\ codes = {} /\ sa = {} =>
            c.selectedSpecs = SpecsIn(v) /\ c.standalone = enabled
    BY <1>2, <1>3 DEF Selection
<1>9. (codes \cup sa) \cap (Specs \cup enabled) \subseteq p.selectedSpecs \cup p.standalone
    <2>1. enabled \subseteq Standalone
        BY DEF enabled
    <2>2. ASSUME NEW x \in codes, x \in Specs \cup enabled
          PROVE  x \in p.selectedSpecs \cup p.standalone
        <3>1. c.selectedSpecs = codes
            BY <1>8, <2>2
        <3> QED
            BY <1>1, <1>7, <2>1, <2>2, <3>1
    <2>3. ASSUME NEW x \in sa, x \in Specs \cup enabled
          PROVE  x \in p.selectedSpecs \cup p.standalone
        <3>1. c.standalone = sa
            BY <1>8, <2>3
        <3> QED
            BY <1>4, <1>5, <1>7, <2>3, <3>1
    <2> QED
        BY <2>2, <2>3
<1>10. ~a.selectAllSpecs => p.selectedSpecs \cup p.standalone \subseteq codes \cup sa
    BY <1>1, <1>7, <1>8
<1>11. a.selectAllSpecs /\ codes \cup sa = {} =>
            p.selectedSpecs = SpecsIn(v) /\ p.standalone = enabled
    <2>1. enabled \subseteq Standalone
        BY DEF enabled
    <2> QED
        BY <1>1, <1>5, <1>7, <1>8, <2>1
<1> QED
    BY <1>6, <1>9, <1>10, <1>11 DEF c, p, v, codes, sa, enabled

\* A request with nothing but a server gives validate no reason to refuse it.
LEMMA MinimalPasses ==
    ASSUME NEW a \in Ask, Completes(a), a.entry # "v1",
           a.supportedServer # Null, a.mpVersion = Null,
           a.selectedSpecs \in {Null, {}}, Illegal \notin {a.groupId, a.artifactId},
           a.buildTool # "GRADLE" \/ a.supportedServer \in GradleServers
    PROVE  Passes(Completion(a))
<1> DEFINE c == Completion(a)
           v == VersionOf(AsProject(a))
<1>1. /\ c.groupId = Or(a.groupId, Default) /\ c.artifactId = Or(a.artifactId, Default)
      /\ c.supportedServer = a.supportedServer /\ c.mpVersion = v
      /\ c.selectedSpecs = Selection(AsProject(a), SpecsIn(v), Or(a.selectedSpecs, {}))
      /\ c.buildTool = Or(AsProject(a).buildTool, "MAVEN")
    BY CompletionParts
<1>2. a.supportedServer \in Servers
    BY DEF Ask
<1>3. v = Latest(a.supportedServer)
    BY DEF VersionOf, AsProject, DefaultVersion
<1> HIDE DEF c, v
<1>4. ListsServer(c)
    BY <1>1, <1>2, <1>3, TablesTyped DEF ListsServer
<1>5. Illegal \notin {c.groupId, c.artifactId}
    BY <1>1, IllegalAssumption DEF Or, Names
<1>6. ~GradleMissing(c)
    <2>1. CASE a.entry = "v5"
        BY <1>1, <2>1 DEF AsProject, Or, GradleMissing
    <2>2. CASE a.entry # "v5"
        BY <1>1, <2>2 DEF AsProject, Or, GradleMissing
    <2> QED
        BY <2>1, <2>2
<1>7. c.selectedSpecs \subseteq SpecsIn(v)
    <2>1. Or(a.selectedSpecs, {}) = {}
        BY DEF Or
    <2> QED
        BY <1>1, <2>1 DEF Selection
<1>8. SpecError(c) = "none"
    BY <1>1, <1>7, TablesTyped, IllegalAssumption DEF SpecError, Codes
<1> QED
    BY <1>1, <1>4, <1>5, <1>6, <1>8 DEF Passes, FirstError, c
\* Projects with one tag differ in their standalone specs at most.
LEMMA TagsTell ==
    ASSUME NEW p \in ProjectType, NEW q \in ProjectType, Tag(p) = Tag(q)
    PROVE  [p EXCEPT !.standalone = {}] = [q EXCEPT !.standalone = {}]
<1>1. \A f \in Fields \ {"standalone"} : p[f] = q[f]
    <2> DEFINE Tagged == {"groupId", "artifactId", "mpVersion", "javaSEVersion",
                          "supportedServer", "buildTool", "selectedSpecs", "selectAllSpecs"}
    <2>1. \A f \in Tagged : Tag(p)[f] = p[f] /\ Tag(q)[f] = q[f]
        BY DEF Tag
    <2>2. Fields \ {"standalone"} = Tagged
        BY DEF Fields
    <2> QED
        BY <2>1, <2>2
<1> QED
    BY <1>1 DEF ProjectType, Fields

-----------------------------------------------------------------------------
(* The invariant *)

\* A step of one request leaves what is said of the others alone: they have not
\* shown the tag of an answer that is still to come.
Kept(q) ==
    \A r \in Requests \ {q} :
        /\ pc'[r] = pc[r] /\ ask'[r] = ask[r] /\ shown'[r] = shown[r]
        /\ project'[r] = project[r] /\ answer'[r] = answer[r] /\ delivered'[r] = delivered[r]

LEMMA OthersKept ==
    ASSUME NEW q \in Requests, IInv, pc[q] # "answered", Kept(q), UNCHANGED listsWhole
    PROVE  \A r \in Requests \ {q} : RequestInv(r)' /\ TagInv(r)'
<1> SUFFICES ASSUME NEW r \in Requests \ {q}
             PROVE  RequestInv(r)' /\ TagInv(r)'
    OBVIOUS
<1>1. RequestInv(r) /\ TagInv(r) /\ RequestInv(q)
    BY DEF IInv
<1>2. /\ pc'[r] = pc[r] /\ ask'[r] = ask[r] /\ shown'[r] = shown[r]
      /\ project'[r] = project[r] /\ answer'[r] = answer[r] /\ delivered'[r] = delivered[r]
    BY DEF Kept
<1>3. RequestInv(r)'
    <2>1. \A p : Refusals(p)' = Refusals(p)
        BY DEF Refusals
    <2>2. Accepted(r)' = Accepted(r)
        BY <1>2 DEF Accepted
    <2> QED
        BY <1>1, <1>2, <2>1, <2>2 DEF RequestInv
<1>4. ASSUME shown[r] # Null
      PROVE  /\ shown[r] \in Requests /\ answer[shown[r]] = "zip"
             /\ answer'[shown[r]] = "zip" /\ delivered'[shown[r]] = delivered[shown[r]]
    <2>1. shown[r] \in Requests /\ answer[shown[r]] = "zip"
        BY <1>1, <1>4 DEF TagInv
    <2>2. answer[q] = Null
        BY <1>1 DEF RequestInv
    <2>3. shown[r] # q
        BY <2>1, <2>2, AnswersAssumption DEF Answers
    <2> QED
        BY <2>1, <2>3 DEF Kept
<1>5. Matches(r)' = Matches(r)
    <2>1. CASE shown[r] = Null
        BY <1>2, <2>1 DEF Matches
    <2>2. CASE shown[r] # Null
        BY <1>2, <1>4, <2>2 DEF Matches, Tag
    <2> QED
        BY <2>1, <2>2
<1>6. TagInv(r)'
    BY <1>1, <1>2, <1>4, <1>5 DEF TagInv
<1> QED
    BY <1>3, <1>6
LEMMA InitInv == Init => IInv
<1> SUFFICES ASSUME Init PROVE IInv
    OBVIOUS
<1>1. Functions
    BY DEF Init, Functions, Stages
<1>2. ASSUME NEW r \in Requests
      PROVE  pc[r] = "new" /\ ask[r] = Null /\ shown[r] = Null /\ answer[r] = Null
    BY DEF Init
<1>3. ASSUME NEW r \in Requests
      PROVE  RequestInv(r) /\ TagInv(r)
    BY <1>2, AnswersAssumption DEF RequestInv, TagInv, Accepted, Answers, Errors
<1> QED
    BY <1>1, <1>3 DEF IInv

LEMMA SendStep ==
    ASSUME IInv, NEW q \in Requests, Send(q)
    PROVE  IInv'
<1>1. PICK a \in AsksOf[q], t \in {t \in Requests : answer[t] = "zip"} \cup {Null} :
        /\ ask' = [ask EXCEPT ![q] = a]
        /\ project' = [project EXCEPT ![q] = AsProject(a)]
        /\ shown' = [shown EXCEPT ![q] = t]
    BY DEF Send
<1>2. pc[q] = "new" /\ pc' = [pc EXCEPT ![q] = "sent"] /\ UNCHANGED <<answer, delivered, listsWhole>>
    BY DEF Send, Goto
<1>3. Functions'
    BY <1>1, <1>2 DEF IInv, Functions, Stages
<1>4. Kept(q)
    BY <1>1, <1>2 DEF IInv, Functions, Kept
<1>5. \A r \in Requests \ {q} : RequestInv(r)' /\ TagInv(r)'
    BY <1>2, <1>4, OthersKept
<1>6. /\ pc'[q] = "sent" /\ ask'[q] = a /\ shown'[q] = t
      /\ project'[q] = AsProject(a) /\ answer'[q] = Null
    <2>1. answer[q] = Null
        BY <1>2 DEF IInv, RequestInv
    <2> QED
        BY <1>1, <1>2, <2>1 DEF IInv, Functions
<1>7. RequestInv(q)'
    BY <1>6, AnswersAssumption DEF RequestInv, Accepted, Answers, Errors
<1>8. TagInv(q)'
    <2>1. t # Null => t \in Requests /\ answer'[t] = "zip"
        BY <1>2
    <2> QED
        BY <1>6, <2>1, AnswersAssumption DEF TagInv, Answers
<1> QED
    BY <1>3, <1>5, <1>7, <1>8 DEF IInv

\* What the other steps of a request have in common
LEMMA OwnStep ==
    ASSUME IInv, NEW q \in Requests, pc[q] # "answered",
           UNCHANGED <<ask, shown, listsWhole>>,
           NEW stage \in Stages, pc' = [pc EXCEPT ![q] = stage],
           NEW p, project' = [project EXCEPT ![q] = p],
           NEW status \in Answers \cup {Null}, answer' = [answer EXCEPT ![q] = status],
           NEW d, delivered' = [delivered EXCEPT ![q] = d],
           status = "zip" => d = p,
           status = "304" => Tag(p) = Tag(delivered[shown[q]]) /\ shown[q] # Null,
           RequestInv(q)'
    PROVE  IInv'
<1>1. Functions'
    BY DEF IInv, Functions
<1>2. Kept(q)
    BY DEF IInv, Functions, Kept
<1>3. \A r \in Requests \ {q} : RequestInv(r)' /\ TagInv(r)'
    BY <1>2, OthersKept
<1>4. /\ shown'[q] = shown[q] /\ project'[q] = p /\ answer'[q] = status /\ delivered'[q] = d
    BY DEF IInv, Functions
<1>5. shown[q] # Null => /\ shown[q] \in Requests /\ answer'[shown[q]] = "zip"
                        /\ delivered'[shown[q]] = delivered[shown[q]]
    <2>1. shown[q] # Null => shown[q] \in Requests /\ answer[shown[q]] = "zip"
        BY DEF IInv, TagInv
    <2>2. answer[q] = Null
        BY DEF IInv, RequestInv
    <2>3. shown[q] # q \/ shown[q] = Null
        BY <2>1, <2>2, AnswersAssumption DEF Answers
    <2> QED
        BY <1>2, <2>1, <2>3 DEF Kept
<1>6. TagInv(q)'
    <2>1. status = "304" => Matches(q)'
        BY <1>4, <1>5 DEF Matches, Tag
    <2> QED
        BY <1>4, <1>5, <2>1 DEF TagInv
<1> QED
    BY <1>1, <1>3, <1>6 DEF IInv
\* The project of a request that goes through the defaults
LEMMA CompletedStep ==
    ASSUME IInv, NEW q \in Requests, pc[q] = "sent", NEW p, Completes(ask[q]),
           p = Completion(ask[q]), project' = [project EXCEPT ![q] = p],
           pc' = [pc EXCEPT ![q] = "complete"],
           UNCHANGED <<answer, ask, shown, delivered, listsWhole>>
    PROVE  IInv'
<1>1. /\ answer[q] = Null /\ ask[q] \in AsksOf[q]
      /\ answer' = [answer EXCEPT ![q] = Null] /\ delivered' = [delivered EXCEPT ![q] = delivered[q]]
    BY DEF IInv, Functions, RequestInv
<1>2. /\ pc'[q] = "complete" /\ ask'[q] = ask[q] /\ project'[q] = p /\ answer'[q] = Null
    BY <1>1 DEF IInv, Functions
<1>3. RequestInv(q)'
    BY <1>1, <1>2, AnswersAssumption DEF RequestInv, Accepted, Answers, Errors
<1>4. "complete" \in Stages /\ Null # "zip" /\ Null # "304"
    BY AnswersAssumption DEF Stages, Answers
<1> QED
    BY <1>1, <1>3, <1>4, OwnStep

\* A request that fails, or is refused for a reason
LEMMA AnsweredStep ==
    ASSUME IInv, NEW q \in Requests, pc[q] \notin {"new", "answered"},
           NEW status \in Errors \cup {"500"}, Answered(q, status), NEW p,
           project' = [project EXCEPT ![q] = p],
           status # "500" => Completes(ask[q]) /\ status \in Refusals(Completion(ask[q])),
           UNCHANGED <<ask, shown, delivered, listsWhole>>
    PROVE  IInv'
<1>1. /\ ask[q] \in AsksOf[q] /\ pc' = [pc EXCEPT ![q] = "answered"]
      /\ answer' = [answer EXCEPT ![q] = status] /\ delivered' = [delivered EXCEPT ![q] = delivered[q]]
    BY DEF IInv, Functions, RequestInv, Answered, Goto
<1>2. pc'[q] = "answered" /\ ask'[q] = ask[q] /\ answer'[q] = status
    BY <1>1 DEF IInv, Functions
<1>3. Refusals(Completion(ask[q]))' = Refusals(Completion(ask[q]))
    BY DEF Refusals
<1>4. status \in Answers /\ status \notin {"zip", "304"} /\ "500" \notin Errors
    BY DEF Answers, Errors
<1>5. RequestInv(q)'
    BY <1>1, <1>2, <1>3, <1>4 DEF RequestInv, Accepted
<1>6. "answered" \in Stages
    BY DEF Stages
<1> QED
    BY <1>1, <1>4, <1>5, <1>6, OwnStep

\* An accepted request goes on with the project it has.
LEMMA AcceptedStep ==
    ASSUME IInv, NEW q \in Requests, pc[q] \in {"valid", "logged"},
           NEW stage \in Stages, pc' = [pc EXCEPT ![q] = stage],
           NEW status \in Answers \cup {Null}, answer' = [answer EXCEPT ![q] = status],
           \/ stage = "logged" /\ status = Null
           \/ stage = "answered" /\ status \in {"zip", "304"},
           NEW d, delivered' = [delivered EXCEPT ![q] = d], status = "zip" => d = project[q],
           status = "304" => Matches(q),
           UNCHANGED <<ask, shown, project, listsWhole>>
    PROVE  IInv'
<1>1. /\ ask[q] \in AsksOf[q] /\ Accepted(q) /\ project' = [project EXCEPT ![q] = project[q]]
      /\ Completes(ask[q]) /\ Passes(Completion(ask[q]))
      /\ project[q] = SortOut(Completion(ask[q]))
    BY DEF IInv, Functions, RequestInv, Accepted
<1>2. pc'[q] = stage /\ ask'[q] = ask[q] /\ answer'[q] = status /\ project'[q] = project[q]
    BY DEF IInv, Functions
<1>3. status \notin Errors
    BY AnswersAssumption DEF Answers, Errors
<1>4. RequestInv(q)'
    <2>1. pc'[q] # "new" /\ pc'[q] # "sent" /\ pc'[q] # "complete"
        BY <1>2
    <2>2. /\ pc'[q] # "answered" => status = Null
          /\ pc'[q] = "answered" => status \in Answers
        BY <1>2 DEF Answers
    <2>3. Passes(Completion(ask[q]))' = Passes(Completion(ask[q]))
        BY DEF Passes
    <2> QED
        BY <1>1, <1>2, <1>3, <2>1, <2>2, <2>3 DEF RequestInv
<1>5. status = "304" => Tag(project[q]) = Tag(delivered[shown[q]]) /\ shown[q] # Null
    BY DEF Matches
<1> QED
    BY <1>1, <1>4, <1>5, OwnStep

LEMMA DefaultsStep ==
    ASSUME IInv, NEW q \in Requests, SetDefaultsV1(q) \/ SetDefaults(q)
    PROVE  IInv'
<1>1. pc[q] = "sent" /\ project[q] = AsProject(ask[q])
    BY DEF SetDefaultsV1, SetDefaults, IInv, RequestInv
<1>2. UNCHANGED <<ask, shown, delivered, listsWhole>>
    BY DEF SetDefaultsV1, SetDefaults
<1>3. CASE Answered(q, "500") /\ UNCHANGED project
    <2>1. project' = [project EXCEPT ![q] = project[q]]
        BY <1>3 DEF IInv, Functions
    <2> QED
        BY <1>1, <1>2, <1>3, <2>1, AnsweredStep
<1>4. CASE /\ Completes(ask[q]) /\ project' = [project EXCEPT ![q] = Completion(ask[q])]
           /\ Goto(q, "complete") /\ UNCHANGED answer
    BY <1>1, <1>2, <1>4, CompletedStep DEF Goto
<1> QED
    BY <1>1, <1>3, <1>4 DEF SetDefaultsV1, SetDefaults, Completion, Completes

LEMMA ValidateStep ==
    ASSUME IInv, NEW q \in Requests, Validate(q)
    PROVE  IInv'
<1> DEFINE p == project[q]
<1>1. /\ pc[q] = "complete" /\ Completes(ask[q]) /\ p = Completion(ask[q])
      /\ ask[q] \in AsksOf[q] /\ answer[q] = Null
    BY DEF Validate, IInv, RequestInv
<1>2. UNCHANGED <<ask, shown, delivered, listsWhole>>
    BY DEF Validate
<1>3. FirstError(p) \in Errors \cup {"none"} /\ SpecError(p) \in Errors \cup {"none"}
      /\ "none" \notin Errors \cup {"500"} /\ "ERROR002" \in Errors /\ "500" \notin Errors
    BY DEF FirstError, SpecError, Errors
<1>4. project' = project => project' = [project EXCEPT ![q] = p]
    BY DEF IInv, Functions
<1>5. CASE FirstError(p) # "none" /\ Answered(q, FirstError(p)) /\ UNCHANGED project
    <2>1. FirstError(p) \in Refusals(Completion(ask[q]))
        BY <1>1 DEF Refusals
    <2> QED
        BY <1>1, <1>2, <1>3, <1>4, <1>5, <2>1, AnsweredStep
<1>6. CASE (ListsServer(p) => ~listsWhole) /\ Answered(q, "ERROR002") /\ UNCHANGED project
    <2>1. "ERROR002" \in Refusals(Completion(ask[q]))
        BY <1>1, <1>6 DEF Refusals
    <2> QED
        BY <1>1, <1>2, <1>3, <1>4, <1>6, <2>1, AnsweredStep
<1>7. CASE /\ project' = [project EXCEPT ![q] = SortOut(p)]
           /\ SpecError(p) # "none" /\ Answered(q, SpecError(p))
    <2>1. SpecError(p) \in Refusals(Completion(ask[q]))
        BY <1>1 DEF Refusals
    <2> QED
        BY <1>1, <1>2, <1>3, <1>7, <2>1, AnsweredStep
<1>8. CASE /\ FirstError(p) = "none" /\ ListsServer(p)
           /\ project' = [project EXCEPT ![q] = SortOut(p)]
           /\ SpecError(p) = "none" /\ Goto(q, "valid") /\ UNCHANGED answer
    <2>1. /\ pc' = [pc EXCEPT ![q] = "valid"] /\ answer' = [answer EXCEPT ![q] = Null]
          /\ delivered' = [delivered EXCEPT ![q] = delivered[q]]
        BY <1>1, <1>2, <1>8 DEF IInv, Functions, Goto
    <2>2. /\ pc'[q] = "valid" /\ ask'[q] = ask[q] /\ answer'[q] = Null
          /\ project'[q] = SortOut(Completion(ask[q]))
        BY <1>1, <1>2, <1>8, <2>1 DEF IInv, Functions
    <2>3. RequestInv(q)'
        BY <1>1, <1>8, <2>2, AnswersAssumption DEF RequestInv, Accepted, Passes, Answers, Errors
    <2>4. "valid" \in Stages /\ Null # "zip" /\ Null # "304"
        BY AnswersAssumption DEF Stages, Answers
    <2> QED
        BY <1>1, <1>2, <1>8, <2>1, <2>3, <2>4, OwnStep
<1> QED
    BY <1>5, <1>6, <1>7, <1>8 DEF Validate

LEMMA AnswerStep ==
    ASSUME IInv, NEW q \in Requests, SubmitLog(q) \/ NotModified(q) \/ Deliver(q)
    PROVE  IInv'
<1>1. /\ pc[q] \in {"valid", "logged"} /\ answer[q] = Null
      /\ UNCHANGED <<ask, shown, project, listsWhole>>
    BY DEF SubmitLog, NotModified, Deliver, IInv, RequestInv
<1>2. /\ project' = [project EXCEPT ![q] = project[q]]
      /\ delivered' = delivered => delivered' = [delivered EXCEPT ![q] = delivered[q]]
      /\ answer' = answer => answer' = [answer EXCEPT ![q] = Null]
    BY <1>1 DEF IInv, Functions
<1>3. {"logged", "answered"} \subseteq Stages /\ {"zip", "304"} \subseteq Answers
      /\ Null \notin {"zip", "304"}
    BY AnswersAssumption DEF Stages, Answers
<1>4. CASE Goto(q, "logged") /\ UNCHANGED <<answer, delivered>>
    <2>1. /\ pc' = [pc EXCEPT ![q] = "logged"] /\ answer' = [answer EXCEPT ![q] = Null]
          /\ delivered' = [delivered EXCEPT ![q] = delivered[q]]
        BY <1>2, <1>4 DEF Goto
    <2> QED
        BY <1>1, <1>3, <2>1, AcceptedStep
<1>5. CASE Answered(q, "500") /\ UNCHANGED delivered
    BY <1>1, <1>2, <1>5, AnsweredStep
<1>6. CASE NotModified(q)
    <2>1. /\ pc' = [pc EXCEPT ![q] = "answered"] /\ answer' = [answer EXCEPT ![q] = "304"]
          /\ delivered' = [delivered EXCEPT ![q] = delivered[q]] /\ Matches(q)
        BY <1>2, <1>6 DEF NotModified, Answered, Goto
    <2>2. "answered" \in Stages /\ "304" \in Answers \cup {Null} /\ "304" \in {"zip", "304"}
        BY <1>3
    <2>3. "304" = "zip" => delivered[q] = project[q]
        OBVIOUS
    <2> QED
        BY <1>1, <2>1, <2>2, <2>3, AcceptedStep
<1>7. CASE Answered(q, "zip") /\ delivered' = [delivered EXCEPT ![q] = project[q]]
    <2>1. /\ pc' = [pc EXCEPT ![q] = "answered"] /\ answer' = [answer EXCEPT ![q] = "zip"]
          /\ delivered' = [delivered EXCEPT ![q] = project[q]]
        BY <1>7 DEF Answered, Goto
    <2>2. "answered" \in Stages /\ "zip" \in Answers \cup {Null} /\ "zip" \in {"zip", "304"}
        BY <1>3
    <2>3. "zip" = "304" => Matches(q)
        OBVIOUS
    <2> QED
        BY <1>1, <2>1, <2>2, <2>3, AcceptedStep
<1> QED
    BY <1>4, <1>5, <1>6, <1>7 DEF SubmitLog, Deliver

\* Once calls have overlapped on the lists, there is one more reason to refuse.
LEMMA RaceStep ==
    ASSUME IInv, Race
    PROVE  IInv'
<1>1. UNCHANGED <<pc, ask, shown, project, answer, delivered>> /\ listsWhole' = FALSE
    BY DEF Race
<1>2. \A p : Refusals(p) \subseteq Refusals(p)'
    BY <1>1 DEF Refusals
<1>3. ASSUME NEW r \in Requests
      PROVE  RequestInv(r)' /\ TagInv(r)'
    <2>1. RequestInv(r) /\ TagInv(r)
        BY DEF IInv
    <2>2. RequestInv(r)'
        BY <1>1, <1>2, <2>1 DEF RequestInv, Accepted
    <2>3. TagInv(r)'
        BY <1>1, <2>1 DEF TagInv, Matches, Tag
    <2> QED
        BY <2>2, <2>3
<1> QED
    BY <1>1, <1>3 DEF IInv, Functions

LEMMA NextInv == IInv /\ [Next]_vars => IInv'
<1> SUFFICES ASSUME IInv, [Next]_vars PROVE IInv'
    OBVIOUS
<1>1. ASSUME NEW r \in Requests, Handle(r) PROVE IInv'
    BY <1>1, SendStep, DefaultsStep, ValidateStep, AnswerStep DEF Handle, Process
<1>2. CASE Race
    BY <1>2, RaceStep
<1>3. CASE UNCHANGED vars
    BY <1>3 DEF vars, IInv, Functions, RequestInv, TagInv, Accepted, Refusals, Matches, Tag
<1> QED
    BY <1>1, <1>2, <1>3 DEF Next, Quiet

\* What the invariant says of a request that has been accepted
LEMMA AcceptedHas ==
    ASSUME IInv, NEW r \in Requests, Accepted(r)
    PROVE  /\ ask[r] \in Ask /\ Completes(ask[r]) /\ Passes(Completion(ask[r]))
           /\ project[r] = SortOut(Completion(ask[r]))
<1>1. /\ Completes(ask[r]) /\ Passes(Completion(ask[r]))
      /\ project[r] = SortOut(Completion(ask[r]))
    BY DEF IInv, RequestInv
<1>2. pc[r] # "new"
    BY AnswersAssumption DEF IInv, RequestInv, Accepted, Answers
<1> QED
    BY <1>1, <1>2, AsksAssumption DEF IInv, RequestInv

\* The inductive invariant: a project is what its request is completed to and
\* sorted out, and a 304 has a tag behind it.
THEOREM RestInvariant == Spec => []IInv
<1> QED
    BY InitInv, NextInv, PTL DEF Spec

-----------------------------------------------------------------------------
(* The properties *)

\* Whatever a client sends, what reaches the generator is complete and offered.
THEOREM Offering == Spec => []GeneratedIsOffered
<1>1. ASSUME IInv PROVE GeneratedIsOffered
    <2> SUFFICES ASSUME NEW r \in Requests, Accepted(r)
                 PROVE  LET p == project[r] IN
                        /\ Definite(p)
                        /\ p.mpVersion \in Offered(p.supportedServer)
                        /\ p.selectedSpecs \subseteq SpecsIn(p.mpVersion)
                        /\ \A spec \in p.standalone :
                                IsEnabled(spec, p.supportedServer, p.mpVersion)
                        /\ p.buildTool = "MAVEN" \/ p.supportedServer \in GradleServers
                              \/ (ask[r].entry = "v1" /\ ask[r].buildTool = Null)
        BY DEF GeneratedIsOffered
    <2>1. /\ ask[r] \in Ask /\ Completes(ask[r]) /\ Passes(Completion(ask[r]))
          /\ project[r] = SortOut(Completion(ask[r]))
        BY <1>1, AcceptedHas
    <2> QED
        BY <2>1, AcceptedIsOffered
<1> QED
    BY <1>1, RestInvariant, PTL

\* What a client leaves open is given a value that validate and the server accept.
THEOREM Usability == Spec => []DefaultsUsable
<1>1. ASSUME IInv PROVE DefaultsUsable
    <2> SUFFICES ASSUME NEW r \in Requests
                 PROVE  /\ Minimal(r) /\ listsWhole => answer[r] \notin Errors
                        /\ Accepted(r) /\ ask[r].entry # "v1" /\ ask[r].javaSEVersion = Null =>
                                project[r].javaSEVersion \in
                                    SupportedJava(project[r].supportedServer, project[r].mpVersion)
        BY DEF DefaultsUsable
    <2>1. ASSUME Minimal(r), listsWhole, answer[r] \in Errors
          PROVE  FALSE
        <3>1. /\ Completes(ask[r]) /\ answer[r] \in Refusals(Completion(ask[r]))
              /\ ask[r] # Null
            BY <1>1, <2>1 DEF IInv, RequestInv, Minimal
        <3>2. ask[r] \in Ask
            BY <1>1, <3>1, AsksAssumption DEF IInv, RequestInv
        <3>3. Passes(Completion(ask[r]))
            BY <2>1, <3>1, <3>2, MinimalPasses DEF Minimal
        <3> QED
            BY <2>1, <3>1, <3>3 DEF Passes, Refusals, Errors
    <2>2. ASSUME Accepted(r), ask[r].entry # "v1", ask[r].javaSEVersion = Null
          PROVE  project[r].javaSEVersion \in
                    SupportedJava(project[r].supportedServer, project[r].mpVersion)
        <3>1. /\ ask[r] \in Ask /\ Completes(ask[r]) /\ Passes(Completion(ask[r]))
              /\ project[r] = SortOut(Completion(ask[r]))
            BY <1>1, <2>2, AcceptedHas
        <3> QED
            BY <2>2, <3>1, AcceptedIsOffered
    <2> QED
        BY <2>1, <2>2
<1> QED
    BY <1>1, RestInvariant, PTL

\* From v3 on, the specs of a project are those its request names, or all of
\* them if it names none and sets selectAllSpecs.
THEOREM AsAsked == Spec => []SpecsAsAsked
<1>1. ASSUME IInv PROVE SpecsAsAsked
    <2>1. ASSUME NEW r \in Requests, Accepted(r), ask[r].entry # "v1"
          PROVE  /\ ask[r] \in Ask /\ Completes(ask[r]) /\ Passes(Completion(ask[r]))
                 /\ project[r] = SortOut(Completion(ask[r]))
        BY <1>1, <2>1, AcceptedHas
    <2> QED
        BY <2>1, AcceptedAsAsked DEF SpecsAsAsked
<1> QED
    BY <1>1, RestInvariant, PTL

\* Who is told "304 Not Modified" holds the project, up to its standalone specs.
THEOREM NotModifiedHolds == Spec => []NotModifiedUpToStandalone
<1>1. ASSUME IInv PROVE NotModifiedUpToStandalone
    <2> SUFFICES ASSUME NEW r \in Requests, answer[r] = "304"
                 PROVE  [delivered[shown[r]] EXCEPT !.standalone = {}]
                            = [project[r] EXCEPT !.standalone = {}]
        BY DEF NotModifiedUpToStandalone
    <2> DEFINE q == shown[r]
    <2>1. /\ q \in Requests /\ answer[q] = "zip" /\ delivered[q] = project[q]
          /\ Tag(delivered[q]) = Tag(project[r])
        BY <1>1 DEF IInv, TagInv, Matches
    <2>2. \A x \in {q, r} : project[x] \in ProjectType
        <3> SUFFICES ASSUME NEW x \in {q, r} PROVE project[x] \in ProjectType
            OBVIOUS
        <3>1. x \in Requests /\ Accepted(x)
            BY <2>1 DEF Accepted
        <3>2. /\ ask[x] \in Ask /\ Completes(ask[x]) /\ Passes(Completion(ask[x]))
              /\ project[x] = SortOut(Completion(ask[x]))
            BY <1>1, <3>1, AcceptedHas
        <3> QED
            BY <3>2, SortedOut
    <2> QED
        BY <2>1, <2>2, TagsTell
<1> QED
    BY <1>1, RestInvariant, PTL
===============================================================================
