------------------------------ MODULE ProjectForm -----------------------------
(***************************************************************************)
(* The web form: index.xhtml and its view scoped bean GeneratorDataBean.   *)
(* Each choice of the user is an AJAX call that processes the component    *)
(* used and recomputes what the others offer; in which order the user      *)
(* fills in the form is open.  The download button submits the whole form. *)
(*                                                                         *)
(* Whether JSF hands a blank version on as null or as an empty string      *)
(* makes no difference to the bean's state: with a server chosen, the      *)
(* latter ends defineJavaSEVersion with an exception where the former      *)
(* skips its body, and neither changes anything after javaSEEnabled.  Both *)
(* are Null here.  What the exception does to the page is in FormPage.     *)
(***************************************************************************)
EXTENDS Catalogue

\* A menu that has been computed is not null.
ASSUME MenusAssumption ==
    \A items \in (SUBSET Specs) \cup (SUBSET Standalone) \cup (SUBSET JavaVersions) :
        items # Null

VARIABLES
    mpVersion,          \* engineData.mpVersion
    microProfileVersion,\* the bean's own copy of it
    supportedServer,    \* engineData.supportedServer
    buildTool,          \* engineData.buildTool
    javaSEVersion,      \* engineData.javaSEVersion
    javaSEEnabled,
    javaSEItems,        \* the items of the menus and boxes; Null before they
    supportedServerItems, \* are computed for the first time
    specs,
    standaloneSpecs,
    selectedSpecs,
    selectedStandaloneSpecs,
    generated           \* the JessieModel that this step generates, Null if none

choices == <<mpVersion, microProfileVersion, supportedServer, buildTool,
             supportedServerItems>>
java == <<javaSEVersion, javaSEEnabled, javaSEItems>>
examples == <<specs, selectedSpecs>>
standalone == <<standaloneSpecs, selectedStandaloneSpecs>>
vars == <<choices, java, examples, standalone, generated>>

-----------------------------------------------------------------------------
(* What the handlers are made of.  Each operator takes the values that its  *)
(* method reads.                                                            *)

\* Fault: a server is listed for its latest version only.
ServerItemsOfLatest(version, tool) ==
    {s \in Servers : /\ version \in {Null, Latest(s)}
                     /\ tool = "Gradle" => s \in GradleServers}
\* Fault: the choice of Gradle does not restrict the servers.
ServerItemsForAnyTool(version, tool) ==
    {s \in Servers : version = Null \/ version \in Offered(s)}
\* defineSupportedServerItems, without its random order
ServerItems(version, tool) ==
    {s \in Servers : /\ version = Null \/ version \in Offered(s)
                     /\ tool = "Gradle" => s \in GradleServers}

\* Fault: every new list forgets the server.
ServerForgotten(items, s) == Null
\* ... and the server, which it drops when it is not in the list.
ServerKept(items, s) == IF s \in items THEN s ELSE Null

\* Fault: what was selected stays selected.
SelectionKept(selected, items) == selected
\* If the spec is currently selected, keep it, unless it is not listed anymore.
Retain(selected, items) == selected \cap items

SpecItems(version) == IF version = Null THEN {} ELSE SpecsIn(version)

\* standaloneSpecForVersion; its test of the minimal version is the other way
\* round than that of isEnabled.
ShownForVersion(spec, version) ==
    \E i \in DOMAIN Restrictions[spec] :
        LET min == Restrictions[spec][i].min IN
        min = Null \/ (version # Null /\ Ordinal[min] > Ordinal[version])

\* isEnabled dereferences the version only for a restriction that has a minimum.
EnabledFor(spec, s, version) ==
    IF version = Null
    THEN \E i \in DOMAIN Restrictions[spec] : Restrictions[spec][i] = [server |-> s, min |-> Null]
    ELSE IsEnabled(spec, s, version)

StandaloneItems(s, version) ==
    {spec \in Standalone : /\ s # Null
                           /\ ShownForVersion(spec, version)
                           /\ EnabledFor(spec, s, version)}

DefineExampleSpecs(version) ==
    /\ specs' = SpecItems(version)
    /\ selectedSpecs' = Retain(selectedSpecs, SpecItems(version))

DefineStandaloneExampleSpecs(s, version) ==
    /\ standaloneSpecs' = StandaloneItems(s, version)
    /\ selectedStandaloneSpecs' = Retain(selectedStandaloneSpecs, StandaloneItems(s, version))

\* Fault: the Java version is left as it was.
KeepJava(s, version) ==
    /\ javaSEEnabled' = (Cardinality(SupportedJava(s, version)) > 1)
    /\ javaSEItems' = SupportedJava(s, version)
    /\ UNCHANGED javaSEVersion
\* With a choice of Java versions the menu is enabled, else it shows the only one.
OfferJava(s, version) ==
    LET versions == SupportedJava(s, version) IN
    /\ javaSEItems' = versions
    /\ \/ /\ Cardinality(versions) > 1
          /\ javaSEEnabled' = TRUE
          /\ UNCHANGED javaSEVersion
       \/ /\ Cardinality(versions) = 1
          /\ javaSEEnabled' = FALSE
          /\ javaSEVersion' \in versions

\* Fault: the Java version is cleared with its menu.
ForgetJavaSEVersion(s, version) ==
    IF s # Null /\ version # Null THEN OfferJava(s, version)
    ELSE /\ javaSEEnabled' = FALSE
         /\ javaSEVersion' = Null
         /\ UNCHANGED javaSEItems
DefineJavaSEVersion(s, version) ==
    \/ /\ s # Null /\ version # Null
       /\ OfferJava(s, version)
    \/ /\ s = Null \/ version = Null
       /\ javaSEEnabled' = FALSE
       /\ UNCHANGED <<javaSEVersion, javaSEItems>>

\* onMPVersionSelected with version in mpVersion and s in supportedServer
MPVersionSelected(version, s) ==
    LET items == ServerItems(version, buildTool) IN
    /\ microProfileVersion' = version
    /\ DefineExampleSpecs(version)
    /\ supportedServerItems' = items
    /\ supportedServer' = ServerKept(items, s)
    /\ DefineStandaloneExampleSpecs(ServerKept(items, s), version)
    /\ DefineJavaSEVersion(ServerKept(items, s), version)

-----------------------------------------------------------------------------
(* The form *)

Init ==
    /\ mpVersion = Null
    /\ microProfileVersion = Null
    /\ supportedServer = Null
    /\ buildTool = "Maven"
    /\ javaSEVersion = DefaultJava
    /\ javaSEEnabled = FALSE
    /\ javaSEItems = Null
    /\ supportedServerItems = ServerItems(Null, "Maven")
    /\ specs = Null
    /\ standaloneSpecs = Null
    /\ selectedSpecs = {}
    /\ selectedStandaloneSpecs = {}
    /\ generated = Null

\* DataBean lists the versions that some server implements, and a blank one.
VersionItems == {v \in Versions : \E s \in Servers : v \in Offered(s)} \cup {Null}

SelectMPVersion ==
    \E version \in VersionItems :
        /\ mpVersion' = version
        /\ MPVersionSelected(version, supportedServer)
        /\ UNCHANGED buildTool

\* The radio buttons are disabled for a server without Gradle.
SelectBuildTool ==
    /\ supportedServer = Null \/ supportedServer \in GradleServers
    /\ \E tool \in {"Maven", "Gradle"} :
        LET items == ServerItems(mpVersion, tool) IN
        /\ buildTool' = tool
        /\ microProfileVersion' = mpVersion
        /\ supportedServerItems' = items
        /\ supportedServer' = ServerKept(items, supportedServer)
    /\ UNCHANGED <<mpVersion, java, examples, standalone>>

\* handleGradleSupport
ToolFor(s) == IF s = Null \/ s \in GradleServers THEN buildTool ELSE "Maven"

\* onMPRuntimeSelected with a version: only what depends on the server changes.
SelectRuntime ==
    /\ mpVersion # Null
    /\ \E s \in supportedServerItems :
        /\ supportedServer' = s
        /\ DefineStandaloneExampleSpecs(s, microProfileVersion)
        /\ DefineJavaSEVersion(s, mpVersion)
        /\ buildTool' = ToolFor(s)
    /\ UNCHANGED <<mpVersion, microProfileVersion, supportedServerItems, examples>>

\* Without one, the latest version of the server is taken, as if it had been
\* selected.
SelectRuntimeFirst ==
    /\ mpVersion = Null
    /\ \E s \in supportedServerItems :
        /\ mpVersion' = Latest(s)
        /\ MPVersionSelected(Latest(s), s)
        /\ buildTool' = ToolFor(supportedServer')

\* The boxes are disabled without a version.
CheckSpecs ==
    /\ mpVersion # Null
    /\ \E spec \in specs :
        selectedSpecs' \in {selectedSpecs \cup {spec}, selectedSpecs \ {spec}}
    /\ UNCHANGED <<choices, java, specs, standalone>>

CheckStandaloneSpecs ==
    /\ standaloneSpecs # Null
    /\ \E spec \in standaloneSpecs :
        selectedStandaloneSpecs' \in {selectedStandaloneSpecs \cup {spec},
                                      selectedStandaloneSpecs \ {spec}}
    /\ UNCHANGED <<choices, java, examples, standaloneSpecs>>

\* The links are there as soon as there is a version.
SelectAll ==
    /\ mpVersion # Null
    /\ selectedSpecs' = specs
    /\ selectedStandaloneSpecs' = standaloneSpecs
    /\ UNCHANGED <<choices, java, specs, standaloneSpecs>>

UnselectAll ==
    /\ mpVersion # Null
    /\ selectedSpecs' = {}
    /\ selectedStandaloneSpecs' = {}
    /\ UNCHANGED <<choices, java, specs, standaloneSpecs>>

\* The whole form is submitted: a server is required, and one of the Java
\* versions in the menu when it is enabled.  With a blank version the
\* generation ends in an error message.
GenerateProject ==
    /\ supportedServer # Null
    /\ \/ javaSEEnabled /\ javaSEVersion' \in javaSEItems
       \/ ~javaSEEnabled /\ UNCHANGED javaSEVersion
    /\ generated' =
        IF mpVersion = Null THEN Null
        ELSE [server |-> supportedServer, version |-> mpVersion, java |-> javaSEVersion',
              tool |-> buildTool, specs |-> selectedSpecs, standalone |-> selectedStandaloneSpecs]
    /\ UNCHANGED <<mpVersion, microProfileVersion, supportedServer, buildTool,
                   supportedServerItems, javaSEEnabled, javaSEItems, examples, standalone>>

Next ==
    \/ /\ \/ SelectMPVersion \/ SelectBuildTool \/ SelectRuntime \/ SelectRuntimeFirst
          \/ CheckSpecs \/ CheckStandaloneSpecs \/ SelectAll \/ UnselectAll
       /\ generated' = Null
    \/ GenerateProject

Spec == Init /\ [][Next]_vars

-----------------------------------------------------------------------------
(* Properties *)

Model == [server : Servers, version : Versions, java : JavaVersions,
          tool : {"Maven", "Gradle"}, specs : SUBSET Specs, standalone : SUBSET Standalone]

TypeOK ==
    /\ {mpVersion, microProfileVersion} \subseteq Versions \cup {Null}
    /\ supportedServer \in Servers \cup {Null}
    /\ buildTool \in {"Maven", "Gradle"}
    /\ javaSEVersion \in JavaVersions
    /\ javaSEEnabled \in BOOLEAN
    /\ javaSEItems = Null \/ javaSEItems \subseteq JavaVersions
    /\ supportedServerItems \subseteq Servers
    /\ specs = Null \/ specs \subseteq Specs
    /\ standaloneSpecs = Null \/ standaloneSpecs \subseteq Standalone
    /\ selectedSpecs \subseteq Specs
    /\ selectedStandaloneSpecs \subseteq Standalone
    /\ generated = Null \/ generated \in Model

\* In whatever order the form is filled in, a project that is generated fits
\* together: the server offers the version, runs on the Java version and with
\* the build tool, the version has the specs, and the server the standalone
\* specs.  Nothing checks this again on the way: the form alone is in charge.
GeneratedFits ==
    generated # Null =>
        LET g == generated IN
        /\ g.version \in Offered(g.server)
        /\ g.java \in SupportedJava(g.server, g.version)
        /\ g.tool = "Gradle" => g.server \in GradleServers
        /\ g.specs \subseteq SpecsIn(g.version)
        /\ \A spec \in g.standalone : IsEnabled(spec, g.server, g.version)

\* Nothing is selected that the form does not show, so a spec that a change of
\* version has hidden cannot come along unseen.
SelectedIsShown ==
    /\ mpVersion # Null => selectedSpecs \subseteq specs
    /\ mpVersion = Null => selectedSpecs = {}
    /\ standaloneSpecs = Null => selectedStandaloneSpecs = {}
    /\ standaloneSpecs # Null => selectedStandaloneSpecs \subseteq standaloneSpecs

\* The two copies of the version agree, and the lists that "Select All" runs
\* through exist whenever its link is shown.
LinksWork == microProfileVersion = mpVersion /\ (mpVersion # Null => Null \notin {specs, standaloneSpecs})

\* Lists and selections fit, in whatever order the choices are made.
MenusFit == SelectedIsShown /\ LinksWork

\* The user always has a server to choose: no combination of version and build
\* tool leads to an empty menu.
AlwaysAServer == supportedServerItems # {}

\* What a handler may do to the choices made before
ChoicesKept ==
    /\ supportedServer # Null /\ supportedServer' = Null =>
            \/ mpVersion' \notin Offered(supportedServer) \cup {Null}
            \/ buildTool' = "Gradle" /\ supportedServer \notin GradleServers
    /\ mpVersion # Null /\ mpVersion' # mpVersion => SelectMPVersion
    /\ buildTool' # buildTool => SelectBuildTool
    /\ \A spec \in selectedSpecs \ selectedSpecs' :
            CheckSpecs \/ UnselectAll \/ spec \notin SpecItems(mpVersion')
    /\ \A spec \in selectedStandaloneSpecs \ selectedStandaloneSpecs' :
            \/ CheckStandaloneSpecs \/ UnselectAll
            \/ spec \notin StandaloneItems(supportedServer', mpVersion')

\* A choice of the user undoes another one only where the two exclude each
\* other: the server goes only if it lacks the version or the tool, a version or
\* tool is never changed for another one, and a spec goes only when the user
\* clears it or the form no longer offers it.
ChoicesSurvive == [][ChoicesKept]_vars
===============================================================================
