---------------------------- MODULE ProjectFormProofs ---------------------------
(***************************************************************************)
(* For every content of the tables: whatever the form generates fits       *)
(* together, it generates nothing that it does not show, and a choice of   *)
(* the user gives way only to one that excludes it.                        *)
(*                                                                         *)
(* Each menu depends on the choices made in others, and each handler       *)
(* recomputes some of the menus only.  The invariant says which menus are  *)
(* up to date when: the servers and the specs always, the standalone specs *)
(* and the Java versions whenever both a server and a version are chosen.  *)
(***************************************************************************)
EXTENDS ProjectForm, TLAPS

\* The list of servers is the one for the version and the build tool, and the
\* server is one of them.
MenuInv ==
    /\ microProfileVersion = mpVersion
    /\ supportedServerItems = ServerItems(mpVersion, buildTool)
    /\ supportedServer # Null => supportedServer \in supportedServerItems

\* So are the specs, from the first choice of a version on.
SpecsInv ==
    /\ mpVersion # Null => specs = SpecItems(mpVersion)
    /\ selectedSpecs \subseteq SpecItems(mpVersion)

\* The standalone specs may be those for a server that has been dropped.
StandaloneInv ==
    /\ mpVersion # Null => standaloneSpecs # Null
    /\ standaloneSpecs = Null => selectedStandaloneSpecs = {}
    /\ standaloneSpecs # Null => selectedStandaloneSpecs \subseteq standaloneSpecs
    /\ supportedServer # Null /\ mpVersion # Null =>
            standaloneSpecs = StandaloneItems(supportedServer, mpVersion)

\* The menu of Java versions is usable, or its value is the only one.
JavaInv ==
    /\ javaSEEnabled => javaSEItems # Null
    /\ supportedServer # Null /\ mpVersion # Null =>
            /\ javaSEItems = SupportedJava(supportedServer, mpVersion)
            /\ ~javaSEEnabled => javaSEVersion \in javaSEItems

FormInv == TypeOK /\ MenuInv /\ SpecsInv /\ StandaloneInv /\ JavaInv
IInv == FormInv /\ GeneratedFits

-----------------------------------------------------------------------------
(* The tables *)

\* Every operator on the tables stays in its set.
LEMMA TablesTyped ==
    ASSUME NEW version \in Versions \cup {Null}, NEW tool
    PROVE  /\ ServerItems(version, tool) \subseteq Servers
           /\ SpecItems(version) \subseteq Specs
           /\ \A s \in Servers : Latest(s) \in Versions /\ Latest(s) \in Offered(s)
           /\ \A s : StandaloneItems(s, version) \subseteq Standalone
           /\ \A s, v : SupportedJava(s, v) \subseteq JavaVersions
           /\ VersionItems \subseteq Versions \cup {Null}
<1>1. ServerItems(version, tool) \subseteq Servers
    BY DEF ServerItems
<1>2. SpecItems(version) \subseteq Specs
    BY DEF SpecItems, SpecsIn
<1>3. ASSUME NEW s \in Servers
      PROVE  Latest(s) \in Versions /\ Latest(s) \in Offered(s)
    <2>1. MpVersions[s] \in Seq(Versions) /\ MpVersions[s] # <<>>
        BY TablesAssumption
    <2>2. Len(MpVersions[s]) \in DOMAIN MpVersions[s]
        BY <2>1
    <2> QED
        BY <2>1, <2>2 DEF Latest, Offered
<1>4. ASSUME NEW s PROVE StandaloneItems(s, version) \subseteq Standalone
    BY DEF StandaloneItems
<1>5. ASSUME NEW s, NEW v PROVE SupportedJava(s, v) \subseteq JavaVersions
    BY TablesAssumption DEF SupportedJava, Rule
<1>6. VersionItems \subseteq Versions \cup {Null}
    BY DEF VersionItems
<1> QED
    BY <1>1, <1>2, <1>3, <1>4, <1>5, <1>6

\* With a version, isEnabled is asked about that version.
LEMMA ShownIsEnabled ==
    ASSUME NEW s \in Servers, NEW version \in Versions,
           NEW spec \in StandaloneItems(s, version)
    PROVE  IsEnabled(spec, s, version)
<1>1. version # Null
    BY NamesAssumption
<1> QED
    BY <1>1 DEF StandaloneItems, EnabledFor

-----------------------------------------------------------------------------
(* The invariant *)

\* Selecting a version, directly or by way of a server, brings every menu up to
\* date, whatever it was before.
LEMMA Recomputed ==
    ASSUME TypeOK, NEW version \in Versions \cup {Null}, NEW s \in Servers \cup {Null},
           MPVersionSelected(version, s),
           mpVersion' = version, buildTool' = buildTool, generated' = Null
    PROVE  FormInv'
<1> DEFINE items == ServerItems(version, buildTool)
           kept == ServerKept(items, s)
<1>0. /\ microProfileVersion' = version
      /\ DefineExampleSpecs(version)
      /\ supportedServerItems' = items
      /\ supportedServer' = kept
      /\ DefineStandaloneExampleSpecs(kept, version)
      /\ DefineJavaSEVersion(kept, version)
    BY DEF MPVersionSelected
<1>1. /\ items \subseteq Servers
      /\ kept \in Servers \cup {Null}
      /\ kept # Null => kept \in items
    BY TablesTyped DEF ServerKept
<1>2. /\ SpecItems(version) \subseteq Specs
      /\ StandaloneItems(kept, version) \subseteq Standalone
      /\ SupportedJava(kept, version) \subseteq JavaVersions
    BY TablesTyped
<1>3. StandaloneItems(kept, version) # Null /\ SupportedJava(kept, version) # Null
    BY <1>2, MenusAssumption
<1>4. MenuInv'
    BY <1>0, <1>1 DEF MenuInv
<1>5. SpecsInv'
    BY <1>0 DEF SpecsInv, DefineExampleSpecs, Retain
<1>6. StandaloneInv'
    BY <1>0, <1>3 DEF StandaloneInv, DefineStandaloneExampleSpecs, Retain
<1>7. /\ javaSEVersion' \in JavaVersions
      /\ javaSEEnabled' \in BOOLEAN
      /\ javaSEItems' = Null \/ javaSEItems' \subseteq JavaVersions
      /\ JavaInv'
    BY <1>0, <1>2, <1>3 DEF DefineJavaSEVersion, OfferJava, JavaInv, TypeOK
<1>8. selectedSpecs' \subseteq Specs /\ specs' \subseteq Specs
    BY <1>0, <1>2 DEF DefineExampleSpecs, Retain
<1>9. /\ selectedStandaloneSpecs' \subseteq Standalone
      /\ standaloneSpecs' \subseteq Standalone
    BY <1>0, <1>2 DEF DefineStandaloneExampleSpecs, Retain
<1>10. TypeOK'
    BY <1>0, <1>1, <1>7, <1>8, <1>9 DEF TypeOK
<1> QED
    BY <1>4, <1>5, <1>6, <1>7, <1>10 DEF FormInv

\* A server in the menu has the build tool, so choosing it changes no tool.
LEMMA ToolStays ==
    ASSUME TypeOK, NEW version, NEW s \in ServerItems(version, buildTool)
    PROVE  ToolFor(s) = buildTool
<1>1. CASE s \in GradleServers
    BY <1>1 DEF ToolFor
<1>2. CASE s \notin GradleServers
    <2>1. buildTool # "Gradle"
        BY <1>2 DEF ServerItems
    <2> QED
        BY <1>2, <2>1, NamesAssumption DEF ToolFor, TypeOK, ServerItems
<1> QED
    BY <1>1, <1>2

\* Every handler keeps the menus, and what is selected in them, consistent.
LEMMA HandlerStep ==
    ASSUME FormInv, Next, generated' = Null
    PROVE  FormInv' \/ GenerateProject
<1> USE DEF FormInv
<1>1. ASSUME SelectMPVersion PROVE FormInv'
    <2>1. PICK version \in VersionItems :
            mpVersion' = version /\ MPVersionSelected(version, supportedServer)
        BY <1>1 DEF SelectMPVersion
    <2>2. version \in Versions \cup {Null} /\ buildTool' = buildTool
        BY <1>1, TablesTyped DEF SelectMPVersion
    <2> QED
        BY <2>1, <2>2, Recomputed DEF TypeOK
<1>2. ASSUME SelectBuildTool PROVE FormInv'
    <2>1. PICK tool \in {"Maven", "Gradle"} :
            LET items == ServerItems(mpVersion, tool) IN
            /\ buildTool' = tool
            /\ microProfileVersion' = mpVersion
            /\ supportedServerItems' = items
            /\ supportedServer' = ServerKept(items, supportedServer)
        BY <1>2 DEF SelectBuildTool
    <2>2. UNCHANGED <<mpVersion, java, examples, standalone>>
        BY <1>2 DEF SelectBuildTool
    <2>3. /\ supportedServer' \in {supportedServer, Null}
          /\ supportedServer' # Null => supportedServer' \in supportedServerItems'
        BY <2>1 DEF ServerKept
    <2>4. supportedServerItems' \subseteq Servers
        BY <2>1, TablesTyped DEF TypeOK
    <2>5. TypeOK'
        BY <2>1, <2>2, <2>3, <2>4 DEF TypeOK, java, examples, standalone
    <2>6. MenuInv'
        BY <2>1, <2>2, <2>3 DEF MenuInv
    <2> QED
        BY <2>2, <2>3, <2>5, <2>6 DEF SpecsInv, StandaloneInv, JavaInv, java, examples, standalone
<1>3. ASSUME SelectRuntime PROVE FormInv'
    <2>1. PICK s \in supportedServerItems :
            /\ supportedServer' = s
            /\ DefineStandaloneExampleSpecs(s, microProfileVersion)
            /\ DefineJavaSEVersion(s, mpVersion)
            /\ buildTool' = ToolFor(s)
        BY <1>3 DEF SelectRuntime
    <2>2. /\ mpVersion # Null
          /\ UNCHANGED <<mpVersion, microProfileVersion, supportedServerItems, examples>>
        BY <1>3 DEF SelectRuntime
    <2>3. s \in ServerItems(mpVersion, buildTool) /\ s \in Servers /\ s # Null
        BY NamesAssumption DEF MenuInv, TypeOK
    <2>4. buildTool' = buildTool
        BY <2>1, <2>3, ToolStays
    <2>5. /\ StandaloneItems(s, mpVersion) \subseteq Standalone
          /\ SupportedJava(s, mpVersion) \subseteq JavaVersions
          /\ microProfileVersion = mpVersion
        BY TablesTyped DEF MenuInv, TypeOK
    <2>6. StandaloneItems(s, mpVersion) # Null /\ SupportedJava(s, mpVersion) # Null
        BY <2>5, MenusAssumption
    <2>7. /\ standaloneSpecs' = StandaloneItems(s, mpVersion)
          /\ selectedStandaloneSpecs' \subseteq standaloneSpecs'
        BY <2>1, <2>5 DEF DefineStandaloneExampleSpecs, Retain
    <2>8. /\ javaSEItems' = SupportedJava(s, mpVersion)
          /\ javaSEEnabled' \in BOOLEAN
          /\ javaSEVersion' \in JavaVersions
          /\ ~javaSEEnabled' => javaSEVersion' \in javaSEItems'
        BY <2>1, <2>2, <2>3, <2>5 DEF DefineJavaSEVersion, OfferJava, TypeOK
    <2>9. TypeOK'
        BY <2>1, <2>2, <2>3, <2>4, <2>5, <2>7, <2>8 DEF TypeOK, examples
    <2> QED
        BY <2>1, <2>2, <2>3, <2>4, <2>5, <2>6, <2>7, <2>8, <2>9
           DEF MenuInv, SpecsInv, StandaloneInv, JavaInv, examples
<1>4. ASSUME SelectRuntimeFirst PROVE FormInv'
    <2>1. mpVersion = Null
        BY <1>4 DEF SelectRuntimeFirst
    <2>2. PICK s \in supportedServerItems :
            /\ mpVersion' = Latest(s)
            /\ MPVersionSelected(Latest(s), s)
            /\ buildTool' = ToolFor(supportedServer')
        BY <1>4 DEF SelectRuntimeFirst
    <2>3. s \in ServerItems(Null, buildTool) /\ s \in Servers
        BY <2>1 DEF MenuInv, TypeOK
    <2>4. Latest(s) \in Versions /\ Latest(s) \in Offered(s)
        BY <2>3, TablesTyped
    <2>5. s \in ServerItems(Latest(s), buildTool)
        BY <2>3, <2>4 DEF ServerItems
    <2>6. supportedServer' = s
        BY <2>2, <2>5 DEF MPVersionSelected, ServerKept
    <2>7. buildTool' = buildTool
        BY <2>2, <2>5, <2>6, ToolStays
    <2> QED
        BY <2>2, <2>3, <2>4, <2>7, Recomputed
<1>5. ASSUME CheckSpecs \/ CheckStandaloneSpecs \/ SelectAll \/ UnselectAll PROVE FormInv'
    <2>1. UNCHANGED <<choices, java, specs, standaloneSpecs>>
        BY <1>5 DEF CheckSpecs, CheckStandaloneSpecs, SelectAll, UnselectAll, standalone, examples
    <2>2. selectedSpecs' \subseteq SpecItems(mpVersion)
        BY <1>5 DEF CheckSpecs, CheckStandaloneSpecs, SelectAll, UnselectAll, examples, SpecsInv
    <2>3. /\ standaloneSpecs = Null => selectedStandaloneSpecs' = {}
          /\ standaloneSpecs # Null => selectedStandaloneSpecs' \subseteq standaloneSpecs
        BY <1>5 DEF CheckSpecs, CheckStandaloneSpecs, SelectAll, UnselectAll, standalone,
                    StandaloneInv
    <2>4. selectedSpecs' \subseteq Specs /\ selectedStandaloneSpecs' \subseteq Standalone
        BY <2>2, <2>3, TablesTyped DEF TypeOK
    <2> QED
        BY <2>1, <2>2, <2>3, <2>4
           DEF choices, java, TypeOK, MenuInv, SpecsInv, StandaloneInv, JavaInv
<1> QED
    BY <1>1, <1>2, <1>3, <1>4, <1>5 DEF Next

\* A download submits a Java version that the menu offers, and with it a
\* project that fits together.
LEMMA GenerateStep ==
    ASSUME FormInv, GenerateProject
    PROVE  IInv'
<1>1. /\ supportedServer # Null
      /\ UNCHANGED <<mpVersion, microProfileVersion, supportedServer, buildTool,
                     supportedServerItems, javaSEEnabled, javaSEItems, examples, standalone>>
    BY DEF GenerateProject
<1>2. /\ javaSEVersion' \in JavaVersions
      /\ mpVersion # Null => javaSEVersion' \in javaSEItems
      /\ ~javaSEEnabled => javaSEVersion' = javaSEVersion
    BY <1>1 DEF GenerateProject, FormInv, TypeOK, JavaInv
<1>3. generated' = Null \/ generated' \in Model
    BY <1>1, <1>2 DEF GenerateProject, Model, FormInv, TypeOK
<1>4. FormInv'
    BY <1>1, <1>2, <1>3 DEF FormInv, TypeOK, MenuInv, SpecsInv, StandaloneInv, JavaInv,
                            examples, standalone
<1>5. CASE mpVersion = Null
    BY <1>4, <1>5 DEF GenerateProject, IInv, GeneratedFits
<1>6. CASE mpVersion # Null
    <2>1. supportedServer \in ServerItems(mpVersion, buildTool)
        BY <1>1 DEF FormInv, MenuInv
    <2>2. /\ mpVersion \in Offered(supportedServer)
          /\ buildTool = "Gradle" => supportedServer \in GradleServers
        BY <1>6, <2>1 DEF ServerItems
    <2>3. javaSEVersion' \in SupportedJava(supportedServer, mpVersion)
        BY <1>1, <1>2, <1>6 DEF FormInv, JavaInv
    <2>4. selectedSpecs \subseteq SpecsIn(mpVersion)
        BY <1>6 DEF FormInv, SpecsInv, SpecItems
    <2>5. \A spec \in selectedStandaloneSpecs : IsEnabled(spec, supportedServer, mpVersion)
        BY <1>1, <1>6, ShownIsEnabled DEF FormInv, StandaloneInv, TypeOK
    <2>6. generated' = [server |-> supportedServer, version |-> mpVersion,
                        java |-> javaSEVersion', tool |-> buildTool,
                        specs |-> selectedSpecs, standalone |-> selectedStandaloneSpecs]
        BY <1>6 DEF GenerateProject
    <2>7. GeneratedFits'
        BY <2>2, <2>3, <2>4, <2>5, <2>6 DEF GeneratedFits
    <2> QED
        BY <1>4, <2>7 DEF IInv
<1> QED
    BY <1>5, <1>6

-----------------------------------------------------------------------------
(* The theorems *)

LEMMA InitForm == Init => IInv
<1> SUFFICES ASSUME Init PROVE IInv
    OBVIOUS
<1>1. ServerItems(Null, "Maven") \subseteq Servers
    BY TablesTyped
<1>2. TypeOK
    BY <1>1, NamesAssumption DEF Init, TypeOK
<1> QED
    BY <1>2 DEF Init, IInv, FormInv, MenuInv, SpecsInv, StandaloneInv, JavaInv, GeneratedFits

LEMMA FormStep == IInv /\ [Next]_vars => IInv'
<1> SUFFICES ASSUME IInv, [Next]_vars PROVE IInv'
    OBVIOUS
<1>1. CASE UNCHANGED vars
    BY <1>1 DEF vars, choices, java, examples, standalone, IInv, FormInv, TypeOK, MenuInv,
                SpecsInv, StandaloneInv, JavaInv, GeneratedFits
<1>2. CASE GenerateProject
    BY <1>2, GenerateStep DEF IInv
<1>3. CASE Next /\ generated' = Null /\ ~GenerateProject
    <2>1. FormInv'
        BY <1>3, HandlerStep DEF IInv
    <2> QED
        BY <1>3, <2>1 DEF IInv, GeneratedFits
<1> QED
    BY <1>1, <1>2, <1>3 DEF Next

THEOREM FormInvariant == Spec => []IInv
<1> QED
    BY InitForm, FormStep, PTL DEF Spec

\* The state of the bean stays within its types.
THEOREM FormTypeCorrect == Spec => []TypeOK
<1>1. IInv => TypeOK
    BY DEF IInv, FormInv
<1> QED
    BY <1>1, FormInvariant, PTL

\* With any tables, and whatever the order of the choices, what the form
\* generates fits together.
THEOREM GeneratedCorrect == Spec => []GeneratedFits
<1>1. IInv => GeneratedFits
    BY DEF IInv
<1> QED
    BY <1>1, FormInvariant, PTL

\* What is selected is on the screen, and "Select All" has its lists.
THEOREM SelectionCorrect == Spec => []MenusFit
<1>1. IInv => SelectedIsShown
    BY DEF IInv, FormInv, SpecsInv, StandaloneInv, SelectedIsShown, SpecItems
<1>2. ASSUME IInv PROVE LinksWork
    <2>1. mpVersion # Null => specs = SpecItems(mpVersion) /\ specs \subseteq Specs
        BY <1>2, TablesTyped DEF IInv, FormInv, SpecsInv, TypeOK
    <2>2. mpVersion # Null => specs # Null
        BY <2>1, MenusAssumption
    <2> QED
        BY <1>2, <2>2 DEF IInv, FormInv, MenuInv, StandaloneInv, LinksWork
<1> QED
    BY <1>1, <1>2, FormInvariant, PTL DEF MenusFit

\* If one server with Gradle has every version, no menu of servers is empty.
THEOREM MenuNeverEmpty ==
    ASSUME NEW s \in GradleServers, Versions \subseteq Offered(s)
    PROVE  Spec => []AlwaysAServer
<1>1. ASSUME IInv PROVE AlwaysAServer
    <2>1. s \in ServerItems(mpVersion, buildTool)
        BY <1>1, TablesAssumption DEF IInv, FormInv, TypeOK, ServerItems
    <2> QED
        BY <1>1, <2>1 DEF IInv, FormInv, MenuInv, AlwaysAServer
<1> QED
    BY <1>1, FormInvariant, PTL

\* No choice is undone but by one that excludes it.
THEOREM ChoicesCorrect == Spec => ChoicesSurvive
<1>1. ASSUME IInv, [Next]_vars PROVE [ChoicesKept]_vars
    <2> SUFFICES ASSUME Next PROVE ChoicesKept
        BY <1>1
    <2> USE <1>1 DEF IInv, FormInv
    <2>1. CASE SelectMPVersion
        <3>1. PICK version \in VersionItems :
                mpVersion' = version /\ MPVersionSelected(version, supportedServer)
            BY <2>1 DEF SelectMPVersion
        <3>2. /\ supportedServer' = ServerKept(ServerItems(version, buildTool), supportedServer)
              /\ buildTool' = buildTool
            BY <2>1, <3>1 DEF SelectMPVersion, MPVersionSelected
        <3>3. supportedServer # Null /\ supportedServer' = Null =>
                \/ version \notin Offered(supportedServer) \cup {Null}
                \/ buildTool = "Gradle" /\ supportedServer \notin GradleServers
            BY <3>2 DEF ServerKept, ServerItems, TypeOK
        <3>4. /\ selectedSpecs' = selectedSpecs \cap SpecItems(version)
              /\ selectedStandaloneSpecs' =
                    selectedStandaloneSpecs \cap StandaloneItems(supportedServer', version)
            BY <3>1, <3>2 DEF MPVersionSelected, DefineExampleSpecs,
                              DefineStandaloneExampleSpecs, Retain
        <3> QED
            BY <2>1, <3>1, <3>2, <3>3, <3>4 DEF ChoicesKept
    <2>2. CASE SelectBuildTool
        <3>1. /\ UNCHANGED <<mpVersion, java, examples, standalone>>
              /\ supportedServerItems' = ServerItems(mpVersion, buildTool')
              /\ supportedServer' = ServerKept(supportedServerItems', supportedServer)
            BY <2>2 DEF SelectBuildTool
        <3>2. supportedServer # Null /\ supportedServer' = Null =>
                \/ mpVersion' \notin Offered(supportedServer) \cup {Null}
                \/ buildTool' = "Gradle" /\ supportedServer \notin GradleServers
            BY <3>1 DEF ServerKept, ServerItems, TypeOK
        <3> QED
            BY <2>2, <3>1, <3>2 DEF ChoicesKept, examples, standalone
    <2>3. CASE SelectRuntime
        <3>1. PICK s \in supportedServerItems :
                /\ supportedServer' = s
                /\ DefineStandaloneExampleSpecs(s, microProfileVersion)
                /\ buildTool' = ToolFor(s)
            BY <2>3 DEF SelectRuntime
        <3>2. mpVersion' = mpVersion /\ selectedSpecs' = selectedSpecs
            BY <2>3 DEF SelectRuntime, examples
        <3>3. supportedServer' # Null /\ buildTool' = buildTool
            BY <3>1, ToolStays, NamesAssumption DEF MenuInv, TypeOK
        <3>4. selectedStandaloneSpecs' =
                selectedStandaloneSpecs \cap StandaloneItems(supportedServer', mpVersion')
            BY <3>1, <3>2 DEF DefineStandaloneExampleSpecs, Retain, MenuInv
        <3> QED
            BY <3>2, <3>3, <3>4 DEF ChoicesKept
    <2>4. CASE SelectRuntimeFirst
        <3>1. PICK s \in supportedServerItems :
                /\ mpVersion' = Latest(s)
                /\ MPVersionSelected(Latest(s), s)
                /\ buildTool' = ToolFor(supportedServer')
            BY <2>4 DEF SelectRuntimeFirst
        <3>2. mpVersion = Null
            BY <2>4 DEF SelectRuntimeFirst
        <3>3. s \in Servers /\ s \in ServerItems(Null, buildTool) /\ s # Null
            BY <3>2, NamesAssumption DEF MenuInv, TypeOK
        <3>4. s \in ServerItems(Latest(s), buildTool)
            BY <3>3, TablesTyped DEF ServerItems
        <3>5. supportedServer' = s /\ buildTool' = buildTool
            BY <3>1, <3>4, ToolStays DEF MPVersionSelected, ServerKept
        <3>6. /\ selectedSpecs' = selectedSpecs \cap SpecItems(mpVersion')
              /\ selectedStandaloneSpecs' =
                    selectedStandaloneSpecs \cap StandaloneItems(supportedServer', mpVersion')
            BY <3>1, <3>4 DEF MPVersionSelected, DefineExampleSpecs,
                              DefineStandaloneExampleSpecs, Retain, ServerKept
        <3> QED
            BY <3>2, <3>3, <3>5, <3>6 DEF ChoicesKept
    <2>5. CASE CheckSpecs \/ CheckStandaloneSpecs \/ SelectAll \/ UnselectAll
        <3>1. UNCHANGED choices
            BY <2>5 DEF CheckSpecs, CheckStandaloneSpecs, SelectAll, UnselectAll
        <3>2. \/ CheckSpecs \/ UnselectAll
              \/ selectedSpecs \subseteq selectedSpecs'
            BY <2>5 DEF CheckStandaloneSpecs, SelectAll, examples, SpecsInv
        <3>3. \/ CheckStandaloneSpecs \/ UnselectAll
              \/ selectedStandaloneSpecs \subseteq selectedStandaloneSpecs'
            BY <2>5 DEF CheckSpecs, SelectAll, standalone, StandaloneInv
        <3> QED
            BY <3>1, <3>2, <3>3 DEF ChoicesKept, choices
    <2>6. CASE GenerateProject
        BY <2>6 DEF GenerateProject, ChoicesKept, examples, standalone
    <2> QED
        BY <2>1, <2>2, <2>3, <2>4, <2>5, <2>6 DEF Next
<1> QED
    BY <1>1, FormInvariant, PTL DEF Spec, ChoicesSurvive
===============================================================================
