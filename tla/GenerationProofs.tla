--------------------------- MODULE GenerationProofs ---------------------------
(***************************************************************************)
(* Theorems about Generation, for every set of requests, projects, servers *)
(* and specs.                                                              *)
(***************************************************************************)
EXTENDS Generation, TLAPS

-----------------------------------------------------------------------------
(* Lemmas about the files that the stages write *)

\* FileOf builds a file.
LEMMA FileOfType ==
    ASSUME TypeOK, NEW r \in Requests,
           NEW d \in {"top", "service-a", "service-b"}, NEW k \in Kinds,
           NEW spec \in Specs \cup {Nobody}, NEW server \in Servers,
           NEW specs \in SUBSET Specs, NEW deps \in SUBSET Specs
    PROVE  FileOf(r, d, k, spec, server, specs, deps) \in File
<1>1. project[r].artifact \in Artifacts
    BY ProjectsAssumption DEF TypeOK, Project
<1> QED
    BY <1>1 DEF FileOf, File, Path

\* The directories of a project are directories.
LEMMA DirsType ==
    ASSUME NEW r \in Requests
    PROVE  /\ Dirs(r) \subseteq {"top", "service-a", "service-b"}
           /\ MainDir(r) \in Dirs(r)
           /\ SecondDir(r) \in Dirs(r)
    BY DEF Dirs, MainDir, SecondDir

\* Every stage writes files, of the request itself, given a server and specs.
LEMMA StageFilesType ==
    ASSUME TypeOK, NEW r \in Requests, NEW server \in Servers,
           NEW list \in SUBSET Specs, NEW deps \in SUBSET Specs,
           NEW spec \in Specs, NEW main \in BOOLEAN
    PROVE  /\ WebappFile(r) \in File
           /\ PomFile(r, main, server, list, deps) \in File
           /\ GradleFiles(r, server, list) \subseteq File
           /\ BeansFiles(r) \subseteq File
           /\ JavaFiles(r, server) \subseteq File
           /\ ExampleFiles(r, spec, server) \subseteq File
           /\ PageFiles(r, server) \subseteq File
           /\ ServerFiles(r, server, deps) \subseteq File
<1>1. project[r].server \in Servers
    BY ProjectsAssumption DEF TypeOK, Project
<1>2. JwtAuth \in Specs /\ RestClient \in Specs
    BY SpecsAssumption DEF SplitSpecs
<1>3. {"webapp", "pom", "gradle", "beans", "java", "example", "exampleB",
       "pages", "server", "key"} \subseteq Kinds
    BY DEF Kinds, DefaultKinds, AddonKinds
<1>a. \A d \in Dirs(r), k \in Kinds, sp \in Specs \cup {Nobody}, sv \in Servers,
        l \in SUBSET Specs, dp \in SUBSET Specs : FileOf(r, d, k, sp, sv, l, dp) \in File
    BY FileOfType, DirsType
<1>b. {} \in SUBSET Specs /\ Nobody \in Specs \cup {Nobody} /\ (list \cap {JwtAuth}) \in SUBSET Specs
    OBVIOUS
<1>c. MainDir(r) \in Dirs(r) /\ SecondDir(r) \in Dirs(r)
    BY DirsType
<1>4. WebappFile(r) \in File
    BY <1>1, <1>3, <1>a, <1>b, <1>c DEF WebappFile
<1>5. PomFile(r, main, server, list, deps) \in File
    BY <1>2, <1>3, <1>a, <1>b, <1>c DEF PomFile
<1>6. GradleFiles(r, server, list) \subseteq File
    <2>1. \A d \in Dirs(r) : FileOf(r, d, "gradle", Nobody, server, list, {}) \in File
        BY <1>3, <1>a, <1>b
    <2> QED
        BY <2>1 DEF GradleFiles
<1>7. BeansFiles(r) \subseteq File
    <2>1. \A d \in Dirs(r) : FileOf(r, d, "beans", Nobody, project[r].server, {}, {}) \in File
        BY <1>1, <1>3, <1>a, <1>b
    <2> QED
        BY <2>1 DEF BeansFiles
<1>8. JavaFiles(r, server) \subseteq File
    BY <1>3, <1>a, <1>b, <1>c DEF JavaFiles
<1>9. ExampleFiles(r, spec, server) \subseteq File
    BY <1>2, <1>3, <1>a, <1>b, <1>c DEF ExampleFiles, SplitSpecs
<1>10. PageFiles(r, server) \subseteq File
    BY <1>3, <1>a, <1>b, <1>c DEF PageFiles
<1>11. ServerFiles(r, server, deps) \subseteq File
    <2>1. \A w \in Writes(r, deps) : w.kind \in Kinds
        BY <1>1, ServerWritesAssumption DEF Writes, AddonFile, Kinds
    <2> QED
        BY <1>a, <1>b, <1>c, <2>1 DEF ServerFiles, PlaceOf
<1> QED
    BY <1>4, <1>5, <1>6, <1>7, <1>8, <1>9, <1>10, <1>11

\* SetArchive, Store and Write keep maps of files.
LEMMA SetArchiveType ==
    ASSUME TypeOK, NEW r \in Requests, NEW files \in SUBSET File, SetArchive(r, files)
    PROVE  archive' \in [Sessions -> SUBSET File] /\ comod' \in SUBSET Requests
    BY DEF SetArchive, Disturbed, TypeOK

LEMMA StoreType ==
    ASSUME TypeOK, NEW r \in Requests, NEW files \in SUBSET File, Store(r, files)
    PROVE  archive' \in [Sessions -> SUBSET File] /\ comod' \in SUBSET Requests
<1>1. PICK kept \in SUBSET files : SetArchive(r, kept)
    BY DEF Store
<1> QED
    BY <1>1, SetArchiveType

LEMMA WriteType ==
    ASSUME TypeOK, NEW r \in Requests, NEW new \in SUBSET File, Write(r, new)
    PROVE  archive' \in [Sessions -> SUBSET File] /\ comod' \in SUBSET Requests
<1>1. SessionOf(r) \in Sessions
    BY ProjectsAssumption DEF TypeOK, Project, SessionOf
<1>2. Put(archive[SessionOf(r)], new) \in SUBSET File
    BY <1>1 DEF Put, TypeOK
<1> QED
    BY <1>2, StoreType DEF Write

-----------------------------------------------------------------------------
(* Type correctness *)

\* What an active request reads from the shared fields is a request and its
\* data, not null.
LEMMA FieldsType ==
    ASSUME TypeOK, FieldsInv, NEW r \in Requests
    PROVE  /\ pc[r] \in Stages \ {"idle", "begun", "done", "failed"} =>
                /\ options \in Requests
                /\ project[options].specs \in SUBSET Specs
                /\ project[options].server \in Servers
           /\ pc[r] \in Filling => specsField \in Requests
           /\ pc[r] \in Validated => param[r] \in Requests
           /\ pc[r] \in Prepared => alt[r] \in Servers
           /\ SessionOf(r) \in Sessions
<1>1. \A q \in Requests : /\ project[q].specs \in SUBSET Specs
                          /\ project[q].server \in Servers
                          /\ project[q].session \in Sessions
    BY ProjectsAssumption DEF TypeOK, Project
<1>2. Around(r) \subseteq Requests
    BY DEF Around, TypeOK
<1>3. ASSUME pc[r] \in Stages \ {"idle", "begun", "done", "failed"}
      PROVE  options \in Requests
    BY <1>2, <1>3 DEF FieldsInv, Active
<1>4. pc[r] \in Filling => specsField \in Requests
    BY <1>2 DEF FieldsInv, Active, Filling
<1>5. pc[r] \in Validated => param[r] \in Requests
    BY <1>2 DEF FieldsInv, Active, Filling, Validated
<1>6. pc[r] \in Prepared => alt[r] \in Servers
    BY <1>1, <1>2 DEF FieldsInv, Active, Filling, Validated, Prepared
<1> QED
    BY <1>1, <1>3, <1>4, <1>5, <1>6 DEF SessionOf

\* A step of the examples' loop handles one of the specs that are left.
LEMMA ExampleChosen ==
    ASSUME NEW r, WriteExample(r)
    PROVE  \E spec \in todo[r] :
                /\ todo' = [todo EXCEPT ![r] = @ \ {spec}]
                /\ IF spec \in specList[specsField]
                   THEN Write(r, ExampleFiles(r, spec, alt[r]))
                   ELSE UNCHANGED <<archive, comod>>
<1> DEFINE spec == CHOOSE spec \in todo[r] : TRUE
<1>1. spec \in todo[r]
    BY DEF WriteExample
<1> QED
    BY <1>1 DEF WriteExample

\* createFiles of the server's addon stores a map without default files, and
\* with some or all of its own files; or it loses some default files.
LEMMA WriteServerCases ==
    ASSUME NEW r, WriteServerFiles(r)
    PROVE  LET old == archive[SessionOf(r)]
               new == ServerFiles(r, alt[r], specList[param[r]])
           IN  \/ \E dirs : \E begun \in SUBSET new :
                    Store(r, Put(RemoveDefaults(old, r, dirs), begun))
               \/ \E gone : SetArchive(r, old \ gone)
<1> DEFINE old == archive[SessionOf(r)]
           new == ServerFiles(r, alt[r], specList[param[r]])
<1>1. \/ Store(r, Put(RemoveDefaults(old, r, Dirs(r)), new))
      \/ \E dirs \in {{MainDir(r)}, Dirs(r)} : \E begun \in SUBSET new :
            Store(r, Put(RemoveDefaults(old, r, dirs), begun))
      \/ \E gone \in SUBSET (old \ RemoveDefaults(old, r, Dirs(r))) : SetArchive(r, old \ gone)
    BY DEF WriteServerFiles
<1>2. new \in SUBSET new
    OBVIOUS
<1> HIDE DEF old, new
<1>3. CASE Store(r, Put(RemoveDefaults(old, r, Dirs(r)), new))
    BY <1>2, <1>3 DEF old, new
<1>4. CASE \E dirs \in {{MainDir(r)}, Dirs(r)} : \E begun \in SUBSET new :
                Store(r, Put(RemoveDefaults(old, r, dirs), begun))
    BY <1>4 DEF old, new
<1> QED
    BY <1>1, <1>3, <1>4 DEF old, new

LEMMA TypeInit == Init => TypeOK
    BY DEF Init, TypeOK, Stages

LEMMA TypeStep == TypeOK /\ FieldsInv /\ [Next]_vars => TypeOK'
<1> SUFFICES ASSUME TypeOK, FieldsInv, [Next]_vars
             PROVE  TypeOK'
    OBVIOUS
<1>1. CASE UNCHANGED vars
    BY <1>1 DEF vars, TypeOK
<1>2. ASSUME NEW r \in Requests, Arrive(r)
      PROVE  TypeOK'
    BY <1>2 DEF Arrive, Goto, Active, TypeOK, Stages
<1>3. ASSUME NEW r \in Requests, Prepare(r)
      PROVE  TypeOK'
    <2>1. CASE SetAddonOptions(r)
        BY <2>1 DEF SetAddonOptions, Goto, TypeOK, Stages
    <2>2. CASE ResetSpecs(r)
        <3>1. project[options].specs \in SUBSET Specs
            BY <2>2, FieldsType DEF ResetSpecs, Stages
        <3> QED
            BY <2>2, <3>1 DEF ResetSpecs, Goto, TypeOK, Stages
    <2>3. CASE AddSpec(r)
        BY <2>3 DEF AddSpec, Goto, TypeOK, Stages
    <2>4. CASE PublishSpecs(r)
        BY <2>4 DEF PublishSpecs, Goto, TypeOK, Stages
    <2>5. CASE DetermineAlternatives(r)
        <3>1. project[options].server \in Servers
            BY <2>5, FieldsType DEF DetermineAlternatives, Stages
        <3> QED
            BY <2>5, <3>1 DEF DetermineAlternatives, Goto, TypeOK, Stages
    <2> QED
        BY <1>3, <2>1, <2>2, <2>3, <2>4, <2>5 DEF Prepare
<1>4. ASSUME NEW r \in Requests, CreateArtifacts(r)
      PROVE  TypeOK'
    <2>a. \A q \in Requests : specList[q] \in SUBSET Specs /\ mpVars[q] \in SUBSET Specs
        BY DEF TypeOK
    <2>b. RestClient \in Specs /\ TRUE \in BOOLEAN /\ FALSE \in BOOLEAN
        BY SpecsAssumption DEF SplitSpecs
    <2>1. CASE MavenMain(r)
        <3>1. /\ project[options].server \in Servers
              /\ specsField \in Requests /\ param[r] \in Requests
            BY <2>1, FieldsType DEF MavenMain, AfterMainPom, Stages, Filling, Validated
        <3>a. specList[specsField] \in SUBSET Specs /\ specList[param[r]] \in SUBSET Specs
            BY <2>a, <3>1
        <3>b. /\ PomFile(r, TRUE, project[options].server, specList[specsField],
                         specList[param[r]]) \in File
              /\ WebappFile(r) \in File
            BY <2>b, <3>1, <3>a, StageFilesType
        <3>2. {PomFile(r, TRUE, project[options].server, specList[specsField],
                       specList[param[r]]), WebappFile(r)} \in SUBSET File
            BY <3>b
        <3>3. archive' \in [Sessions -> SUBSET File] /\ comod' \in SUBSET Requests
            BY <2>1, <3>2, WriteType DEF MavenMain, AfterMainPom, TypeOK
        <3> QED
            BY <2>1, <3>3 DEF MavenMain, AfterMainPom, Goto, TypeOK, Stages
    <2>2. CASE MavenSecond(r)
        <3>1. /\ project[options].server \in Servers
              /\ specsField \in Requests /\ param[r] \in Requests
            BY <2>2, FieldsType DEF MavenSecond, Stages, Filling, Validated
        <3>a. specList[specsField] \in SUBSET Specs /\ specList[param[r]] \in SUBSET Specs
            BY <2>a, <3>1
        <3>b. /\ PomFile(r, FALSE, project[options].server, specList[specsField],
                         specList[param[r]]) \in File
              /\ WebappFile(r) \in File
            BY <2>b, <3>1, <3>a, StageFilesType
        <3>2. {PomFile(r, FALSE, project[options].server, specList[specsField],
                       specList[param[r]])} \in SUBSET File
            BY <3>b
        <3>3. archive' \in [Sessions -> SUBSET File] /\ comod' \in SUBSET Requests
            BY <2>2, <3>2, WriteType DEF MavenSecond, TypeOK
        <3> QED
            BY <2>2, <3>3 DEF MavenSecond, Goto, TypeOK, Stages
    <2>3. CASE Gradle(r)
        <3>1. alt[r] \in Servers
            BY <2>3, FieldsType DEF Gradle, Prepared, Validated, Filling
        <3>2. {WebappFile(r)} \cup GradleFiles(r, alt[r], mpVars[r]) \in SUBSET File
            BY <2>a, <3>1, StageFilesType, SpecsAssumption DEF SplitSpecs
        <3>3. archive' \in [Sessions -> SUBSET File] /\ comod' \in SUBSET Requests
            BY <2>3, <3>2, WriteType DEF Gradle, TypeOK
        <3> QED
            BY <2>3, <3>3 DEF Gradle, Goto, TypeOK, Stages
    <2>4. CASE BeansAndJava(r)
        <3>1. alt[r] \in Servers
            BY <2>4, FieldsType DEF BeansAndJava, Prepared, Validated, Filling
        <3>2. BeansFiles(r) \cup JavaFiles(r, alt[r]) \in SUBSET File
            BY <3>1, StageFilesType, SpecsAssumption DEF SplitSpecs
        <3>3. archive' \in [Sessions -> SUBSET File] /\ comod' \in SUBSET Requests
            BY <2>4, <3>2, WriteType DEF BeansAndJava, TypeOK
        <3> QED
            BY <2>4, <3>3 DEF BeansAndJava, Goto, TypeOK, Stages
    <2>5. CASE WriteExample(r)
        <3>1. alt[r] \in Servers
            BY <2>5, FieldsType DEF WriteExample, Prepared, Validated, Filling
        <3>2. PICK spec \in todo[r] :
                /\ todo' = [todo EXCEPT ![r] = @ \ {spec}]
                /\ IF spec \in specList[specsField]
                   THEN Write(r, ExampleFiles(r, spec, alt[r]))
                   ELSE UNCHANGED <<archive, comod>>
            BY <2>5, ExampleChosen
        <3>3. spec \in Specs
            BY DEF TypeOK
        <3>4. ExampleFiles(r, spec, alt[r]) \in SUBSET File
            BY <3>1, <3>3, StageFilesType
        <3>5. archive' \in [Sessions -> SUBSET File] /\ comod' \in SUBSET Requests
            BY <3>2, <3>4, WriteType DEF TypeOK
        <3> QED
            BY <2>5, <3>2, <3>5 DEF WriteExample, TypeOK
    <2>6. CASE WritePages(r)
        <3>1. alt[r] \in Servers
            BY <2>6, FieldsType DEF WritePages, Prepared, Validated, Filling
        <3>2. PageFiles(r, alt[r]) \in SUBSET File
            BY <3>1, StageFilesType, SpecsAssumption DEF SplitSpecs
        <3>3. archive' \in [Sessions -> SUBSET File] /\ comod' \in SUBSET Requests
            BY <2>6, <3>2, WriteType DEF WritePages, TypeOK
        <3> QED
            BY <2>6, <3>3 DEF WritePages, Goto, TypeOK, Stages
    <2>7. CASE WriteServerFiles(r)
        <3> DEFINE old == archive[SessionOf(r)]
                   kept(dirs) == RemoveDefaults(old, r, dirs)
                   new == ServerFiles(r, alt[r], specList[param[r]])
        <3>1. /\ alt[r] \in Servers /\ param[r] \in Requests
              /\ SessionOf(r) \in Sessions
            BY <2>7, FieldsType DEF WriteServerFiles, Prepared, Validated, Filling
        <3>2. \A dirs : kept(dirs) \in SUBSET File
            BY <3>1 DEF RemoveDefaults, TypeOK
        <3>3. new \in SUBSET File
            BY <2>a, <3>1, StageFilesType, SpecsAssumption DEF SplitSpecs
        <3>4. \A dirs : \A begun \in SUBSET new : Put(kept(dirs), begun) \in SUBSET File
            BY <3>2, <3>3 DEF Put
        <3>5. \/ \E dirs : \E begun \in SUBSET new : Store(r, Put(kept(dirs), begun))
              \/ \E gone : SetArchive(r, old \ gone)
            BY <2>7, WriteServerCases
        <3>a. \A gone : old \ gone \in SUBSET File
            BY <3>1 DEF TypeOK
        <3> HIDE DEF old, kept, new
        <3>6. archive' \in [Sessions -> SUBSET File] /\ comod' \in SUBSET Requests
            BY <3>4, <3>5, <3>a, SetArchiveType, StoreType
        <3> QED
            BY <2>7, <3>6 DEF WriteServerFiles, Goto, TypeOK, Stages
    <2> QED
        BY <1>4, <2>1, <2>2, <2>3, <2>4, <2>5, <2>6, <2>7 DEF CreateArtifacts
<1>5. ASSUME NEW r \in Requests, CreateArchive(r)
      PROVE  TypeOK'
    <2>a. SessionOf(r) \in Sessions
        BY FieldsType
    <2>1. CASE SubmitLog(r)
        BY <2>1 DEF SubmitLog, Goto, TypeOK, Stages
    <2>2. CASE StartArchive(r)
        BY <2>2, <2>a DEF StartArchive, LastStage, Goto, TypeOK, Stages
    <2>3. CASE FinishArchive(r)
        <3>1. archive' \in [Sessions -> SUBSET File] /\ comod' \in SUBSET Requests
            BY <2>3, SetArchiveType DEF FinishArchive, ClearArchive
        <3>2. zip' \in [Requests -> SUBSET File]
            BY <2>3, <2>a DEF FinishArchive, ClearArchive, TypeOK, Put, RacyFiles
        <3> QED
            BY <2>3, <3>1, <3>2 DEF FinishArchive, ClearArchive, Goto, TypeOK, Stages
    <2> QED
        BY <1>5, <2>1, <2>2, <2>3 DEF CreateArchive
<1> QED
    BY <1>1, <1>2, <1>3, <1>4, <1>5 DEF Next, Run, Quiet

-----------------------------------------------------------------------------
(* Who is active together with whom *)

\* A stage moves its own request only, never back to the start, and leaves the
\* projects and the history alone.
LEMMA RunSummary ==
    ASSUME TypeOK, NEW r \in Requests, Run(r)
    PROVE  /\ r \in Active
           /\ pc' \in [Requests -> Stages]
           /\ pc'[r] \notin {"idle", "begun"}
           /\ \A q \in Requests \ {r} : pc'[q] = pc[q]
           /\ project' = project /\ met' = met
           /\ \A q \in Requests \ {r} : zip'[q] = zip[q]
           /\ \A q \in Requests \ {r} : param'[q] = param[q] /\ alt'[q] = alt[q]
<1> USE DEF Goto, TypeOK, Stages, Active
<1>1. CASE Prepare(r)
    <2>1. CASE SetAddonOptions(r)
        BY <2>1 DEF SetAddonOptions
    <2>2. CASE ResetSpecs(r)
        BY <2>2 DEF ResetSpecs
    <2>3. CASE AddSpec(r)
        BY <2>3 DEF AddSpec
    <2>4. CASE PublishSpecs(r)
        BY <2>4 DEF PublishSpecs
    <2>5. CASE DetermineAlternatives(r)
        BY <2>5 DEF DetermineAlternatives
    <2> QED
        BY <1>1, <2>1, <2>2, <2>3, <2>4, <2>5 DEF Prepare
<1>2. CASE CreateArtifacts(r)
    <2>1. CASE MavenMain(r)
        BY <2>1 DEF MavenMain, AfterMainPom
    <2>2. CASE MavenSecond(r)
        BY <2>2 DEF MavenSecond
    <2>3. CASE Gradle(r)
        BY <2>3 DEF Gradle
    <2>4. CASE BeansAndJava(r)
        BY <2>4 DEF BeansAndJava
    <2>5. CASE WriteExample(r)
        BY <2>5 DEF WriteExample
    <2>6. CASE WritePages(r)
        BY <2>6 DEF WritePages
    <2>7. CASE WriteServerFiles(r)
        BY <2>7 DEF WriteServerFiles
    <2> QED
        BY <1>2, <2>1, <2>2, <2>3, <2>4, <2>5, <2>6, <2>7 DEF CreateArtifacts
<1>3. CASE CreateArchive(r)
    <2>1. CASE SubmitLog(r)
        BY <2>1 DEF SubmitLog
    <2>2. CASE StartArchive(r)
        BY <2>2 DEF StartArchive, LastStage
    <2>3. CASE FinishArchive(r)
        BY <2>3 DEF FinishArchive, ClearArchive
    <2> QED
        BY <1>3, <2>1, <2>2, <2>3 DEF CreateArchive
<1> QED
    BY <1>1, <1>2, <1>3 DEF Run

\* The history only grows.
LEMMA MetGrows ==
    ASSUME TypeOK, NEW r \in Requests, Arrive(r), NEW q \in Requests, met[r] = {}
    PROVE  met[q] \subseteq met'[q]
    BY DEF Arrive, TypeOK

LEMMA MetStep == TypeOK /\ MetInv /\ ZipInv /\ [Next]_vars => MetInv'
<1> SUFFICES ASSUME TypeOK, MetInv, ZipInv, [Next]_vars
             PROVE  MetInv'
    OBVIOUS
<1>1. CASE UNCHANGED vars
    BY <1>1 DEF vars, MetInv, Active
<1>2. ASSUME NEW r \in Requests, Arrive(r)
      PROVE  MetInv'
    BY <1>2 DEF Arrive, Goto, Active, TypeOK, MetInv
<1>3. ASSUME NEW r \in Requests, Run(r)
      PROVE  MetInv'
    BY <1>3, RunSummary DEF MetInv, Active
<1> QED
    BY <1>1, <1>2, <1>3 DEF Next, Quiet

-----------------------------------------------------------------------------
(* The shared fields *)

LEMMA FieldsStep == TypeOK /\ MetInv /\ FieldsInv /\ [Next]_vars => FieldsInv'
<1> SUFFICES ASSUME TypeOK, MetInv, FieldsInv, [Next]_vars
             PROVE  FieldsInv'
    OBVIOUS
<1>1. CASE UNCHANGED vars
    BY <1>1 DEF vars, FieldsInv, Active, Around
<1>2. ASSUME NEW r \in Requests, Arrive(r)
      PROVE  FieldsInv'
    <2>1. \A q \in Requests : met[q] \subseteq met'[q]
        BY <1>2, MetGrows DEF MetInv, Arrive
    <2>2. \A q \in Requests \ {r} : pc'[q] = pc[q]
        BY <1>2 DEF Arrive, Goto, TypeOK
    <2>3. pc'[r] \in {"begun", "failed"}
        BY <1>2 DEF Arrive, Goto, TypeOK
    <2> QED
        BY <1>2, <2>1, <2>2, <2>3
        DEF Arrive, FieldsInv, Active, Around, Filling, Validated, Prepared
<1>3. ASSUME NEW r \in Requests, Run(r)
      PROVE  FieldsInv'
    <2>1. \A q \in Active : q # r => r \in Around(q) /\ Around(q)' = Around(q)
        BY <1>3, RunSummary DEF MetInv, Around
    <2>2. r \in Around(r) /\ Around(r)' = Around(r)
        BY <1>3, RunSummary DEF Around
    <2>3. (options' = options \/ options' = r) /\ (specsField' = specsField \/ specsField' = r)
        BY <1>3 DEF Run, Prepare, CreateArtifacts, CreateArchive, SetAddonOptions,
                    ResetSpecs, AddSpec, PublishSpecs, DetermineAlternatives,
                    MavenMain, AfterMainPom, MavenSecond, Gradle, BeansAndJava, WriteExample,
                    WritePages, WriteServerFiles, SubmitLog, StartArchive, LastStage, FinishArchive, ClearArchive
    <2>4. ASSUME NEW q \in Active', q # r
          PROVE  /\ pc'[q] # "begun" => options' \in Around(q)'
                 /\ pc'[q] \in Filling => specsField' \in Around(q)'
                 /\ pc'[q] \in Validated => param'[q] \in Around(q)'
                 /\ pc'[q] \in Prepared =>
                        \E p \in Around(q)' : alt'[q] = project'[p].server
        BY <1>3, <2>1, <2>3, <2>4, RunSummary DEF FieldsInv, Active
    <2>5. r \in Active
        BY <1>3, RunSummary
    <2> DEFINE Good ==
                 /\ pc'[r] \in Stages \ {"begun", "done", "failed"} => options' \in Around(r)'
                 /\ pc'[r] \in Filling => specsField' \in Around(r)'
                 /\ pc'[r] \in Validated => param'[r] \in Around(r)'
                 /\ pc'[r] \in Prepared =>
                        \E p \in Around(r)' : alt'[r] = project'[p].server
    <2>6. Good
        <3> USE <2>2, <2>5 DEF Goto, TypeOK, Filling, Validated, Prepared, Stages
        <3>1. CASE SetAddonOptions(r)
            BY <3>1 DEF SetAddonOptions
        <3>2. CASE ResetSpecs(r)
            BY <3>2 DEF ResetSpecs, FieldsInv
        <3>3. CASE AddSpec(r)
            BY <3>3 DEF AddSpec, FieldsInv
        <3>4. CASE PublishSpecs(r)
            BY <3>4 DEF PublishSpecs, FieldsInv
        <3>5. CASE DetermineAlternatives(r)
            BY <3>5 DEF DetermineAlternatives, FieldsInv
        <3>6. CASE CreateArtifacts(r) \/ CreateArchive(r)
            <4>1. pc[r] \in Prepared
                BY <3>6 DEF CreateArtifacts, CreateArchive, MavenMain, AfterMainPom, MavenSecond,
                            Gradle, BeansAndJava, WriteExample, WritePages,
                            WriteServerFiles, SubmitLog, StartArchive, LastStage, FinishArchive, ClearArchive
            <4>2. /\ options' = options /\ specsField' = specsField
                  /\ param' = param /\ alt' = alt /\ project' = project
                BY <3>6 DEF CreateArtifacts, CreateArchive, MavenMain, AfterMainPom, MavenSecond,
                            Gradle, BeansAndJava, WriteExample, WritePages,
                            WriteServerFiles, SubmitLog, StartArchive, LastStage, FinishArchive, ClearArchive
            <4> QED
                BY <4>1, <4>2 DEF FieldsInv
        <3> QED
            BY <1>3, <3>1, <3>2, <3>3, <3>4, <3>5, <3>6 DEF Run, Prepare
    <2>7. pc' \in [Requests -> Stages]
        BY <1>3, RunSummary
    <2> QED
        BY <2>4, <2>6, <2>7 DEF FieldsInv, Active
<1> QED
    BY <1>1, <1>2, <1>3 DEF Next, Quiet
-----------------------------------------------------------------------------
(* The files of a session *)

\* All that the stages of a request can write
StageFiles(r, main, server, list, deps, specs) ==
    {WebappFile(r), PomFile(r, main, server, list, deps)}
        \cup GradleFiles(r, server, list) \cup BeansFiles(r) \cup JavaFiles(r, server)
        \cup (UNION {ExampleFiles(r, spec, server) : spec \in specs})
        \cup PageFiles(r, server) \cup ServerFiles(r, server, deps)

\* What a stage writes for request r is r's, belongs to the server the stage
\* has been given, or to r's own, and shows only specs it has been given.
LEMMA StageFilesBy ==
    ASSUME TypeOK, NEW r \in Requests, NEW main \in BOOLEAN, NEW server, NEW list, NEW deps,
           NEW specs, NEW f \in StageFiles(r, main, server, list, deps, specs)
    PROVE  /\ f.by = r /\ f.server \in {server, project[r].server}
           /\ Shown(f) \subseteq list \cup deps \cup specs
<1>1. \A d, kind, sv, l, dp :
        LET g == FileOf(r, d, kind, Nobody, sv, l, dp)
        IN  /\ g.by = r /\ g.server = sv
            /\ kind # "key" => Shown(g) = l \cup dp
            /\ Shown(g) \subseteq l \cup dp \cup {JwtAuth}
    BY DEF FileOf, Shown
<1>2. CASE f \in {WebappFile(r), PomFile(r, main, server, list, deps)}
    BY <1>1, <1>2 DEF WebappFile, PomFile
<1>3. CASE f \in GradleFiles(r, server, list)
    BY <1>1, <1>3 DEF GradleFiles
<1>4. CASE f \in BeansFiles(r) \cup JavaFiles(r, server) \cup PageFiles(r, server)
    BY <1>1, <1>4 DEF BeansFiles, JavaFiles, PageFiles
<1>5. CASE \E spec \in specs : f \in ExampleFiles(r, spec, server)
    <2>1. PICK spec \in specs : f \in ExampleFiles(r, spec, server)
        BY <1>5
    <2>2. f = FileOf(r, MainDir(r), "example", spec, server, {}, {})
            \/ f = FileOf(r, SecondDir(r), "exampleB", spec, server, {}, {})
        BY <2>1 DEF ExampleFiles
    <2> QED
        BY <2>2 DEF FileOf, Shown
<1>6. CASE f \in ServerFiles(r, server, deps)
    <2>1. PICK w \in Writes(r, deps) :
                f = FileOf(r, PlaceOf(r, w), w.kind, Nobody, server, {}, {})
        BY <1>6 DEF ServerFiles
    <2>2. w.kind = "key" => JwtAuth \in deps
        BY ServerWritesAssumption, ProjectsAssumption DEF Writes, TypeOK, Project
    <2> QED
        BY <1>1, <2>1, <2>2
<1> QED
    BY <1>2, <1>3, <1>4, <1>5, <1>6 DEF StageFiles

\* The specs r can write into a file at its present stage
Seen(r) == mpVars[r] \cup specList[specsField] \cup specList[param[r]]

Own(r, f) ==
    /\ f.by = r
    /\ \E q \in Around(r) : f.server = project[q].server
    /\ Shown(f) \subseteq Seen(r)

\* The servers a request works with are those of requests around it.
LEMMA ServersAround ==
    ASSUME TypeOK, FieldsInv, NEW r \in Active
    PROVE  /\ \E q \in Around(r) : project[r].server = project[q].server
           /\ pc[r] # "begun" => \E q \in Around(r) : project[options].server = project[q].server
           /\ pc[r] \in Prepared => \E q \in Around(r) : alt[r] = project[q].server
    BY DEF FieldsInv, Around

\* A stage touches the map of its own session only, adds only its own files to
\* it, and leaves nothing in it when it delivers.
LEMMA RunFiles ==
    ASSUME TypeOK, FieldsInv, NEW r \in Requests, Run(r)
    PROVE  /\ \A s \in Sessions \ {SessionOf(r)} : archive'[s] = archive[s]
           /\ \A f \in archive'[SessionOf(r)] : f \in archive[SessionOf(r)] \/ Own(r, f)
           /\ pc'[r] = "done" => archive'[SessionOf(r)] = {}
<1>a. r \in Active /\ SessionOf(r) \in Sessions
    BY RunSummary, FieldsType
<1>b. ASSUME NEW files, SetArchive(r, files)
      PROVE  /\ \A s \in Sessions \ {SessionOf(r)} : archive'[s] = archive[s]
             /\ archive'[SessionOf(r)] = files
    BY <1>a, <1>b DEF SetArchive, TypeOK
<1>f. ASSUME NEW files, Store(r, files)
      PROVE  /\ \A s \in Sessions \ {SessionOf(r)} : archive'[s] = archive[s]
             /\ archive'[SessionOf(r)] \subseteq files
    <2>1. PICK kept \in SUBSET files : SetArchive(r, kept)
        BY <1>f DEF Store
    <2> QED
        BY <2>1, <1>b
<1>c. ASSUME NEW new, Write(r, new)
      PROVE  /\ \A s \in Sessions \ {SessionOf(r)} : archive'[s] = archive[s]
             /\ \A f \in archive'[SessionOf(r)] : f \in archive[SessionOf(r)] \/ f \in new
    BY <1>f, <1>c DEF Write, Put
<1>d. ASSUME NEW server, \E q \in Around(r) : server = project[q].server,
             NEW main \in BOOLEAN, NEW list, NEW deps, NEW specs,
             list \cup deps \cup specs \subseteq Seen(r),
             NEW f \in StageFiles(r, main, server, list, deps, specs)
      PROVE  Own(r, f)
    <2>1. /\ f.by = r /\ f.server \in {server, project[r].server}
          /\ Shown(f) \subseteq list \cup deps \cup specs
        BY <1>d, StageFilesBy
    <2>2. \E q \in Around(r) : project[r].server = project[q].server
        BY <1>a, ServersAround
    <2> QED
        BY <1>d, <2>1, <2>2 DEF Own
<1>e. \A stage : Goto(r, stage) /\ stage # "done" => pc'[r] # "done"
    BY DEF Goto, TypeOK
<1>1. CASE Prepare(r)
    <2>1. archive' = archive
        BY <1>1 DEF Prepare, SetAddonOptions, ResetSpecs, AddSpec, PublishSpecs,
                    DetermineAlternatives
    <2>2. pc'[r] # "done"
        BY <1>1 DEF Prepare, SetAddonOptions, ResetSpecs, AddSpec, PublishSpecs,
                    DetermineAlternatives, Goto, TypeOK
    <2> QED
        BY <2>1, <2>2
<1>2. CASE CreateArtifacts(r)
    <2>1. CASE MavenMain(r)
        <3> DEFINE pom == PomFile(r, TRUE, project[options].server, specList[specsField],
                                  specList[param[r]])
        <3>a. \A f \in StageFiles(r, TRUE, project[options].server, specList[specsField],
                                  specList[param[r]], {}) : Own(r, f)
            BY <2>1, <1>a, <1>d, ServersAround DEF MavenMain, Seen
        <3>1. Own(r, pom) /\ Own(r, WebappFile(r))
            BY <3>a DEF StageFiles
        <3>2. Write(r, {pom, WebappFile(r)}) \/ archive' = archive
            BY <2>1 DEF MavenMain, AfterMainPom
        <3>3. pc'[r] # "done"
            BY <2>1, <1>e DEF MavenMain, AfterMainPom
        <3> QED
            BY <3>1, <3>2, <3>3, <1>c
    <2>2. CASE MavenSecond(r)
        <3> DEFINE pom == PomFile(r, FALSE, project[options].server, specList[specsField],
                                  specList[param[r]])
        <3>a. \A f \in StageFiles(r, FALSE, project[options].server, specList[specsField],
                                  specList[param[r]], {}) : Own(r, f)
            BY <2>2, <1>a, <1>d, ServersAround DEF MavenSecond, Seen
        <3>1. Own(r, pom)
            BY <3>a DEF StageFiles
        <3>2. Write(r, {pom}) \/ archive' = archive
            BY <2>2 DEF MavenSecond
        <3>3. pc'[r] # "done"
            BY <2>2, <1>e DEF MavenSecond
        <3> QED
            BY <3>1, <3>2, <3>3, <1>c
    <2>3. CASE Gradle(r)
        <3>1. pc[r] \in Prepared
            BY <2>3 DEF Gradle, Prepared, Validated, Filling
        <3>a. \A f \in StageFiles(r, TRUE, alt[r], mpVars[r], {}, {}) : Own(r, f)
            BY <3>1, <1>a, <1>d, ServersAround DEF Seen
        <3>2. \A f \in {WebappFile(r)} \cup GradleFiles(r, alt[r], mpVars[r]) : Own(r, f)
            BY <3>a DEF StageFiles
        <3> QED
            BY <2>3, <3>2, <1>c, <1>e DEF Gradle
    <2>4. CASE BeansAndJava(r)
        <3>1. pc[r] \in Prepared
            BY <2>4 DEF BeansAndJava, Prepared, Validated, Filling
        <3>a. \A f \in StageFiles(r, TRUE, alt[r], {}, {}, {}) : Own(r, f)
            BY <3>1, <1>a, <1>d, ServersAround
        <3>2. \A f \in BeansFiles(r) \cup JavaFiles(r, alt[r]) : Own(r, f)
            BY <3>a DEF StageFiles
        <3> QED
            BY <2>4, <3>2, <1>c, <1>e DEF BeansAndJava
    <2>5. CASE WriteExample(r)
        <3>1. pc[r] \in Prepared
            BY <2>5 DEF WriteExample, Prepared, Validated, Filling
        <3>a. \A f \in StageFiles(r, TRUE, alt[r], {}, {}, specList[specsField]) : Own(r, f)
            BY <3>1, <1>a, <1>d, ServersAround DEF Seen
        <3>2. \A spec \in specList[specsField] : \A f \in ExampleFiles(r, spec, alt[r]) : Own(r, f)
            BY <3>a DEF StageFiles
        <3>3. PICK spec \in todo[r] :
                  IF spec \in specList[specsField]
                  THEN Write(r, ExampleFiles(r, spec, alt[r]))
                  ELSE UNCHANGED <<archive, comod>>
            BY <2>5, ExampleChosen
        <3>4. pc'[r] # "done"
            BY <2>5 DEF WriteExample
        <3>5. CASE spec \in specList[specsField] /\ Write(r, ExampleFiles(r, spec, alt[r]))
            BY <3>2, <3>4, <3>5, <1>c
        <3>6. CASE UNCHANGED <<archive, comod>>
            BY <3>4, <3>6
        <3> QED
            BY <3>3, <3>5, <3>6
    <2>6. CASE WritePages(r)
        <3>1. pc[r] \in Prepared
            BY <2>6 DEF WritePages, Prepared, Validated, Filling
        <3>a. \A f \in StageFiles(r, TRUE, alt[r], {}, {}, {}) : Own(r, f)
            BY <3>1, <1>a, <1>d, ServersAround
        <3>2. \A f \in PageFiles(r, alt[r]) : Own(r, f)
            BY <3>a DEF StageFiles
        <3> QED
            BY <2>6, <3>2, <1>c, <1>e DEF WritePages
    <2>7. CASE WriteServerFiles(r)
        <3> DEFINE old == archive[SessionOf(r)]
                   kept(dirs) == RemoveDefaults(old, r, dirs)
                   new == ServerFiles(r, alt[r], specList[param[r]])
        <3>1. pc[r] \in Prepared
            BY <2>7 DEF WriteServerFiles, Prepared, Validated, Filling
        <3>a. \A f \in StageFiles(r, TRUE, alt[r], {}, specList[param[r]], {}) : Own(r, f)
            BY <3>1, <1>a, <1>d, ServersAround DEF Seen
        <3>2. \A f \in new : Own(r, f)
            BY <3>a DEF StageFiles
        <3>3. \A dirs : kept(dirs) \subseteq old
            BY DEF RemoveDefaults
        <3>4. \A dirs : \A begun \in SUBSET new : \A f \in Put(kept(dirs), begun) :
                f \in old \/ Own(r, f)
            BY <3>2, <3>3 DEF Put
        <3>5. \/ \E dirs : \E begun \in SUBSET new : Store(r, Put(kept(dirs), begun))
              \/ \E gone : SetArchive(r, old \ gone)
            BY <2>7, WriteServerCases
        <3>6. pc'[r] # "done"
            BY <2>7, <1>e DEF WriteServerFiles
        <3> HIDE DEF kept, new
        <3>7. CASE \E dirs : \E begun \in SUBSET new : Store(r, Put(kept(dirs), begun))
            <4>1. PICK dirs : \E begun \in SUBSET new : Store(r, Put(kept(dirs), begun))
                BY <3>7
            <4>2. PICK begun \in SUBSET new : Store(r, Put(kept(dirs), begun))
                BY <4>1
            <4> QED
                BY <3>4, <3>6, <4>2, <1>f
        <3>8. CASE \E gone : SetArchive(r, old \ gone)
            <4>1. PICK gone : SetArchive(r, old \ gone)
                BY <3>8
            <4> QED
                BY <3>6, <4>1, <1>b
        <3> QED
            BY <3>5, <3>7, <3>8
    <2> QED
        BY <1>2, <2>1, <2>2, <2>3, <2>4, <2>5, <2>6, <2>7 DEF CreateArtifacts
<1>3. CASE CreateArchive(r)
    <2>1. CASE SubmitLog(r) \/ StartArchive(r)
        BY <2>1, <1>e DEF SubmitLog, StartArchive, LastStage
    <2>2. CASE FinishArchive(r)
        BY <2>2, <1>b DEF FinishArchive, ClearArchive
    <2> QED
        BY <1>3, <2>1, <2>2 DEF CreateArchive
<1> QED
    BY <1>1, <1>2, <1>3 DEF Run
\* What has been said of the writer of a file stays true.
LEMMA ServersStay ==
    ASSUME TypeOK, MetInv, [Next]_vars, NEW r \in Requests
    PROVE  /\ project' = project
           /\ met[r] \subseteq met'[r] /\ Around(r) \subseteq Around(r)'
           /\ pc[r] = "failed" => pc'[r] = "failed"
           /\ pc'[r] = "idle" => pc[r] = "idle"
<1>1. CASE UNCHANGED vars
    BY <1>1 DEF vars, Around
<1>2. ASSUME NEW q \in Requests, Arrive(q)
      PROVE  /\ project' = project /\ met[r] \subseteq met'[r]
             /\ pc[r] = "failed" => pc'[r] = "failed"
             /\ pc'[r] = "idle" => pc[r] = "idle"
    BY <1>2, MetGrows DEF Arrive, MetInv, Goto, TypeOK
<1>3. ASSUME NEW q \in Requests, Run(q)
      PROVE  /\ project' = project /\ met' = met
             /\ pc[r] = "failed" => pc'[r] = "failed"
             /\ pc'[r] = "idle" => pc[r] = "idle"
    BY <1>3, RunSummary DEF Active
<1> QED
    BY <1>1, <1>2, <1>3 DEF Next, Quiet, Around

\* Nobody but its requests' stages changes a map or a zip file.
LEMMA OthersLeave ==
    ASSUME TypeOK, NEW r \in Requests, Arrive(r)
    PROVE  /\ archive' = archive /\ zip' = zip
           /\ pc'[r] \notin {"idle", "done", "zipping"}
           /\ \A q \in Requests \ {r} : pc'[q] = pc[q]
    BY DEF Arrive, Goto, TypeOK

LEMMA ArchiveStep ==
    TypeOK /\ MetInv /\ FieldsInv /\ ArchiveInv /\ [Next]_vars => ArchiveInv'
<1> SUFFICES ASSUME TypeOK, MetInv, FieldsInv, ArchiveInv, [Next]_vars
             PROVE  ArchiveInv'
    OBVIOUS
<1>a. \A s \in Sessions : \A f \in archive[s] : f.by \in Requests
    BY DEF TypeOK, File
<1>b. ASSUME NEW f, f.by \in Requests, ServerOfSome(f)
      PROVE  ServerOfSome(f)'
    BY <1>b, ServersStay DEF ServerOfSome
<1>1. CASE UNCHANGED vars
    BY <1>1 DEF vars, ArchiveInv, ServerOfSome, SessionOf, Around
<1>2. ASSUME NEW r \in Requests, Arrive(r)
      PROVE  ArchiveInv'
    <2>1. ASSUME NEW s \in Sessions, NEW f \in archive[s]
          PROVE  SessionOf(f.by)' = s /\ pc'[f.by] \notin {"idle", "done"} /\ ServerOfSome(f)'
        BY <1>2, <2>1, <1>a, <1>b, OthersLeave, ServersStay DEF ArchiveInv, SessionOf
    <2> QED
        BY <1>2, <2>1, OthersLeave DEF ArchiveInv
<1>3. ASSUME NEW r \in Requests, Run(r)
      PROVE  ArchiveInv'
    <2>1. ASSUME NEW s \in Sessions, NEW f \in archive'[s]
          PROVE  SessionOf(f.by)' = s /\ pc'[f.by] \notin {"idle", "done"} /\ ServerOfSome(f)'
        <3>1. CASE f \in archive[s]
            <4>1. f.by \in Requests /\ SessionOf(f.by) = s
                BY <3>1, <1>a DEF ArchiveInv
            <4>2. SessionOf(f.by)' = s /\ ServerOfSome(f)'
                BY <3>1, <4>1, <1>b, ServersStay DEF ArchiveInv, SessionOf
            <4>3. f.by = r => pc'[r] # "done"
                BY <1>3, <2>1, <4>1, RunFiles
            <4> QED
                BY <1>3, <3>1, <4>1, <4>2, <4>3, RunSummary DEF ArchiveInv
        <3>2. CASE f \notin archive[s]
            <4>1. s = SessionOf(r) /\ Own(r, f) /\ pc'[r] # "done"
                BY <1>3, <2>1, <3>2, RunFiles
            <4>2. SessionOf(r)' = s /\ pc'[r] # "idle"
                BY <1>3, <4>1, RunSummary DEF SessionOf
            <4>3. ServerOfSome(f)'
                BY <4>1, <1>b DEF Own, ServerOfSome
            <4> QED
                BY <4>1, <4>2, <4>3 DEF Own
        <3> QED
            BY <3>1, <3>2
    <2> QED
        BY <2>1 DEF ArchiveInv
<1> QED
    BY <1>1, <1>2, <1>3 DEF Next, Quiet

LEMMA ZipStep ==
    TypeOK /\ MetInv /\ ArchiveInv /\ ZipInv /\ [Next]_vars => ZipInv'
<1> SUFFICES ASSUME TypeOK, MetInv, ArchiveInv, ZipInv, [Next]_vars
             PROVE  ZipInv'
    OBVIOUS
<1> DEFINE Good(r, f) == /\ f.by \in Requests
                         /\ SessionOf(f.by) = SessionOf(r)
                         /\ pc[f.by] # "idle"
                         /\ ServerOfSome(f)
                         /\ f.by \in Around(r) \/ pc[f.by] = "failed"
<1>a. ASSUME NEW r \in Requests, NEW f, Good(r, f)
      PROVE  Good(r, f)'
    BY <1>a, ServersStay DEF ServerOfSome, SessionOf
<1>b. \A r \in Requests : \A f \in zip[r] : Good(r, f)
    BY DEF ZipInv, TypeOK, File
<1>c. \A r \in Active : \A f \in archive[SessionOf(r)] : Good(r, f)
    BY ProjectsAssumption DEF ArchiveInv, TypeOK, File, SessionOf, Project, MetInv, Active, Around
<1>1. CASE UNCHANGED vars
    BY <1>1 DEF vars, ZipInv, ServerOfSome, SessionOf, Around
<1>2. ASSUME NEW r \in Requests, Arrive(r)
      PROVE  ZipInv'
    <2>1. \A q \in Requests : pc'[q] \notin {"zipping", "done"} => zip'[q] = {}
        BY <1>2, OthersLeave DEF ZipInv, MetInv, Arrive
    <2>2. \A q \in Requests : \A f \in zip'[q] : Good(q, f)'
        BY <1>2, <1>a, <1>b, OthersLeave
    <2> QED
        BY <2>1, <2>2 DEF ZipInv
<1>3. ASSUME NEW r \in Requests, Run(r)
      PROVE  ZipInv'
    <2>a. r \in Active /\ \A q \in Requests \ {r} : pc'[q] = pc[q] /\ zip'[q] = zip[q]
        BY <1>3, RunSummary
    <2>1. CASE StartArchive(r)
        <3>1. zip'[r] = archive[SessionOf(r)] /\ pc'[r] = "zipping"
            BY <2>1 DEF StartArchive, LastStage, Goto, TypeOK
        <3>2. \A q \in Requests : \A f \in zip'[q] : Good(q, f)'
            BY <2>a, <3>1, <1>a, <1>b, <1>c
        <3>3. \A q \in Requests : pc'[q] \notin {"zipping", "done"} => zip'[q] = {}
            BY <2>a, <3>1 DEF ZipInv
        <3> QED
            BY <3>2, <3>3 DEF ZipInv
    <2>2. CASE FinishArchive(r)
        <3>1. /\ zip'[r] \subseteq zip[r] \cup archive[SessionOf(r)]
              /\ pc'[r] = "done" \/ zip'[r] = {}
            BY <2>2 DEF FinishArchive, Put, RacyFiles, Goto, TypeOK
        <3>2. \A q \in Requests : \A f \in zip'[q] : Good(q, f)'
            BY <2>a, <3>1, <1>a, <1>b, <1>c
        <3>3. \A q \in Requests : pc'[q] \notin {"zipping", "done"} => zip'[q] = {}
            BY <2>a, <3>1 DEF ZipInv
        <3> QED
            BY <3>2, <3>3 DEF ZipInv
    <2>3. CASE ~StartArchive(r) /\ ~FinishArchive(r)
        <3>1. zip' = zip /\ pc[r] # "zipping" /\ pc[r] # "done"
            BY <1>3, <2>3 DEF Run, Prepare, CreateArtifacts, CreateArchive, SetAddonOptions,
                    ResetSpecs, AddSpec, PublishSpecs, DetermineAlternatives,
                    MavenMain, AfterMainPom, MavenSecond, Gradle, BeansAndJava, WriteExample,
                    WritePages, WriteServerFiles, SubmitLog
        <3> QED
            BY <2>a, <3>1, <1>a, <1>b DEF ZipInv
    <2> QED
        BY <2>1, <2>2, <2>3
<1> QED
    BY <1>1, <1>2, <1>3 DEF Next, Quiet

\* A zip file is made from the map of the session.
LEMMA ZipFrom ==
    ASSUME TypeOK, NEW r \in Requests, Run(r), NEW f \in zip'[r]
    PROVE  f \in archive[SessionOf(r)] \cup zip[r]
<1>1. CASE Prepare(r) \/ CreateArtifacts(r)
    BY <1>1 DEF Prepare, SetAddonOptions, ResetSpecs, AddSpec, PublishSpecs, DetermineAlternatives,
                CreateArtifacts, MavenMain, MavenSecond, Gradle, BeansAndJava, WriteExample,
                WritePages, WriteServerFiles
<1>2. CASE SubmitLog(r)
    BY <1>2 DEF SubmitLog
<1>3. CASE StartArchive(r)
    BY <1>3 DEF StartArchive, TypeOK
<1>4. CASE FinishArchive(r)
    BY <1>4 DEF FinishArchive, RacyFiles, Put, TypeOK
<1> QED
    BY <1>1, <1>2, <1>3, <1>4 DEF Run, CreateArchive

-----------------------------------------------------------------------------
(* The specs *)

\* What reaches a request's list only grows with those it meets.
LEMMA ReachingGrows ==
    ASSUME TypeOK, MetInv, [Next]_vars, NEW r \in Requests
    PROVE  Reaching(r) \subseteq Reaching(r)'
<1>1. \A q \in Requests : Around(q) \subseteq Around(q)' /\ Around(q) \subseteq Requests
    BY ServersStay DEF Around, TypeOK
<1>2. project' = project
    BY ServersStay
<1> QED
    BY <1>1, <1>2 DEF Reaching

\* It holds what is asked for around any request that r overlaps with.
LEMMA ReachingSpecs ==
    ASSUME NEW r, NEW q \in Around(r), NEW y \in Around(q)
    PROVE  project[y].specs \subseteq Reaching(r)
    BY DEF Reaching

\* What an active request reads when it writes files reaches it.
LEMMA SeenReaching ==
    ASSUME SpecsInv, NEW r \in Active, pc[r] \in Validated
    PROVE  Seen(r) \subseteq Reaching(r)
    BY DEF SpecsInv, Seen, Validated

\* The list a request reads, after a step
SpecsOf(r) ==
    /\ pc[r] = "filling" => \E y \in Around(r) : todo[r] \subseteq project[y].specs
    /\ pc[r] \in Filling => /\ mpVars[r] \subseteq Reaching(r)
                           /\ specList[specsField] \subseteq Reaching(r)
    /\ pc[r] \in Validated => specList[param[r]] \subseteq Reaching(r)

\* A step that leaves what r reads, or adds specs to it that reach r
LEMMA SpecsOfStays ==
    ASSUME TypeOK, MetInv, FieldsInv, [Next]_vars, NEW r \in Active, SpecsOf(r),
           pc'[r] = "filling" => pc[r] = "filling" /\ todo'[r] \subseteq todo[r],
           pc'[r] \in Filling => pc[r] \in Filling,
           pc'[r] \in Validated => pc[r] \in Validated,
           mpVars'[r] = mpVars[r], param'[r] = param[r], specsField' = specsField,
           NEW more, more \subseteq Reaching(r),
           \A q \in Requests : specList'[q] \subseteq specList[q] \cup more
    PROVE  SpecsOf(r)'
<1>1. r \in Requests /\ Reaching(r) \subseteq Reaching(r)' /\ Around(r) \subseteq Around(r)'
      /\ project' = project
    BY ReachingGrows, ServersStay DEF Active
<1>2. pc[r] \in Filling => specsField \in Requests
    BY <1>1, FieldsType
<1>3. pc[r] \in Validated => param[r] \in Requests
    BY <1>1, FieldsType
<1> QED
    BY <1>1, <1>2, <1>3 DEF SpecsOf

LEMMA SpecsReadStep ==
    ASSUME TypeOK, MetInv, FieldsInv, SpecsInv, [Next]_vars, NEW r \in Active'
    PROVE  SpecsOf(r)'
<1>a. r \in Requests
    BY DEF Active
<1>b. ASSUME r \in Active
      PROVE  SpecsOf(r)
    BY <1>b DEF SpecsInv, SpecsOf
<1>1. CASE UNCHANGED vars
    <2>1. r \in Active
        BY <1>1 DEF vars, Active
    <2> QED
        BY <1>1, <1>b, <2>1 DEF vars, SpecsOf, Reaching, Around
<1>2. ASSUME NEW q \in Requests, Arrive(q)
      PROVE  SpecsOf(r)'
    <2>1. CASE q = r
        BY <1>2, <2>1 DEF Arrive, Goto, TypeOK, SpecsOf, Filling, Validated
    <2>2. CASE q # r
        <3>1. r \in Active /\ pc'[r] = pc[r]
            BY <1>a, <1>2, <2>2, OthersLeave DEF Active
        <3> QED
            BY <1>2, <1>b, <3>1, SpecsOfStays DEF Arrive
    <2> QED
        BY <2>1, <2>2
<1>3. ASSUME NEW q \in Requests, Run(q)
      PROVE  SpecsOf(r)'
    <2>1. /\ q \in Active /\ r \in Active /\ project' = project /\ met' = met
          /\ \A x \in Requests \ {q} : pc'[x] = pc[x] /\ param'[x] = param[x]
        BY <1>a, <1>3, RunSummary DEF Active
    <2>2. q \in Around(r) /\ Around(r)' = Around(r) /\ Reaching(r)' = Reaching(r)
        BY <2>1 DEF MetInv, Around, Reaching
    <2>3. SpecsOf(r)
        BY <2>1, <1>b
    <2>4. CASE ResetSpecs(q)
        <3>1. options \in Around(q) /\ options \in Requests
            BY <2>1, <2>4, FieldsType DEF FieldsInv, ResetSpecs, Stages
        <3>2. project[options].specs \subseteq Reaching(q)
            BY <3>1, ReachingSpecs DEF Around
        <3>3. /\ specsField' = q /\ specList' = [specList EXCEPT ![q] = {}]
              /\ param' = param /\ pc'[q] = "filling"
            BY <2>4 DEF ResetSpecs, Goto, TypeOK
        <3>4. /\ specList'[specsField'] = {}
              /\ \A x \in Requests : specList'[x] \subseteq specList[x]
            BY <3>3 DEF TypeOK
        <3>5. CASE r = q
            BY <2>1, <2>2, <2>4, <3>1, <3>2, <3>3, <3>4, <3>5
            DEF SpecsOf, ResetSpecs, TypeOK, Validated, Around
        <3>6. CASE r # q
            <4>1. /\ pc'[r] = pc[r] /\ todo'[r] = todo[r] /\ mpVars'[r] = mpVars[r]
                  /\ param'[r] = param[r]
                BY <2>1, <2>4, <3>6, <1>a DEF ResetSpecs, TypeOK
            <4>2. pc[r] \in Validated => param[r] \in Requests
                BY <1>a, FieldsType
            <4> QED
                BY <2>1, <2>2, <2>3, <3>4, <4>1, <4>2 DEF SpecsOf
        <3> QED
            BY <3>5, <3>6
    <2>5. CASE AddSpec(q)
        <3>1. PICK spec \in todo[q] :
                /\ todo' = [todo EXCEPT ![q] = @ \ {spec}]
                /\ \/ specList' = [specList EXCEPT ![specsField] = @ \cup {spec}] /\ pc' = pc
                   \/ specList' = specList /\ (Goto(q, "filling") \/ Goto(q, "failed"))
            BY <2>5 DEF AddSpec
        <3>2. pc[q] = "filling" /\ pc'[q] \in {"filling", "failed"}
            BY <2>5, <3>1 DEF AddSpec, Goto, TypeOK
        <3>3. spec \in Reaching(r)
            <4>1. PICK y \in Around(q) : todo[q] \subseteq project[y].specs
                BY <2>1, <3>2 DEF SpecsInv
            <4> QED
                BY <2>2, <4>1, ReachingSpecs
        <3>4. \A x \in Requests : specList'[x] \subseteq specList[x] \cup {spec}
            BY <3>1 DEF TypeOK
        <3>5. /\ todo'[r] \subseteq todo[r]
              /\ mpVars' = mpVars /\ param' = param /\ specsField' = specsField
            BY <2>5, <3>1, <1>a DEF AddSpec, TypeOK
        <3>6. pc'[r] = pc[r] \/ pc'[r] = "failed"
            BY <2>1, <3>2, <1>a
        <3>7. {spec} \subseteq Reaching(r)
            BY <3>3
        <3> QED
            BY <2>1, <2>3, <3>4, <3>5, <3>6, <3>7, SpecsOfStays DEF Filling, Validated
    <2>6. CASE PublishSpecs(q)
        <3>1. /\ pc[q] = "filling" /\ pc'[q] = "validated" /\ param' = [param EXCEPT ![q] = specsField]
              /\ todo' = todo /\ mpVars' = mpVars /\ specsField' = specsField /\ specList' = specList
            BY <2>6 DEF PublishSpecs, Goto, TypeOK
        <3>2. CASE r = q
            BY <2>2, <2>3, <3>1, <3>2 DEF SpecsOf, TypeOK, Filling
        <3>3. CASE r # q
            BY <2>1, <2>2, <2>3, <3>1, <3>3, <1>a DEF SpecsOf
        <3> QED
            BY <3>2, <3>3
    <2>7. CASE ~ResetSpecs(q) /\ ~AddSpec(q) /\ ~PublishSpecs(q)
        <3>1. /\ specList' = specList /\ mpVars' = mpVars /\ param' = param
              /\ specsField' = specsField
              /\ pc[q] \in Validated \/ pc'[q] = "optioned"
              /\ pc'[q] # "filling"
            BY <1>3, <2>7 DEF Run, Prepare, CreateArtifacts, CreateArchive, SetAddonOptions,
                    DetermineAlternatives, MavenMain, AfterMainPom, MavenSecond, Gradle,
                    BeansAndJava, WriteExample, WritePages, WriteServerFiles, SubmitLog,
                    StartArchive, LastStage, FinishArchive, ClearArchive, Goto, TypeOK, Validated,
                    Filling
        <3>2. r # q => todo'[r] = todo[r]
            BY <1>3, <2>7, <1>a DEF Run, Prepare, CreateArtifacts, CreateArchive, SetAddonOptions,
                    DetermineAlternatives, MavenMain, MavenSecond, Gradle,
                    BeansAndJava, WriteExample, WritePages, WriteServerFiles, SubmitLog,
                    StartArchive, FinishArchive, TypeOK
        <3>3. /\ pc'[r] = "filling" => pc[r] = "filling" /\ todo'[r] \subseteq todo[r]
              /\ pc'[r] \in Filling => pc[r] \in Filling
              /\ pc'[r] \in Validated => pc[r] \in Validated
            BY <2>1, <3>1, <3>2, <1>a DEF Filling, Validated
        <3>4. {} \subseteq Reaching(r) /\ \A x \in Requests : specList'[x] \subseteq specList[x] \cup {}
            BY <3>1
        <3> QED
            BY <2>1, <2>3, <3>1, <3>3, <3>4, SpecsOfStays
    <2> QED
        BY <2>4, <2>5, <2>6, <2>7
<1> QED
    BY <1>1, <1>2, <1>3 DEF Next, Quiet

LEMMA SpecsStep ==
    TypeOK /\ MetInv /\ FieldsInv /\ SpecsInv /\ [Next]_vars => SpecsInv'
<1> SUFFICES ASSUME TypeOK, MetInv, FieldsInv, SpecsInv, [Next]_vars
             PROVE  SpecsInv'
    OBVIOUS
<1> DEFINE Fine(f) == f.by \in Requests /\ Shown(f) \subseteq Reaching(f.by)
<1>1. ASSUME NEW f, Fine(f)
      PROVE  Fine(f)'
    BY <1>1, ReachingGrows DEF Shown
<1>2. /\ \A s \in Sessions : \A f \in archive[s] : Fine(f)
      /\ \A r \in Requests : \A f \in zip[r] : Fine(f)
    BY DEF SpecsInv, TypeOK, File
<1>3. \A r \in Active' : SpecsOf(r)'
    BY SpecsReadStep
<1>4. /\ \A s \in Sessions : \A f \in archive'[s] : Fine(f)'
      /\ \A r \in Requests : \A f \in zip'[r] : Fine(f)'
    <2>1. CASE archive' = archive /\ zip' = zip
        BY <2>1, <1>1, <1>2
    <2>2. ASSUME NEW q \in Requests, Run(q)
          PROVE  /\ \A s \in Sessions : \A f \in archive'[s] : Fine(f)'
                 /\ \A r \in Requests : \A f \in zip'[r] : Fine(f)'
        <3>1. q \in Active /\ SessionOf(q) \in Sessions
              /\ \A r \in Requests \ {q} : zip'[r] = zip[r]
            BY <2>2, RunSummary, FieldsType
        <3>2. archive' = archive \/ pc[q] \in Validated
            BY <2>2 DEF Run, Prepare, CreateArtifacts, CreateArchive, SetAddonOptions, ResetSpecs,
                    AddSpec, PublishSpecs, DetermineAlternatives, MavenMain, MavenSecond, Gradle,
                    BeansAndJava, WriteExample, WritePages, WriteServerFiles, SubmitLog,
                    StartArchive, FinishArchive, Validated, Filling
        <3>3. ASSUME NEW s \in Sessions, NEW f \in archive'[s]
              PROVE  Fine(f)'
            <4>1. CASE f \in archive[s]
                BY <4>1, <1>1, <1>2
            <4>2. CASE f \notin archive[s]
                <5>1. Own(q, f) /\ pc[q] \in Validated
                    BY <2>2, <3>2, <3>3, <4>2, RunFiles
                <5> QED
                    BY <3>1, <5>1, <1>1, SeenReaching DEF Own
            <4> QED
                BY <4>1, <4>2
        <3>4. ASSUME NEW r \in Requests, NEW f \in zip'[r]
              PROVE  Fine(f)'
            <4>1. CASE r = q
                BY <2>2, <3>1, <3>4, <4>1, <1>1, <1>2, ZipFrom
            <4>2. CASE r # q
                BY <3>1, <3>4, <4>2, <1>1, <1>2
            <4> QED
                BY <4>1, <4>2
        <3> QED
            BY <3>3, <3>4
    <2> QED
        BY <2>1, <2>2, OthersLeave DEF Next, Quiet, vars
<1> QED
    BY <1>3, <1>4 DEF SpecsInv, SpecsOf

-----------------------------------------------------------------------------
(* The theorems *)

SafeInv == TypeOK /\ MetInv /\ FieldsInv /\ ArchiveInv /\ ZipInv

LEMMA SafeInit == Init => SafeInv
<1> SUFFICES ASSUME Init
             PROVE  SafeInv
    OBVIOUS
<1>1. TypeOK
    BY TypeInit
<1>2. MetInv /\ FieldsInv
    BY DEF Init, MetInv, FieldsInv, Active
<1>3. ArchiveInv /\ ZipInv
    BY DEF Init, ArchiveInv, ZipInv
<1> QED
    BY <1>1, <1>2, <1>3 DEF SafeInv

LEMMA SafeStep == SafeInv /\ [Next]_vars => SafeInv'
    BY TypeStep, MetStep, FieldsStep, ArchiveStep, ZipStep DEF SafeInv

LEMMA SafeCorrect == Spec => []SafeInv
    BY SafeInit, SafeStep, PTL DEF Spec

\* The fields that all requests share never hold null when they are read, and
\* every stage writes well-formed files into its session's map.
THEOREM TypeCorrect == Spec => []TypeOK
<1>1. SafeInv => TypeOK
    BY DEF SafeInv
<1> QED
    BY <1>1, SafeCorrect, PTL

\* ZipFileCreator keeps sessions apart, although the addons do not.
THEOREM SessionsIsolated == Spec => []SessionIsolation
<1>1. SafeInv => SessionIsolation
    BY DEF SafeInv, ZipInv, SessionIsolation
<1> QED
    BY <1>1, SafeCorrect, PTL

\* A stranger's file in a zip comes from a request that overlapped or failed.
THEOREM StrangersCorrect == Spec => []StrangersExplained
<1>1. SafeInv => StrangersExplained
    BY DEF SafeInv, ZipInv, StrangersExplained, Around
<1> QED
    BY <1>1, SafeCorrect, PTL

\* The addon's fields never serve a request what an earlier one left in them.
THEOREM ServersCorrect == Spec => []ServerExplained
<1>1. SafeInv => ServerExplained
    BY DEF SafeInv, ZipInv, ServerOfSome, Around, ServerExplained
<1> QED
    BY <1>1, SafeCorrect, PTL

LEMMA SpecsInvCorrect == Spec => []SpecsInv
<1>1. Init => SpecsInv
    BY DEF Init, SpecsInv, Active
<1>2. SafeInv /\ SpecsInv /\ [Next]_vars => SpecsInv'
    BY SpecsStep DEF SafeInv
<1> QED
    BY <1>1, <1>2, SafeCorrect, PTL DEF Spec

\* Lists and fields that requests share bring a project only specs of requests
\* that overlapped with it in at most two steps.
THEOREM SpecsCorrect == Spec => []SpecsExplained
<1>1. SpecsInv => SpecsExplained
    BY DEF SpecsInv, SpecsExplained, OwnFiles
<1> QED
    BY <1>1, SpecsInvCorrect, PTL

\* createArchive leaves nothing of what it has delivered.
THEOREM DeliveredGone == Spec => []NothingDeliveredStays
<1>1. SafeInv => NothingDeliveredStays
    BY DEF SafeInv, ArchiveInv, NothingDeliveredStays
<1> QED
    BY <1>1, SafeCorrect, PTL
===============================================================================
