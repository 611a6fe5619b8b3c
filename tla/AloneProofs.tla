----------------------------- MODULE AloneProofs ------------------------------
(***************************************************************************)
(* What a request gets that is not disturbed, for every set of requests,   *)
(* projects, servers and specs: exactly its own project if no other one is *)
(* active during it, and a complete skeleton if none of its session is;    *)
(* and that without any overlap Generation does what ProjectService says.  *)
(***************************************************************************)
EXTENDS GenerationProofs, SerialService

-----------------------------------------------------------------------------
(* Complete projects *)

\* A complete project depends on what is asked for only.
LEMMA CompleteStays ==
    ASSUME NEW r \in Requests, project' = project
    PROVE  Complete(r)' = Complete(r) /\ Expected(r)' = Expected(r)
           /\ SessionOf(r)' = SessionOf(r) /\ MainDir(r)' = MainDir(r)
           /\ Split(r)' = Split(r)
<1>1. Split(r)' = Split(r)
    BY DEF Split
<1>2. MainDir(r)' = MainDir(r) /\ SecondDir(r)' = SecondDir(r) /\ Dirs(r)' = Dirs(r)
    BY <1>1 DEF MainDir, SecondDir, Dirs
<1>3. ASSUME NEW d, NEW k, NEW sp, NEW sv, NEW l, NEW dp
      PROVE  FileOf(r, d, k, sp, sv, l, dp)' = FileOf(r, d, k, sp, sv, l, dp)
    BY DEF FileOf
<1>4. Complete(r)' = Complete(r)
    BY <1>1, <1>2 DEF Complete, BuildFiles, WebappFile, GradleFiles, PomFile, BeansFiles, JavaFiles,
                      ExampleFiles, PageFiles, ServerFiles, Writes, PlaceOf, FileOf
<1> QED
    BY <1>1, <1>2, <1>4 DEF Expected, SessionOf


\* The addon of a server writes files of the addons' kinds.
LEMMA AddonFiles ==
    ASSUME TypeOK, NEW r \in Requests, NEW server, NEW list, NEW f \in ServerFiles(r, server, list)
    PROVE  /\ f.by = r /\ f.path.kind \in AddonKinds
           /\ f.path.artifact = project[r].artifact /\ f.path.dir \in Dirs(r)
<1>1. PICK w \in Writes(r, list) :
            f = FileOf(r, PlaceOf(r, w), w.kind, Nobody, server, {}, {})
    BY DEF ServerFiles
<1>2. w.kind \in AddonKinds
    BY ServerWritesAssumption, ProjectsAssumption DEF Writes, AddonFile, TypeOK, Project
<1> QED
    BY <1>1, <1>2 DEF FileOf, PlaceOf, Dirs

\* The slices of a complete project by kind are what the single stages write.
LEMMA CompleteKinds ==
    ASSUME TypeOK, NEW r \in Requests
    PROVE  /\ {f \in Complete(r) : f.path.kind \in {"webapp", "pom", "gradle"}} = BuildFiles(r)
           /\ {f \in Complete(r) : f.path.kind \in {"beans", "java"}}
                = BeansFiles(r) \cup JavaFiles(r, project[r].server)
           /\ \A spec \in project[r].specs :
                {f \in Complete(r) : f.path.kind \in {"example", "exampleB"} /\ f.path.spec = spec}
                    = ExampleFiles(r, spec, project[r].server)
           /\ {f \in Complete(r) : f.path.kind = "pages"} = PageFiles(r, project[r].server)
           /\ {f \in Complete(r) : f.path.kind \in AddonKinds}
                = ServerFiles(r, project[r].server, project[r].specs)
           /\ \A f \in Complete(r) :
                f.path.kind \in {"example", "exampleB"} => f.path.spec \in project[r].specs
           /\ \A f \in Complete(r) : f.by = r /\ f.path.kind \in Kinds
<1> DEFINE server == project[r].server
           specs == project[r].specs
           examples == UNION {ExampleFiles(r, spec, server) : spec \in specs}
<1>1. ASSUME NEW f \in BuildFiles(r)
      PROVE  f.by = r /\ f.path.kind \in {"webapp", "pom", "gradle"}
    <2>1. CASE f = WebappFile(r)
        BY <2>1 DEF WebappFile, FileOf
    <2>2. CASE f \in GradleFiles(r, server, specs)
        BY <2>2 DEF GradleFiles, FileOf
    <2>3. CASE \E main \in BOOLEAN : f = PomFile(r, main, server, specs, specs)
        BY <2>3 DEF PomFile, FileOf
    <2>4. CASE project[r].tool = "gradle"
        BY <1>1, <2>1, <2>2, <2>4 DEF BuildFiles
    <2>5. CASE project[r].tool # "gradle"
        <3>1. f = WebappFile(r) \/ f \in {PomFile(r, main, server, specs, specs) : main \in {TRUE, ~Split(r)}}
            BY <1>1, <2>5 DEF BuildFiles
        <3>2. {TRUE, ~Split(r)} \subseteq BOOLEAN
            OBVIOUS
        <3> QED
            BY <2>1, <2>3, <3>1, <3>2
    <2> QED
        BY <2>4, <2>5
<1>2. Complete(r) = BuildFiles(r) \cup BeansFiles(r) \cup JavaFiles(r, server)
                    \cup examples \cup PageFiles(r, server) \cup ServerFiles(r, server, specs)
    BY DEF Complete
<1>3. /\ \A f \in BeansFiles(r) : f.by = r /\ f.path.kind = "beans"
      /\ \A f \in JavaFiles(r, server) : f.by = r /\ f.path.kind = "java"
      /\ \A f \in PageFiles(r, server) : f.by = r /\ f.path.kind = "pages"
      /\ \A f \in ServerFiles(r, server, specs) : f.by = r /\ f.path.kind \in AddonKinds
    BY AddonFiles DEF BeansFiles, JavaFiles, PageFiles, FileOf
<1>4. \A spec \in specs : \A f \in ExampleFiles(r, spec, server) :
        f.by = r /\ f.path.kind \in {"example", "exampleB"} /\ f.path.spec = spec
    BY DEF ExampleFiles, FileOf
<1>5. \A f \in examples : f.by = r /\ f.path.kind \in {"example", "exampleB"}
                          /\ f.path.spec \in specs /\ f \in ExampleFiles(r, f.path.spec, server)
    BY <1>4
<1>6. \A spec \in specs : ExampleFiles(r, spec, server) \subseteq examples
    OBVIOUS
<1> HIDE DEF examples
<1>7. {f \in Complete(r) : f.path.kind \in {"webapp", "pom", "gradle"}} = BuildFiles(r)
    BY <1>1, <1>2, <1>3, <1>5 DEF AddonKinds
<1>8. {f \in Complete(r) : f.path.kind \in {"beans", "java"}} = BeansFiles(r) \cup JavaFiles(r, server)
    BY <1>1, <1>2, <1>3, <1>5 DEF AddonKinds
<1>9. \A spec \in specs :
        {f \in Complete(r) : f.path.kind \in {"example", "exampleB"} /\ f.path.spec = spec}
            = ExampleFiles(r, spec, server)
    BY <1>1, <1>2, <1>3, <1>4, <1>5, <1>6 DEF AddonKinds
<1>10. {f \in Complete(r) : f.path.kind = "pages"} = PageFiles(r, server)
    BY <1>1, <1>2, <1>3, <1>5 DEF AddonKinds
<1>11. {f \in Complete(r) : f.path.kind \in AddonKinds} = ServerFiles(r, server, specs)
    BY <1>1, <1>2, <1>3, <1>5 DEF AddonKinds
<1>12. \A f \in Complete(r) : /\ f.by = r /\ f.path.kind \in Kinds
                              /\ f.path.kind \in {"example", "exampleB"} => f.path.spec \in specs
    BY <1>1, <1>2, <1>3, <1>5 DEF Kinds, DefaultKinds, AddonKinds
<1> QED
    BY <1>7, <1>8, <1>9, <1>10, <1>11, <1>12

\* All files of a complete project lie in its directories.
LEMMA CompletePlace ==
    ASSUME TypeOK, NEW r \in Requests, NEW f \in Complete(r)
    PROVE  f.path.artifact = project[r].artifact /\ f.path.dir \in Dirs(r)
<1> DEFINE server == project[r].server
           specs == project[r].specs
<1>1. CASE f \in BuildFiles(r)
    <2>1. CASE project[r].tool = "gradle"
        BY <1>1, <2>1 DEF BuildFiles, WebappFile, GradleFiles, FileOf, Dirs
    <2>2. CASE project[r].tool # "gradle"
        <3>1. \A main \in BOOLEAN :
                /\ PomFile(r, main, server, specs, specs).path.artifact = project[r].artifact
                /\ PomFile(r, main, server, specs, specs).path.dir \in Dirs(r)
            BY DEF PomFile, FileOf, Dirs
        <3>2. f = WebappFile(r) \/ \E main \in BOOLEAN : f = PomFile(r, main, server, specs, specs)
            BY <1>1, <2>2 DEF BuildFiles
        <3> QED
            BY <3>1, <3>2 DEF WebappFile, FileOf, Dirs
    <2> QED
        BY <2>1, <2>2
<1>2. CASE \E spec : f \in ExampleFiles(r, spec, server)
    BY <1>2 DEF ExampleFiles, FileOf, Dirs
<1>3. CASE f \in BeansFiles(r) \cup JavaFiles(r, server) \cup PageFiles(r, server)
                 \cup ServerFiles(r, server, specs)
    BY <1>3, AddonFiles DEF BeansFiles, JavaFiles, PageFiles, FileOf
<1> QED
    BY <1>1, <1>2, <1>3 DEF Complete

-----------------------------------------------------------------------------
(* Stages of a request that is alone *)

\* The path of a file decides when it is written.
LEMMA WrittenByPath ==
    ASSUME NEW r, NEW f, NEW g, f.path = g.path
    PROVE  Written(r, f) <=> Written(r, g)
    BY DEF Written

\* A request writes files under new paths only: nothing of its own is replaced.
LEMMA PutOwn ==
    ASSUME NEW r, NEW files, NEW new, \A f \in new : f.by = r,
           \A f \in OwnFiles(r, files), g \in new : f.path # g.path
    PROVE  OwnFiles(r, Put(files, new)) = OwnFiles(r, files) \cup new
    BY DEF OwnFiles, Put

\* The session's map of a request's own files after a stage that writes what is
\* due in it and was not due before.
LEMMA AloneStage ==
    ASSUME TypeOK, NEW r \in Requests, project' = project,
           OwnFiles(r, archive[SessionOf(r)]) = {f \in Complete(r) : Written(r, f)},
           NEW new, Write(r, new), ~Racing(r),
           \A f \in Complete(r) : Written(r, f) => Written(r, f)',
           new = {f \in Complete(r) : Written(r, f)' /\ ~Written(r, f)}
    PROVE  OwnFiles(r, archive[SessionOf(r)])' = {f \in Complete(r) : Written(r, f)}'
<1>1. SessionOf(r) \in Sessions /\ SessionOf(r)' = SessionOf(r) /\ Complete(r)' = Complete(r)
    BY ProjectsAssumption, CompleteStays DEF TypeOK, Project, SessionOf
<1>2. \A f \in new : f.by = r
    BY CompleteKinds
<1>3. \A f \in OwnFiles(r, archive[SessionOf(r)]), g \in new : f.path # g.path
    BY WrittenByPath
<1>4. archive'[SessionOf(r)] = Put(archive[SessionOf(r)], new)
    BY <1>1 DEF Write, Store, SetArchive, TypeOK
<1>5. OwnFiles(r, archive'[SessionOf(r)]) = {f \in Complete(r) : Written(r, f)} \cup new
    BY <1>2, <1>3, <1>4, PutOwn
<1>6. OwnFiles(r, archive[SessionOf(r)])' = OwnFiles(r, archive'[SessionOf(r)])
    BY <1>1 DEF OwnFiles
<1> QED
    BY <1>1, <1>5, <1>6
\* Alone, a request reads back from the shared fields what it has put there.
LEMMA AloneReads ==
    ASSUME TypeOK, MetInv, FieldsInv, NEW r \in Active, met[r] = {}
    PROVE  /\ pc[r] # "begun" => options = r
           /\ pc[r] \in Filling => specsField = r
           /\ pc[r] \in Validated => param[r] = r
           /\ pc[r] \in Prepared => alt[r] = project[r].server
           /\ ~Contended(r) /\ ~Racing(r)
<1>1. Around(r) = {r}
    BY DEF Around
<1>2. ~Contended(r) /\ ~Racing(r)
    BY DEF Contended, Racing, MetInv, Active
<1> QED
    BY <1>1, <1>2 DEF FieldsInv

LEMMA AloneFieldsStep ==
    ASSUME TypeOK, MetInv, FieldsInv, NEW r \in Requests, met[r] = {},
           AloneFields(r), Run(r)
    PROVE  AloneFields(r)'
<1>a. r \in Active /\ project' = project /\ Split(r)' = Split(r)
    BY RunSummary, CompleteStays
<1> USE <1>a, AloneReads DEF Goto, TypeOK, AloneFields, Filling, Validated, Stages
<1>1. CASE SetAddonOptions(r)
    BY <1>1 DEF SetAddonOptions
<1>2. CASE ResetSpecs(r)
    BY <1>2 DEF ResetSpecs
<1>3. CASE AddSpec(r)
    <2>1. PICK spec \in todo[r] : /\ todo' = [todo EXCEPT ![r] = @ \ {spec}]
                                  /\ specList' = [specList EXCEPT ![r] = @ \cup {spec}]
        BY <1>3 DEF AddSpec
    <2>2. pc' = pc /\ mpVars' = mpVars
        BY <1>3 DEF AddSpec
    <2>3. pc[r] = "filling"
        BY <1>3 DEF AddSpec
    <2> QED
        BY <2>1, <2>2, <2>3
<1>4. CASE PublishSpecs(r)
    BY <1>4 DEF PublishSpecs
<1>5. CASE DetermineAlternatives(r)
    BY <1>5 DEF DetermineAlternatives
<1>6. CASE CreateArtifacts(r) \/ CreateArchive(r)
    <2>1. pc[r] \in Validated /\ specList' = specList /\ mpVars' = mpVars
        BY <1>6 DEF CreateArtifacts, CreateArchive, MavenMain, AfterMainPom, MavenSecond, Gradle,
                    BeansAndJava, WriteExample, WritePages, WriteServerFiles,
                    SubmitLog, StartArchive, LastStage, FinishArchive, ClearArchive
    <2>2. pc'[r] \notin {"filling", "optioned", "begun"}
        BY <1>6 DEF CreateArtifacts, CreateArchive, MavenMain, AfterMainPom, MavenSecond, Gradle,
                    BeansAndJava, WriteExample, WritePages, WriteServerFiles,
                    SubmitLog, StartArchive, LastStage, FinishArchive, ClearArchive
    <2>3. pc'[r] = "pomB" => Split(r) /\ project[r].tool = "maven"
        BY <1>6 DEF CreateArtifacts, CreateArchive, MavenMain, AfterMainPom, MavenSecond, Gradle,
                    BeansAndJava, WriteExample, WritePages, WriteServerFiles,
                    SubmitLog, StartArchive, LastStage, FinishArchive, ClearArchive
    <2> QED
        BY <2>1, <2>2, <2>3
<1> QED
    BY <1>1, <1>2, <1>3, <1>4, <1>5, <1>6 DEF Run, Prepare
\* Which kinds are due at which stage
LEMMA WrittenAt ==
    ASSUME TypeOK, NEW r \in Requests, NEW f \in Complete(r)
    PROVE  /\ pc[r] \in Stages \ (Built \cup {"pomB"}) => ~Written(r, f)
           /\ pc[r] = "pomB" =>
                (Written(r, f) <=> /\ f.path.kind \in {"webapp", "pom", "gradle"}
                                   /\ f.path.dir = MainDir(r))
           /\ pc[r] = "built" => (Written(r, f) <=> f.path.kind \in {"webapp", "pom", "gradle"})
           /\ pc[r] = "examples" =>
                (Written(r, f) <=>
                    \/ f.path.kind \in {"webapp", "pom", "gradle", "beans", "java"}
                    \/ f.path.kind \in {"example", "exampleB"} /\ f.path.spec \notin todo[r])
           /\ pc[r] = "pages" => (Written(r, f) <=> f.path.kind \notin AddonKinds)
           /\ pc[r] \in Created => (Written(r, f) <=> f.path.kind \notin Removes[project[r].server])
<1>1. f.path.kind \in Kinds
    BY CompleteKinds
<1> QED
    BY <1>1 DEF Written, Kinds, DefaultKinds, AddonKinds, Stages, Created, Exampled, Built,
                Prepared, Validated, Filling

\* A pom lies in the directory of its project.
LEMMA PomDirs ==
    ASSUME NEW r, project[r].tool = "maven"
    PROVE  LET s == project[r].server
               list == project[r].specs
           IN  /\ BuildFiles(r) = {WebappFile(r), PomFile(r, TRUE, s, list, list)}
                                  \cup (IF Split(r) THEN {PomFile(r, FALSE, s, list, list)} ELSE {})
               /\ WebappFile(r).path.dir = MainDir(r)
               /\ PomFile(r, TRUE, s, list, list).path.dir = MainDir(r)
               /\ Split(r) => PomFile(r, FALSE, s, list, list).path.dir # MainDir(r)
<1> DEFINE s == project[r].server
           list == project[r].specs
<1>1. BuildFiles(r) = {WebappFile(r)} \cup {PomFile(r, main, s, list, list) : main \in {TRUE, ~Split(r)}}
    BY DEF BuildFiles
<1>2. {PomFile(r, main, s, list, list) : main \in {TRUE, ~Split(r)}}
        = {PomFile(r, TRUE, s, list, list), PomFile(r, ~Split(r), s, list, list)}
    OBVIOUS
<1>3. CASE Split(r)
    <2>1. PomFile(r, ~Split(r), s, list, list) = PomFile(r, FALSE, s, list, list)
        BY <1>3
    <2> QED
        BY <1>1, <1>2, <1>3, <2>1 DEF WebappFile, PomFile, FileOf, MainDir, SecondDir
<1>4. CASE ~Split(r)
    <2>1. PomFile(r, ~Split(r), s, list, list) = PomFile(r, TRUE, s, list, list)
        BY <1>4
    <2> QED
        BY <1>1, <1>2, <1>4, <2>1 DEF WebappFile, PomFile, FileOf, MainDir, SecondDir
<1> QED
    BY <1>3, <1>4

LEMMA AloneFilesStep ==
    ASSUME TypeOK, MetInv, FieldsInv, NEW r \in Requests, met[r] = {},
           AloneFields(r), AloneFiles(r), Run(r)
    PROVE  AloneFiles(r)'
<1>a. /\ r \in Active /\ project' = project /\ SessionOf(r) \in Sessions
      /\ Complete(r)' = Complete(r) /\ Expected(r)' = Expected(r)
      /\ SessionOf(r)' = SessionOf(r) /\ MainDir(r)' = MainDir(r)
    BY RunSummary, CompleteStays, FieldsType
<1>b. OwnFiles(r, archive[SessionOf(r)]) = {f \in Complete(r) : Written(r, f)}
    BY <1>a DEF AloneFiles
<1>c. ASSUME archive' = archive, \A f \in Complete(r) : Written(r, f)' <=> Written(r, f)
      PROVE  OwnFiles(r, archive[SessionOf(r)])' = {f \in Complete(r) : Written(r, f)}'
    <2>1. OwnFiles(r, archive[SessionOf(r)])' = OwnFiles(r, archive[SessionOf(r)])
        BY <1>a, <1>c DEF OwnFiles
    <2> QED
        BY <1>a, <1>b, <1>c, <2>1
<1>d. ASSUME pc'[r] \notin {"zipping", "done"},
             OwnFiles(r, archive[SessionOf(r)])' = {f \in Complete(r) : Written(r, f)}'
      PROVE  AloneFiles(r)'
    BY <1>d DEF AloneFiles
<1>w. ASSUME NEW f \in Complete(r)
      PROVE  /\ pc'[r] \in Stages \ (Built \cup {"pomB"}) => ~Written(r, f)'
             /\ pc'[r] = "pomB" =>
                  (Written(r, f)' <=> /\ f.path.kind \in {"webapp", "pom", "gradle"}
                                      /\ f.path.dir = MainDir(r))
             /\ pc'[r] = "built" => (Written(r, f)' <=> f.path.kind \in {"webapp", "pom", "gradle"})
             /\ pc'[r] = "examples" =>
                  (Written(r, f)' <=>
                      \/ f.path.kind \in {"webapp", "pom", "gradle", "beans", "java"}
                      \/ f.path.kind \in {"example", "exampleB"} /\ f.path.spec \notin todo'[r])
             /\ pc'[r] = "pages" => (Written(r, f)' <=> f.path.kind \notin AddonKinds)
             /\ pc'[r] \in Created =>
                  (Written(r, f)' <=> f.path.kind \notin Removes[project[r].server])
    <2>1. f.path.kind \in Kinds
        BY CompleteKinds
    <2> QED
        BY <1>a, <2>1 DEF Written, Kinds, DefaultKinds, AddonKinds, Stages, Created, Exampled, Built,
                    Prepared, Validated, Filling
<1>r. /\ ~Racing(r)
      /\ pc[r] \in Filling => specsField = r
      /\ pc[r] \in Validated => param[r] = r /\ specList[r] = project[r].specs
      /\ pc[r] \in Prepared => /\ options = r
                               /\ alt[r] = project[r].server
                               /\ mpVars[r] = project[r].specs
    BY <1>a, AloneReads DEF AloneFields, Filling, Validated, Prepared
<1>e. ASSUME NEW new, Write(r, new), pc'[r] \notin {"zipping", "done"},
             \A f \in Complete(r) : Written(r, f) => Written(r, f)',
             new = {f \in Complete(r) : Written(r, f)' /\ ~Written(r, f)}
      PROVE  AloneFiles(r)'
    BY <1>a, <1>b, <1>d, <1>e, <1>r, AloneStage
<1> DEFINE s == project[r].server
           list == project[r].specs
<1>1. CASE Prepare(r)
    <2>1. /\ archive' = archive /\ pc'[r] \in Stages \ (Built \cup {"pomB"})
          /\ pc[r] \in Stages \ (Built \cup {"pomB"})
        BY <1>1 DEF Prepare, SetAddonOptions, ResetSpecs, AddSpec, PublishSpecs,
                    DetermineAlternatives, Goto, TypeOK, Stages, Built, Prepared,
                    Validated, Filling
    <2>2. pc'[r] \notin {"zipping", "done"}
        BY <1>1 DEF Prepare, SetAddonOptions, ResetSpecs, AddSpec, PublishSpecs,
                    DetermineAlternatives, Goto, TypeOK
    <2> QED
        BY <2>1, <2>2, <1>c, <1>d, <1>w, WrittenAt
<1>2. CASE MavenMain(r) /\ pc'[r] # "failed"
    <2>1. /\ pc[r] = "prepared" /\ project[r].tool = "maven"
          /\ pc'[r] = IF Split(r) THEN "pomB" ELSE "built"
          /\ Write(r, {PomFile(r, TRUE, s, list, list), WebappFile(r)})
        BY <1>2, <1>r DEF MavenMain, AfterMainPom, Goto, TypeOK, Prepared, Validated, Filling
    <2>2. \A f \in Complete(r) : ~Written(r, f)
        BY <2>1, WrittenAt DEF Stages, Built, Prepared, Validated, Filling
    <2>3. {PomFile(r, TRUE, s, list, list), WebappFile(r)}
            = {f \in Complete(r) : Written(r, f)'}
        <3>1. CASE Split(r)
            <4>1. {f \in Complete(r) : Written(r, f)'} = {f \in BuildFiles(r) : f.path.dir = MainDir(r)}
                BY <2>1, <3>1, <1>w, CompleteKinds
            <4> QED
                BY <2>1, <3>1, <4>1, PomDirs
        <3>2. CASE ~Split(r)
            <4>1. {f \in Complete(r) : Written(r, f)'} = BuildFiles(r)
                BY <2>1, <3>2, <1>w, CompleteKinds
            <4> QED
                BY <2>1, <3>2, <4>1, PomDirs
        <3> QED
            BY <3>1, <3>2
    <2> QED
        BY <2>1, <2>2, <2>3, <1>e
<1>3. CASE MavenSecond(r) /\ pc'[r] # "failed"
    <2>1. /\ pc[r] = "pomB" /\ project[r].tool = "maven" /\ Split(r)
          /\ pc'[r] = "built"
          /\ Write(r, {PomFile(r, FALSE, s, list, list)})
        BY <1>3, <1>r DEF MavenSecond, Goto, TypeOK, Prepared, Validated, Filling, AloneFields
    <2>2. {f \in Complete(r) : Written(r, f)' /\ ~Written(r, f)}
            = {f \in BuildFiles(r) : f.path.dir # MainDir(r)}
        BY <2>1, <1>w, WrittenAt, CompleteKinds
    <2>3. {PomFile(r, FALSE, s, list, list)} = {f \in BuildFiles(r) : f.path.dir # MainDir(r)}
        BY <2>1, PomDirs
    <2>4. \A f \in Complete(r) : Written(r, f) => Written(r, f)'
        BY <2>1, <1>w, WrittenAt
    <2> QED
        BY <2>1, <2>2, <2>3, <2>4, <1>e
<1>4. CASE Gradle(r)
    <2>1. /\ pc[r] = "prepared" /\ project[r].tool = "gradle" /\ pc'[r] = "built"
          /\ Write(r, {WebappFile(r)} \cup GradleFiles(r, s, list))
        BY <1>4, <1>r DEF Gradle, Goto, TypeOK, Prepared, Validated, Filling
    <2>2. \A f \in Complete(r) : ~Written(r, f)
        BY <2>1, WrittenAt DEF Stages, Built, Prepared, Validated, Filling
    <2>a. {f \in Complete(r) : Written(r, f)'} = BuildFiles(r)
        BY <2>1, <1>w, CompleteKinds
    <2>3. {f \in Complete(r) : Written(r, f)'} = {WebappFile(r)} \cup GradleFiles(r, s, list)
        BY <2>1, <2>a DEF BuildFiles
    <2> QED
        BY <2>1, <2>2, <2>3, <1>e
<1>5. CASE BeansAndJava(r)
    <2>1. /\ pc[r] = "built" /\ pc'[r] = "examples" /\ todo'[r] = Specs
          /\ Write(r, BeansFiles(r) \cup JavaFiles(r, s))
        BY <1>5, <1>r DEF BeansAndJava, Goto, TypeOK, Prepared, Validated, Filling
    <2>2. list \subseteq Specs
        BY ProjectsAssumption DEF TypeOK, Project
    <2>3. \A f \in Complete(r) : Written(r, f)' <=>
            f.path.kind \in {"webapp", "pom", "gradle", "beans", "java"}
        BY <2>1, <2>2, <1>w, CompleteKinds
    <2>4. {f \in Complete(r) : Written(r, f)' /\ ~Written(r, f)} = BeansFiles(r) \cup JavaFiles(r, s)
        BY <2>1, <2>3, WrittenAt, CompleteKinds
    <2> QED
        BY <2>1, <2>3, <2>4, <1>e, WrittenAt
<1>6. CASE WriteExample(r)
    <2>1. PICK spec \in todo[r] :
            /\ todo' = [todo EXCEPT ![r] = @ \ {spec}]
            /\ IF spec \in list THEN Write(r, ExampleFiles(r, spec, s))
                                ELSE UNCHANGED <<archive, comod>>
        <3>1. alt[r] = s /\ specList[specsField] = list
            BY <1>6, <1>r DEF WriteExample, Prepared, Validated, Filling
        <3> QED
            BY <1>6, <3>1, ExampleChosen
    <2>2. pc[r] = "examples" /\ pc'[r] = "examples" /\ todo'[r] = todo[r] \ {spec}
        BY <1>6, <2>1 DEF WriteExample, TypeOK
    <2>3. \A f \in Complete(r) : Written(r, f)' <=>
            Written(r, f) \/ (f.path.kind \in {"example", "exampleB"} /\ f.path.spec = spec)
        BY <2>2, <1>w, WrittenAt
    <2>4. CASE spec \in list
        <3>1. {f \in Complete(r) : Written(r, f)' /\ ~Written(r, f)} = ExampleFiles(r, spec, s)
            BY <2>1, <2>2, <2>3, <2>4, WrittenAt, CompleteKinds
        <3> QED
            BY <2>1, <2>2, <2>3, <2>4, <3>1, <1>e
    <2>5. CASE spec \notin list
        BY <2>1, <2>2, <2>3, <2>5, <1>c, <1>d, CompleteKinds
    <2> QED
        BY <2>4, <2>5
<1>7. CASE WritePages(r)
    <2>1. /\ pc[r] = "examples" /\ pc'[r] = "pages" /\ todo[r] = {}
          /\ Write(r, PageFiles(r, s))
        BY <1>7, <1>r DEF WritePages, Goto, TypeOK, Prepared, Validated, Filling
    <2>2. \A f \in Complete(r) : Written(r, f)' <=> Written(r, f) \/ f.path.kind = "pages"
        BY <2>1, <1>w, WrittenAt, CompleteKinds DEF Kinds, DefaultKinds, AddonKinds
    <2>3. {f \in Complete(r) : Written(r, f)' /\ ~Written(r, f)} = PageFiles(r, s)
        BY <2>1, <2>2, WrittenAt, CompleteKinds
    <2> QED
        BY <2>1, <2>2, <2>3, <1>e
<1>8. CASE WriteServerFiles(r) /\ pc'[r] # "failed"
    <2> DEFINE old == archive[SessionOf(r)]
               kept == RemoveDefaults(old, r, Dirs(r))
               new == ServerFiles(r, s, list)
               removed == Removes[s]
    <2>1. /\ pc[r] = "pages" /\ pc'[r] = "created" /\ SetArchive(r, Put(kept, new))
        <3>1. /\ alt[r] = s /\ specList[param[r]] = list /\ ~Racing(r)
              /\ pc[r] = "pages" /\ pc'[r] = "created"
            BY <1>8, <1>r DEF WriteServerFiles, Goto, TypeOK, Prepared, Validated, Filling
        <3>2. \/ Store(r, Put(kept, new)) \/ pc'[r] = "failed"
            BY <1>8, <3>1 DEF WriteServerFiles, Goto, TypeOK
        <3> QED
            BY <3>1, <3>2 DEF Store
    <2>2. archive'[SessionOf(r)] = Put(kept, new)
        BY <2>1, <1>a DEF SetArchive, TypeOK
    <2>3. OwnFiles(r, old) = {f \in Complete(r) : f.path.kind \notin AddonKinds}
        BY <2>1, <1>b, WrittenAt
    <2>4. \A f \in Complete(r) : f.path.artifact = project[r].artifact /\ f.path.dir \in Dirs(r)
        BY CompletePlace
    <2>5. OwnFiles(r, kept) = {f \in Complete(r) : f.path.kind \notin AddonKinds /\ f.path.kind \notin removed}
        BY <2>3, <2>4 DEF OwnFiles, RemoveDefaults
    <2>6. /\ new = {f \in Complete(r) : f.path.kind \in AddonKinds}
          /\ \A f \in new : f.by = r
        BY CompleteKinds
    <2>7. AddonKinds \cap removed = {}
        BY RemovesAssumption, ProjectsAssumption DEF TypeOK, Project, DefaultKinds, AddonKinds
    <2>8. OwnFiles(r, Put(kept, new)) = OwnFiles(r, kept) \cup new
        BY <2>5, <2>6, PutOwn
    <2>9. OwnFiles(r, Put(kept, new)) = {f \in Complete(r) : f.path.kind \notin removed}
        BY <2>5, <2>6, <2>7, <2>8
    <2>10. \A f \in Complete(r) : Written(r, f)' <=> f.path.kind \notin removed
        BY <2>1, <1>w DEF Created
    <2>11. OwnFiles(r, archive[SessionOf(r)])' = OwnFiles(r, Put(kept, new))
        BY <2>2, <1>a DEF OwnFiles
    <2> QED
        BY <2>1, <2>9, <2>10, <2>11, <1>a, <1>d
<1>9. CASE SubmitLog(r) \/ StartArchive(r) \/ FinishArchive(r)
    <2>1. pc[r] \in Created
        BY <1>9 DEF SubmitLog, StartArchive, LastStage, FinishArchive, ClearArchive, Created
    <2>2. OwnFiles(r, archive[SessionOf(r)]) = Expected(r)
        BY <2>1, <1>b, WrittenAt DEF Expected
    <2>3. CASE SubmitLog(r)
        <3>1. archive' = archive /\ pc'[r] \in {"logged", "failed"}
            BY <2>3 DEF SubmitLog, Goto, TypeOK
        <3>2. CASE pc'[r] = "logged"
            BY <2>1, <3>1, <3>2, <1>c, <1>d, <1>w, WrittenAt DEF Created
        <3> QED
            BY <3>1, <3>2 DEF AloneFiles, Active
    <2>4. CASE StartArchive(r)
        <3>1. /\ archive' = archive /\ pc'[r] = "zipping"
              /\ zip'[r] = archive[SessionOf(r)]
            BY <2>4 DEF StartArchive, LastStage, Goto, TypeOK
        <3>2. OwnFiles(r, archive[SessionOf(r)])' = {f \in Complete(r) : Written(r, f)}'
            BY <2>1, <3>1, <1>c, <1>w, WrittenAt DEF Created
        <3>3. (zip[r] = archive[SessionOf(r)])'
            BY <3>1, <1>a
        <3> QED
            BY <3>1, <3>2, <3>3 DEF AloneFiles
    <2>5. CASE FinishArchive(r)
        <3> DEFINE now == archive[SessionOf(r)]
        <3>1. pc'[r] \in {"done", "failed"} /\ pc[r] = "zipping"
            BY <2>5 DEF FinishArchive, Goto, TypeOK
        <3>2. zip[r] = now
            BY <3>1 DEF AloneFiles
        <3>3. \A seen \in {now} \cup SUBSET RacyFiles(now \ zip[r]) : Put(now, seen) = now
            <4>1. RacyFiles(now \ zip[r]) = {}
                BY <3>2 DEF RacyFiles
            <4> QED
                BY <4>1 DEF Put
        <3> HIDE DEF now
        <3>4. ASSUME pc'[r] = "done"
              PROVE  zip'[r] = now
            <4>1. zip \in [Requests -> SUBSET File] /\ pc'[r] # "failed"
                BY <3>4 DEF TypeOK
            <4>2. \/ zip' = zip
                  \/ \E seen \in {now} \cup SUBSET RacyFiles(now \ zip[r]) :
                        zip' = [zip EXCEPT ![r] = Put(@, seen)]
                BY <2>5, <4>1 DEF FinishArchive, Goto, TypeOK, now
            <4> QED
                BY <3>2, <3>3, <4>1, <4>2
        <3>5. pc'[r] = "done" => OwnFiles(r, zip[r])' = Expected(r)'
            BY <3>4, <2>2, <1>a DEF OwnFiles, now
        <3> QED
            BY <3>1, <3>5 DEF AloneFiles, Active
    <2> QED
        BY <1>9, <2>3, <2>4, <2>5
<1>10. CASE pc'[r] = "failed"
    BY <1>10 DEF AloneFiles, Active
<1> QED
    BY <1>1, <1>2, <1>3, <1>4, <1>5, <1>6, <1>7, <1>8, <1>9, <1>10
    DEF Run, CreateArtifacts, CreateArchive
\* A request that starts has no files yet.
LEMMA AloneArrive ==
    ASSUME TypeOK, ArchiveInv, NEW r \in Requests, Arrive(r)
    PROVE  AloneFields(r)' /\ AloneFiles(r)'
<1>1. pc'[r] \in {"begun", "failed"} /\ pc[r] = "idle" /\ project' = project /\ archive' = archive
    BY DEF Arrive, Goto, TypeOK
<1>2. SessionOf(r)' = SessionOf(r) /\ SessionOf(r) \in Sessions /\ Complete(r)' = Complete(r)
    BY <1>1, CompleteStays, ProjectsAssumption DEF TypeOK, Project, SessionOf
<1>3. OwnFiles(r, archive'[SessionOf(r)]) = {}
    BY <1>1, <1>2 DEF OwnFiles, ArchiveInv
<1>4. \A f \in Complete(r) : pc'[r] = "begun" => ~Written(r, f)'
    BY CompleteKinds DEF Written, Kinds, DefaultKinds, AddonKinds, Exampled, Created, Built,
                         Prepared, Validated, Filling
<1>5. pc'[r] = "begun" => OwnFiles(r, archive[SessionOf(r)])' = {f \in Complete(r) : Written(r, f)}'
    BY <1>2, <1>3, <1>4 DEF OwnFiles
<1>6. AloneFiles(r)'
    BY <1>1, <1>5 DEF AloneFiles, Active
<1> QED
    BY <1>1, <1>6 DEF AloneFields, Filling, Validated

\* What others do while r is not active does not touch it.
LEMMA AloneIdle ==
    ASSUME TypeOK, NEW r \in Requests, r \notin Active, AloneFiles(r),
           pc'[r] = pc[r], zip'[r] = zip[r], project' = project
    PROVE  AloneFields(r)' /\ AloneFiles(r)'
<1>1. Expected(r)' = Expected(r)
    BY CompleteStays
<1>2. pc'[r] \in {"idle", "done", "failed"}
    BY DEF Active
<1> QED
    BY <1>1, <1>2 DEF AloneFields, AloneFiles, Active, OwnFiles, Filling, Validated

\* Neither does the arrival of another request.
LEMMA AloneSame ==
    ASSUME NEW r \in Requests, AloneFields(r), AloneFiles(r), pc'[r] = pc[r],
           UNCHANGED <<project, specList, todo, mpVars, archive, zip>>
    PROVE  AloneFields(r)' /\ AloneFiles(r)'
<1>1. /\ Complete(r)' = Complete(r) /\ Expected(r)' = Expected(r)
      /\ SessionOf(r)' = SessionOf(r) /\ MainDir(r)' = MainDir(r) /\ Split(r)' = Split(r)
    BY CompleteStays
<1>2. AloneFields(r)'
    BY <1>1 DEF AloneFields
<1>3. \A f : Written(r, f)' <=> Written(r, f)
    BY <1>1 DEF Written
<1>4. {f \in Complete(r) : Written(r, f)}' = {f \in Complete(r) : Written(r, f)}
    BY <1>1, <1>3
<1>5. /\ OwnFiles(r, archive[SessionOf(r)])' = OwnFiles(r, archive[SessionOf(r)])
      /\ OwnFiles(r, zip[r])' = OwnFiles(r, zip[r])
    BY <1>1 DEF OwnFiles
<1>6. (r \in Active)' <=> r \in Active
    BY DEF Active
<1> QED
    BY <1>1, <1>2, <1>4, <1>5, <1>6 DEF AloneFiles

LEMMA AloneStep == SafeInv /\ AloneInv /\ [Next]_vars => AloneInv'
<1> SUFFICES ASSUME SafeInv, AloneInv, [Next]_vars, NEW r \in Requests, met'[r] = {}
             PROVE  AloneFields(r)' /\ AloneFiles(r)'
    BY DEF AloneInv
<1> USE DEF SafeInv
<1>1. met[r] = {} /\ project' = project
    BY ServersStay
<1>2. AloneFields(r) /\ AloneFiles(r)
    BY <1>1 DEF AloneInv
<1>3. CASE UNCHANGED vars
    BY <1>2, <1>3, AloneSame DEF vars
<1>4. ASSUME NEW q \in Requests, Arrive(q)
      PROVE  AloneFields(r)' /\ AloneFiles(r)'
    <2>1. CASE q = r
        BY <1>4, <2>1, AloneArrive
    <2>2. CASE q # r
        BY <1>2, <1>4, <2>2, AloneSame, OthersLeave DEF Arrive
    <2> QED
        BY <2>1, <2>2
<1>5. ASSUME NEW q \in Requests, Run(q)
      PROVE  AloneFields(r)' /\ AloneFiles(r)'
    <2>1. CASE q = r
        BY <1>1, <1>2, <1>5, <2>1, AloneFieldsStep, AloneFilesStep
    <2>2. CASE q # r
        <3>1. r \notin Active
            BY <1>1, <1>5, <2>2, RunSummary DEF MetInv
        <3> QED
            BY <1>1, <1>2, <1>5, <2>2, <3>1, AloneIdle, RunSummary
    <2> QED
        BY <2>1, <2>2
<1> QED
    BY <1>3, <1>4, <1>5 DEF Next, Quiet

-----------------------------------------------------------------------------
(* The theorem *)

\* IInv is an inductive invariant of the generation of projects.
THEOREM IInvCorrect == Spec => []IInv
<1>1. Init => AloneInv
    BY DEF Init, AloneInv, AloneFields, AloneFiles, Active, Filling, Validated
<1>2. SafeInv /\ AloneInv /\ [Next]_vars => (SafeInv /\ AloneInv)'
    BY SafeStep, AloneStep
<1>3. SafeInv /\ AloneInv /\ SpecsInv => IInv
    BY DEF SafeInv, IInv
<1> QED
    BY <1>1, <1>2, <1>3, SafeInit, SpecsInvCorrect, PTL DEF Spec

\* A request during which no other one was processed is delivered every file of
\* its own project, from its own server and specs: what APIService and
\* GeneratorDataBean promise a single user.
THEOREM AloneGetsOwnProject == Spec => []AloneExact
<1>1. IInv => AloneExact
    BY DEF IInv, AloneInv, AloneFiles, AloneExact
<1> QED
    BY <1>1, IInvCorrect, PTL

-----------------------------------------------------------------------------
(* Skeletons *)

\* No other request of r's session has been active together with r.
Private(r) == \A q \in met[r] : SessionOf(q) # SessionOf(r)

Has(files, r, d, k) == \E f \in files : f.by = r /\ f.path.dir = d /\ f.path.kind = k

\* A file of r in the directories of r's project
Mine(r, f) ==
    f.by = r /\ f.path.artifact = project[r].artifact /\ f.path.dir \in Dirs(r)

\* Must a file of kind k be in directory d at the stage r has reached?
Due(r, d, k) ==
    /\ k \in {"pom", "gradle"} =>
        pc[r] \in Built \/ (pc[r] = "pomB" /\ d = MainDir(r))
    /\ k = "java" => pc[r] \in Built \ {"built"}
    /\ k = "pages" => pc[r] \in Exampled
    /\ k \in AddonKinds => pc[r] \in Created

\* The server's addon has removed f if it removes files of its kind.
Settled(r, f) == pc[r] \in Created => f.path.kind \notin Removes[project[r].server]

\* Of an active request the session's map has what is due, although others may
\* have swapped the server and the specs that it was made from, and all of it in
\* the right place; nobody changes the map during the iteration.
Skeleton(r) ==
    /\ pc[r] = "pomB" => project[r].tool = "maven"
    /\ r \in Active =>
        \A d \in Dirs(r) : \A k \in SkeletonKinds(r, d) :
            Due(r, d, k) => Has(archive[SessionOf(r)], r, d, k)
    /\ r \in Active =>
        \A f \in OwnFiles(r, archive[SessionOf(r)]) : Mine(r, f) /\ Settled(r, f)
    /\ pc[r] = "zipping" => zip[r] = archive[SessionOf(r)]
    /\ pc[r] = "done" =>
        \A f \in OwnFiles(r, zip[r]) : f.path.kind \notin Removes[project[r].server]
    /\ pc[r] = "done" => \A d \in Dirs(r) : \A k \in SkeletonKinds(r, d) : Has(zip[r], r, d, k)

SkeletonInv == \A r \in Requests : Private(r) => Skeleton(r)

\* A file that is replaced is replaced by one of the same directory and kind.
LEMMA PutKeeps ==
    ASSUME NEW files, NEW new, NEW r, \A g \in new : Mine(r, g), NEW d, NEW k,
           Has(files, r, d, k) \/ Has(new, r, d, k)
    PROVE  Has(Put(files, new), r, d, k)
    BY DEF Has, Put, Mine

\* Nothing but its own stages touches the map of a request that is private.
LEMMA PrivateAlone ==
    ASSUME TypeOK, MetInv, NEW r \in Active, Private(r)
    PROVE  /\ \A q \in Active \ {r} : SessionOf(q) # SessionOf(r)
           /\ ~Racing(r)
<1>1. \A q \in Active \ {r} : SessionOf(q) # SessionOf(r)
    BY DEF MetInv, Private, Active
<1>2. ~Racing(r)
    BY <1>1 DEF Racing, Active
<1> QED
    BY <1>1, <1>2

\* The kinds of a skeleton are those of its build tool and of the addons.
LEMMA SkeletonKindsType ==
    ASSUME TypeOK, NEW r \in Requests, NEW d
    PROVE  SkeletonKinds(r, d) \subseteq
                {IF project[r].tool = "maven" THEN "pom" ELSE "gradle", "java", "pages"}
                    \cup AddonKinds
<1>1. \A w \in Writes(r, {}) : w.kind \in AddonKinds
    BY ServerWritesAssumption, ProjectsAssumption DEF Writes, AddonFile, TypeOK, Project
<1> QED
    BY <1>1 DEF SkeletonKinds

LEMMA SkeletonStays ==
    ASSUME NEW r, project' = project
    PROVE  /\ Dirs(r)' = Dirs(r) /\ \A d : SkeletonKinds(r, d)' = SkeletonKinds(r, d)
           /\ SessionOf(r)' = SessionOf(r) /\ MainDir(r)' = MainDir(r)
           /\ \A f : Mine(r, f)' <=> Mine(r, f)
<1>1. MainDir(r)' = MainDir(r) /\ SecondDir(r)' = SecondDir(r) /\ Split(r)' = Split(r)
    BY DEF MainDir, SecondDir, Split
<1>2. Writes(r, {})' = Writes(r, {})
    BY <1>1 DEF Writes
<1> QED
    BY <1>1, <1>2 DEF Dirs, SkeletonKinds, SessionOf, PlaceOf, Mine

\* A stage of r that writes the files in new to its map, and is all it takes for
\* the next one.
LEMMA SkeletonStage ==
    ASSUME TypeOK, NEW r \in Requests, project' = project, ~Racing(r), Skeleton(r),
           r \in Active, NEW new, Write(r, new), \A g \in new : Mine(r, g),
           pc'[r] \notin Created \cup {"done"},
           pc'[r] = "pomB" => project[r].tool = "maven",
           \A d \in Dirs(r) : \A k \in SkeletonKinds(r, d) :
                Due(r, d, k)' => Due(r, d, k) \/ Has(new, r, d, k)
    PROVE  Skeleton(r)'
<1>1. SessionOf(r) \in Sessions
    BY ProjectsAssumption DEF TypeOK, Project, SessionOf
<1>2. archive'[SessionOf(r)] = Put(archive[SessionOf(r)], new)
    BY <1>1 DEF Write, Store, SetArchive, TypeOK
<1>3. ASSUME NEW d \in Dirs(r), NEW k \in SkeletonKinds(r, d), Due(r, d, k)'
      PROVE  Has(archive'[SessionOf(r)], r, d, k)
    <2>1. Has(archive[SessionOf(r)], r, d, k) \/ Has(new, r, d, k)
        BY <1>3 DEF Skeleton
    <2> QED
        BY <1>2, <2>1, PutKeeps
<1>4. ASSUME NEW f \in OwnFiles(r, archive'[SessionOf(r)])
      PROVE  Mine(r, f)
    BY <1>2, <1>4 DEF Put, OwnFiles, Skeleton
<1>5. \A f : Settled(r, f)'
    BY DEF Settled
<1> QED
    BY <1>3, <1>4, <1>5, SkeletonStays DEF Skeleton, Has, OwnFiles, Created

\* A stage of r that leaves the map alone
LEMMA SkeletonSame ==
    ASSUME NEW r \in Requests, project' = project, Skeleton(r), r \in Active,
           archive'[SessionOf(r)] = archive[SessionOf(r)], pc'[r] # "done",
           pc'[r] = "pomB" => pc[r] = "pomB",
           pc'[r] \in Created => pc[r] \in Created,
           pc'[r] = "zipping" => zip'[r] = archive[SessionOf(r)],
           \A d \in Dirs(r) : \A k \in SkeletonKinds(r, d) : Due(r, d, k)' => Due(r, d, k)
    PROVE  Skeleton(r)'
<1>1. \A f : Settled(r, f) => Settled(r, f)'
    BY DEF Settled
<1> QED
    BY <1>1, SkeletonStays DEF Skeleton, Has, OwnFiles

\* What the stages write is r's ...
LEMMA StageFilesOwn ==
    ASSUME TypeOK, NEW r \in Requests, NEW server, NEW list, NEW deps
    PROVE  /\ Mine(r, WebappFile(r))
           /\ \A main \in BOOLEAN : Mine(r, PomFile(r, main, server, list, deps))
           /\ \A g \in GradleFiles(r, server, list) : Mine(r, g)
           /\ \A g \in BeansFiles(r) \cup JavaFiles(r, server) : Mine(r, g)
           /\ \A g \in PageFiles(r, server) : Mine(r, g)
           /\ \A g \in ServerFiles(r, server, list) : Mine(r, g)
           /\ \A spec : \A g \in ExampleFiles(r, spec, server) : Mine(r, g)
<1>1. \A g \in ServerFiles(r, server, list) : Mine(r, g)
    BY AddonFiles DEF Mine
<1>2. \A d \in Dirs(r) : \A kind, spec, sv, specs, ds : Mine(r, FileOf(r, d, kind, spec, sv, specs, ds))
    BY DEF FileOf, Mine
<1>3. MainDir(r) \in Dirs(r) /\ SecondDir(r) \in Dirs(r)
    BY DEF Dirs
<1>4. \A spec : \A g \in ExampleFiles(r, spec, server) : Mine(r, g)
    BY <1>2, <1>3 DEF ExampleFiles
<1>5. \A g \in GradleFiles(r, server, list) : Mine(r, g)
    BY <1>2 DEF GradleFiles
<1>6. \A g \in BeansFiles(r) \cup JavaFiles(r, server) : Mine(r, g)
    BY <1>2 DEF BeansFiles, JavaFiles
<1>7. \A g \in PageFiles(r, server) : Mine(r, g)
    BY <1>2 DEF PageFiles
<1>8. Mine(r, WebappFile(r)) /\ \A main \in BOOLEAN : Mine(r, PomFile(r, main, server, list, deps))
    BY <1>2, <1>3 DEF WebappFile, PomFile
<1> QED
    BY <1>1, <1>4, <1>5, <1>6, <1>7, <1>8

\* ... and what a skeleton needs.
LEMMA SkeletonFiles ==
    ASSUME NEW r, NEW server, NEW list, NEW d \in Dirs(r)
    PROVE  /\ Has(GradleFiles(r, server, list), r, d, "gradle")
           /\ Has(BeansFiles(r) \cup JavaFiles(r, server), r, d, "java")
           /\ Has(PageFiles(r, server), r, d, "pages")
           /\ \A k \in SkeletonKinds(r, d) \cap AddonKinds :
                Has(ServerFiles(r, server, list), r, d, k)
<1>1. \A kind, spec, specs, ds :
        LET f == FileOf(r, d, kind, spec, server, specs, ds)
        IN  f.by = r /\ f.path.dir = d /\ f.path.kind = kind
    BY DEF FileOf
<1>2. /\ FileOf(r, d, "gradle", Nobody, server, list, {}) \in GradleFiles(r, server, list)
      /\ FileOf(r, d, "java", Nobody, server, {}, {}) \in JavaFiles(r, server)
      /\ FileOf(r, d, "pages", Nobody, server, {}, {}) \in PageFiles(r, server)
    BY DEF GradleFiles, JavaFiles, PageFiles
<1>3. ASSUME NEW k \in SkeletonKinds(r, d) \cap AddonKinds
      PROVE  FileOf(r, d, k, Nobody, server, {}, {}) \in ServerFiles(r, server, list)
    <2>1. PICK w \in Writes(r, {}) : PlaceOf(r, w) = d /\ w.kind = k
        BY <1>3 DEF SkeletonKinds, AddonKinds
    <2>2. w \in Writes(r, list)
        BY <2>1 DEF Writes
    <2> QED
        BY <2>1, <2>2 DEF ServerFiles
<1> QED
    BY <1>1, <1>2, <1>3 DEF Has

\* The server's addon removes default files only, which are no part of a skeleton.
LEMMA SkeletonServer ==
    ASSUME TypeOK, NEW r \in Requests, project' = project, ~Racing(r), Skeleton(r),
           r \in Active, WriteServerFiles(r), pc'[r] # "failed"
    PROVE  Skeleton(r)'
<1> DEFINE old == archive[SessionOf(r)]
           kept == RemoveDefaults(old, r, Dirs(r))
           new == ServerFiles(r, alt[r], specList[param[r]])
           removed == Removes[project[r].server]
<1>1. /\ SessionOf(r) \in Sessions
      /\ removed \subseteq DefaultKinds
    BY ProjectsAssumption, RemovesAssumption DEF TypeOK, Project, SessionOf
<1>2. /\ pc[r] = "pages" /\ pc'[r] = "created"
      /\ archive'[SessionOf(r)] = Put(kept, new)
    <2>1. pc[r] = "pages" /\ pc'[r] = "created" /\ Store(r, Put(kept, new))
        BY DEF WriteServerFiles, Goto, TypeOK
    <2> QED
        BY <1>1, <2>1 DEF Store, SetArchive, TypeOK
<1>3. /\ \A g \in new : Mine(r, g) /\ g.path.kind \in AddonKinds
      /\ \A d \in Dirs(r) : \A k \in SkeletonKinds(r, d) \cap AddonKinds : Has(new, r, d, k)
    BY SkeletonFiles, StageFilesOwn, AddonFiles
<1>4. ASSUME NEW d \in Dirs(r), NEW k \in SkeletonKinds(r, d) \ AddonKinds
      PROVE  Has(kept, r, d, k)
    <2>a. k \in {"pom", "gradle", "java", "pages"}
        BY SkeletonKindsType
    <2>1. Has(old, r, d, k)
        BY <1>2, <2>a DEF Skeleton, Due, Built, Prepared, Validated, Filling, Exampled,
                    Created, AddonKinds
    <2>2. k \notin removed
        BY <1>1, <2>a DEF DefaultKinds
    <2> QED
        BY <2>1, <2>2 DEF Has, RemoveDefaults
<1>5. ASSUME NEW f \in kept, f.by = r
      PROVE  Mine(r, f) /\ f.path.kind \notin removed
    <2>1. f \in old /\ Mine(r, f)
        BY <1>5 DEF RemoveDefaults, Skeleton, OwnFiles
    <2> QED
        BY <1>5, <2>1 DEF RemoveDefaults, Mine
<1>6. DefaultKinds \cap AddonKinds = {}
    BY DEF DefaultKinds, AddonKinds
<1> HIDE DEF old, kept, new
<1>7. ASSUME NEW d \in Dirs(r), NEW k \in SkeletonKinds(r, d)
      PROVE  Has(archive'[SessionOf(r)], r, d, k)
    BY <1>2, <1>3, <1>4, PutKeeps
<1>8. ASSUME NEW f \in OwnFiles(r, archive'[SessionOf(r)])
      PROVE  Mine(r, f) /\ f.path.kind \notin removed
    BY <1>1, <1>2, <1>3, <1>5, <1>6, <1>8 DEF OwnFiles, Put
<1> QED
    BY <1>2, <1>7, <1>8, SkeletonStays DEF Skeleton, Settled, Has, OwnFiles

LEMMA SkeletonRun ==
    ASSUME TypeOK, MetInv, NEW r \in Requests, Private(r), Skeleton(r), Run(r)
    PROVE  Skeleton(r)'
<1>1. /\ r \in Active /\ project' = project /\ ~Racing(r)
      /\ pc' \in [Requests -> Stages]
    BY RunSummary, PrivateAlone
<1>2. /\ MainDir(r)' = MainDir(r) /\ Dirs(r) = {MainDir(r), SecondDir(r)}
      /\ pc[r] \in Stages
      /\ \A d : SkeletonKinds(r, d) \subseteq
                {IF project[r].tool = "maven" THEN "pom" ELSE "gradle", "java", "pages"}
                    \cup AddonKinds
    BY <1>1, SkeletonStays, SkeletonKindsType DEF Dirs, TypeOK
<1> USE DEF Goto, Stages, Built, Prepared, Validated, Filling, Exampled, Created
<1>3. CASE Prepare(r)
    <2>1. archive' = archive /\ pc'[r] \notin Built \cup {"pomB", "done", "zipping"}
        BY <1>3 DEF Prepare, SetAddonOptions, ResetSpecs, AddSpec, PublishSpecs,
                    DetermineAlternatives, TypeOK
    <2>2. \A d \in Dirs(r) : \A k \in SkeletonKinds(r, d) : ~Due(r, d, k)'
        BY <1>2, <2>1 DEF Due, AddonKinds
    <2> QED
        BY <1>1, <2>1, <2>2, SkeletonSame
<1>f. CASE pc'[r] = "failed"
    BY <1>f DEF Skeleton, Active
<1>4. CASE CreateArtifacts(r) /\ pc'[r] # "failed"
    <2>1. CASE MavenMain(r)
        <3> DEFINE pom == PomFile(r, TRUE, project[options].server, specList[specsField],
                                  specList[param[r]])
        <3>1. /\ Write(r, {pom, WebappFile(r)}) /\ project[r].tool = "maven"
              /\ pc[r] = "prepared" /\ pc'[r] = AfterMainPom(r)
            BY <1>4, <2>1 DEF MavenMain, TypeOK
        <3>2. /\ Mine(r, pom) /\ pom.path.kind = "pom" /\ pom.path.dir = MainDir(r)
              /\ Mine(r, WebappFile(r))
            BY StageFilesOwn DEF PomFile, FileOf
        <3> HIDE DEF pom
        <3>3. Has({pom, WebappFile(r)}, r, MainDir(r), "pom")
            BY <3>2 DEF Has, Mine
        <3>4. pc'[r] \in {"pomB", "built"} /\ (pc'[r] = "built" => Dirs(r) = {MainDir(r)})
            BY <1>2, <3>1 DEF AfterMainPom, MainDir, SecondDir
        <3>5. ASSUME NEW d \in Dirs(r), NEW k \in SkeletonKinds(r, d), Due(r, d, k)'
              PROVE  Has({pom, WebappFile(r)}, r, d, k)
            <4>1. k = "pom" /\ d = MainDir(r)
                BY <1>2, <3>1, <3>4, <3>5 DEF Due, AddonKinds
            <4> QED
                BY <3>3, <4>1
        <3> QED
            BY <1>1, <3>1, <3>2, <3>4, <3>5, SkeletonStage
    <2>2. CASE MavenSecond(r)
        <3> DEFINE pom == PomFile(r, FALSE, project[options].server, specList[specsField],
                                  specList[param[r]])
        <3>1. /\ Write(r, {pom}) /\ project[r].tool = "maven"
              /\ pc[r] = "pomB" /\ pc'[r] = "built"
            BY <1>4, <2>2 DEF MavenSecond, TypeOK, Skeleton
        <3>2. Mine(r, pom) /\ pom.path.kind = "pom" /\ pom.path.dir = SecondDir(r)
            BY StageFilesOwn DEF PomFile, FileOf
        <3> HIDE DEF pom
        <3>3. Has({pom}, r, SecondDir(r), "pom")
            BY <3>2 DEF Has, Mine
        <3>4. ASSUME NEW d \in Dirs(r), NEW k \in SkeletonKinds(r, d), Due(r, d, k)'
              PROVE  Due(r, d, k) \/ Has({pom}, r, d, k)
            <4>1. k = "pom"
                BY <1>2, <3>1, <3>4 DEF Due, AddonKinds
            <4> QED
                BY <1>2, <3>1, <3>3, <3>4, <4>1 DEF Due, AddonKinds
        <3> QED
            BY <1>1, <3>1, <3>2, <3>4, SkeletonStage
    <2>3. CASE Gradle(r)
        <3> DEFINE new == {WebappFile(r)} \cup GradleFiles(r, alt[r], mpVars[r])
        <3>1. /\ Write(r, new) /\ project[r].tool = "gradle" /\ pc'[r] = "built"
            BY <2>3 DEF Gradle, TypeOK
        <3>2. /\ \A g \in new : Mine(r, g)
              /\ \A d \in Dirs(r) : Has(new, r, d, "gradle")
            <4>1. \A g \in new : Mine(r, g)
                BY StageFilesOwn
            <4>2. \A d \in Dirs(r) : Has(GradleFiles(r, alt[r], mpVars[r]), r, d, "gradle")
                BY SkeletonFiles
            <4> QED
                BY <4>1, <4>2 DEF Has
        <3> HIDE DEF new
        <3>3. ASSUME NEW d \in Dirs(r), NEW k \in SkeletonKinds(r, d), Due(r, d, k)'
              PROVE  Has(new, r, d, k)
            <4>1. k = "gradle"
                BY <1>2, <3>1, <3>3 DEF Due, AddonKinds
            <4> QED
                BY <3>2, <4>1
        <3> QED
            BY <1>1, <3>1, <3>2, <3>3, SkeletonStage
    <2>4. CASE BeansAndJava(r)
        <3> DEFINE new == BeansFiles(r) \cup JavaFiles(r, alt[r])
        <3>1. Write(r, new) /\ pc[r] = "built" /\ pc'[r] = "examples"
            BY <2>4 DEF BeansAndJava, TypeOK
        <3>2. /\ \A g \in new : Mine(r, g)
              /\ \A d \in Dirs(r) : Has(new, r, d, "java")
            BY SkeletonFiles, StageFilesOwn
        <3> HIDE DEF new
        <3>3. ASSUME NEW d \in Dirs(r), NEW k \in SkeletonKinds(r, d), Due(r, d, k)'
              PROVE  Due(r, d, k) \/ Has(new, r, d, k)
            BY <1>2, <3>1, <3>2, <3>3 DEF Due, AddonKinds
        <3> QED
            BY <1>1, <3>1, <3>2, <3>3, SkeletonStage
    <2>5. CASE WriteExample(r)
        <3>1. /\ pc[r] = "examples" /\ pc' = pc
              /\ \/ \E spec : Write(r, ExampleFiles(r, spec, alt[r]))
                 \/ archive' = archive
            BY <2>5, ExampleChosen DEF WriteExample
        <3>2. \A d \in Dirs(r) : \A k \in SkeletonKinds(r, d) : Due(r, d, k)' => Due(r, d, k)
            BY <1>2, <3>1 DEF Due
        <3>3. CASE archive' = archive
            BY <1>1, <3>1, <3>2, <3>3, SkeletonSame
        <3>4. ASSUME NEW spec, Write(r, ExampleFiles(r, spec, alt[r]))
              PROVE  Skeleton(r)'
            BY <1>1, <3>1, <3>2, <3>4, StageFilesOwn, SkeletonStage
        <3> QED
            BY <3>1, <3>3, <3>4
    <2>6. CASE WritePages(r)
        <3> DEFINE new == PageFiles(r, alt[r])
        <3>1. Write(r, new) /\ pc[r] = "examples" /\ pc'[r] = "pages"
            BY <2>6 DEF WritePages, TypeOK
        <3>2. /\ \A g \in new : Mine(r, g)
              /\ \A d \in Dirs(r) : Has(new, r, d, "pages")
            BY SkeletonFiles, StageFilesOwn
        <3> HIDE DEF new
        <3>3. ASSUME NEW d \in Dirs(r), NEW k \in SkeletonKinds(r, d), Due(r, d, k)'
              PROVE  Due(r, d, k) \/ Has(new, r, d, k)
            BY <1>2, <3>1, <3>2, <3>3 DEF Due, AddonKinds
        <3> QED
            BY <1>1, <3>1, <3>2, <3>3, SkeletonStage
    <2>7. CASE WriteServerFiles(r)
        BY <1>1, <1>2, <1>4, <2>7, SkeletonServer
    <2> QED
        BY <1>4, <2>1, <2>2, <2>3, <2>4, <2>5, <2>6, <2>7 DEF CreateArtifacts
<1>5. CASE SubmitLog(r) /\ pc'[r] # "failed"
    <2>1. archive' = archive /\ pc[r] = "created" /\ pc'[r] = "logged"
        BY <1>5 DEF SubmitLog, TypeOK
    <2>2. \A d \in Dirs(r) : \A k \in SkeletonKinds(r, d) : Due(r, d, k)' => Due(r, d, k)
        BY <2>1 DEF Due
    <2> QED
        BY <1>1, <2>1, <2>2, SkeletonSame
<1>6. CASE StartArchive(r)
    <2>1. /\ archive' = archive /\ pc[r] \in {"created", "logged"} /\ pc'[r] = "zipping"
          /\ zip'[r] = archive[SessionOf(r)]
        BY <1>6 DEF StartArchive, LastStage, TypeOK
    <2>2. \A d \in Dirs(r) : \A k \in SkeletonKinds(r, d) : Due(r, d, k)' => Due(r, d, k)
        BY <2>1 DEF Due
    <2> QED
        BY <1>1, <2>1, <2>2, SkeletonSame
<1>7. CASE FinishArchive(r) /\ pc'[r] # "failed"
    <2>1. /\ pc[r] = "zipping" /\ pc'[r] = "done" /\ zip[r] = archive[SessionOf(r)]
        BY <1>7 DEF FinishArchive, TypeOK, Skeleton
    <2>2. zip'[r] = zip[r]
        <3> DEFINE now == archive[SessionOf(r)]
        <3>1. Put(now, now) = now /\ Put(now, {}) = now
            BY DEF Put
        <3>2. RacyFiles(now \ zip[r]) = {}
            BY <2>1 DEF RacyFiles
        <3>3. CASE UNCHANGED zip
            BY <3>3
        <3>4. CASE \E seen \in {now} \cup SUBSET RacyFiles(now \ zip[r]) :
                        zip' = [zip EXCEPT ![r] = Put(@, seen)]
            <4>1. PICK seen \in {now} \cup SUBSET RacyFiles(now \ zip[r]) :
                        zip' = [zip EXCEPT ![r] = Put(zip[r], seen)]
                BY <3>4
            <4>2. zip'[r] = Put(now, seen)
                BY <2>1, <4>1 DEF TypeOK
            <4>3. seen \in {now, {}}
                BY <3>2, <4>1
            <4> QED
                BY <2>1, <3>1, <4>2, <4>3
        <3>5. \/ UNCHANGED zip
              \/ \E seen \in {now} \cup SUBSET RacyFiles(now \ zip[r]) :
                        zip' = [zip EXCEPT ![r] = Put(@, seen)]
            BY <1>7 DEF FinishArchive, TypeOK
        <3> QED
            BY <3>3, <3>4, <3>5
    <2>3. \A d \in Dirs(r) : \A k \in SkeletonKinds(r, d) : Has(zip[r], r, d, k)
        BY <1>1, <2>1 DEF Skeleton, Due
    <2>4. \A f \in OwnFiles(r, zip[r]) : f.path.kind \notin Removes[project[r].server]
        BY <1>1, <2>1 DEF Skeleton, Settled
    <2> QED
        BY <1>1, <2>1, <2>2, <2>3, <2>4, SkeletonStays DEF Skeleton, Active, Has, OwnFiles
<1> QED
    BY <1>f, <1>3, <1>4, <1>5, <1>6, <1>7 DEF Run, CreateArchive

LEMMA SkeletonStep == SafeInv /\ SkeletonInv /\ [Next]_vars => SkeletonInv'
<1> SUFFICES ASSUME SafeInv, SkeletonInv, [Next]_vars, NEW r \in Requests, Private(r)'
             PROVE  Skeleton(r)'
    BY DEF SkeletonInv
<1> USE DEF SafeInv
<1>1. project' = project /\ Private(r)
    BY ServersStay DEF Private, SessionOf
<1>2. Skeleton(r)
    BY <1>1 DEF SkeletonInv
<1>3. ASSUME pc'[r] = pc[r], zip'[r] = zip[r],
             r \in Active => archive'[SessionOf(r)] = archive[SessionOf(r)]
      PROVE  Skeleton(r)'
    <2>1. \A d, k : Due(r, d, k)' <=> Due(r, d, k)
        BY <1>1, <1>3, SkeletonStays DEF Due
    <2>2. (r \in Active)' <=> r \in Active
        BY <1>3 DEF Active
    <2>3. pc[r] = "zipping" => r \in Active
        BY DEF Active
    <2>4. \A f : Settled(r, f)' <=> Settled(r, f)
        BY <1>1, <1>3 DEF Settled
    <2> QED
        BY <1>1, <1>2, <1>3, <2>1, <2>2, <2>3, <2>4, SkeletonStays DEF Skeleton, Has, OwnFiles
<1>4. CASE UNCHANGED vars
    BY <1>3, <1>4 DEF vars
<1>5. ASSUME NEW q \in Requests, Arrive(q)
      PROVE  Skeleton(r)'
    <2>1. CASE q = r
        <3>1. pc'[r] \in {"begun", "failed"}
            BY <1>5, <2>1 DEF Arrive, Goto, TypeOK
        <3>2. OwnFiles(r, archive'[SessionOf(r)']) = {}
            <4>1. pc[r] = "idle" /\ archive' = archive /\ SessionOf(r)' \in Sessions
                BY <1>1, <1>5, <2>1, ProjectsAssumption DEF Arrive, SessionOf, TypeOK, Project
            <4> QED
                BY <4>1 DEF OwnFiles, ArchiveInv
        <3>3. ASSUME pc'[r] = "begun", NEW d, NEW k \in SkeletonKinds(r, d)
              PROVE  ~Due(r, d, k)'
            <4>1. k \in {"pom", "gradle", "java", "pages"} \cup AddonKinds
                BY <3>3, SkeletonKindsType
            <4> QED
                BY <3>3, <4>1 DEF Due, Built, Prepared, Validated, Filling, Exampled, Created
        <3> QED
            BY <1>1, <3>1, <3>2, <3>3, SkeletonStays DEF Skeleton, Active, OwnFiles
    <2>2. CASE q # r
        BY <1>3, <1>5, <2>2, OthersLeave
    <2> QED
        BY <2>1, <2>2
<1>6. ASSUME NEW q \in Requests, Run(q)
      PROVE  Skeleton(r)'
    <2>1. CASE q = r
        BY <1>1, <1>2, <1>6, <2>1, SkeletonRun
    <2>2. CASE q # r
        <3>1. r \in Active => SessionOf(q) # SessionOf(r) /\ SessionOf(r) \in Sessions
            BY <1>1, <1>6, <2>2, PrivateAlone, RunSummary, FieldsType
        <3> QED
            BY <1>3, <1>6, <2>2, <3>1, RunSummary, RunFiles
    <2> QED
        BY <2>1, <2>2
<1> QED
    BY <1>4, <1>5, <1>6 DEF Next, Quiet

\* Whatever other sessions do to the addon's fields, a request that shares its
\* session with no other active one is delivered a complete skeleton.
THEOREM SkeletonDelivered == Spec => []SkeletonComplete
<1>1. Init => SkeletonInv
    BY DEF Init, SkeletonInv, Skeleton, Active, Due, SkeletonKinds, Built, Prepared, Validated,
           Filling, Exampled, Created
<1>2. SafeInv /\ SkeletonInv /\ [Next]_vars => (SafeInv /\ SkeletonInv)'
    BY SafeStep, SkeletonStep
<1>3. SafeInv /\ SkeletonInv => SkeletonComplete
    BY DEF SkeletonComplete, SkeletonInv, Private, Skeleton, Has, OwnFiles
<1> QED
    BY <1>1, <1>2, <1>3, SafeInit, PTL DEF Spec

-----------------------------------------------------------------------------
(* The service *)

SerialSafety == Init /\ [][SerialNext]_vars

\* With one request at a time, the maps and the zip files hold files of the
\* request that is active, or was answered with them.
SerialInv ==
    /\ \A q, r \in Active : q = r
    /\ \A r \in Requests : met[r] = {} /\ \A f \in zip[r] : f.by = r
    /\ \A s \in Sessions : \A f \in archive[s] : f.by \in Active

\* On its own, a request fails in createArchive at most, and leaves nothing then.
LEMMA SerialFailure ==
    ASSUME ~ExecutorRejects, SafeInv, NEW r \in Requests, met[r] = {}, Run(r),
           pc'[r] = "failed"
    PROVE  archive'[SessionOf(r)] = {}
<1> USE DEF SafeInv
<1>1. /\ r \in Active /\ SessionOf(r) \in Sessions /\ project[r].server \in Servers
      /\ ~Contended(r) /\ ~Racing(r)
      /\ pc[r] \in Filling => specsField = r
      /\ pc[r] \in Prepared => options = r /\ alt[r] = project[r].server
    BY RunSummary, AloneReads, FieldsType, ProjectsAssumption
       DEF Filling, Prepared, Validated, TypeOK, Project
<1>2. <<project[r].server, project[r].server>> \in PomCompatible \cap TemplateCompatible
    BY <1>1, CompatibleAssumption
<1> USE DEF Goto, TypeOK, Filling, Validated, Prepared
<1>3. ~Prepare(r)
    BY <1>1 DEF Prepare, SetAddonOptions, ResetSpecs, AddSpec, PublishSpecs, DetermineAlternatives
<1>4. ~CreateArtifacts(r)
    <2>1. ~MavenMain(r) /\ ~MavenSecond(r)
        BY <1>1, <1>2 DEF MavenMain, MavenSecond, AfterMainPom
    <2>2. ~Gradle(r) /\ ~BeansAndJava(r) /\ ~WriteExample(r) /\ ~WritePages(r)
        BY DEF Gradle, BeansAndJava, WriteExample, WritePages
    <2>3. ~WriteServerFiles(r)
        BY <1>1, <1>2 DEF WriteServerFiles
    <2> QED
        BY <2>1, <2>2, <2>3 DEF CreateArtifacts
<1>5. FinishArchive(r)
    BY <1>3, <1>4 DEF Run, CreateArchive, SubmitLog, StartArchive
<1> QED
    BY <1>1, <1>5 DEF FinishArchive, ClearArchive, SetArchive

\* What a stage of the only active request leaves behind
LEMMA SerialRun ==
    ASSUME ~ExecutorRejects, SafeInv, SerialInv, NEW r \in Requests, Run(r)
    PROVE  SerialInv'
<1> USE DEF SafeInv
<1>1. /\ Active = {r} /\ SessionOf(r) \in Sessions /\ project' = project /\ met' = met
      /\ \A q \in Requests \ {r} : pc'[q] = pc[q] /\ zip'[q] = zip[q]
    BY RunSummary, FieldsType DEF SerialInv
<1>2. Active' \subseteq {r} /\ (pc'[r] \notin {"done", "failed"} => r \in Active')
    BY <1>1, RunSummary DEF Active
<1>3. ASSUME NEW s \in Sessions, NEW f \in archive'[s]
      PROVE  f.by \in Active'
    <2>1. CASE s = SessionOf(r)
        <3>1. pc'[r] \notin {"done", "failed"}
            BY <1>1, <1>3, <2>1, RunFiles, SerialFailure DEF SerialInv
        <3>2. f.by = r
            BY <1>1, <1>3, <2>1, RunFiles DEF SerialInv, Own
        <3> QED
            BY <1>2, <3>1, <3>2
    <2>2. CASE s # SessionOf(r)
        BY <1>1, <1>3, <2>2, RunFiles DEF SerialInv, ArchiveInv
    <2> QED
        BY <2>1, <2>2
<1>4. ASSUME NEW f \in zip'[r]
      PROVE  f.by = r
    <2>1. \A g \in archive[SessionOf(r)] \cup zip[r] : g.by = r
        BY <1>1 DEF SerialInv
    <2>2. f \in archive[SessionOf(r)] \cup zip[r]
        BY <1>4, ZipFrom
    <2> QED
        BY <2>1, <2>2
<1> QED
    BY <1>1, <1>2, <1>3, <1>4 DEF SerialInv

LEMMA SerialStep ==
    ASSUME ~ExecutorRejects, SafeInv, SerialInv, [SerialNext]_vars
    PROVE  SerialInv'
<1>1. ASSUME NEW r \in Requests, Active = {}, Arrive(r)
      PROVE  SerialInv'
    <2>1. /\ pc'[r] = "begun" /\ archive' = archive /\ zip' = zip
          /\ \A q \in Requests \ {r} : pc'[q] = pc[q]
          /\ \A q \in Requests : met'[q] = IF q = r THEN {} ELSE met[q]
        BY <1>1 DEF Arrive, Goto, SafeInv, TypeOK
    <2>2. Active' = {r}
        BY <1>1, <2>1 DEF Active
    <2> QED
        BY <1>1, <2>1, <2>2 DEF SerialInv
<1>2. CASE UNCHANGED vars
    BY <1>2 DEF vars, SerialInv, Active
<1> QED
    BY <1>1, <1>2, SerialRun DEF SerialNext, Quiet

LEMMA CompleteType ==
    ASSUME TypeOK, NEW r \in Requests
    PROVE  Complete(r) \subseteq File
<1> DEFINE s == project[r].server
           list == project[r].specs
<1>1. s \in Servers /\ list \in SUBSET Specs
    BY ProjectsAssumption DEF TypeOK, Project
<1>2. BuildFiles(r) \subseteq File
    <2>1. WebappFile(r) \in File /\ GradleFiles(r, s, list) \subseteq File
        BY <1>1, SpecsAssumption, StageFilesType DEF SplitSpecs
    <2>2. \A main \in BOOLEAN : PomFile(r, main, s, list, list) \in File
        BY <1>1, SpecsAssumption, StageFilesType DEF SplitSpecs
    <2> QED
        BY <2>1, <2>2 DEF BuildFiles, Split
<1>3. /\ BeansFiles(r) \cup JavaFiles(r, s) \subseteq File
      /\ PageFiles(r, s) \cup ServerFiles(r, s, list) \subseteq File
    BY <1>1, SpecsAssumption, StageFilesType DEF SplitSpecs
<1>4. \A spec \in list : ExampleFiles(r, spec, s) \subseteq File
    BY <1>1, StageFilesType
<1> QED
    BY <1>2, <1>3, <1>4 DEF Complete

LEMMA ServiceInit ==
    ASSUME Init
    PROVE  Service!Init
<1>1. TypeOK
    BY TypeInit
<1>2. \A r \in Requests : Expected(r) \in SUBSET File
    BY <1>1, CompleteType DEF Expected
<1>3. [r \in Requests |-> StatusOf(pc[r])] = [r \in Requests |-> "new"]
    BY DEF Init, StatusOf
<1>4. [r \in Requests |-> IF pc[r] = "done" THEN zip[r] ELSE {}] = [r \in Requests |-> {}]
    BY DEF Init
<1> QED
    BY <1>2, <1>3, <1>4 DEF Service!Init

\* Every step of a request is one of the service, or none that a user sees.
LEMMA ServiceStep ==
    ASSUME ~ExecutorRejects, SafeInv, SerialInv, AloneInv, [SerialNext]_vars,
           SafeInv', SerialInv', AloneInv'
    PROVE  Service!Next \/ UNCHANGED Service!serviceVars
<1> DEFINE wanted == [r \in Requests |-> Expected(r)]
           status == [r \in Requests |-> StatusOf(pc[r])]
           delivered == [r \in Requests |-> IF pc[r] = "done" THEN zip[r] ELSE {}]
<1>1. project' = project => wanted' = wanted
    BY CompleteStays
<1>2. ASSUME UNCHANGED <<pc, zip, project>>
      PROVE  UNCHANGED Service!serviceVars
    BY <1>1, <1>2 DEF Service!serviceVars
<1>3. ASSUME NEW r \in Requests, Active = {}, Arrive(r)
      PROVE  Service!Next
    <2>1. /\ pc[r] = "idle" /\ pc' = [pc EXCEPT ![r] = "begun"]
          /\ zip' = zip /\ project' = project
        BY <1>3 DEF Arrive, Goto
    <2>2. status' = [status EXCEPT ![r] = "accepted"]
        BY <2>1 DEF StatusOf, SafeInv, TypeOK
    <2>3. delivered' = delivered /\ status[r] = "new"
        BY <2>1 DEF StatusOf, SafeInv, TypeOK
    <2> QED
        BY <1>1, <2>1, <2>2, <2>3 DEF Service!Next, Service!Accept
<1>4. ASSUME NEW r \in Requests, Run(r)
      PROVE  Service!Next \/ UNCHANGED Service!serviceVars
    <2>1. /\ r \in Active /\ project' = project /\ pc'[r] # "idle"
          /\ \A q \in Requests \ {r} : pc'[q] = pc[q] /\ zip'[q] = zip[q]
        BY <1>4, RunSummary DEF SafeInv
    <2>2. status[r] = "accepted" /\ pc[r] # "done"
        BY <2>1 DEF Active, StatusOf
    <2>3. CASE pc'[r] \notin {"done", "failed"}
        <3>1. status' = status
            BY <2>1, <2>2, <2>3 DEF StatusOf
        <3>2. delivered' = delivered
            BY <2>1, <2>2, <2>3
        <3> QED
            BY <1>1, <2>1, <3>1, <3>2 DEF Service!serviceVars
    <2>4. CASE pc'[r] = "failed"
        <3>1. status' = [status EXCEPT ![r] = "refused"]
            BY <2>1, <2>4 DEF StatusOf
        <3>2. delivered' = delivered
            BY <2>1, <2>2, <2>4
        <3> QED
            BY <1>1, <2>1, <2>2, <3>1, <3>2 DEF Service!Next, Service!Refuse
    <2>5. CASE pc'[r] = "done"
        <3>1. status' = [status EXCEPT ![r] = "delivered"]
            BY <2>1, <2>5 DEF StatusOf
        <3>2. zip'[r] = wanted[r]
            <4>1. OwnFiles(r, zip'[r]) = Expected(r)'
                BY <2>5 DEF SerialInv, AloneInv, AloneFiles, OwnFiles
            <4>2. OwnFiles(r, zip'[r]) = zip'[r]
                BY DEF SerialInv, OwnFiles
            <4> QED
                BY <2>1, <4>1, <4>2, CompleteStays
        <3>3. delivered' = [delivered EXCEPT ![r] = wanted[r]]
            BY <2>1, <2>5, <3>2
        <3> QED
            BY <1>1, <2>1, <2>2, <3>1, <3>3 DEF Service!Next, Service!Deliver
    <2> QED
        BY <2>3, <2>4, <2>5
<1> QED
    BY <1>2, <1>3, <1>4 DEF SerialNext, Quiet, vars

\* Without overlap, and under an executor that takes every task, the generation
\* does what a user is promised: each request is answered at most once, with
\* exactly the files it asked for or with a refusal.
THEOREM SerialServes ==
    ASSUME ~ExecutorRejects
    PROVE  SerialSafety => Service!Init /\ [][Service!Next]_(Service!serviceVars)
<1>1. Init => SafeInv /\ AloneInv /\ SerialInv
    BY SafeInit DEF Init, AloneInv, AloneFields, AloneFiles, SerialInv, Active, Filling, Validated
<1>2. SafeInv /\ AloneInv /\ SerialInv /\ [SerialNext]_vars => (SafeInv /\ AloneInv /\ SerialInv)'
    <2>1. [SerialNext]_vars => [Next]_vars
        BY DEF SerialNext, Next
    <2> QED
        BY <2>1, SafeStep, AloneStep, SerialStep
<1>3. SafeInv /\ AloneInv /\ SerialInv /\ (SafeInv /\ AloneInv /\ SerialInv)' /\ [SerialNext]_vars
        => [Service!Next]_(Service!serviceVars)
    BY ServiceStep
<1>4. Init => Service!Init
    BY ServiceInit
<1> QED
    BY <1>1, <1>2, <1>3, <1>4, PTL DEF SerialSafety
===============================================================================
