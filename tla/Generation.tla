------------------------------ MODULE Generation ------------------------------
(***************************************************************************)
(* The generation of projects by concurrent requests.                      *)
(*                                                                         *)
(* A request (a REST call of APIService.processProject or a click on the   *)
(* download button, GeneratorDataBean.generateProject) runs on its own     *)
(* thread through ModelManager.prepareModel, Creator.createArtifacts and   *)
(* ZipFileCreator.createArchive.  Nothing in that path takes a lock, and   *)
(* two things in it are shared:                                            *)
(*                                                                         *)
(*  - the addon "mp" (MicroprofileServersAddon) is application scoped and  *)
(*    keeps the request's option map and spec list in FIELDS, which every  *)
(*    request overwrites and reads again in later stages;                  *)
(*  - ZipFileCreator is session scoped, so that all requests of a session  *)
(*    write their files into one map, which createArchive empties.         *)
(*                                                                         *)
(* One action is one stage of a request between two accesses to the shared *)
(* fields.  A file is identified by its path; its content is abstracted to *)
(* the request that wrote it (`by'), the server its template or Maven      *)
(* profile belongs to, and the specs it was made from.                     *)
(***************************************************************************)

CONSTANTS
    Requests,           \* the requests that are made, in any order and overlap
    Sessions,           \* the HTTP sessions
    Artifacts,          \* artifact ids: the top level directories of projects
    Servers,            \* SupportedServer
    Specs,              \* MicroprofileSpec
    RestClient,         \* the two specs whose examples need a second project
    JwtAuth,
    Projects,           \* what a request may ask for
    Removes,            \* kinds of default files that a server's addon removes
    ServerWrites,       \* the files that a server's addon writes of its own
    PomCompatible,      \* <<s, t>>: addon s can adapt a pom with profile t
    TemplateCompatible, \* <<s, t>>: addon s finds its templates under name t
    ExecutorRejects,    \* may the executor reject a LoggingTask?
    RacyKinds,          \* bound: the kinds of files in which a race on the
                        \* HashMap of a session shows one by one
    Nobody              \* null

SplitSpecs == {RestClient, JwtAuth}

Project == [session : Sessions, artifact : Artifacts, entry : {"rest", "web"},
            tool : {"maven", "gradle"}, server : Servers, specs : SUBSET Specs]

DefaultKinds == {"webapp", "beans"}
\* Files of a server's addon: "key" is the public key of the JWT examples, whose
\* template is found under every name, and "server" stands for all the others.
AddonKinds == {"server", "key"}
Kinds == DefaultKinds \cup AddonKinds \cup
            {"pom", "gradle", "java", "example", "exampleB", "pages"}

\* In which service's directory an addon writes files of a kind, and whether it
\* does so for projects with JWT only.
AddonFile == [kind : AddonKinds, main : BOOLEAN, jwt : BOOLEAN]

ASSUME SpecsAssumption == SplitSpecs \subseteq Specs
ASSUME ProjectsAssumption == Projects \subseteq Project
ASSUME RemovesAssumption == Removes \in [Servers -> SUBSET DefaultKinds]
ASSUME ServerWritesAssumption ==
    /\ ServerWrites \in [Servers -> SUBSET AddonFile]
    /\ \A s \in Servers : \A w \in ServerWrites[s] : w.kind = "key" => w.jwt
\* An addon always accepts the profile and the templates of its own server.
ASSUME CompatibleAssumption ==
    \A s \in Servers : <<s, s>> \in PomCompatible /\ <<s, s>> \in TemplateCompatible
ASSUME RacyAssumption == RacyKinds \subseteq Kinds
ASSUME ExecutorAssumption == ExecutorRejects \in BOOLEAN
ASSUME NobodyAssumption == Nobody \notin Requests /\ Nobody \notin Servers /\ Nobody \notin Specs

VARIABLES
    project,     \* project[r]: what request r asks for
    pc,          \* pc[r]: the stage that r has reached
    options,     \* AbstractAddon.options: the request whose map it references
    specsField,  \* MicroprofileServersAddon.microprofileSpecs: the request
                 \* whose list object it references
    specList,    \* specList[r]: content of the list object r has created
    todo,        \* todo[r]: specs the loop r is in has still to visit
    mpVars,      \* mpVars[r]: the mp_<spec> template variables of r's model
    param,       \* param[r]: r's model parameter MICROPROFILESPECS (a list)
    alt,         \* alt[r]: the server in r's model parameter ALTERNATIVES
    archive,     \* archive[s]: ZipFileCreator.archiveContent of session s
    zip,         \* zip[r]: what createArchive has put into r's zip file
    comod,       \* requests whose running iteration of the map is invalid
    met          \* history: met[r] are the requests active together with r

vars == <<project, pc, options, specsField, specList, todo, mpVars, param,
          alt, archive, zip, comod, met>>

Stages == {"idle", "begun", "optioned", "filling", "validated", "prepared",
           "pomB", "built", "examples", "pages", "created", "logged",
           "zipping", "done", "failed"}

Active == {r \in Requests : pc[r] \notin {"idle", "done", "failed"}}

-----------------------------------------------------------------------------
(* Files *)

\* ModelValidation.determineSplitProject
Split(r) == project[r].specs \cap SplitSpecs # {}
\* Fault: the artifact id taken for the directory of the first service.
MainDirByArtifact(r) == IF Split(r) THEN project[r].artifact ELSE "top"
MainDir(r) == IF Split(r) THEN "service-a" ELSE "top"
SecondDir(r) == IF Split(r) THEN "service-b" ELSE "top"
Dirs(r) == {MainDir(r), SecondDir(r)}

Path == [artifact : Artifacts, dir : {"top", "service-a", "service-b"},
         kind : Kinds, spec : Specs \cup {Nobody}]
File == [path : Path, by : Requests, server : Servers,
         specs : SUBSET Specs, deps : SUBSET Specs]

FileOf(r, dir, kind, spec, server, specs, deps) ==
    [path |-> [artifact |-> project[r].artifact, dir |-> dir,
               kind |-> kind, spec |-> spec],
     by |-> r, server |-> server, specs |-> specs, deps |-> deps]

\* .gitkeep in src/main/webapp of the main project
WebappFile(r) == FileOf(r, MainDir(r), "webapp", Nobody, project[r].server, {}, {})

\* A pom has the profile of `server', the dependencies the mp addon adds to
\* the main project for the specs in `list' and those the server's addon adds
\* for `deps'.
PomFile(r, main, server, list, deps) ==
    FileOf(r, IF main THEN MainDir(r) ELSE SecondDir(r), "pom", Nobody, server,
           IF main THEN list \cap {JwtAuth} ELSE {}, deps)

GradleFiles(r, server, list) ==
    {FileOf(r, d, "gradle", Nobody, server, list, {}) : d \in Dirs(r)}

\* beans.xml, then RestApplication.java and HelloController.java
BeansFiles(r) == {FileOf(r, d, "beans", Nobody, project[r].server, {}, {}) : d \in Dirs(r)}
JavaFiles(r, server) == {FileOf(r, d, "java", Nobody, server, {}, {}) : d \in Dirs(r)}

\* The example of a spec.  The one of RestClient always has a part in the
\* second project's directory, the one of JwtAuth only if there is such a
\* project.
ExampleFiles(r, spec, server) ==
    {FileOf(r, MainDir(r), "example", spec, server, {}, {})} \cup
    {FileOf(r, SecondDir(r), "exampleB", s, server, {}, {}) :
        s \in {spec} \cap (IF Split(r) THEN SplitSpecs ELSE {RestClient})}

\* microprofile-config.properties, index.html and the readme files
PageFiles(r, server) == {FileOf(r, d, "pages", Nobody, server, {}, {}) : d \in Dirs(r)}

\* What the addon of r's server writes when `list' are the specs: something for
\* the first service in any case, for the second if there is one, and the files
\* for JWT only if there are two services.  Some addons write the latter only.
Writes(r, list) ==
    {w \in ServerWrites[project[r].server] :
        \/ w.main /\ ~w.jwt
        \/ Split(r) /\ (w.jwt => JwtAuth \in list)}

PlaceOf(r, w) == IF w.main THEN MainDir(r) ELSE SecondDir(r)

ServerFiles(r, server, list) ==
    {FileOf(r, PlaceOf(r, w), w.kind, Nobody, server, {}, {}) : w \in Writes(r, list)}

Put(files, new) == {f \in files : \A g \in new : g.path # f.path} \cup new

\* FakeDirectoryCreator.removeDirectory of the webapp directories, or of the
\* WEB-INF directories in them, of the services in `dirs'
RemoveDefaults(files, r, dirs) ==
    {f \in files : ~ /\ f.path.artifact = project[r].artifact
                     /\ f.path.dir \in dirs
                     /\ f.path.kind \in Removes[project[r].server]}

OwnFiles(r, files) == {f \in files : f.by = r}

Keys(files) == {f.path : f \in files}

SessionOf(r) == project[r].session

\* Requests whose iteration of r's session map a structural change by r makes
\* invalid: HashMap's iterators are fail-fast.
Disturbed(r, files) ==
    {q \in Requests \ {r} : /\ pc[q] = "zipping"
                            /\ SessionOf(q) = SessionOf(r)
                            /\ Keys(files) # Keys(archive[SessionOf(r)])}

\* Fault: an application scoped ZipFileCreator.
SetArchiveOfAll(r, files) ==
    /\ archive' = [s \in Sessions |-> files]
    /\ comod' = comod \cup Disturbed(r, files)

SetArchive(r, files) ==
    /\ archive' = [archive EXCEPT ![SessionOf(r)] = files]
    /\ comod' = comod \cup Disturbed(r, files)

\* Another request of the session is about to write into its map, or to empty it.
Racing(r) ==
    \E q \in Requests \ {r} :
        /\ SessionOf(q) = SessionOf(r)
        /\ pc[q] \in {"prepared", "pomB", "built", "examples", "pages", "zipping"}

RacyFiles(files) == {f \in files : f.path.kind \in RacyKinds}

\* Two unsynchronised HashMap.put can lose entries, old ones too when the table
\* is resized.
Store(r, files) ==
    \/ SetArchive(r, files)
    \/ /\ Racing(r)
       /\ \E lost \in SUBSET RacyFiles(files) :
              SetArchive(r, files \ lost)

Write(r, new) == Store(r, Put(archive[SessionOf(r)], new))

\* Fault: clear() forgotten.
KeepArchive(r) == UNCHANGED <<archive, comod>>
\* archiveContent.clear()
ClearArchive(r) == SetArchive(r, {})

\* What r's project consists of when only r's own data is used: the build files,
\* then all the rest.
BuildFiles(r) ==
    LET s == project[r].server
        list == project[r].specs
    IN  {WebappFile(r)}
        \cup IF project[r].tool = "gradle" THEN GradleFiles(r, s, list)
             ELSE {PomFile(r, main, s, list, list) : main \in {TRUE, ~Split(r)}}

Complete(r) ==
    LET s == project[r].server
        list == project[r].specs
    IN  BuildFiles(r) \cup BeansFiles(r) \cup JavaFiles(r, s)
        \cup (UNION {ExampleFiles(r, spec, s) : spec \in list})
        \cup PageFiles(r, s) \cup ServerFiles(r, s, list)

Expected(r) == {f \in Complete(r) : f.path.kind \notin Removes[project[r].server]}

-----------------------------------------------------------------------------
(* Initial state and actions *)

Init ==
    /\ project \in [Requests -> Projects]
    /\ pc = [r \in Requests |-> "idle"]
    /\ options = Nobody
    /\ specsField = Nobody
    /\ specList = [r \in Requests |-> {}]
    /\ todo = [r \in Requests |-> {}]
    /\ mpVars = [r \in Requests |-> {}]
    /\ param = [r \in Requests |-> Nobody]
    /\ alt = [r \in Requests |-> Nobody]
    /\ archive = [s \in Sessions |-> {}]
    /\ zip = [r \in Requests |-> {}]
    /\ comod = {}
    /\ met = [r \in Requests |-> {}]

Goto(r, stage) == pc' = [pc EXCEPT ![r] = stage]

\* The request starts.  A REST request first submits its LoggingTask, outside
\* of any try: a rejection ends it before it has touched anything.
Arrive(r) ==
    /\ pc[r] = "idle"
    /\ \/ /\ Goto(r, "begun")
          /\ met' = [q \in Requests |-> IF q = r THEN Active
                                        ELSE IF q \in Active THEN met[q] \cup {r}
                                        ELSE met[q]]
       \/ /\ project[r].entry = "rest" /\ ExecutorRejects
          /\ Goto(r, "failed")
          /\ UNCHANGED met
    /\ UNCHANGED <<project, options, specsField, specList, todo, mpVars, param,
                   alt, archive, zip, comod>>

\* Fault: the options are set only the first time.
SetAddonOptionsOnce(r) ==
    /\ pc[r] = "begun"
    /\ options' = IF options = Nobody THEN r ELSE options
    /\ Goto(r, "optioned")
    /\ UNCHANGED <<project, specsField, specList, todo, mpVars, param, alt,
                   archive, zip, comod, met>>

\* ModelManager.setAddonOptions stores the request's map in the singleton.
SetAddonOptions(r) ==
    /\ pc[r] = "begun"
    /\ options' = r
    /\ Goto(r, "optioned")
    /\ UNCHANGED <<project, specsField, specList, todo, mpVars, param, alt,
                   archive, zip, comod, met>>

\* Fault: the list of the first request is used again.
ResetSpecsKeepingList(r) ==
    /\ pc[r] = "optioned"
    /\ todo' = [todo EXCEPT ![r] = project[options].specs]
    /\ mpVars' = [mpVars EXCEPT ![r] = project[options].specs]
    /\ specsField' = IF specsField = Nobody THEN r ELSE specsField
    /\ Goto(r, "filling")
    /\ UNCHANGED <<project, options, specList, param, alt, archive, zip, comod, met>>

\* handleSpecOptions takes the spec names from the shared options and puts a
\* new list in the shared field.
ResetSpecs(r) ==
    /\ pc[r] = "optioned"
    /\ todo' = [todo EXCEPT ![r] = project[options].specs]
    /\ mpVars' = [mpVars EXCEPT ![r] = project[options].specs]
    /\ specsField' = r
    /\ specList' = [specList EXCEPT ![r] = {}]
    /\ Goto(r, "filling")
    /\ UNCHANGED <<project, options, param, alt, archive, zip, comod, met>>

\* Another request that is in its loop adds to the same ArrayList.
Contended(r) == \E q \in Requests \ {r} : pc[q] = "filling"

\* One turn of the loop: the spec is added to the list the field references
\* NOW.  Two unsynchronised ArrayList.add can lose an element or throw.
AddSpec(r) ==
    /\ pc[r] = "filling"
    /\ \E spec \in todo[r] :
        /\ todo' = [todo EXCEPT ![r] = @ \ {spec}]
        /\ \/ /\ specList' = [specList EXCEPT ![specsField] = @ \cup {spec}]
              /\ UNCHANGED pc
           \/ /\ Contended(r)
              /\ Goto(r, "filling") \/ Goto(r, "failed")
              /\ UNCHANGED specList
    /\ UNCHANGED <<project, options, specsField, mpVars, param, alt, archive,
                   zip, comod, met>>

\* handleStandaloneSpecOptions treats its own list in the same way, and ends
\* with the last assignment of the model parameter MICROPROFILESPECS.
PublishSpecs(r) ==
    /\ pc[r] = "filling"
    /\ todo[r] = {}
    /\ param' = [param EXCEPT ![r] = specsField]
    /\ Goto(r, "validated")
    /\ UNCHANGED <<project, options, specsField, specList, todo, mpVars, alt,
                   archive, zip, comod, met>>

DetermineAlternatives(r) ==
    /\ pc[r] = "validated"
    /\ alt' = [alt EXCEPT ![r] = project[options].server]
    /\ Goto(r, "prepared")
    /\ UNCHANGED <<project, options, specsField, specList, todo, mpVars, param,
                   archive, zip, comod, met>>

\* Fault: no pom for the second service.
NoSecondPom(r) == "built"
AfterMainPom(r) == IF Split(r) THEN "pomB" ELSE "built"

\* MavenCreator.createMavenFiles for the main project: the profile is that of
\* the shared options, the mp addon's dependencies those of the shared list.
MavenMain(r) ==
    /\ pc[r] = "prepared"
    /\ project[r].tool = "maven"
    /\ LET profile == project[options].server IN
        \/ /\ <<project[r].server, profile>> \in PomCompatible
           /\ Write(r, {PomFile(r, TRUE, profile, specList[specsField], specList[param[r]]),
                        WebappFile(r)})
           /\ Goto(r, AfterMainPom(r))
        \/ /\ <<project[r].server, profile>> \notin PomCompatible
           /\ Goto(r, "failed")
           /\ UNCHANGED <<archive, comod>>
    /\ UNCHANGED <<project, options, specsField, specList, todo, mpVars, param,
                   alt, zip, met>>

\* The second project's pom asks the shared options again.
MavenSecond(r) ==
    /\ pc[r] = "pomB"
    /\ LET profile == project[options].server IN
        \/ /\ <<project[r].server, profile>> \in PomCompatible
           /\ Write(r, {PomFile(r, FALSE, profile, specList[specsField], specList[param[r]])})
           /\ Goto(r, "built")
        \/ /\ <<project[r].server, profile>> \notin PomCompatible
           /\ Goto(r, "failed")
           /\ UNCHANGED <<archive, comod>>
    /\ UNCHANGED <<project, options, specsField, specList, todo, mpVars, param,
                   alt, zip, met>>

\* GradleCreator.createGradleFiles uses the model's alternatives and variables.
Gradle(r) ==
    /\ pc[r] = "prepared"
    /\ project[r].tool = "gradle"
    /\ Write(r, {WebappFile(r)} \cup GradleFiles(r, alt[r], mpVars[r]))
    /\ Goto(r, "built")
    /\ UNCHANGED <<project, options, specsField, specList, todo, mpVars, param,
                   alt, zip, met>>

\* CDICreator.createCDIFilesForWeb and JavaCreator.createJavaFiles
BeansAndJava(r) ==
    /\ pc[r] = "built"
    /\ Write(r, BeansFiles(r) \cup JavaFiles(r, alt[r]))
    /\ todo' = [todo EXCEPT ![r] = Specs]
    /\ Goto(r, "examples")
    /\ UNCHANGED <<project, options, specsField, specList, mpVars, param, alt,
                   zip, met>>

\* MicroprofileServersAddon.createFiles asks the shared list for one spec after
\* the other, in a fixed order.
WriteExample(r) ==
    /\ pc[r] = "examples"
    /\ todo[r] # {}
    /\ LET spec == CHOOSE spec \in todo[r] : TRUE IN
        /\ todo' = [todo EXCEPT ![r] = @ \ {spec}]
        /\ IF spec \in specList[specsField]
           THEN Write(r, ExampleFiles(r, spec, alt[r]))
           ELSE UNCHANGED <<archive, comod>>
    /\ UNCHANGED <<project, pc, options, specsField, specList, mpVars, param,
                   alt, zip, met>>

WritePages(r) ==
    /\ pc[r] = "examples"
    /\ todo[r] = {}
    /\ Write(r, PageFiles(r, alt[r]))
    /\ Goto(r, "pages")
    /\ UNCHANGED <<project, options, specsField, specList, todo, mpVars, param,
                   alt, zip, met>>

\* createFiles of the server's addon.  When a template of its own cannot be
\* resolved under the alternative in force it throws, with the default files
\* removed that it had come to (KumuluzEE goes service by service) and some of
\* its files written; and removeIf throws when the map changes under it.
WriteServerFiles(r) ==
    /\ pc[r] = "pages"
    /\ LET old == archive[SessionOf(r)]
           kept == RemoveDefaults(old, r, Dirs(r))
           new == ServerFiles(r, alt[r], specList[param[r]])
           found == \/ <<project[r].server, alt[r]>> \in TemplateCompatible
                    \/ \A f \in new : f.path.kind = "key"
       IN
        \/ /\ found
           /\ Store(r, Put(kept, new))
           /\ Goto(r, "created")
        \/ /\ ~found
           /\ \E dirs \in {{MainDir(r)}, Dirs(r)} : \E begun \in SUBSET new :
                  Store(r, Put(RemoveDefaults(old, r, dirs), begun))
           /\ Goto(r, "failed")
        \/ /\ Removes[project[r].server] # {} /\ Racing(r)
           /\ \E gone \in SUBSET (old \ kept) : SetArchive(r, old \ gone)
           /\ Goto(r, "failed")
    /\ UNCHANGED <<project, options, specsField, specList, todo, mpVars, param,
                   alt, zip, met>>

\* The web page submits its LoggingTask only now, inside the try: a rejection
\* leaves the files of the project in the session's map.
SubmitLog(r) ==
    /\ pc[r] = "created"
    /\ project[r].entry = "web"
    /\ Goto(r, "logged") \/ (ExecutorRejects /\ Goto(r, "failed"))
    /\ UNCHANGED <<project, options, specsField, specList, todo, mpVars, param,
                   alt, archive, zip, comod, met>>

LastStage(r) == IF project[r].entry = "web" THEN "logged" ELSE "created"

\* createArchive starts to iterate over the map.
StartArchive(r) ==
    /\ pc[r] = LastStage(r)
    /\ zip' = [zip EXCEPT ![r] = archive[SessionOf(r)]]
    /\ comod' = comod \ {r}
    /\ Goto(r, "zipping")
    /\ UNCHANGED <<project, options, specsField, specList, todo, mpVars, param,
                   alt, archive, met>>

\* createArchive ends, in any case with clear() in its finally.  An iteration
\* in which no path came or went has seen each file's old or new content; any
\* other has either noticed (ConcurrentModificationException) or was through
\* already.  A web request also fails when the browser does not take the
\* download.
FinishArchive(r) ==
    /\ pc[r] = "zipping"
    /\ \/ /\ \/ UNCHANGED zip
             \/ /\ r \notin comod
                /\ LET now == archive[SessionOf(r)] IN
                    \E seen \in {now} \cup SUBSET RacyFiles(now \ zip[r]) :
                       zip' = [zip EXCEPT ![r] = Put(@, seen)]
          /\ Goto(r, "done")
       \/ /\ r \in comod \/ project[r].entry = "web"
          /\ zip' = [zip EXCEPT ![r] = {}]
          /\ Goto(r, "failed")
    /\ ClearArchive(r)
    /\ UNCHANGED <<project, options, specsField, specList, todo, mpVars, param,
                   alt, met>>

Prepare(r) ==
    SetAddonOptions(r) \/ ResetSpecs(r) \/ AddSpec(r) \/ PublishSpecs(r)
        \/ DetermineAlternatives(r)
CreateArtifacts(r) ==
    MavenMain(r) \/ MavenSecond(r) \/ Gradle(r) \/ BeansAndJava(r)
        \/ WriteExample(r) \/ WritePages(r) \/ WriteServerFiles(r)
CreateArchive(r) == SubmitLog(r) \/ StartArchive(r) \/ FinishArchive(r)
Run(r) == Prepare(r) \/ CreateArtifacts(r) \/ CreateArchive(r)

\* All requests are answered; the server waits.
Quiet == (\A r \in Requests : pc[r] \in {"done", "failed"}) /\ UNCHANGED vars

Next == (\E r \in Requests : Arrive(r) \/ Run(r)) \/ Quiet

Spec == Init /\ [][Next]_vars

\* The special case in which a request arrives only when no other is active.  The
\* container's threads run: a started request never stops taking steps.
SerialNext ==
    (\E r \in Requests : (Active = {} /\ Arrive(r)) \/ Run(r)) \/ Quiet
SerialSpec == Init /\ [][SerialNext]_vars /\ \A r \in Requests : WF_vars(Run(r))

-----------------------------------------------------------------------------
(* Properties *)

\* Who may have written the shared fields that r reads
Around(r) == {r} \cup met[r]

TypeOK ==
    /\ project \in [Requests -> Projects]
    /\ pc \in [Requests -> Stages]
    /\ options \in Requests \cup {Nobody}
    /\ specsField \in Requests \cup {Nobody}
    /\ specList \in [Requests -> SUBSET Specs]
    /\ todo \in [Requests -> SUBSET Specs]
    /\ mpVars \in [Requests -> SUBSET Specs]
    /\ param \in [Requests -> Requests \cup {Nobody}]
    /\ alt \in [Requests -> Servers \cup {Nobody}]
    /\ archive \in [Sessions -> SUBSET File]
    /\ zip \in [Requests -> SUBSET File]
    /\ comod \in SUBSET Requests
    /\ met \in [Requests -> SUBSET Requests]

\* The files of one session never reach the zip of another one, although all
\* sessions go through the same addon objects.
SessionIsolation ==
    \A r \in Requests : \A f \in zip[r] : SessionOf(f.by) = SessionOf(r)

\* A file that some other request wrote gets into a zip only if that request
\* was being processed at the same time, or had failed and left its files.
StrangersExplained ==
    \A r \in Requests : pc[r] = "done" =>
        \A f \in zip[r] : f.by = r \/ f.by \in met[r] \/ pc[f.by] = "failed"

\* The server a delivered own file belongs to is the one asked for, or one that
\* a request processed at the same time asked for: never a left-over of an
\* earlier request in the addon's fields.
ServerExplained ==
    \A r \in Requests : pc[r] = "done" =>
        \A f \in zip[r] : f.by = r =>
            \E q \in Around(r) : f.server = project[q].server

\* A request during which no other one was processed gets exactly its own
\* project: every file of it, from its own server and specs and nobody else's.
AloneExact ==
    \A r \in Requests : (pc[r] = "done" /\ met[r] = {}) =>
        OwnFiles(r, zip[r]) = Expected(r)

\* The kinds of files that no project of r's layout and server goes without in
\* the directory d of a service: a build file, sources, pages, and what the
\* server's addon writes there whatever the specs are.
SkeletonKinds(r, d) ==
    {IF project[r].tool = "maven" THEN "pom" ELSE "gradle", "java", "pages"}
        \cup {w.kind : w \in {w \in Writes(r, {}) : PlaceOf(r, w) = d}}

\* Whatever other SESSIONS do to the addon's fields, a request that shares its
\* session with no other active request gets a complete skeleton in the
\* directories of its own layout, and none of the default files its server has
\* to do without.
SkeletonComplete ==
    \A r \in Requests :
        (pc[r] = "done" /\ \A q \in met[r] : SessionOf(q) # SessionOf(r)) =>
            /\ \A d \in Dirs(r) : \A k \in SkeletonKinds(r, d) :
                  \E f \in OwnFiles(r, zip[r]) : f.path.dir = d /\ f.path.kind = k
            /\ \A f \in OwnFiles(r, zip[r]) : f.path.kind \notin Removes[project[r].server]

\* The specs a file is generated for
Shown(f) ==
    f.specs \cup f.deps \cup ({f.path.spec} \ {Nobody})
        \cup (IF f.path.kind = "key" THEN {JwtAuth} ELSE {})

\* The specs that reach r's list: what a request asked for that was active
\* together with r, or with such a request.  The second step is needed: q takes
\* the options of y, y is answered, r arrives and puts its list in the field,
\* and q adds y's specs to it.
Reaching(r) == UNION {project[y].specs : y \in UNION {Around(q) : q \in Around(r)}}

\* However requests overlap in the addon's fields, every spec that the project
\* of a request shows - by an example, a dependency, a build script or a key -
\* was asked for by it or by a request that overlapped with it, directly or in
\* two steps; lists of earlier requests are never read again.
SpecsExplained ==
    \A r \in Requests : pc[r] = "done" =>
        \A f \in OwnFiles(r, zip[r]) : Shown(f) \subseteq Reaching(r)

\* A session's map holds files of active and of failed requests only: what was
\* delivered is gone, so a second download cannot repeat it.
NothingDeliveredStays ==
    \A s \in Sessions : \A f \in archive[s] : pc[f.by] \notin {"idle", "done"}

-----------------------------------------------------------------------------
(* The inductive invariant behind the properties above *)

Filling == {"filling", "validated", "prepared", "pomB", "built", "examples",
            "pages", "created", "logged", "zipping"}
Validated == Filling \ {"filling"}
Prepared == Validated \ {"validated"}
Built == Prepared \ {"prepared", "pomB"}
Exampled == {"pages", "created", "logged", "zipping"}
Created == {"created", "logged", "zipping"}

\* Requests that are active together know of each other, and an idle request
\* has left no trace.
MetInv ==
    /\ \A q, r \in Active : q # r => q \in met[r]
    /\ \A r \in Requests : pc[r] = "idle" => met[r] = {} /\ zip[r] = {}

\* What an active request reads from the shared fields was put there by itself
\* or by a request that has been active together with it.
FieldsInv ==
    \A r \in Active :
        /\ pc[r] # "begun" => options \in Around(r)
        /\ pc[r] \in Filling => specsField \in Around(r)
        /\ pc[r] \in Validated => param[r] \in Around(r)
        /\ pc[r] \in Prepared => \E q \in Around(r) : alt[r] = project[q].server

ServerOfSome(f) == \E q \in Around(f.by) : f.server = project[q].server

ArchiveInv ==
    \A s \in Sessions : \A f \in archive[s] :
        SessionOf(f.by) = s /\ pc[f.by] \notin {"idle", "done"} /\ ServerOfSome(f)

ZipInv ==
    \A r \in Requests :
        /\ pc[r] \notin {"zipping", "done"} => zip[r] = {}
        /\ \A f \in zip[r] :
            /\ SessionOf(f.by) = SessionOf(r)
            /\ pc[f.by] # "idle"
            /\ ServerOfSome(f)
            /\ f.by \in Around(r) \/ pc[f.by] = "failed"

\* Has r, running alone, written file f of its project and not removed it?
Written(r, f) ==
    LET k == f.path.kind IN
    /\ k \in {"pom", "gradle", "webapp"} =>
        pc[r] \in Built \/ (pc[r] = "pomB" /\ f.path.dir = MainDir(r))
    /\ k \in {"beans", "java"} => pc[r] \in Built \ {"built"}
    /\ k \in {"example", "exampleB"} =>
        pc[r] \in Exampled \/ (pc[r] = "examples" /\ f.path.spec \notin todo[r])
    /\ k = "pages" => pc[r] \in Exampled
    /\ k \in AddonKinds => pc[r] \in Created
    /\ pc[r] \in Created => k \notin Removes[project[r].server]

AloneFields(r) ==
    /\ pc[r] = "filling" => specList[r] = project[r].specs \ todo[r]
                            /\ todo[r] \subseteq project[r].specs
    /\ pc[r] \in Validated => specList[r] = project[r].specs
    /\ pc[r] \in Filling => mpVars[r] = project[r].specs
    /\ pc[r] = "pomB" => Split(r) /\ project[r].tool = "maven"

AloneFiles(r) ==
    /\ r \in Active => OwnFiles(r, archive[SessionOf(r)])
                           = {f \in Complete(r) : Written(r, f)}
    /\ pc[r] = "zipping" => zip[r] = archive[SessionOf(r)]
    /\ pc[r] = "done" => OwnFiles(r, zip[r]) = Expected(r)

AloneInv == \A r \in Requests : met[r] = {} => AloneFields(r) /\ AloneFiles(r)

\* The specs that r's loop has still to add, and those in the list that r reads
SpecsInv ==
    /\ \A r \in Active :
        /\ pc[r] = "filling" => \E y \in Around(r) : todo[r] \subseteq project[y].specs
        /\ pc[r] \in Filling => /\ mpVars[r] \subseteq Reaching(r)
                               /\ specList[specsField] \subseteq Reaching(r)
        /\ pc[r] \in Validated => specList[param[r]] \subseteq Reaching(r)
    /\ \A s \in Sessions : \A f \in archive[s] : Shown(f) \subseteq Reaching(f.by)
    /\ \A r \in Requests : \A f \in zip[r] : Shown(f) \subseteq Reaching(f.by)

IInv == TypeOK /\ MetInv /\ FieldsInv /\ ArchiveInv /\ ZipInv /\ AloneInv /\ SpecsInv
===============================================================================
