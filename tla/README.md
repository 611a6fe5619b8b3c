# A verification project for MicroProfile Starter

MicroProfile Starter is a Java EE web application that generates zipped Maven
or Gradle projects. This directory models the parts of it that take decisions
or share state, checks the models with TLC on small instances, and proves the
most important properties for every instance with TLAPS.

Paths below are relative to `src/main/java/org/eclipse/microprofile/starter`
unless they start with `src/`. `PROJECT.json` maps every definition to the
lines it models.

## 1. Inventory

### How a request runs

    index.xhtml -> GeneratorDataBean ----+
                                         +--> ModelManager.prepareModel
    REST client -> APIService -----------+        v
       setDefaults, validate, etag           Creator.createArtifacts
                                                  v
                                             ZipFileCreator.createArchive
    LoggingTask -> DynamoDBLogger  (ManagedExecutorService, own thread)

Both front ends call the same three stages in the thread of the HTTP request.
Nothing on the way takes a lock. Between the user and `GeneratorDataBean` are the
page in the browser, PrimeFaces' queue of AJAX requests, and JSF with its
validations.

### Components

| Component | State | Operations | Interacts through |
|---|---|---|---|
| Generation (`core/model/ModelManager`, `addon/.../MicroprofileServersAddon`, the nine `*Server` addons, `core/artifacts/*`, `ZipFileCreator`) | fields `options` and `microprofileSpecs` of the application scoped addon; per session the map `archiveContent`; per request the `JessieModel` | `prepareModel`, `createArtifacts`, `createArchive` | fields shared by all requests; a map shared by the requests of a session |
| Lists of available servers (`rest/model/MPOptionsAvailable`) | one `ArrayList` per MicroProfile version | `getSupportedServers` shuffles it in place and returns it | all threads that validate or list |
| REST API (`rest/APIService`, `rest/APIEndpoint*`, `rest/model/Project`) | tables and entity tags computed at start; a `Project` per request | `getProject` in three generations, lists and matrices | generation; lists of servers; entity tags kept by clients |
| Web form (`view/GeneratorDataBean`, `view/EngineData`, `index.xhtml`, `DataBean`) | the choices, the menus computed from them, the selections | four AJAX listeners, select all/clear all, download | catalogue; generation; log |
| Client of the page (`index.xhtml` as rendered, PrimeFaces and jQuery, vendored in `src/starter-static-example`) | the menus and boxes in the browser, `Queue.requests`, the flag `nonAjaxPosted` | an event per change, link and download; answers, errors, aborts | HTTP requests of one JSF view |
| Catalogue (`MicroProfileVersion`, `SupportedServer`, `MicroprofileSpec`, `StandaloneMPSpec`, `ServerMPVersion`, `JDKSelector`) | constant tables | look-ups | read by both front ends |
| Usage log (`log/LoggingTask`, `log/DynamoDBLogger`, `log/ErrorLogger`) | none of its own; holds the caller's mutable `EngineData` | `log` | executor; external table |
| Template choice (`core/files/FilesLocator`, `ThymeleafEngine`) | index of `files.lst` | `findFile` | generation |
| Addon resolution (`ModelManager.determineAddons`, `AddonManager`, `OptionValue`) | registry of addons | dependencies, defaults, order | generation |
| Template model (`core/templates/*`, `JessieModelInitializer`, `ModelValidation`) | the model | merge, defaults, split decision | generation |
| Poms (`MavenCreator`, `MicroprofileServersAddon.adaptMavenModel`, the nine servers' `adaptMavenModel`, `pom-servers.xml`, `VersionSpecMatrix`, `VersionStandaloneMatrix`) | constant tables and profiles | `createMavenFiles` | generation |
| Text of the templates, names, renderers, configuration reading | none | text | - |

### What is hard here

* *Interleaving.* The addon `mp` keeps the request's option map and list of
  specs in fields and reads them again two stages later; the session's map is
  written, iterated over and cleared by all requests of a session; the list of
  servers is shuffled while others search it.
* *Partial failure.* A generation that fails midway leaves its files in the
  session's map; the next archive of the session contains them.
* *Stale state.* Entity tags are hashes of a part of the request; menus are
  computed from choices that may change afterwards; a queued `LoggingTask`
  sees later changes of the form.
* *Sequences of calls.* The form may be filled in in any order, and each
  listener recomputes some of the menus only.
* *Requests on the way.* The user goes on while an AJAX request is answered. An
  answer overwrites what was chosen in the meantime, a download drops the
  requests that the page waits for while the server goes on with them, and a
  request may get lost without a word to the user.
* *Tables that must fit.* Versions, servers, specs, Java versions, profiles,
  templates and the switches of nine addons are tables in over a dozen files
  that are consistent with each other by care alone.
* *No timeouts.* Neither the executor's tasks nor the connection to the table
  has one, so nothing is promised about when a usage is logged.

The full list, each item at its line, is under `hazards` in `PROJECT.json`.

### What makes each component correct

* Generation: a zip file holds the files of its own request; whatever else it
  can hold is explained by an overlapping or failed request of its session, and
  every server or spec that its files were made for by a request that overlapped;
  without overlap a request gets exactly its project, and every request is
  answered.
* Lists: a server that is not available is never accepted; one that is, is not
  refused.
* REST API: what is generated is what the tables offer and what the client
  asked for; the defaults are usable; 304 means that the client has it.
* Web form: what is generated fits together, and is what the user saw.
* Client of the page: one AJAX request at a time, in the order of the events;
  the page always comes to rest, and then shows what the bean has, as long as no
  answer was lost or an error.
* Usage log: a record says what its user downloaded (over REST without the
  standalone specs), unless the user has gone on with the form; a usage is counted
  at most once.
* Template choice and addons: every look-up of a valid request finds one
  template, the one for its server, version and service; what one addon writes
  and another one removes ends in the right place.
* Poms: everything that a pom refers to is defined, and what an example uses is
  among the dependencies of its service.

## 2. Modules

| Module | Models | Uses |
|---|---|---|
| `Generation` | concurrent generation, stage by stage | - |
| `ProjectService` | abstract: each accepted request is answered with the files it asked for, or refused | - |
| `SerialService` | the refinement of `ProjectService` by `Generation` without overlap | both |
| `GenerationProofs`, `AloneProofs` | theorems about `Generation`, and the safety part of the refinement | `Generation`, `SerialService` |
| `SharedServers`, `SharedServersProofs` | the shuffled list, access by access; theorems | - |
| `Catalogue` | the tables as constants, with the decisions taken from them and the assumptions the callers make | - |
| `SupportTables` | the tables of this version of the code | - |
| `RestApi`, `RestApiProofs` | requests for a project over REST; theorems | `Catalogue` |
| `ProjectForm`, `ProjectFormProofs` | the web form, one choice after the other; theorems | `Catalogue` |
| `FormPage`, `FormPageProofs` | the page in the browser, the requests between it and the form, and the refinement of `ProjectForm`; theorems, with that refinement | `ProjectForm` |
| `UsageLog`, `UsageLogProofs` | both front ends with the log tasks they submit, up to the table; theorems | `ProjectForm` |
| `Poms` | the pom of a service as a fold over the addons | `Catalogue` |
| `Templates`, `TemplatesProofs` | one project from the resolution of its addons to its files and poms; theorems about the look-ups, the files and the poms | `Poms` |
| `TemplateTables` | `files.lst`, `pom-servers.xml` and the tables of versions | `SupportTables` |
| `MC*` | instances for TLC | |

### Generation

One request is one thread. `project[r]` is what it asks for, `pc[r]` the stage
it has reached. `options` and `specsField` are the two fields of the addon;
each holds a *reference*, represented by the request whose map or list it is.
`specList[r]` is the list object that `r` created, `param[r]` the list its model
refers to, `alt[r]` the alternative (server) stored in its model.
`archive[s]` is the map of session `s` and `zip[r]` what `r` delivers.

| Action | Code |
|---|---|
| `Arrive` | the entry; the REST one submits its log task first (`APIService` 610) |
| `SetAddonOptions` | `ModelManager` -> `AbstractAddon.addonOptions` |
| `ResetSpecs`, `AddSpec`, `PublishSpecs` | `MicroprofileServersAddon.handleSpecOptions`: the field is replaced, filled in a loop, put into the model |
| `DetermineAlternatives` | `alternativesNames`, from the field |
| `MavenMain`, `MavenSecond`, `Gradle` | `MavenCreator`, `GradleCreator` with the addons' `adaptMavenModel` |
| `BeansAndJava` | `CDICreator`, `JavaCreator` |
| `WriteExample`, `WritePages` | `MicroprofileServersAddon.createFiles` |
| `WriteServerFiles` | `createFiles` of the server's addon with the removal of default files |
| `SubmitLog` | the web form's submission (`GeneratorDataBean` 334) |
| `StartArchive`, `FinishArchive` | `ZipFileCreator.createArchive`: iteration, `clear()` in `finally` |

Stages between two accesses to shared fields are one action. Races within an
action are in the model as what Java's collections can do: two concurrent
`ArrayList.add` may lose an element or throw, two concurrent `HashMap.put` may
lose entries, an iteration over a map whose keys change ends in a
`ConcurrentModificationException`, or is through. `comod` has the iterations
that are disturbed. `met` is a history variable: who was active together with
whom.

Abstractions. A file is its path, the request that wrote it, the server whose
template or profile was used and the specs it was made from; its text is left
out. Four servers stand for the kinds of server addons: what they remove
(`Removes`), what they write (`ServerWrites`), which profile and which templates
they accept (`PomCompatible`, `TemplateCompatible`). A file that an addon looks up
is labelled with the alternative in force. The list of standalone specs is
treated by the code exactly as the list of specs and is left out. The spec names
are read and the new list is assigned in one step. The order of the examples is
fixed but arbitrary. `microprofile-config.properties`, `index.html` and the
readme files are one kind of page. A failing step writes nothing of its own, but
the server's addon has then removed default files and written some of its own
(`WriteServerFiles`). The parameter that line 104 of the addon stores is
overwritten at line 131 before anything reads it. The executable flag of a file
is dropped from its key.

What the addon of a server writes differs from one to the next. A row of
`ServerWrites` says for which service a file is and whether it needs `JWT_AUTH`:

| Server | First service | Second service | Second service, with `JWT_AUTH` |
|---|---|---|---|
| Quarkus, Helidon, WildFly | `server` | `server` | `key` |
| Open Liberty | `server` | `server` | `key` |
| KumuluzEE | `server` | `server` | - |
| TomEE | - | - | `key` |
| Payara Micro, Thorntail | - | - | `server`, `key` |
| WildFly Swarm | `server`, with `JWT_AUTH` (`web.xml`) | - | `server`, `key` |

`key` is the public key, whose template is found whatever the alternatives are.
`server` stands for all other files, those included that take the place of a page or a
class of the mp addon, as Helidon's `RestApplication` and WildFly's
`microprofile-config.properties` do. Those of Quarkus, KumuluzEE and Open Liberty have
no template under the name of another server, and their addons fail when the
alternative in force is a foreign one; those of the other servers have, or are the
only template of their name. The instances have Quarkus, KumuluzEE, TomEE and
Payara Micro, one for each form of addon.

### SharedServers

A call swaps slots from the last to the second one (`Collections.shuffle`), each
swap being `Get`, `SetOther` and `SetSlot`, and then reads the list (`Scan`),
either to look for a server or to print it all. List accesses are sequentially
consistent, which leaves out what a data race could do in addition: the
violations found are real under any memory model, and `OthersRefused` holds in
any, as no value is read that was not stored. `crowded` has the calls that
overlapped with others.

### Catalogue and SupportTables

`SupportTables` has the enums and the calls of `JDKSelector.init` as they are in
the code. `Catalogue` has the decisions: `SupportedJava` (`JDKSelector`),
`IsEnabled` (`ServerMPVersion`), `DefineStandaloneSpecs` (`APIService` 155).
What the callers take for granted is stated as assumptions that TLC evaluates
with the real tables: the last version of a server is its newest
(`LatestAssumption`), a server runs on some Java version, and on the default one
where there is a choice (`JavaAssumption`), and the two definitions of the
standalone specs agree (`StandaloneAssumption`), although the `break` at line
163 of `APIService` makes one of them depend on the order of the restrictions.

### RestApi

| Action | Code |
|---|---|
| `Send` | the endpoints and `getProjectV1`, `getProjectV5`, `getProject` |
| `SetDefaultsV1`, `SetDefaults` | the two methods, with the null pointers they run into |
| `Validate` | `validate` with `defineIncorrectSpecCodes` and `removeIncorrectStandaloneSpecs` |
| `Race` | two calls overlap on a list of servers; from then on it may miss some (this is all of `SharedServers` that matters here) |
| `SubmitLog` | line 610, with a rejection by the executor; what becomes of the task is in `UsageLog` |
| `NotModified`, `Deliver` | lines 612 to 668 |

`shown[r]` is the earlier request whose entity tag `r` sends. `Tag` is the hash
without its collisions: the fields that `Project.hashCode` reads. Lists of codes
are sets. Blank and missing names are the same. Generation succeeds or fails.

### ProjectForm

One action per event of the page, as listed in the module. A version that is
blank is `Null`. The random order of the servers is left out, as is the free
text. `generated` is what a download step hands to the generation and `Null` in
any other state. JSF submits the component used on an AJAX event, and the whole
form on a download, which is the only time the Java version is transmitted. An
event is handled before the next one is made: this is the form of a user who
waits, and `ImplementsForm` of `FormPage` shows that page, queue and server
together give such a user no other. What a user gets who does not wait is the
subject of `FormPage`.

### FormPage

`page[f]` is what the browser shows of field `f`: value, options, enabled or
not. `requests` and `nonAjaxPosted` are PrimeFaces' variables of these names.
`jobs[j]` is a request from when it is sent until the server is done with it;
`awaited` says whether the page still wants its answer, so that an aborted or
lost request stays in the model while the server works on it.

| Action | Code |
|---|---|
| `Change`, `ChangeJava`, `ClickLink` | an event of the page: `PrimeFaces.ab`, `Queue.offer`; the Java version has no event |
| `Download` | the button: `onPost` with `Queue.abortAll`, then the plain post of the form |
| `Fail` | an AJAX request gets no answer, before or after the server has seen it: `error`, `complete` |
| `UpdateModel` | the phases of JSF up to "update model values": decode, validate, store |
| `Finish` | `Answer`: the listener and its answer, then `complete`, which polls the queue; `Generate`: `generateProject` |
| `Respond`, in `Answer` | the listener, rendering, `Response.handle` |
| `RespondWithError`, in `Answer` | the listener ends in an exception: the page gets an error and is not redrawn |

PrimeFaces reads the fields of a request when it is sent and not when it is
queued (`earlyPostParamEvaluation` is not set), and so does the model. The two
halves of a request are separate steps, as other requests of the view may come in
between; an answer reaches the page at once, since a delay of the answer has the
effect of a delay of the second half. `Before`, the bean as it was before the
request that is being handled, is what the refinement maps to. `calm` and
`intact` are history variables: has the user always waited, and got an answer that
the page shows; have the requests reached the server one by one, with no answer
lost or an error.

A listener can end in an exception in three places. Two need requests that overlap
(`Throws`). The third needs nothing but a user who chooses the blank version when a
server is chosen: `defineJavaSEVersion` (149 to 153) tests for null, finds no Java
versions for "" and throws, after `onMPVersionSelected` has changed the bean.
`index.xhtml` has the blank option, `web.xml` does not ask JSF to turn "" into null,
and `onMPRuntimeSelected` (128) expects either. What JSF hands on is decided
outside this repository, so the model has both outcomes: the page gets the new
menus, or an error and keeps the old ones (`BlankVersion`).

The order of the options is
not modelled, hence a menu whose value is not among its options shows any fixed
one. After a download that was refused the model stops (`Over`): JSF components
then keep values of their own, in a way that is not part of this repository.

### UsageLog

The module adds the log to the actions of `ProjectForm`. `usage[t]` is a task,
`table` the table by logmark, `engineSpecs` the field of the form's `EngineData`
that only a download sets.

| Action | Code |
|---|---|
| `UseForm` | every event of the page but the download, as in `ProjectForm` |
| `Download` | `GeneratorDataBean.generateProject`, with the submission at its end |
| `Request` | `APIService` 602 to 610, with an `EngineData` of its own: `GetEngineData` copies the specs of the project, from which validation (566 to 588) has taken the standalone ones |
| `Run` | `LoggingTask.run`: `Refuse` is `validateEngineData` throwing, `PutItem` is `preparePayload` with the table's answer, and `Log` can lose the record on the way |

The form hands its own `EngineData` to the task and goes on changing it. A task
reads a field several times (validation, mark, item), and nothing orders these
reads with the form's writes. `since` therefore has, per field, every value
since the submission, and each reading may be any of them: an interleaving of
single reads could not give more. `about` and `changed` are history variables:
what is generated for the user, and whether another value was there for a task to
read. Over REST, what is generated (lines 634 to 638, with both lists of specs) and
what is handed to the log differ; `LoggedAsDownloaded` says by what exactly.

### Templates and Poms

A request is alone here, so the state is sequential: `addons` and
`alternatives` as `ModelManager` determines them, `todo` with the look-ups,
writes and removals that the current creator or addon still has to make,
`files` with the template of each path, `poms` per directory.

| Action | Code |
|---|---|
| `ApplyTemplateValues` | `TemplateModelValues.applyTemplateValues` |
| `AddDependentAddons`, `OrderAddons`, `DetermineAlternatives` | `ModelManager`, in the order of `prepareModel` |
| `CreateMavenFiles` | `MavenCreator.createMavenFiles`; `Poms!Pom` is the loop over the addons |
| `EnterCreator` | `Creator.createArtifacts`: Gradle, CDI, Java and the addons' `createFiles`, line by line |
| `ProcessTemplate` | `TemplateEngine`, `ThymeleafEngine`, `FileCopyEngine` with `FilesLocator.findFile` |
| `RemoveDirectory` | `FakeDirectoryCreator`, `ZipFileCreator.removeDirectory` |

A template is a name with the set of its alternatives. `SelectBasedOnAlternatives`
is the search by size of `FilesLocator`; its tuples with repetitions add nothing
to the subsets. Left out, because they do nothing in this version: default
options of addons (none has any), disabled addons (no front end disables one),
additional Maven adapters (there is no implementation). Left out as text:
variables, `.gitkeep` files, artifact ids, ports and version numbers of a pom; of
these it is only kept whether there is one, since an addon without a number for
a version of MicroProfile leaves an empty property, or runs into a null pointer
(`AdaptByWildFly`, `AdaptByQuarkus`). `MatrixAssumption` compares the two
matrices of versions with the specs that can be selected.

`Needs` and `Usable` name what an example uses and a server offers. Both hold
external facts: Quarkus always has Config, and WildFly's layer `jaxrs` the rest
client.

What modelling showed beside the findings:

* `REST-README.md` (83) says that all specs are selected by default in v1 and v2.
  A v1 query without specs ends in a null pointer and status 500: the default is
  set for the wrong one of the two lists (`ThrowsV1`).
* A quick choice can be undone by the answer to the one before, which replaces
  the menus; and the Java version, which no event sends, is lost with every
  answer that contains its menu.
* Every Gradle project gets the `gradle.properties` of Quarkus: a single
  template of a name is taken whatever its alternatives (`FilesLocator` 54).
  `OwnTemplates` names this exception.
* The page of MicroProfile 5.0 is the one of 1.x, with a link to
  `ServiceHealthCheck`, which is not generated for it. `HealthPageFits` names it.
  (6.0 falls into the branch of 1.x and 2.x with both the page and the check, and so
  they fit.)
* A blank version handed on as "" ends `onMPVersionSelected` with a null pointer if a
  server is chosen: the bean has lost its version and has new menus, and the page
  goes on with the old ones (`BlankVersion`).
* `WildflySwarmServer` (68) puts `web.xml` in service-a, `ThorntailServer` in
  service-b.
* A record can have a null server although `validateEngineData` refuses null
  (`DynamoDBLogger` 252): the form has dropped the server between the two reads.
* Logs of REST requests leave out the standalone specs, those of the form
  include them. `LoggedAsDownloaded` says so.
* Equal requests in one millisecond have one logmark, and one record replaces
  the other.

## 3. Runs

| Run | Asks | Bounds and why they are enough |
|---|---|---|
| `generation_pairs` | what may be in a zip file when two requests overlap | two requests of five kinds in two sessions: every race is between two threads; the projects have both build tools, one and two services, and each form of server addon. Races inside the map show for the pom (`RacyKinds`), the one file whose content depends on both shared fields |
| `generation_serial` | does anything leak from one request to a later one; `SerialService!ImplementsService` | three requests of six kinds, so that what one leaves can pass a second one; no rejections, as a rejected web request leaves its files by design of the code |
| `generation_quarkus_pom` (violation) | does a pom for Quarkus never have an enforced MicroProfile version, as the comment at `MavenCreator` 135 says | as `generation_pairs` |
| `servers_shuffles` | what stays true of the shuffled list | three servers, two calls: swaps of distinct slots, of the same slot, and a slot left alone all occur |
| `servers_lost` (violation) | is ERROR002 given only for servers that are not available | two servers and three calls: two to race, one to suffer |
| `rest_requests` | defaults, refusals, specs and 304 for each kind of request | the real tables; over a thousand requests, of which one at a time meets a second one that may hold the entity tag of the first or the other way round |
| `rest_etag` (violation) | does 304 mean the same project | as above |
| `form_fill` | the form filled in in every order | the real tables, with one spec for each distinct set of versions (evaluated by `RepresentativesAssumption`); no bound on the number of events |
| `page_clicks` | what page, queue and downloads do under a user who does not wait and with requests that get lost; that the page refines `ProjectForm`, and comes to rest | two servers that differ in a version, Gradle, Java versions and standalone specs, two versions, one spec; two requests at the server and two in the queue, so that a download overlaps an AJAX request and an event waits for another; `MaxClicks` four: a choice, a second one made too early, a download, and a choice after it |
| `page_race` (violation) | does a spec that the version does not have never get generated, as the comment at `GeneratorDataBean` 184 says | as above |
| `templates_tables` | what is each project made of | the real tables, `files.lst` and profiles: every server with every version it offers, both build tools, each spec alone, none and all. The examples of different specs do not depend on each other, but for `REST_CLIENT` and `JWT_AUTH`, which split the project in the same way. A request ends, so deadlock is not checked |
| `usage_log` | what the log contains while the form goes on | two servers with a version each, so that a version drops the server; two tasks, the fewest that can share a mark; one instant, so that all tasks run in the same millisecond. A request over REST names one spec, a standalone one or one of the version, so that the log has none or all of them. `MCFewChanges` bounds the new values that the form gives a queued task's data to two: one is enough for a torn reading, two for one that drops the server. Tasks are symmetric |

What the runs show. Sessions never mix. A delivered zip may hold strange files,
but only of a request of the session that overlapped or failed; a file may be
made for another server, but only for that of an overlapping request, and the same
holds of the specs, but in two steps: an overlapping request can hand on what it
took from a third one, which was answered before. A request that shares only the
fields of the addon, and that with other sessions, may get the wrong content, but no
part of its skeleton is missing. Alone, a
request gets what it asked for. The checks that the REST API makes suffice to
keep impossible combinations away from the generator, with one exception that
`GeneratedIsOffered` names: a v1 body that sets `buildTool` to null explicitly
passes for Gradle. The form, used one choice after the other in whatever order,
cannot be brought to generate anything inconsistent, and neither can a user who
does not wait, as long as no download overtakes a choice and no answer is lost or an error;
when one does, specs, standalone specs or a build tool of the old choice go
into a project for the new one (`page_race`). The queue sends one request at a
time whatever is lost or dropped, and the page always comes to rest. Every valid
request finds its templates and gets poms that resolve, although the tables
behind them are spread over twelve classes, `files.lst` and `pom-servers.xml`. A
record of the log is what its user downloaded unless the form was used on
before the task ran, and only then can validation lose a download; that of a
REST request lacks the standalone specs, and nothing else.

The violations are disagreements between the code and what its documents say:
see `findings`.

Each property of a passing run has a mutant: the definitions marked `Fault:`
beside the ones they replace are plausible bugs, and each of them breaks the
property it is listed with.

### Fairness

`SerialSpec` assumes weak fairness of each started request, one condition per
request: the container runs its threads, no stage blocks (there is no lock and
no I/O but the response), and all loops are over finite lists. Nothing is assumed
about arrivals. (That requests which overlap end as well needs no run of its own:
stages only advance, and `generation_pairs` finds no deadlock.)

`PageSpec` assumes weak fairness of the two halves of each request that the
server has, for the same reason. Nothing is assumed about the user, nor that
requests or answers arrive: `Fail` may happen to each of them.

The other specifications are safety only and assume nothing.

## 4. Proofs

All theorems are for arbitrary constants, under the assumptions named in the
modules (types of the tables, `Nobody`/`Null` distinct from real values, a server
accepts its own profile and templates, the names of alternatives tell servers and
versions apart, each server has profiles and templates for what it offers). TLC
evaluates each of them with the tables of this version.

*Generation.* `TypeCorrect`, `SessionsIsolated`, `StrangersCorrect`,
`ServersCorrect`, `SpecsCorrect`, `DeliveredGone` (`GenerationProofs`) and `AloneGetsOwnProject`
(`AloneProofs`). The properties speak of the end of a request, so the invariant
`IInv` has to say what holds on the way: `MetInv` (requests that are active know
of each other), `FieldsInv` (the shared fields refer to a request around since
they were last written), `ArchiveInv` and `ZipInv` (who can have written what is
in a map or a zip). `SpecsInv` follows the specs from the options into the list and
from the list into the files. `Reaching` needs two steps (`Around` of `Around`):
a request that has taken the option map of a second one, which is answered by then,
adds from it to the list of a third one. `AloneInv` says for a request that has met no one which of
its files exist at each stage (`Written`); this needs the lemmas on
`Complete(r)`, which slice a project into what the single stages write.
`SkeletonDelivered` is about a request that only shares its fields with others:
`Skeleton` says which kinds of files are due in each directory of the session's map at
each stage (`Due`), whatever server and specs they were made from; what is due of
the server's files is taken from the table of the request's own server
(`SkeletonKinds`), and may be nothing; no one else of the
session is active, so nothing gets lost, and `PutKeeps` says that a file is
replaced by one of its own kind only. `SerialServes` is the safety part of
`ImplementsService`: without overlap every step is a step of `ProjectService`, or
none. `SerialInv` says that maps and zip files hold files of the active request
only, for which `SerialFailure` has to show that a request on its own fails in
`createArchive` at most, where the map is emptied.

*REST.* `Offering`, `Usability`, `AsAsked` and `NotModifiedHolds`, from the
invariant of `RestInvariant`: once its defaults are set, the project of a request
is a function of what was asked (`Completion`); an accepted one is that, sorted
out (`SortOut`), and has passed `validate`; a refusal has one of the reasons in
`Refusals`, which the races on the lists of servers only add one to; and behind
each 304 there is a delivered project with the same tag. The rest is about
operators: `AcceptedIsOffered`, `AcceptedAsAsked`, `MinimalPasses`, `TagsTell`.
They rest on the assumptions about the tables: `StandaloneAssumption` (the two
definitions of the standalone specs agree) and `JavaAssumption` (the default Java
version suits every server that has a choice).

*Page.* `QueueCorrect`: for any number of requests and clicks, the page waits for
one AJAX request at most, the head of its queue, and never while
`nonAjaxPosted` has stopped it. `OneAtATime` is inductive once it is added that
the queue holds events and the jobs are requests (`QueueInv`).

`InStepCorrect` says that page and bean agree at rest. They do not on the way, so
`OrderInv` says how far apart they may be while the user waits for each answer, or at
least the server has one request at a time, and no answer was lost or an error
(`Orderly`):
a field of the page has the value of the bean unless an event of it waits
(`InView`); a request on its way has what the page shows, but for the fields whose
events wait behind it (`SentInv`); between the halves of a request the bean differs
from what it was in what was posted, the menus that the listener does not compute
anew fit the bean (`MenusKept`), and the page lacks only the fields that the answer
replaces (`UpdatedInv`). So one lemma per step suffices, and `AnsweredInView` is
the one where the choice of what to update on the page matters: it has to contain
every field whose options, state or value the listener may change.

`FormImplemented` is the refinement of `ProjectForm`, with the bean as it was
`Before` the request being handled: the first half of a request and the user's
choices change nothing there (`FormStutters`), the second half is the choice of a
field or of a link (`FieldMapped`, `LinkMapped`) and a download is one step
(`GenerateMapped`), each with the very values that the user chose, for which
`OrderInv` is needed again. An answer that is an error ends `Orderly`, so both theorems
say nothing of the page after a blank version that throws (`RespondedInOrder` is
about the other answers).

*Lists of servers.* `ServersTypeCorrect`, `OthersAlwaysRefused` and
`RightCorrect`. The invariant adds `Whole`, that the list together with the
element in the hands of the only running call is complete, and that swaps leave
the first slot for last.

*Form.* `GeneratedCorrect`, `SelectionCorrect`, `MenuNeverEmpty`,
`ChoicesCorrect`. The invariant says which menus are up to date when: servers
and specs always, standalone specs and Java versions whenever both a server and a
version are chosen. `Recomputed` is the central lemma: selecting a version, in
either way, establishes all of it from nothing. `MenuNeverEmpty` has a premise on
the tables, that one server with Gradle offers every version (Open Liberty does).

*Log.* `FormKept` shows that `LogSpec` implements `ProjectForm!Spec`, so that the
theorems about the form hold with the log as well. `LogInvariant` says that what
was handed over (`Handed`: what is generated, or over REST `GetEngineData` of it) is
always among the values in `since`, that nothing else is there
unless the form has changed them, and that a record lies under the mark of its
own data. From it: `LogTypeCorrect`, `LoggedAsDownloadedAlways`,
`RefusedOnlyThen`, `LoggedOnceAlways` and the action property
`ReplacedOnlyByEqual`.

*Look-up of a template.* `LookupIsBest`: what `SelectBasedOnAlternatives` finds
fits, and any other template that fits has strictly fewer alternatives;
`LookupFails`: it finds nothing only if nothing fits or several fit equally
well. These hold for every set of templates. The search for the greatest size goes
back to well-foundedness of the numbers (`Greatest`).

*Templates.* `TemplatesInvariant` is about a whole project, with any templates,
versions, profiles and priorities of addons. Its parts:

* `StepsInv`: what is still to write are steps of the creators and addons, each
  with the alternatives of its service (`Proper`). `OwnTemplatesAlways` and
  `BestTemplateAlways` follow with `LookupIsBest`. A look-up by mere name, for
  which one template without rivals is found whatever its alternatives are, needs
  `TemplatesAssumption`: a template that is made for Gradle, the second service or
  one server has a name that is looked up that way. A new file in `files.lst` may
  break this, and then TLC reports the assumption.
* `AddonsInv`: from the template on "mp" is among the addons, and with the dependent
  addons that of the server. `orderAddons` loses none, as the positions it takes
  them from are all different (`OrderKeeps`).
* `PomsInv`: `Poms!Pom` folds over the addons. Each addon adds its own part, whatever
  the others have added before (`PomParts`), so that a pom has `Adapted` to its
  server and to "mp" when both have had their turn, in every order.
* `ServedInv`: what a file of an example uses is among what a pom of its service is
  given (`Supplied`). With `PomsInv` this is `ExamplesSupportedAlways`.
* `BeansInv`: each `beans.xml` is there, still to come, or still to go. The CDI creator
  and the addons of Helidon and KumuluzEE write one; these two and Quarkus remove
  `webapp` or `WEB-INF` when their addon has its turn. At the end nothing is left to
  do, which is `BeansOnceAlways`.

* `FoundInv`: the request has not failed, the list of addons starts with "mp", and
  the alternatives are exactly those of server and version.
* `HealthInv`: a file at the place of the health checks is one that the version has; with
  the spec each of them is there or still to come; a page comes from a template that
  stands out for server and version.

Three properties depend on what stands in `files.lst`, `pom-servers.xml` and the
tables of versions. The theorems say how much of the tables they need, one row at
a time, and that nothing else of a request makes a difference:

* `EveryTemplateFoundAlways` needs `LookupsAssumption`: for a name, a server and one of
  its versions, one template stands out (`StandsOut`), with or without the marks for
  Gradle and the second service. It does not say which names a project asks for; that
  these are among `Names`, and are asked for with all the alternatives of the request
  and no foreign ones, is shown creator by creator (`Proper`). Without the alternative of
  its server or version nothing may fit a look-up, so `FoundInv` has to say that none is
  missing.
* `PomResolvesAlways` needs `PomsAssumption`: the profile that a server has for a version
  refers to nothing that its addon does not provide in a project without specs
  (`BarePom`). `PomResolvesWithServer` shows that specs, service, build and the order of
  the addons change nothing about it, `PomMade` that no addon throws. WildFly and TomEE
  throw if the profile is not chosen yet, so "mp" must have had its turn: it is the
  template's first addon (`CodesAssumption`), and `orderAddons` leaves it there, as its
  priority is not higher than that of any other and the order is stable
  (`OrderKeepsFirst`).
* `HealthPageFitsAlways` needs `PagesAssumption`: the page that stands out for a server
  and version is of the same generation as the version. That exactly the checks of the
  version are in the project follows from the steps of "mp", whose files no removal
  reaches (`HealthKept`).

A new server, version or template that breaks one of these assumptions is reported by
TLC when it evaluates them, before it has looked at a single project.

The sequences of steps are put together with `FlattenSeq`, of which there are no
theorems in the library and which is defined by a recursive function; what is
needed of it (`FlattenSteps`, `Flattened`, `FlattenHas`) is shown by the greatest
index up to which it holds, in place of an induction.

Only model-checked: liveness (`PageAnswers`, the fairness part of
`ImplementsService`), as the prover does not handle `ENABLED`. Every safety property
of the passing runs has a theorem.

## 5. Not modelled

* Text: the content of templates, labels, links, renderers, name checks. It is
  covered by the repository's own tests and by integration tests that build the
  generated projects.
* Read-only REST calls (readme, versions, matrices): they read constant tables
  and the shuffled lists, which `SharedServers` has.
* Values that JSF components keep after a refused download, and what JSF and the
  browser do with them afterwards.
* The vendored JavaScript of `src/starter-static-example` beyond the queue, the
  requests and the answers: widgets, effects, jQuery. It is third-party code,
  mostly minified into a few very long lines, and serves a static example. The
  application itself is Java with one line of JavaScript (`getHost.js`, which
  puts the host's name into the page).
* Crashes: nothing is persisted; a restart loses the sessions with their maps.

## 6. Plan

Done in this order, the most important behaviour first: `Generation` with its
abstract specification and proofs, `SharedServers`, `Catalogue`, `RestApi`,
`ProjectForm`, `Templates` with the resolution of addons, `UsageLog`, `Poms`,
`FormPage` with its refinement of `ProjectForm`, the proofs about `RestApi`,
`SkeletonComplete`, `SpecsExplained` and the safety part of `ImplementsService`, those about
`FormPage` with its refinement, and those about `Templates` and `Poms`, at last with
what they take for granted of the tables.
Left, in this order:

1. Gradle's variables and the ports of the two services (server tables, poms,
   `defineAdditionalVariables`), so that `ExamplesSupported` covers Gradle too.
2. A run for the null server in a record of the log.
3. The read-only answers of the REST API with their entity tags, computed once
   while the lists behind them go on losing entries.
