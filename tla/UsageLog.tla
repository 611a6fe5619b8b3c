------------------------------- MODULE UsageLog -------------------------------
(***************************************************************************)
(* The usage log: LoggingTask and DynamoDBLogger, with the front ends that *)
(* submit the tasks.  A task of the REST API has an EngineData of its own. *)
(* A task of the web form holds the one of the form's bean, which the user *)
(* goes on changing while an executor thread reads it.                     *)
(*                                                                         *)
(* Nothing synchronizes the two threads after the submission.  By the Java *)
(* memory model any read of a task may yield any value that the field has  *)
(* had since then, so that a task can be one action that chooses among     *)
(* them: since has these values.                                           *)
(*                                                                         *)
(* Of the logged data there are the version, the server and the specs; the *)
(* names and the mode of beans.xml are read in the same way.               *)
(***************************************************************************)
EXTENDS ProjectForm

CONSTANTS
    Tasks,      \* bounds the submissions
    RestData,   \* what the requests over REST generate
    Instants    \* timestamps: with one only, all is logged in the same millisecond

Data == [mpVersion : Versions, supportedServer : Servers, selectedSpecs : SUBSET Codes]
OrNull(S) == S \cup {Null}
Task == [stage : {"queued", "done", "refused"}, source : {"WEB", "REST"},
         about : [mpVersion : OrNull(Versions), supportedServer : Servers,
                  selectedSpecs : SUBSET Codes],
         changed : BOOLEAN,
         since : [mpVersion : SUBSET OrNull(Versions), supportedServer : SUBSET OrNull(Servers),
                  selectedSpecs : SUBSET SUBSET Codes]]

ASSUME RestDataAssumption == RestData \subseteq Data
ASSUME NullAssumption == (\A names \in SUBSET Codes : names # Null) /\ Null \notin Task

VARIABLES
    engineSpecs,   \* engineData.selectedSpecs of the form
    usage,         \* usage[t]: the task t, Null as long as it is not submitted
    table          \* the table in DynamoDB: its records by logmark

logVars == <<engineSpecs, usage, table>>
allVars == <<vars, logVars>>

EngineData == [mpVersion |-> mpVersion, supportedServer |-> supportedServer,
               selectedSpecs |-> engineSpecs]
Fields == {"mpVersion", "supportedServer", "selectedSpecs"}

-----------------------------------------------------------------------------
(* Submission *)

Nothing == [mpVersion |-> {}, supportedServer |-> {}, selectedSpecs |-> {}]
With(since, data) == [mpVersion |-> since.mpVersion \cup {data.mpVersion},
                      supportedServer |-> since.supportedServer \cup {data.supportedServer},
                      selectedSpecs |-> since.selectedSpecs \cup {data.selectedSpecs}]

LoggingTask(source, about, data) ==
    [stage |-> "queued", source |-> source,
     about |-> about,      \* what the user has asked for
     changed |-> FALSE,    \* whether, when it ran, its data had changed
     since |-> With(Nothing, data)]

\* A task that has yet to read the form's data may read what the form's step
\* has made of it.
Exposed(t) ==
    IF usage[t] # Null /\ usage[t].stage = "queued" /\ usage[t].source = "WEB"
    THEN [usage[t] EXCEPT !.since = With(@, EngineData')]
    ELSE usage[t]
AllExposed == [t \in Tasks |-> Exposed(t)]

LogInit ==
    /\ Init
    /\ engineSpecs = Null
    /\ usage = [t \in Tasks |-> Null]
    /\ table = <<>>

\* Any event of the page but the download
UseForm ==
    /\ \/ SelectMPVersion \/ SelectBuildTool \/ SelectRuntime \/ SelectRuntimeFirst
       \/ CheckSpecs \/ CheckStandaloneSpecs \/ SelectAll \/ UnselectAll
    /\ generated' = Null
    /\ UNCHANGED <<engineSpecs, table>>
    /\ usage' = AllExposed

Asked == [mpVersion |-> mpVersion, supportedServer |-> supportedServer,
          selectedSpecs |-> selectedSpecs \cup selectedStandaloneSpecs]

\* Fault: the specs are not handed over to engineData.
KeepEngineSpecs == UNCHANGED engineSpecs
\* Fault: the standalone specs are left out, as they are over REST.
SetPlainSpecs == engineSpecs' = selectedSpecs
SetSelectedSpecs == engineSpecs' = selectedSpecs \cup selectedStandaloneSpecs

\* Fault: logged before the generation has accepted the input.
SubmitInAnyCase ==
    \E t \in Tasks :
        /\ usage[t] = Null
        /\ usage' = [AllExposed EXCEPT ![t] = LoggingTask("WEB", Asked, EngineData')]
\* Logged once the project exists.
SubmitGenerated ==
    /\ generated' # Null
    /\ \E t \in Tasks :
        /\ usage[t] = Null
        /\ usage' = [AllExposed EXCEPT ![t] = LoggingTask("WEB", Asked, EngineData')]

\* generateProject.  If the generation fails or the executor rejects the task,
\* nothing is logged.
Download ==
    /\ GenerateProject
    /\ SetSelectedSpecs
    /\ SubmitGenerated \/ usage' = AllExposed
    /\ UNCHANGED table

\* getEngineData, after validation has moved the standalone specs of the project
\* to a list of their own: the generator gets both lists, the log the first one.
GetEngineData(project) == [project EXCEPT !.selectedSpecs = @ \cap Specs]

\* processProject over REST, with an EngineData made for this request.  It is
\* logged before it is answered, be it with the project or with status 304 or 500.
Request ==
    /\ \E t \in Tasks, project \in RestData :
        /\ usage[t] = Null
        /\ usage' = [usage EXCEPT ![t] = LoggingTask("REST", project, GetEngineData(project))]
    /\ UNCHANGED <<vars, engineSpecs, table>>

-----------------------------------------------------------------------------
(* DynamoDBLogger.log *)

Readings(since) == [mpVersion : since.mpVersion, supportedServer : since.supportedServer,
                    selectedSpecs : since.selectedSpecs]

\* validateEngineData throws an IllegalArgumentException, which ends the task, at
\* the first field that is null.
MayPass(since) == \A f \in Fields : since[f] # {Null}
MayFail(since) == \E f \in Fields : Null \in since[f]

\* Fault: the specs are no part of the mark.
LogmarkOfServer(source, read, timestamp) ==
    [source |-> source, timestamp |-> timestamp, mpVersion |-> read.mpVersion,
     supportedServer |-> read.supportedServer, selectedSpecs |-> {}]
\* The hash, without its collisions
Logmark(source, read, timestamp) ==
    [source |-> source, timestamp |-> timestamp, mpVersion |-> read.mpVersion,
     supportedServer |-> read.supportedServer, selectedSpecs |-> read.selectedSpecs]

Torn(since) == \E f \in Fields : \E x, y \in since[f] : x # y
Finished(t, stage) ==
    [usage EXCEPT ![t].stage = stage, ![t].changed = Torn(usage[t].since), ![t].since = Nothing]

Refuse(t) ==
    /\ MayFail(usage[t].since)
    /\ usage' = Finished(t, "refused")
    /\ UNCHANGED table

\* PutItem replaces the record of the same key.
Stored(mark, r) ==
    [m \in DOMAIN table \cup {mark} |-> IF m = mark THEN r ELSE table[m]]

\* The payload reads all fields for the mark and again for the item.
PutItem(t) ==
    /\ MayPass(usage[t].since)
    /\ \E hashed, sent \in Readings(usage[t].since), timestamp \in Instants :
        table' = Stored(Logmark(usage[t].source, hashed, timestamp),
                        [by |-> t, source |-> usage[t].source, item |-> sent])

\* Fault: sent again when no answer comes, although it may have been stored.
LogRetried(t) ==
    \/ PutItem(t) /\ usage' \in {usage, Finished(t, "done")}
    \/ Refuse(t)
\* Without keys, or when the table does not take or answer it, the payload is
\* dropped.  It may be stored or not when no answer comes; log sends it once (and
\* if HttpURLConnection repeats it, this is the same payload for the same key).
Log(t) ==
    \/ /\ usage' = Finished(t, "done")
       /\ PutItem(t) \/ UNCHANGED table
    \/ Refuse(t)

Run(t) ==
    /\ usage[t] # Null /\ usage[t].stage = "queued"
    /\ Log(t)
    /\ UNCHANGED <<vars, engineSpecs>>

LogNext == UseForm \/ Download \/ Request \/ \E t \in Tasks : Run(t)

LogSpec == LogInit /\ [][LogNext]_allVars

-----------------------------------------------------------------------------
(* Properties *)

Record == [by : Tasks, source : {"WEB", "REST"},
           item : [mpVersion : OrNull(Versions), supportedServer : OrNull(Servers),
                   selectedSpecs : SUBSET Codes]]

\* Types: no task ever meets the specs before they are set.
LogTypeOK ==
    /\ engineSpecs = Null \/ engineSpecs \subseteq Codes
    /\ \A t \in Tasks : usage[t] # Null => Null \notin usage[t].since.selectedSpecs
    /\ usage \in [Tasks -> OrNull(Task)]
    /\ \A mark \in DOMAIN table : table[mark] \in Record /\ usage[table[mark].by] # Null

\* The form had changed the data of t before t was through.
Changed(t) == usage[t].changed

\* A record of the form says what its user downloaded, unless the user has gone on
\* with the form (GeneratorDataBean 334 hands over the bean's own data).  A record
\* of REST leaves out the standalone specs (APIService 596), and says in any case
\* the version, the server and all other specs of its own request.
LoggedAsDownloaded ==
    \A mark \in DOMAIN table :
        LET r == table[mark]  about == usage[r.by].about IN
        /\ r.source = usage[r.by].source
        /\ r.source = "WEB" => Changed(r.by) \/ r.item = about
        /\ r.source = "REST" =>
            /\ r.item.mpVersion = about.mpVersion
            /\ r.item.supportedServer = about.supportedServer
            /\ r.item.selectedSpecs = about.selectedSpecs \ Standalone

\* A download escapes the log by validateEngineData only in the same case; REST
\* requests never do.
RefusedOnlyIfChanged ==
    \A t \in Tasks : usage[t] # Null /\ usage[t].stage = "refused" =>
        usage[t].source = "WEB" /\ Changed(t)

\* No task leaves two records, and none after it was refused.
LoggedOnce ==
    \A m1, m2 \in DOMAIN table :
        /\ table[m1].by = table[m2].by => m1 = m2
        /\ usage[table[m1].by].stage = "done"

\* Two usages in one millisecond can have one logmark, and the second one then
\* replaces the first one's record; but no information goes with it, unless
\* the form has changed under one of the two.
ReplacedByEqual ==
    [][\A mark \in DOMAIN table :
           /\ mark \in DOMAIN table'
           /\ \/ table'[mark].item = table[mark].item
              \/ Changed(table[mark].by) \/ usage'[table'[mark].by].changed]_allVars
===============================================================================
