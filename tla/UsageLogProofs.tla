----------------------------- MODULE UsageLogProofs ----------------------------
(***************************************************************************)
(* For every content of the tables, any number of tasks and any timestamps:*)
(* a record says what was downloaded (over REST without the standalone     *)
(* specs) and a task is refused only by data that the form had changed, no *)
(* task leaves two records, and a record is only replaced by an equal one. *)
(*                                                                         *)
(* The invariant is about since, the values a queued task may still read:  *)
(* what was handed over is always among them, so that a task whose data    *)
(* has not changed can read nothing else.                                  *)
(***************************************************************************)
EXTENDS UsageLog, ProjectFormProofs

Since == [mpVersion : SUBSET OrNull(Versions), supportedServer : SUBSET OrNull(Servers),
          selectedSpecs : SUBSET SUBSET Codes]

\* What a task was handed of that which it is about
Handed(task) == IF task.source = "REST" THEN GetEngineData(task.about) ELSE task.about

\* A task, with what engineData.selectedSpecs of the form is
TaskInv(task, names) ==
    /\ task \in Task
    /\ task.about \in Data
    /\ Null \notin task.since.selectedSpecs
    /\ task.source = "WEB" => names # Null
    /\ task.stage = "queued" =>
        /\ \A f \in Fields : Handed(task)[f] \in task.since[f]
        /\ task.source = "REST" => task.since = With(Nothing, Handed(task))
    /\ task.source = "REST" => ~task.changed
    /\ task.stage = "refused" => task.source = "WEB" /\ task.changed

\* A record with the task it comes from
RecordInv(mark, r, task) ==
    /\ task # Null
    /\ task.stage = "done"
    /\ r.source = task.source
    /\ \/ task.changed
       \/ r.item = Handed(task) /\ \A f \in Fields : mark[f] = Handed(task)[f]

EngineInv == engineSpecs = Null \/ engineSpecs \subseteq Codes
UsageInv ==
    /\ usage \in [Tasks -> OrNull(Task)]
    /\ \A t \in Tasks : usage[t] # Null => TaskInv(usage[t], engineSpecs)
TableInv ==
    /\ \A mark \in DOMAIN table :
        /\ table[mark] \in Record
        /\ RecordInv(mark, table[mark], usage[table[mark].by])
    /\ \A m1, m2 \in DOMAIN table : table[m1].by = table[m2].by => m1 = m2
LogInv == EngineInv /\ UsageInv /\ TableInv

LEMMA HandedIsData ==
    ASSUME NEW task, task.about \in Data
    PROVE  Handed(task) \in Data
<1>1. GetEngineData(task.about) \in Data
    BY DEF GetEngineData, Data, Codes
<1> QED
    BY <1>1 DEF Handed

-----------------------------------------------------------------------------
(* The form *)

\* Of the form's variables, logging changes none.
LEMMA FormMoves == [LogNext]_allVars => [Next]_vars
<1>1. UseForm => Next
    BY DEF UseForm, Next
<1>2. Download => Next
    BY DEF Download, Next
<1>3. Request \/ (\E t \in Tasks : Run(t)) => UNCHANGED vars
    BY DEF Request, Run
<1>4. UNCHANGED allVars => UNCHANGED vars
    BY DEF allVars
<1> QED
    BY <1>1, <1>2, <1>3, <1>4 DEF LogNext

\* The form behaves as if nothing were logged (generateProject submits the task
\* and returns the project), so what is proved about it holds here too.
THEOREM FormKept == LogSpec => Spec
<1>1. LogInit => Init
    BY DEF LogInit
<1> QED
    BY <1>1, FormMoves, PTL DEF LogSpec, Spec

-----------------------------------------------------------------------------
(* Submission *)

\* What a task may read after a step of the form is what it might read before,
\* or the new data.
LEMMA ExposedKept ==
    ASSUME UsageInv, EngineInv', TypeOK', engineSpecs # Null => engineSpecs' # Null,
           NEW t \in Tasks, usage[t] # Null
    PROVE  /\ TaskInv(Exposed(t), engineSpecs')
           /\ Exposed(t) # Null
           /\ Exposed(t).stage = usage[t].stage
           /\ Exposed(t).source = usage[t].source
           /\ Exposed(t).about = usage[t].about
           /\ Exposed(t).changed = usage[t].changed
<1> DEFINE task == usage[t]
           exposed == [task EXCEPT !.since = With(@, EngineData')]
<1>1. task \in Task /\ TaskInv(task, engineSpecs)
    BY DEF UsageInv, OrNull
<1>2. Null \notin Task
    BY NullAssumption
<1>3. CASE ~(task.stage = "queued" /\ task.source = "WEB")
    <2>1. Exposed(t) = task
        BY <1>3 DEF Exposed
    <2> HIDE DEF task
    <2>2. TaskInv(task, engineSpecs')
        BY <1>1 DEF TaskInv
    <2> QED
        BY <2>1, <2>2, <1>1, <1>2 DEF task
<1>4. CASE task.stage = "queued" /\ task.source = "WEB"
    <2>1. Exposed(t) = exposed
        BY <1>4 DEF Exposed
    <2> HIDE DEF task
    <2>2. /\ task.since \in Since
          /\ Null \notin task.since.selectedSpecs
          /\ engineSpecs # Null
        BY <1>1, <1>4 DEF TaskInv, Task, Since
    <2>3. /\ EngineData'.mpVersion \in OrNull(Versions)
          /\ EngineData'.supportedServer \in OrNull(Servers)
          /\ EngineData'.selectedSpecs \in SUBSET Codes
          /\ EngineData'.selectedSpecs # Null
        BY <2>2 DEF TypeOK, EngineInv, EngineData, OrNull
    <2>4. /\ With(task.since, EngineData') \in Since
          /\ Null \notin With(task.since, EngineData').selectedSpecs
          /\ \A f \in Fields : task.since[f] \subseteq With(task.since, EngineData')[f]
        BY <2>2, <2>3 DEF With, Since, Fields
    <2>5. /\ exposed \in Task
          /\ exposed.since = With(task.since, EngineData')
          /\ exposed.stage = task.stage /\ exposed.source = task.source
          /\ exposed.about = task.about /\ exposed.changed = task.changed
        BY <1>1, <2>4 DEF Task, Since
    <2>6. TaskInv(exposed, engineSpecs')
        <3> HIDE DEF exposed
        <3> QED
            BY <1>1, <1>4, <2>2, <2>4, <2>5 DEF TaskInv, Handed
    <2> QED
        BY <2>1, <2>5, <2>6, <1>2 DEF task
<1> QED
    BY <1>3, <1>4

\* A task starts with what was handed over as the only value to read.
LEMMA TaskSubmitted ==
    ASSUME NEW source \in {"WEB", "REST"}, NEW about \in Data, NEW data \in Data, NEW names,
           source = "WEB" => names # Null /\ data = about,
           source = "REST" => data = GetEngineData(about)
    PROVE  TaskInv(LoggingTask(source, about, data), names)
<1> DEFINE task == LoggingTask(source, about, data)
<1>1. /\ With(Nothing, data) \in Since
      /\ With(Nothing, data).selectedSpecs = {data.selectedSpecs}
      /\ \A f \in Fields : data[f] \in With(Nothing, data)[f]
    BY DEF Data, OrNull, With, Nothing, Since, Fields
<1>2. data.selectedSpecs # Null
    BY NullAssumption DEF Data
<1>3. task \in Task
    BY <1>1 DEF LoggingTask, Task, Since, Data, OrNull
<1>4. /\ task.stage = "queued" /\ task.source = source /\ task.about = about
      /\ task.changed = FALSE /\ task.since = With(Nothing, data)
    BY DEF LoggingTask
<1>5. Handed(task) = data
    BY <1>4 DEF Handed
<1> HIDE DEF task
<1>6. /\ \A f \in Fields : Handed(task)[f] \in task.since[f]
      /\ task.since = With(Nothing, Handed(task))
      /\ Null \notin task.since.selectedSpecs
    BY <1>1, <1>2, <1>4, <1>5
<1>7. TaskInv(task, names)
    BY <1>3, <1>4, <1>6 DEF TaskInv
<1> QED
    BY <1>7 DEF task

\* What the user downloads is what the form hands over.
LEMMA AskedIsHandedOver ==
    ASSUME TypeOK, Download, generated' # Null
    PROVE  Asked \in Data /\ EngineData' = Asked
<1>1. /\ mpVersion # Null /\ supportedServer # Null
      /\ mpVersion' = mpVersion /\ supportedServer' = supportedServer
    BY DEF Download, GenerateProject
<1>2. mpVersion \in Versions /\ supportedServer \in Servers
    BY <1>1 DEF TypeOK
<1>3. selectedSpecs \cup selectedStandaloneSpecs \in SUBSET Codes
    BY DEF TypeOK, Codes
<1>4. engineSpecs' = selectedSpecs \cup selectedStandaloneSpecs
    BY DEF Download, SetSelectedSpecs
<1> QED
    BY <1>1, <1>2, <1>3, <1>4 DEF Asked, EngineData, Data

\* Steps that submit or expose tasks leave those alone that records come from.
LEMMA RecordsKept ==
    ASSUME TableInv, UNCHANGED table,
           \A t \in Tasks : usage[t] # Null =>
               /\ usage'[t] # Null
               /\ usage'[t].stage = usage[t].stage
               /\ usage'[t].source = usage[t].source
               /\ usage'[t].about = usage[t].about
               /\ usage'[t].changed = usage[t].changed
    PROVE  TableInv'
<1>1. ASSUME NEW mark \in DOMAIN table
      PROVE  RecordInv(mark, table[mark], usage[table[mark].by])'
    <2> DEFINE r == table[mark]
    <2>1. r \in Record /\ RecordInv(mark, r, usage[r.by])
        BY DEF TableInv
    <2>2. r.by \in Tasks
        BY <2>1 DEF Record
    <2>3. usage[r.by] # Null
        BY <2>1 DEF RecordInv
    <2> QED
        BY <2>1, <2>2, <2>3 DEF RecordInv, Handed
<1> QED
    BY <1>1 DEF TableInv

\* A step of the form that submits no task
LEMMA ExposedStep ==
    ASSUME LogInv, EngineInv', TypeOK', engineSpecs # Null => engineSpecs' # Null,
           usage' = AllExposed, UNCHANGED table
    PROVE  LogInv'
<1>1. ASSUME NEW t \in Tasks, usage[t] # Null
      PROVE  /\ TaskInv(usage'[t], engineSpecs')
             /\ usage'[t] # Null
             /\ usage'[t].stage = usage[t].stage
             /\ usage'[t].source = usage[t].source
             /\ usage'[t].about = usage[t].about
             /\ usage'[t].changed = usage[t].changed
    <2>1. usage'[t] = Exposed(t)
        BY DEF AllExposed
    <2> QED
        BY <1>1, <2>1, ExposedKept DEF LogInv
<1>2. ASSUME NEW t \in Tasks, usage[t] = Null PROVE usage'[t] = Null
    BY <1>2 DEF AllExposed, Exposed
<1>3. UsageInv'
    <2>1. usage' = [t \in Tasks |-> usage'[t]]
        BY DEF AllExposed
    <2>2. \A t \in Tasks : usage'[t] \in OrNull(Task)
        BY <1>1, <1>2 DEF TaskInv, OrNull
    <2> QED
        BY <2>1, <2>2, <1>1, <1>2 DEF UsageInv
<1>4. TableInv'
    BY <1>1, RecordsKept DEF LogInv
<1> QED
    BY <1>3, <1>4 DEF LogInv

LEMMA FormStepLogs ==
    ASSUME LogInv, UseForm, TypeOK' PROVE LogInv'
<1>1. UNCHANGED <<engineSpecs, table>> /\ usage' = AllExposed
    BY DEF UseForm
<1>2. EngineInv'
    BY <1>1 DEF LogInv, EngineInv
<1> QED
    BY <1>1, <1>2, ExposedStep

LEMMA DownloadLogs ==
    ASSUME LogInv, TypeOK, Download, TypeOK' PROVE LogInv'
<1>1. EngineInv' /\ engineSpecs' # Null
    <2>1. engineSpecs' \in SUBSET Codes
        BY DEF Download, SetSelectedSpecs, TypeOK, Codes
    <2> QED
        BY <2>1, NullAssumption DEF EngineInv
<1>2. UNCHANGED table
    BY DEF Download
<1>3. CASE usage' = AllExposed
    BY <1>1, <1>2, <1>3, ExposedStep
<1>4. CASE SubmitGenerated
    <2>1. PICK t \in Tasks :
            /\ usage[t] = Null
            /\ usage' = [AllExposed EXCEPT ![t] = LoggingTask("WEB", Asked, EngineData')]
        BY <1>4 DEF SubmitGenerated
    <2>2. TaskInv(usage'[t], engineSpecs')
        <3>1. Asked \in Data /\ EngineData' = Asked
            BY <1>4, AskedIsHandedOver DEF SubmitGenerated
        <3>2. usage'[t] = LoggingTask("WEB", Asked, Asked)
            BY <2>1, <3>1 DEF AllExposed
        <3> QED
            BY <1>1, <3>1, <3>2, TaskSubmitted
    <2>3. ASSUME NEW u \in Tasks, usage[u] # Null
          PROVE  /\ TaskInv(usage'[u], engineSpecs')
                 /\ usage'[u] # Null
                 /\ usage'[u].stage = usage[u].stage
                 /\ usage'[u].source = usage[u].source
                 /\ usage'[u].about = usage[u].about
                 /\ usage'[u].changed = usage[u].changed
        <3>1. usage'[u] = Exposed(u)
            BY <2>1, <2>3 DEF AllExposed
        <3> QED
            BY <1>1, <2>3, <3>1, ExposedKept DEF LogInv
    <2>4. ASSUME NEW u \in Tasks, u # t, usage[u] = Null PROVE usage'[u] = Null
        BY <2>1, <2>4 DEF AllExposed, Exposed
    <2>5. UsageInv'
        <3>1. usage' = [u \in Tasks |-> usage'[u]]
            BY <2>1 DEF AllExposed
        <3>2. ASSUME NEW u \in Tasks
              PROVE  usage'[u] \in OrNull(Task)
                     /\ (usage'[u] # Null => TaskInv(usage'[u], engineSpecs'))
            BY <2>2, <2>3, <2>4 DEF TaskInv, OrNull
        <3> QED
            BY <3>1, <3>2 DEF UsageInv
    <2>6. TableInv'
        BY <1>2, <2>3, RecordsKept DEF LogInv
    <2> QED
        BY <1>1, <2>5, <2>6 DEF LogInv
<1> QED
    BY <1>3, <1>4 DEF Download

LEMMA RequestLogs ==
    ASSUME LogInv, Request PROVE LogInv'
<1>1. PICK t \in Tasks, project \in RestData :
        /\ usage[t] = Null
        /\ usage' = [usage EXCEPT ![t] = LoggingTask("REST", project, GetEngineData(project))]
    BY DEF Request
<1>2. UNCHANGED <<engineSpecs, table>>
    BY DEF Request
<1>3. UsageInv
    BY DEF LogInv
<1>4. TaskInv(LoggingTask("REST", project, GetEngineData(project)), engineSpecs)
    <2>1. project \in Data
        BY RestDataAssumption
    <2>2. GetEngineData(project) \in Data
        BY <2>1 DEF GetEngineData, Data, Codes
    <2> QED
        BY <2>1, <2>2, TaskSubmitted
<1>5. UsageInv'
    <2>1. usage' \in [Tasks -> OrNull(Task)]
        BY <1>1, <1>3, <1>4 DEF UsageInv, TaskInv, OrNull
    <2> QED
        BY <1>1, <1>2, <1>3, <1>4, <2>1 DEF UsageInv
<1>6. TableInv'
    <2>1. \A u \in Tasks : usage[u] # Null => usage'[u] = usage[u]
        BY <1>1, <1>3 DEF UsageInv
    <2> QED
        BY <1>2, <2>1, RecordsKept DEF LogInv
<1> QED
    BY <1>2, <1>5, <1>6 DEF LogInv, EngineInv

-----------------------------------------------------------------------------
(* The logger *)

\* A task that runs keeps what it is about and notes whether its data changed.
LEMMA TaskFinished ==
    ASSUME UsageInv, NEW t \in Tasks, usage[t] # Null, NEW stage \in {"done", "refused"},
           usage[t].stage = "queued",
           stage = "refused" => usage[t].source = "WEB" /\ Torn(usage[t].since)
    PROVE  LET finished == Finished(t, stage) IN
           /\ finished \in [Tasks -> OrNull(Task)]
           /\ \A u \in Tasks \ {t} : finished[u] = usage[u]
           /\ finished[t].stage = stage
           /\ finished[t].source = usage[t].source
           /\ finished[t].about = usage[t].about
           /\ finished[t].changed = Torn(usage[t].since)
           /\ TaskInv(finished[t], engineSpecs)
           /\ finished[t] # Null
<1> DEFINE task == usage[t]
           changed == Torn(task.since)
           end == [task EXCEPT !.stage = stage, !.changed = changed, !.since = Nothing]
<1>1. task \in Task /\ TaskInv(task, engineSpecs)
    BY DEF UsageInv, OrNull
<1>2. Finished(t, stage) = [usage EXCEPT ![t] = end]
    BY Zenon DEF Finished, UsageInv
<1>3. changed \in BOOLEAN
    BY DEF Torn
<1>4. task.source = "REST" => ~changed
    <2> SUFFICES ASSUME task.source = "REST" PROVE ~changed
        OBVIOUS
    <2>1. task.since = With(Nothing, Handed(task))
        BY <1>1 DEF TaskInv
    <2> HIDE DEF task
    <2> QED
        BY <2>1 DEF Torn, With, Nothing, Fields
<1> HIDE DEF task, changed
<1>5. /\ end \in Task
      /\ end.stage = stage /\ end.source = task.source /\ end.about = task.about
      /\ end.changed = changed /\ end.since = Nothing
    BY <1>1, <1>3 DEF Task, Nothing
<1>6. stage = "refused" => task.source = "WEB" /\ changed
    BY DEF task, changed
<1> HIDE DEF end
<1>7. TaskInv(end, engineSpecs)
    BY <1>1, <1>4, <1>5, <1>6 DEF TaskInv, Nothing
<1>8. end # Null
    BY <1>5, NullAssumption
<1>9. /\ Finished(t, stage) \in [Tasks -> OrNull(Task)]
      /\ Finished(t, stage)[t] = end
      /\ \A u \in Tasks \ {t} : Finished(t, stage)[u] = usage[u]
    BY <1>2, <1>5 DEF UsageInv, OrNull
<1> QED
    BY <1>5, <1>7, <1>8, <1>9 DEF task, changed

\* A queued task whose data has not changed can read only what was handed over.
LEMMA ReadsAsHanded ==
    ASSUME NEW task, NEW names, TaskInv(task, names), task.stage = "queued",
           NEW read \in Readings(task.since), ~Torn(task.since)
    PROVE  read = Handed(task)
<1> DEFINE data == Handed(task)
<1>1. data \in Data
    BY HandedIsData DEF TaskInv
<1>2. /\ data.mpVersion \in task.since.mpVersion
      /\ data.supportedServer \in task.since.supportedServer
      /\ data.selectedSpecs \in task.since.selectedSpecs
    BY DEF TaskInv, Fields
<1> HIDE DEF data
<1>3. /\ read.mpVersion = data.mpVersion
      /\ read.supportedServer = data.supportedServer
      /\ read.selectedSpecs = data.selectedSpecs
    BY <1>2 DEF Readings, Torn, Fields
<1>4. read = data
    BY <1>1, <1>3 DEF Data, Readings
<1> QED
    BY <1>4 DEF data

\* validateEngineData never fails on what was handed over.
LEMMA RefusedWhenTorn ==
    ASSUME NEW task, NEW names, TaskInv(task, names), task.stage = "queued",
           MayFail(task.since)
    PROVE  task.source = "WEB" /\ Torn(task.since)
<1>1. PICK f \in Fields : Null \in task.since[f]
    BY DEF MayFail
<1>2. Handed(task)[f] \in task.since[f] /\ Handed(task)[f] # Null
    <2>1. Handed(task) \in Data
        BY HandedIsData DEF TaskInv
    <2>2. \A g \in Fields : Handed(task)[g] # Null
        BY <2>1, NamesAssumption, NullAssumption DEF Data, Fields
    <2> QED
        BY <2>2 DEF TaskInv
<1>3. Torn(task.since)
    BY <1>1, <1>2 DEF Torn
<1>4. ASSUME task.source = "REST" PROVE FALSE
    <2>1. task.since = With(Nothing, Handed(task))
        BY <1>4 DEF TaskInv
    <2>2. task.since[f] = {Handed(task)[f]}
        BY <2>1 DEF With, Nothing, Fields
    <2> QED
        BY <1>1, <1>2, <2>2
<1> QED
    BY <1>3, <1>4 DEF TaskInv, Task

LEMMA RefuseLogs ==
    ASSUME LogInv, NEW t \in Tasks, Run(t), Refuse(t) PROVE LogInv'
<1>1. /\ usage[t] # Null /\ usage[t].stage = "queued"
      /\ usage' = Finished(t, "refused")
      /\ UNCHANGED <<table, engineSpecs>>
    BY DEF Run, Refuse
<1>2. UsageInv /\ TaskInv(usage[t], engineSpecs)
    BY <1>1 DEF LogInv, UsageInv
<1>3. usage[t].source = "WEB" /\ Torn(usage[t].since)
    BY <1>1, <1>2, RefusedWhenTorn DEF Refuse
<1>4. /\ usage' \in [Tasks -> OrNull(Task)]
      /\ \A u \in Tasks \ {t} : usage'[u] = usage[u]
      /\ TaskInv(usage'[t], engineSpecs)
    BY <1>1, <1>2, <1>3, TaskFinished
<1>5. UsageInv'
    BY <1>1, <1>2, <1>4 DEF UsageInv
<1>6. TableInv'
    <2>1. ASSUME NEW mark \in DOMAIN table
          PROVE  usage'[table[mark].by] = usage[table[mark].by]
        <3> DEFINE r == table[mark]
        <3>1. r.by \in Tasks /\ usage[r.by].stage = "done"
            BY DEF LogInv, TableInv, RecordInv, Record
        <3> QED
            BY <1>1, <1>4, <3>1
    <2> QED
        BY <1>1, <2>1 DEF LogInv, TableInv
<1> QED
    BY <1>1, <1>5, <1>6 DEF LogInv, EngineInv

\* What is left of a record when t is done
LEMMA RecordStays ==
    ASSUME LogInv, NEW t \in Tasks, usage[t] # Null, usage[t].stage = "queued",
           \A u \in Tasks \ {t} : usage'[u] = usage[u],
           NEW mark \in DOMAIN table
    PROVE  /\ table[mark] \in Record
           /\ table[mark].by # t
           /\ RecordInv(mark, table[mark], usage'[table[mark].by])
<1>1. table[mark] \in Record /\ RecordInv(mark, table[mark], usage[table[mark].by])
    BY DEF LogInv, TableInv
<1>2. table[mark].by \in Tasks /\ table[mark].by # t
    BY <1>1 DEF Record, RecordInv
<1> QED
    BY <1>1, <1>2

LEMMA LogLogs ==
    ASSUME LogInv, NEW t \in Tasks, Run(t), usage' = Finished(t, "done"),
           PutItem(t) \/ UNCHANGED table
    PROVE  LogInv'
<1>1. /\ usage[t] # Null /\ usage[t].stage = "queued"
      /\ UNCHANGED engineSpecs
    BY DEF Run
<1>2. UsageInv /\ TaskInv(usage[t], engineSpecs)
    BY <1>1 DEF LogInv, UsageInv
<1>3. /\ usage' \in [Tasks -> OrNull(Task)]
      /\ \A u \in Tasks \ {t} : usage'[u] = usage[u]
      /\ usage'[t].stage = "done"
      /\ usage'[t].source = usage[t].source
      /\ usage'[t].about = usage[t].about
      /\ usage'[t].changed = Torn(usage[t].since)
      /\ TaskInv(usage'[t], engineSpecs)
      /\ usage'[t] # Null
    BY <1>1, <1>2, TaskFinished
<1>4. UsageInv'
    BY <1>1, <1>2, <1>3 DEF UsageInv
<1>5. TableInv'
    <2>1. \A mark \in DOMAIN table :
            /\ table[mark] \in Record
            /\ table[mark].by # t
            /\ RecordInv(mark, table[mark], usage'[table[mark].by])
        BY <1>1, <1>3, RecordStays
    <2>2. \A m1, m2 \in DOMAIN table : table[m1].by = table[m2].by => m1 = m2
        BY DEF LogInv, TableInv
    <2>3. CASE UNCHANGED table
        BY <2>1, <2>2, <2>3 DEF TableInv
    <2>4. CASE PutItem(t)
        <3>1. PICK hashed \in Readings(usage[t].since), sent \in Readings(usage[t].since),
                   timestamp \in Instants :
                table' = Stored(Logmark(usage[t].source, hashed, timestamp),
                                [by |-> t, source |-> usage[t].source, item |-> sent])
            BY <2>4 DEF PutItem
        <3> DEFINE mark == Logmark(usage[t].source, hashed, timestamp)
                   r == [by |-> t, source |-> usage[t].source, item |-> sent]
        <3>2. r \in Record
            <4>1. usage[t].source \in {"WEB", "REST"} /\ usage[t].since \in Since
                BY <1>2 DEF TaskInv, Task, Since
            <4>2. sent \in [mpVersion : OrNull(Versions), supportedServer : OrNull(Servers),
                            selectedSpecs : SUBSET Codes]
                BY <4>1 DEF Readings, Since
            <4> QED
                BY <4>1, <4>2 DEF Record
        <3>3. RecordInv(mark, r, usage'[t])
            <4>1. ASSUME ~Torn(usage[t].since)
                  PROVE  hashed = Handed(usage[t]) /\ sent = Handed(usage[t])
                BY <4>1, <1>1, <1>2, ReadsAsHanded
            <4>2. \A f \in Fields : mark[f] = hashed[f]
                BY DEF Logmark, Fields
            <4>3. Handed(usage'[t]) = Handed(usage[t])
                BY <1>3 DEF Handed
            <4> HIDE DEF mark
            <4> QED
                BY <1>3, <4>1, <4>2, <4>3 DEF RecordInv
        <3>4. /\ DOMAIN table' = DOMAIN table \cup {mark}
              /\ table'[mark] = r
              /\ \A m \in DOMAIN table \ {mark} : table'[m] = table[m]
            <4> HIDE DEF mark, r
            <4>1. table' = Stored(mark, r)
                BY <3>1 DEF mark, r
            <4> QED
                BY <4>1 DEF Stored
        <3>5. r.by = t
            OBVIOUS
        <3> HIDE DEF mark, r
        <3>6. ASSUME NEW m \in DOMAIN table'
              PROVE  table'[m] \in Record /\ RecordInv(m, table'[m], usage'[table'[m].by])
            BY <2>1, <3>2, <3>3, <3>4, <3>5
        <3>7. ASSUME NEW m1 \in DOMAIN table', NEW m2 \in DOMAIN table',
                     table'[m1].by = table'[m2].by
              PROVE  m1 = m2
            BY <2>1, <2>2, <3>4, <3>5, <3>7
        <3> QED
            BY <3>6, <3>7 DEF TableInv
    <2> QED
        BY <2>3, <2>4
<1> QED
    BY <1>1, <1>4, <1>5 DEF LogInv, EngineInv

-----------------------------------------------------------------------------
(* The invariant *)

LEMMA InitLogs == LogInit => LogInv
<1> SUFFICES ASSUME LogInit PROVE LogInv
    OBVIOUS
<1>1. EngineInv /\ UsageInv
    BY DEF LogInit, EngineInv, UsageInv, OrNull
<1>2. DOMAIN table = {}
    BY DEF LogInit
<1> QED
    BY <1>1, <1>2 DEF LogInv, TableInv

LEMMA StepLogs == LogInv /\ TypeOK /\ TypeOK' /\ [LogNext]_allVars => LogInv'
<1> SUFFICES ASSUME LogInv, TypeOK, TypeOK', [LogNext]_allVars PROVE LogInv'
    OBVIOUS
<1>1. CASE UseForm
    BY <1>1, FormStepLogs
<1>2. CASE Download
    BY <1>2, DownloadLogs
<1>3. CASE Request
    BY <1>3, RequestLogs
<1>4. ASSUME NEW t \in Tasks, Run(t) PROVE LogInv'
    BY <1>4, RefuseLogs, LogLogs DEF Run, Log
<1>5. CASE UNCHANGED allVars
    BY <1>5 DEF allVars, logVars, LogInv, EngineInv, UsageInv, TableInv
<1> QED
    BY <1>1, <1>2, <1>3, <1>4, <1>5 DEF LogNext

THEOREM LogInvariant == LogSpec => []LogInv
<1>1. LogSpec => []TypeOK
    BY FormKept, FormTypeCorrect, PTL
<1> QED
    BY <1>1, InitLogs, StepLogs, PTL DEF LogSpec

\* Types: in particular no task meets the form's specs before they are set.
THEOREM LogTypeCorrect == LogSpec => []LogTypeOK
<1>1. LogInv => LogTypeOK
    BY DEF LogInv, EngineInv, UsageInv, TableInv, TaskInv, RecordInv, LogTypeOK
<1> QED
    BY <1>1, LogInvariant, PTL

\* A record of the form says what its user downloaded, or the user has gone on with
\* the form; one of REST always says what was requested but for the standalone specs.
THEOREM LoggedAsDownloadedAlways == LogSpec => []LoggedAsDownloaded
<1>1. ASSUME LogInv PROVE LoggedAsDownloaded
    <2> SUFFICES ASSUME NEW mark \in DOMAIN table
                 PROVE  LET r == table[mark]  about == usage[r.by].about IN
                        /\ r.source = usage[r.by].source
                        /\ r.source = "WEB" => Changed(r.by) \/ r.item = about
                        /\ r.source = "REST" =>
                            /\ r.item.mpVersion = about.mpVersion
                            /\ r.item.supportedServer = about.supportedServer
                            /\ r.item.selectedSpecs = about.selectedSpecs \ Standalone
        BY DEF LoggedAsDownloaded
    <2> DEFINE r == table[mark]
               task == usage[r.by]
    <2>1. RecordInv(mark, r, task) /\ TaskInv(task, engineSpecs)
        BY <1>1 DEF LogInv, TableInv, UsageInv, RecordInv, Record
    <2>2. r.source = task.source /\ (task.changed \/ r.item = Handed(task))
        BY <2>1 DEF RecordInv
    <2>3. task.about \in Data /\ (task.source = "REST" => ~task.changed)
        BY <2>1 DEF TaskInv
    <2>4. CASE r.source = "WEB"
        BY <2>2, <2>4 DEF Handed, Changed
    <2>5. CASE r.source = "REST"
        <3>1. r.item = GetEngineData(task.about)
            BY <2>2, <2>3, <2>5 DEF Handed
        <3> HIDE DEF r, task
        <3>2. /\ r.item.mpVersion = task.about.mpVersion
              /\ r.item.supportedServer = task.about.supportedServer
              /\ r.item.selectedSpecs = task.about.selectedSpecs \cap Specs
            BY <2>3, <3>1 DEF GetEngineData, Data
        <3>3. task.about.selectedSpecs \cap Specs = task.about.selectedSpecs \ Standalone
            BY <2>3, NamesAssumption DEF Data, Codes
        <3> QED
            BY <2>2, <2>5, <3>2, <3>3 DEF r, task
    <2> QED
        BY <2>2, <2>4, <2>5
<1> QED
    BY <1>1, LogInvariant, PTL

\* Nor does validateEngineData refuse anything else.
THEOREM RefusedOnlyThen == LogSpec => []RefusedOnlyIfChanged
<1>1. LogInv => RefusedOnlyIfChanged
    BY DEF LogInv, UsageInv, TaskInv, RefusedOnlyIfChanged, Changed
<1> QED
    BY <1>1, LogInvariant, PTL

\* One record for one usage at most
THEOREM LoggedOnceAlways == LogSpec => []LoggedOnce
<1>1. LogInv => LoggedOnce
    BY DEF LogInv, TableInv, RecordInv, LoggedOnce
<1> QED
    BY <1>1, LogInvariant, PTL

\* Without a change, the key of a record has all that is in it.
SameAsMark(mark, item) == item \in Data /\ \A f \in Fields : mark[f] = item[f]

LEMMA UnchangedIsMark ==
    ASSUME NEW mark, NEW r, NEW task, NEW names,
           RecordInv(mark, r, task), TaskInv(task, names), ~task.changed
    PROVE  SameAsMark(mark, r.item)
<1> QED
    BY HandedIsData DEF RecordInv, TaskInv, SameAsMark

\* A record is replaced only by an equal one, unless the form has changed under
\* one of the two.
THEOREM ReplacedOnlyByEqual == LogSpec => ReplacedByEqual
<1> DEFINE Step ==
        \A mark \in DOMAIN table :
            /\ mark \in DOMAIN table'
            /\ \/ table'[mark].item = table[mark].item
               \/ Changed(table[mark].by) \/ usage'[table'[mark].by].changed
<1>1. ASSUME LogInv, LogInv', LogNext PROVE Step
    <2>1. CASE UNCHANGED table
        BY <2>1
    <2>2. CASE table' # table
        <3>1. PICK t \in Tasks : Run(t) /\ PutItem(t)
            BY <1>1, <2>2 DEF LogNext, UseForm, Download, Request, Run, Log, Refuse
        <3>2. PICK hashed \in Readings(usage[t].since), sent \in Readings(usage[t].since),
                   timestamp \in Instants :
                table' = Stored(Logmark(usage[t].source, hashed, timestamp),
                                [by |-> t, source |-> usage[t].source, item |-> sent])
            BY <3>1 DEF PutItem
        <3> DEFINE new == Logmark(usage[t].source, hashed, timestamp)
        <3>3. /\ DOMAIN table' = DOMAIN table \cup {new}
              /\ \A m \in DOMAIN table \ {new} : table'[m] = table[m]
            BY <3>2 DEF Stored
        <3> HIDE DEF new
        <3>4. ASSUME new \in DOMAIN table,
                     ~Changed(table[new].by), ~usage'[table'[new].by].changed
              PROVE  table'[new].item = table[new].item
            <4> DEFINE old == usage[table[new].by]
                       latest == usage'[table'[new].by]
            <4>1. RecordInv(new, table[new], old) /\ TaskInv(old, engineSpecs)
                BY <1>1, <3>4 DEF LogInv, TableInv, UsageInv, RecordInv, Record
            <4>2. RecordInv(new, table'[new], latest) /\ TaskInv(latest, engineSpecs')
                BY <1>1, <3>3 DEF LogInv, TableInv, UsageInv, RecordInv, Record
            <4>3. SameAsMark(new, table[new].item)
                BY <3>4, <4>1, UnchangedIsMark DEF Changed
            <4>4. SameAsMark(new, table'[new].item)
                BY <3>4, <4>2, UnchangedIsMark
            <4> QED
                BY <4>3, <4>4 DEF SameAsMark, Data, Fields
        <3> QED
            BY <3>3, <3>4
    <2> QED
        BY <2>1, <2>2
<1> QED
    BY <1>1, LogInvariant, PTL DEF LogSpec, ReplacedByEqual
===============================================================================
