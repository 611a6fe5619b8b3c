-------------------------------- MODULE FormPage -------------------------------
(***************************************************************************)
(* The web form as its user meets it: the page in the browser, PrimeFaces' *)
(* queue of AJAX requests, the requests on the way to the server, and the  *)
(* bean of ProjectForm that they reach.  The user goes on while a request  *)
(* is answered, requests get lost, and a download, which is a plain post   *)
(* of the form, drops the AJAX requests that the page still waits for.     *)
(*                                                                         *)
(* PrimeFaces.settings has no earlyPostParamEvaluation here, so the fields *)
(* are read when a request is sent and not when it is queued.              *)
(*                                                                         *)
(* The server handles a request in two steps, as JSF does in phases: one   *)
(* that decodes, validates and stores what was posted, and one that calls  *)
(* the listener and renders.  Requests of one view do not exclude each     *)
(* other.  An answer reaches the page at once.                             *)
(*                                                                         *)
(* A download that is refused, for a field that is missing or does not     *)
(* fit, leaves JSF components with values of their own that hide those of  *)
(* the bean.  How the page goes on from there is not followed, nor what    *)
(* comes of a field that was disabled in the page but is not any more.     *)
(***************************************************************************)
EXTENDS ProjectForm

CONSTANTS
    Jobs,       \* numbers of the requests that the server has at one time
    MaxQueue,   \* bound: how many AJAX requests the page queues
    MaxClicks,  \* bound: how often the user changes or clicks something
    Nothing     \* no value at all

\* A server is asked for its Java versions with any version when requests meet.
ASSUME PageAssumption ==
    /\ \A s \in Servers : \A v \in Versions : SupportedJava(s, v) # {}
    /\ MaxQueue \in Nat /\ MaxClicks \in Nat
    /\ Nothing \notin Versions \cup Servers \cup JavaVersions \cup {"Maven", "Gradle", Null}
    /\ \A boxes \in (SUBSET Specs) \cup (SUBSET Standalone) : boxes # Nothing

VARIABLES
    page,           \* page[f]: what the browser shows of field f
    requests,       \* PrimeFaces.ajax.Queue.requests: the sources of the events
    nonAjaxPosted,  \* PrimeFaces.nonAjaxPosted
    jobs,           \* jobs[j]: a request that has been sent, until the server is done
    clicks,         \* how often the user has used the page
    calm,           \* history: the user has always waited for the answer, and
                    \* always got one that the page shows
    intact          \* history: the server has got the requests one by one, no
                    \* answer was lost, and none was an error

client == <<page, requests, nonAjaxPosted, clicks>>
pageVars == <<vars, client, jobs, calm, intact>>

-----------------------------------------------------------------------------
(* The fields, as the bean has them and as they are rendered *)

Boxes == {"microprofileSpecs", "microprofileStandaloneSpecs"}
Fields == {"mpVersion", "javaSEVersion", "buildTool", "supportedServer"} \cup Boxes
Links == {"selectAll", "unselectAll"}
\* What has a p:ajax, or is a link: the Java version goes with the download only.
Sources == (Fields \ {"javaSEVersion"}) \cup Links

Bean ==
    [mpVersion |-> mpVersion, javaSEVersion |-> javaSEVersion, buildTool |-> buildTool,
     supportedServer |-> supportedServer, microprofileSpecs |-> selectedSpecs,
     microprofileStandaloneSpecs |-> selectedStandaloneSpecs]

Listed(items) == IF items = Null THEN {} ELSE items

\* The blank option of the server's menu is Null, as is that of the version's.
Items ==
    [mpVersion |-> VersionItems, javaSEVersion |-> Listed(javaSEItems),
     buildTool |-> {"Maven", "Gradle"}, supportedServer |-> supportedServerItems \cup {Null},
     microprofileSpecs |-> Listed(specs), microprofileStandaloneSpecs |-> Listed(standaloneSpecs)]

\* Not disabled; for the standalone specs: rendered.
Enabled ==
    [mpVersion |-> TRUE, javaSEVersion |-> javaSEEnabled,
     buildTool |-> supportedServer = Null \/ supportedServer \in GradleServers,
     supportedServer |-> TRUE, microprofileSpecs |-> mpVersion # Null,
     microprofileStandaloneSpecs |-> Listed(standaloneSpecs) # {}]

\* A menu whose value is not among its options shows the first one.
Displayed(f, value) ==
    LET items == Items[f] IN
    IF f \in Boxes THEN value \cap items
    ELSE IF value \in items THEN value
    ELSE IF items = {} \/ Null \in items THEN Null
    ELSE CHOOSE item \in items : TRUE

Shown(f, value) == [items |-> Items[f], enabled |-> Enabled[f], value |-> Displayed(f, value)]

View == [f \in Fields |-> Shown(f, Bean[f])]

\* Fault: the menu of Java versions is not in the answer.
OptionsOnly == [source \in Sources |-> {"buildTool", "supportedServer"} \cup Boxes]
\* The "update" of each p:ajax and link of index.xhtml
Options == {"buildTool", "supportedServer"} \cup Boxes
Update ==
    [source \in Sources |->
        CASE source = "mpVersion" -> Options \cup {"javaSEVersion"}
          [] source = "supportedServer" -> Fields
          [] source = "buildTool" -> Options
          [] source \in Boxes -> {}
          [] source \in Links -> Boxes]

-----------------------------------------------------------------------------
(* The browser: PrimeFaces.ajax *)

\* What a field contributes to a post.  A disabled one contributes nothing,
\* which for check boxes means that none is ticked.
Posted(shown, f) ==
    IF shown[f].enabled THEN shown[f].value ELSE IF f \in Boxes THEN {} ELSE Nothing

Request(source, posted, names) ==
    [source |-> source, posted |-> posted, names |-> names, stage |-> "sent",
     awaited |-> TRUE, outcome |-> "none", before |-> Nothing]
NoRequest ==
    [source |-> "none", posted |-> Nothing, names |-> FALSE, stage |-> "free",
     awaited |-> FALSE, outcome |-> "none", before |-> Nothing]

\* Request.send, of the field that the event is about (process="@this")
AjaxRequest(source, shown) ==
    Request(source, IF source \in Links THEN Nothing ELSE Posted(shown, source), TRUE)

Free(list) == {j \in Jobs : list[j].stage = "free"}
Sent(list, request) == [list EXCEPT ![CHOOSE j \in Free(list) : TRUE] = request]

\* Fault: the flag of the last download stays.
PostedFlagKept == UNCHANGED nonAjaxPosted
\* beforeSend
BeforeSend == nonAjaxPosted' = FALSE

\* Fault: every event is sent at once.
OfferUnqueued(source) ==
    /\ Free(jobs) # {}
    /\ requests' = Append(requests, source)
    /\ jobs' = Sent(jobs, AjaxRequest(source, page'))
    /\ BeforeSend
\* Queue.offer
Offer(source) ==
    /\ Len(requests) < MaxQueue
    /\ requests' = Append(requests, source)
    /\ \/ /\ requests = <<>> /\ Free(jobs) # {}
          /\ jobs' = Sent(jobs, AjaxRequest(source, page'))
          /\ BeforeSend
       \/ /\ requests # <<>>
          /\ UNCHANGED <<jobs, nonAjaxPosted>>

\* Queue.poll, with the jobs that are left
Poll(rest) ==
    /\ requests' = Tail(requests)
    /\ \/ /\ Tail(requests) = <<>>
          /\ jobs' = rest
          /\ UNCHANGED nonAjaxPosted
       \/ /\ Tail(requests) # <<>> /\ Free(rest) # {}
          /\ jobs' = Sent(rest, AjaxRequest(Head(Tail(requests)), page'))
          /\ BeforeSend

\* complete: called for a success, an error and an abort
Complete(rest) ==
    IF nonAjaxPosted THEN jobs' = rest /\ UNCHANGED <<requests, nonAjaxPosted>>
    ELSE Poll(rest)

Unawaited(list) == [j \in Jobs |-> [list[j] EXCEPT !.awaited = FALSE]]

\* The entries of Queue.xhrs
Xhrs == {j \in Jobs : jobs[j].source \in Sources /\ jobs[j].awaited}
Idle == requests = <<>> /\ \A j \in Jobs : jobs[j].stage = "free"
\* From here on the page is not followed.
Over == \E j \in Jobs : jobs[j].stage = "refused"
\* Requests that the server has at the same time
Overlap == \E i, j \in Jobs : i # j /\ "free" \notin {jobs[i].stage, jobs[j].stage}

-----------------------------------------------------------------------------
(* The user *)

Click == ~Over /\ clicks < MaxClicks /\ clicks' = clicks + 1

\* A change of a menu or the radio buttons, or a click on a box
Change ==
    /\ Click
    /\ \E f \in Fields \ {"javaSEVersion"} :
        /\ page[f].enabled
        /\ \E value \in IF f \in Boxes
                        THEN {page[f].value \cup {spec} : spec \in page[f].items}
                             \cup {page[f].value \ {spec} : spec \in page[f].items}
                        ELSE page[f].items :
            /\ value # page[f].value
            /\ page' = [page EXCEPT ![f].value = value]
        /\ Offer(f)
    /\ calm' = (calm /\ Idle)
    /\ intact' = (intact /\ ~Overlap')
    /\ UNCHANGED vars

ChangeJava ==
    /\ Click
    /\ page.javaSEVersion.enabled
    /\ \E value \in page.javaSEVersion.items \ {page.javaSEVersion.value} :
        page' = [page EXCEPT !.javaSEVersion.value = value]
    /\ UNCHANGED <<vars, requests, nonAjaxPosted, jobs, calm, intact>>

\* The links are rendered whenever the boxes are enabled.
ClickLink ==
    /\ Click
    /\ page.microprofileSpecs.enabled
    /\ UNCHANGED <<vars, page>>
    /\ \E link \in Links : Offer(link)
    /\ calm' = (calm /\ Idle)
    /\ intact' = (intact /\ ~Overlap')

\* The onclick of the button: PrimeFaces.onPost, with Queue.abortAll.  The request
\* that is aborted completes, but with nonAjaxPosted set it sends no other.
OnPost(form) ==
    /\ nonAjaxPosted' = TRUE
    /\ requests' = <<>>
    /\ jobs' = Sent(Unawaited(jobs), form)

\* names: group id, artifact id and beans.xml mode are as their validators want them.
Download ==
    /\ Click
    /\ Free(jobs) # {}
    /\ \E names \in BOOLEAN :
        /\ OnPost(Request("download", [f \in Fields |-> Posted(page, f)], names))
        /\ calm' = (calm /\ Idle)
    /\ intact' = (intact /\ ~Overlap')
    /\ UNCHANGED <<vars, page>>

\* An AJAX request gets no answer: the server has not seen it, or goes on with it.
Fail ==
    /\ ~Over
    /\ UNCHANGED <<vars, page, clicks>>
    /\ \E j \in Xhrs :
        \/ jobs[j].stage = "sent" /\ Complete([jobs EXCEPT ![j] = NoRequest])
        \/ Complete([jobs EXCEPT ![j].awaited = FALSE])
    /\ calm' = FALSE /\ intact' = FALSE

-----------------------------------------------------------------------------
(* The server *)

\* Fault: the server is not required.
ValidOption(f, value) == IF f \in Boxes THEN value \subseteq Items[f] ELSE value \in Items[f]
Valid(f, value) ==
    IF f \in Boxes THEN value \subseteq Items[f]
    ELSE value \in Items[f] /\ (f = "supportedServer" => value # Null)

Store(bean) ==
    /\ mpVersion' = bean.mpVersion
    /\ javaSEVersion' = bean.javaSEVersion
    /\ buildTool' = bean.buildTool
    /\ supportedServer' = bean.supportedServer
    /\ selectedSpecs' = bean.microprofileSpecs
    /\ selectedStandaloneSpecs' = bean.microprofileStandaloneSpecs
    /\ UNCHANGED <<microProfileVersion, supportedServerItems, javaSEEnabled, javaSEItems,
                   specs, standaloneSpecs, generated>>

Stage(j, stage, outcome) ==
    jobs' = [jobs EXCEPT ![j].stage = stage, ![j].outcome = outcome, ![j].before = Bean]

\* What a component takes part with: nothing if it is disabled, or is a link
\* that is not rendered.
Processed(source) == IF source \in Links THEN mpVersion # Null ELSE Enabled[source]

\* The phases up to "update model values" of an AJAX request
UpdateField(j) ==
    LET source == jobs[j].source
        posted == jobs[j].posted IN
    /\ source \in Sources
    /\ \/ /\ Processed(source) /\ (source \in Fields => Valid(source, posted))
          /\ Store(IF source \in Links THEN Bean ELSE [Bean EXCEPT ![source] = posted])
          /\ Stage(j, "updated", "accepted")
          /\ UNCHANGED intact
       \/ /\ ~Processed(source)
          /\ Store(Bean)
          /\ Stage(j, "updated", "skipped")
          /\ UNCHANGED intact
       \/ /\ source \in Fields /\ Processed(source) /\ ~Valid(source, posted)
          /\ Store(Bean)
          /\ Stage(j, IF posted = Nothing THEN "refused" ELSE "updated", "rejected")
          /\ intact' = FALSE

\* ... of a download
UpdateForm(j) ==
    LET posted == jobs[j].posted
        valid == jobs[j].names /\ \A f \in Fields : Processed(f) => Valid(f, posted[f]) IN
    /\ jobs[j].source = "download"
    /\ \/ /\ valid
          /\ Store([f \in Fields |-> IF Processed(f) THEN posted[f] ELSE Bean[f]])
          /\ Stage(j, "updated", "accepted")
       \/ /\ ~valid
          /\ Store(Bean)
          /\ Stage(j, "refused", "rejected")
    /\ UNCHANGED intact

UpdateModel(j) ==
    /\ ~Over
    /\ jobs[j].stage = "sent"
    /\ UpdateField(j) \/ UpdateForm(j)
    /\ UNCHANGED <<client, calm>>

\* onMPRuntimeSelected
RuntimeSelected ==
    \/ /\ mpVersion # Null
       /\ DefineStandaloneExampleSpecs(supportedServer, microProfileVersion)
       /\ DefineJavaSEVersion(supportedServer, mpVersion)
       /\ buildTool' = ToolFor(supportedServer)
       /\ UNCHANGED <<mpVersion, microProfileVersion, supportedServer, supportedServerItems,
                      examples>>
    \/ /\ mpVersion = Null
       /\ mpVersion' = Latest(supportedServer)
       /\ MPVersionSelected(Latest(supportedServer), supportedServer)
       /\ buildTool' = ToolFor(supportedServer')

\* The listener of a component, for a request that has been accepted
Listener(source) ==
    \/ /\ source = "mpVersion"
       /\ MPVersionSelected(mpVersion, supportedServer)
       /\ UNCHANGED <<mpVersion, buildTool>>
    \/ /\ source = "buildTool"
       /\ microProfileVersion' = mpVersion
       /\ supportedServerItems' = ServerItems(mpVersion, buildTool)
       /\ supportedServer' = ServerKept(ServerItems(mpVersion, buildTool), supportedServer)
       /\ UNCHANGED <<mpVersion, buildTool, java, examples, standalone>>
    \/ source = "supportedServer" /\ RuntimeSelected
    \/ /\ source = "selectAll"
       /\ selectedSpecs' = specs
       /\ selectedStandaloneSpecs' = standaloneSpecs
       /\ UNCHANGED <<choices, java, specs, standaloneSpecs>>
    \/ /\ source = "unselectAll"
       /\ selectedSpecs' = {}
       /\ selectedStandaloneSpecs' = {}
       /\ UNCHANGED <<choices, java, specs, standaloneSpecs>>
    \/ source \in Boxes /\ UNCHANGED <<choices, java, examples, standalone>>

\* When another request has changed the bean since this one has updated it: the
\* server has gone, or the specs have not been listed yet.
Throws(source) ==
    \/ source = "supportedServer" /\ mpVersion = Null /\ supportedServer = Null
    \/ source = "selectAll" /\ specs = Null

\* Response.handle: the fields in the answer replace those of the page.  One that
\* was not accepted still shows what was posted.  A link updates the standalone
\* specs only if they are on the page and rendered.
Rerender(job) ==
    page' = [f \in Fields |->
        IF \/ f \notin Update[job.source]
           \/ /\ job.source \in Links /\ f = "microprofileStandaloneSpecs"
              /\ ~(page[f].enabled /\ View'[f].enabled)
        THEN page[f]
        ELSE IF f = job.source /\ job.outcome = "rejected" /\ View'[f].enabled
        THEN [View'[f] EXCEPT !.value = job.posted]
        ELSE View'[f]]

\* The listener and the answer of an AJAX request
Respond(job) ==
    /\ \/ /\ job.outcome = "accepted" /\ ~Throws(job.source)
          /\ Listener(job.source)
          /\ generated' = Null
       \/ /\ job.outcome # "accepted"
          /\ UNCHANGED vars
    /\ IF job.awaited THEN Rerender(job) ELSE UNCHANGED page
    /\ UNCHANGED <<calm, intact>>

\* A version that is blank but not null: with a server, defineJavaSEVersion throws
\* at the end of onMPVersionSelected.
BlankVersion(source) ==
    /\ source = "mpVersion" /\ mpVersion = Null
    /\ Listener("mpVersion")
    /\ supportedServer' # Null

\* An exception is answered with an error, which the page does not show.  Whether
\* the blank option reaches the bean as null is up to JSF.
RespondWithError(job) ==
    /\ job.outcome = "accepted"
    /\ \/ /\ Throws(job.source)
          /\ UNCHANGED <<choices, java, examples, standalone>>
       \/ BlankVersion(job.source)
    /\ generated' = Null
    /\ calm' = FALSE /\ intact' = FALSE
    /\ UNCHANGED page

Answer(j) ==
    /\ jobs[j].source \in Sources
    /\ Respond(jobs[j]) \/ RespondWithError(jobs[j])
    /\ \/ jobs[j].awaited /\ Complete([jobs EXCEPT ![j] = NoRequest])
       \/ /\ ~jobs[j].awaited
          /\ jobs' = [jobs EXCEPT ![j] = NoRequest]
          /\ UNCHANGED <<requests, nonAjaxPosted>>

\* generateProject, and the archive as an attachment that leaves the page as it
\* is.  Without a version or server, the page is rendered again with an error.
Generate(j) ==
    LET fails == Null \in {mpVersion, supportedServer} IN
    /\ jobs[j].source = "download"
    /\ generated' =
        IF fails THEN Null
        ELSE [server |-> supportedServer, version |-> mpVersion, java |-> javaSEVersion,
              tool |-> buildTool, specs |-> selectedSpecs, standalone |-> selectedStandaloneSpecs]
    /\ \/ /\ fails /\ jobs[j].awaited
          /\ page' = View
          /\ requests' = <<>> /\ nonAjaxPosted' = FALSE
          /\ jobs' = [Unawaited(jobs) EXCEPT ![j] = NoRequest]
       \/ /\ ~(fails /\ jobs[j].awaited)
          /\ jobs' = [jobs EXCEPT ![j] = NoRequest]
          /\ UNCHANGED <<page, requests, nonAjaxPosted>>
    /\ UNCHANGED <<choices, java, examples, standalone, calm, intact>>

Finish(j) ==
    /\ ~Over
    /\ jobs[j].stage = "updated"
    /\ Answer(j) \/ Generate(j)
    /\ UNCHANGED clicks

-----------------------------------------------------------------------------
(* The page *)

PageInit ==
    /\ Init
    /\ page = View
    /\ requests = <<>>
    /\ nonAjaxPosted = FALSE
    /\ jobs = [j \in Jobs |-> NoRequest]
    /\ clicks = 0
    /\ calm = TRUE /\ intact = TRUE

PageNext ==
    \/ Change \/ ChangeJava \/ ClickLink \/ Download \/ Fail
    \/ \E j \in Jobs : UpdateModel(j) \/ Finish(j)

\* The server gets on with every request that it has.
PageSpec ==
    /\ PageInit /\ [][PageNext]_pageVars
    /\ \A j \in Jobs : WF_pageVars(UpdateModel(j)) /\ WF_pageVars(Finish(j))

-----------------------------------------------------------------------------
(* Properties *)

\* PrimeFaces sends the AJAX requests one after the other, in the order of the
\* events: the page waits for the one at the head of the queue and for no other,
\* however answers, losses and downloads come in between, and a download that has
\* stopped the queue does not keep it stopped.
OneAtATime ==
    /\ \A i, j \in Xhrs : i = j
    /\ requests = <<>> <=> Xhrs = {}
    /\ \A j \in Xhrs : jobs[j].source = Head(requests)
    /\ Xhrs # {} => ~nonAjaxPosted

\* Whatever the user does and whichever requests are lost, the page comes to rest
\* and no event stays in the queue for ever.
PageAnswers == []<>(Idle \/ Over)

\* The bean as it was before the request that is being handled
Before ==
    LET handled == {j \in Jobs : jobs[j].stage = "updated"} IN
    IF handled = {} THEN Bean ELSE jobs[CHOOSE j \in handled : TRUE].before

Form ==
    INSTANCE ProjectForm WITH
        mpVersion <- Before.mpVersion, javaSEVersion <- Before.javaSEVersion,
        buildTool <- Before.buildTool, supportedServer <- Before.supportedServer,
        selectedSpecs <- Before.microprofileSpecs,
        selectedStandaloneSpecs <- Before.microprofileStandaloneSpecs

\* As long as the user waits for each answer and none is lost or an error, the
\* page, the queue, the phases of JSF and its validations together do what
\* ProjectForm says, one choice at a time.
ImplementsForm == Form!Init /\ [][calm' => Form!Next \/ UNCHANGED Form!vars]_pageVars

\* An answer updates enough of the page: when all are there, the page shows what
\* the bean has, even for a user who has not waited for them, and what that user
\* gets fits together as well.  Only the Java version, which is posted with the
\* download, may differ.  After an error, as that of a blank version may be, the
\* page is behind the bean, and nothing is said.
InStep ==
    intact =>
        /\ Idle => \A f \in Fields :
            /\ page[f].items = View[f].items /\ page[f].enabled = View[f].enabled
            /\ f # "javaSEVersion" => page[f].value = View[f].value
        /\ GeneratedFits

\* A generated project has no spec that its version does not have: as the comment
\* in defineExampleSpecs puts it, a spec that is "not listed anymore in the MP
\* version [...] has to go".
ListedSpecsOnly == generated # Null => generated.specs \subseteq SpecsIn(generated.version)
===============================================================================
