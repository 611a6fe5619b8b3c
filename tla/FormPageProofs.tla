----------------------------- MODULE FormPageProofs ----------------------------
(***************************************************************************)
(* For any number of requests, of events and of clicks, and for every      *)
(* content of the tables:                                                  *)
(*                                                                         *)
(*  - the page waits for the request at the head of its queue and for no   *)
(*    other (QueueCorrect).  That needs no more than the queue itself: a   *)
(*    request is sent only when none is awaited, because the queue was     *)
(*    empty or the one at its head has just been completed or given up,    *)
(*    and a download empties the queue and gives up the one that was       *)
(*    awaited in the same step;                                            *)
(*                                                                         *)
(*  - while the server gets the requests one by one and none is lost, the  *)
(*    page is in step with the bean (InStepCorrect);                       *)
(*                                                                         *)
(*  - while the user waits for each answer, the page does what ProjectForm *)
(*    says (FormImplemented).                                              *)
(*                                                                         *)
(* The last two need to know, at every moment between a click and its      *)
(* answer, what of the page and of the bean still agrees.  The page agrees *)
(* with the bean but for the fields whose events wait (InView).  A request *)
(* on its way has what the page shows.  Between the two halves of a        *)
(* request, the bean has the new value but not yet what follows from it:   *)
(* then those menus hold that its listener does not compute (MenusKept),   *)
(* and those fields are in view that its answer does not replace.          *)
(***************************************************************************)
EXTENDS FormPage, ProjectFormProofs, TLAPS

\* A request has these fields, whatever their values.
IsRequest(job) ==
    job = [source |-> job.source, posted |-> job.posted, names |-> job.names,
           stage |-> job.stage, awaited |-> job.awaited, outcome |-> job.outcome,
           before |-> job.before]
AreRequests(list) ==
    /\ list = [j \in Jobs |-> list[j]]
    /\ \A j \in Jobs : IsRequest(list[j])

\* The AJAX requests of a list that are awaited
AwaitedIn(list) == {j \in Jobs : list[j].source \in Sources /\ list[j].awaited}

QueueInv ==
    /\ AreRequests(jobs)
    /\ requests \in Seq(Sources)
    /\ OneAtATime

-----------------------------------------------------------------------------
(* Lists of requests *)

LEMMA RequestsBuilt ==
    /\ \A source, posted, names : IsRequest(Request(source, posted, names))
    /\ \A source, shown : IsRequest(AjaxRequest(source, shown))
    /\ IsRequest(NoRequest)
BY DEF IsRequest, Request, AjaxRequest, NoRequest

RequestFields == {"source", "posted", "names", "stage", "awaited", "outcome", "before"}

\* A request that the server has got on with, and one that the page has given up
Handled(job, stage, outcome, before) ==
    [job EXCEPT !.stage = stage, !.outcome = outcome, !.before = before]
GivenUp(job) == [job EXCEPT !.awaited = FALSE]

LEMMA RequestHandled ==
    ASSUME NEW job, IsRequest(job), NEW stage, NEW outcome, NEW before
    PROVE  LET handled == Handled(job, stage, outcome, before) IN
           /\ IsRequest(handled) /\ handled.stage = stage
           /\ handled.outcome = outcome /\ handled.before = before
           /\ handled.source = job.source /\ handled.awaited = job.awaited
           /\ handled.posted = job.posted /\ handled.names = job.names
<1> DEFINE handled == Handled(job, stage, outcome, before)
<1>1. DOMAIN job = RequestFields
    BY DEF IsRequest, RequestFields
<1>2. handled =
        [f \in RequestFields |->
            IF f = "before" THEN before ELSE IF f = "outcome" THEN outcome
            ELSE IF f = "stage" THEN stage ELSE job[f]]
    BY <1>1 DEF Handled
<1>3. handled = [source |-> job.source, posted |-> job.posted, names |-> job.names,
                 stage |-> stage, awaited |-> job.awaited, outcome |-> outcome,
                 before |-> before]
    BY <1>2 DEF RequestFields
<1> HIDE DEF handled
<1>4. /\ IsRequest(handled) /\ handled.stage = stage
      /\ handled.outcome = outcome /\ handled.before = before
      /\ handled.source = job.source /\ handled.awaited = job.awaited
      /\ handled.posted = job.posted /\ handled.names = job.names
    BY <1>3 DEF IsRequest
<1> QED
    BY <1>4 DEF handled

LEMMA RequestGivenUp ==
    ASSUME NEW job, IsRequest(job)
    PROVE  /\ IsRequest(GivenUp(job)) /\ ~GivenUp(job).awaited
           /\ GivenUp(job).source = job.source /\ GivenUp(job).stage = job.stage
           /\ GivenUp(job).posted = job.posted /\ GivenUp(job).names = job.names
           /\ GivenUp(job).outcome = job.outcome /\ GivenUp(job).before = job.before
<1> DEFINE no == FALSE
           givenUp == GivenUp(job)
<1>1. DOMAIN job = RequestFields
    BY DEF IsRequest, RequestFields
<1>2. givenUp = [job EXCEPT !.awaited = no]
    BY DEF GivenUp
<1>3. ~no
    OBVIOUS
<1> HIDE DEF no, givenUp
<1>4. givenUp = [f \in RequestFields |-> IF f = "awaited" THEN no ELSE job[f]]
    BY <1>1, <1>2
<1>5. givenUp = [source |-> job.source, posted |-> job.posted, names |-> job.names,
                 stage |-> job.stage, awaited |-> no, outcome |-> job.outcome,
                 before |-> job.before]
    BY <1>4 DEF RequestFields
<1>6. /\ IsRequest(givenUp) /\ givenUp.awaited = no
      /\ givenUp.source = job.source /\ givenUp.stage = job.stage
      /\ givenUp.posted = job.posted /\ givenUp.names = job.names
      /\ givenUp.outcome = job.outcome /\ givenUp.before = job.before
    BY <1>5 DEF IsRequest
<1> QED
    BY <1>3, <1>6 DEF givenUp

\* Nothing is awaited once everything has been given up.
LEMMA UnawaitedList ==
    ASSUME NEW list, AreRequests(list)
    PROVE  AreRequests(Unawaited(list)) /\ AwaitedIn(Unawaited(list)) = {}
<1>1. ASSUME NEW j \in Jobs
      PROVE  IsRequest(Unawaited(list)[j]) /\ ~Unawaited(list)[j].awaited
    <2>1. Unawaited(list)[j] = GivenUp(list[j]) /\ IsRequest(list[j])
        BY DEF AreRequests, Unawaited, GivenUp
    <2> QED
        BY <2>1, RequestGivenUp
<1> QED
    BY <1>1 DEF AreRequests, Unawaited, AwaitedIn

\* A request that is sent takes a free place, and no one else's.
LEMMA SentList ==
    ASSUME NEW list, AreRequests(list), Free(list) # {}, AwaitedIn(list) = {},
           NEW request, IsRequest(request)
    PROVE  /\ AreRequests(Sent(list, request))
           /\ \A i, j \in AwaitedIn(Sent(list, request)) : i = j
           /\ \A j \in AwaitedIn(Sent(list, request)) :
                    Sent(list, request)[j] = request
           /\ request.source \in Sources /\ request.awaited =>
                    AwaitedIn(Sent(list, request)) # {}
           /\ request.source \notin Sources => AwaitedIn(Sent(list, request)) = {}
<1> DEFINE place == CHOOSE j \in Free(list) : TRUE
<1>1. place \in Free(list) /\ place \in Jobs
    BY DEF Free
<1>2. Sent(list, request) = [list EXCEPT ![place] = request]
    BY DEF Sent
<1> HIDE DEF place
<1>3. /\ Sent(list, request)[place] = request
      /\ \A j \in Jobs \ {place} : Sent(list, request)[j] = list[j]
    BY <1>1, <1>2 DEF AreRequests
<1>4. AreRequests(Sent(list, request))
    BY <1>1, <1>2, <1>3 DEF AreRequests
<1> QED
    BY <1>1, <1>3, <1>4 DEF AwaitedIn

\* When the request that the page waits for is done with or given up, none is
\* awaited.
LEMMA RestList ==
    ASSUME QueueInv, NEW j \in Xhrs
    PROVE  LET removed == [jobs EXCEPT ![j] = NoRequest]
               givenUp == [jobs EXCEPT ![j].awaited = FALSE] IN
           /\ AreRequests(removed) /\ AwaitedIn(removed) = {}
           /\ AreRequests(givenUp) /\ AwaitedIn(givenUp) = {}
<1> DEFINE removed == [jobs EXCEPT ![j] = NoRequest]
           givenUp == [jobs EXCEPT ![j].awaited = FALSE]
<1>1. j \in Jobs /\ Xhrs = {j}
    BY DEF QueueInv, OneAtATime, Xhrs
<1>2. AreRequests(removed) /\ AwaitedIn(removed) = {}
    BY <1>1, RequestsBuilt DEF QueueInv, AreRequests, AwaitedIn, Xhrs, NoRequest
<1>3. givenUp = [jobs EXCEPT ![j] = GivenUp(jobs[j])]
    BY <1>1 DEF QueueInv, AreRequests, GivenUp
<1>4. IsRequest(GivenUp(jobs[j])) /\ ~GivenUp(jobs[j]).awaited
    BY <1>1, RequestGivenUp DEF QueueInv, AreRequests
<1>5. AreRequests(givenUp) /\ AwaitedIn(givenUp) = {}
    BY <1>1, <1>3, <1>4 DEF QueueInv, AreRequests, AwaitedIn, Xhrs
<1> QED
    BY <1>2, <1>5

-----------------------------------------------------------------------------
(* The steps of the queue *)

LEMMA EmptyQueue ==
    ASSUME AreRequests(jobs'), AwaitedIn(jobs') = {}, requests' = <<>>
    PROVE  QueueInv'
BY DEF QueueInv, OneAtATime, Xhrs, AwaitedIn

LEMMA OfferStep ==
    ASSUME QueueInv, NEW source \in Sources, Offer(source)
    PROVE  QueueInv'
<1>1. requests' \in Seq(Sources) /\ requests' # <<>>
    BY DEF QueueInv, Offer
<1>2. CASE requests = <<>>
    <2>1. jobs' = Sent(jobs, AjaxRequest(source, page')) /\ Free(jobs) # {} /\ ~nonAjaxPosted'
        BY <1>2 DEF Offer, BeforeSend
    <2>2. AwaitedIn(jobs) = {} /\ AreRequests(jobs)
        BY <1>2 DEF QueueInv, OneAtATime, Xhrs, AwaitedIn
    <2>3. Head(requests') = source
        BY <1>2 DEF Offer
    <2>4. LET request == AjaxRequest(source, page') IN
          IsRequest(request) /\ request.source = source /\ request.awaited
        BY RequestsBuilt DEF AjaxRequest, Request
    <2> QED
        BY <1>1, <2>1, <2>2, <2>3, <2>4, SentList DEF QueueInv, OneAtATime, Xhrs, AwaitedIn
<1>3. CASE requests # <<>>
    <2>1. jobs' = jobs /\ nonAjaxPosted' = nonAjaxPosted
        BY <1>3 DEF Offer
    <2>2. Head(requests') = Head(requests)
        BY <1>3 DEF Offer, QueueInv
    <2> QED
        BY <1>1, <1>3, <2>1, <2>2 DEF QueueInv, OneAtATime, Xhrs
<1> QED
    BY <1>2, <1>3

LEMMA CompleteStep ==
    ASSUME QueueInv, Xhrs # {},
           NEW rest, AreRequests(rest), AwaitedIn(rest) = {}, Complete(rest)
    PROVE  QueueInv'
<1>1. ~nonAjaxPosted /\ requests # <<>> /\ requests \in Seq(Sources)
    BY DEF QueueInv, OneAtATime
<1>2. Poll(rest)
    BY <1>1 DEF Complete
<1>3. requests' = Tail(requests) /\ requests' \in Seq(Sources)
    BY <1>1, <1>2 DEF Poll
<1>4. CASE Tail(requests) = <<>>
    <2>1. jobs' = rest
        BY <1>2, <1>4 DEF Poll
    <2> QED
        BY <1>3, <1>4, <2>1, EmptyQueue
<1>5. CASE Tail(requests) # <<>>
    <2> DEFINE request == AjaxRequest(Head(Tail(requests)), page')
    <2>1. jobs' = Sent(rest, request) /\ Free(rest) # {} /\ ~nonAjaxPosted'
        BY <1>2, <1>5 DEF Poll, BeforeSend
    <2>2. Head(Tail(requests)) \in Sources
        BY <1>1, <1>3, <1>5
    <2>3. IsRequest(request) /\ request.source = Head(Tail(requests)) /\ request.awaited
        BY RequestsBuilt DEF AjaxRequest, Request
    <2> HIDE DEF request
    <2> QED
        BY <1>3, <1>5, <2>1, <2>2, <2>3, SentList DEF QueueInv, OneAtATime, Xhrs, AwaitedIn
<1> QED
    BY <1>4, <1>5

\* What the server does to a request that is not awaited, or that stays.
LEMMA SameAwaited ==
    ASSUME QueueInv, AreRequests(jobs'), UNCHANGED <<requests, nonAjaxPosted>>,
           Xhrs' = Xhrs, \A j \in Xhrs : jobs'[j].source = jobs[j].source
    PROVE  QueueInv'
BY DEF QueueInv, OneAtATime

LEMMA StageStep ==
    ASSUME QueueInv, NEW j \in Jobs, NEW stage, NEW outcome, Stage(j, stage, outcome),
           UNCHANGED <<requests, nonAjaxPosted>>
    PROVE  QueueInv'
<1> DEFINE next == Handled(jobs[j], stage, outcome, Bean)
<1>1. jobs' = [jobs EXCEPT ![j] = next]
    BY DEF Stage, QueueInv, AreRequests, Handled
<1>2. IsRequest(next) /\ next.source = jobs[j].source /\ next.awaited = jobs[j].awaited
    <2>1. IsRequest(jobs[j])
        BY DEF QueueInv, AreRequests
    <2> QED
        BY <2>1, RequestHandled
<1> HIDE DEF next
<1>3. AreRequests(jobs')
    BY <1>1, <1>2 DEF QueueInv, AreRequests
<1>4. Xhrs' = Xhrs /\ \A i \in Jobs : jobs'[i].source = jobs[i].source
    BY <1>1, <1>2 DEF QueueInv, AreRequests, Xhrs
<1> QED
    BY <1>3, <1>4, SameAwaited DEF Xhrs

LEMMA FreedStep ==
    ASSUME QueueInv, NEW j \in Jobs \ Xhrs, jobs' = [jobs EXCEPT ![j] = NoRequest],
           UNCHANGED <<requests, nonAjaxPosted>>
    PROVE  QueueInv'
<1>1. AreRequests(jobs')
    BY RequestsBuilt DEF QueueInv, AreRequests
<1>2. Xhrs' = Xhrs /\ \A i \in Xhrs : jobs'[i] = jobs[i]
    BY DEF QueueInv, AreRequests, Xhrs, NoRequest
<1> QED
    BY <1>1, <1>2, SameAwaited

-----------------------------------------------------------------------------

LEMMA QueueInit == PageInit => QueueInv
<1> SUFFICES ASSUME PageInit PROVE QueueInv
    OBVIOUS
<1>1. requests = <<>> /\ \A j \in Jobs : jobs[j] = NoRequest
    BY DEF PageInit
<1>2. AreRequests(jobs)
    BY <1>1, RequestsBuilt DEF PageInit, AreRequests
<1>3. Xhrs = {}
    BY <1>1 DEF Xhrs, NoRequest
<1> QED
    BY <1>1, <1>2, <1>3 DEF QueueInv, OneAtATime

LEMMA QueueNext == QueueInv /\ [PageNext]_pageVars => QueueInv'
<1> SUFFICES ASSUME QueueInv, [PageNext]_pageVars PROVE QueueInv'
    OBVIOUS
<1>1. CASE Change
    BY <1>1, OfferStep DEF Change, Sources
<1>2. CASE ChangeJava
    BY <1>2, SameAwaited DEF ChangeJava, Xhrs, QueueInv
<1>3. CASE ClickLink
    BY <1>3, OfferStep DEF ClickLink, Sources
<1>4. CASE Download
    <2> DEFINE form(names) == Request("download", [f \in Fields |-> Posted(page, f)], names)
    <2>1. PICK names \in BOOLEAN : OnPost(form(names))
        BY <1>4 DEF Download
    <2>2. IsRequest(form(names)) /\ form(names).source = "download"
        BY RequestsBuilt DEF Request
    <2> HIDE DEF form
    <2>3. requests' = <<>> /\ jobs' = Sent(Unawaited(jobs), form(names))
        BY <2>1 DEF OnPost
    <2>4. "download" \notin Sources
        BY DEF Sources, Fields, Links, Boxes
    <2>5. Free(Unawaited(jobs)) = Free(jobs) /\ Free(jobs) # {}
        <3>1. \A j \in Jobs : Unawaited(jobs)[j] = GivenUp(jobs[j]) /\ IsRequest(jobs[j])
            BY DEF QueueInv, AreRequests, Unawaited, GivenUp
        <3>2. \A j \in Jobs : Unawaited(jobs)[j].stage = jobs[j].stage
            BY <3>1, RequestGivenUp
        <3> QED
            BY <1>4, <3>2 DEF Download, Free
    <2>6. AreRequests(Unawaited(jobs)) /\ AwaitedIn(Unawaited(jobs)) = {}
        BY UnawaitedList DEF QueueInv
    <2> QED
        BY <2>2, <2>3, <2>4, <2>5, <2>6, SentList, EmptyQueue
<1>5. CASE Fail
    <2>1. PICK j \in Xhrs : \/ Complete([jobs EXCEPT ![j] = NoRequest])
                            \/ Complete([jobs EXCEPT ![j].awaited = FALSE])
        BY <1>5 DEF Fail
    <2> QED
        BY <2>1, RestList, CompleteStep
<1>6. ASSUME NEW j \in Jobs, UpdateModel(j) PROVE QueueInv'
    <2>1. UNCHANGED <<requests, nonAjaxPosted>> /\ \E stage, outcome : Stage(j, stage, outcome)
        BY <1>6 DEF UpdateModel, UpdateField, UpdateForm, client
    <2> QED
        BY <2>1, StageStep
<1>7. ASSUME NEW j \in Jobs, Finish(j) PROVE QueueInv'
    <2>1. CASE Answer(j)
        <3>1. CASE jobs[j].awaited
            <4>1. j \in Xhrs /\ Complete([jobs EXCEPT ![j] = NoRequest])
                BY <2>1, <3>1 DEF Answer, Xhrs
            <4> QED
                BY <4>1, RestList, CompleteStep
        <3>2. CASE ~jobs[j].awaited
            BY <2>1, <3>2, FreedStep DEF Answer, Xhrs
        <3> QED
            BY <3>1, <3>2
    <2>2. CASE Generate(j)
        <3>1. j \in Jobs \ Xhrs
            BY <2>2 DEF Generate, Xhrs, Sources, Fields, Links, Boxes
        <3>2. CASE /\ requests' = <<>>
                   /\ jobs' = [Unawaited(jobs) EXCEPT ![j] = NoRequest]
            <4>1. AreRequests(Unawaited(jobs)) /\ AwaitedIn(Unawaited(jobs)) = {}
                BY UnawaitedList DEF QueueInv
            <4>2. AreRequests(jobs') /\ AwaitedIn(jobs') = {}
                BY <3>2, <4>1, RequestsBuilt DEF AreRequests, AwaitedIn, NoRequest
            <4> QED
                BY <3>2, <4>2, EmptyQueue
        <3>3. CASE /\ jobs' = [jobs EXCEPT ![j] = NoRequest]
                   /\ UNCHANGED <<requests, nonAjaxPosted>>
            BY <3>1, <3>3, FreedStep
        <3> QED
            BY <2>2, <3>2, <3>3 DEF Generate
    <2> QED
        BY <1>7, <2>1, <2>2 DEF Finish
<1>8. CASE UNCHANGED pageVars
    BY <1>8, SameAwaited DEF pageVars, client, Xhrs, QueueInv
<1> QED
    BY <1>1, <1>2, <1>3, <1>4, <1>5, <1>6, <1>7, <1>8 DEF PageNext

\* Whatever the user does, whichever requests are lost and in whatever order the
\* server handles them, the page waits for at most one AJAX request, the one at
\* the head of its queue, and is never stopped by the flag of an earlier download.
THEOREM QueueCorrect == PageSpec => []OneAtATime
<1>1. QueueInv => OneAtATime
    BY DEF QueueInv
<1> QED
    BY <1>1, QueueInit, QueueNext, PTL DEF PageSpec
-----------------------------------------------------------------------------
(* Order: what holds as long as the requests reach the server one by one.   *)

Active(j) == jobs[j].stage # "free"

\* A place is free or has a request of the page.
PlacesInv ==
    \A j \in Jobs :
        /\ jobs[j].stage \in {"free", "sent", "updated", "refused"}
        /\ Active(j) => jobs[j].source \in Sources \cup {"download"}
        /\ ~Active(j) => jobs[j].source = "none"

\* The browser shows these of every field.
IsShown(field) == field = [items |-> field.items, enabled |-> field.enabled, value |-> field.value]
ShownInv == page = [f \in Fields |-> page[f]] /\ \A f \in Fields : IsShown(page[f])

\* The events that wait for an answer, and those behind the one at the head
Waiting == {requests[i] : i \in DOMAIN requests}
Later == {requests[i] : i \in DOMAIN requests \ {1}}

\* Menus and boxes have options of theirs ticked.
OptionShown(f) ==
    IF f \in Boxes THEN page[f].value \subseteq page[f].items
    ELSE page[f].value \in page[f].items

\* A field offers what the bean does, and has its value unless it has an event that
\* waits, or is the server and has been refused because it was blank.
InView(f, waiting) ==
    /\ page[f].items = Items[f] /\ page[f].enabled = Enabled[f]
    /\ f # "javaSEVersion" =>
        /\ OptionShown(f)
        /\ \/ page[f].value = Bean[f]
           \/ page[f].enabled /\ f \in waiting
           \/ ~intact /\ f = "supportedServer" /\ page[f].value = Null

PageInv(fields, waiting) == \A f \in fields : InView(f, waiting)

\* One click on a box, seen from what was ticked before
OneBox(f, posted, ticked) ==
    \E spec \in Items[f] : posted \in {ticked \cup {spec}, ticked \ {spec}}

\* A field that has been sent with an option of its own
PostedOption(f, posted) == IF f \in Boxes THEN posted \subseteq Items[f] ELSE posted \in Items[f]

\* A request on its way has the fields as the page has them.
FieldSent(f, posted) ==
    Enabled[f] =>
        /\ PostedOption(f, posted)
        /\ page[f].value = posted \/ f \in Later
        /\ calm /\ f \in Boxes => OneBox(f, posted, Bean[f])
FormSent(posted) ==
    \A f \in Fields \ {"javaSEVersion"} :
        Enabled[f] => posted[f] = Bean[f] \/ (f = "supportedServer" /\ posted[f] = Null)
SentInv(job) ==
    /\ FormInv /\ PageInv(Fields, Waiting)
    /\ job.source \in Fields => FieldSent(job.source, job.posted)
    /\ job.source = "download" => FormSent(job.posted)

\* The fields that the answer replaces whatever the page has
Replaced(source) == IF source \in Fields THEN Update[source] ELSE {}

\* What of the bean fits together between the two halves of a request: the menus
\* that its listener does not compute anew.
MenusKept(f) ==
    /\ f = "buildTool" => SpecsInv /\ StandaloneInv /\ JavaInv
    /\ f = "supportedServer" =>
        /\ MenuInv /\ SpecsInv
        /\ mpVersion # Null => standaloneSpecs # Null
        /\ standaloneSpecs = Null => selectedStandaloneSpecs = {}
        /\ standaloneSpecs # Null => selectedStandaloneSpecs \subseteq standaloneSpecs
        /\ javaSEEnabled => javaSEItems # Null
    /\ f \in Boxes => FormInv
SameBean(before, fields) == \A f \in fields : before[f] = Bean[f]

FieldStored(f, before) ==
    /\ Enabled[f] /\ Valid(f, Bean[f])
    /\ MenusKept(f)
    /\ SameBean(before, Fields \ {f})
    /\ calm /\ f \in Boxes => OneBox(f, Bean[f], before[f])
FormStored(before) ==
    /\ FormInv /\ SameBean(before, Fields \ {"javaSEVersion"})
    /\ supportedServer # Null
    /\ javaSEEnabled => javaSEVersion \in javaSEItems
    /\ ~javaSEEnabled => before.javaSEVersion = javaSEVersion
NothingStored(job) ==
    /\ FormInv /\ SameBean(job.before, Fields)
    /\ job.outcome = "rejected" =>
        job.source = "supportedServer" /\ job.posted = Null /\ ~intact
UpdatedInv(job) ==
    /\ TypeOK /\ PageInv(Fields \ Replaced(job.source), Later)
    /\ job.outcome \in {"accepted", "skipped", "rejected"}
    /\ job.outcome # "accepted" => job.source \in Sources /\ NothingStored(job)
    /\ job.outcome = "accepted" =>
        /\ job.source \in Fields => FieldStored(job.source, job.before)
        /\ job.source \in Links => mpVersion # Null /\ NothingStored(job)
        /\ job.source = "download" => FormStored(job.before)

\* The user gets each answer before going on, or at least the server has one request
\* at a time.
Orderly == calm \/ intact
OneRequest ==
    /\ \A i, j \in Jobs : Active(i) /\ Active(j) => i = j
    /\ \A j \in Jobs : Active(j) => jobs[j].awaited
    /\ calm => Len(requests) <= 1
OrderInv ==
    Orderly =>
        /\ GeneratedFits
        /\ mpVersion \in VersionItems
        /\ OneRequest
        /\ (\A j \in Jobs : ~Active(j)) => FormInv /\ PageInv(Fields, {})
        /\ \A j \in Jobs :
            /\ jobs[j].stage = "sent" => SentInv(jobs[j])
            /\ jobs[j].stage = "updated" => UpdatedInv(jobs[j])
PageIInv == QueueInv /\ PlacesInv /\ ShownInv /\ OrderInv

-----------------------------------------------------------------------------
(* The fields, and what the page shows of the bean *)

LEMMA Names ==
    /\ Fields = {"mpVersion", "javaSEVersion", "buildTool", "supportedServer",
                 "microprofileSpecs", "microprofileStandaloneSpecs"}
    /\ Sources = {"mpVersion", "buildTool", "supportedServer", "microprofileSpecs",
                  "microprofileStandaloneSpecs", "selectAll", "unselectAll"}
    /\ Links = {"selectAll", "unselectAll"}
    /\ Boxes = {"microprofileSpecs", "microprofileStandaloneSpecs"}
    /\ Links \cap Fields = {} /\ Sources = (Fields \ {"javaSEVersion"}) \cup Links
    /\ {"none", "download"} \cap Sources = {} /\ "download" \notin Fields
BY DEF Fields, Sources, Links, Boxes

\* The selections are among the options, so that the page shows the bean's values.
AsBean(f) ==
    /\ View[f].items = Items[f] /\ View[f].enabled = Enabled[f]
    /\ IsShown(View[f])
    /\ f # "javaSEVersion" =>
        /\ View[f].value = Bean[f]
        /\ IF f \in Boxes THEN Bean[f] \subseteq Items[f] ELSE Bean[f] \in Items[f]

LEMMA BeanShown == FormInv /\ mpVersion \in VersionItems => \A f \in Fields : AsBean(f)
<1> SUFFICES ASSUME FormInv, mpVersion \in VersionItems, NEW f \in Fields PROVE AsBean(f)
    OBVIOUS
<1>1. View[f] = [items |-> Items[f], enabled |-> Enabled[f], value |-> Displayed(f, Bean[f])]
    BY DEF View, Shown
<1>2. ASSUME f # "javaSEVersion"
      PROVE  IF f \in Boxes THEN Bean[f] \subseteq Items[f] ELSE Bean[f] \in Items[f]
    <2>1. CASE f = "mpVersion"
        BY <2>1 DEF Bean, Items, Boxes
    <2>2. CASE f = "buildTool"
        BY <2>2 DEF Bean, Items, Boxes, FormInv, TypeOK
    <2>3. CASE f = "supportedServer"
        BY <2>3 DEF Bean, Items, Boxes, FormInv, MenuInv
    <2>4. CASE f = "microprofileSpecs"
        <3>1. mpVersion # Null => specs = SpecItems(mpVersion) /\ specs # Null
            BY TablesTyped, MenusAssumption DEF FormInv, SpecsInv, TypeOK
        <3>2. mpVersion = Null => selectedSpecs = {}
            BY DEF FormInv, SpecsInv, SpecItems
        <3>3. selectedSpecs \subseteq Listed(specs)
            BY <3>1, <3>2 DEF FormInv, SpecsInv, Listed
        <3> QED
            BY <2>4, <3>3 DEF Bean, Items, Boxes
    <2>5. CASE f = "microprofileStandaloneSpecs"
        <3>1. selectedStandaloneSpecs \subseteq Listed(standaloneSpecs)
            BY DEF FormInv, StandaloneInv, Listed
        <3> QED
            BY <2>5, <3>1 DEF Bean, Items, Boxes
    <2> QED
        BY <1>2, <2>1, <2>2, <2>3, <2>4, <2>5, Names
<1>3. ASSUME f # "javaSEVersion" PROVE Displayed(f, Bean[f]) = Bean[f]
    BY <1>2, <1>3 DEF Displayed
<1> QED
    BY <1>1, <1>2, <1>3 DEF IsShown, AsBean

LEMMA BeanShownNext == (FormInv /\ mpVersion \in VersionItems => \A f \in Fields : AsBean(f))'
<1> QED
    BY BeanShown, PTL

\* A field that has been rendered anew is in view.
LEMMA Rendered ==
    ASSUME FormInv', (mpVersion \in VersionItems)', NEW f \in Fields, NEW waiting,
           page'[f] = View'[f]
    PROVE  InView(f, waiting)'
BY BeanShownNext DEF InView, OptionShown, AsBean

LEMMA SameView ==
    ASSUME UNCHANGED vars
    PROVE  /\ Items' = Items /\ Enabled' = Enabled /\ Bean' = Bean
           /\ TypeOK => TypeOK'
           /\ MenuInv => MenuInv'
           /\ SpecsInv => SpecsInv'
           /\ StandaloneInv => StandaloneInv'
           /\ JavaInv => JavaInv'
           /\ FormInv => FormInv'
           /\ GeneratedFits => GeneratedFits'
BY DEF vars, choices, java, examples, standalone, Items, Enabled, Bean, FormInv, TypeOK,
       MenuInv, SpecsInv, StandaloneInv, JavaInv, GeneratedFits

-----------------------------------------------------------------------------
(* Which requests there are *)

LEMMA NoneActive ==
    ASSUME QueueInv, PlacesInv, \A j \in Jobs : ~Active(j)
    PROVE  requests = <<>> /\ Waiting = {} /\ Later = {} /\ Idle /\ Xhrs = {}
<1>1. Xhrs = {}
    BY Names DEF PlacesInv, Xhrs, NoRequest
<1>2. requests = <<>>
    BY <1>1 DEF QueueInv, OneAtATime
<1> QED
    BY <1>1, <1>2 DEF Waiting, Later, Idle, Active

LEMMA OthersFree ==
    ASSUME PlacesInv, OneRequest, NEW j \in Jobs, Active(j)
    PROVE  \A i \in Jobs \ {j} : ~Active(i) /\ jobs[i].source = "none"
BY DEF PlacesInv, OneRequest

LEMMA AjaxActive ==
    ASSUME QueueInv, NEW j \in Jobs, jobs[j].source \in Sources, jobs[j].awaited
    PROVE  /\ j \in Xhrs /\ requests # <<>> /\ Head(requests) = jobs[j].source
           /\ requests \in Seq(Sources) /\ ~nonAjaxPosted
BY DEF QueueInv, OneAtATime, Xhrs

LEMMA DownloadActive ==
    ASSUME QueueInv, PlacesInv, OneRequest, NEW j \in Jobs, jobs[j].source = "download"
    PROVE  requests = <<>> /\ Waiting = {} /\ Later = {} /\ Xhrs = {}
<1>1. Active(j)
    BY DEF PlacesInv, NoRequest
<1>2. Xhrs = {}
    BY <1>1, OthersFree, Names DEF Xhrs, NoRequest
<1>3. requests = <<>>
    BY <1>2 DEF QueueInv, OneAtATime
<1> QED
    BY <1>2, <1>3 DEF Waiting, Later

LEMMA QueueSets ==
    ASSUME requests \in Seq(Sources), requests # <<>>
    PROVE  /\ Waiting = {Head(requests)} \cup Later
           /\ {Tail(requests)[i] : i \in DOMAIN Tail(requests)} = Later
           /\ \A source \in Sources :
                /\ {Append(requests, source)[i] : i \in DOMAIN Append(requests, source)}
                   = Waiting \cup {source}
                /\ {Append(requests, source)[i] : i \in DOMAIN Append(requests, source) \ {1}}
                   = Later \cup {source}
<1>1. PICK n \in Nat : Len(requests) = n /\ n > 0
    OBVIOUS
<1>2. DOMAIN requests = 1..n /\ DOMAIN Tail(requests) = 1..(n - 1)
    BY <1>1
<1>3. \A i \in 1..(n - 1) : Tail(requests)[i] = requests[i + 1]
    BY <1>1
<1>4. Waiting = {Head(requests)} \cup Later
    <2>1. 1 \in DOMAIN requests /\ requests[1] = Head(requests)
        BY <1>1, <1>2
    <2> QED
        BY <2>1 DEF Waiting, Later
<1>5. {Tail(requests)[i] : i \in DOMAIN Tail(requests)} = Later
    <2>1. ASSUME NEW i \in 1..(n - 1) PROVE Tail(requests)[i] \in Later
        <3>1. i + 1 \in DOMAIN requests \ {1}
            BY <1>2, <2>1
        <3> QED
            BY <3>1, <1>3 DEF Later
    <2>2. ASSUME NEW i \in DOMAIN requests \ {1}
          PROVE  requests[i] \in {Tail(requests)[k] : k \in DOMAIN Tail(requests)}
        <3>1. i - 1 \in 1..(n - 1) /\ (i - 1) + 1 = i
            BY <1>2
        <3> QED
            BY <3>1, <1>2, <1>3
    <2> QED
        BY <2>1, <2>2, <1>2 DEF Later
<1>6. ASSUME NEW source \in Sources
      PROVE  /\ {Append(requests, source)[i] : i \in DOMAIN Append(requests, source)}
                = Waiting \cup {source}
             /\ {Append(requests, source)[i] : i \in DOMAIN Append(requests, source) \ {1}}
                = Later \cup {source}
    <2> DEFINE more == Append(requests, source)
    <2>1. /\ DOMAIN more = (DOMAIN requests) \cup {n + 1}
          /\ more[n + 1] = source /\ n + 1 # 1
          /\ \A i \in DOMAIN requests : more[i] = requests[i]
        BY <1>1, <1>2
    <2> HIDE DEF more
    <2>2. {more[i] : i \in DOMAIN more} = Waiting \cup {source}
        BY <2>1 DEF Waiting
    <2>3. {more[i] : i \in DOMAIN more \ {1}} = Later \cup {source}
        BY <2>1 DEF Later
    <2> QED
        BY <2>2, <2>3 DEF more
<1> QED
    BY <1>4, <1>5, <1>6

-----------------------------------------------------------------------------
(* A request is sent *)

LEMMA SentPlace ==
    ASSUME NEW list, AreRequests(list), Free(list) # {}, NEW request
    PROVE  \E place \in Jobs :
            /\ list[place].stage = "free"
            /\ Sent(list, request)[place] = request
            /\ \A i \in Jobs \ {place} : Sent(list, request)[i] = list[i]
<1> DEFINE place == CHOOSE j \in Free(list) : TRUE
<1>1. place \in Free(list) /\ place \in Jobs /\ list[place].stage = "free"
    BY DEF Free
<1>2. Sent(list, request) = [list EXCEPT ![place] = request]
    BY DEF Sent
<1> HIDE DEF place
<1> QED
    BY <1>1, <1>2 DEF AreRequests

\* With one request at most, order is a matter of that request.
LEMMA OneOrder ==
    ASSUME GeneratedFits', (mpVersion \in VersionItems)', (calm => Len(requests) <= 1)',
           NEW place \in Jobs,
           \A i \in Jobs \ {place} : ~Active(i)',
           (~Active(place) => FormInv /\ PageInv(Fields, {}))',
           (Active(place) => jobs[place].awaited)',
           jobs'[place].stage = "sent" => SentInv(jobs[place])',
           jobs'[place].stage = "updated" => UpdatedInv(jobs[place])'
    PROVE  OrderInv'
<1>1. OneRequest'
    BY DEF OneRequest
<1>2. (\A j \in Jobs : ~Active(j))' => (FormInv /\ PageInv(Fields, {}))'
    OBVIOUS
<1>3. ASSUME NEW j \in Jobs
      PROVE  /\ jobs'[j].stage = "sent" => SentInv(jobs[j])'
             /\ jobs'[j].stage = "updated" => UpdatedInv(jobs[j])'
    BY DEF Active
<1> QED
    BY <1>1, <1>2, <1>3 DEF OrderInv

LEMMA SendStep ==
    ASSUME NEW list, AreRequests(list), \A i \in Jobs : list[i].stage = "free", Free(list) # {},
           NEW source \in Sources, jobs' = Sent(list, AjaxRequest(source, page')),
           GeneratedFits', (mpVersion \in VersionItems)', (calm => Len(requests) <= 1)',
           FormInv', PageInv(Fields, Waiting)',
           source \in Fields => FieldSent(source, Posted(page, source))'
    PROVE  OrderInv'
<1> DEFINE request == AjaxRequest(source, page')
<1>1. PICK place \in Jobs : /\ jobs'[place] = request
                            /\ \A i \in Jobs \ {place} : jobs'[i].stage = "free"
    BY SentPlace
<1>2. /\ request.source = source /\ request.stage = "sent" /\ request.awaited
      /\ source \in Fields => request.posted = Posted(page', source)
    BY Names DEF AjaxRequest, Request
<1>3. SentInv(jobs[place])'
    BY <1>1, <1>2, Names DEF SentInv
<1> QED
    BY <1>1, <1>2, <1>3, OneOrder DEF Active

\* A field that is in view is sent with what it shows.
LEMMA FieldRead ==
    ASSUME NEW f \in Fields \ {"javaSEVersion"}, InView(f, Waiting)',
           (calm /\ f \in Boxes => OneBox(f, page[f].value, Bean[f]))'
    PROVE  FieldSent(f, Posted(page, f))'
BY DEF FieldSent, InView, OptionShown, PostedOption, Posted

-----------------------------------------------------------------------------
(* The user *)

\* A change on the page is out of view until its event has been answered.
LEMMA Touched ==
    ASSUME ShownInv, UNCHANGED vars, intact' => intact,
           NEW f \in Fields \ {"javaSEVersion"}, NEW value, page' = [page EXCEPT ![f].value = value],
           page[f].enabled,
           IF f \in Boxes THEN page[f].value \subseteq page[f].items => value \subseteq page[f].items
           ELSE value \in page[f].items,
           NEW fields \in SUBSET Fields, NEW waiting, PageInv(fields, waiting),
           NEW more, waiting \cup {f} \subseteq more
    PROVE  PageInv(fields, more)'
<1>1. IsShown(page[f]) /\ page = [g \in Fields |-> page[g]]
    BY DEF ShownInv
<1>2. /\ page'[f].items = page[f].items /\ page'[f].enabled = page[f].enabled
      /\ page'[f].value = value
      /\ \A g \in Fields \ {f} : page'[g] = page[g]
    BY <1>1 DEF IsShown
<1>3. Items' = Items /\ Enabled' = Enabled /\ Bean' = Bean
    BY SameView
<1>4. ASSUME NEW g \in fields PROVE InView(g, more)'
    <2>1. InView(g, waiting)
        BY DEF PageInv
    <2>2. CASE g = f
        BY <1>2, <1>3, <2>1, <2>2 DEF InView, OptionShown
    <2>3. CASE g # f
        BY <1>2, <1>3, <2>1, <2>3 DEF InView, OptionShown
    <2> QED
        BY <2>2, <2>3
<1> QED
    BY <1>4 DEF PageInv

LEMMA Unmoved ==
    ASSUME UNCHANGED vars, intact' => intact,
           NEW fields, \A f \in fields : f # "javaSEVersion" => page'[f] = page[f],
           \A f \in fields : page'[f].items = page[f].items /\ page'[f].enabled = page[f].enabled,
           NEW waiting, PageInv(fields, waiting), NEW more, waiting \subseteq more
    PROVE  PageInv(fields, more)'
<1>1. Items' = Items /\ Enabled' = Enabled /\ Bean' = Bean
    BY SameView
<1> QED
    BY <1>1 DEF PageInv, InView, OptionShown

\* An event that has to wait leaves the request that is on its way as it is.
LEMMA QueuedStep ==
    ASSUME PageIInv, requests # <<>>, NEW source \in Sources,
           requests' = Append(requests, source), UNCHANGED <<vars, jobs>>,
           calm' => FALSE, intact' => intact, Orderly',
           \A f \in Fields \ {source} : page'[f] = page[f],
           \A waiting, more : \A fields \in SUBSET Fields :
               PageInv(fields, waiting) /\ waiting \cup {source} \subseteq more
               => PageInv(fields, more)'
    PROVE  OrderInv'
<1>1. intact' /\ intact /\ Orderly /\ ~calm'
    BY DEF Orderly
<1>2. /\ GeneratedFits /\ mpVersion \in VersionItems /\ OneRequest
      /\ \A j \in Jobs : /\ jobs[j].stage = "sent" => SentInv(jobs[j])
                         /\ jobs[j].stage = "updated" => UpdatedInv(jobs[j])
    BY <1>1 DEF PageIInv, OrderInv
<1>3. PICK j \in Jobs : j \in Xhrs /\ Active(j)
    <2>1. Xhrs # {}
        BY DEF PageIInv, QueueInv, OneAtATime
    <2> QED
        BY <2>1, Names DEF Xhrs, PageIInv, PlacesInv
<1>4. Waiting' = Waiting \cup {source} /\ Later' = Later \cup {source}
    BY QueueSets DEF PageIInv, QueueInv, Waiting, Later
<1>5. \A i \in Jobs \ {j} : ~Active(i)'
    BY <1>2, <1>3, OthersFree DEF PageIInv, Active
<1>6. Active(j)' /\ jobs'[j].awaited
    BY <1>3 DEF Xhrs, Active
<1>7. VersionItems' = VersionItems /\ mpVersion' = mpVersion
    BY DEF VersionItems, vars, choices
<1>8. ASSUME jobs[j].stage = "sent" PROVE SentInv(jobs[j])'
    <2>1. SentInv(jobs[j])
        BY <1>2, <1>8
    <2>2. FormInv' /\ PageInv(Fields, Waiting)'
        BY <2>1, <1>4, SameView DEF SentInv
    <2>3. ASSUME NEW f \in Fields, NEW posted, FieldSent(f, posted)
          PROVE  FieldSent(f, posted)'
        <3>1. Items' = Items /\ Enabled' = Enabled
            BY SameView
        <3>2. page'[f] = page[f] \/ f \in Later'
            BY <1>4
        <3> QED
            BY <1>1, <1>4, <2>3, <3>1, <3>2 DEF FieldSent, PostedOption
    <2>4. FormSent(jobs[j].posted) => FormSent(jobs[j].posted)'
        BY SameView DEF FormSent
    <2> QED
        BY <2>1, <2>2, <2>3, <2>4 DEF SentInv
<1>9. ASSUME jobs[j].stage = "updated" PROVE UpdatedInv(jobs[j])'
    <2>1. UpdatedInv(jobs[j])
        BY <1>2, <1>9
    <2>2. PageInv(Fields \ Replaced(jobs[j].source), Later)'
        BY <2>1, <1>4 DEF UpdatedInv
    <2>3. /\ TypeOK' /\ Items' = Items /\ Enabled' = Enabled /\ Bean' = Bean
          /\ FormInv => FormInv'
        BY <2>1, SameView DEF UpdatedInv
    <2>4. UNCHANGED <<mpVersion, supportedServer, javaSEEnabled, javaSEItems, javaSEVersion,
                      standaloneSpecs, selectedStandaloneSpecs>>
        BY DEF vars, choices, java, standalone
    <2>5. NothingStored(jobs[j]) => NothingStored(jobs[j])'
        <3>1. intact
            BY <1>1
        <3> QED
            BY <2>3, <3>1 DEF NothingStored, SameBean
    <2>6. FormStored(jobs[j].before) => FormStored(jobs[j].before)'
        BY <2>3, <2>4 DEF FormStored, SameBean
    <2>7. ASSUME NEW f \in Fields, NEW before, FieldStored(f, before)
          PROVE  FieldStored(f, before)'
        <3>1. MenusKept(f) => MenusKept(f)'
            BY <2>3, <2>4, SameView DEF MenusKept
        <3>2. Valid(f, Bean[f]) => Valid(f, Bean[f])'
            BY <2>3 DEF Valid
        <3> QED
            BY <1>1, <2>3, <2>7, <3>1, <3>2 DEF FieldStored, SameBean
    <2> QED
        BY <2>1, <2>2, <2>3, <2>4, <2>5, <2>6, <2>7 DEF UpdatedInv
<1>10. GeneratedFits'
    BY <1>2, SameView
<1> QED
    BY <1>1, <1>2, <1>5, <1>6, <1>7, <1>8, <1>9, <1>10, OneOrder DEF Active

\* A request that is sent while the server has another one is out of order.
LEMMA AloneWhenSent ==
    ASSUME PageIInv, NEW request, request.stage = "sent", Free(jobs) # {},
           jobs' = Sent(jobs, request), calm' = (calm /\ Idle), intact' = (intact /\ ~Overlap'),
           Orderly'
    PROVE  /\ Orderly /\ \A j \in Jobs : jobs[j].stage = "free"
           /\ requests = <<>>
           /\ FormInv /\ PageInv(Fields, {}) /\ GeneratedFits /\ mpVersion \in VersionItems
<1>1. ASSUME NEW i \in Jobs, Active(i) PROVE FALSE
    <2>1. PICK place \in Jobs : /\ jobs[place].stage = "free" /\ jobs'[place] = request
                                /\ \A j \in Jobs \ {place} : jobs'[j] = jobs[j]
        BY SentPlace DEF PageIInv, QueueInv
    <2>2. i # place /\ jobs'[i].stage # "free" /\ jobs'[place].stage # "free"
        BY <1>1, <2>1 DEF Active
    <2>3. Overlap'
        BY <2>2 DEF Overlap
    <2>4. ~Idle
        BY <1>1 DEF Idle, Active
    <2> QED
        BY <2>3, <2>4 DEF Orderly
<1>2. \A j \in Jobs : ~Active(j)
    BY <1>1
<1>3. Orderly
    BY DEF Orderly
<1> QED
    BY <1>2, <1>3, NoneActive DEF PageIInv, OrderInv, Active

LEMMA VarsKeepVersions ==
    ASSUME UNCHANGED vars, mpVersion \in VersionItems
    PROVE  (mpVersion \in VersionItems)'
BY DEF vars, choices, VersionItems

LEMMA ChangeStep ==
    ASSUME PageIInv, Change
    PROVE  OrderInv'
<1> SUFFICES ASSUME Orderly' PROVE OrderInv'
    BY DEF OrderInv
<1>1. PICK f \in Fields \ {"javaSEVersion"} :
        /\ page[f].enabled
        /\ \E value \in IF f \in Boxes
                        THEN {page[f].value \cup {spec} : spec \in page[f].items}
                             \cup {page[f].value \ {spec} : spec \in page[f].items}
                        ELSE page[f].items :
            /\ value # page[f].value
            /\ page' = [page EXCEPT ![f].value = value]
        /\ Offer(f)
    BY DEF Change
<1>2. PICK value \in IF f \in Boxes
                     THEN {page[f].value \cup {spec} : spec \in page[f].items}
                          \cup {page[f].value \ {spec} : spec \in page[f].items}
                     ELSE page[f].items :
        page' = [page EXCEPT ![f].value = value]
    BY <1>1
<1>3. /\ calm' = (calm /\ Idle) /\ intact' = (intact /\ ~Overlap') /\ UNCHANGED vars
      /\ f \in Sources
    BY <1>1, Names DEF Change
<1>4. /\ f \in Boxes => \E spec \in page[f].items :
                            value \in {page[f].value \cup {spec}, page[f].value \ {spec}}
      /\ f \notin Boxes => value \in page[f].items
    BY <1>2
<1>5. IF f \in Boxes THEN page[f].value \subseteq page[f].items => value \subseteq page[f].items
      ELSE value \in page[f].items
    BY <1>4
<1>6. /\ \A g \in Fields \ {f} : page'[g] = page[g]
      /\ page'[f].value = value
    BY <1>2 DEF PageIInv, ShownInv, IsShown
<1>7. \A waiting, more : \A fields \in SUBSET Fields :
          PageInv(fields, waiting) /\ waiting \cup {f} \subseteq more
          => PageInv(fields, more)'
    BY <1>1, <1>2, <1>3, <1>5, Touched DEF PageIInv
<1>8. CASE requests # <<>>
    <2>1. requests' = Append(requests, f) /\ jobs' = jobs
        BY <1>1, <1>8 DEF Offer
    <2>2. ~calm'
        BY <1>3, <1>8 DEF Idle
    <2> QED
        BY <1>3, <1>6, <1>8, <1>7, <2>1, <2>2, QueuedStep
<1>9. CASE requests = <<>>
    <2>1. Free(jobs) # {} /\ jobs' = Sent(jobs, AjaxRequest(f, page')) /\ requests' = <<f>>
        BY <1>1, <1>9 DEF Offer
    <2>2. AjaxRequest(f, page').stage = "sent"
        BY DEF AjaxRequest, Request
    <2>3. /\ \A j \in Jobs : jobs[j].stage = "free"
          /\ FormInv /\ PageInv(Fields, {}) /\ GeneratedFits /\ mpVersion \in VersionItems
        BY <1>3, <2>1, <2>2, AloneWhenSent
    <2>4. Waiting' = {f} /\ (calm => Len(requests) <= 1)'
        BY <2>1 DEF Waiting
    <2>5. PageInv(Fields, {f})'
        BY <1>7, <2>3
    <2>6. Bean' = Bean /\ Items' = Items /\ FormInv' /\ GeneratedFits'
        BY <1>3, <2>3, SameView
    <2>7. f \in Boxes => OneBox(f, page[f].value, Bean[f])'
        <3>1. ASSUME f \in Boxes PROVE page[f].value = Bean[f] /\ page[f].items = Items[f]
            BY <2>3, <3>1 DEF PageInv, InView, Boxes
        <3> QED
            BY <1>4, <1>6, <2>6, <3>1 DEF OneBox
    <2>8. FieldSent(f, Posted(page, f))'
        BY <2>4, <2>5, <2>7, FieldRead DEF PageInv
    <2> QED
        BY <1>3, <2>1, <2>3, <2>4, <2>5, <2>6, <2>8, VarsKeepVersions, SendStep
           DEF PageIInv, QueueInv
<1> QED
    BY <1>8, <1>9

LEMMA LinkStep ==
    ASSUME PageIInv, ClickLink
    PROVE  OrderInv'
<1> SUFFICES ASSUME Orderly' PROVE OrderInv'
    BY DEF OrderInv
<1>1. PICK link \in Links : Offer(link)
    BY DEF ClickLink
<1>2. /\ calm' = (calm /\ Idle) /\ intact' = (intact /\ ~Overlap') /\ UNCHANGED <<vars, page>>
      /\ link \in Sources /\ link \notin Fields
    BY <1>1, Names DEF ClickLink
<1>3. \A waiting, more : \A fields \in SUBSET Fields :
          PageInv(fields, waiting) /\ waiting \cup {link} \subseteq more
          => PageInv(fields, more)'
    BY <1>2, Unmoved
<1>4. CASE requests # <<>>
    <2>1. requests' = Append(requests, link) /\ jobs' = jobs
        BY <1>1, <1>4 DEF Offer
    <2>2. ~calm'
        BY <1>2, <1>4 DEF Idle
    <2> QED
        BY <1>2, <1>3, <1>4, <2>1, <2>2, QueuedStep
<1>5. CASE requests = <<>>
    <2>1. Free(jobs) # {} /\ jobs' = Sent(jobs, AjaxRequest(link, page')) /\ requests' = <<link>>
        BY <1>1, <1>5 DEF Offer
    <2>2. AjaxRequest(link, page').stage = "sent"
        BY DEF AjaxRequest, Request
    <2>3. /\ \A j \in Jobs : jobs[j].stage = "free"
          /\ FormInv /\ PageInv(Fields, {}) /\ GeneratedFits /\ mpVersion \in VersionItems
        BY <1>2, <2>1, <2>2, AloneWhenSent
    <2>4. Waiting' = {link} /\ (calm => Len(requests) <= 1)'
        BY <2>1 DEF Waiting
    <2>5. PageInv(Fields, {link})' /\ FormInv' /\ GeneratedFits'
        BY <1>2, <1>3, <2>3, SameView
    <2> QED
        BY <1>2, <2>1, <2>3, <2>4, <2>5, VarsKeepVersions, SendStep DEF PageIInv, QueueInv
<1> QED
    BY <1>4, <1>5

\* A download in order finds the page as the bean is, but for the Java version.
LEMMA DownloadStep ==
    ASSUME PageIInv, Download
    PROVE  OrderInv'
<1> SUFFICES ASSUME Orderly' PROVE OrderInv'
    BY DEF OrderInv
<1> DEFINE posted == [f \in Fields |-> Posted(page, f)]
           form(names) == Request("download", posted, names)
<1>1. PICK names \in BOOLEAN : OnPost(form(names))
    BY DEF Download
<1>2. /\ calm' = (calm /\ Idle) /\ intact' = (intact /\ ~Overlap') /\ UNCHANGED <<vars, page>>
      /\ Free(jobs) # {}
    BY DEF Download
<1>3. /\ form(names).source = "download" /\ form(names).stage = "sent"
      /\ form(names).awaited /\ form(names).posted = posted
    BY DEF Request
<1> DEFINE request == form(names)
<1> HIDE DEF form
<1>4. requests' = <<>> /\ jobs' = Sent(Unawaited(jobs), request)
    BY <1>1 DEF OnPost
<1>5. \A j \in Jobs : Unawaited(jobs)[j] = GivenUp(jobs[j]) /\ IsRequest(jobs[j])
    BY DEF PageIInv, QueueInv, AreRequests, Unawaited, GivenUp
<1>6. /\ AreRequests(Unawaited(jobs)) /\ Free(Unawaited(jobs)) # {}
      /\ \A j \in Jobs : Unawaited(jobs)[j].stage = jobs[j].stage
    <2>1. \A j \in Jobs : Unawaited(jobs)[j].stage = jobs[j].stage
        BY <1>5, RequestGivenUp
    <2> QED
        BY <1>2, <2>1, UnawaitedList DEF Free, PageIInv, QueueInv
<1>7. PICK place \in Jobs : /\ jobs[place].stage = "free" /\ jobs'[place] = request
                            /\ \A j \in Jobs \ {place} : jobs'[j] = Unawaited(jobs)[j]
    BY <1>4, <1>6, SentPlace
<1>8. ASSUME NEW i \in Jobs, Active(i) PROVE FALSE
    <2>1. i # place /\ jobs'[i].stage # "free" /\ jobs'[place].stage # "free"
        BY <1>3, <1>6, <1>7, <1>8 DEF Active
    <2>2. Overlap' /\ ~Idle
        BY <1>8, <2>1 DEF Overlap, Idle, Active
    <2> QED
        BY <1>2, <2>2 DEF Orderly
<1>9. (\A j \in Jobs : ~Active(j)) /\ Orderly
    BY <1>2, <1>8 DEF Orderly
<1>10. FormInv /\ PageInv(Fields, {}) /\ GeneratedFits /\ mpVersion \in VersionItems
    BY <1>9 DEF PageIInv, OrderInv
<1>11. \A j \in Jobs \ {place} : ~Active(j)'
    BY <1>6, <1>7, <1>9 DEF Active
<1>12. Waiting' = {} /\ (calm => Len(requests) <= 1)'
    BY <1>4 DEF Waiting
<1>13. PageInv(Fields, {})' /\ FormInv' /\ GeneratedFits'
    BY <1>2, <1>10, Unmoved, SameView
<1>14. FormSent(posted)'
    <2>1. Enabled' = Enabled /\ Bean' = Bean
        BY <1>2, SameView
    <2>2. ASSUME NEW f \in Fields \ {"javaSEVersion"}, Enabled[f]
          PROVE  posted[f] = Bean[f] \/ (f = "supportedServer" /\ posted[f] = Null)
        <3>1. InView(f, {})
            BY <1>10 DEF PageInv
        <3>2. posted[f] = page[f].value
            BY <2>2, <3>1 DEF Posted, InView
        <3> QED
            BY <3>1, <3>2 DEF InView
    <2>3. posted' = posted
        BY <1>2
    <2> QED
        BY <2>1, <2>2, <2>3 DEF FormSent
<1>15. SentInv(jobs[place])'
    BY <1>2, <1>3, <1>7, <1>12, <1>13, <1>14, Names DEF SentInv
<1> QED
    BY <1>2, <1>3, <1>7, <1>10, <1>11, <1>12, <1>13, <1>15, VarsKeepVersions, OneOrder
       DEF Active

\* The Java version is out of view in any case.
LEMMA StillStep ==
    ASSUME PageIInv, UNCHANGED <<vars, requests, jobs, calm, intact>>,
           \A f \in Fields \ {"javaSEVersion"} : page'[f] = page[f],
           \A f \in Fields : page'[f].items = page[f].items /\ page'[f].enabled = page[f].enabled
    PROVE  OrderInv'
<1> SUFFICES ASSUME Orderly' PROVE OrderInv'
    BY DEF OrderInv
<1>1. UNCHANGED <<vars, requests, jobs, calm, intact>>
    OBVIOUS
<1>2. /\ \A f \in Fields \ {"javaSEVersion"} : page'[f] = page[f]
      /\ \A f \in Fields : page'[f].items = page[f].items /\ page'[f].enabled = page[f].enabled
    OBVIOUS
<1>3. \A waiting : \A fields \in SUBSET Fields : PageInv(fields, waiting) => PageInv(fields, waiting)'
    BY <1>1, <1>2, Unmoved
<1>4. /\ Items' = Items /\ Enabled' = Enabled /\ Bean' = Bean /\ Waiting' = Waiting
      /\ Later' = Later
      /\ FormInv => FormInv'
    BY <1>1, SameView DEF Waiting, Later
<1>5. UNCHANGED <<mpVersion, supportedServer, javaSEEnabled, javaSEItems, javaSEVersion,
                  standaloneSpecs, selectedStandaloneSpecs>>
    BY <1>1 DEF vars, choices, java, standalone
<1>6. /\ GeneratedFits /\ mpVersion \in VersionItems /\ OneRequest
      /\ (\A j \in Jobs : ~Active(j)) => FormInv /\ PageInv(Fields, {})
      /\ \A j \in Jobs : /\ jobs[j].stage = "sent" => SentInv(jobs[j])
                         /\ jobs[j].stage = "updated" => UpdatedInv(jobs[j])
    BY <1>1 DEF PageIInv, OrderInv, Orderly
<1>7. ASSUME NEW j \in Jobs, jobs[j].stage = "sent" PROVE SentInv(jobs[j])'
    <2>1. SentInv(jobs[j]) /\ jobs[j].source # "javaSEVersion"
        BY <1>6, <1>7, Names DEF PageIInv, PlacesInv, Active
    <2>2. FormInv' /\ PageInv(Fields, Waiting)'
        BY <1>3, <1>4, <2>1 DEF SentInv
    <2>3. ASSUME NEW f \in Fields \ {"javaSEVersion"}, NEW posted, FieldSent(f, posted)
          PROVE  FieldSent(f, posted)'
        BY <1>1, <1>2, <1>4, <2>3 DEF FieldSent, PostedOption, OneBox
    <2>4. FormSent(jobs[j].posted) => FormSent(jobs[j].posted)'
        BY <1>1, <1>4 DEF FormSent
    <2> QED
        BY <1>1, <2>1, <2>2, <2>3, <2>4 DEF SentInv
<1>8. ASSUME NEW j \in Jobs, jobs[j].stage = "updated" PROVE UpdatedInv(jobs[j])'
    <2>1. UpdatedInv(jobs[j])
        BY <1>6, <1>8
    <2>2. PageInv(Fields \ Replaced(jobs[j].source), Later)' /\ TypeOK'
        BY <1>1, <1>3, <1>4, <2>1, SameView DEF UpdatedInv
    <2>3. NothingStored(jobs[j]) => NothingStored(jobs[j])'
        BY <1>1, <1>4 DEF NothingStored, SameBean
    <2>4. FormStored(jobs[j].before) => FormStored(jobs[j].before)'
        BY <1>1, <1>4, <1>5 DEF FormStored, SameBean
    <2>5. ASSUME NEW f \in Fields, NEW before, FieldStored(f, before)
          PROVE  FieldStored(f, before)'
        <3>1. MenusKept(f) => MenusKept(f)'
            BY <1>1, <1>4, <1>5, SameView DEF MenusKept
        <3>2. Valid(f, Bean[f]) => Valid(f, Bean[f])'
            BY <1>4 DEF Valid
        <3> QED
            BY <1>1, <1>4, <2>5, <3>1, <3>2 DEF FieldStored, SameBean, OneBox
    <2> QED
        BY <1>1, <1>5, <2>1, <2>2, <2>3, <2>4, <2>5 DEF UpdatedInv
<1>9. GeneratedFits' /\ (mpVersion \in VersionItems)' /\ OneRequest'
    BY <1>1, <1>6, SameView, VarsKeepVersions DEF OneRequest, Active
<1>10. (\A j \in Jobs : ~Active(j))' => FormInv' /\ PageInv(Fields, {})'
    BY <1>1, <1>3, <1>4, <1>6 DEF Active
<1> QED
    BY <1>1, <1>7, <1>8, <1>9, <1>10 DEF OrderInv

LEMMA JavaStep ==
    ASSUME PageIInv, ChangeJava
    PROVE  OrderInv'
<1>1. UNCHANGED <<vars, requests, jobs, calm, intact>>
    BY DEF ChangeJava
<1>2. PICK value : page' = [page EXCEPT !.javaSEVersion.value = value]
    BY DEF ChangeJava
<1>3. /\ \A f \in Fields \ {"javaSEVersion"} : page'[f] = page[f]
      /\ \A f \in Fields : page'[f].items = page[f].items /\ page'[f].enabled = page[f].enabled
    BY <1>2, Names DEF PageIInv, ShownInv, IsShown
<1> QED
    BY <1>1, <1>3, StillStep

-----------------------------------------------------------------------------
(* The first half of a request: what is posted is validated and stored *)

LEMMA StoredBean ==
    ASSUME NEW bean, Store(bean),
           bean = [f \in Fields |-> bean[f]]
    PROVE  /\ Bean' = bean /\ Items' = Items
           /\ UNCHANGED <<microProfileVersion, supportedServerItems, javaSEEnabled, javaSEItems,
                          specs, standaloneSpecs, generated>>
           /\ mpVersion' = bean.mpVersion /\ javaSEVersion' = bean.javaSEVersion
           /\ buildTool' = bean.buildTool /\ supportedServer' = bean.supportedServer
           /\ selectedSpecs' = bean.microprofileSpecs
           /\ selectedStandaloneSpecs' = bean.microprofileStandaloneSpecs
           /\ VersionItems' = VersionItems
<1>1. Items' = Items
    BY DEF Store, Items
<1>2. Bean' = bean
    BY Names DEF Store, Bean
<1> QED
    BY <1>1, <1>2 DEF Store, VersionItems

LEMMA BeanRecord ==
    /\ Bean = [f \in Fields |-> Bean[f]]
    /\ Bean.mpVersion = mpVersion /\ Bean.javaSEVersion = javaSEVersion
    /\ Bean.buildTool = buildTool /\ Bean.supportedServer = supportedServer
    /\ Bean.microprofileSpecs = selectedSpecs
    /\ Bean.microprofileStandaloneSpecs = selectedStandaloneSpecs
BY Names DEF Bean

LEMMA NothingStoredStep ==
    ASSUME Store(Bean)
    PROVE  UNCHANGED vars
<1>1. /\ UNCHANGED <<microProfileVersion, supportedServerItems, javaSEEnabled, javaSEItems,
                     specs, standaloneSpecs, generated>>
      /\ mpVersion' = mpVersion /\ javaSEVersion' = javaSEVersion
      /\ buildTool' = buildTool /\ supportedServer' = supportedServer
      /\ selectedSpecs' = selectedSpecs
      /\ selectedStandaloneSpecs' = selectedStandaloneSpecs
    BY StoredBean, BeanRecord
<1> QED
    BY <1>1 DEF vars, choices, java, examples, standalone

LEMMA ProcessedFields ==
    \A f \in Fields : Processed(f) <=> Enabled[f]
BY Names DEF Processed

LEMMA ReplacedFields ==
    /\ Replaced("mpVersion") = Fields \ {"mpVersion"}
    /\ Replaced("supportedServer") = Fields
    /\ Replaced("buildTool") = Fields \ {"mpVersion", "javaSEVersion"}
    /\ \A box \in Boxes : Replaced(box) = {}
    /\ \A source : source \notin Fields => Replaced(source) = {}
<1> USE Names
<1>1. Replaced("mpVersion") = Options \cup {"javaSEVersion"}
    BY DEF Replaced, Update
<1>2. Replaced("supportedServer") = Fields
    BY DEF Replaced, Update
<1>3. Replaced("buildTool") = Options
    BY DEF Replaced, Update
<1>4. Replaced("microprofileSpecs") = {} /\ Replaced("microprofileStandaloneSpecs") = {}
    BY DEF Replaced, Update
<1> QED
    BY <1>1, <1>2, <1>3, <1>4 DEF Replaced, Options

\* What a field needs of the rest of the bean is there when its value is stored.
LEMMA FieldAccepted ==
    ASSUME FormInv, mpVersion \in VersionItems,
           NEW f \in Fields \ {"javaSEVersion"}, NEW posted, Enabled[f], Valid(f, posted),
           Store([Bean EXCEPT ![f] = posted])
    PROVE  /\ TypeOK' /\ (mpVersion \in VersionItems)' /\ generated' = generated
           /\ Items' = Items /\ Bean'[f] = posted
           /\ \A g \in Fields \ {f} : Bean'[g] = Bean[g]
           /\ \A g \in (Fields \ Replaced(f)) \cup {f} : Enabled'[g] = Enabled[g]
           /\ MenusKept(f)'
<1> DEFINE bean == [Bean EXCEPT ![f] = posted]
<1>1. /\ bean = [g \in Fields |-> bean[g]] /\ bean[f] = posted
      /\ \A g \in Fields \ {f} : bean[g] = Bean[g]
    BY BeanRecord
<1> HIDE DEF bean
<1>2. /\ Bean' = bean /\ Items' = Items
      /\ UNCHANGED <<microProfileVersion, supportedServerItems, javaSEEnabled, javaSEItems,
                     specs, standaloneSpecs, generated>>
      /\ mpVersion' = bean.mpVersion /\ javaSEVersion' = bean.javaSEVersion
      /\ buildTool' = bean.buildTool /\ supportedServer' = bean.supportedServer
      /\ selectedSpecs' = bean.microprofileSpecs
      /\ selectedStandaloneSpecs' = bean.microprofileStandaloneSpecs
      /\ VersionItems' = VersionItems
    BY <1>1, StoredBean DEF bean
<1> USE DEF FormInv
<1>3. CASE f = "mpVersion"
    <2>1. posted \in VersionItems /\ posted \in Versions \cup {Null}
        BY <1>3, TablesTyped DEF Valid, Items, Boxes, TypeOK
    <2>2. /\ mpVersion' = posted
          /\ UNCHANGED <<javaSEVersion, buildTool, supportedServer, selectedSpecs,
                         selectedStandaloneSpecs>>
        BY <1>1, <1>2, <1>3, BeanRecord, Names
    <2>3. \A g \in (Fields \ Replaced(f)) \cup {f} : Enabled'[g] = Enabled[g]
        <3>1. (Fields \ Replaced(f)) \cup {f} = {"mpVersion"}
            BY <1>3, ReplacedFields, Names
        <3>2. Enabled'["mpVersion"] = Enabled["mpVersion"]
            BY DEF Enabled
        <3> QED
            BY <3>1, <3>2
    <2>4. TypeOK'
        BY <1>2, <2>1, <2>2 DEF TypeOK
    <2> QED
        BY <1>1, <1>2, <1>3, <2>1, <2>2, <2>3, <2>4 DEF MenusKept, Boxes
<1>4. CASE f = "buildTool"
    <2>1. posted \in {"Maven", "Gradle"}
        BY <1>4 DEF Valid, Items, Boxes
    <2>2. /\ buildTool' = posted
          /\ UNCHANGED <<javaSEVersion, mpVersion, supportedServer, selectedSpecs,
                         selectedStandaloneSpecs>>
        BY <1>1, <1>2, <1>4, BeanRecord, Names
    <2>3. Enabled' = Enabled
        BY <1>2, <2>2 DEF Enabled
    <2>4. TypeOK' /\ SpecsInv' /\ StandaloneInv' /\ JavaInv'
        BY <1>2, <2>1, <2>2 DEF TypeOK, SpecsInv, StandaloneInv, JavaInv
    <2> QED
        BY <1>1, <1>2, <1>4, <2>2, <2>3, <2>4 DEF MenusKept, Boxes
<1>5. CASE f = "supportedServer"
    <2>1. posted \in supportedServerItems /\ posted # Null
        BY <1>5 DEF Valid, Items, Boxes
    <2>2. /\ supportedServer' = posted
          /\ UNCHANGED <<javaSEVersion, mpVersion, buildTool, selectedSpecs,
                         selectedStandaloneSpecs>>
        BY <1>1, <1>2, <1>5, BeanRecord, Names
    <2>3. \A g \in (Fields \ Replaced(f)) \cup {f} : Enabled'[g] = Enabled[g]
        <3>1. (Fields \ Replaced(f)) \cup {f} = {"supportedServer"}
            BY <1>5, ReplacedFields, Names
        <3>2. Enabled'["supportedServer"] = Enabled["supportedServer"]
            BY DEF Enabled
        <3> QED
            BY <3>1, <3>2
    <2>4. TypeOK' /\ MenuInv' /\ SpecsInv'
        BY <1>2, <2>1, <2>2 DEF TypeOK, MenuInv, SpecsInv
    <2>5. MenusKept(f)'
        BY <1>2, <1>5, <2>2, <2>4 DEF MenusKept, Boxes, StandaloneInv, JavaInv
    <2> QED
        BY <1>1, <1>2, <2>2, <2>3, <2>4, <2>5
<1>6. CASE f = "microprofileSpecs"
    <2>1. mpVersion # Null /\ specs = SpecItems(mpVersion) /\ specs \subseteq Specs /\ specs # Null
        BY <1>6, TablesTyped, MenusAssumption DEF Enabled, SpecsInv, TypeOK
    <2>2. posted \subseteq specs
        BY <1>6, <2>1 DEF Valid, Items, Boxes, Listed
    <2>3. /\ selectedSpecs' = posted
          /\ UNCHANGED <<javaSEVersion, mpVersion, buildTool, supportedServer,
                         selectedStandaloneSpecs>>
        BY <1>1, <1>2, <1>6, BeanRecord, Names
    <2>4. Enabled' = Enabled
        BY <1>2, <2>3 DEF Enabled
    <2>5. FormInv'
        BY <1>2, <2>1, <2>2, <2>3 DEF TypeOK, MenuInv, SpecsInv, StandaloneInv, JavaInv
    <2> QED
        BY <1>1, <1>2, <1>6, <2>3, <2>4, <2>5 DEF MenusKept
<1>7. CASE f = "microprofileStandaloneSpecs"
    <2>1. standaloneSpecs # Null /\ standaloneSpecs \subseteq Standalone
        BY <1>7 DEF Enabled, Listed, TypeOK
    <2>2. posted \subseteq standaloneSpecs
        BY <1>7, <2>1 DEF Valid, Items, Boxes, Listed
    <2>3. /\ selectedStandaloneSpecs' = posted
          /\ UNCHANGED <<javaSEVersion, mpVersion, buildTool, supportedServer,
                         selectedSpecs>>
        BY <1>1, <1>2, <1>7, BeanRecord, Names
    <2>4. Enabled' = Enabled
        BY <1>2, <2>3 DEF Enabled
    <2>5. FormInv'
        BY <1>2, <2>1, <2>2, <2>3 DEF TypeOK, MenuInv, SpecsInv, StandaloneInv, JavaInv
    <2> QED
        BY <1>1, <1>2, <1>7, <2>3, <2>4, <2>5 DEF MenusKept
<1> QED
    BY <1>3, <1>4, <1>5, <1>6, <1>7, Names

\* The request that is handled keeps what it came with.
LEMMA HandledRequest ==
    ASSUME PageIInv, Orderly, NEW j \in Jobs, Active(j),
           NEW stage \in {"updated", "refused"}, NEW outcome, Stage(j, stage, outcome),
           UNCHANGED <<client, calm>>
    PROVE  /\ jobs'[j].source = jobs[j].source /\ jobs'[j].posted = jobs[j].posted
           /\ jobs'[j].stage = stage /\ jobs'[j].outcome = outcome /\ jobs'[j].before = Bean
           /\ Active(j)' /\ jobs'[j].awaited
           /\ \A i \in Jobs \ {j} : ~Active(i)'
           /\ (calm => Len(requests) <= 1)'
           /\ Waiting' = Waiting /\ Later' = Later /\ page' = page
<1> DEFINE next == Handled(jobs[j], stage, outcome, Bean)
<1>1. jobs' = [jobs EXCEPT ![j] = next] /\ IsRequest(jobs[j]) /\ jobs = [i \in Jobs |-> jobs[i]]
    BY DEF Stage, PageIInv, QueueInv, AreRequests, Handled
<1>2. /\ next.source = jobs[j].source /\ next.posted = jobs[j].posted
      /\ next.stage = stage /\ next.outcome = outcome /\ next.before = Bean
      /\ next.awaited = jobs[j].awaited
    BY <1>1, RequestHandled
<1> HIDE DEF next
<1>3. OneRequest
    BY DEF PageIInv, OrderInv
<1>4. jobs'[j] = next /\ \A i \in Jobs \ {j} : jobs'[i] = jobs[i]
    BY <1>1
<1>5. jobs[j].awaited /\ \A i \in Jobs \ {j} : ~Active(i)
    BY <1>3, OthersFree DEF OneRequest, PageIInv
<1>6. UNCHANGED <<page, requests, calm>>
    BY DEF client
<1>7. Waiting' = Waiting /\ Later' = Later
    BY <1>6 DEF Waiting, Later
<1>8. (calm => Len(requests) <= 1)'
    BY <1>3, <1>6 DEF OneRequest
<1>9. Active(j)' /\ \A i \in Jobs \ {j} : ~Active(i)'
    BY <1>2, <1>4, <1>5 DEF Active
<1> QED
    BY <1>2, <1>4, <1>5, <1>6, <1>7, <1>8, <1>9

\* A field that the request is not about stays in view as long as its part of the
\* bean does.
LEMMA OtherInView ==
    ASSUME NEW g, NEW waiting, InView(g, waiting), page' = page,
           intact' => intact, Items' = Items, Enabled'[g] = Enabled[g], Bean'[g] = Bean[g],
           NEW fewer, g \in waiting => g \in fewer
    PROVE  InView(g, fewer)'
BY DEF InView, OptionShown

LEMMA AjaxStored ==
    ASSUME PageIInv, Orderly, NEW j \in Jobs, jobs[j].stage = "sent", UNCHANGED <<client, calm>>,
           UpdateField(j), Orderly'
    PROVE  OrderInv'
<1>0. PICK f, posted : f = jobs[j].source /\ posted = jobs[j].posted
    OBVIOUS
<1>1. /\ GeneratedFits /\ mpVersion \in VersionItems /\ OneRequest /\ SentInv(jobs[j])
      /\ f \in Sources /\ Active(j)
    BY <1>0 DEF PageIInv, OrderInv, UpdateField, Active
<1>2. /\ FormInv /\ PageInv(Fields, Waiting)
      /\ f \in Fields => FieldSent(f, posted) /\ f \in Fields \ {"javaSEVersion"}
    BY <1>0, <1>1, Names DEF SentInv
<1>3. Waiting = {f} \cup Later
    BY <1>0, <1>1, AjaxActive, QueueSets DEF OneRequest, PageIInv
<1>4. CASE /\ f \in Fields /\ Processed(f) /\ Valid(f, posted)
           /\ Store([Bean EXCEPT ![f] = posted])
           /\ Stage(j, "updated", "accepted")
           /\ UNCHANGED intact
    <2>1. Enabled[f] /\ f \in Fields \ {"javaSEVersion"} /\ FieldSent(f, posted)
        BY <1>2, <1>4, ProcessedFields
    <2>2. /\ jobs'[j].source = f /\ jobs'[j].posted = posted
          /\ jobs'[j].stage = "updated" /\ jobs'[j].outcome = "accepted" /\ jobs'[j].before = Bean
          /\ Active(j)' /\ jobs'[j].awaited
          /\ \A i \in Jobs \ {j} : ~Active(i)'
          /\ (calm => Len(requests) <= 1)'
          /\ Later' = Later /\ page' = page
        BY <1>0, <1>1, <1>4, HandledRequest
    <2>3. /\ TypeOK' /\ (mpVersion \in VersionItems)' /\ generated' = generated
          /\ Items' = Items /\ Bean'[f] = posted
          /\ \A g \in Fields \ {f} : Bean'[g] = Bean[g]
          /\ \A g \in (Fields \ Replaced(f)) \cup {f} : Enabled'[g] = Enabled[g]
          /\ MenusKept(f)'
        BY <1>1, <1>2, <1>4, <2>1, FieldAccepted
    <2>4. ASSUME NEW g \in Fields \ Replaced(f) PROVE InView(g, Later)'
        <3>1. InView(g, Waiting)
            BY <1>2 DEF PageInv
        <3>2. CASE g # f
            BY <1>3, <1>4, <2>2, <2>3, <3>1, <3>2, OtherInView
        <3>3. CASE g = f
            <4>1. page[f].enabled /\ page'[f] = page[f] /\ Enabled'[f] = Enabled[f]
                BY <2>1, <2>2, <2>3, <3>1, <3>3 DEF InView
            <4>2. page[f].value = posted \/ f \in Later
                BY <2>1 DEF FieldSent
            <4>3. \/ page'[f].value = Bean'[f]
                  \/ page'[f].enabled /\ f \in Later
                BY <2>3, <4>1, <4>2
            <4>4. page'[f].items = Items'[f] /\ page'[f].enabled = Enabled'[f] /\ OptionShown(f)'
                BY <2>1, <2>3, <3>1, <3>3, <4>1 DEF InView, OptionShown
            <4> QED
                BY <2>2, <3>3, <4>3, <4>4 DEF InView
        <3> QED
            BY <3>2, <3>3
    <2>5. PageInv(Fields \ Replaced(jobs[j].source), Later)'
        BY <2>2, <2>4 DEF PageInv
    <2>6. Enabled'[f] /\ Valid(f, Bean[f])'
        BY <1>4, <2>1, <2>3 DEF Valid
    <2>7. \A g \in Fields \ {f} : Bean[g] = Bean'[g]
        BY <2>3
    <2>8. calm' /\ f \in Boxes =>
            \E spec \in Items'[f] : posted \in {Bean[f] \cup {spec}, Bean[f] \ {spec}}
        BY <2>1, <2>3 DEF FieldSent, OneBox
    <2>9. FieldStored(f, jobs[j].before)'
        <3>1. SameBean(jobs[j].before, Fields \ {f})'
            BY <2>2, <2>7 DEF SameBean
        <3>2. (calm /\ f \in Boxes => OneBox(f, Bean[f], jobs[j].before[f]))'
            BY <2>2, <2>3, <2>8 DEF OneBox
        <3> QED
            BY <2>3, <2>6, <3>1, <3>2 DEF FieldStored
    <2>10. UpdatedInv(jobs[j])'
        BY <1>4, <2>2, <2>3, <2>5, <2>9, Names DEF UpdatedInv
    <2>11. GeneratedFits'
        BY <1>1, <2>3 DEF GeneratedFits
    <2> QED
        BY <2>2, <2>3, <2>10, <2>11, OneOrder
<1>5. CASE Store(Bean)
    <2>1. UNCHANGED vars
        BY <1>5, NothingStoredStep
    <2>2. /\ Items' = Items /\ Enabled' = Enabled /\ Bean' = Bean
          /\ TypeOK' /\ FormInv' /\ GeneratedFits' /\ (mpVersion \in VersionItems)'
        BY <1>1, <1>2, <2>1, SameView, VarsKeepVersions DEF FormInv
    <2>3. mpVersion' = mpVersion
        BY <2>1 DEF vars, choices
    <2>4. ASSUME intact' => intact,
                 f \in Fields => ~Enabled[f]
          PROVE  PageInv(Fields, Later)'
        <3>1. ASSUME NEW g \in Fields PROVE InView(g, Later)'
            <4>1. InView(g, Waiting) /\ page' = page /\ Later' = Later
                BY <1>2, <1>1 DEF PageInv, client, Later
            <4>2. CASE g # f
                BY <1>3, <2>2, <2>4, <4>1, <4>2, OtherInView
            <4>3. CASE g = f
                BY <1>3, <2>2, <2>4, <4>1, <4>3 DEF InView, OptionShown
            <4> QED
                BY <4>2, <4>3
        <3> QED
            BY <3>1 DEF PageInv
    <2>5. CASE f \in Links /\ Processed(f) /\ Stage(j, "updated", "accepted") /\ UNCHANGED intact
        <3>1. mpVersion # Null /\ f \notin Fields
            BY <2>5, Names DEF Processed
        <3>2. /\ jobs'[j].source = f /\ jobs'[j].posted = posted
              /\ jobs'[j].stage = "updated" /\ jobs'[j].outcome = "accepted" /\ jobs'[j].before = Bean
              /\ Active(j)' /\ jobs'[j].awaited
              /\ \A i \in Jobs \ {j} : ~Active(i)'
              /\ (calm => Len(requests) <= 1)'
            BY <1>0, <1>1, <2>5, HandledRequest
        <3>3. NothingStored(jobs[j])'
            BY <2>2, <3>2 DEF NothingStored, SameBean
        <3>4. PageInv(Fields \ Replaced(jobs[j].source), Later)'
            BY <2>4, <2>5, <3>1 DEF PageInv
        <3>5. UpdatedInv(jobs[j])'
            BY <2>2, <2>3, <2>5, <3>1, <3>2, <3>3, <3>4, Names DEF UpdatedInv
        <3> QED
            BY <2>2, <3>2, <3>5, OneOrder
    <2>6. CASE ~Processed(f) /\ Stage(j, "updated", "skipped") /\ UNCHANGED intact
        <3>1. f \in Fields => ~Enabled[f]
            BY <2>6, ProcessedFields
        <3>2. /\ jobs'[j].source = f /\ jobs'[j].posted = posted
              /\ jobs'[j].stage = "updated" /\ jobs'[j].outcome = "skipped" /\ jobs'[j].before = Bean
              /\ Active(j)' /\ jobs'[j].awaited
              /\ \A i \in Jobs \ {j} : ~Active(i)'
              /\ (calm => Len(requests) <= 1)'
            BY <1>0, <1>1, <2>6, HandledRequest
        <3>3. NothingStored(jobs[j])'
            BY <2>2, <3>2 DEF NothingStored, SameBean
        <3>4. PageInv(Fields \ Replaced(jobs[j].source), Later)'
            BY <2>4, <2>6, <3>1 DEF PageInv
        <3>5. UpdatedInv(jobs[j])'
            BY <1>1, <2>2, <3>2, <3>3, <3>4 DEF UpdatedInv
        <3> QED
            BY <2>2, <3>2, <3>5, OneOrder
    <2>7. CASE /\ f \in Fields /\ Processed(f) /\ ~Valid(f, posted)
               /\ Stage(j, IF posted = Nothing THEN "refused" ELSE "updated", "rejected")
               /\ intact' = FALSE
        <3>1. f = "supportedServer" /\ posted = Null
            BY <1>2, <2>7, ProcessedFields DEF FieldSent, PostedOption, Valid
        <3>2. PICK stage \in {"updated", "refused"} : Stage(j, stage, "rejected")
            BY <2>7
        <3>3. /\ jobs'[j].source = f /\ jobs'[j].posted = posted
              /\ jobs'[j].stage = stage /\ jobs'[j].outcome = "rejected" /\ jobs'[j].before = Bean
              /\ Active(j)' /\ jobs'[j].awaited
              /\ \A i \in Jobs \ {j} : ~Active(i)'
              /\ (calm => Len(requests) <= 1)'
            BY <1>0, <1>1, <3>2, HandledRequest
        <3>4. NothingStored(jobs[j])'
            BY <2>2, <2>7, <3>1, <3>3 DEF NothingStored, SameBean
        <3>5. PageInv(Fields \ Replaced(jobs[j].source), Later)'
            BY <3>1, <3>3, ReplacedFields DEF PageInv
        <3>6. UpdatedInv(jobs[j])'
            BY <1>1, <2>2, <3>3, <3>4, <3>5 DEF UpdatedInv
        <3> QED
            BY <2>2, <3>3, <3>6, OneOrder
    <2> QED
        <3>1. \/ Processed(f) /\ (f \in Fields => Valid(f, posted))
                 /\ Store(IF f \in Links THEN Bean ELSE [Bean EXCEPT ![f] = posted])
                 /\ Stage(j, "updated", "accepted") /\ UNCHANGED intact
              \/ ~Processed(f) /\ Stage(j, "updated", "skipped") /\ UNCHANGED intact
              \/ /\ f \in Fields /\ Processed(f) /\ ~Valid(f, posted)
                 /\ Stage(j, IF posted = Nothing THEN "refused" ELSE "updated", "rejected")
                 /\ intact' = FALSE
            BY <1>0 DEF UpdateField
        <3> QED
            BY <1>1, <1>4, <2>5, <2>6, <2>7, <3>1, Names
<1> QED
    <2>1. \/ Processed(f) /\ (f \in Fields => Valid(f, posted))
             /\ Store(IF f \in Links THEN Bean ELSE [Bean EXCEPT ![f] = posted])
             /\ Stage(j, "updated", "accepted") /\ UNCHANGED intact
          \/ Store(Bean)
        BY <1>0 DEF UpdateField
    <2> QED
        BY <1>1, <1>4, <1>5, <2>1, Names

\* In order, a download changes nothing in the bean but the Java version.
LEMMA FormAccepted ==
    ASSUME PageIInv, Orderly, NEW j \in Jobs, jobs[j].stage = "sent", UNCHANGED <<client, calm>>,
           UpdateForm(j), Orderly'
    PROVE  OrderInv'
<1> DEFINE posted == jobs[j].posted
           valid == jobs[j].names /\ \A f \in Fields : Processed(f) => Valid(f, posted[f])
<1>1. /\ GeneratedFits /\ mpVersion \in VersionItems /\ OneRequest /\ SentInv(jobs[j])
      /\ jobs[j].source = "download" /\ Active(j) /\ UNCHANGED intact
    BY DEF PageIInv, OrderInv, UpdateForm, Active
<1>2. FormInv /\ PageInv(Fields, Waiting) /\ FormSent(posted)
    BY <1>1 DEF SentInv
<1>3. CASE valid /\ Stage(j, "updated", "accepted")
           /\ Store([f \in Fields |-> IF Processed(f) THEN posted[f] ELSE Bean[f]])
    <2> DEFINE bean == [f \in Fields |-> IF Processed(f) THEN posted[f] ELSE Bean[f]]
    <2>1. /\ jobs'[j].source = "download" /\ jobs'[j].posted = posted
          /\ jobs'[j].stage = "updated" /\ jobs'[j].outcome = "accepted" /\ jobs'[j].before = Bean
          /\ Active(j)' /\ jobs'[j].awaited
          /\ \A i \in Jobs \ {j} : ~Active(i)'
          /\ (calm => Len(requests) <= 1)'
          /\ Later' = Later /\ page' = page
        BY <1>1, <1>3, HandledRequest
    <2>2. posted["supportedServer"] # Null
        <3>1. Processed("supportedServer")
            BY Names DEF Processed, Enabled
        <3> QED
            BY <1>3, <3>1, Names DEF Valid
    <2>3. ASSUME NEW f \in Fields \ {"javaSEVersion"} PROVE bean[f] = Bean[f]
        BY <1>2, <2>2, ProcessedFields DEF FormSent
    <2>4. bean = [f \in Fields |-> bean[f]]
        OBVIOUS
    <2>5. bean.javaSEVersion =
            IF Processed("javaSEVersion") THEN posted["javaSEVersion"] ELSE javaSEVersion
        BY Names, BeanRecord
    <2>6. bean.supportedServer = posted["supportedServer"]
        <3>1. Processed("supportedServer")
            BY Names DEF Processed, Enabled
        <3> QED
            BY <3>1, Names
    <2>7. Store(bean)
        BY <1>3
    <2> HIDE DEF bean
    <2>8. /\ Bean' = bean /\ Items' = Items
          /\ UNCHANGED <<microProfileVersion, supportedServerItems, javaSEEnabled, javaSEItems,
                         specs, standaloneSpecs, generated>>
          /\ javaSEVersion' = bean.javaSEVersion
          /\ UNCHANGED <<mpVersion, buildTool, supportedServer, selectedSpecs,
                         selectedStandaloneSpecs>>
          /\ VersionItems' = VersionItems
        BY <2>3, <2>4, <2>7, StoredBean, BeanRecord, Names
    <2>9. /\ ~javaSEEnabled => javaSEVersion' = javaSEVersion
          /\ javaSEEnabled => javaSEVersion' \in javaSEItems
        <3>1. Processed("javaSEVersion") <=> javaSEEnabled
            BY ProcessedFields, Names DEF Enabled
        <3>2. ASSUME javaSEEnabled PROVE posted["javaSEVersion"] \in javaSEItems
            <4>1. Valid("javaSEVersion", posted["javaSEVersion"])
                BY <1>3, <3>1, <3>2, Names
            <4>2. javaSEItems # Null
                BY <1>2, <3>2 DEF FormInv, JavaInv
            <4> QED
                BY <4>1, <4>2, Names DEF Valid, Items, Listed
        <3> QED
            BY <2>5, <2>8, <3>1, <3>2
    <2>10. FormInv'
        <3>1. javaSEVersion' \in JavaVersions
            BY <1>2, <2>9 DEF FormInv, TypeOK, JavaInv
        <3> QED
            BY <1>2, <2>8, <2>9, <3>1 DEF FormInv, TypeOK, MenuInv, SpecsInv, StandaloneInv, JavaInv
    <2>11. FormStored(jobs[j].before)'
        <3>1. supportedServer' # Null
            BY <2>2, <2>3, <2>6, <2>8, Names, BeanRecord
        <3>2. javaSEEnabled' => javaSEVersion' \in javaSEItems'
            BY <2>8, <2>9
        <3>3. ~javaSEEnabled' => jobs'[j].before.javaSEVersion = javaSEVersion'
            BY <2>1, <2>8, <2>9, BeanRecord
        <3>4. SameBean(jobs[j].before, Fields \ {"javaSEVersion"})'
            BY <2>1, <2>3, <2>8 DEF SameBean
        <3> QED
            BY <2>10, <3>1, <3>2, <3>3, <3>4 DEF FormStored
    <2>12. PageInv(Fields \ Replaced(jobs[j].source), Later)'
        <3>1. Waiting = {} /\ Enabled' = Enabled
            BY <1>1, <2>8, DownloadActive DEF PageIInv, Enabled
        <3>2. ASSUME NEW g \in Fields PROVE InView(g, Later)'
            <4>1. InView(g, Waiting)
                BY <1>2 DEF PageInv
            <4>2. g # "javaSEVersion" => Bean'[g] = Bean[g]
                BY <2>3, <2>8
            <4> QED
                BY <1>1, <2>1, <2>8, <3>1, <4>1, <4>2 DEF InView, OptionShown
        <3> QED
            BY <3>2 DEF PageInv
    <2>13. UpdatedInv(jobs[j])'
        BY <2>1, <2>10, <2>11, <2>12, Names DEF UpdatedInv, FormInv
    <2>14. GeneratedFits' /\ (mpVersion \in VersionItems)'
        BY <1>1, <2>8 DEF GeneratedFits
    <2> QED
        BY <2>1, <2>13, <2>14, OneOrder
<1>4. CASE Stage(j, "refused", "rejected") /\ Store(Bean)
    <2>1. GeneratedFits' /\ (mpVersion \in VersionItems)'
        BY <1>1, <1>4, NothingStoredStep, SameView, VarsKeepVersions
    <2>2. /\ jobs'[j].stage = "refused" /\ Active(j)' /\ jobs'[j].awaited
          /\ \A i \in Jobs \ {j} : ~Active(i)'
          /\ (calm => Len(requests) <= 1)'
        BY <1>1, <1>4, HandledRequest
    <2> QED
        BY <2>1, <2>2, OneOrder
<1> QED
    BY <1>3, <1>4 DEF UpdateForm

LEMMA UpdateStep ==
    ASSUME PageIInv, NEW j \in Jobs, UpdateModel(j)
    PROVE  OrderInv'
<1> SUFFICES ASSUME Orderly' PROVE OrderInv'
    BY DEF OrderInv
<1>1. Orderly /\ jobs[j].stage = "sent" /\ UNCHANGED <<client, calm>>
    BY DEF UpdateModel, UpdateField, UpdateForm, Orderly
<1> QED
    BY <1>1, AjaxStored, FormAccepted DEF UpdateModel

-----------------------------------------------------------------------------
(* The second half of a request: the listener and the answer *)

\* The listener of a component computes what depends on it, and leaves alone what
\* the answer does not replace.
LEMMA ListenerStep ==
    ASSUME TypeOK, mpVersion \in VersionItems, NEW f \in Fields \ {"javaSEVersion"},
           NEW before, FieldStored(f, before), Listener(f), generated' = Null
    PROVE  /\ FormInv' /\ (mpVersion \in VersionItems)'
           /\ \A g \in Fields \ Replaced(f) :
                Items'[g] = Items[g] /\ Enabled'[g] = Enabled[g] /\ Bean'[g] = Bean[g]
<1>0. MenusKept(f) /\ Valid(f, Bean[f])
    BY DEF FieldStored
<1>1. CASE f = "mpVersion"
    <2>1. /\ MPVersionSelected(mpVersion, supportedServer)
          /\ UNCHANGED <<mpVersion, buildTool>>
        BY <1>1, Names DEF Listener
    <2>2. FormInv'
        BY <2>1, Recomputed DEF TypeOK
    <2>3. Fields \ Replaced(f) = {"mpVersion"}
        BY <1>1, Names, ReplacedFields
    <2>4. /\ Items'["mpVersion"] = Items["mpVersion"] /\ Enabled'["mpVersion"] = Enabled["mpVersion"]
          /\ Bean'["mpVersion"] = Bean["mpVersion"]
        BY <2>1 DEF Items, Enabled, Bean, VersionItems
    <2> QED
        BY <2>1, <2>2, <2>3, <2>4 DEF VersionItems
<1>2. CASE f = "buildTool"
    <2>1. /\ microProfileVersion' = mpVersion
          /\ supportedServerItems' = ServerItems(mpVersion, buildTool)
          /\ supportedServer' = ServerKept(ServerItems(mpVersion, buildTool), supportedServer)
          /\ UNCHANGED <<mpVersion, buildTool, java, examples, standalone>>
        BY <1>2, Names DEF Listener
    <2>2. SpecsInv /\ StandaloneInv /\ JavaInv
        BY <1>0, <1>2 DEF MenusKept
    <2>3. /\ supportedServer' \in {supportedServer, Null}
          /\ supportedServer' # Null => supportedServer' \in supportedServerItems'
        BY <2>1 DEF ServerKept
    <2>4. supportedServerItems' \subseteq Servers
        BY <2>1, TablesTyped DEF TypeOK
    <2>5. TypeOK'
        BY <2>1, <2>3, <2>4 DEF TypeOK, java, examples, standalone
    <2>6. MenuInv'
        BY <2>1, <2>3 DEF MenuInv
    <2>7. FormInv'
        BY <2>1, <2>2, <2>3, <2>5, <2>6 DEF FormInv, SpecsInv, StandaloneInv, JavaInv, java,
                                            examples, standalone
    <2>8. Fields \ Replaced(f) = {"mpVersion", "javaSEVersion"}
        BY <1>2, Names, ReplacedFields
    <2>9. /\ Items'["mpVersion"] = Items["mpVersion"] /\ Enabled'["mpVersion"] = Enabled["mpVersion"]
          /\ Bean'["mpVersion"] = Bean["mpVersion"]
        BY <2>1 DEF Items, Enabled, Bean, VersionItems
    <2>10. /\ Items'["javaSEVersion"] = Items["javaSEVersion"]
           /\ Enabled'["javaSEVersion"] = Enabled["javaSEVersion"]
           /\ Bean'["javaSEVersion"] = Bean["javaSEVersion"]
        BY <2>1 DEF Items, Enabled, Bean, Listed, java
    <2> QED
        BY <2>1, <2>7, <2>8, <2>9, <2>10 DEF VersionItems
<1>3. CASE f = "supportedServer"
    <2>1. RuntimeSelected
        BY <1>3, Names DEF Listener
    <2>2. /\ MenuInv /\ SpecsInv
          /\ mpVersion # Null => standaloneSpecs # Null
          /\ supportedServer \in supportedServerItems /\ supportedServer # Null
          /\ supportedServer \in Servers
          /\ javaSEEnabled => javaSEItems # Null
        BY <1>0, <1>3, BeanRecord DEF MenusKept, Valid, Items, Boxes, TypeOK
    <2>3. Fields \ Replaced(f) = {}
        BY <1>3, ReplacedFields
    <2>4. supportedServer \in ServerItems(mpVersion, buildTool)
        BY <2>2 DEF MenuInv
    <2>5. CASE mpVersion # Null
        <3>1. /\ DefineStandaloneExampleSpecs(supportedServer, microProfileVersion)
              /\ DefineJavaSEVersion(supportedServer, mpVersion)
              /\ buildTool' = ToolFor(supportedServer)
              /\ UNCHANGED <<mpVersion, microProfileVersion, supportedServer,
                             supportedServerItems, examples>>
            BY <2>1, <2>5 DEF RuntimeSelected
        <3>2. buildTool' = buildTool
            BY <3>1, <2>4, ToolStays
        <3>3. /\ StandaloneItems(supportedServer, mpVersion) \subseteq Standalone
              /\ SupportedJava(supportedServer, mpVersion) \subseteq JavaVersions
              /\ microProfileVersion = mpVersion
            BY <2>2, TablesTyped DEF MenuInv, TypeOK
        <3>4. /\ StandaloneItems(supportedServer, mpVersion) # Null
              /\ SupportedJava(supportedServer, mpVersion) # Null
            BY <3>3, MenusAssumption
        <3>5. /\ standaloneSpecs' = StandaloneItems(supportedServer, mpVersion)
              /\ selectedStandaloneSpecs' \subseteq standaloneSpecs'
            BY <3>1, <3>3 DEF DefineStandaloneExampleSpecs, Retain
        <3>6. /\ javaSEItems' = SupportedJava(supportedServer, mpVersion)
              /\ javaSEEnabled' \in BOOLEAN
              /\ javaSEVersion' \in JavaVersions
              /\ ~javaSEEnabled' => javaSEVersion' \in javaSEItems'
            BY <2>2, <2>5, <3>1, <3>3 DEF DefineJavaSEVersion, OfferJava, TypeOK
        <3>7. TypeOK'
            BY <3>1, <3>2, <3>3, <3>5, <3>6 DEF TypeOK, examples
        <3>8. MenuInv' /\ SpecsInv' /\ StandaloneInv' /\ JavaInv'
            BY <2>2, <3>1, <3>2, <3>4, <3>5, <3>6
               DEF MenuInv, SpecsInv, StandaloneInv, JavaInv, examples
        <3> QED
            BY <2>3, <3>1, <3>7, <3>8 DEF FormInv, VersionItems
    <2>6. CASE mpVersion = Null
        <3>1. /\ mpVersion' = Latest(supportedServer)
              /\ MPVersionSelected(Latest(supportedServer), supportedServer)
              /\ buildTool' = ToolFor(supportedServer')
            BY <2>1, <2>6 DEF RuntimeSelected
        <3>2. Latest(supportedServer) \in Versions /\ Latest(supportedServer) \in Offered(supportedServer)
            BY <2>2, TablesTyped
        <3>3. supportedServer \in ServerItems(Latest(supportedServer), buildTool)
            BY <2>4, <3>2 DEF ServerItems
        <3>4. supportedServer' = supportedServer
            BY <3>1, <3>3 DEF MPVersionSelected, ServerKept
        <3>5. buildTool' = buildTool
            BY <2>4, <3>1, <3>4, ToolStays
        <3>6. FormInv'
            BY <2>2, <3>1, <3>2, <3>5, Recomputed
        <3>7. (mpVersion \in VersionItems)'
            BY <2>2, <3>1, <3>2 DEF VersionItems
        <3> QED
            BY <2>3, <3>6, <3>7
    <2> QED
        BY <2>5, <2>6
<1>4. CASE f \in Boxes
    <2>1. UNCHANGED <<choices, java, examples, standalone>>
        BY <1>4, Names DEF Listener
    <2>2. FormInv
        BY <1>0, <1>4 DEF MenusKept
    <2>3. FormInv'
        BY <2>1, <2>2 DEF FormInv, TypeOK, MenuInv, SpecsInv, StandaloneInv, JavaInv,
                          choices, java, examples, standalone
    <2>4. Items' = Items /\ Enabled' = Enabled /\ Bean' = Bean /\ mpVersion' = mpVersion
        BY <2>1 DEF Items, Enabled, Bean, VersionItems, Listed, choices, java, examples, standalone
    <2> QED
        BY <2>3, <2>4 DEF VersionItems
<1> QED
    BY <1>1, <1>2, <1>3, <1>4, Names

\* A link changes the selections, and a box that is not rendered has none.
LEMMA LinkListenerStep ==
    ASSUME FormInv, mpVersion \in VersionItems, mpVersion # Null, NEW link \in Links,
           Listener(link), generated' = Null
    PROVE  /\ FormInv' /\ (mpVersion \in VersionItems)'
           /\ Items' = Items /\ Enabled' = Enabled
           /\ \A g \in Fields \ Boxes : Bean'[g] = Bean[g]
           /\ ~Enabled["microprofileStandaloneSpecs"] =>
                Bean'["microprofileStandaloneSpecs"] = Bean["microprofileStandaloneSpecs"]
<1>1. /\ UNCHANGED <<choices, java, specs, standaloneSpecs>>
      /\ \/ selectedSpecs' = specs /\ selectedStandaloneSpecs' = standaloneSpecs
         \/ selectedSpecs' = {} /\ selectedStandaloneSpecs' = {}
    BY Names DEF Listener
<1>2. /\ specs = SpecItems(mpVersion) /\ standaloneSpecs # Null
      /\ SpecItems(mpVersion) \subseteq Specs /\ standaloneSpecs \subseteq Standalone
    BY TablesTyped DEF FormInv, TypeOK, SpecsInv, StandaloneInv
<1>3. FormInv'
    BY <1>1, <1>2 DEF FormInv, TypeOK, MenuInv, SpecsInv, StandaloneInv, JavaInv, choices, java
<1>4. Items' = Items /\ Enabled' = Enabled /\ mpVersion' = mpVersion
    BY <1>1 DEF Items, Enabled, VersionItems, Listed, choices, java
<1>5. \A g \in Fields \ Boxes : Bean'[g] = Bean[g]
    BY <1>1, Names DEF Bean, choices, java
<1>6. ASSUME ~Enabled["microprofileStandaloneSpecs"]
      PROVE  Bean'["microprofileStandaloneSpecs"] = Bean["microprofileStandaloneSpecs"]
    <2>1. standaloneSpecs = {}
        BY <1>2, <1>6 DEF Enabled, Listed
    <2>2. selectedStandaloneSpecs = {} /\ selectedStandaloneSpecs' = {}
        BY <1>1, <1>2, <2>1 DEF FormInv, StandaloneInv
    <2> QED
        BY <2>2 DEF Bean
<1> QED
    BY <1>3, <1>4, <1>5, <1>6 DEF VersionItems

\* In order, the server and the lists are there when a listener is called.
LEMMA NothingThrown ==
    ASSUME NEW source,
           \/ source \in Fields \ {"javaSEVersion"} /\ Valid(source, Bean[source])
           \/ source \in Links /\ FormInv /\ mpVersion # Null
    PROVE  ~Throws(source)
<1>1. CASE source \in Fields \ {"javaSEVersion"} /\ Valid(source, Bean[source])
    BY <1>1, BeanRecord, Names DEF Throws, Valid
<1>2. CASE source \in Links /\ FormInv /\ mpVersion # Null
    BY <1>2, TablesTyped, MenusAssumption, Names DEF Throws, FormInv, SpecsInv, TypeOK
<1> QED
    BY <1>1, <1>2

\* The last request has been answered.
LEMMA AllAnswered ==
    ASSUME GeneratedFits', (mpVersion \in VersionItems)', FormInv', PageInv(Fields, {})',
           (calm => Len(requests) <= 1)', NEW j \in Jobs, \A i \in Jobs : ~Active(i)'
    PROVE  OrderInv'
BY OneOrder DEF Active

\* What an answer makes of a field of the page
AnswerShown(job, g) ==
    \/ page'[g] = View'[g]
    \/ page'[g] = page[g] /\ g \notin Replaced(job.source)
    \/ /\ g = job.source /\ job.outcome = "rejected"
       /\ page'[g] = [View'[g] EXCEPT !.value = job.posted]

LEMMA AnswerShows ==
    ASSUME NEW job, Rerender(job), job.source \in Sources, NEW g \in Fields
    PROVE  /\ AnswerShown(job, g)
           /\ job.source \in Links /\ g \in Boxes =>
                \/ page'[g] = View'[g]
                \/ /\ page'[g] = page[g] /\ g = "microprofileStandaloneSpecs"
                   /\ ~(page[g].enabled /\ View'[g].enabled)
<1>1. page'[g] =
        IF \/ g \notin Update[job.source]
           \/ /\ job.source \in Links /\ g = "microprofileStandaloneSpecs"
              /\ ~(page[g].enabled /\ View'[g].enabled)
        THEN page[g]
        ELSE IF g = job.source /\ job.outcome = "rejected" /\ View'[g].enabled
        THEN [View'[g] EXCEPT !.value = job.posted]
        ELSE View'[g]
    BY DEF Rerender
<1>2. CASE job.source \in Links
    <2>1. Update[job.source] = Boxes /\ Replaced(job.source) = {} /\ job.source \notin Fields
        BY <1>2, Names DEF Update, Replaced
    <2> QED
        BY <1>1, <1>2, <2>1 DEF AnswerShown
<1>3. CASE job.source \notin Links
    <2>1. job.source \in Fields /\ Replaced(job.source) = Update[job.source]
        BY <1>3, Names DEF Replaced
    <2> QED
        BY <1>1, <1>3, <2>1 DEF AnswerShown
<1> QED
    BY <1>2, <1>3

\* After an answer the page is in view, but for the events that still wait.
LEMMA AnsweredInView ==
    ASSUME PageIInv, Orderly, NEW j \in Jobs, jobs[j].stage = "updated", Answer(j),
           Respond(jobs[j])
    PROVE  /\ FormInv' /\ (mpVersion \in VersionItems)' /\ GeneratedFits'
           /\ intact' = intact
           /\ \A later : later = Later => PageInv(Fields, later)'
<1>0. PICK f, job, later : f = jobs[j].source /\ job = jobs[j] /\ later = Later
    OBVIOUS
<1>1. /\ GeneratedFits /\ mpVersion \in VersionItems /\ OneRequest /\ UpdatedInv(job)
      /\ job.source = f /\ f \in Sources /\ job.awaited /\ Active(j)
    BY <1>0 DEF PageIInv, OrderInv, Answer, Active, OneRequest
<1>2. /\ TypeOK /\ PageInv(Fields \ Replaced(f), later)
      /\ f \in Fields => f \in Fields \ {"javaSEVersion"}
      /\ job.outcome \in {"accepted", "skipped", "rejected"}
    BY <1>0, <1>1, Names DEF UpdatedInv
<1>3. CASE job.outcome = "accepted"
    <2>1. /\ f \in Fields => FieldStored(f, job.before)
          /\ f \in Links => mpVersion # Null /\ NothingStored(job)
        BY <1>0, <1>1, <1>3 DEF UpdatedInv
    <2>2. ~Throws(f)
        BY <1>1, <1>2, <2>1, NothingThrown, Names DEF FieldStored, NothingStored
    <2>3. Listener(f) /\ generated' = Null /\ UNCHANGED intact /\ Rerender(job)
        BY <1>0, <1>1, <1>3, <2>2 DEF Respond
    <2>4. GeneratedFits'
        BY <2>3 DEF GeneratedFits
    <2>5. ASSUME NEW g \in Fields PROVE AnswerShown(job, g)
        BY <1>1, <2>3, AnswerShows
    <2>6. CASE f \in Fields
        <3>1. /\ FormInv' /\ (mpVersion \in VersionItems)'
              /\ \A g \in Fields \ Replaced(f) :
                    Items'[g] = Items[g] /\ Enabled'[g] = Enabled[g] /\ Bean'[g] = Bean[g]
            BY <1>1, <1>2, <2>1, <2>3, <2>6, ListenerStep
        <3>2. ASSUME NEW g \in Fields PROVE InView(g, later)'
            <4>1. CASE page'[g] = View'[g]
                BY <3>1, <4>1, Rendered
            <4>2. CASE page'[g] = page[g] /\ g \notin Replaced(f)
                <5>1. InView(g, later)
                    BY <1>2, <4>2 DEF PageInv
                <5> QED
                    BY <2>3, <3>1, <4>2, <5>1 DEF InView, OptionShown
            <4> QED
                BY <1>1, <1>3, <2>5, <4>1, <4>2 DEF AnswerShown
        <3> QED
            BY <1>0, <2>3, <2>4, <3>1, <3>2 DEF PageInv
    <2>7. CASE f \in Links
        <3>1. Replaced(f) = {} /\ f \notin Fields
            BY <2>7, ReplacedFields, Names
        <3>2. /\ FormInv' /\ (mpVersion \in VersionItems)'
              /\ Items' = Items /\ Enabled' = Enabled
              /\ \A g \in Fields \ Boxes : Bean'[g] = Bean[g]
              /\ ~Enabled["microprofileStandaloneSpecs"] =>
                    Bean'["microprofileStandaloneSpecs"] = Bean["microprofileStandaloneSpecs"]
            BY <1>1, <2>1, <2>3, <2>7, LinkListenerStep DEF NothingStored
        <3>3. ASSUME NEW g \in Fields PROVE InView(g, later)'
            <4>1. CASE page'[g] = View'[g]
                BY <3>2, <4>1, Rendered
            <4>2. CASE page'[g] = page[g] /\ page'[g] # View'[g]
                <5>1. InView(g, later)
                    BY <1>2, <3>1 DEF PageInv
                <5>2. Bean'[g] = Bean[g]
                    <6>1. CASE g \notin Boxes
                        BY <3>2, <6>1
                    <6>2. CASE g \in Boxes
                        <7>1. g = "microprofileStandaloneSpecs" /\ ~(page[g].enabled /\ View'[g].enabled)
                            BY <1>1, <2>3, <2>7, <4>2, <6>2, AnswerShows
                        <7>2. page[g].enabled = Enabled[g] /\ View'[g].enabled = Enabled'[g]
                            BY <3>2, <5>1, BeanShownNext DEF InView, AsBean
                        <7> QED
                            BY <3>2, <7>1, <7>2
                    <6> QED
                        BY <6>1, <6>2
                <5> QED
                    BY <2>3, <3>2, <4>2, <5>1, <5>2 DEF InView, OptionShown
            <4> QED
                BY <1>1, <1>3, <2>5, <4>1, <4>2 DEF AnswerShown
        <3> QED
            BY <1>0, <2>3, <2>4, <3>2, <3>3 DEF PageInv
    <2> QED
        BY <1>1, <2>6, <2>7, Names
<1>4. CASE job.outcome # "accepted"
    <2>1. UNCHANGED <<vars, intact>> /\ Rerender(job) /\ NothingStored(job)
        BY <1>0, <1>1, <1>4 DEF Respond, UpdatedInv
    <2>2. /\ Items' = Items /\ Enabled' = Enabled /\ Bean' = Bean
          /\ FormInv' /\ GeneratedFits' /\ (mpVersion \in VersionItems)'
        BY <1>1, <2>1, SameView, VarsKeepVersions DEF NothingStored
    <2>3. ASSUME NEW g \in Fields PROVE InView(g, later)'
        <3>1. CASE page'[g] = View'[g]
            BY <2>2, <3>1, Rendered
        <3>2. CASE page'[g] = page[g] /\ g \notin Replaced(f)
            <4>1. InView(g, later)
                BY <1>2, <3>2 DEF PageInv
            <4> QED
                BY <2>1, <2>2, <3>2, <4>1 DEF InView, OptionShown
        <3>3. CASE /\ g = f /\ job.outcome = "rejected"
                   /\ page'[g] = [View'[g] EXCEPT !.value = job.posted]
            <4>1. g = "supportedServer" /\ job.posted = Null /\ ~intact
                BY <1>1, <2>1, <3>3 DEF NothingStored
            <4>2. View'[g].items = Items'[g] /\ View'[g].enabled = Enabled'[g] /\ IsShown(View'[g])
                BY <2>2, BeanShownNext DEF AsBean
            <4>3. /\ page'[g].items = Items'[g] /\ page'[g].enabled = Enabled'[g]
                  /\ page'[g].value = Null
                BY <3>3, <4>1, <4>2 DEF IsShown
            <4>4. Null \in Items'["supportedServer"]
                BY DEF Items
            <4> QED
                BY <2>1, <4>1, <4>3, <4>4 DEF InView, OptionShown, Boxes
        <3> QED
            BY <1>1, <2>1, <3>1, <3>2, <3>3, AnswerShows DEF AnswerShown
    <2> QED
        BY <1>0, <2>1, <2>2, <2>3 DEF PageInv
<1> QED
    BY <1>3, <1>4

\* An answer frees the place, and then the next event may take one.
LEMMA AnsweredPlaces ==
    ASSUME QueueInv, PlacesInv, OneRequest, NEW j \in Jobs, Active(j), Answer(j)
    PROVE  LET rest == [jobs EXCEPT ![j] = NoRequest] IN
           /\ requests \in Seq(Sources) /\ requests # <<>>
           /\ AreRequests(rest) /\ Poll(rest)
           /\ \A i \in Jobs : rest[i].stage = "free"
           /\ \A i \in Jobs : jobs'[i].stage \in {"free", "sent"}
<1> DEFINE rest == [jobs EXCEPT ![j] = NoRequest]
<1>1. jobs[j].source \in Sources /\ jobs[j].awaited
    BY DEF Answer, OneRequest
<1>2. j \in Xhrs /\ requests # <<>> /\ requests \in Seq(Sources) /\ ~nonAjaxPosted
    BY <1>1, AjaxActive
<1>3. Poll(rest)
    BY <1>1, <1>2 DEF Answer, Complete
<1>4. AreRequests(rest)
    BY <1>2, RestList
<1>5. \A i \in Jobs : rest[i].stage = "free"
    BY OthersFree DEF QueueInv, AreRequests, NoRequest, Active
<1> HIDE DEF rest
<1>6. \A i \in Jobs : jobs'[i].stage \in {"free", "sent"}
    <2>1. CASE jobs' = rest
        BY <1>5, <2>1
    <2>2. CASE jobs' # rest
        <3> DEFINE request == AjaxRequest(Head(Tail(requests)), page')
        <3>1. jobs' = Sent(rest, request) /\ Free(rest) # {}
            BY <1>3, <2>2 DEF Poll
        <3>2. request.stage = "sent"
            BY DEF AjaxRequest, Request
        <3> HIDE DEF request
        <3> QED
            BY <1>4, <1>5, <3>1, <3>2, SentPlace
    <2> QED
        BY <2>1, <2>2
<1> QED
    BY <1>2, <1>3, <1>4, <1>5, <1>6 DEF rest

\* The next event is sent when the page has been rendered.
LEMMA AnswerStep ==
    ASSUME PageIInv, Orderly, NEW j \in Jobs, jobs[j].stage = "updated", Answer(j),
           Respond(jobs[j])
    PROVE  OrderInv'
<1>0. PICK later : later = Later
    OBVIOUS
<1>1. /\ FormInv' /\ (mpVersion \in VersionItems)' /\ GeneratedFits'
      /\ PageInv(Fields, later)'
    BY <1>0, AnsweredInView
<1> DEFINE rest == [jobs EXCEPT ![j] = NoRequest]
<1>2. OneRequest /\ Active(j) /\ jobs[j].source \in Sources /\ jobs[j].awaited
    BY DEF PageIInv, OrderInv, Answer, Active, OneRequest
<1>3. /\ requests \in Seq(Sources) /\ requests # <<>>
      /\ AreRequests(rest) /\ Poll(rest)
      /\ \A i \in Jobs : rest[i].stage = "free"
    BY <1>2, AnsweredPlaces DEF PageIInv
<1>4. {Tail(requests)[i] : i \in DOMAIN Tail(requests)} = later
    BY <1>0, <1>3, QueueSets
<1>5. requests' = Tail(requests) /\ Tail(requests) \in Seq(Sources) /\ Waiting' = later
    BY <1>3, <1>4 DEF Poll, Waiting
<1> HIDE DEF rest
<1>6. CASE Tail(requests) = <<>>
    <2>1. later = {} /\ jobs' = rest
        BY <1>3, <1>4, <1>6 DEF Poll
    <2>2. (calm => Len(requests) <= 1)' /\ \A i \in Jobs : ~Active(i)'
        <3>1. Len(requests') = 0
            BY <1>5, <1>6
        <3> QED
            BY <1>3, <2>1, <3>1 DEF Active
    <2> QED
        BY <1>1, <2>1, <2>2, AllAnswered
<1>7. CASE Tail(requests) # <<>>
    <2> DEFINE source == Head(Tail(requests))
    <2>1. Free(rest) # {} /\ jobs' = Sent(rest, AjaxRequest(source, page')) /\ source \in Sources
        BY <1>3, <1>5, <1>7 DEF Poll
    <2>2. ~calm'
        <3>1. calm => Len(requests) <= 1
            BY <1>2 DEF OneRequest
        <3>2. Len(requests) > 1
            BY <1>3, <1>5, <1>7
        <3> QED
            BY <1>3, <3>1, <3>2 DEF Respond
    <2>3. PageInv(Fields, Waiting)'
        BY <1>1, <1>5
    <2>4. PICK f : f = source
        OBVIOUS
    <2>5. f \in Fields => FieldSent(f, Posted(page, f))'
        BY <2>1, <2>2, <2>3, <2>4, FieldRead, Names DEF PageInv
    <2> HIDE DEF source
    <2> QED
        BY <1>1, <1>3, <2>1, <2>2, <2>3, <2>4, <2>5, SendStep
<1> QED
    BY <1>6, <1>7

\* A download leaves no request behind.
LEMMA GeneratedPlaces ==
    ASSUME QueueInv, PlacesInv, OneRequest, NEW j \in Jobs, Active(j), Generate(j)
    PROVE  \A i \in Jobs : ~Active(i)'
<1>1. \A i \in Jobs \ {j} : jobs[i].stage = "free"
    BY OthersFree DEF Active
<1>2. \A i \in Jobs : Unawaited(jobs)[i] = GivenUp(jobs[i]) /\ IsRequest(jobs[i])
    BY DEF QueueInv, AreRequests, Unawaited, GivenUp
<1>3. \A i \in Jobs \ {j} : Unawaited(jobs)[i].stage = "free"
    BY <1>1, <1>2, RequestGivenUp
<1>4. jobs' = [Unawaited(jobs) EXCEPT ![j] = NoRequest] \/ jobs' = [jobs EXCEPT ![j] = NoRequest]
    BY DEF Generate
<1>5. AreRequests(jobs) /\ AreRequests(Unawaited(jobs))
    BY UnawaitedList DEF QueueInv
<1>6. NoRequest.stage = "free"
    BY DEF NoRequest
<1> QED
    BY <1>1, <1>3, <1>4, <1>5, <1>6 DEF Active, AreRequests

\* A download in order is what the page has shown, and fits together.
LEMMA GeneratedStep ==
    ASSUME PageIInv, Orderly, NEW j \in Jobs, jobs[j].stage = "updated", Generate(j)
    PROVE  OrderInv'
<1>1. /\ GeneratedFits /\ mpVersion \in VersionItems /\ OneRequest /\ UpdatedInv(jobs[j])
      /\ jobs[j].source = "download" /\ jobs[j].awaited /\ Active(j)
      /\ UNCHANGED <<choices, java, examples, standalone, intact>>
    BY DEF PageIInv, OrderInv, Generate, Active, OneRequest
<1>2. FormStored(jobs[j].before) /\ PageInv(Fields, Later)
    BY <1>1, Names, ReplacedFields DEF UpdatedInv
<1>3. /\ FormInv /\ supportedServer # Null
      /\ javaSEEnabled => javaSEVersion \in javaSEItems
    BY <1>2 DEF FormStored
<1>4. /\ generated' =
            IF mpVersion = Null THEN Null
            ELSE [server |-> supportedServer, version |-> mpVersion, java |-> javaSEVersion,
                  tool |-> buildTool, specs |-> selectedSpecs,
                  standalone |-> selectedStandaloneSpecs]
    BY <1>3 DEF Generate
<1>5. FormInv' /\ GeneratedFits'
    <2>1. GenerateProject
        BY <1>1, <1>3, <1>4 DEF GenerateProject, choices, java, examples, standalone
    <2> QED
        BY <1>3, <2>1, GenerateStep DEF IInv
<1>6. /\ Items' = Items /\ Enabled' = Enabled /\ Bean' = Bean /\ View' = View
      /\ (mpVersion \in VersionItems)'
    BY <1>1 DEF Items, Enabled, Bean, View, Shown, Displayed, VersionItems, choices, java,
                examples, standalone
<1>7. requests = <<>> /\ Later = {}
    BY <1>1, DownloadActive DEF PageIInv
<1>8. requests' = <<>>
    BY <1>7 DEF Generate
<1>9. \A i \in Jobs : ~Active(i)'
    BY <1>1, GeneratedPlaces DEF PageIInv
<1>10. ASSUME NEW g \in Fields PROVE InView(g, {})'
    <2>1. CASE page' = View
        BY <1>5, <1>6, <2>1, Rendered
    <2>2. CASE page' = page
        BY <1>1, <1>2, <1>6, <1>7, <2>2 DEF PageInv, InView, OptionShown
    <2> QED
        BY <2>1, <2>2 DEF Generate
<1> QED
    BY <1>5, <1>6, <1>8, <1>9, <1>10, AllAnswered DEF PageInv

\* An error is the end of order.
LEMMA RespondedInOrder ==
    ASSUME NEW j \in Jobs, Finish(j), Orderly'
    PROVE  /\ jobs[j].stage = "updated" /\ UNCHANGED calm /\ Orderly
           /\ (Answer(j) /\ Respond(jobs[j])) \/ Generate(j)
<1>1. ASSUME NEW job, RespondWithError(job) PROVE FALSE
    BY <1>1 DEF RespondWithError, Orderly
<1>2. (Answer(j) /\ Respond(jobs[j])) \/ Generate(j)
    BY <1>1 DEF Finish, Answer
<1>3. UNCHANGED <<calm, intact>>
    BY <1>2 DEF Respond, Generate
<1> QED
    BY <1>2, <1>3 DEF Finish, Orderly

LEMMA FinishStep ==
    ASSUME PageIInv, NEW j \in Jobs, Finish(j)
    PROVE  OrderInv'
<1> SUFFICES ASSUME Orderly' PROVE OrderInv'
    BY DEF OrderInv
<1> QED
    BY RespondedInOrder, AnswerStep, GeneratedStep

-----------------------------------------------------------------------------
(* The places and the fields *)

\* A place is free, or has a request of the page.
Placed(job) ==
    /\ job.stage \in {"free", "sent", "updated", "refused"}
    /\ job.stage # "free" => job.source \in Sources \cup {"download"}
    /\ job.stage = "free" => job.source = "none"

LEMMA AllPlaced == PlacesInv <=> \A j \in Jobs : Placed(jobs[j])
BY DEF PlacesInv, Placed, Active

LEMMA AllPlacedNext == (\A j \in Jobs : Placed(jobs[j]))' => PlacesInv'
BY DEF PlacesInv, Placed, Active

LEMMA RequestsPlaced ==
    /\ Placed(NoRequest)
    /\ \A source \in Sources : \A shown : Placed(AjaxRequest(source, shown))
    /\ \A posted, names : Placed(Request("download", posted, names))
BY DEF Placed, NoRequest, AjaxRequest, Request

LEMMA SentPlaced ==
    ASSUME NEW list, AreRequests(list), Free(list) # {}, \A j \in Jobs : Placed(list[j]),
           NEW request, Placed(request), jobs' = Sent(list, request)
    PROVE  PlacesInv'
<1>1. PICK place \in Jobs : /\ jobs'[place] = request
                            /\ \A i \in Jobs \ {place} : jobs'[i] = list[i]
    BY SentPlace
<1>2. \A i \in Jobs : Placed(jobs'[i])
    BY <1>1
<1> QED
    BY <1>2, AllPlacedNext DEF Placed

LEMMA CompletePlaced ==
    ASSUME QueueInv, Xhrs # {}, NEW rest, AreRequests(rest), \A j \in Jobs : Placed(rest[j]),
           Complete(rest)
    PROVE  PlacesInv'
<1>1. ~nonAjaxPosted /\ requests # <<>> /\ requests \in Seq(Sources)
    BY DEF QueueInv, OneAtATime
<1>2. Poll(rest)
    BY <1>1 DEF Complete
<1>3. CASE jobs' = rest
    BY <1>3, AllPlacedNext DEF Placed
<1>4. CASE jobs' # rest
    <2> DEFINE request == AjaxRequest(Head(Tail(requests)), page')
    <2>1. jobs' = Sent(rest, request) /\ Free(rest) # {} /\ Tail(requests) # <<>>
        BY <1>2, <1>4 DEF Poll
    <2>2. Head(Tail(requests)) \in Sources
        BY <1>1, <2>1
    <2>3. Placed(request)
        BY <2>2, RequestsPlaced
    <2> HIDE DEF request
    <2> QED
        BY <2>1, <2>3, SentPlaced
<1> QED
    BY <1>3, <1>4

LEMMA PlacesStep ==
    ASSUME PageIInv, PageNext
    PROVE  PlacesInv'
<1>0. /\ QueueInv /\ AreRequests(jobs) /\ \A j \in Jobs : Placed(jobs[j]) /\ IsRequest(jobs[j])
    BY AllPlaced DEF PageIInv, QueueInv, AreRequests
<1>1. ASSUME NEW source \in Sources, Offer(source) PROVE PlacesInv'
    <2>1. CASE jobs' = jobs
        BY <1>0, <2>1, AllPlacedNext DEF Placed
    <2>2. CASE jobs' = Sent(jobs, AjaxRequest(source, page')) /\ Free(jobs) # {}
        <3>1. Placed(AjaxRequest(source, page'))
            BY RequestsPlaced
        <3> QED
            BY <1>0, <2>2, <3>1, SentPlaced
    <2> QED
        BY <1>1, <2>1, <2>2 DEF Offer
<1>2. CASE Change
    BY <1>1, <1>2, Names DEF Change
<1>3. CASE ChangeJava
    BY <1>0, <1>3, AllPlacedNext DEF ChangeJava, Placed
<1>4. CASE ClickLink
    BY <1>1, <1>4, Names DEF ClickLink
<1>5. CASE Download
    <2>1. PICK names \in BOOLEAN :
            jobs' = Sent(Unawaited(jobs), Request("download", [f \in Fields |-> Posted(page, f)], names))
        BY <1>5 DEF Download, OnPost
    <2>2. \A j \in Jobs : Unawaited(jobs)[j] = GivenUp(jobs[j])
        BY <1>0 DEF AreRequests, Unawaited, GivenUp
    <2>3. \A j \in Jobs : /\ Unawaited(jobs)[j].stage = jobs[j].stage
                          /\ Unawaited(jobs)[j].source = jobs[j].source
        BY <1>0, <2>2, RequestGivenUp
    <2>4. AreRequests(Unawaited(jobs)) /\ Free(Unawaited(jobs)) # {}
        BY <1>0, <1>5, <2>3, UnawaitedList DEF Download, Free
    <2>5. \A j \in Jobs : Placed(Unawaited(jobs)[j])
        BY <1>0, <2>3 DEF Placed
    <2>6. Placed(Request("download", [f \in Fields |-> Posted(page, f)], names))
        BY RequestsPlaced
    <2> QED
        BY <2>1, <2>4, <2>5, <2>6, SentPlaced
<1>6. ASSUME NEW j \in Xhrs, Complete([jobs EXCEPT ![j] = NoRequest]) PROVE PlacesInv'
    <2>1. AreRequests([jobs EXCEPT ![j] = NoRequest])
        BY <1>0, RestList
    <2>2. \A i \in Jobs : Placed([jobs EXCEPT ![j] = NoRequest][i])
        BY <1>0, RequestsPlaced DEF AreRequests
    <2> QED
        BY <1>0, <1>6, <2>1, <2>2, CompletePlaced
<1>7. CASE Fail
    <2>1. PICK j \in Xhrs : \/ Complete([jobs EXCEPT ![j] = NoRequest])
                            \/ Complete([jobs EXCEPT ![j].awaited = FALSE])
        BY <1>7 DEF Fail
    <2>2. CASE Complete([jobs EXCEPT ![j].awaited = FALSE])
        <3> DEFINE rest == [jobs EXCEPT ![j].awaited = FALSE]
        <3>1. AreRequests(rest) /\ j \in Jobs
            BY <1>0, RestList DEF Xhrs
        <3>2. rest = [jobs EXCEPT ![j] = GivenUp(jobs[j])]
            BY <1>0, <3>1 DEF AreRequests, GivenUp
        <3>3. Placed(GivenUp(jobs[j]))
            <4>1. /\ GivenUp(jobs[j]).source = jobs[j].source
                  /\ GivenUp(jobs[j]).stage = jobs[j].stage
                BY <1>0, <3>1, RequestGivenUp
            <4> QED
                BY <1>0, <3>1, <4>1 DEF Placed
        <3>4. \A i \in Jobs : Placed(rest[i])
            BY <1>0, <3>2, <3>3 DEF AreRequests
        <3> HIDE DEF rest
        <3>5. Complete(rest)
            BY <2>2 DEF rest
        <3> QED
            BY <1>0, <3>1, <3>4, <3>5, CompletePlaced
    <2> QED
        BY <1>6, <2>1, <2>2
<1>8. ASSUME NEW j \in Jobs, UpdateModel(j) PROVE PlacesInv'
    <2>1. PICK stage, outcome : stage \in {"updated", "refused"} /\ Stage(j, stage, outcome)
        BY <1>8 DEF UpdateModel, UpdateField, UpdateForm
    <2>2. jobs' = [jobs EXCEPT ![j] = Handled(jobs[j], stage, outcome, Bean)]
        BY <1>0, <2>1 DEF Stage, AreRequests, Handled
    <2>3. /\ Handled(jobs[j], stage, outcome, Bean).stage = stage
          /\ Handled(jobs[j], stage, outcome, Bean).source = jobs[j].source
        BY <1>0, RequestHandled
    <2>4. jobs[j].source \in Sources \cup {"download"}
        BY <1>8 DEF UpdateModel, UpdateField, UpdateForm
    <2>5. Placed(Handled(jobs[j], stage, outcome, Bean))
        BY <2>1, <2>3, <2>4 DEF Placed
    <2>6. \A i \in Jobs : Placed(jobs'[i])
        BY <1>0, <2>2, <2>5 DEF AreRequests
    <2> QED
        BY <2>6, AllPlacedNext DEF Placed
<1>9. ASSUME NEW j \in Jobs, Finish(j) PROVE PlacesInv'
    <2>1. CASE Answer(j) /\ jobs[j].awaited
        BY <1>6, <2>1 DEF Answer, Xhrs
    <2>2. CASE jobs' = [jobs EXCEPT ![j] = NoRequest]
        <3>1. \A i \in Jobs : Placed(jobs'[i])
            BY <1>0, <2>2, RequestsPlaced DEF AreRequests
        <3> QED
            BY <3>1, AllPlacedNext DEF Placed
    <2>3. CASE jobs' = [Unawaited(jobs) EXCEPT ![j] = NoRequest]
        <3>1. \A i \in Jobs : Unawaited(jobs)[i] = GivenUp(jobs[i])
            BY <1>0 DEF AreRequests, Unawaited, GivenUp
        <3>2. \A i \in Jobs : /\ Unawaited(jobs)[i].stage = jobs[i].stage
                              /\ Unawaited(jobs)[i].source = jobs[i].source
            BY <1>0, <3>1, RequestGivenUp
        <3>3. \A i \in Jobs : Placed(Unawaited(jobs)[i])
            BY <1>0, <3>2 DEF Placed
        <3>4. AreRequests(Unawaited(jobs))
            BY <1>0, UnawaitedList
        <3>5. \A i \in Jobs : Placed(jobs'[i])
            BY <2>3, <3>3, <3>4, RequestsPlaced DEF AreRequests
        <3> QED
            BY <3>5, AllPlacedNext DEF Placed
    <2> QED
        BY <1>9, <2>1, <2>2, <2>3 DEF Finish, Answer, Generate
<1> QED
    BY <1>2, <1>3, <1>4, <1>5, <1>7, <1>8, <1>9 DEF PageNext

LEMMA ViewShown ==
    /\ View = [f \in Fields |-> View[f]] /\ \A f \in Fields : IsShown(View[f])
    /\ View' = [f \in Fields |-> View'[f]] /\ \A f \in Fields : IsShown(View'[f])
BY DEF View, Shown, IsShown

LEMMA ShownStep ==
    ASSUME ShownInv, PageNext
    PROVE  ShownInv'
<1>1. ASSUME NEW f \in Fields, NEW value, page' = [page EXCEPT ![f].value = value]
      PROVE  ShownInv'
    BY <1>1 DEF ShownInv, IsShown
<1>2. CASE page' = page
    BY <1>2 DEF ShownInv, IsShown
<1>3. CASE page' = View
    BY <1>3, ViewShown DEF ShownInv, IsShown
<1>4. ASSUME NEW job, Rerender(job) PROVE ShownInv'
    <2>1. ASSUME NEW f \in Fields PROVE IsShown(page'[f])
        <3>1. IsShown(page[f]) /\ IsShown(View'[f])
            BY ViewShown DEF ShownInv
        <3>2. IsShown([View'[f] EXCEPT !.value = job.posted])
            BY <3>1 DEF IsShown
        <3> QED
            BY <1>4, <3>1, <3>2 DEF Rerender
    <2>2. page' = [f \in Fields |-> page'[f]]
        BY <1>4 DEF Rerender
    <2> QED
        BY <2>1, <2>2 DEF ShownInv, IsShown
<1>5. CASE Change
    <2>1. PICK f, value : f \in Fields /\ page' = [page EXCEPT ![f].value = value]
        BY <1>5 DEF Change
    <2> QED
        BY <1>1, <2>1
<1>6. CASE ChangeJava
    <2>1. PICK value : page' = [page EXCEPT !["javaSEVersion"].value = value]
        BY <1>6 DEF ChangeJava
    <2> QED
        BY <1>1, <2>1, Names
<1>7. CASE ClickLink \/ Download \/ Fail
    BY <1>2, <1>7 DEF ClickLink, Download, Fail
<1>8. ASSUME NEW j \in Jobs, UpdateModel(j) \/ Finish(j) PROVE ShownInv'
    BY <1>2, <1>3, <1>4, <1>8 DEF UpdateModel, Finish, Answer, Respond, RespondWithError, Generate, client
<1> QED
    BY <1>5, <1>6, <1>7, <1>8 DEF PageNext

-----------------------------------------------------------------------------
(* The invariant *)

LEMMA PageIInit == PageInit => PageIInv
<1> SUFFICES ASSUME PageInit PROVE PageIInv
    OBVIOUS
<1>1. FormInv /\ GeneratedFits /\ mpVersion \in VersionItems
    BY InitForm DEF PageInit, IInv, Init, VersionItems
<1>2. page = View /\ \A j \in Jobs : jobs[j] = NoRequest
    BY DEF PageInit
<1>3. PlacesInv
    BY <1>2 DEF PlacesInv, NoRequest, Active
<1>4. ShownInv
    BY <1>2, ViewShown DEF ShownInv
<1>5. ASSUME NEW f \in Fields PROVE InView(f, {})
    BY <1>1, <1>2, BeanShown DEF InView, OptionShown, AsBean
<1>6. OneRequest
    BY <1>2 DEF OneRequest, Active, NoRequest, PageInit
<1>7. OrderInv
    BY <1>1, <1>2, <1>5, <1>6 DEF OrderInv, PageInv, NoRequest
<1> QED
    BY <1>3, <1>4, <1>7, QueueInit DEF PageIInv

LEMMA PageStep == PageIInv /\ [PageNext]_pageVars => PageIInv'
<1> SUFFICES ASSUME PageIInv, [PageNext]_pageVars PROVE PageIInv'
    OBVIOUS
<1>1. QueueInv'
    BY QueueNext DEF PageIInv
<1>2. CASE PageNext
    <2>1. PlacesInv' /\ ShownInv'
        BY <1>2, PlacesStep, ShownStep DEF PageIInv
    <2>2. CASE Fail
        BY <1>1, <2>1, <2>2 DEF Fail, PageIInv, OrderInv, Orderly
    <2>3. CASE ~Fail
        <3>1. OrderInv'
            BY <1>2, <2>3, ChangeStep, JavaStep, LinkStep, DownloadStep, UpdateStep, FinishStep
               DEF PageNext
        <3> QED
            BY <1>1, <2>1, <3>1 DEF PageIInv
    <2> QED
        BY <2>2, <2>3
<1>3. CASE UNCHANGED pageVars
    <2>1. UNCHANGED <<vars, requests, jobs, calm, intact>> /\ page' = page
        BY <1>3 DEF pageVars, client
    <2>2. OrderInv'
        BY <2>1, StillStep
    <2>3. PlacesInv' /\ ShownInv'
        BY <2>1 DEF PageIInv, PlacesInv, ShownInv, Active, IsShown
    <2> QED
        BY <1>1, <2>2, <2>3 DEF PageIInv
<1> QED
    BY <1>2, <1>3

\* The invariant holds whatever the user does and whatever the network loses.
THEOREM PageInvariant == PageSpec => []PageIInv
<1> QED
    BY PageIInit, PageStep, PTL DEF PageSpec

\* When every answer is there, the page shows what the bean has, even to a user
\* who has not waited for them, and what has been generated fits together: with
\* any tables, as long as the server gets the requests one by one and no answer is
\* lost or an error (as that of a blank version may be).
THEOREM InStepCorrect == PageSpec => []InStep
<1>1. ASSUME PageIInv PROVE InStep
    <2> SUFFICES ASSUME intact
        PROVE  /\ Idle => \A f \in Fields :
                    /\ page[f].items = View[f].items /\ page[f].enabled = View[f].enabled
                    /\ f # "javaSEVersion" => page[f].value = View[f].value
               /\ GeneratedFits
        BY DEF InStep
    <2>1. OrderInv /\ Orderly
        BY <1>1 DEF PageIInv, Orderly
    <2>2. ASSUME Idle, NEW f \in Fields
          PROVE  /\ page[f].items = View[f].items /\ page[f].enabled = View[f].enabled
                 /\ f # "javaSEVersion" => page[f].value = View[f].value
        <3>1. FormInv /\ PageInv(Fields, {}) /\ mpVersion \in VersionItems
            BY <2>1, <2>2 DEF OrderInv, Idle, Active
        <3>2. AsBean(f) /\ InView(f, {})
            BY <3>1, BeanShown DEF PageInv
        <3> QED
            BY <3>2 DEF AsBean, InView
    <2> QED
        BY <2>1, <2>2 DEF OrderInv
<1> QED
    BY <1>1, PageInvariant, PTL

-----------------------------------------------------------------------------
(* The page implements the form *)

\* The form's operators are those of the bean: only its state is mapped.
LEMMA SameTables ==
    /\ Form!VersionItems = VersionItems
    /\ \A v, tool : Form!ServerItems(v, tool) = ServerItems(v, tool)
    /\ \A items, s : Form!ServerKept(items, s) = ServerKept(items, s)
    /\ \A v : Form!SpecItems(v) = SpecItems(v)
    /\ \A s, v : Form!StandaloneItems(s, v) = StandaloneItems(s, v)
    /\ \A selected, items : Form!Retain(selected, items) = Retain(selected, items)
    /\ \A s, v : Form!SupportedJava(s, v) = SupportedJava(s, v)
    /\ \A s : Form!Latest(s) = Latest(s)
    /\ \A versions : Form!Cardinality(versions) = Cardinality(versions)
<1>1. Form!VersionItems = VersionItems
    BY DEF Form!VersionItems, VersionItems, Form!Offered, Offered
<1>2. \A v, tool : Form!ServerItems(v, tool) = ServerItems(v, tool)
    BY DEF Form!ServerItems, ServerItems, Form!Offered, Offered
<1>3. \A items, s : Form!ServerKept(items, s) = ServerKept(items, s)
    BY DEF Form!ServerKept, ServerKept
<1>4. \A v : Form!SpecItems(v) = SpecItems(v)
    BY DEF Form!SpecItems, SpecItems, Form!SpecsIn, SpecsIn
<1>5. \A s, v : Form!StandaloneItems(s, v) = StandaloneItems(s, v)
    BY DEF Form!StandaloneItems, StandaloneItems, Form!ShownForVersion, ShownForVersion,
           Form!EnabledFor, EnabledFor, Form!IsEnabled, IsEnabled,
           Form!NotOlder, NotOlder
<1>6. \A selected, items : Form!Retain(selected, items) = Retain(selected, items)
    BY DEF Form!Retain, Retain
<1>7. \A s, v : Form!SupportedJava(s, v) = SupportedJava(s, v)
    BY DEF Form!SupportedJava, SupportedJava, Form!Rule, Rule,
           Form!NotOlder, NotOlder
<1>8. \A s : Form!Latest(s) = Latest(s)
    BY DEF Form!Latest, Latest
<1>9. \A versions : Form!Cardinality(versions) = Cardinality(versions)
    BY DEF Form!Cardinality, Cardinality
<1> QED
    BY <1>1, <1>2, <1>3, <1>4, <1>5, <1>6, <1>7, <1>8, <1>9

\* The bean as the form sees it: as it was before the request that is handled.
LEMMA BeforeMapped ==
    /\ (\A j \in Jobs : jobs[j].stage # "updated") => Before = Bean
    /\ \A j \in Jobs :
            /\ jobs[j].stage = "updated"
            /\ \A i \in Jobs \ {j} : jobs[i].stage # "updated"
            => Before = jobs[j].before
<1>1. ASSUME \A j \in Jobs : jobs[j].stage # "updated" PROVE Before = Bean
    <2>1. {j \in Jobs : jobs[j].stage = "updated"} = {}
        BY <1>1
    <2> QED
        BY <2>1 DEF Before
<1>2. ASSUME NEW j \in Jobs, jobs[j].stage = "updated",
             \A i \in Jobs \ {j} : jobs[i].stage # "updated"
      PROVE  Before = jobs[j].before
    <2>1. {i \in Jobs : jobs[i].stage = "updated"} = {j}
        BY <1>2
    <2>2. (CHOOSE i \in {j} : TRUE) = j
        OBVIOUS
    <2> QED
        BY <2>1, <2>2 DEF Before
<1> QED
    BY <1>1, <1>2

LEMMA BeforeMappedNext ==
    (/\ (\A j \in Jobs : jobs[j].stage # "updated") => Before = Bean
     /\ \A j \in Jobs :
            /\ jobs[j].stage = "updated"
            /\ \A i \in Jobs \ {j} : jobs[i].stage # "updated"
            => Before = jobs[j].before)'
<1> QED
    BY BeforeMapped, PTL

LEMMA BeanRecordNext ==
    /\ Bean'.mpVersion = mpVersion' /\ Bean'.javaSEVersion = javaSEVersion'
    /\ Bean'.buildTool = buildTool' /\ Bean'.supportedServer = supportedServer'
    /\ Bean'.microprofileSpecs = selectedSpecs'
    /\ Bean'.microprofileStandaloneSpecs = selectedStandaloneSpecs'
BY DEF Bean

\* The rest of the form's state is the bean's own.
LEMMA FormStutters ==
    ASSUME Before' = Before,
           UNCHANGED <<microProfileVersion, supportedServerItems, javaSEEnabled, javaSEItems,
                       specs, standaloneSpecs, generated>>
    PROVE  UNCHANGED Form!vars
BY DEF Form!vars, Form!choices, Form!java, Form!examples, Form!standalone

LEMMA SelectedMapped ==
    ASSUME Before.buildTool = buildTool, Before.javaSEVersion = javaSEVersion,
           Before.microprofileSpecs = selectedSpecs,
           Before.microprofileStandaloneSpecs = selectedStandaloneSpecs,
           Before' = Bean', NEW version, NEW s, MPVersionSelected(version, s)
    PROVE  Form!MPVersionSelected(version, s)
<1> DEFINE items == ServerItems(version, buildTool)
           kept == ServerKept(items, s)
<1>1. /\ microProfileVersion' = version
      /\ supportedServerItems' = items /\ supportedServer' = kept
      /\ DefineExampleSpecs(version)
      /\ DefineStandaloneExampleSpecs(kept, version)
      /\ DefineJavaSEVersion(kept, version)
    BY DEF MPVersionSelected
<1>2. items = Form!ServerItems(version, Before.buildTool) /\ kept = Form!ServerKept(items, s)
    BY SameTables
<1> HIDE DEF items, kept
<1>3. Form!DefineExampleSpecs(version)
    BY <1>1, SameTables, BeanRecordNext DEF DefineExampleSpecs, Form!DefineExampleSpecs
<1>4. Form!DefineStandaloneExampleSpecs(kept, version)
    BY <1>1, SameTables, BeanRecordNext
       DEF DefineStandaloneExampleSpecs, Form!DefineStandaloneExampleSpecs
<1>5. Form!DefineJavaSEVersion(kept, version)
    BY <1>1, SameTables, BeanRecordNext
       DEF DefineJavaSEVersion, Form!DefineJavaSEVersion, OfferJava, Form!OfferJava
<1> QED
    BY <1>1, <1>2, <1>3, <1>4, <1>5, BeanRecordNext DEF Form!MPVersionSelected

\* An answer is one choice of the user, or nothing when the request was refused.
LEMMA FieldMapped ==
    ASSUME TypeOK, mpVersion \in VersionItems, calm, NEW f \in Fields \ {"javaSEVersion"},
           FieldStored(f, Before), Listener(f), generated' = Null, Before' = Bean'
    PROVE  Form!Next
<1>0. /\ MenusKept(f) /\ Valid(f, Bean[f]) /\ Enabled[f]
      /\ f \in Boxes => OneBox(f, Bean[f], Before[f])
      /\ \A g \in Fields \ {f} : Before[g] = Bean[g]
    BY DEF FieldStored, SameBean
<1>1. CASE f = "mpVersion"
    <2>1. MPVersionSelected(mpVersion, supportedServer) /\ UNCHANGED <<mpVersion, buildTool>>
        BY <1>1, Names DEF Listener
    <2>2. /\ Before.supportedServer = supportedServer /\ Before.buildTool = buildTool
          /\ Before.javaSEVersion = javaSEVersion /\ Before.microprofileSpecs = selectedSpecs
          /\ Before.microprofileStandaloneSpecs = selectedStandaloneSpecs
        BY <1>0, <1>1, BeanRecord, Names
    <2>3. Form!MPVersionSelected(mpVersion, Before.supportedServer)
        BY <2>1, <2>2, SelectedMapped
    <2>4. Form!SelectMPVersion
        BY <2>1, <2>2, <2>3, SameTables, BeanRecordNext DEF Form!SelectMPVersion
    <2> QED
        BY <2>4 DEF Form!Next
<1>2. CASE f = "buildTool"
    <2>1. /\ microProfileVersion' = mpVersion
          /\ supportedServerItems' = ServerItems(mpVersion, buildTool)
          /\ supportedServer' = ServerKept(ServerItems(mpVersion, buildTool), supportedServer)
          /\ UNCHANGED <<mpVersion, buildTool, java, examples, standalone>>
        BY <1>2, Names DEF Listener
    <2>2. /\ Before.supportedServer = supportedServer /\ Before.mpVersion = mpVersion
          /\ Before.javaSEVersion = javaSEVersion /\ Before.microprofileSpecs = selectedSpecs
          /\ Before.microprofileStandaloneSpecs = selectedStandaloneSpecs
        BY <1>0, <1>2, BeanRecord, Names
    <2>3. supportedServer = Null \/ supportedServer \in GradleServers
        BY <1>0, <1>2 DEF Enabled
    <2>4. UNCHANGED <<Before.mpVersion, Form!java, Form!examples, Form!standalone>>
        BY <2>1, <2>2, BeanRecordNext
           DEF java, examples, standalone, Form!java, Form!examples, Form!standalone
    <2>5. buildTool \in {"Maven", "Gradle"} /\ (Before.buildTool)' = buildTool
        BY <2>1, BeanRecordNext DEF TypeOK
    <2>6. (Before.supportedServer)' =
            Form!ServerKept(Form!ServerItems(Before.mpVersion, buildTool), Before.supportedServer)
        BY <2>1, <2>2, SameTables, BeanRecordNext
    <2>7. Form!SelectBuildTool
        BY <2>1, <2>2, <2>3, <2>4, <2>5, <2>6, SameTables DEF Form!SelectBuildTool
    <2> QED
        BY <2>7 DEF Form!Next
<1>3. CASE f = "supportedServer"
    <2>1. RuntimeSelected
        BY <1>3, Names DEF Listener
    <2>2. /\ Before.mpVersion = mpVersion /\ Before.buildTool = buildTool
          /\ Before.javaSEVersion = javaSEVersion /\ Before.microprofileSpecs = selectedSpecs
          /\ Before.microprofileStandaloneSpecs = selectedStandaloneSpecs
        BY <1>0, <1>3, BeanRecord, Names
    <2>3. supportedServer \in supportedServerItems
        BY <1>0, <1>3, BeanRecord DEF Valid, Items, Boxes
    <2>4. \A s : Form!ToolFor(s) = ToolFor(s)
        BY <2>2 DEF Form!ToolFor, ToolFor
    <2>5. CASE mpVersion # Null
        <3>1. /\ DefineStandaloneExampleSpecs(supportedServer, microProfileVersion)
              /\ DefineJavaSEVersion(supportedServer, mpVersion)
              /\ buildTool' = ToolFor(supportedServer)
              /\ UNCHANGED <<mpVersion, microProfileVersion, supportedServer,
                             supportedServerItems, examples>>
            BY <2>1, <2>5 DEF RuntimeSelected
        <3>2. Form!DefineStandaloneExampleSpecs(supportedServer, microProfileVersion)
            BY <2>2, <3>1, SameTables, BeanRecordNext
               DEF DefineStandaloneExampleSpecs, Form!DefineStandaloneExampleSpecs
        <3>3. Form!DefineJavaSEVersion(supportedServer, Before.mpVersion)
            BY <2>2, <3>1, SameTables, BeanRecordNext
               DEF DefineJavaSEVersion, Form!DefineJavaSEVersion, OfferJava, Form!OfferJava
        <3>4. UNCHANGED <<Before.mpVersion, microProfileVersion, supportedServerItems,
                          Form!examples>>
            BY <2>2, <3>1, BeanRecordNext DEF examples, Form!examples
        <3>5. /\ (Before.supportedServer)' = supportedServer
              /\ (Before.buildTool)' = Form!ToolFor(supportedServer)
            BY <2>4, <3>1, BeanRecordNext
        <3>6. Form!SelectRuntime
            BY <2>2, <2>3, <2>5, <3>2, <3>3, <3>4, <3>5 DEF Form!SelectRuntime
        <3> QED
            BY <3>6 DEF Form!Next
    <2>6. CASE mpVersion = Null
        <3>1. /\ mpVersion' = Latest(supportedServer)
              /\ MPVersionSelected(Latest(supportedServer), supportedServer)
              /\ buildTool' = ToolFor(supportedServer')
            BY <2>1, <2>6 DEF RuntimeSelected
        <3>2. Form!MPVersionSelected(Form!Latest(supportedServer), supportedServer)
            BY <2>2, <3>1, SelectedMapped, SameTables
        <3>3. /\ (Before.mpVersion)' = Form!Latest(supportedServer)
              /\ (Before.buildTool)' = Form!ToolFor((Before.supportedServer)')
            BY <2>4, <3>1, SameTables, BeanRecordNext
        <3>4. Form!SelectRuntimeFirst
            BY <2>2, <2>3, <2>6, <3>2, <3>3 DEF Form!SelectRuntimeFirst
        <3> QED
            BY <3>4 DEF Form!Next
    <2> QED
        BY <2>5, <2>6
<1>4. CASE f \in Boxes
    <2>1. UNCHANGED <<choices, java, examples, standalone>> /\ FormInv
        BY <1>0, <1>4, Names DEF Listener, MenusKept
    <2>2. /\ Before.mpVersion = mpVersion /\ Before.buildTool = buildTool
          /\ Before.supportedServer = supportedServer /\ Before.javaSEVersion = javaSEVersion
        BY <1>0, <1>4, BeanRecord, Names
    <2>3. /\ UNCHANGED <<Form!choices, Form!java, specs, standaloneSpecs>>
          /\ (Before.microprofileSpecs)' = selectedSpecs
          /\ (Before.microprofileStandaloneSpecs)' = selectedStandaloneSpecs
        BY <2>1, <2>2, BeanRecordNext
           DEF choices, java, examples, standalone, Form!choices, Form!java
    <2>4. CASE f = "microprofileSpecs"
        <3>1. Before.microprofileStandaloneSpecs = selectedStandaloneSpecs
            BY <1>0, <2>4, BeanRecord, Names
        <3>2. mpVersion # Null
            BY <1>0, <2>4 DEF Enabled
        <3>3. specs # Null
            BY <2>1, <3>2, TablesTyped, MenusAssumption DEF FormInv, SpecsInv, TypeOK
        <3>4. PICK spec \in specs :
                selectedSpecs \in {Before.microprofileSpecs \cup {spec},
                                   Before.microprofileSpecs \ {spec}}
            BY <1>0, <1>4, <2>4, <3>3, BeanRecord DEF OneBox, Items, Listed
        <3>5. UNCHANGED Form!standalone
            BY <2>3, <3>1 DEF Form!standalone
        <3>6. Form!CheckSpecs
            BY <2>2, <2>3, <3>2, <3>4, <3>5 DEF Form!CheckSpecs
        <3> QED
            BY <3>6 DEF Form!Next
    <2>5. CASE f = "microprofileStandaloneSpecs"
        <3>1. Before.microprofileSpecs = selectedSpecs
            BY <1>0, <2>5, BeanRecord, Names
        <3>2. standaloneSpecs # Null
            BY <1>0, <2>5 DEF Enabled, Listed
        <3>3. PICK spec \in standaloneSpecs :
                selectedStandaloneSpecs \in {Before.microprofileStandaloneSpecs \cup {spec},
                                             Before.microprofileStandaloneSpecs \ {spec}}
            BY <1>0, <1>4, <2>5, <3>2, BeanRecord DEF OneBox, Items, Listed
        <3>4. UNCHANGED Form!examples
            BY <2>3, <3>1 DEF Form!examples
        <3>5. Form!CheckStandaloneSpecs
            BY <2>3, <3>2, <3>3, <3>4 DEF Form!CheckStandaloneSpecs
        <3> QED
            BY <3>5 DEF Form!Next
    <2> QED
        BY <1>4, <2>4, <2>5, Names
<1> QED
    BY <1>1, <1>2, <1>3, <1>4, Names

LEMMA LinkMapped ==
    ASSUME NEW link \in Links, mpVersion # Null, SameBean(Before, Fields), Listener(link),
           generated' = Null, Before' = Bean'
    PROVE  Form!Next
<1>1. /\ UNCHANGED <<choices, java, specs, standaloneSpecs>>
      /\ \/ selectedSpecs' = specs /\ selectedStandaloneSpecs' = standaloneSpecs
         \/ selectedSpecs' = {} /\ selectedStandaloneSpecs' = {}
    BY Names DEF Listener
<1>2. /\ Before.mpVersion = mpVersion /\ Before.buildTool = buildTool
      /\ Before.supportedServer = supportedServer /\ Before.javaSEVersion = javaSEVersion
    BY BeanRecord, Names DEF SameBean
<1>3. UNCHANGED <<Form!choices, Form!java, specs, standaloneSpecs>>
    BY <1>1, <1>2, BeanRecordNext DEF choices, java, Form!choices, Form!java
<1>4. Form!SelectAll \/ Form!UnselectAll
    BY <1>1, <1>2, <1>3, BeanRecordNext DEF Form!SelectAll, Form!UnselectAll
<1> QED
    BY <1>4 DEF Form!Next

LEMMA GenerateMapped ==
    ASSUME NEW j \in Jobs, Generate(j), FormStored(Before), Before' = Bean'
    PROVE  Form!Next
<1>1. /\ supportedServer # Null
      /\ javaSEEnabled => javaSEVersion \in javaSEItems
      /\ ~javaSEEnabled => Before.javaSEVersion = javaSEVersion
      /\ Before.mpVersion = mpVersion /\ Before.buildTool = buildTool
      /\ Before.supportedServer = supportedServer
      /\ Before.microprofileSpecs = selectedSpecs
      /\ Before.microprofileStandaloneSpecs = selectedStandaloneSpecs
    BY BeanRecord, Names DEF FormStored, SameBean
<1>2. /\ UNCHANGED <<choices, java, examples, standalone>>
      /\ generated' =
            IF mpVersion = Null THEN Null
            ELSE [server |-> supportedServer, version |-> mpVersion, java |-> javaSEVersion,
                  tool |-> buildTool, specs |-> selectedSpecs,
                  standalone |-> selectedStandaloneSpecs]
    BY <1>1 DEF Generate
<1>3. /\ (Before.javaSEVersion)' = javaSEVersion
      /\ UNCHANGED <<Before.mpVersion, microProfileVersion, Before.supportedServer,
                     Before.buildTool, supportedServerItems, javaSEEnabled, javaSEItems,
                     Form!examples, Form!standalone>>
    BY <1>1, <1>2, BeanRecordNext
       DEF choices, java, examples, standalone, Form!examples, Form!standalone
<1>4. \/ javaSEEnabled /\ (Before.javaSEVersion)' \in javaSEItems
      \/ ~javaSEEnabled /\ UNCHANGED Before.javaSEVersion
    BY <1>1, <1>3 DEF FormStored, FormInv, TypeOK
<1>5. Form!GenerateProject
    BY <1>1, <1>2, <1>3, <1>4 DEF Form!GenerateProject
<1> QED
    BY <1>5 DEF Form!Next

\* What the user does changes nothing in the bean.
LEMMA UserMapped ==
    ASSUME PageIInv, calm', Change \/ ChangeJava \/ ClickLink \/ Download
    PROVE  UNCHANGED Form!vars
<1>1. UNCHANGED vars /\ Bean' = Bean
    BY SameView DEF Change, ChangeJava, ClickLink, Download
<1>2. UNCHANGED <<microProfileVersion, supportedServerItems, javaSEEnabled, javaSEItems,
                  specs, standaloneSpecs, generated>>
    BY <1>1 DEF vars, choices, java, examples, standalone
<1>3. CASE ChangeJava
    <2>1. Before' = Before
        BY <1>1, <1>3 DEF ChangeJava, Before
    <2> QED
        BY <1>2, <2>1, FormStutters
<1>4. CASE Change \/ ClickLink \/ Download
    <2>1. Idle
        BY <1>4 DEF Change, ClickLink, Download
    <2>2. PICK list, request : /\ jobs' = Sent(list, request) /\ request.stage = "sent"
                               /\ AreRequests(list) /\ Free(list) # {}
                               /\ \A j \in Jobs : list[j].stage = "free"
        <3>1. \A source, shown : AjaxRequest(source, shown).stage = "sent"
            BY DEF AjaxRequest, Request
        <3>2. AreRequests(jobs) /\ \A j \in Jobs : jobs[j].stage = "free"
            BY <2>1 DEF PageIInv, QueueInv, Idle
        <3>3. ASSUME NEW source, Offer(source)
              PROVE  jobs' = Sent(jobs, AjaxRequest(source, page')) /\ Free(jobs) # {}
            BY <2>1, <3>3 DEF Offer, Idle
        <3>4. CASE Change
            BY <3>1, <3>2, <3>3, <3>4 DEF Change
        <3>5. CASE ClickLink
            BY <3>1, <3>2, <3>3, <3>5 DEF ClickLink
        <3>6. CASE Download
            <4>1. PICK form : form.stage = "sent" /\ jobs' = Sent(Unawaited(jobs), form)
                BY <3>6 DEF Download, OnPost, Request
            <4>2. \A j \in Jobs : Unawaited(jobs)[j] = GivenUp(jobs[j]) /\ IsRequest(jobs[j])
                BY <3>2 DEF AreRequests, Unawaited, GivenUp
            <4>3. \A j \in Jobs : Unawaited(jobs)[j].stage = "free"
                BY <3>2, <4>2, RequestGivenUp
            <4>4. AreRequests(Unawaited(jobs)) /\ Free(Unawaited(jobs)) # {}
                BY <3>2, <3>6, <4>3, UnawaitedList DEF Free, Download
            <4> QED
                BY <4>1, <4>3, <4>4
        <3> QED
            BY <1>4, <3>4, <3>5, <3>6
    <2>3. \A j \in Jobs : jobs'[j].stage # "updated"
        BY <2>2, SentPlace
    <2>4. Before = Bean /\ Before' = Bean'
        BY <2>1, <2>3, BeforeMapped, BeforeMappedNext DEF Idle
    <2> QED
        BY <1>1, <1>2, <2>4, FormStutters
<1> QED
    BY <1>3, <1>4

\* The first half of a request is part of the same step of the form as the second.
LEMMA UpdateMapped ==
    ASSUME PageIInv, calm, NEW j \in Jobs, UpdateModel(j)
    PROVE  UNCHANGED Form!vars
<1>1. /\ Orderly /\ OneRequest /\ Active(j) /\ jobs[j].stage = "sent"
      /\ UNCHANGED <<client, calm>>
    BY DEF PageIInv, OrderInv, Orderly, UpdateModel, Active
<1>2. Before = Bean
    <2>1. \A i \in Jobs : jobs[i].stage # "updated"
        BY <1>1, OthersFree DEF PageIInv, Active
    <2> QED
        BY <2>1, BeforeMapped
<1>3. UNCHANGED <<microProfileVersion, supportedServerItems, javaSEEnabled, javaSEItems,
                  specs, standaloneSpecs, generated>>
    BY DEF UpdateModel, UpdateField, UpdateForm, Store
<1>4. PICK stage, outcome :
        /\ stage \in {"updated", "refused"} /\ Stage(j, stage, outcome)
        /\ stage = "refused" => Store(Bean)
    BY DEF UpdateModel, UpdateField, UpdateForm
<1>5. /\ jobs'[j].stage = stage /\ jobs'[j].before = Bean
      /\ \A i \in Jobs \ {j} : jobs'[i].stage # "updated"
    BY <1>1, <1>4, HandledRequest DEF Active
<1>6. CASE stage = "updated"
    <2>1. Before' = jobs'[j].before
        BY <1>5, <1>6, BeforeMappedNext
    <2> QED
        BY <1>2, <1>3, <1>5, <2>1, FormStutters
<1>7. CASE stage = "refused"
    <2>1. Before' = Bean'
        BY <1>5, <1>7, BeforeMappedNext
    <2>2. Bean' = Bean
        BY <1>4, <1>7, NothingStoredStep, SameView
    <2> QED
        BY <1>2, <1>3, <2>1, <2>2, FormStutters
<1> QED
    BY <1>4, <1>6, <1>7

\* The second half is one choice of the user, or nothing if it was refused.
LEMMA FinishMapped ==
    ASSUME PageIInv, calm', NEW j \in Jobs, Finish(j)
    PROVE  Form!Next \/ UNCHANGED Form!vars
<1>0. /\ calm /\ Orderly /\ jobs[j].stage = "updated"
      /\ (Answer(j) /\ Respond(jobs[j])) \/ Generate(j)
    BY RespondedInOrder DEF Orderly
<1>1. /\ Orderly /\ OneRequest /\ Active(j) /\ jobs[j].stage = "updated"
      /\ mpVersion \in VersionItems /\ UpdatedInv(jobs[j])
    BY <1>0 DEF PageIInv, OrderInv, Active
<1>2. Before = jobs[j].before
    <2>1. \A i \in Jobs \ {j} : jobs[i].stage # "updated"
        BY <1>1, OthersFree DEF PageIInv, Active
    <2> QED
        BY <1>1, <2>1, BeforeMapped
<1>3. Before' = Bean'
    <2>1. \A i \in Jobs : jobs'[i].stage # "updated"
        BY <1>0, <1>1, AnsweredPlaces, GeneratedPlaces DEF PageIInv, Active
    <2> QED
        BY <2>1, BeforeMappedNext
<1>4. CASE Generate(j)
    <2>1. FormStored(Before)
        BY <1>1, <1>2, <1>4, Names DEF Generate, UpdatedInv
    <2> QED
        BY <1>3, <1>4, <2>1, GenerateMapped
<1>5. CASE Respond(jobs[j]) /\ jobs[j].outcome # "accepted" /\ Answer(j)
    <2>1. UNCHANGED vars /\ SameBean(Before, Fields)
        BY <1>1, <1>2, <1>5 DEF Respond, UpdatedInv, NothingStored
    <2>2. Before' = Bean
        BY <1>3, <2>1, SameView
    <2>3. /\ UNCHANGED <<microProfileVersion, supportedServerItems, javaSEEnabled, javaSEItems,
                         specs, standaloneSpecs, generated>>
          /\ Before.mpVersion = Bean.mpVersion /\ Before.buildTool = Bean.buildTool
          /\ Before.supportedServer = Bean.supportedServer
          /\ Before.javaSEVersion = Bean.javaSEVersion
          /\ Before.microprofileSpecs = Bean.microprofileSpecs
          /\ Before.microprofileStandaloneSpecs = Bean.microprofileStandaloneSpecs
        BY <2>1, Names DEF vars, choices, java, examples, standalone, SameBean
    <2> QED
        BY <2>2, <2>3 DEF Form!vars, Form!choices, Form!java, Form!examples, Form!standalone
<1>6. CASE Respond(jobs[j]) /\ jobs[j].outcome = "accepted" /\ Answer(j)
    <2>1. PICK f : f = jobs[j].source
        OBVIOUS
    <2>2. /\ TypeOK /\ f \in Sources
          /\ f \in Fields => f # "javaSEVersion" /\ FieldStored(f, Before)
          /\ f \in Links => /\ mpVersion # Null /\ FormInv /\ SameBean(Before, Fields)
        BY <1>1, <1>2, <1>6, <2>1, Names DEF UpdatedInv, NothingStored, Answer
    <2>3. ~Throws(f)
        BY <2>2, NothingThrown, Names DEF FieldStored
    <2>4. Listener(f) /\ generated' = Null
        BY <1>6, <2>1, <2>3 DEF Respond
    <2> QED
        BY <1>0, <1>1, <1>3, <2>2, <2>4, FieldMapped, LinkMapped, Names
<1> QED
    BY <1>0, <1>4, <1>5, <1>6

\* As long as the user waits for each answer and gets one that the page shows, the
\* page with its queue, the phases of JSF and its validations does, for any tables,
\* what the form says.
THEOREM FormImplemented == PageSpec => ImplementsForm
<1>1. ASSUME PageInit PROVE Form!Init
    <2>1. Before = Bean
        BY <1>1, BeforeMapped DEF PageInit, NoRequest
    <2> QED
        BY <1>1, <2>1, BeanRecord, SameTables DEF PageInit, Init, Form!Init
<1>2. ASSUME PageIInv, [PageNext]_pageVars
      PROVE  [calm' => Form!Next \/ UNCHANGED Form!vars]_pageVars
    <2> SUFFICES ASSUME PageNext, calm' PROVE Form!Next \/ UNCHANGED Form!vars
        BY <1>2
    <2>1. CASE Change \/ ChangeJava \/ ClickLink \/ Download
        BY <1>2, <2>1, UserMapped
    <2>2. ASSUME NEW j \in Jobs, UpdateModel(j) \/ Finish(j)
          PROVE  Form!Next \/ UNCHANGED Form!vars
        BY <1>2, <2>2, UpdateMapped, FinishMapped DEF UpdateModel
    <2> QED
        BY <2>1, <2>2 DEF PageNext, Fail
<1> QED
    BY <1>1, <1>2, PageInvariant, PTL DEF PageSpec, ImplementsForm
===============================================================================
