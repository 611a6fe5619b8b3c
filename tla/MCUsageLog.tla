------------------------------- MODULE MCUsageLog ------------------------------
(* UsageLog with a small catalogue: two servers, each with a version and a spec *)
(* of its own, so that another version drops both.                             *)
EXTENDS UsageLog, TLC

MCServers == {"LIBERTY", "TOMEE"}
MCVersions == {"MP21", "MP22"}
MCOrdinal == [MP21 |-> 2, MP22 |-> 1]
MCMpVersions == [LIBERTY |-> <<"MP22">>, TOMEE |-> <<"MP21">>]
MCGradleServers == {"LIBERTY"}
MCSpecVersions == [CONFIG |-> {"MP21"}]
MCJavaRules == {[server |-> s, java |-> "SE8", min |-> Null, max |-> Null] : s \in MCServers}
MCRestrictions == [GRAPHQL |-> <<[server |-> "LIBERTY", min |-> Null]>>]
\* One request for each spec: the record leaves out the standalone one.
MCRestData == {[mpVersion |-> "MP21", supportedServer |-> "TOMEE", selectedSpecs |-> {"CONFIG"}],
               [mpVersion |-> "MP22", supportedServer |-> "LIBERTY", selectedSpecs |-> {"GRAPHQL"}]}
\* Bound: a task has run before the form has given its data more than two new
\* values, as a new version does that drops the server.
MCFewChanges ==
    \A t \in Tasks : usage[t] # Null /\ usage[t].stage = "queued" =>
        LET since == usage[t].since IN
        Cardinality(since.mpVersion) + Cardinality(since.supportedServer)
            + Cardinality(since.selectedSpecs) <= 5
MCSymmetry == Permutations(Tasks)
===============================================================================
