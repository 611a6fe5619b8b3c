------------------------------- MODULE MCFormPage ------------------------------
(* The page with two servers and two versions of the real tables: one server   *)
(* lacks a version, Gradle and a second Java version; the other has all of      *)
(* them and a standalone spec.                                                  *)
EXTENDS FormPage, SupportTables

MCServers == {"WILDFLY_SWARM", "LIBERTY"}
MCVersions == {"MP12", "MP32"}
MCSpecs == {"REST_CLIENT"}

MCOrdinal == [v \in MCVersions |-> TheOrdinal[v]]
MCMpVersions ==
    [s \in MCServers |->
        SelectSeq(TheMpVersions[s], LAMBDA v : v \in MCVersions)]
MCGradleServers == TheGradleServers \cap MCServers
\* The rules, spelt out for the two versions
Holds(rule, v) ==
    /\ rule.min = None \/ TheOrdinal[v] <= TheOrdinal[rule.min]
    /\ rule.max = None \/ TheOrdinal[rule.max] <= TheOrdinal[v]
MCJavaRules ==
    UNION {{Runs(rule.server, rule.java, v, v) :
                rule \in {r \in TheJavaRules : r.server \in MCServers /\ Holds(r, v)}} :
           v \in MCVersions}
MCSpecVersions == [spec \in MCSpecs |-> TheSpecVersions[spec] \cap MCVersions]
===============================================================================
