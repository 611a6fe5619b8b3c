------------------------------- MODULE MCRestApi ------------------------------
(* RestApi with the real tables. *)
EXTENDS RestApi, SupportTables, TLC

CONSTANTS r1, r2

Query(entry, server, version, codes) ==
    [entry |-> entry, body |-> FALSE, groupId |-> Null, artifactId |-> Null,
     supportedServer |-> server, mpVersion |-> version, javaSEVersion |-> Null,
     buildTool |-> "MAVEN", selectedSpecs |-> codes, standalone |-> Null,
     selectAllSpecs |-> FALSE]

\* Every server, or none, with every version, or none
Simple ==
    {[Query("latest", s, v, {}) EXCEPT !.buildTool = tool, !.selectAllSpecs = all] :
        s \in Servers \cup {Null}, v \in Versions \cup {Null},
        tool \in {"MAVEN", "GRADLE"}, all \in BOOLEAN}

\* Bodies with the lists of specs given or not
Bodies ==
    {[Query(entry, s, v, codes) EXCEPT !.body = TRUE, !.standalone = standalone,
                                       !.buildTool = tool, !.selectAllSpecs = all] :
        entry \in {"v1", "latest"}, s \in {"LIBERTY", "TOMEE"}, v \in {"MP12", "MP60", Null},
        codes \in {Null, {}, {"TELEMETRY"}, {"CONFIG", "GRAPHQL"}, {"CONFIG", Illegal}},
        standalone \in {Null, {}, {"GRAPHQL"}}, tool \in {"GRADLE", Null}, all \in BOOLEAN}

\* Names, Java versions and the other endpoints
Odd ==
    {[Query(entry, "QUARKUS", Null, {}) EXCEPT !.groupId = g, !.artifactId = a,
                                               !.javaSEVersion = java] :
        entry \in {"v1", "v5", "latest"}, g \in Names, a \in Names, java \in {"SE8", "SE11", Null}}

\* Requests that may find their project in the answer to another one
Plain ==
    {Query("latest", "LIBERTY", "MP60", {"CONFIG"}),
     Query("latest", "LIBERTY", "MP60", {"CONFIG", "GRAPHQL"}),
     [Query("v5", "LIBERTY", "MP60", {"CONFIG"}) EXCEPT !.javaSEVersion = "SE11"],
     [Query("latest", "LIBERTY", Null, {"CONFIG"}) EXCEPT !.groupId = "name"],
     [Query("v1", "LIBERTY", Null, {"CONFIG"}) EXCEPT !.body = TRUE, !.standalone = {}]}

MCAsksOf == r1 :> (Simple \cup Bodies \cup Odd \cup Plain) @@ r2 :> Plain
===============================================================================
