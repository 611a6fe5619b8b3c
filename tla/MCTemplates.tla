------------------------------- MODULE MCTemplates ----------------------------
(* Templates with the real tables and templates. *)
EXTENDS Templates, TemplateTables

\* Every server with each of its versions; the examples of different specs do
\* not depend on each other, so that each spec alone, none and all will do.
MCProjects ==
    {[server |-> s, version |-> v, tool |-> tool, specs |-> specs \cap SpecsIn(v),
      standalone |-> standalone, beans |-> beans] :
        s \in TheServers, v \in TheVersions, tool \in {"MAVEN", "GRADLE"},
        specs \in {{}, TheSpecs} \cup {{spec} : spec \in TheSpecs},
        standalone \in SUBSET TheStandalone, beans \in BOOLEAN}
MCValid ==
    {p \in MCProjects :
        /\ p.version \in Offered(p.server)
        /\ \A spec \in p.standalone : IsEnabled(spec, p.server, p.version)}
===============================================================================
