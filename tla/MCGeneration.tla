----------------------------- MODULE MCGeneration -----------------------------
(***************************************************************************)
(* Instances of Generation for TLC.  Four servers stand for the kinds of   *)
(* server addon there are.  Quarkus removes the whole webapp directory,    *)
(* KumuluzEE its WEB-INF; both write files of their own for every service, *)
(* Quarkus a public key too.  TomEE and Payara Micro remove nothing and    *)
(* write for the second service of a JWT project only: TomEE the key,      *)
(* Payara Micro also a file of its own, with one template, found under     *)
(* every name; those of Quarkus and KumuluzEE fit their own names only.    *)
(* TomEE's adjustPOM needs the tomee-maven-plugin in the pom's first       *)
(* profile, the others adapt any pom.                                      *)
(***************************************************************************)
EXTENDS SerialService, TLC

CONSTANTS s1, s2

MCServers == {"quarkus", "kumuluzEE", "tomee", "payara"}
MCSpecs == {"rest_client", "JWT_auth", "health_checks"}
MCRemoves == [quarkus |-> {"webapp", "beans"}, kumuluzEE |-> {"beans"}, tomee |-> {},
              payara |-> {}]
MCPomCompatible == {p \in MCServers \X MCServers : p[1] = "tomee" => p[2] = "tomee"}
MCTemplateCompatible ==
    {p \in MCServers \X MCServers : p[1] \in {"quarkus", "kumuluzEE"} => p[2] = p[1]}

MCServerWrites ==
    LET W(kind, main, jwt) == [kind |-> kind, main |-> main, jwt |-> jwt]
        each == {W("server", TRUE, FALSE), W("server", FALSE, FALSE)}
        key == W("key", FALSE, TRUE)
    IN  [quarkus |-> each \cup {key}, kumuluzEE |-> each, tomee |-> {key},
         payara |-> {key, W("server", FALSE, TRUE)}]

P(session, artifact, entry, tool, server, specs) ==
    [session |-> session, artifact |-> artifact, entry |-> entry,
     tool |-> tool, server |-> server, specs |-> specs]

\* Both entries, both build tools, split and single projects, the same and
\* different sessions and artifact ids.
MCProjects ==
    {P(s1, "demo", "web",  "maven",  "quarkus",   {"JWT_auth", "health_checks"}),
     P(s1, "demo", "rest", "gradle", "quarkus",   {"health_checks"}),
     P(s1, "demo", "web",  "maven",  "tomee",     {"rest_client"}),
     P(s2, "demo", "rest", "maven",  "kumuluzEE", {"JWT_auth"}),
     P(s1, "shop", "rest", "maven",  "tomee",     {}),
     P(s2, "shop", "web",  "gradle", "payara",    {"JWT_auth", "health_checks"})}

\* Projects for pairs of overlapping requests
MCPairProjects ==
    {P(s1, "demo", "web",  "maven",  "quarkus",   {"JWT_auth", "health_checks"}),
     P(s1, "demo", "rest", "gradle", "payara",    {"health_checks"}),
     P(s1, "demo", "web",  "maven",  "tomee",     {"rest_client"}),
     P(s2, "demo", "rest", "maven",  "kumuluzEE", {"JWT_auth"}),
     P(s2, "shop", "rest", "gradle", "payara",    {"JWT_auth"})}

RequestSymmetry == Permutations(Requests)

\* "Quarkus should not have explicitly enforced MP version in its generated
\* pom.xml" (MavenCreator.addJavaMPDependencies, lines 134 to 136).  The
\* dependency is left out when the request's OWN server is Quarkus, but the
\* profile comes from the shared options: no delivered pom may combine the
\* Quarkus profile with the dependency.
QuarkusWithoutEnforcedVersion ==
    \A r \in Requests : pc[r] = "done" =>
        \A f \in zip[r] :
            (f.path.kind = "pom" /\ f.server = "quarkus") => project[f.by].server = "quarkus"
===============================================================================
