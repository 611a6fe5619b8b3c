----------------------------- MODULE SupportTables ----------------------------
(* The tables of this version of the starter. *)
EXTENDS Naturals, Sequences

CONSTANT None   \* null

\* MicroProfileVersion, newest first
TheVersionList == <<"MP60", "MP50", "MP41", "MP40", "MP33", "MP32", "MP30",
                    "MP22", "MP21", "MP20", "MP14", "MP13", "MP12">>
TheVersions == {TheVersionList[i] : i \in DOMAIN TheVersionList}
TheOrdinal == [v \in TheVersions |-> CHOOSE i \in DOMAIN TheVersionList : TheVersionList[i] = v]

\* SupportedServer
TheMpVersions ==
    [WILDFLY_SWARM |-> <<"MP12">>,
     THORNTAIL_V2  |-> <<"MP12", "MP13", "MP21", "MP22", "MP30", "MP32", "MP33">>,
     QUARKUS       |-> <<"MP32">>,
     WILDFLY       |-> <<"MP32", "MP33", "MP40", "MP41">>,
     LIBERTY       |-> <<"MP12", "MP13", "MP14", "MP20", "MP21", "MP22", "MP30",
                         "MP32", "MP33", "MP40", "MP41", "MP50", "MP60">>,
     KUMULUZEE     |-> <<"MP12", "MP13", "MP14", "MP20", "MP21", "MP22", "MP30",
                         "MP32", "MP33">>,
     PAYARA_MICRO  |-> <<"MP12", "MP13", "MP14", "MP20", "MP21", "MP22", "MP32",
                         "MP33", "MP40", "MP50">>,
     TOMEE         |-> <<"MP12", "MP13", "MP14", "MP20", "MP21">>,
     HELIDON       |-> <<"MP12", "MP22", "MP30", "MP32", "MP33">>]
TheServers == DOMAIN TheMpVersions
TheGradleServers == {"QUARKUS", "LIBERTY", "PAYARA_MICRO", "HELIDON"}

\* MicroprofileSpec
TheSpecVersions ==
    LET since13 == TheVersions \ {"MP12"} IN
    [CONFIG          |-> TheVersions,
     FAULT_TOLERANCE |-> TheVersions,
     JWT_AUTH        |-> TheVersions,
     METRICS         |-> TheVersions,
     HEALTH_CHECKS   |-> TheVersions,
     OPEN_API        |-> since13,
     OPEN_TRACING    |-> since13 \ {"MP60"},
     REST_CLIENT     |-> since13,
     TELEMETRY       |-> {"MP60"}]
TheSpecs == DOMAIN TheSpecVersions

\* StandaloneMPSpec
TheRestrictions == [GRAPHQL |-> <<[server |-> "LIBERTY", min |-> None]>>]
TheStandalone == DOMAIN TheRestrictions

\* JDKSelector.init
TheJavaVersions == {"SE8", "SE11"}
Runs(server, java, min, max) == [server |-> server, java |-> java, min |-> min, max |-> max]
TheJavaRules ==
    {Runs("WILDFLY_SWARM", "SE8", None, None),
     Runs("THORNTAIL_V2", "SE8", None, None), Runs("THORNTAIL_V2", "SE11", "MP22", None),
     Runs("QUARKUS", "SE8", None, "MP40"), Runs("QUARKUS", "SE11", "MP32", None),
     Runs("WILDFLY", "SE8", None, None), Runs("WILDFLY", "SE11", "MP32", None),
     Runs("LIBERTY", "SE8", None, None), Runs("LIBERTY", "SE11", "MP12", None),
     Runs("KUMULUZEE", "SE8", None, None),
     Runs("PAYARA_MICRO", "SE8", None, "MP40"), Runs("PAYARA_MICRO", "SE11", "MP32", None),
     Runs("TOMEE", "SE8", None, None),
     Runs("HELIDON", "SE8", None, "MP30"), Runs("HELIDON", "SE11", "MP32", None)}
===============================================================================
