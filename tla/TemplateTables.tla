----------------------------- MODULE TemplateTables ---------------------------
(* files.lst and the names that lead to its templates, as in this version. *)
EXTENDS SupportTables

TheCode ==
    [WILDFLY_SWARM |-> "wildfly-swarm", THORNTAIL_V2 |-> "thorntail-v2",
     QUARKUS |-> "quarkus", WILDFLY |-> "wildfly", LIBERTY |-> "liberty",
     KUMULUZEE |-> "kumuluzEE", PAYARA_MICRO |-> "payara-micro",
     TOMEE |-> "tomee", HELIDON |-> "helidon"]
TheVersionAlternatives ==
    [v \in TheVersions |->
        CASE v = "MP60" -> {"mp6_x"} [] v = "MP50" -> {"mp5_x"} [] v = "MP41" -> {"mp4_1"}
          [] v \in {"MP40", "MP33", "MP32", "MP30"} -> {"mp3_x"} [] OTHER -> {}]

\* addonName and priority of the ten addons
ThePriority == [a \in {"mp"} \cup {TheCode[s] : s \in TheServers} |-> 70]
\* defaultMP.yaml
TheTemplateAddons == <<"mp">>

\* pom-servers.xml: the properties that a profile uses without defining them, and
\* "parent" where versions are left to one
Profile(name, version) == [name |-> name, version |-> version]
TheProfileUses ==
    LET uses == [wildfly |-> {"version.wildfly"}, quarkus |-> {"version.quarkus"},
                 liberty |-> {"jaeger.client.version", "slf4j.api.version", "slf4j.jdk.version",
                              "openliberty.maven.version", "final.name"},
                 kumuluzEE |-> {"kumuluz.version", "kumuluzee-microprofile.version"},
                 tomee |-> {"tomee.version"}, helidon |-> {"helidonVersion", "mpVersion"},
                 helidon2 |-> {"parent"}]
        more == {Profile("wildfly-swarm", "MP12"), Profile("thorntail-v2", None),
                 Profile("payara-micro", None)}
    IN  [profile \in more \cup {Profile(name, None) : name \in DOMAIN uses} |->
            CASE profile.name = "wildfly-swarm" -> {}
              [] profile.name = "thorntail-v2" -> {"version.thorntail"}
              [] profile.name = "payara-micro" -> {"payaraVersion", "payaraMavenPluginVersion"}
              [] OTHER -> uses[profile.name]]
\* The switches in adaptMavenModel (Liberty and WildFly Swarm have none)
TheServerVersions ==
    [WILDFLY_SWARM |-> {},
     THORNTAIL_V2 |-> {"MP33", "MP32", "MP30", "MP22", "MP21", "MP13", "MP12"},
     QUARKUS |-> {"MP41", "MP32"},
     WILDFLY |-> {"MP41", "MP40", "MP33", "MP32"},
     LIBERTY |-> {},
     KUMULUZEE |-> {"MP33", "MP32", "MP30", "MP22", "MP21", "MP20", "MP14", "MP13", "MP12"},
     PAYARA_MICRO |-> {"MP50", "MP40", "MP33", "MP32", "MP22", "MP21", "MP20", "MP14", "MP13",
                       "MP12"},
     TOMEE |-> {"MP21", "MP20", "MP14", "MP13", "MP12"},
     HELIDON |-> {"MP33", "MP32", "MP30", "MP22", "MP12"}]
\* VersionSpecMatrix and VersionStandaloneMatrix
MP12Specs == {"CONFIG", "FAULT_TOLERANCE", "JWT_AUTH", "HEALTH_CHECKS", "METRICS"}
TheMatrixSpecs ==
    [v \in TheVersions |->
        CASE v = "MP12" -> MP12Specs
          [] v = "MP60" -> MP12Specs \cup {"OPEN_API", "REST_CLIENT", "TELEMETRY"}
          [] OTHER -> MP12Specs \cup {"OPEN_API", "REST_CLIENT", "OPEN_TRACING"}]
TheMatrixStandalone == [v \in TheVersions |-> {"GRAPHQL"}]

In(alternatives, names) ==
    {[name |-> n, alternatives |-> alternatives] : n \in names}
TheTemplateFiles ==
    In({}, {"beans.xml", "BookingController.java", "Booking.java", "ClientController.java",
            "ConfigTestController.java", "Destination.java", "DuplicateSuperHeroException.java",
            "HelloController.java", "HeroDatabase.java", "HeroFinder.java", "index.html",
            "jwt-roles.properties", "MetricController.java", "microprofile-config.properties",
            "MPJWTToken.java", "privateKey.pem", "project-defaults.yml",
            "ProtectedController.java", "publicKey.pem", "readme.md.secondary",
            "readme.md.top", "readme.md", "ResilienceController.java", "RestApplication.java",
            "securedURLs.ini", "ServiceController.java", "ServiceHealthCheck.java",
            "Service.java", "SuperHero.java", "Team.java", "TestSecureController.java",
            "UnknownCharacterException.java", "UnknownHeroException.java",
            "UnknownTeamException.java", "web.xml"})
    \cup In({"gradle"}, {"build.gradle", "gradlew.bat", "gradle-wrapper.jar",
                         "gradle-wrapper.properties", "gradlew", "settings.gradle"})
    \cup UNION {In({"gradle", s}, {"build.gradle"}) : s \in {"helidon", "liberty", "payara-micro"}}
    \cup In({"gradle", "quarkus"}, {"build.gradle", "gradle.properties", "settings.gradle"})
    \cup In({"mp3_x"}, {"index.html", "ServiceLiveHealthCheck.java", "ServiceReadyHealthCheck.java"})
    \cup In({"mp4_1"}, {"index.html", "ServiceStartupHealthCheck.java"})
    \cup In({"service-b"}, {"RestApplication.java"})
    \cup In({"helidon"}, {"logging.properties", "microprofile-config.properties",
                          "ProtectedController.java", "RestApplication.java"})
    \cup In({"helidon", "service-b"}, {"microprofile-config.properties", "RestApplication.java",
                                       "ServiceController.java"})
    \cup In({"kumuluzEE"}, {"config.yaml", "RestApplication.java"})
    \cup In({"kumuluzEE", "service-b"}, {"config.yaml", "RestApplication.java"})
    \cup In({"liberty"}, {"public.jks", "server.xml"})
    \cup In({"liberty", "service-b"}, {"server.xml"})
    \cup In({"payara-micro"}, {"payara-mp-jwt.properties", "RestApplication.java"})
    \cup In({"payara-micro", "service-b"}, {"RestApplication.java"})
    \cup In({"quarkus"}, {"application.properties", "ClientController.java",
                          "ConfigTestController.java", "MetricController.java",
                          "readme.md.secondary", "readme.md"})
    \cup In({"quarkus", "mp3_x"}, {"index.html"})
    \cup In({"quarkus", "service-b"}, {"application.properties", "ProtectedController.java"})
    \cup In({"thorntail-v2"}, {"web.xml"})
    \cup In({"tomee"}, {"index.html"})
    \cup In({"wildfly"}, {"microprofile-config.properties"})
    \cup In({"wildfly", "mp3_x"}, {"index.html"})
    \cup In({"wildfly", "service-b"}, {"microprofile-config.properties"})
    \cup In({"wildfly-swarm"}, {"web.xml"})
===============================================================================
