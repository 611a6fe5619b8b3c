------------------------------ MODULE MCProjectForm -----------------------------
(* The form with the real tables, but for the specs: of those that the same   *)
(* versions have there is one.                                                *)
EXTENDS ProjectForm, SupportTables

MCSpecs == {"CONFIG", "REST_CLIENT", "OPEN_TRACING", "TELEMETRY"}
ASSUME RepresentativesAssumption ==
    {TheSpecVersions[spec] : spec \in MCSpecs} = {TheSpecVersions[spec] : spec \in TheSpecs}
MCSpecVersions == [spec \in MCSpecs |-> TheSpecVersions[spec]]
===============================================================================
