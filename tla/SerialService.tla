----------------------------- MODULE SerialService ----------------------------
(***************************************************************************)
(* Generation with one request at a time, under an executor that takes     *)
(* every LoggingTask, implements ProjectService.                           *)
(***************************************************************************)
EXTENDS Generation

StatusOf(stage) ==
    CASE stage = "idle"   -> "new"
      [] stage = "done"   -> "delivered"
      [] stage = "failed" -> "refused"
      [] OTHER            -> "accepted"

Service == INSTANCE ProjectService
    WITH Files     <- File,
         wanted    <- [r \in Requests |-> Expected(r)],
         status    <- [r \in Requests |-> StatusOf(pc[r])],
         delivered <- [r \in Requests |-> IF pc[r] = "done" THEN zip[r] ELSE {}]

\* Without any overlap, each request is answered, and a delivered zip file holds
\* the files that were asked for: none is missing, and none is left over from
\* the requests before, of whatever session, build tool and server.
ImplementsService == Service!Spec
===============================================================================
