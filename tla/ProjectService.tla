---------------------------- MODULE ProjectService ----------------------------
(***************************************************************************)
(* What the starter promises a user, whatever happens inside: a request    *)
(* for a project that has been accepted is answered once and for all,      *)
(* either with exactly the files that were asked for or with a refusal.    *)
(***************************************************************************)
CONSTANTS Requests, Files

VARIABLES
    wanted,     \* wanted[r]: the files of the project that r asks for
    status,     \* status[r]: how far r is, seen from outside
    delivered   \* delivered[r]: the content of the zip file r is answered with

serviceVars == <<wanted, status, delivered>>

Init ==
    /\ wanted \in [Requests -> SUBSET Files]
    /\ status = [r \in Requests |-> "new"]
    /\ delivered = [r \in Requests |-> {}]

Accept(r) ==
    /\ status[r] = "new"
    /\ status' = [status EXCEPT ![r] = "accepted"]
    /\ UNCHANGED <<wanted, delivered>>

Deliver(r) ==
    /\ status[r] = "accepted"
    /\ status' = [status EXCEPT ![r] = "delivered"]
    /\ delivered' = [delivered EXCEPT ![r] = wanted[r]]
    /\ UNCHANGED wanted

Refuse(r) ==
    /\ status[r] = "accepted"
    /\ status' = [status EXCEPT ![r] = "refused"]
    /\ UNCHANGED <<wanted, delivered>>

Next == \E r \in Requests : Accept(r) \/ Deliver(r) \/ Refuse(r)

Fairness == \A r \in Requests : WF_serviceVars(Deliver(r) \/ Refuse(r))

Spec == Init /\ [][Next]_serviceVars /\ Fairness
===============================================================================
