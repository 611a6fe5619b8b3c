----------------------------- MODULE SharedServers ----------------------------
(***************************************************************************)
(* The list of the servers available for one MicroProfile version.         *)
(*                                                                         *)
(* MPOptionsAvailable keeps it in one ArrayList, built once when the       *)
(* APIService is initialised.  getSupportedServers shuffles THAT list and  *)
(* returns it, and it is called on every thread that answers a request:    *)
(* when the list is written as JSON (listOptions, supportMatrix), and when *)
(* a request for a project is validated, which asks whether the list       *)
(* contains the server the request names.                                  *)
(*                                                                         *)
(* Collections.shuffle swaps slot k with a random slot j <= k, for k from  *)
(* the last slot down to the second; a swap is the three list accesses     *)
(* l.set(k, l.set(j, l.get(k))).  One action is one access to the list.    *)
(* The accesses are taken to be sequentially consistent.                   *)
(***************************************************************************)
EXTENDS Integers

CONSTANTS
    Calls,      \* the calls of getSupportedServers, one per request
    Available,  \* the servers available for the version
    Others,     \* the servers that are not
    N           \* how many servers are available

Listing == "listing"    \* what a call wants that checks nothing
Slots == 1..N

ASSUME SlotsAssumption == N \in Nat \ {0}
ASSUME ServersAssumption == Available \cap Others = {} /\ Listing \notin Available \cup Others

VARIABLES
    list,     \* MPOptionsAvailable.supportedServers
    pc,       \* pc[c]: the next access of call c to the list
    want,     \* want[c]: the server whose presence c checks, or Listing
    slot,     \* slot[c]: the slot k that c swaps, later the one it reads
    other,    \* other[c]: the random slot j
    held,     \* held[c]: the element that c has taken out of the list
    read,     \* read[c]: the elements that c has come across
    crowded   \* history: the calls that were under way together with others

vars == <<list, pc, want, slot, other, held, read, crowded>>

Ended == {"found", "missing", "listed"}
Stages == {"new", "get", "setOther", "setSlot", "scan"} \cup Ended
Busy == {c \in Calls : pc[c] \in {"get", "setOther", "setSlot", "scan"}}

Content(l) == {l[k] : k \in Slots}

\* APIService.init lists each available server once.
Init ==
    /\ list \in [Slots -> Available]
    /\ Content(list) = Available
    /\ pc = [c \in Calls |-> "new"]
    /\ want \in [Calls -> Available \cup Others \cup {Listing}]
    /\ slot = [c \in Calls |-> N]
    /\ other = [c \in Calls |-> 1]
    /\ held = [c \in Calls |-> list[1]]
    /\ read = [c \in Calls |-> {}]
    /\ crowded = {}

\* A call that has slots up to k left to swap.  A list of one slot is not
\* shuffled; after the last swap the list is read from its first slot on.
SwapFrom(c, k) ==
    /\ pc' = [pc EXCEPT ![c] = IF k > 1 THEN "get" ELSE "scan"]
    /\ slot' = [slot EXCEPT ![c] = k]

Start(c) ==
    /\ pc[c] = "new"
    /\ SwapFrom(c, N)
    /\ crowded' = crowded \cup (IF Busy = {} THEN {} ELSE Busy \cup {c})
    /\ UNCHANGED <<list, want, other, held, read>>

\* Fault: slots counted from zero.
RandomFromZero(k) == 0..k
\* rnd.nextInt(i), for the slots counted from one
RandomSlots(k) == 1..k

\* l.get(k)
Get(c) ==
    /\ pc[c] = "get"
    /\ held' = [held EXCEPT ![c] = list[slot[c]]]
    /\ \E j \in RandomSlots(slot[c]) : other' = [other EXCEPT ![c] = j]
    /\ pc' = [pc EXCEPT ![c] = "setOther"]
    /\ UNCHANGED <<list, want, slot, read, crowded>>

\* l.set(j, the element got), which returns the element it replaces
SetOther(c) ==
    /\ pc[c] = "setOther"
    /\ list' = [list EXCEPT ![other[c]] = held[c]]
    /\ held' = [held EXCEPT ![c] = list[other[c]]]
    /\ pc' = [pc EXCEPT ![c] = "setSlot"]
    /\ UNCHANGED <<want, slot, other, read, crowded>>

\* Fault: the element that was replaced is not put back.
SetSlotForgotten(c) ==
    /\ pc[c] = "setSlot"
    /\ SwapFrom(c, slot[c] - 1)
    /\ UNCHANGED <<list, want, other, held, read, crowded>>

\* l.set(k, the element replaced)
SetSlot(c) ==
    /\ pc[c] = "setSlot"
    /\ list' = [list EXCEPT ![slot[c]] = held[c]]
    /\ SwapFrom(c, slot[c] - 1)
    /\ UNCHANGED <<want, other, held, read, crowded>>

\* Fault: a check that reaches the end of the list passes.
EndOfListAccepting(c) == IF want[c] = Listing THEN "listed" ELSE "found"
EndOfList(c) == IF want[c] = Listing THEN "listed" ELSE "missing"

\* A check (contains) stops at the server it looks for.
Scan(c) ==
    /\ pc[c] = "scan"
    /\ read' = [read EXCEPT ![c] = @ \cup {list[slot[c]]}]
    /\ \/ /\ list[slot[c]] = want[c]
          /\ pc' = [pc EXCEPT ![c] = "found"]
          /\ UNCHANGED slot
       \/ /\ list[slot[c]] # want[c] /\ slot[c] < N
          /\ slot' = [slot EXCEPT ![c] = @ + 1]
          /\ UNCHANGED pc
       \/ /\ list[slot[c]] # want[c] /\ slot[c] = N
          /\ pc' = [pc EXCEPT ![c] = EndOfList(c)]
          /\ UNCHANGED slot
    /\ UNCHANGED <<list, want, other, held, crowded>>

\* All calls have returned.
Quiet == (\A c \in Calls : pc[c] \in Ended) /\ UNCHANGED vars

Step(c) == Get(c) \/ SetOther(c) \/ SetSlot(c) \/ Scan(c)
Next == (\E c \in Calls : Start(c) \/ Step(c)) \/ Quiet

Spec == Init /\ [][Next]_vars

-----------------------------------------------------------------------------
(* Properties *)

TypeOK ==
    /\ list \in [Slots -> Available]
    /\ pc \in [Calls -> Stages]
    /\ want \in [Calls -> Available \cup Others \cup {Listing}]
    /\ slot \in [Calls -> Slots]
    /\ other \in [Calls -> Slots]
    /\ held \in [Calls -> Available]
    /\ read \in [Calls -> SUBSET Available]
    /\ crowded \in SUBSET Calls

\* However the shuffles interleave, the check never lets a server pass that
\* is not available for the version.
OthersRefused == \A c \in Calls : pc[c] = "found" => want[c] \notin Others

\* What a check or a listing answers is right.
Right(c) ==
    /\ pc[c] = "missing" => want[c] \in Others
    /\ pc[c] = "listed" => read[c] = Available

\* As long as no two calls have ever been under way together, an available
\* server is never refused with ERROR002, and a listing shows all servers.
RightUnlessCrowded == crowded = {} => \A c \in Calls : Right(c)

\* ERROR002 says "Selected supportedServer is not available for the given
\* mpVersion" (APIService.java:185): so a check that had the list to itself
\* must not refuse an available server, whatever went on before.
RefusedOnlyIfUnavailable ==
    \A c \in Calls \ crowded : pc[c] = "missing" => want[c] \in Others

-----------------------------------------------------------------------------
(* The inductive invariant behind RightUnlessCrowded *)

\* Taken together with the element that a call holds, the list is complete.
Whole ==
    /\ (\A c \in Calls : pc[c] # "setSlot") => Content(list) = Available
    /\ \A c \in Calls : pc[c] = "setSlot" =>
            Content([list EXCEPT ![slot[c]] = held[c]]) = Available

\* Only the slots from the second on are swapped.
SwapsUpwards == \A c \in Calls : pc[c] \in {"get", "setOther", "setSlot"} => slot[c] > 1

Progress(c) ==
    /\ pc[c] \in {"new", "get", "setOther", "setSlot"} => read[c] = {}
    /\ pc[c] = "setOther" => held[c] = list[slot[c]]
    /\ pc[c] = "scan" => /\ read[c] = {list[k] : k \in 1..(slot[c] - 1)}
                         /\ want[c] \notin read[c]

OneAtATime == \A c, d \in Busy : c = d

Orderly == OneAtATime /\ Whole /\ \A c \in Calls : Progress(c) /\ Right(c)

IInv == TypeOK /\ SwapsUpwards /\ OthersRefused /\ (crowded = {} => Orderly)
===============================================================================
