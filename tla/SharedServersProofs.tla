-------------------------- MODULE SharedServersProofs --------------------------
(***************************************************************************)
(* For every number of servers and calls: the shuffled list never accepts  *)
(* a server that is not available, and as long as calls do not overlap it  *)
(* neither refuses nor conceals one that is.                               *)
(***************************************************************************)
EXTENDS SharedServers, TLAPS

\* A swap leaves the content of the list as it is.
LEMMA SwapKeepsContent ==
    ASSUME NEW l \in [Slots -> Available], NEW j \in Slots, NEW k \in Slots
    PROVE  LET m == [l EXCEPT ![j] = l[k]]
           IN  Content([m EXCEPT ![k] = l[j]]) = Content(l)
<1> DEFINE m == [l EXCEPT ![j] = l[k]]
           n == [m EXCEPT ![k] = l[j]]
<1>1. /\ n[j] = l[k] /\ n[k] = l[j]
      /\ \A i \in Slots : i # j /\ i # k => n[i] = l[i]
    OBVIOUS
<1> HIDE DEF n, m
<1>2. ASSUME NEW i \in Slots
      PROVE  (\E h \in Slots : n[h] = l[i]) /\ (\E h \in Slots : l[h] = n[i])
    BY <1>1
<1>3. Content(n) = Content(l)
    BY <1>2 DEF Content
<1> QED
    BY <1>3 DEF n, m

\* Types, and the fact about slots that they rest on
LEMMA TypeStep == TypeOK /\ SwapsUpwards /\ [Next]_vars => (TypeOK /\ SwapsUpwards)'
<1> SUFFICES ASSUME TypeOK, SwapsUpwards, [Next]_vars
             PROVE  (TypeOK /\ SwapsUpwards)'
    OBVIOUS
<1> USE SlotsAssumption DEF TypeOK, SwapsUpwards, Stages, Ended, Slots
<1>1. CASE UNCHANGED vars
    BY <1>1 DEF vars
<1>2. ASSUME NEW c \in Calls, Start(c)
      PROVE  (TypeOK /\ SwapsUpwards)'
    BY <1>2 DEF Start, SwapFrom, Busy
<1>3. ASSUME NEW c \in Calls, Get(c)
      PROVE  (TypeOK /\ SwapsUpwards)'
    BY <1>3 DEF Get, RandomSlots
<1>4. ASSUME NEW c \in Calls, SetOther(c)
      PROVE  (TypeOK /\ SwapsUpwards)'
    BY <1>4 DEF SetOther
<1>5. ASSUME NEW c \in Calls, SetSlot(c)
      PROVE  (TypeOK /\ SwapsUpwards)'
    <2>1. slot[c] - 1 \in 1..N
        BY <1>5 DEF SetSlot
    <2> QED
        BY <1>5, <2>1 DEF SetSlot, SwapFrom
<1>6. ASSUME NEW c \in Calls, Scan(c)
      PROVE  (TypeOK /\ SwapsUpwards)'
    <2>1. /\ read' \in [Calls -> SUBSET Available]
          /\ UNCHANGED <<list, want, other, held, crowded>>
        BY <1>6 DEF Scan
    <2>2. /\ slot' \in [Calls -> 1..N] /\ \A d \in Calls \ {c} : slot'[d] = slot[d]
          /\ pc' \in [Calls -> Stages] /\ \A d \in Calls \ {c} : pc'[d] = pc[d]
          /\ pc'[c] \in {"scan"} \cup Ended
        <3>1. CASE UNCHANGED slot /\ pc' = [pc EXCEPT ![c] = "found"]
            BY <3>1
        <3>2. CASE slot[c] < N /\ slot' = [slot EXCEPT ![c] = @ + 1] /\ UNCHANGED pc
            BY <1>6, <3>2 DEF Scan
        <3>3. CASE UNCHANGED slot /\ pc' = [pc EXCEPT ![c] = EndOfList(c)]
            BY <3>3 DEF EndOfList
        <3> QED
            BY <1>6, <3>1, <3>2, <3>3 DEF Scan
    <2> QED
        BY <2>1, <2>2
<1> QED
    BY <1>1, <1>2, <1>3, <1>4, <1>5, <1>6 DEF Next, Step, Quiet

\* Every value a call can find in the list is an available server.
LEMMA RefusedStep == TypeOK /\ OthersRefused /\ [Next]_vars => OthersRefused'
<1> SUFFICES ASSUME TypeOK, OthersRefused, [Next]_vars, NEW c \in Calls, pc'[c] = "found"
             PROVE  want'[c] \notin Others
    BY DEF OthersRefused
<1> USE DEF TypeOK, OthersRefused
<1>1. want' = want
    BY DEF Next, Step, Start, Get, SetOther, SetSlot, Scan, Quiet, vars
<1>2. CASE pc[c] = "found"
    BY <1>1, <1>2
<1>3. CASE pc[c] # "found"
    <2>1. Scan(c)
        BY <1>3 DEF Next, Step, Start, SwapFrom, Get, SetOther, SetSlot, Scan, EndOfList, Quiet, vars
    <2>2. list[slot[c]] = want[c]
        BY <1>3, <2>1 DEF Scan, EndOfList
    <2> QED
        BY <1>1, <2>2, ServersAssumption
<1> QED
    BY <1>2, <1>3

-----------------------------------------------------------------------------
(* Calls that do not overlap *)

\* The calls other than the one that takes a step have not started or ended.
LEMMA Alone ==
    ASSUME TypeOK, OneAtATime, NEW c \in Busy, NEW d \in Calls \ {c}
    PROVE  pc[d] \in {"new"} \cup Ended
    BY DEF OneAtATime, Busy, TypeOK, Stages

\* A step of one call leaves what is known of the others as it is.
LEMMA OthersProgress ==
    ASSUME Orderly, NEW d \in Calls, pc[d] \in {"new"} \cup Ended,
           pc'[d] = pc[d], read'[d] = read[d], want' = want
    PROVE  Progress(d)' /\ Right(d)'
    BY DEF Orderly, Progress, Right, Ended

LEMMA StartStep ==
    ASSUME IInv, Orderly, NEW c \in Calls, Start(c), crowded' = {}
    PROVE  Orderly'
<1> USE SlotsAssumption DEF IInv, TypeOK, Stages, Ended
<1>1. Busy = {} /\ pc[c] = "new"
    BY DEF Start
<1>2. /\ pc'[c] = IF N > 1 THEN "get" ELSE "scan"
      /\ slot'[c] = N /\ \A d \in Calls \ {c} : pc'[d] = pc[d]
      /\ UNCHANGED <<list, want, other, held, read>>
    BY DEF Start, SwapFrom
<1>3. OneAtATime'
    BY <1>1, <1>2 DEF OneAtATime, Busy
<1>4. Whole'
    BY <1>1, <1>2 DEF Orderly, Whole, Busy, Content
<1>5. Progress(c)' /\ Right(c)'
    BY <1>1, <1>2 DEF Orderly, Progress, Right
<1>6. \A d \in Calls \ {c} : Progress(d)' /\ Right(d)'
    <2> TAKE d \in Calls \ {c}
    <2>1. pc[d] \in {"new"} \cup Ended
        BY <1>1 DEF Busy
    <2> QED
        BY <1>2, <2>1, OthersProgress
<1> QED
    BY <1>3, <1>4, <1>5, <1>6 DEF Orderly

LEMMA GetStep ==
    ASSUME IInv, Orderly, NEW c \in Calls, Get(c)
    PROVE  Orderly'
<1> USE SlotsAssumption DEF IInv, TypeOK, Stages, Ended
<1>1. pc[c] = "get" /\ c \in Busy
    BY DEF Get, Busy
<1>2. /\ pc'[c] = "setOther" /\ \A d \in Calls \ {c} : pc'[d] = pc[d]
      /\ held'[c] = list[slot[c]]
      /\ UNCHANGED <<list, want, slot, read>>
    BY DEF Get
<1>3. \A d \in Calls \ {c} : pc[d] \in {"new"} \cup Ended
    BY <1>1, Alone DEF Orderly
<1>4. OneAtATime'
    BY <1>2, <1>3 DEF OneAtATime, Busy
<1>5. Whole'
    <2>1. \A d \in Calls : pc[d] # "setSlot" /\ pc'[d] # "setSlot"
        BY <1>1, <1>2, <1>3
    <2> QED
        BY <1>2, <2>1 DEF Orderly, Whole, Content
<1>6. Progress(c)' /\ Right(c)'
    BY <1>1, <1>2 DEF Orderly, Progress, Right
<1>7. \A d \in Calls \ {c} : Progress(d)' /\ Right(d)'
    BY <1>2, <1>3, OthersProgress
<1> QED
    BY <1>4, <1>5, <1>6, <1>7 DEF Orderly

LEMMA SetOtherStep ==
    ASSUME IInv, Orderly, NEW c \in Calls, SetOther(c)
    PROVE  Orderly'
<1> USE SlotsAssumption DEF IInv, TypeOK, Stages, Ended
<1>1. pc[c] = "setOther" /\ c \in Busy
    BY DEF SetOther, Busy
<1>2. /\ pc'[c] = "setSlot" /\ \A d \in Calls \ {c} : pc'[d] = pc[d]
      /\ list' = [list EXCEPT ![other[c]] = held[c]]
      /\ held'[c] = list[other[c]]
      /\ UNCHANGED <<want, slot, read>>
    BY DEF SetOther
<1>3. \A d \in Calls \ {c} : pc[d] \in {"new"} \cup Ended
    BY <1>1, Alone DEF Orderly
<1>4. OneAtATime'
    BY <1>2, <1>3 DEF OneAtATime, Busy
<1>5. Whole'
    <2>1. Content(list) = Available
        BY <1>1, <1>3 DEF Orderly, Whole
    <2>2. held[c] = list[slot[c]]
        BY <1>1 DEF Orderly, Progress
    <2>3. Content([list' EXCEPT ![slot[c]] = list[other[c]]]) = Content(list)
        <3>1. slot[c] \in Slots /\ other[c] \in Slots /\ list \in [Slots -> Available]
            OBVIOUS
        <3>2. list' = [list EXCEPT ![other[c]] = list[slot[c]]]
            BY <1>2, <2>2
        <3> QED
            BY <3>1, <3>2, SwapKeepsContent
    <2>4. Content([list EXCEPT ![slot[c]] = held[c]])' = Available
        BY <1>2, <2>1, <2>3 DEF Content
    <2> QED
        BY <1>2, <1>3, <2>4 DEF Whole
<1>6. Progress(c)' /\ Right(c)'
    BY <1>1, <1>2 DEF Orderly, Progress, Right
<1>7. \A d \in Calls \ {c} : Progress(d)' /\ Right(d)'
    BY <1>2, <1>3, OthersProgress
<1> QED
    BY <1>4, <1>5, <1>6, <1>7 DEF Orderly

LEMMA SetSlotStep ==
    ASSUME IInv, Orderly, NEW c \in Calls, SetSlot(c)
    PROVE  Orderly'
<1> USE SlotsAssumption DEF IInv, TypeOK, Stages, Ended
<1>1. pc[c] = "setSlot" /\ c \in Busy /\ slot[c] > 1
    BY DEF SetSlot, Busy, SwapsUpwards
<1>2. /\ pc'[c] = IF slot[c] - 1 > 1 THEN "get" ELSE "scan"
      /\ slot'[c] = slot[c] - 1
      /\ \A d \in Calls \ {c} : pc'[d] = pc[d]
      /\ list' = [list EXCEPT ![slot[c]] = held[c]]
      /\ UNCHANGED <<want, held, read>>
    BY DEF SetSlot, SwapFrom
<1>3. \A d \in Calls \ {c} : pc[d] \in {"new"} \cup Ended
    BY <1>1, Alone DEF Orderly
<1>4. OneAtATime'
    BY <1>2, <1>3 DEF OneAtATime, Busy
<1>5. Whole'
    <2>1. Content([list EXCEPT ![slot[c]] = held[c]]) = Available
        BY <1>1 DEF Orderly, Whole
    <2>2. Content(list)' = Available
        BY <1>2, <2>1 DEF Content
    <2> QED
        BY <1>2, <1>3, <2>2 DEF Whole
<1>6. Progress(c)' /\ Right(c)'
    <2>1. read'[c] = {}
        BY <1>1, <1>2 DEF Orderly, Progress
    <2>2. pc'[c] = "scan" => slot'[c] = 1
        BY <1>1, <1>2 DEF Slots
    <2> QED
        BY <1>2, <2>1, <2>2 DEF Progress, Right
<1>7. \A d \in Calls \ {c} : Progress(d)' /\ Right(d)'
    BY <1>2, <1>3, OthersProgress
<1> QED
    BY <1>4, <1>5, <1>6, <1>7 DEF Orderly

LEMMA ScanStep ==
    ASSUME IInv, Orderly, NEW c \in Calls, Scan(c)
    PROVE  Orderly'
<1> USE SlotsAssumption DEF IInv, TypeOK, Stages, Ended
<1> DEFINE x == list[slot[c]]
<1>1. pc[c] = "scan" /\ c \in Busy /\ slot[c] \in 1..N
    BY DEF Scan, Busy, Slots
<1>2. /\ read'[c] = read[c] \cup {x}
      /\ \A d \in Calls \ {c} : read'[d] = read[d]
      /\ UNCHANGED <<list, want, held>>
    BY DEF Scan
<1>3. \/ x = want[c] /\ pc'[c] = "found"
      \/ x # want[c] /\ slot[c] < N /\ slot'[c] = slot[c] + 1 /\ pc'[c] = "scan"
      \/ x # want[c] /\ slot[c] = N /\ pc'[c] = EndOfList(c)
    BY DEF Scan
<1>4. \A d \in Calls \ {c} : pc'[d] = pc[d]
    BY DEF Scan
<1>5. \A d \in Calls \ {c} : pc[d] \in {"new"} \cup Ended
    BY <1>1, Alone DEF Orderly
<1>6. pc'[c] \in {"scan"} \cup Ended
    BY <1>3 DEF EndOfList
<1>7. OneAtATime'
    BY <1>4, <1>5 DEF OneAtATime, Busy
<1>8. Content(list) = Available /\ Whole'
    BY <1>1, <1>2, <1>4, <1>5, <1>6 DEF Orderly, Whole, Content
<1>9. read[c] = {list[k] : k \in 1..(slot[c] - 1)} /\ want[c] \notin read[c]
    BY <1>1 DEF Orderly, Progress
<1>10. read'[c] = {list[k] : k \in 1..slot[c]}
    <2>1. 1..slot[c] = (1..(slot[c] - 1)) \cup {slot[c]}
        BY <1>1
    <2> QED
        BY <1>2, <1>9, <2>1
<1>11. Progress(c)' /\ Right(c)'
    <2>1. CASE x = want[c] /\ pc'[c] = "found"
        BY <2>1 DEF Progress, Right
    <2>2. CASE x # want[c] /\ slot[c] < N /\ slot'[c] = slot[c] + 1 /\ pc'[c] = "scan"
        <3>1. slot'[c] - 1 = slot[c] /\ want'[c] \notin read'[c]
            BY <1>1, <1>2, <1>9, <2>2
        <3> QED
            BY <1>2, <1>10, <2>2, <3>1 DEF Progress, Right
    <2>3. CASE x # want[c] /\ slot[c] = N /\ pc'[c] = EndOfList(c)
        <3>1. read'[c] = Available
            BY <1>8, <1>10, <2>3 DEF Content, Slots
        <3>2. want'[c] \notin Available
            BY <1>2, <1>9, <2>3, <3>1
        <3>3. pc'[c] = IF want[c] = Listing THEN "listed" ELSE "missing"
            BY <2>3 DEF EndOfList
        <3>4. want'[c] # Listing => want'[c] \in Others
            <4>1. want[c] \in Available \cup Others \cup {Listing}
                OBVIOUS
            <4> QED
                BY <1>2, <3>2, <4>1
        <3> QED
            BY <1>2, <3>1, <3>3, <3>4 DEF Progress, Right
    <2> QED
        BY <1>3, <2>1, <2>2, <2>3
<1>12. \A d \in Calls \ {c} : Progress(d)' /\ Right(d)'
    BY <1>2, <1>4, <1>5, OthersProgress
<1> QED
    BY <1>7, <1>8, <1>11, <1>12 DEF Orderly

\* Orderly is kept by the steps of calls that do not overlap.
LEMMA InvStep == IInv /\ [Next]_vars => IInv'
<1> SUFFICES ASSUME IInv, [Next]_vars
             PROVE  IInv'
    OBVIOUS
<1>1. TypeOK' /\ SwapsUpwards'
    BY TypeStep DEF IInv
<1>o. OthersRefused'
    BY RefusedStep DEF IInv
<1>2. ASSUME crowded' = {}
      PROVE  Orderly'
    <2>1. crowded = {}
        BY <1>2 DEF Next, Step, Start, Get, SetOther, SetSlot, Scan, Quiet, vars
    <2>2. Orderly
        BY <2>1 DEF IInv
    <2>3. CASE UNCHANGED vars
        BY <2>2, <2>3 DEF vars, Orderly, OneAtATime, Busy, Whole, Content, Progress, Right
    <2> QED
        BY <1>2, <2>2, <2>3, StartStep, GetStep, SetOtherStep, SetSlotStep, ScanStep
        DEF Next, Step, Quiet
<1> QED
    BY <1>1, <1>o, <1>2 DEF IInv

LEMMA InvInit == Init => IInv
<1> SUFFICES ASSUME Init
             PROVE  IInv
    OBVIOUS
<1> USE SlotsAssumption DEF Init
<1>1. TypeOK
    <2>1. 1 \in Slots /\ N \in Slots
        BY DEF Slots
    <2> QED
        BY <2>1 DEF TypeOK, Stages
<1>2. SwapsUpwards /\ OthersRefused
    BY DEF SwapsUpwards, OthersRefused
<1>3. Orderly
    BY DEF Orderly, OneAtATime, Busy, Whole, Progress, Right
<1> QED
    BY <1>1, <1>2, <1>3 DEF IInv

-----------------------------------------------------------------------------
(* The theorems *)

\* All variables keep their types: no access is outside the list.
THEOREM ServersTypeCorrect == Spec => []TypeOK
<1>1. IInv => TypeOK
    BY DEF IInv
<1> QED
    BY <1>1, InvInit, InvStep, PTL DEF Spec

\* Whatever the shuffles of MPOptionsAvailable do to the list together,
\* APIService.validate lets no server pass that is not available.
THEOREM OthersAlwaysRefused == Spec => []OthersRefused
<1>1. IInv => OthersRefused
    BY DEF IInv
<1> QED
    BY <1>1, InvInit, InvStep, PTL DEF Spec

\* Requests that do not overlap see the list of servers complete: the shuffle
\* in getSupportedServers is right for a single thread.
THEOREM RightCorrect == Spec => []RightUnlessCrowded
<1>1. IInv => RightUnlessCrowded
    BY DEF IInv, Orderly, RightUnlessCrowded
<1> QED
    BY <1>1, InvInit, InvStep, PTL DEF Spec
===============================================================================
