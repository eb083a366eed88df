------------------------- MODULE BoxReassemblyProofs ------------------------
(***************************************************************************)
(* The listener table of the box layer, for any messages, counts, lives    *)
(* and network: the hand-kept count of a listener is right, no box is used *)
(* twice, only whole messages are delivered, and the layer implements      *)
(* MessageDelivery.                                                        *)
(***************************************************************************)
EXTENDS BoxReassembly, FiniteSetTheorems, TLAPS

\* A box number is one a transmission really contains.
Numbered == \A m \in Msgs : slots[m] \subseteq 0 .. Sent[m] - 1

\* The strengthening: the listed invariants hold together, because a delivery
\* uses up copies (BoxUsedOnce) only if the count is right (NbnCountsSlots) and
\* the boxes filed are boxes that exist (Numbered).
Inv ==
  /\ TypeOK
  /\ Numbered
  /\ NbnCountsSlots
  /\ NoDeadListener
  /\ BoxUsedOnce
  /\ OnlyWholeDelivered

\* The parts of a box.
LEMMA BoxParts ==
  ASSUME NEW b \in Box
  PROVE  /\ b[1] \in Msgs
         /\ b[2] \in 0 .. Sent[b[1]] - 1
         /\ b[2] \in Nat /\ b[2] < Sent[b[1]]
         /\ b = <<b[1], b[2]>>
<1>1. PICK m \in Msgs : b \in {m} \X (0 .. Sent[m] - 1)
  BY DEF Box, Promise!Box
<1>2. Sent[m] \in Nat
  BY BoxAssumption
<1> QED BY <1>1, <1>2

\* A box is known by its parts.
LEMMA BoxOf ==
  ASSUME NEW m \in Msgs, NEW i \in 0 .. Sent[m] - 1
  PROVE  <<m, i>> \in Box
<1>1. <<m, i>> \in {m} \X (0 .. Sent[m] - 1)
  OBVIOUS
<1> QED BY <1>1 DEF Box, Promise!Box

\* Counts are natural numbers.
LEMMA CountTypes ==
  ASSUME NEW m \in Msgs
  PROVE  /\ Cnt[m] \in Nat /\ Cnt[m] > 0
         /\ Sent[m] \in Nat /\ Sent[m] > 0
         /\ Sent[m] <= Cnt[m]
  BY BoxAssumption

\* The numbers below n are n many, and a set of that many of them is all of
\* them.
LEMMA FullSlots ==
  ASSUME NEW n \in Nat, NEW S \in SUBSET (0 .. n - 1)
  PROVE  /\ IsFiniteSet(S) /\ Cardinality(S) \in Nat
         /\ Cardinality(S) <= n
         /\ Cardinality(S) = n => S = 0 .. n - 1
<1>1. IsFiniteSet(0 .. n - 1) /\ Cardinality(0 .. n - 1) = n
  BY FS_Interval
<1> QED BY <1>1, FS_Subset, FS_CardinalityType

\* A listener whose count has reached cnt holds every box of its message, and
\* the message is one sent in full.
LEMMA CompleteIsFull ==
  ASSUME Inv, NEW m \in boxls, Complete(m)
  PROVE  /\ m \in Msgs /\ Whole(m) /\ Full(m)
         /\ \A b \in Box : b[1] = m => b[2] \in slots[m]
<1>1. m \in Msgs
  BY DEF Inv, TypeOK
<1>2. Cardinality(slots[m]) = Cnt[m] /\ slots[m] \in SUBSET (0 .. Sent[m] - 1)
  BY <1>1 DEF Inv, NbnCountsSlots, Numbered, Complete
<1>3. Cnt[m] <= Sent[m]
  BY <1>1, <1>2, FullSlots, CountTypes
<1>4. Sent[m] = Cnt[m]
  BY <1>1, <1>3, CountTypes
<1>5. slots[m] = 0 .. Sent[m] - 1
  BY <1>1, <1>2, <1>4, FullSlots, CountTypes
<1>6. ASSUME NEW b \in Box, b[1] = m
      PROVE  b[2] \in slots[m]
  BY <1>5, <1>6, BoxParts
<1> QED
  BY <1>1, <1>4, <1>5, <1>6 DEF Whole, Promise!Whole, Full

-----------------------------------------------------------------------------
\* The invariant holds at first.
LEMMA InitInv == Init => Inv
<1> SUFFICES ASSUME Init PROVE Inv
  OBVIOUS
<1>1. TypeOK
  BY DEF Init, TypeOK
<1>2. Numbered /\ NoDeadListener /\ OnlyWholeDelivered
  BY DEF Init, Numbered, NoDeadListener, OnlyWholeDelivered
<1>3. NbnCountsSlots
  BY FS_EmptySet DEF Init, NbnCountsSlots
<1>4. BoxUsedOnce
  BY BoxParts DEF Init, BoxUsedOnce, Held
<1> QED BY <1>1, <1>2, <1>3, <1>4 DEF Inv

\* A step that leaves the table and the deliveries alone keeps what is said of
\* them.
LEMMA TableKept ==
  ASSUME Inv, UNCHANGED <<table, delivered>>
  PROVE  Numbered' /\ NbnCountsSlots' /\ NoDeadListener' /\ OnlyWholeDelivered'
  BY DEF Inv, table, Numbered, NbnCountsSlots, NoDeadListener, OnlyWholeDelivered

\* The network's steps: what is added to or taken off the copies in flight.
LEMMA NetStep ==
  ASSUME Inv,
         \/ \E m \in Msgs : Send(m)
         \/ \E b \in Box : Duplicate(b)
         \/ \E b \in Box : Lose(b)
  PROVE  Inv'
<1> DEFINE Flow == /\ UNCHANGED <<rcv, got, table, delivered, up>>
                   /\ net' \in [Box -> Nat] /\ carried' \in [Box -> Nat]
                   /\ sends' \in [Msgs -> Nat] /\ dups' \in Nat
                   /\ \A b \in Box : net'[b] - net[b] <= carried'[b] - carried[b]
<1>1. Flow
  <2>1. ASSUME NEW m \in Msgs, Send(m)
        PROVE  Flow
    BY <2>1 DEF Inv, TypeOK, Send
  <2>2. ASSUME NEW b \in Box, Duplicate(b)
        PROVE  Flow
    BY <2>2 DEF Inv, TypeOK, Duplicate
  <2>3. ASSUME NEW b \in Box, Lose(b)
        PROVE  Flow
    BY <2>3 DEF Inv, TypeOK, Lose
  <2> HIDE DEF Flow
  <2> QED BY <2>1, <2>2, <2>3
<1>2. TypeOK'
  BY <1>1 DEF Inv, TypeOK, table
<1>3. BoxUsedOnce'
  <2> SUFFICES ASSUME NEW b \in Box
               PROVE  delivered'[b[1]] + Held(b)' + net'[b] <= carried'[b]
    BY DEF BoxUsedOnce
  <2>1. Held(b)' = Held(b) /\ delivered' = delivered /\ Held(b) \in Nat
    BY <1>1 DEF Held, table
  <2>2. delivered[b[1]] + Held(b) + net[b] <= carried[b]
    BY DEF Inv, BoxUsedOnce
  <2>3. /\ delivered[b[1]] \in Nat /\ net[b] \in Nat /\ carried[b] \in Nat
        /\ net'[b] \in Nat /\ carried'[b] \in Nat
    BY <1>1, BoxParts DEF Inv, TypeOK
  <2>4. net'[b] - net[b] <= carried'[b] - carried[b]
    BY <1>1
  <2> QED BY <2>1, <2>2, <2>3, <2>4
<1> QED BY <1>1, <1>2, <1>3, TableKept DEF Inv

\* The receiver takes a copy off the network and holds it.
LEMMA ReceiveStep ==
  ASSUME Inv, NEW c \in Box, Receive(c)
  PROVE  Inv'
<1>1. TypeOK'
  BY DEF Inv, TypeOK, Receive, table
<1>2. BoxUsedOnce'
  <2> SUFFICES ASSUME NEW b \in Box
               PROVE  delivered'[b[1]] + Held(b)' + net'[b] <= carried'[b]
    BY DEF BoxUsedOnce
  <2>1. delivered[b[1]] + Held(b) + net[b] <= carried[b]
    BY DEF Inv, BoxUsedOnce
  <2>2. delivered[b[1]] \in Nat /\ net[b] \in Nat /\ carried[b] \in Nat
    BY BoxParts DEF Inv, TypeOK
  <2>3. delivered' = delivered /\ carried' = carried /\ slots' = slots
    BY DEF Receive, table
  <2>4. CASE b = c
    <3>1. net'[b] = net[b] - 1
      BY <2>4 DEF Receive, Inv, TypeOK
    <3>2. Held(b)' = Held(b) + 1
      BY <2>3, <2>4 DEF Held, Receive
    <3>3. Held(b) \in Nat
      BY DEF Held
    <3> QED BY <2>1, <2>2, <2>3, <3>1, <3>2, <3>3
  <2>5. CASE b # c
    <3>1. net'[b] = net[b]
      BY <2>5 DEF Receive, Inv, TypeOK
    <3>2. Held(b)' = Held(b)
      BY <2>3, <2>5 DEF Held, Receive
    <3> QED BY <2>1, <2>3, <3>1, <3>2
  <2> QED BY <2>4, <2>5
<1> QED BY <1>1, <1>2, TableKept DEF Inv, Receive

\* A received box goes into a table slot or is dropped: what is held does not
\* grow.
LEMMA FiledOnce ==
  ASSUME Inv, rcv # "idle", Release, UNCHANGED <<net, carried, delivered>>,
         \A m \in Msgs : slots'[m] \subseteq slots[m] \union (IF m = got[1] THEN {got[2]} ELSE {})
  PROVE  BoxUsedOnce'
<1> SUFFICES ASSUME NEW b \in Box
             PROVE  delivered'[b[1]] + Held(b)' + net'[b] <= carried'[b]
  BY DEF BoxUsedOnce
<1>1. delivered[b[1]] + Held(b) + net[b] <= carried[b]
  BY DEF Inv, BoxUsedOnce
<1>2. delivered[b[1]] \in Nat /\ net[b] \in Nat /\ carried[b] \in Nat
  BY BoxParts DEF Inv, TypeOK
<1>3. got \in Box
  BY DEF Inv, TypeOK
<1>4. Held(b)' <= Held(b) /\ Held(b) \in Nat /\ Held(b)' \in Nat
  <2>1. b[1] \in Msgs /\ b = <<b[1], b[2]>> /\ got = <<got[1], got[2]>>
    BY <1>3, BoxParts
  <2>2. b[2] \in slots'[b[1]] => b[2] \in slots[b[1]] \/ got = b
    BY <2>1
  <2> QED BY <2>2 DEF Held, Release
<1> QED BY <1>1, <1>2, <1>4

\* A box filed in its listener.
LEMMA StoreStep == ASSUME Inv, Store PROVE Inv'
<1> DEFINE m == got[1]
           i == got[2]
<1>1. /\ got \in Box /\ m \in Msgs /\ i \in 0 .. Sent[m] - 1 /\ i \in Nat
      /\ m \in boxls /\ rcv # "idle" /\ i < Sent[m]
  BY BoxParts DEF Inv, TypeOK, Store
<1>2. CASE /\ i \notin slots[m] /\ nbn[m] < Cnt[m]
           /\ slots' = [slots EXCEPT ![m] = @ \union {i}]
           /\ clicks' = [clicks EXCEPT ![m] = @ + ClicksAdd]
           /\ nbn' = [nbn EXCEPT ![m] = @ + 1]
  <2>1. UNCHANGED <<net, sends, dups, carried, boxls, delivered, up>> /\ Release
    BY DEF Store, netvars
  <2>2. TypeOK'
    BY <1>1, <1>2, <2>1, BoxAssumption DEF Inv, TypeOK, Release
  <2>3. /\ slots[m] \in SUBSET (0 .. Sent[m] - 1) /\ nbn[m] = Cardinality(slots[m])
        /\ Sent[m] \in Nat /\ Cnt[m] \in Nat /\ Sent[m] <= Cnt[m]
    BY <1>1, CountTypes DEF Inv, Numbered, NbnCountsSlots
  <2>4. nbn'[m] = Cardinality(slots'[m])
    <3>1. Cardinality(slots[m] \union {i}) = Cardinality(slots[m]) + 1
      BY <1>2, <2>3, FullSlots, FS_AddElement
    <3> QED BY <1>1, <1>2, <2>3, <3>1 DEF Inv, TypeOK
  <2>5. Numbered'
    BY <1>1, <1>2 DEF Inv, TypeOK, Numbered
  <2>6. NbnCountsSlots'
    <3> SUFFICES ASSUME NEW k \in Msgs
                 PROVE  /\ slots'[k] \subseteq 0 .. Cnt[k] - 1
                        /\ nbn'[k] = Cardinality(slots'[k])
                        /\ k \in boxls' <=> slots'[k] # {}
      BY DEF NbnCountsSlots
    <3>1. CASE k = m
      <4>1. slots'[m] = slots[m] \union {i}
        BY <1>1, <1>2 DEF Inv, TypeOK
      <4> QED BY <1>1, <2>1, <2>3, <2>4, <3>1, <4>1
    <3>2. CASE k # m
      BY <1>1, <1>2, <2>1, <3>2 DEF Inv, TypeOK, NbnCountsSlots
    <3> QED BY <3>1, <3>2
  <2>7. NoDeadListener'
    BY <1>1, <1>2, <2>1, BoxAssumption DEF Inv, TypeOK, NoDeadListener
  <2>8. BoxUsedOnce'
    <3>1. \A k \in Msgs : slots'[k] \subseteq slots[k] \union (IF k = got[1] THEN {got[2]} ELSE {})
      BY <1>2 DEF Inv, TypeOK
    <3> QED BY <1>1, <2>1, <3>1, FiledOnce
  <2>9. OnlyWholeDelivered'
    BY <2>1 DEF Inv, OnlyWholeDelivered
  <2> QED BY <2>2, <2>5, <2>6, <2>7, <2>8, <2>9 DEF Inv
<1>3. CASE UNCHANGED <<slots, clicks, nbn>>
  <2>1. UNCHANGED <<net, sends, dups, carried, boxls, delivered, up>> /\ Release
    BY DEF Store, netvars
  <2>2. TypeOK'
    BY <1>3, <2>1 DEF Inv, TypeOK, Release
  <2>3. BoxUsedOnce'
    BY <1>1, <1>3, <2>1, FiledOnce
  <2> QED BY <1>3, <2>1, <2>2, <2>3, TableKept DEF Inv, table
<1> QED BY <1>2, <1>3 DEF Store, Fits

\* A box filed in a listener deleted meanwhile.
LEMMA StoreFreedStep == ASSUME Inv, StoreFreed PROVE Inv'
<1>1. /\ UNCHANGED <<net, sends, dups, carried, table, delivered>> /\ Release
      /\ up' \in BOOLEAN /\ rcv # "idle"
  BY DEF StoreFreed, netvars
<1>2. TypeOK'
  BY <1>1 DEF Inv, TypeOK, Release, table
<1>3. BoxUsedOnce'
  BY <1>1, FiledOnce DEF table
<1> QED BY <1>1, <1>2, <1>3, TableKept DEF Inv

\* A first box, for which a listener is made.
LEMMA InsertStep == ASSUME Inv, Insert PROVE Inv'
<1> DEFINE m == got[1]
           i == got[2]
<1>1. /\ got \in Box /\ m \in Msgs /\ i \in 0 .. Sent[m] - 1 /\ i \in Nat
      /\ rcv # "idle" /\ i < Sent[m]
  BY BoxParts DEF Inv, TypeOK, Insert
<1>2. /\ UNCHANGED <<net, sends, dups, carried, delivered, up>> /\ Release
      /\ boxls' = boxls \union {m}
      /\ slots' = [slots EXCEPT ![m] = {i}]
      /\ nbn' = [nbn EXCEPT ![m] = 1]
      /\ clicks' = [clicks EXCEPT ![m] = ClicksNew]
  BY DEF Insert, netvars
<1>3. TypeOK'
  BY <1>1, <1>2, BoxAssumption DEF Inv, TypeOK, Release
<1>4. Numbered' /\ NoDeadListener' /\ OnlyWholeDelivered'
  BY <1>1, <1>2, BoxAssumption
     DEF Inv, TypeOK, Numbered, NoDeadListener, OnlyWholeDelivered
<1>5. NbnCountsSlots'
  <2> SUFFICES ASSUME NEW k \in Msgs
               PROVE  /\ slots'[k] \subseteq 0 .. Cnt[k] - 1
                      /\ nbn'[k] = Cardinality(slots'[k])
                      /\ k \in boxls' <=> slots'[k] # {}
    BY DEF NbnCountsSlots
  <2>1. CASE k = m
    <3>1. slots'[m] = {i} /\ nbn'[m] = 1
      BY <1>1, <1>2 DEF Inv, TypeOK
    <3>2. Cardinality({i}) = 1
      BY FS_Singleton
    <3>3. i \in 0 .. Cnt[m] - 1
      BY <1>1, CountTypes
    <3> QED BY <1>2, <2>1, <3>1, <3>2, <3>3
  <2>2. CASE k # m
    BY <1>1, <1>2, <2>2 DEF Inv, TypeOK, NbnCountsSlots
  <2> QED BY <2>1, <2>2
<1>6. BoxUsedOnce'
  <2>1. \A k \in Msgs : slots'[k] \subseteq slots[k] \union (IF k = got[1] THEN {got[2]} ELSE {})
    BY <1>2 DEF Inv, TypeOK
  <2> QED BY <1>1, <1>2, <2>1, FiledOnce
<1> QED BY <1>3, <1>4, <1>5, <1>6 DEF Inv

\* Erasing listeners keeps the count of the others right.
LEMMA ErasedTable ==
  ASSUME Inv, NEW S, Erase(S)
  PROVE  /\ Numbered' /\ NbnCountsSlots'
         /\ boxls' \in SUBSET Msgs /\ slots' \in [Msgs -> SUBSET Nat]
         /\ nbn' \in [Msgs -> Nat]
         /\ \A m \in Msgs : slots'[m] \subseteq slots[m]
<1>1. /\ boxls' \in SUBSET Msgs /\ slots' \in [Msgs -> SUBSET Nat]
      /\ nbn' \in [Msgs -> Nat]
      /\ \A m \in Msgs : slots'[m] \subseteq slots[m]
  BY DEF Inv, TypeOK, Erase
<1>2. Numbered'
  BY DEF Inv, Numbered, Erase
<1>3. NbnCountsSlots'
  BY FS_EmptySet DEF Inv, NbnCountsSlots, Erase
<1> QED BY <1>1, <1>2, <1>3

\* In the box processor every complete listener is full: no null entry is ever
\* dereferenced, and what is erased is what was complete or out of life.
LEMMA ProcessorActs ==
  ASSUME Inv, BoxProcessor
  PROVE  /\ UNCHANGED <<net, sends, dups, carried, rcv, got>> /\ up'
         /\ delivered' = [m \in Msgs |-> IF m \in boxls /\ Complete(m)
                                         THEN delivered[m] + 1 ELSE delivered[m]]
         /\ Erase({m \in boxls : Complete(m) \/ clicks[m] = 0})
         /\ clicks' \in [Msgs -> Int]
         /\ \A m \in boxls' : clicks'[m] >= 0
<1> DEFINE done == {m \in boxls : clicks[m] >= 0 /\ Complete(m)}
           gone == {m \in boxls : Ticked[m] = -1}
<1>1. \A m \in boxls : m \in Msgs /\ clicks[m] \in Int /\ clicks[m] >= 0
  BY DEF Inv, TypeOK, NoDeadListener
<1>2. done = {m \in boxls : Complete(m)}
  BY <1>1
<1>3. gone = {m \in boxls : Complete(m) \/ clicks[m] = 0}
  BY <1>1 DEF Ticked
<1>4. /\ UNCHANGED <<net, sends, dups, carried, rcv, got>>
      /\ up' = \A m \in done : Full(m)
      /\ delivered' = [m \in Msgs |-> IF m \in done THEN delivered[m] + 1 ELSE delivered[m]]
      /\ Erase(gone)
      /\ clicks' = [m \in Msgs |-> IF m \in gone THEN 0 ELSE Ticked[m]]
  BY DEF BoxProcessor, Done, Gone, netvars
<1>5. up'
  BY <1>2, <1>4, CompleteIsFull
<1>6. clicks' \in [Msgs -> Int]
  BY <1>1, <1>4 DEF Ticked, Inv, TypeOK
<1>7. ASSUME NEW m \in boxls' PROVE clicks'[m] >= 0
  <2>1. m \in boxls /\ m \notin gone /\ m \in Msgs
    BY <1>1, <1>4, <1>7 DEF Erase
  <2>2. ~Complete(m) /\ clicks[m] # 0
    BY <1>3, <2>1
  <2>3. Ticked[m] = clicks[m] - 1
    BY <1>1, <2>1, <2>2 DEF Ticked
  <2>4. clicks'[m] = Ticked[m]
    BY <1>4, <2>1
  <2> QED BY <1>1, <2>1, <2>2, <2>3, <2>4
<1> QED BY <1>2, <1>3, <1>4, <1>5, <1>6, <1>7

\* A pass of boxProcessorDeamon.
LEMMA ProcessorStep == ASSUME Inv, BoxProcessor PROVE Inv'
<1> DEFINE gone == {m \in boxls : Complete(m) \/ clicks[m] = 0}
<1>1. /\ UNCHANGED <<net, sends, dups, carried, rcv, got>> /\ up'
      /\ delivered' = [m \in Msgs |-> IF m \in boxls /\ Complete(m)
                                      THEN delivered[m] + 1 ELSE delivered[m]]
      /\ Erase(gone)
      /\ clicks' \in [Msgs -> Int]
      /\ \A m \in boxls' : clicks'[m] >= 0
  BY ProcessorActs
<1> HIDE DEF gone
<1>2. /\ Numbered' /\ NbnCountsSlots'
      /\ boxls' \in SUBSET Msgs /\ slots' \in [Msgs -> SUBSET Nat]
      /\ nbn' \in [Msgs -> Nat]
      /\ \A m \in Msgs : slots'[m] \subseteq slots[m]
  BY <1>1, ErasedTable
<1>3. delivered' \in [Msgs -> Nat] /\ up' \in BOOLEAN
  BY <1>1 DEF Inv, TypeOK
<1>4. TypeOK'
  BY <1>1, <1>2, <1>3 DEF Inv, TypeOK
<1>5. NoDeadListener'
  BY <1>1 DEF NoDeadListener
<1>6. OnlyWholeDelivered'
  BY <1>1, CompleteIsFull DEF Inv, TypeOK, OnlyWholeDelivered, Whole, Promise!Whole
<1>7. BoxUsedOnce'
  <2> SUFFICES ASSUME NEW b \in Box
               PROVE  delivered'[b[1]] + Held(b)' + net'[b] <= carried'[b]
    BY DEF BoxUsedOnce
  <2>1. delivered[b[1]] + Held(b) + net[b] <= carried[b]
    BY DEF Inv, BoxUsedOnce
  <2>2. /\ b[1] \in Msgs
        /\ delivered[b[1]] \in Nat /\ net[b] \in Nat /\ carried[b] \in Nat
    BY BoxParts DEF Inv, TypeOK
  <2>3. net' = net /\ carried' = carried /\ rcv' = rcv /\ got' = got
    BY <1>1
  <2>4. CASE b[1] \in boxls /\ Complete(b[1])
    <3>1. delivered'[b[1]] = delivered[b[1]] + 1
      BY <1>1, <2>2, <2>4
    <3>2. b[2] \in slots[b[1]]
      BY <2>4, CompleteIsFull
    <3>3. b[2] \notin slots'[b[1]]
      BY <1>1, <2>2, <2>4 DEF Erase, gone
    <3>4. Held(b) = 1 + Held(b)' /\ Held(b)' \in Nat
      BY <2>3, <3>2, <3>3 DEF Held
    <3> QED BY <2>1, <2>2, <2>3, <3>1, <3>4
  <2>5. CASE ~(b[1] \in boxls /\ Complete(b[1]))
    <3>1. delivered'[b[1]] = delivered[b[1]]
      BY <1>1, <2>2, <2>5
    <3>2. Held(b)' <= Held(b) /\ Held(b) \in Nat /\ Held(b)' \in Nat
      BY <1>2, <2>2, <2>3 DEF Held
    <3> QED BY <2>1, <2>2, <2>3, <3>1, <3>2
  <2> QED BY <2>4, <2>5
<1> QED BY <1>2, <1>4, <1>5, <1>6, <1>7 DEF Inv

\* The cleaning daemon finds nothing: its work is always done already.
LEMMA CleaningStep == ASSUME Inv, CleaningBoxs PROVE Inv' /\ UNCHANGED vars
<1>1. \A m \in boxls : clicks[m] # -1
  BY DEF Inv, TypeOK, NoDeadListener
<1>2. {m \in boxls : clicks[m] = -1} = {}
  BY <1>1
<1>3. /\ boxls' = boxls \ {}
      /\ slots' = [m \in Msgs |-> slots[m]]
      /\ nbn' = [m \in Msgs |-> nbn[m]]
      /\ clicks' = [m \in Msgs |-> clicks[m]]
      /\ UNCHANGED <<netvars, rcv, got, delivered, up>>
  BY <1>2 DEF CleaningBoxs, Erase
<1>4. UNCHANGED vars
  BY <1>3 DEF Inv, TypeOK, vars, netvars
<1>5. Inv'
  BY <1>4 DEF Inv, TypeOK, Numbered, NbnCountsSlots, NoDeadListener, BoxUsedOnce,
     OnlyWholeDelivered, Held, vars
<1> QED BY <1>4, <1>5

\* Every step keeps the invariant.
LEMMA StepInv == ASSUME Inv, [Next]_vars PROVE Inv'
<1>1. CASE UNCHANGED vars
  BY <1>1 DEF Inv, TypeOK, Numbered, NbnCountsSlots, NoDeadListener, BoxUsedOnce,
     OnlyWholeDelivered, Held, vars
<1> QED
  BY <1>1, NetStep, ReceiveStep, StoreStep, StoreFreedStep, InsertStep,
     ProcessorStep, CleaningStep DEF Next

\* The invariants of the listener table hold in every state of the layer.
THEOREM Invariance == Spec => []Inv
<1> QED BY InitInv, StepInv, PTL DEF Spec

\* Type correctness.
THEOREM TypeCorrect == Spec => []TypeOK
<1>1. Inv => TypeOK
  BY DEF Inv
<1> QED BY <1>1, Invariance, PTL

\* The count kept by hand is the number of boxes in the array.
THEOREM CountIsRight == Spec => []NbnCountsSlots
<1>1. Inv => NbnCountsSlots
  BY DEF Inv
<1> QED BY <1>1, Invariance, PTL

\* No copy of a box serves two deliveries.
THEOREM NoBoxTwice == Spec => []BoxUsedOnce
<1>1. Inv => BoxUsedOnce
  BY DEF Inv
<1> QED BY <1>1, Invariance, PTL

\* A message with fewer boxes than announced is never delivered.
THEOREM OnlyWhole == Spec => []OnlyWholeDelivered
<1>1. Inv => OnlyWholeDelivered
  BY DEF Inv
<1> QED BY <1>1, Invariance, PTL

\* One more box is worth ClicksAdd.
LEMMA OneMore ==
  ASSUME NEW a \in Nat, NEW n \in Nat
  PROVE  /\ a * (n - 1) \in Int /\ a * n \in Int
         /\ a * (n + 1 - 1) = a * (n - 1) + a
  OBVIOUS

LEMMA Carried ==
  ASSUME NEW new \in Nat, NEW add \in Nat, NEW c \in Int, NEW n \in Nat, NEW c1, NEW n1,
         c1 = c + add, n1 = n + 1, c + add <= new + add * (n + 1 - 1)
  PROVE  c1 <= new + add * (n1 - 1)
OBVIOUS

\* Filing a box earns a listener its life, a pass of the processor takes of it.
LEMMA EarnedStep == ASSUME Inv, LifeIsEarned, [Next]_vars PROVE LifeIsEarned'
<1> SUFFICES ASSUME NEW m \in boxls'
             PROVE  clicks'[m] <= ClicksNew + ClicksAdd * (nbn'[m] - 1)
  BY DEF LifeIsEarned
<1>1. ClicksNew \in Nat /\ ClicksAdd \in Nat
  BY BoxAssumption
<1>2. m \in Msgs
  BY StepInv DEF Inv, TypeOK
<1>3. clicks[m] \in Int /\ nbn[m] \in Nat /\ clicks \in [Msgs -> Int] /\ nbn \in [Msgs -> Nat]
  BY <1>2 DEF Inv, TypeOK
<1>4. m \in boxls => clicks[m] <= ClicksNew + ClicksAdd * (nbn[m] - 1)
  BY DEF LifeIsEarned
<1>5. CASE \/ \E k \in Msgs : Send(k)
           \/ \E b \in Box : Duplicate(b)
           \/ \E b \in Box : Lose(b)
           \/ \E b \in Box : Receive(b)
           \/ StoreFreed \/ CleaningBoxs \/ UNCHANGED vars
  <2>1. UNCHANGED <<boxls, clicks, nbn>>
    BY <1>5, CleaningStep DEF Send, Duplicate, Lose, Receive, StoreFreed, table, vars
  <2> QED BY <1>4, <2>1
<1>6. CASE Store
  <2>1. m \in boxls
    BY <1>6 DEF Store
  <2>2. CASE clicks'[m] = clicks[m] /\ nbn'[m] = nbn[m]
    BY <1>4, <2>1, <2>2
  <2>3. CASE clicks'[m] = clicks[m] + ClicksAdd /\ nbn'[m] = nbn[m] + 1
    <3>1. ClicksAdd * (nbn[m] + 1 - 1) = ClicksAdd * (nbn[m] - 1) + ClicksAdd
          /\ ClicksAdd * (nbn[m] - 1) \in Int
      BY <1>1, <1>3, OneMore
    <3>2. clicks[m] + ClicksAdd <= ClicksNew + ClicksAdd * (nbn[m] + 1 - 1)
      <4> DEFINE worth == ClicksAdd * (nbn[m] - 1)
      <4>1. worth \in Int /\ clicks[m] <= ClicksNew + worth
        BY <1>4, <2>1, <3>1
      <4>2. ClicksAdd * (nbn[m] + 1 - 1) = worth + ClicksAdd
        BY <3>1
      <4> HIDE DEF worth
      <4> QED BY <1>1, <1>3, <4>1, <4>2
    <3> QED BY ONLY <1>1, <1>3, <2>3, <3>2, Carried
  <2> QED BY <1>2, <1>3, <1>6, <2>2, <2>3 DEF Store
<1>7. CASE Insert
  <2>1. CASE m = got[1]
    <3>1. clicks'[m] = ClicksNew /\ nbn'[m] = 1
      BY <1>2, <1>3, <1>7, <2>1 DEF Insert
    <3>2. ClicksAdd * (1 - 1) = 0
      BY <1>1
    <3> QED BY <1>1, <3>1, <3>2
  <2>2. CASE m # got[1]
    BY <1>2, <1>3, <1>4, <1>7, <2>2 DEF Insert
  <2> QED BY <2>1, <2>2
<1>8. CASE BoxProcessor
  <2>1. m \in boxls /\ nbn'[m] = nbn[m] /\ clicks'[m] = Ticked[m]
    BY <1>2, <1>8 DEF BoxProcessor, Erase
  <2>2. ~Complete(m) /\ clicks[m] # 0
    BY <1>8, ProcessorActs DEF Erase
  <2>3. clicks'[m] = clicks[m] - 1
    BY <1>2, <1>3, <2>1, <2>2 DEF Ticked, Inv, NoDeadListener
  <2>4. clicks[m] <= ClicksNew + ClicksAdd * (nbn[m] - 1) /\ ClicksAdd * (nbn[m] - 1) \in Int
    BY <1>1, <1>3, <1>4, <2>1, OneMore
  <2> DEFINE worth == ClicksAdd * (nbn[m] - 1)
  <2> HIDE DEF worth
  <2>5. clicks[m] - 1 <= ClicksNew + worth
    BY <1>1, <1>3, <2>4 DEF worth
  <2> QED BY <2>1, <2>3, <2>5 DEF worth
<1> QED BY <1>5, <1>6, <1>7, <1>8 DEF Next

\* However boxes are lost, repeated and sent again, a listener lives no longer than
\* the boxes it holds are worth.
THEOREM LifeBounded == Spec => []LifeIsEarned
<1>1. Init => LifeIsEarned
  BY DEF Init, LifeIsEarned
<1>2. Inv /\ LifeIsEarned /\ [Next]_vars => LifeIsEarned'
  BY EarnedStep
<1> QED BY <1>1, <1>2, Invariance, PTL DEF Spec

\* Only the processor takes listeners out of the table, and only complete ones
\* (then delivered) or expired ones.
THEOREM NothingThrownAway == Spec => LeavesDeliveredOrExpired
<1> DEFINE Leaving ==
      \A m \in boxls \ boxls' :
        IF Complete(m) THEN delivered'[m] = delivered[m] + 1
        ELSE clicks[m] = 0 /\ delivered'[m] = delivered[m]
<1>1. ASSUME Inv, [Next]_vars PROVE [Leaving]_vars
  <2>1. CASE BoxProcessor
    <3>1. /\ delivered' = [m \in Msgs |-> IF m \in boxls /\ Complete(m)
                                          THEN delivered[m] + 1 ELSE delivered[m]]
          /\ Erase({m \in boxls : Complete(m) \/ clicks[m] = 0})
      BY <1>1, <2>1, ProcessorActs
    <3>2. boxls \ boxls' = {m \in boxls : Complete(m) \/ clicks[m] = 0}
      BY <3>1 DEF Erase
    <3>3. boxls \subseteq Msgs
      BY <1>1 DEF Inv, TypeOK
    <3> QED BY <3>1, <3>2, <3>3
  <2>2. CASE CleaningBoxs
    BY <1>1, <2>2, CleaningStep
  <2>3. ASSUME \/ \E m \in Msgs : Send(m)
               \/ \E b \in Box : Duplicate(b)
               \/ \E b \in Box : Lose(b)
               \/ \E b \in Box : Receive(b)
               \/ Store \/ StoreFreed \/ Insert \/ UNCHANGED vars
        PROVE  boxls \subseteq boxls'
    BY <2>3 DEF Send, Duplicate, Lose, Receive, Store, StoreFreed, Insert, table, vars
  <2> QED BY <1>1, <2>1, <2>2, <2>3 DEF Next
<1>2. Inv /\ [Next]_vars => [Leaving]_vars
  BY <1>1
<1> QED BY <1>2, Invariance, PTL DEF Spec, LeavesDeliveredOrExpired

\* The process never dies of a null entry of a listener it calls complete: only
\* a stale listener pointer can kill it here.
THEOREM OnlyStalePointersKill == Spec => DiesOnlyOfStaleListener
<1> DEFINE Dying == (up /\ ~up') => (rcv = "found" /\ got[1] \notin boxls)
<1>1. ASSUME Inv, [Next]_vars PROVE [Dying]_vars
  <2>1. CASE BoxProcessor
    BY <1>1, <2>1, ProcessorActs
  <2>2. CASE StoreFreed
    BY <2>2 DEF StoreFreed
  <2>3. ASSUME \/ \E m \in Msgs : Send(m)
               \/ \E b \in Box : Duplicate(b)
               \/ \E b \in Box : Lose(b)
               \/ \E b \in Box : Receive(b)
               \/ Store \/ Insert \/ CleaningBoxs \/ UNCHANGED vars
        PROVE  up' = up
    BY <2>3 DEF Send, Duplicate, Lose, Receive, Store, Insert, CleaningBoxs, vars
  <2> QED BY <1>1, <2>1, <2>2, <2>3 DEF Next
<1>2. Inv /\ [Next]_vars => [Dying]_vars
  BY <1>1
<1> QED BY <1>2, Invariance, PTL DEF Spec, DiesOnlyOfStaleListener

-----------------------------------------------------------------------------
\* The box layer implements MessageDelivery: a transmission, a duplication and
\* a run of the box processor map to steps of the promise, everything else to
\* stuttering.
THEOREM Implementation == Spec => Delivery
<1>1. Init => Promise!DInit
  BY DEF Init, Promise!DInit, Box
<1>2. ASSUME Inv, [Next]_vars PROVE [Promise!DNext]_(Promise!dvars)
  <2>1. ASSUME NEW m \in Msgs, Send(m)
        PROVE  Promise!Transmit(m)
    BY <2>1 DEF Send, Promise!Transmit, Box
  <2>2. ASSUME NEW b \in Box, Duplicate(b)
        PROVE  Promise!Echo(b)
    BY <2>2 DEF Duplicate, Promise!Echo
  <2>3. ASSUME BoxProcessor
        PROVE  \E S \in SUBSET Msgs : Promise!Deliver(S)
    <3> DEFINE S == {m \in boxls : Complete(m)}
    <3>1. S \in SUBSET Msgs
      BY <1>2 DEF Inv, TypeOK
    <3>2. /\ delivered' = [m \in Msgs |-> IF m \in boxls /\ Complete(m)
                                          THEN delivered[m] + 1 ELSE delivered[m]]
          /\ carried' = carried
      BY <1>2, <2>3, ProcessorActs
    <3>3. \A m \in S : Promise!Whole(m)
      BY <1>2, CompleteIsFull DEF Whole
    <3>4. ASSUME NEW b \in Promise!Box, b[1] \in S
          PROVE  delivered[b[1]] < carried[b]
      <4>1. b \in Box
        BY DEF Box
      <4>2. b[2] \in slots[b[1]]
        BY <1>2, <3>4, <4>1, CompleteIsFull
      <4>3. delivered[b[1]] + Held(b) + net[b] <= carried[b]
        BY <1>2, <4>1 DEF Inv, BoxUsedOnce
      <4>4. /\ delivered[b[1]] \in Nat /\ net[b] \in Nat /\ carried[b] \in Nat
            /\ Held(b) \in Nat /\ Held(b) >= 1
        BY <1>2, <4>1, <4>2, BoxParts DEF Inv, TypeOK, Held
      <4> QED BY <4>3, <4>4
    <3>5. delivered' = [m \in Msgs |-> IF m \in S THEN delivered[m] + 1 ELSE delivered[m]]
      BY <3>2
    <3> QED BY <3>1, <3>2, <3>3, <3>4, <3>5 DEF Promise!Deliver
  <2>4. ASSUME \/ \E b \in Box : Lose(b)
               \/ \E b \in Box : Receive(b)
               \/ Store \/ StoreFreed \/ Insert \/ CleaningBoxs \/ UNCHANGED vars
        PROVE  UNCHANGED Promise!dvars
    BY <2>4 DEF Lose, Receive, Store, StoreFreed, Insert, CleaningBoxs, netvars, vars,
       Promise!dvars
  <2> QED
    BY <1>2, <2>1, <2>2, <2>3, <2>4 DEF Next, Promise!DNext, Box
<1>3. Inv /\ [Next]_vars => [Promise!DNext]_(Promise!dvars)
  BY <1>2
<1> QED
  BY <1>1, <1>3, Invariance, PTL DEF Spec, Delivery, Promise!DSpec
=============================================================================
