---------------------------- MODULE BoxReassembly ---------------------------
(***************************************************************************)
(* The receiving half of the UDP box layer of the server: serverDeamon     *)
(* files the boxes it receives in the listener table boxls, and            *)
(* boxProcessorDeamon, a clock daemon, hands complete messages over to     *)
(* rawdata_in and throws out listeners whose life (clicks) has run out.    *)
(* Between them stands a network that loses, duplicates and reorders.      *)
(*                                                                         *)
(* serverDeamon looks a box up in boxls holding only "mutex"; it takes     *)
(* "mutex_box", which protects the table, afterwards.  The step is split   *)
(* there.  Iterations of serverDeamon exclude each other (mutex), so one   *)
(* receiver stands for all instances of the daemon; every section under    *)
(* mutex_box is one step.                                                  *)
(***************************************************************************)
EXTENDS Integers, FiniteSets

CONSTANTS
  Msgs,      \* messages, named by their box id
  Cnt,       \* announced number of boxes of each message
  Sent,      \* number of boxes a transmission of it consists of
  ClicksNew, \* life of a new listener (15 in the code)
  ClicksAdd, \* what every further box adds to it (5 in the code)
  MaxSends,  \* bound: transmissions of one message (retries included)
  MaxDups    \* bound: datagrams the network duplicates

\* FragmentSender shows that a call sends Cnt or Cnt - 1 boxes.
ASSUME BoxAssumption ==
  /\ Cnt \in [Msgs -> Nat \ {0}]
  /\ Sent \in [Msgs -> Nat \ {0}]
  /\ \A m \in Msgs : Sent[m] \in {Cnt[m] - 1, Cnt[m]}
  /\ ClicksNew \in Nat /\ ClicksAdd \in Nat
  /\ MaxSends \in Nat /\ MaxDups \in Nat

VARIABLES
  net,        \* copies of each box in flight
  sends,      \* transmissions of each message so far
  dups,       \* duplications so far
  rcv,        \* serverDeamon: "idle", or the outcome of its find: "found", "absent"
  got,        \* the box it holds
  boxls,      \* keys of the listener table
  slots,      \* slots[m]: the non-null entries of the listener's boxs array
  nbn,        \* its count of received boxes
  clicks,     \* its remaining life
  carried,    \* history: copies of each box ever given to the network
  delivered,  \* history: messages pushed on rawdata_in
  up          \* the server process is alive

netvars == <<net, sends, dups, carried>>
table == <<boxls, slots, nbn, clicks>>
vars == <<net, sends, dups, rcv, got, boxls, slots, nbn, clicks, carried, delivered, up>>

Promise == INSTANCE MessageDelivery
             WITH Msgs <- Msgs, Cnt <- Cnt, Sent <- Sent,
                  carried <- carried, delivered <- delivered
Box == Promise!Box
Whole(m) == Promise!Whole(m)
AnyBox == CHOOSE b \in Box : TRUE

Init ==
  /\ net = [b \in Box |-> 0]
  /\ sends = [m \in Msgs |-> 0]
  /\ dups = 0
  /\ rcv = "idle" /\ got = AnyBox
  /\ boxls = {}
  /\ slots = [m \in Msgs |-> {}]
  /\ nbn = [m \in Msgs |-> 0]
  /\ clicks = [m \in Msgs |-> 0]
  /\ carried = [b \in Box |-> 0]
  /\ delivered = [m \in Msgs |-> 0]
  /\ up = TRUE

-----------------------------------------------------------------------------
(* The peer and the network.                                               *)

\* The peer transmits m, the first time or again with the same box id
\* (ProcessRequestListener resends the raw_data it kept).
Send(m) ==
  /\ sends[m] < MaxSends
  /\ sends' = [sends EXCEPT ![m] = @ + 1]
  /\ net' = [b \in Box |-> IF b[1] = m THEN net[b] + 1 ELSE net[b]]
  /\ carried' = [b \in Box |-> IF b[1] = m THEN carried[b] + 1 ELSE carried[b]]
  /\ UNCHANGED <<dups, rcv, got, table, delivered, up>>

Duplicate(b) ==
  /\ net[b] > 0 /\ dups < MaxDups
  /\ dups' = dups + 1
  /\ net' = [net EXCEPT ![b] = @ + 1]
  /\ carried' = [carried EXCEPT ![b] = @ + 1]
  /\ UNCHANGED <<sends, rcv, got, table, delivered, up>>

Lose(b) ==
  /\ net[b] > 0
  /\ net' = [net EXCEPT ![b] = @ - 1]
  /\ UNCHANGED <<sends, dups, carried, rcv, got, table, delivered, up>>

-----------------------------------------------------------------------------
(* serverDeamon.                                                           *)

\* Fault: the result of RecvRAW is not looked at.
ReceiveUnchecked(b) ==
  /\ up /\ rcv = "idle"
  /\ net' = [net EXCEPT ![b] = @ - 1]
  /\ got' = b
  /\ rcv' = IF b[1] \in boxls THEN "found" ELSE "absent"
  /\ UNCHANGED <<sends, dups, carried, table, delivered, up>>

\* Under mutex: receive a box and find its listener.
Receive(b) ==
  /\ up /\ rcv = "idle"
  /\ net[b] > 0
  /\ net' = [net EXCEPT ![b] = @ - 1]
  /\ got' = b
  /\ rcv' = IF b[1] \in boxls THEN "found" ELSE "absent"
  /\ UNCHANGED <<sends, dups, carried, table, delivered, up>>

\* The end of an iteration: the box is filed or freed, mutex released.
Release == rcv' = "idle" /\ got' = AnyBox

\* Fault: a box received before is counted again.
FitsDuplicate(m) == nbn[m] < Cnt[m]

\* The slot of the box is empty, and the listener not complete.
Fits(m) == got[2] \notin slots[m] /\ nbn[m] < Cnt[m]

\* Fault: a box prolongs the life of its listener before it is looked at.
StoreProlonging ==
  LET m == got[1] IN
  /\ up /\ rcv = "found" /\ m \in boxls
  /\ clicks' = [clicks EXCEPT ![m] = @ + ClicksAdd]
  /\ slots' = IF Fits(m) THEN [slots EXCEPT ![m] = @ \union {got[2]}] ELSE slots
  /\ nbn' = IF Fits(m) THEN [nbn EXCEPT ![m] = @ + 1] ELSE nbn
  /\ Release
  /\ UNCHANGED <<netvars, boxls, delivered, up>>

\* Under mutex_box, the listener found being still there.
Store ==
  LET m == got[1] IN
  /\ up /\ rcv = "found" /\ m \in boxls
  /\ \/ /\ Fits(m)
        /\ slots' = [slots EXCEPT ![m] = @ \union {got[2]}]
        /\ clicks' = [clicks EXCEPT ![m] = @ + ClicksAdd]
        /\ nbn' = [nbn EXCEPT ![m] = @ + 1]
     \/ /\ ~Fits(m)
        /\ UNCHANGED <<slots, clicks, nbn>>
  /\ Release
  /\ UNCHANGED <<netvars, boxls, delivered, up>>

\* The listener found has been deleted before mutex_box was taken: pnbxl
\* points to freed memory.  The build may lose the box (written into or
\* compared with freed memory) or die.
StoreFreed ==
  /\ up /\ rcv = "found" /\ got[1] \notin boxls
  /\ up' \in BOOLEAN
  /\ Release
  /\ UNCHANGED <<netvars, table, delivered>>

\* No listener found: a new one goes into the table under mutex_box.
Insert ==
  LET m == got[1] IN
  /\ up /\ rcv = "absent"
  /\ boxls' = boxls \union {m}
  /\ slots' = [slots EXCEPT ![m] = {got[2]}]
  /\ nbn' = [nbn EXCEPT ![m] = 1]
  /\ clicks' = [clicks EXCEPT ![m] = ClicksNew]
  /\ Release
  /\ UNCHANGED <<netvars, delivered, up>>

-----------------------------------------------------------------------------
(* The daemons of the table; each holds mutex_box throughout.              *)

\* Fault: off by one.
CompleteEarly(m) == Cnt[m] - 1 <= nbn[m]

Complete(m) == Cnt[m] = nbn[m]
Full(m) == slots[m] = 0 .. Cnt[m] - 1

\* Listeners of S are deleted and leave the table.
Erase(S) ==
  /\ boxls' = boxls \ S
  /\ slots' = [m \in Msgs |-> IF m \in S THEN {} ELSE slots[m]]
  /\ nbn' = [m \in Msgs |-> IF m \in S THEN 0 ELSE nbn[m]]

\* Faults: listeners do not age; a complete one is not marked.
TickedNever ==
  [m \in Msgs |-> IF m \in boxls /\ clicks[m] >= 0 /\ Complete(m) THEN -1 ELSE clicks[m]]
TickedUnmarked ==
  [m \in Msgs |-> IF m \notin boxls \/ clicks[m] < 0 \/ Complete(m) THEN clicks[m] ELSE clicks[m] - 1]

\* The first loop of boxProcessorDeamon on clicks: a complete listener is marked
\* -1, the others age and end on -1 as well.
Ticked ==
  [m \in Msgs |->
    IF m \notin boxls \/ clicks[m] < 0 THEN clicks[m]
    ELSE IF Complete(m) THEN -1
    ELSE clicks[m] - 1]

\* What that loop hands over, and what the second one erases.
Done == {m \in boxls : clicks[m] >= 0 /\ Complete(m)}

GoneEarly == {m \in boxls : Ticked[m] <= 0}

Gone == {m \in boxls : Ticked[m] = -1}

\* boxProcessorDeamon.  Gluing dereferences every slot up to cnt: a null one kills
\* the process.
BoxProcessor ==
  /\ up
  /\ up' = \A m \in Done : Full(m)
  /\ delivered' = [m \in Msgs |-> IF m \in Done THEN delivered[m] + 1 ELSE delivered[m]]
  /\ Erase(Gone)
  /\ clicks' = [m \in Msgs |-> IF m \in Gone THEN 0 ELSE Ticked[m]]
  /\ UNCHANGED <<netvars, rcv, got>>

\* CleaningBoxs erases what is marked -1.
CleaningBoxs ==
  LET gone == {m \in boxls : clicks[m] = -1}
  IN /\ up
     /\ Erase(gone)
     /\ clicks' = [m \in Msgs |-> IF m \in gone THEN 0 ELSE clicks[m]]
     /\ UNCHANGED <<netvars, rcv, got, delivered, up>>

-----------------------------------------------------------------------------
Next ==
  \/ \E m \in Msgs : Send(m)
  \/ \E b \in Box : Duplicate(b)
  \/ \E b \in Box : Lose(b)
  \/ \E b \in Box : Receive(b)
  \/ Store
  \/ StoreFreed
  \/ Insert
  \/ BoxProcessor
  \/ CleaningBoxs

Spec == Init /\ [][Next]_vars

\* The interval timer keeps starting both daemons; a thread that holds a mutex
\* goes on, and one that waits for it gets it (nobody holds it for ever).  The
\* network owes nothing.
FairSpec ==
  /\ Spec
  /\ WF_vars(Store) /\ WF_vars(StoreFreed) /\ WF_vars(Insert)
  /\ WF_vars(BoxProcessor)

-----------------------------------------------------------------------------
\* Types of the table, of the receiver and of the counters.
TypeOK ==
  /\ net \in [Box -> Nat] /\ carried \in [Box -> Nat]
  /\ sends \in [Msgs -> Nat] /\ dups \in Nat
  /\ rcv \in {"idle", "found", "absent"}
  /\ rcv # "idle" => got \in Box
  /\ boxls \in SUBSET Msgs
  /\ slots \in [Msgs -> SUBSET Nat]
  /\ nbn \in [Msgs -> Nat]
  /\ clicks \in [Msgs -> Int]
  /\ delivered \in [Msgs -> Nat]
  /\ up \in BOOLEAN

\* The count kept beside the array (nbn, incremented by hand on every path) is
\* the number of boxes in the array, and they fit its cnt entries: only then
\* does "cnt == nbn" mean that TogtRawData finds no null entry.
NbnCountsSlots ==
  \A m \in Msgs :
    /\ slots[m] \subseteq 0 .. Cnt[m] - 1
    /\ nbn[m] = Cardinality(slots[m])
    /\ m \in boxls <=> slots[m] # {}

\* Outside the box processor every listener of the table is alive: a listener
\* marked -1 would be skipped by the processor for ever, and would swallow
\* every later box of its id.
NoDeadListener == \A m \in boxls : clicks[m] >= 0

\* Only a box that fills an empty slot prolongs the life of a listener: however often
\* boxes are repeated or sent again, its life is what the boxes it holds are worth,
\* and an incomplete one cannot be kept alive with boxes it has.
LifeIsEarned == \A m \in boxls : clicks[m] <= ClicksNew + ClicksAdd * (nbn[m] - 1)

Held(b) == (IF b[2] \in slots[b[1]] THEN 1 ELSE 0)
             + (IF rcv # "idle" /\ got = b THEN 1 ELSE 0)

\* No box is used twice: the deliveries of a message, the listener that holds
\* the box and the receiver that has just read it account for different copies
\* of it, all taken off the network.
BoxUsedOnce ==
  \A b \in Box : delivered[b[1]] + Held(b) + net[b] <= carried[b]

\* A message cut into fewer boxes than it announces is never handed over: its
\* listener always expires.
OnlyWholeDelivered == \A m \in Msgs : delivered[m] > 0 => Whole(m)

\* A listener leaves the table either complete, and then the message is handed
\* over in that very step, or at the end of its life: a message that has all
\* its boxes is never thrown away, however late the last one came.
LeavesDeliveredOrExpired ==
  [][\A m \in boxls \ boxls' :
       IF Complete(m) THEN delivered'[m] = delivered[m] + 1
       ELSE clicks[m] = 0 /\ delivered'[m] = delivered[m]]_vars

\* The only thing that kills the server here is a listener pointer that went
\* stale between the unprotected find and mutex_box: never a null slot.
DiesOnlyOfStaleListener ==
  [][(up /\ ~up') => (rcv = "found" /\ got[1] \notin boxls)]_vars

\* Every listener leaves the table sooner or later, whatever boxes are lost.
ListenersLeave == \A m \in Msgs : m \in boxls ~> (m \notin boxls \/ ~up)

\* The box layer implements the promise of MessageDelivery.
Delivery == Promise!DSpec
=============================================================================
