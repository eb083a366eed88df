--------------------------- MODULE MessageDelivery --------------------------
(***************************************************************************)
(* What the UDP box layer promises its users, without saying how: a        *)
(* message cut into boxes is handed over (to rawdata_in) only as a whole,  *)
(* and every hand-over uses up one copy of each of its boxes that the      *)
(* network has been given.  So a message nobody sent is never delivered,   *)
(* a message that misses a box is not delivered, and n transmissions over  *)
(* a network that duplicates nothing yield at most n deliveries.  Nothing  *)
(* is promised about loss: delivery is at the mercy of the network.        *)
(***************************************************************************)
EXTENDS Integers

CONSTANTS
  Msgs,  \* messages, named by their box id (net_box.b_id)
  Cnt,   \* Cnt[m]: the number of boxes announced for m (net_box.cnt)
  Sent   \* Sent[m]: the number of boxes a transmission of m really consists of

Box == UNION {{m} \X (0 .. Sent[m] - 1) : m \in Msgs}
Whole(m) == Sent[m] = Cnt[m]

VARIABLES
  carried,   \* copies of each box ever given to the network
  delivered  \* times each message was handed over

dvars == <<carried, delivered>>

DInit ==
  /\ carried = [b \in Box |-> 0]
  /\ delivered = [m \in Msgs |-> 0]

Transmit(m) ==
  /\ carried' = [b \in Box |-> IF b[1] = m THEN carried[b] + 1 ELSE carried[b]]
  /\ UNCHANGED delivered

Echo(b) ==
  /\ carried' = [carried EXCEPT ![b] = @ + 1]
  /\ UNCHANGED delivered

Deliver(S) ==
  /\ \A m \in S : Whole(m)
  /\ \A b \in Box : b[1] \in S => delivered[b[1]] < carried[b]
  /\ delivered' = [m \in Msgs |-> IF m \in S THEN delivered[m] + 1 ELSE delivered[m]]
  /\ UNCHANGED carried

DNext ==
  \/ \E m \in Msgs : Transmit(m)
  \/ \E b \in Box : Echo(b)
  \/ \E S \in SUBSET Msgs : Deliver(S)

DSpec == DInit /\ [][DNext]_dvars
=============================================================================
