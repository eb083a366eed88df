---------------------------- MODULE ServerPipeline --------------------------
(***************************************************************************)
(* The square server's processing pipeline.  A received datagram moves     *)
(* through four lists, each protected by a mutex and emptied by a daemon   *)
(* that the clock starts again and again:                                  *)
(*                                                                         *)
(*   1  rawdata_in   mutex         ProcessRawData                          *)
(*   2  packets_in   mutex_rp      ProcessPacket                           *)
(*   3  req_list     mutex_pktreq  ProcessRequset                          *)
(*   4  packets_out  mutex_sndpkt  ProcessSendPackets                      *)
(*                                                                         *)
(* A daemon holds the mutex of its list while it walks it and takes the    *)
(* next mutex for each item it passes on; an item done with is overwritten *)
(* with nullptr, and the null entries are removed at the end.  The clock   *)
(* does not wait for an earlier instance of a daemon.  Instances of daemons*)
(* 2 to 4 exclude each other from start to end, so one thread each stands  *)
(* for all of them; ProcessRawData unlocks between its walk and its        *)
(* removal, so it is modelled with several threads.                        *)
(*                                                                         *)
(* The nested sections (lock, push_back, unlock) wait for nothing else, so *)
(* each is one step, taken when the mutex is free.                         *)
(*                                                                         *)
(* What reaches the server is what the client and the box sender of the    *)
(* repository put on the wire, and anything that is not signed as theirs.  *)
(* None of them sends an encrypted post by UDP (the one caller of          *)
(* Post2SignedRawData writes to a TCP connection), so the branch of        *)
(* ProcessPacket that decrypts one, and ends the process when the key is   *)
(* another, has no input here.                                             *)
(***************************************************************************)
EXTENDS Integers, SequencesExt, StdList

CONSTANTS
  Datagrams,   \* the datagrams that reach the server, by name
  Boxed,       \* those that arrive in boxes and are glued by boxProcessorDeamon
  Class,       \* what each one is: see Classes
  Rid,         \* the request id (r_id) it carries; a retry carries the same
  Account,     \* for a login: the r_id its account was registered with
  Batch,       \* bound: items handled per walk (2048 and 512 in the code)
  RawThreads,  \* instances of dataProcessorDeamon
  Null, Nobody

Classes == {"public", "private", "login", "unknown", "junk"}
Rids == {Rid[d] : d \in Datagrams}

ASSUME PipelineAssumption ==
  /\ Boxed \subseteq Datagrams
  /\ Class \in [Datagrams -> Classes]
  /\ Account \in [Datagrams -> Rids]
  /\ Batch \in Nat \ {0}
  /\ Null \notin Datagrams
  /\ Nobody \notin RawThreads \union {"pkt", "req", "snd"}
  /\ RawThreads \intersect {"pkt", "req", "snd"} = {}

Threads == RawThreads \union {"pkt", "req", "snd"}
Stage(t) == CASE t = "pkt" -> 2 [] t = "req" -> 3 [] t = "snd" -> 4 [] OTHER -> 1

VARIABLES
  queue,    \* queue[k]: list k
  owner,    \* owner[k]: the daemon that holds mutex k for its walk
  pc,       \* "idle", "walk", or "sweep" (ProcessRawData between its two locks)
  pos,      \* the list position the walk has come to
  prm,      \* the rest of its batch
  linking,  \* boxProcessorDeamon inside push_back: the item, the list it saw, and
            \* whether nodes have been removed from it since
  broken,   \* the tail pointer of rawdata_in leads to a node not in the list
  rids,     \* the r_ids registered or logged in (SQEServer::rids)
  rows,     \* rows[r]: rows of register_info created for r
  status,   \* status[r]: the status column of that account
  waiting,  \* waiting[r]: clientWaitDeamon clocks started for that account
  sent,     \* answers handed to the UDP socket, in order
  arrived,  \* history: datagrams appended to rawdata_in, in order
  spoilt    \* history: datagrams a racing push_back has lost

walks == <<owner, pc, pos, prm>>
lists == <<queue, walks>>
race == <<linking, broken, spoilt>>
sqldb == <<rids, rows, status, waiting>>
vars == <<queue, owner, pc, pos, prm, linking, broken, rids, rows, status, waiting,
          sent, arrived, spoilt>>

NoLink == [item |-> Null, seen |-> <<>>, swept |-> FALSE]

Init ==
  /\ queue = [k \in 1 .. 4 |-> <<>>]
  /\ owner = [k \in 1 .. 4 |-> Nobody]
  /\ pc = [t \in Threads |-> "idle"]
  /\ pos = [t \in Threads |-> 1]
  /\ prm = [t \in Threads |-> 0]
  /\ linking = NoLink /\ broken = FALSE
  /\ rids = {}
  /\ rows = [r \in Rids |-> 0]
  /\ status = [r \in Rids |-> 0]
  /\ waiting = [r \in Rids |-> 0]
  /\ sent = <<>> /\ arrived = <<>> /\ spoilt = {}

Free(k) == owner[k] = Nobody

NonNull(q) == Without(q, {Null})
Seen(d) == d \in ToSet(arrived) \union spoilt \union {linking.item}

-----------------------------------------------------------------------------
(* What fills rawdata_in.                                                  *)

\* push_back on rawdata_in: behind a broken tail pointer the new node is out of
\* reach of every walk.
Push(d) ==
  \/ /\ ~broken
     /\ queue' = [queue EXCEPT ![1] = Append(@, d)]
     /\ arrived' = Append(arrived, d)
     /\ UNCHANGED spoilt
  \/ /\ broken
     /\ spoilt' = spoilt \union {d}
     /\ UNCHANGED <<queue, arrived>>

\* serverDeamon: a tagged datagram is appended under mutex.  (One that is not
\* tagged is dropped on the spot, as if the network had lost it.)
Receive(d) ==
  /\ d \notin Boxed /\ ~Seen(d)
  /\ Free(1)
  /\ Push(d)
  /\ UNCHANGED <<walks, linking, broken, sqldb, sent>>

\* boxProcessorDeamon appends a glued message holding mutex_box, which none of
\* the other users of rawdata_in takes: its push_back starts from the list it
\* sees now ...
BoxPush(d) ==
  /\ d \in Boxed /\ ~Seen(d)
  /\ linking = NoLink
  /\ linking' = [item |-> d, seen |-> queue[1], swept |-> FALSE]
  /\ UNCHANGED <<lists, broken, sqldb, sent, arrived, spoilt>>

NewSince == {x \in ToSet(queue[1]) \ ToSet(linking.seen) : x # Null}
TailGone ==
  linking.swept /\ (Last(linking.seen) = Null \/ Last(linking.seen) \notin ToSet(queue[1]))

\* ... and links the new node.  It may come out as if the two had not raced.  When
\* serverDeamon has appended nodes meanwhile, the link of the old tail may lead to
\* the new node and cut those off, or lead to those and cut off the new one; the
\* tail pointer of the list, written last by one of the two, may lead to the node
\* listed or to the one cut off.  When the old tail itself has been removed
\* meanwhile, the new node hangs off freed memory, and the tail pointer off the
\* node unless serverDeamon writes it later.
BoxLink ==
  LET d == linking.item
      kept == Without(queue[1], NewSince)
  IN
  /\ linking # NoLink
  /\ linking' = NoLink
  /\ \/ Push(d) /\ UNCHANGED broken
     \/ /\ NewSince # {} /\ ~broken
        /\ queue' = [queue EXCEPT ![1] = Append(kept, d)]
        /\ arrived' = Append(arrived, d)
        /\ spoilt' = spoilt \union NewSince
        /\ broken' \in BOOLEAN
     \/ /\ NewSince # {} \/ TailGone
        /\ spoilt' = spoilt \union {d}
        /\ broken' \in {broken \/ NewSince = {}, TRUE}
        /\ UNCHANGED <<queue, arrived>>
  /\ UNCHANGED <<walks, sqldb, sent>>

-----------------------------------------------------------------------------
(* The walk of a daemon over its list.                                     *)

\* The clock starts the daemon, which takes its mutex.
Start(t) ==
  /\ pc[t] = "idle" /\ Free(Stage(t))
  /\ owner' = [owner EXCEPT ![Stage(t)] = t]
  /\ pc' = [pc EXCEPT ![t] = "walk"]
  /\ pos' = [pos EXCEPT ![t] = 1]
  /\ prm' = [prm EXCEPT ![t] = Batch]
  /\ UNCHANGED <<queue, race, sqldb, sent, arrived>>

Walking(t) == pc[t] = "walk" /\ pos[t] <= Len(queue[Stage(t)])
Current(t) == queue[Stage(t)][pos[t]]
\* Fault: the batch is not limited.
AtItemUnlimited(t) == Walking(t) /\ Current(t) # Null

AtItem(t) == Walking(t) /\ Current(t) # Null /\ prm[t] > 0

\* An entry some earlier walk has nulled is passed over.
SkipNull(t) ==
  /\ Walking(t) /\ Current(t) = Null
  /\ pos' = [pos EXCEPT ![t] = @ + 1]
  /\ UNCHANGED <<queue, owner, pc, prm, race, sqldb, sent, arrived>>

\* The item is done with: freed, nulled, and counted.
Advance(t) ==
  /\ pos' = [pos EXCEPT ![t] = @ + 1]
  /\ prm' = [prm EXCEPT ![t] = @ - 1]
  /\ UNCHANGED <<owner, pc>>

\* Fault: the entry is not overwritten with nullptr.
NulledForgotten(t) == queue

Nulled(t) == [queue EXCEPT ![Stage(t)][pos[t]] = Null]

\* It is dropped, or passed on under the next mutex.
Drop(t) == queue' = Nulled(t)

\* Fault: push_front where the next list wants push_back.
PassOnFront(t) ==
  /\ Free(Stage(t) + 1)
  /\ queue' = [Nulled(t) EXCEPT ![Stage(t) + 1] = <<Current(t)>> \o @]

PassOn(t) ==
  /\ Free(Stage(t) + 1)
  /\ queue' = [Nulled(t) EXCEPT ![Stage(t) + 1] = Append(@, Current(t))]

\* ProcessRawData: SPKT and RPKT datagrams become packets, others are dropped.
RawDataItem(t) ==
  /\ t \in RawThreads /\ AtItem(t)
  /\ IF Class[Current(t)] = "junk" THEN Drop(t) ELSE PassOn(t)
  /\ Advance(t)
  /\ UNCHANGED <<race, sqldb, sent, arrived>>

\* ProcessPacket: what the packet asks for is queued as a request.
PacketItem ==
  LET t == "pkt" IN
  /\ AtItem(t) /\ PassOn(t) /\ Advance(t)
  /\ UNCHANGED <<race, sqldb, sent, arrived>>

\* Fault: a retry is registered like a new client.
RegisterAgain(r) ==
  /\ rids' = rids \union {r}
  /\ rows' = [rows EXCEPT ![r] = @ + 1]
  /\ waiting' = [waiting EXCEPT ![r] = @ + 1]
  /\ UNCHANGED status

\* A first "private request" registers the client: r_id, database row, and a
\* connection daemon; a retry of it (same r_id) registers nothing.
Register(r) ==
  IF r \in rids THEN UNCHANGED sqldb
  ELSE /\ rids' = rids \union {r}
       /\ rows' = [rows EXCEPT ![r] = @ + 1]
       /\ waiting' = [waiting EXCEPT ![r] = @ + 1]
       /\ UNCHANGED status

\* A login to an account that is off line starts its connection daemon and
\* marks it on line.
Login(r, a) ==
  IF status[a] # 0 THEN UNCHANGED sqldb
  ELSE /\ rids' = rids \union {r}
       /\ waiting' = [waiting EXCEPT ![a] = @ + 1]
       /\ status' = [status EXCEPT ![a] = 1]
       /\ UNCHANGED rows

\* A login that finds no row or another password, and a request of unknown type,
\* get no answer.  (A row may be there and not be found: a client_id from 2^63 on
\* is stored and looked up in different forms.)
Unanswerable(d) == Class[d] \in {"unknown", "login"}

\* ProcessRequset.
RequestItem ==
  LET t == "req"
      d == Current(t)
  IN
  /\ AtItem(t)
  /\ \/ Class[d] = "public" /\ PassOn(t) /\ UNCHANGED sqldb
     \/ Class[d] = "private" /\ PassOn(t) /\ Register(Rid[d])
     \/ Class[d] = "login" /\ rows[Account[d]] > 0 /\ PassOn(t) /\ Login(Rid[d], Account[d])
     \/ Unanswerable(d) /\ Drop(t) /\ UNCHANGED sqldb
  /\ Advance(t)
  /\ UNCHANGED <<race, sent, arrived>>

\* ProcessSendPackets hands the answer to the socket.
SendItem ==
  LET t == "snd" IN
  /\ AtItem(t)
  /\ sent' = Append(sent, Current(t))
  /\ Drop(t) /\ Advance(t)
  /\ UNCHANGED <<race, sqldb, arrived>>

\* The walk is over: end of the list, or an item beyond the batch.
WalkOver(t) ==
  /\ pc[t] = "walk"
  /\ Walking(t) => Current(t) # Null /\ prm[t] = 0

\* The mutex is released, and the locals of the walk are gone.
Unlock(t) ==
  /\ owner' = [owner EXCEPT ![Stage(t)] = Nobody]
  /\ pos' = [pos EXCEPT ![t] = 1]
  /\ prm' = [prm EXCEPT ![t] = 0]

\* Fault: the list is cleared instead of swept.
SweptAll(k) == [queue EXCEPT ![k] = <<>>]

Swept(k) == [queue EXCEPT ![k] = NonNull(@)]

\* Daemons 2 to 4 remove the null entries and unlock.
Finish(t) ==
  /\ t \notin RawThreads /\ WalkOver(t)
  /\ queue' = Swept(Stage(t))
  /\ Unlock(t)
  /\ pc' = [pc EXCEPT ![t] = "idle"]
  /\ UNCHANGED <<race, sqldb, sent, arrived>>

\* ProcessRawData unlocks first ...
RawUnlock(t) ==
  /\ t \in RawThreads /\ WalkOver(t)
  /\ Unlock(t)
  /\ pc' = [pc EXCEPT ![t] = "sweep"]
  /\ UNCHANGED <<queue, race, sqldb, sent, arrived>>

\* Fault: the sweep does not take mutex.
RawSweepUnlocked(t) ==
  /\ pc[t] = "sweep"
  /\ queue' = Swept(1)
  /\ pc' = [pc EXCEPT ![t] = "idle"]
  /\ UNCHANGED <<owner, pos, prm, race, sqldb, sent, arrived>>

\* ... and removes the null entries under mutex once more.
RawSweep(t) ==
  /\ pc[t] = "sweep" /\ Free(1)
  /\ queue' = Swept(1)
  /\ pc' = [pc EXCEPT ![t] = "idle"]
  /\ linking' = [linking EXCEPT !.swept =
                   @ \/ (linking.seen # <<>> /\ Null \in ToSet(queue[1]))]
  /\ broken' = (broken /\ (queue[1] = <<>> \/ Last(queue[1]) # Null))
  /\ UNCHANGED <<owner, pos, prm, sqldb, sent, arrived, spoilt>>

\* A connection daemon writes the status column when it connects, and when it
\* fails to or loses the connection.
WaitDaemon(r) ==
  /\ waiting[r] > 0
  /\ status' = [status EXCEPT ![r] = 1 - @]
  /\ UNCHANGED <<lists, race, rids, rows, waiting, sent, arrived>>

-----------------------------------------------------------------------------
Item(t) ==
  \/ RawDataItem(t)
  \/ t = "pkt" /\ PacketItem
  \/ t = "req" /\ RequestItem
  \/ t = "snd" /\ SendItem

Walk(t) == SkipNull(t) \/ Item(t) \/ Finish(t) \/ RawUnlock(t)

Next ==
  \/ \E d \in Datagrams : Receive(d) \/ BoxPush(d)
  \/ BoxLink
  \/ \E t \in Threads : Start(t) \/ SkipNull(t) \/ Finish(t) \/ RawUnlock(t) \/ RawSweep(t)
  \/ \E t \in RawThreads : RawDataItem(t)
  \/ PacketItem \/ RequestItem \/ SendItem
  \/ \E r \in Rids : WaitDaemon(r)

Spec == Init /\ [][Next]_vars

\* The clock starts every daemon again and again.  A thread that waits for a
\* mutex gets it in the end, although others take it in between (SF); the other
\* steps stay possible until they are taken (WF).
FairSpec ==
  /\ Spec
  /\ WF_vars(BoxLink)
  /\ \A t \in RawThreads : SF_vars(Start(t)) /\ SF_vars(RawSweep(t)) /\ SF_vars(Walk(t))
  /\ \A t \in {"pkt", "req"} : WF_vars(Start(t)) /\ SF_vars(Walk(t))
  /\ WF_vars(Start("snd")) /\ WF_vars(Walk("snd"))

-----------------------------------------------------------------------------
\* The lists, cursors and database columns keep their types.
TypeOK ==
  /\ queue \in [1 .. 4 -> Seq(Datagrams \union {Null})]
  /\ owner \in [1 .. 4 -> Threads \union {Nobody}]
  /\ pc \in [Threads -> {"idle", "walk", "sweep"}]
  /\ pos \in [Threads -> Nat \ {0}]
  /\ prm \in [Threads -> 0 .. Batch]
  /\ linking.item \in Datagrams \union {Null} /\ broken \in BOOLEAN
  /\ rids \in SUBSET Rids
  /\ rows \in [Rids -> Nat] /\ waiting \in [Rids -> Nat]
  /\ status \in [Rids -> {0, 1}]
  /\ sent \in Seq(Datagrams) /\ arrived \in Seq(Datagrams)
  /\ spoilt \in SUBSET Datagrams

\* All datagrams in the server, the oldest first.
InOrder ==
  sent \o NonNull(queue[4]) \o NonNull(queue[3]) \o NonNull(queue[2]) \o NonNull(queue[1])

Occurrences(d, s) == {i \in DOMAIN s : s[i] = d}

\* A datagram is in one place: no walk, overlapping instance, break at the
\* batch limit or sweep handles one twice, and none that will be answered
\* disappears on the way (one spoilt by the unlocked push_back excepted).
HandledOnce ==
  \A d \in Datagrams :
    /\ \A i, j \in Occurrences(d, InOrder) : i = j
    /\ (d \in ToSet(arrived) \ spoilt /\ Class[d] \in {"public", "private"}) =>
         d \in ToSet(InOrder)

\* Answers leave in the order the requests came in, whatever the interleaving
\* of the daemons: at any time the datagrams in the server, the most advanced
\* first, stand in the order of their arrival.
FirstComeFirstServed ==
  \A i, j \in DOMAIN InOrder : i < j =>
    \E m, n \in DOMAIN arrived : m < n /\ arrived[m] = InOrder[i] /\ arrived[n] = InOrder[j]

\* A client that repeats its registration (the first answer was late or lost)
\* gets one account: at most one row per r_id.
OneAccountPerRequest == \A r \in Rids : rows[r] <= 1

\* A walk keeps its place: while a daemon walks, no other instance removes or
\* replaces an entry it has still to come to, and none before its position
\* is swept away, so the iterator never stands on a removed node (what the
\* unlocked push_back of boxProcessorDeamon does to the list excepted).
CursorStable ==
  [][\A t \in Threads :
       (pc[t] = "walk" /\ pc'[t] = "walk" /\ linking'.item = linking.item) =>
         \A i \in pos[t] .. Len(queue[Stage(t)]) :
            i > pos'[t] => /\ i <= Len(queue'[Stage(t)])
                           /\ queue'[Stage(t)][i] = queue[Stage(t)][i]]_vars

\* Every request that can be answered is, in the end: no deadlock among the
\* mutexes, and the batch limit only delays.
Answered ==
  \A d \in Datagrams :
    (d \in ToSet(arrived) /\ Class[d] \in {"public", "private"})
      ~> (d \in ToSet(sent) \union spoilt)

\* For those who send requests the lists, daemons, batches and sweeps are one service
\* that answers in order and passes over a request only if the unlocked push_back of
\* boxProcessorDeamon has lost it.
Promise == INSTANCE OrderedService WITH
  Requests <- Datagrams,
  Owed <- {d \in Datagrams : Class[d] \in {"public", "private"}},
  came <- arrived, answered <- sent, lost <- spoilt

Service == Promise!OSpec
=============================================================================
