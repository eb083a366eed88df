---------------------------- MODULE SessionLogin ----------------------------
(***************************************************************************)
(* How a client and the square server get connected, and lose each other.  *)
(* The client registers, or logs in with what its database holds, over UDP *)
(* (client() in controller.cpp); on the answer it becomes a shell and forks*)
(* a service that listens on a TCP port.  For each registration or accepted*)
(* login the server starts a connection daemon (clientWaitDeamon), which   *)
(* connects to that port, hands the account over, encrypted with the key of*)
(* its registration, sets the status column, and starts two threads:       *)
(* clientListener, which connects anew and receives, and clientChecker,    *)
(* which connects once more and sends a beat every second.  Each can clear *)
(* if_connected; the daemon then sets the status back and joins them.      *)
(*                                                                         *)
(* Shell, service and server can stop, each by itself, and client and      *)
(* server be started again at any time; their databases (known, stored;    *)
(* rows, key and status) survive.  The request handler writes its row      *)
(* before the clock starts the daemon (64 ticks later), so each request is *)
(* handled in one step.                                                    *)
(***************************************************************************)
EXTENDS Integers

CONSTANTS
  Account,    \* client_ids the server can draw
  Wide,       \* those of them with the highest of the 64 bits set
  Daemon,     \* instances of clientWaitDeamon, as many as can run at a time
  Tries,      \* attempts to connect (8 in the code)
  Life,       \* clicks a registration's daemon lives (99999 in the code)
  MaxRuns,    \* bound: how often the client is started
  MaxBoots,   \* bound: how often the server is started
  Copies,     \* bound: Copies[n] transmissions of run n's request reach the server
  None

ASSUME SessionAssumption ==
  /\ Tries \in Nat \ {0} /\ Life \in Nat
  /\ MaxRuns \in Nat /\ MaxBoots \in Nat \ {0}
  /\ Copies \in [1 .. MaxRuns -> Nat]
  /\ None \notin Account /\ Wide \subseteq Account

VARIABLES
  \* the client
  client,     \* the first process: "off", "asking" (request sent) or "shell"
  service,    \* the forked one runs: the TCP port is open
  run,        \* which start of the client this is
  known,      \* the account in client_register_info, None before one is there
  stored,     \* the key there: that of run `stored`, which drew it
  \* between them
  wanted,     \* wanted[n]: the account of run n's login, None for a registration
  copies,     \* copies[n]: transmissions of that request still under way
  answered,   \* an answer for the run that asks is there
  handing,    \* accounts under way to the client in JRES messages
  \* the server
  up, boots,
  rids,       \* requests already registered (SQEServer::rids)
  rows,       \* accounts in register_info
  key,        \* key[a]: the run whose key the row of a holds
  status,     \* the status column
  \* its connection daemons
  pc,         \* "idle", "connect", "hello", "record", "watch", "join"
  acct, tries, click,
  link,       \* the run of the client that the daemon's socket leads to
  listener,   \* clientListener: "none", "reconnect", "recv", "end"
  checker,    \* clientChecker: "none", "connect", "beat", "end"
  peer,       \* the runs their sockets lead to: <<listener's, checker's>>
  if_connected,
  spent       \* history: accounts left because the daemon's clicks ran out

clientVars == <<client, service, run, known, stored>>
netVars == <<wanted, copies, answered, handing>>
tableVars == <<rids, rows, key, status, spent>>
threadVars == <<listener, checker, peer, if_connected>>
daemonVars == <<pc, acct, tries, click, link, threadVars>>
vars == <<clientVars, netVars, up, boots, tableVars, daemonVars>>

Runs == 1 .. MaxRuns

Init ==
  /\ client = "off" /\ service = FALSE /\ run = 0 /\ known = None /\ stored = 0
  /\ wanted = [n \in Runs |-> None]
  /\ copies = [n \in Runs |-> 0]
  /\ answered = FALSE /\ handing = {}
  /\ up = TRUE /\ boots = 1
  /\ rids = {} /\ rows = {} /\ spent = {}
  /\ key = [a \in Account |-> 0]
  /\ status = [a \in Account |-> 0]
  /\ pc = [d \in Daemon |-> "idle"]
  /\ acct = [d \in Daemon |-> None]
  /\ tries = [d \in Daemon |-> 0]
  /\ click = [d \in Daemon |-> 0]
  /\ link = [d \in Daemon |-> 0]
  /\ listener = [d \in Daemon |-> "none"]
  /\ checker = [d \in Daemon |-> "none"]
  /\ peer = [d \in Daemon |-> <<0, 0>>]
  /\ if_connected = [d \in Daemon |-> FALSE]

Serving(n) == service /\ run = n

-----------------------------------------------------------------------------
(* The client.                                                             *)

\* client(): with an account in its database it logs in, otherwise it draws a
\* key and registers; the request goes out with its repetitions.  A start beside
\* a shell or a service that still runs does not get its UDP port and ends there.
Ask ==
  /\ client = "off" /\ ~service /\ run < MaxRuns
  /\ run' = run + 1
  /\ client' = "asking"
  /\ wanted' = [wanted EXCEPT ![run'] = known]
  /\ copies' = [copies EXCEPT ![run'] = Copies[run']]
  /\ UNCHANGED <<service, known, stored, answered, handing, up, boots, tableVars, daemonVars>>

\* The answer is there: a registration stores its key; fork and listen.
Serve ==
  /\ client = "asking" /\ answered
  /\ client' = "shell" /\ service' = TRUE /\ answered' = FALSE
  /\ stored' = IF wanted[run] = None THEN run ELSE stored
  /\ UNCHANGED <<run, known, wanted, copies, handing, up, boots, tableVars, daemonVars>>

\* The first process ends: no answer in time, "quit", which leaves the service
\* alone, or a crash.
Leave ==
  /\ client # "off"
  /\ client' = "off" /\ answered' = FALSE
  /\ UNCHANGED <<service, run, known, stored, wanted, copies, handing, up, boots,
                 tableVars, daemonVars>>

\* The service ends: "stop", a port it does not get, a broken pipe, a crash.  What
\* is still under way to it finds its sockets closed.
Closed == service' = FALSE /\ handing' = {}
ServiceEnds ==
  /\ service /\ Closed
  /\ UNCHANGED <<client, run, known, stored, wanted, copies, answered, up, boots,
                 tableVars, daemonVars>>

\* connectionDeamon receives the account and decrypts it with its own key: it
\* stores the account (and lets the shell start).
\* Fault: the MD5 of what was decrypted is not compared.
TakeAccountUnchecked(a) ==
  /\ a \in handing /\ service
  /\ handing' = handing \ {a} /\ known' = a
  /\ UNCHANGED <<client, service, run, stored, wanted, copies, answered, up, boots,
                 tableVars, daemonVars>>
TakeAccount(a) ==
  /\ a \in handing /\ service /\ key[a] = stored
  /\ handing' = handing \ {a} /\ known' = a
  /\ UNCHANGED <<client, service, run, stored, wanted, copies, answered, up, boots,
                 tableVars, daemonVars>>

\* It comes from the daemon of an earlier registration: Packet2Post throws "key
\* error", which nobody catches, and the service dies of it.
WrongKey(a) ==
  /\ a \in handing /\ service /\ key[a] # stored
  /\ Closed
  /\ UNCHANGED <<client, run, known, stored, wanted, copies, answered, up, boots,
                 tableVars, daemonVars>>

-----------------------------------------------------------------------------
(* The request handler of the server.                                      *)

\* A new client_register and its daemon, which lives for n clicks.  (Which of the
\* free instances it is makes no difference, so one is chosen.)
Idle(d) == pc[d] = "idle"
FreeDaemon == CHOOSE d \in Daemon : Idle(d)
StartDaemon(d, a, n) ==
  /\ \E e \in Daemon : Idle(e)
  /\ pc' = [pc EXCEPT ![d] = "connect"]
  /\ acct' = [acct EXCEPT ![d] = a]
  /\ click' = [click EXCEPT ![d] = n]
  /\ UNCHANGED <<tries, link, threadVars>>

Receiving(n) ==
  /\ up /\ copies[n] > 0
  /\ copies' = [copies EXCEPT ![n] = @ - 1]
  /\ UNCHANGED <<clientVars, wanted, handing, up, boots>>

Answering(n) ==
  /\ Receiving(n)
  /\ answered' = (answered \/ (client = "asking" /\ run = n))

\* "private request": a new account, unless the request was registered before
\* (by this run of the server: rids is not stored).
Register(n) ==
  /\ Answering(n) /\ wanted[n] = None /\ n \notin rids
  /\ \E a \in Account \ rows :
       /\ rows' = rows \union {a}
       /\ key' = [key EXCEPT ![a] = n]
       /\ status' = [status EXCEPT ![a] = 0]
       /\ StartDaemon(FreeDaemon, a, Life)
  /\ rids' = rids \union {n}
  /\ UNCHANGED spent

RegisteredBefore(n) ==
  /\ Answering(n) /\ wanted[n] = None /\ n \in rids
  /\ UNCHANGED <<tableVars, daemonVars>>

\* A row holds its client_id as a signed integer, and the look-up compares it
\* with the unsigned one in decimal: the two are equal below 2^63 only.
Found(a) == a \in rows \ Wide

\* "client login" of an account that is off line: its client_register is a new
\* one whose click nobody sets, so that it is zero.
Login(n) ==
  /\ Answering(n) /\ Found(wanted[n]) /\ status[wanted[n]] = 0
  /\ StartDaemon(FreeDaemon, wanted[n], 0)
  /\ rids' = rids \union {n}
  /\ status' = [status EXCEPT ![wanted[n]] = 1]
  /\ UNCHANGED <<rows, key, spent>>

\* Login of an account whose status says it is on line: answered all the same.
LoginOnLine(n) ==
  /\ Answering(n) /\ Found(wanted[n]) /\ status[wanted[n]] = 1
  /\ UNCHANGED <<tableVars, daemonVars>>

\* No row is found: "Invaild login", which nobody answers.
LoginInvalid(n) ==
  /\ Receiving(n) /\ wanted[n] # None /\ ~Found(wanted[n])
  /\ UNCHANGED <<answered, tableVars, daemonVars>>

-----------------------------------------------------------------------------
(* clientWaitDeamon.                                                       *)

\* An instance ends: its client_register is deleted and its thread finishes.
Ends(d) ==
  /\ pc' = [pc EXCEPT ![d] = "idle"]
  /\ acct' = [acct EXCEPT ![d] = None]
  /\ tries' = [tries EXCEPT ![d] = 0]
  /\ click' = [click EXCEPT ![d] = 0]
  /\ link' = [link EXCEPT ![d] = 0]

\* The process dies with everything it had in memory.
Dies ==
  /\ up' = FALSE
  /\ rids' = {}
  /\ pc' = [d \in Daemon |-> "idle"]
  /\ acct' = [d \in Daemon |-> None]
  /\ listener' = [d \in Daemon |-> "none"]
  /\ checker' = [d \in Daemon |-> "none"]
  /\ if_connected' = [d \in Daemon |-> FALSE]
  /\ peer' = [d \in Daemon |-> <<0, 0>>]
  /\ tries' = [d \in Daemon |-> 0]
  /\ click' = [d \in Daemon |-> 0]
  /\ link' = [d \in Daemon |-> 0]
  /\ UNCHANGED <<clientVars, netVars, boots, rows, key, status, spent>>

At(d, where) == up /\ pc[d] = where

\* tryConnection succeeds: somebody listens on the client's port, and the tries are
\* not looked at any more.
Connect(d) ==
  /\ At(d, "connect") /\ service
  /\ pc' = [pc EXCEPT ![d] = "hello"]
  /\ link' = [link EXCEPT ![d] = run]
  /\ tries' = [tries EXCEPT ![d] = 0]
  /\ UNCHANGED <<clientVars, netVars, up, boots, tableVars, acct, click, threadVars>>

\* tryConnection fails; after the last try the account is off line.
\* Fault: the tries are not limited.
ConnectFailsForEver(d) ==
  /\ At(d, "connect")
  /\ tries' = [tries EXCEPT ![d] = @ + 1]
  /\ UNCHANGED <<clientVars, netVars, up, boots, tableVars, pc, acct, click, link, threadVars>>
ConnectFails(d) ==
  /\ At(d, "connect")
  /\ \/ /\ tries[d] + 1 < Tries
        /\ tries' = [tries EXCEPT ![d] = @ + 1]
        /\ UNCHANGED <<pc, acct, click, link, status>>
     \/ /\ tries[d] + 1 = Tries
        /\ status' = [status EXCEPT ![acct[d]] = 0]
        /\ Ends(d)
  /\ UNCHANGED <<clientVars, netVars, up, boots, rids, rows, key, spent, threadVars>>

\* SCNT is sent and DGET comes back: the account is sent and the socket closed.
HandOver(d) ==
  /\ At(d, "hello") /\ Serving(link[d])
  /\ handing' = handing \union {acct[d]}
  /\ pc' = [pc EXCEPT ![d] = "record"]
  /\ UNCHANGED <<clientVars, wanted, copies, answered, up, boots, tableVars,
                 acct, tries, click, link, threadVars>>

\* Nothing or something else comes back: the daemon ends, with the status as it
\* is.  When nothing came, resFromClient has compared and freed a pointer that
\* was never set, and the process may die of it.
NotRecognised(d) ==
  /\ At(d, "hello")
  /\ \/ /\ Ends(d)
        /\ UNCHANGED <<clientVars, netVars, up, boots, tableVars, threadVars>>
     \/ Dies

\* The status is set and the two threads are started.
Record(d) ==
  /\ At(d, "record")
  /\ status' = [status EXCEPT ![acct[d]] = 1]
  /\ if_connected' = [if_connected EXCEPT ![d] = TRUE]
  /\ listener' = [listener EXCEPT ![d] = "reconnect"]
  /\ checker' = [checker EXCEPT ![d] = "connect"]
  /\ pc' = [pc EXCEPT ![d] = "watch"]
  /\ UNCHANGED <<clientVars, netVars, up, boots, rids, rows, key, spent,
                 acct, tries, click, link, peer>>

\* One round of the loop, once a second: a lost connection is recorded.
\* Fault: a lost connection only ends the loop.
WatchUnrecorded(d) ==
  /\ At(d, "watch") /\ click[d] > 0
  /\ click' = [click EXCEPT ![d] = @ - 1]
  /\ pc' = [pc EXCEPT ![d] = IF if_connected[d] THEN @ ELSE "join"]
  /\ UNCHANGED <<clientVars, netVars, up, boots, tableVars, acct, tries, link, threadVars>>
Watch(d) ==
  /\ At(d, "watch") /\ click[d] > 0
  /\ click' = [click EXCEPT ![d] = @ - 1]
  /\ \/ if_connected[d] /\ UNCHANGED <<pc, status>>
     \/ /\ ~if_connected[d]
        /\ status' = [status EXCEPT ![acct[d]] = 0]
        /\ pc' = [pc EXCEPT ![d] = "join"]
  /\ UNCHANGED <<clientVars, netVars, up, boots, rids, rows, key, spent,
                 acct, tries, link, threadVars>>

\* The clicks have run out: the loop ends, whatever has become of the connection.
WatchOver(d) ==
  /\ At(d, "watch") /\ click[d] = 0
  /\ pc' = [pc EXCEPT ![d] = "join"]
  /\ spent' = spent \union {acct[d]}
  /\ UNCHANGED <<clientVars, netVars, up, boots, rids, rows, key, status,
                 acct, tries, click, link, threadVars>>

\* Both threads have ended.
Join(d) ==
  /\ At(d, "join") /\ listener[d] = "end" /\ checker[d] = "end"
  /\ listener' = [listener EXCEPT ![d] = "none"]
  /\ checker' = [checker EXCEPT ![d] = "none"]
  /\ peer' = [peer EXCEPT ![d] = <<0, 0>>]
  /\ if_connected' = [if_connected EXCEPT ![d] = FALSE]
  /\ Ends(d)
  /\ UNCHANGED <<clientVars, netVars, up, boots, tableVars>>

-----------------------------------------------------------------------------
(* clientListener and clientChecker.                                       *)

otherThan == <<clientVars, netVars, boots, pc, acct, tries, click, link>>

\* Reconnect, to whoever listens on the port by now; if nobody does, the
\* connection is lost.
Reconnect(d) ==
  /\ up /\ listener[d] = "reconnect"
  /\ \/ /\ service
        /\ listener' = [listener EXCEPT ![d] = "recv"]
        /\ peer' = [peer EXCEPT ![d][1] = run]
        /\ UNCHANGED if_connected
     \/ /\ ~service
        /\ listener' = [listener EXCEPT ![d] = "end"]
        /\ if_connected' = [if_connected EXCEPT ![d] = FALSE]
        /\ UNCHANGED peer
  /\ UNCHANGED <<otherThan, up, tableVars, checker>>

\* The client is gone.  RecvRAW may report a reset (-1), which loses the
\* connection, or a close (0), which the loop takes no notice of.
ListenerReset(d) ==
  /\ up /\ listener[d] = "recv" /\ ~Serving(peer[d][1])
  /\ if_connected' = [if_connected EXCEPT ![d] = FALSE]
  /\ listener' = [listener EXCEPT ![d] = "end"]
  /\ UNCHANGED <<otherThan, up, tableVars, checker, peer>>

\* if_connected was cleared by the other thread: the loop sees it after the next
\* RecvRAW, which returns when the client sends something or is gone.
ListenerEnds(d) ==
  /\ up /\ listener[d] = "recv" /\ ~if_connected[d]
  /\ listener' = [listener EXCEPT ![d] = "end"]
  /\ UNCHANGED <<otherThan, up, tableVars, checker, peer, if_connected>>

\* The checker's own connection.  Nothing catches the exception that the socket
\* throws when nobody listens any more: it ends the process.
CheckerConnects(d) ==
  /\ up /\ checker[d] = "connect"
  /\ \/ /\ service
        /\ checker' = [checker EXCEPT ![d] = "beat"]
        /\ peer' = [peer EXCEPT ![d][2] = run]
        /\ UNCHANGED <<otherThan, up, tableVars, listener, if_connected>>
     \/ ~service /\ Dies

\* A beat cannot be sent (or the other thread has cleared if_connected, which
\* ends the checker before it sends).
\* Fault: a beat that cannot be sent is only reported.
BeatReported(d) ==
  /\ up /\ checker[d] = "beat" /\ ~if_connected[d]
  /\ checker' = [checker EXCEPT ![d] = "end"]
  /\ UNCHANGED <<otherThan, up, tableVars, listener, peer, if_connected>>
Beat(d) ==
  /\ up /\ checker[d] = "beat"
  /\ \/ ~if_connected[d]
     \/ ~Serving(peer[d][2])
  /\ checker' = [checker EXCEPT ![d] = "end"]
  /\ if_connected' = [if_connected EXCEPT ![d] = FALSE]
  /\ UNCHANGED <<otherThan, up, tableVars, listener, peer>>

\* The report names the client, from the client_register that the daemon has
\* deleted before it joins: the process may die of it.
BeatOfDeleted(d) ==
  /\ At(d, "join") /\ checker[d] = "beat" /\ ~Serving(peer[d][2])
  /\ Dies

-----------------------------------------------------------------------------
\* Somebody stops the server, and starts it again.
Stop == up /\ Dies

Boot ==
  /\ ~up /\ boots < MaxBoots
  /\ up' = TRUE /\ boots' = boots + 1
  /\ UNCHANGED <<clientVars, netVars, tableVars, daemonVars>>

ConnectionDaemon(d) ==
  Connect(d) \/ ConnectFails(d) \/ HandOver(d) \/ NotRecognised(d) \/ Record(d)
    \/ Watch(d) \/ WatchOver(d) \/ Join(d)

Next ==
  \/ Ask \/ Serve \/ Leave \/ ServiceEnds
  \/ \E a \in handing : TakeAccount(a) \/ WrongKey(a)
  \/ \E n \in Runs :
       Register(n) \/ RegisteredBefore(n) \/ Login(n) \/ LoginOnLine(n) \/ LoginInvalid(n)
  \/ \E d \in Daemon :
       \/ Connect(d) \/ ConnectFails(d) \/ HandOver(d) \/ NotRecognised(d)
       \/ Record(d) \/ Watch(d) \/ WatchOver(d) \/ Join(d)
       \/ Reconnect(d) \/ ListenerReset(d) \/ ListenerEnds(d)
       \/ CheckerConnects(d) \/ Beat(d) \/ BeatOfDeleted(d)
  \/ Stop \/ Boot

Spec == Init /\ [][Next]_vars

\* The threads of the server go on; a listener in RecvRAW only when the client
\* is gone.  Clients, network and whoever starts the server owe nothing.
FairSpec ==
  /\ Spec
  /\ \A d \in Daemon :
       /\ WF_vars(ConnectionDaemon(d))
       /\ WF_vars(Reconnect(d)) /\ WF_vars(CheckerConnects(d)) /\ WF_vars(Beat(d))
       /\ WF_vars(ListenerEnds(d) /\ ~Serving(peer[d][1]))

-----------------------------------------------------------------------------
\* The two databases, the messages and the daemons keep their types, and a
\* daemon that runs has an account that is registered.
TypeOK ==
  /\ client \in {"off", "asking", "shell"} /\ service \in BOOLEAN
  /\ run \in 0 .. MaxRuns /\ stored \in 0 .. MaxRuns
  /\ known \in Account \union {None}
  /\ wanted \in [Runs -> Account \union {None}]
  /\ copies \in [Runs -> Nat] /\ \A n \in Runs : copies[n] <= Copies[n]
  /\ answered \in BOOLEAN /\ rids \subseteq Runs
  /\ handing \subseteq rows
  /\ up \in BOOLEAN /\ boots \in 1 .. MaxBoots
  /\ rows \subseteq Account /\ spent \subseteq rows
  /\ key \in [Account -> 0 .. MaxRuns]
  /\ status \in [Account -> {0, 1}]
  /\ pc \in [Daemon -> {"idle", "connect", "hello", "record", "watch", "join"}]
  /\ acct \in [Daemon -> Account \union {None}]
  /\ \A d \in Daemon : IF pc[d] = "idle" THEN acct[d] = None ELSE acct[d] \in rows
  /\ tries \in [Daemon -> 0 .. Tries - 1]
  /\ click \in [Daemon -> 0 .. Life]
  /\ link \in [Daemon -> 0 .. MaxRuns]
  /\ listener \in [Daemon -> {"none", "reconnect", "recv", "end"}]
  /\ checker \in [Daemon -> {"none", "connect", "beat", "end"}]
  /\ peer \in [Daemon -> (0 .. MaxRuns) \X (0 .. MaxRuns)]
  /\ if_connected \in [Daemon -> BOOLEAN]

\* What a client logs in with is an account the server has registered, and under
\* the very key the client holds, whoever crashed and restarted since and whichever
\* of the earlier daemons handed its account over: the client can read what the
\* server sends to that account.
LoginIsRegistered ==
  /\ known # None => known \in rows /\ key[known] = stored
  /\ \A n \in Runs : wanted[n] # None => wanted[n] \in rows

\* The status column tells the truth about an account until somebody logs in to
\* it, the server is restarted, or the clicks of its daemon run out: it is 1
\* exactly while a daemon watches its connection.
Watched(a) == \E d \in Daemon : acct[d] = a /\ pc[d] = "watch"
StatusTrueUntilLogin ==
  (up /\ boots = 1) =>
    \A a \in rows \ spent :
      (\A n \in Runs : wanted[n] # a) => (status[a] = 1 <=> Watched(a))

\* When the service is gone for good, whatever has become of the shell, every
\* daemon of its accounts ends and joins its threads, whichever notices first.
DaemonsEnd ==
  <>[]~service => <>[](\A d \in Daemon : pc[d] = "idle")

\* "更新登录信息" (update the login information), server.cpp:1409: when the
\* connection daemon of a client that has logged in has lost its connection, the
\* account's status goes back to 0.  (A registration's daemon does so until its
\* clicks have run out.)
LoggedIn(d) == link[d] # 0 /\ wanted[link[d]] = acct[d]
LossRecorded ==
  \A d \in Daemon, a \in Account :
    (pc[d] \in {"watch", "join"} /\ acct[d] = a /\ LoggedIn(d) /\ ~if_connected[d])
      ~> (status[a] = 0 \/ ~up)
=============================================================================
