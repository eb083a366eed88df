# A verification development for NetCpp

NetCpp is a small client/server system in C++: a *square server* keeps the
accounts of clients and talks to them over UDP and TCP, a *client* registers or
logs in and then keeps a background service alive; beside them stand a project
builder with a thread pool, and a newer set of TCP and message classes. This
directory models its parts in TLA+, checks them with TLC and proves the central
results with TLAPS. Paths below are relative to the repository (`src/server.cpp`
is the file of that name in the repository's `src` directory).

## 1. The system

### Components, state, operations

| Component | State it keeps | Operations | Correct when |
|---|---|---|---|
| UDP box sender (`SentRawdata`, `SendRawData`) | locals of a loop | cut a signed message into numbered boxes (`net_box`) | the boxes tile the message, and the receiver can put them back together |
| UDP box receiver (`serverDeamon`, `boxProcessorDeamon`, `CleaningBoxs`) | `boxls`: listeners with slots, count, life | file a box, hand over, age, erase | only whole messages are handed over, never twice from the same boxes; every listener leaves |
| Square server pipeline | `rawdata_in`, `packets_in`, `req_list`, `packets_out`, five mutexes; `rids`, table `register_info` | receive, `ProcessRawData`, `ProcessPacket`, `ProcessRequset`, `ProcessSendPackets` | every request is handled once, in order, and answered; a retry registers nothing |
| Connection daemon (`clientWaitDeamon`, `clientListener`, `clientChecker`) | a `client_register`, the status column, two threads | connect with 8 tries, hand over the registration, watch the connection | status tells the truth about the connection; one daemon per account |
| Client requests (`NewRequestListener`, `ProcessRequestListener`, `if_wait`) | `req_lst`, `res_lst`, `mutex_clt`, `if_wait` | send, match answers, retry, time out, wait | one callback per request; the main thread proceeds only on an answer, and does proceed |
| Client shell and service process (`controller.cpp` from line 612, `model.cpp`) | a block of shared memory with a tag, `connection_info`, sockets | status, stop, ping; CIFO/RCFO, Exit/SEXT, SDAT, D_OK between two processes | the server gets what was typed, once; the status shown is true; neither side waits for ever |
| Clock (`clock.cpp`) | `clocks_list`, `clocks_thread_map`, `clock_thread_finished` | tick (reap, prune, walk), `newClock`, `clockThreadFinish` | every daemon runs again; every clock fires as filed; a thread joined is one it knows |
| Messages (`src/communicate/message*.cpp`) | parser state, two buffers | encode; locate head, options, body and tail byte by byte | what the factory writes, the parser reads |
| TCP connections and messages (`socket.cpp`, `connectionDeamon` of `model.cpp`) | the two streams of a socket, locals of a receiving call, `if_beat` | connection kinds SCNT, LCNT, CNTL; send, receive in one recv or several, acknowledge (DGET) | what is accepted as a message is one; the first message that matters arrives |
| TCP session server (`communicate/tcp_server.cpp`) | a queue of bytes, try-locks | read, write, poll | bytes are neither lost nor reordered |
| CThread pool, BlocksPool | semaphores, queues, blocks | feed, run, cancel | each task runs once, blocks are freed once |
| Project builder (`cproj_proj.cpp`) | source, library and description files, seven tables | `construct`, `update` | the database agrees with the files, whatever failed or was killed in between |
| Computation parts (`cpart.cpp`) | a shared object | load, run | - |
| Command line, SQL set-up, cryptography, addresses, printing | - | straight-line code | - |

### How they interact

One interval timer (SIGALRM, 50 ms) starts the daemons of a process as threads,
whether or not their last instance has ended. On the server, `serverDeamon`
files boxes in `boxls` and whole datagrams in `rawdata_in`; `boxProcessorDeamon`
appends the messages it has glued to the same list; three more daemons move
them through the other lists, each holding the mutex of its own list and taking
the next one for each item. `ProcessRequset` also writes the database and
registers `clientWaitDeamon` with the clock. On the client, the main thread
files a listener and spins on `if_wait`, which the callbacks write from a clock
thread. Once it is registered or logged in, the client forks: a shell reads
commands, a service process holds the connections the server's
`clientWaitDeamon` opens, and the two talk through a block of shared memory. On
each of those connections the server's first message says what it is for, and
`connectionDeamon` takes what its receiving call returns for messages.
The project builder is a program of its own: it shares only the executable.

### What is hard

Overlapping instances of daemons; a look-up made before the mutex is taken; one
list under two mutexes; null entries removed in a second critical section; boxes
lost, duplicated, reordered, and repeated by retries with the same id; lives and
timeouts that run out just when the last piece comes; a wake-up or a message that
is overwritten; messages cut and glued by TCP; a list changed by a signal handler and by threads; memory used
after it was freed; a run killed between two rows that belong together.
`PROJECT.json` lists each hazard at its line with the properties that look after
it.

## 2. The modules

    FragmentSender            one call of SentRawdata / SendRawData
      MCFragmentSender        sizes for TLC
      MCTransport             an answer by UDP, then a connection by TCP, for TLC
    MessageDelivery           what the box layer promises (abstract)
    BoxReassembly             listener table, receiver, network; implements it
      MCBoxReassembly         two messages for TLC
      BoxReassemblyProofs     theorems, with the refinement
    OrderedService            what the square server promises those who ask (abstract)
    ServerPipeline            the four lists and daemons of the square server; implements it
      MCServerPipeline        classes of datagrams for TLC
      ServerPipelineProofs    theorems, with the refinement
    SessionLogin              registration and login, connection daemons, restarts
      MCSessionLogin          two runs of the client for TLC
      SessionLoginProofs      theorems
    ClientRequests            listeners, retries, timeouts, if_wait
      MCClientRequests        two requests for TLC
      ClientRequestsProofs    theorems
    ServiceMemory             shell and service process over the shared block
      ServiceMemoryProofs     theorems
    ClockDaemon               the SIGALRM handler against the threads it starts
      MCClockDaemon           clocks for TLC
      ClockDaemonProofs       theorems
    StdList                   list::remove_if, for ServerPipeline and ClockDaemon
    TcpSocket                 receiving calls of socket.cpp, CheckRawMsg (operators)
    TcpConnection             both ends of a connection over streams
    TransportProofs           theorems of FragmentSender and of TcpConnection
    ProjectUpdate             construct and update, edits, errors, kills
      MCProjectUpdate         descriptions for TLC
      ProjectUpdateProofs     theorems
    MessageParser             what the factory writes against what the parser reads
      MCMessageParser         bodies for TLC

`BoxReassembly` and `ServerPipeline` instantiate the abstract specification they
implement (`Promise`, properties `Delivery` and `Service`). Otherwise the modules
meet at a boundary where one leaves a few variables of the other: `SessionLogin`
sees of the UDP layers how many copies of a request are under way, and of the
clock that a daemon starts some time after it was filed; `ServiceMemory` sees of
`SessionLogin` the connections that are opened; `TcpConnection` is one such
connection, of which the other two take every message as one step.

Definitions marked *Fault* in a comment are faulty variants of the definition
that follows them. Nothing refers to them: they document, for each property,
a mistake it would reveal, and put in place of the definition they make the
property fail.

### FragmentSender

`alls`, `aidx`, `bidx`, `tmp_idx` are the locals of the function; `SendBox` is
one iteration of the loop, `SendWhole` the else branch, `Begin` and `Return` the
call and the return to `ProcessSendPackets`. A payload is the byte range it
covers; `idx` and `cnt` are cut to 16 bits as in `net_box`. Sizes are below 2^24
(`SizesAssumption`): above, the 16-bit count wraps. What a message announces and
what is sent are two computations, a division and a loop: `Tiling` and `Covering`
say how far they fit, `AsAnnounced` what they should come to and do not.

### BoxReassembly and MessageDelivery

`boxls` is the set of keys of the table, `slots[m]` the non-null entries of the
listener's array, `nbn[m]` and `clicks[m]` its fields. `serverDeamon` is split
where the code has its window: `Receive` (receive, find, under `mutex`) and
`Store`, `StoreFreed` or `Insert` (under `mutex_box`). `StoreFreed` is the case
that the listener found has been deleted: undefined behaviour, modelled as
losing the box or the process (`up`). `BoxProcessor` is a whole pass of the box
daemon, its hand-over, ageing and erasing; gluing a listener with a null slot
kills the process. `Send`, `Duplicate`, `Lose` and the multiset `net` are the
peer and the network. `carried` and `delivered` are history variables, and
exactly the variables of `MessageDelivery`, whose actions say: a message is
handed over only whole, and each hand-over uses up one copy of every box.
`LifeIsEarned` bounds the life of a listener by the boxes it holds, so that boxes
repeated for ever keep none alive, whatever the bounds on the network.

### ServerPipeline and OrderedService

`queue[1..4]` are the four lists, a null entry being `Null`; `owner[k]` holds
mutex k during a walk; `pos` and `prm` are the iterator and the rest of the
batch. `RawDataItem`, `PacketItem`, `RequestItem` and `SendItem` are the bodies
of the loops, the nested lock-push-unlock included (nothing can happen between
its parts that waits for another mutex). The null entries are removed by
`Finish`, except in `ProcessRawData`, which unlocks first (`RawUnlock`,
`RawSweep`); that stage has several threads. `BoxPush` and `BoxLink` are the
two ends of the push_back that `boxProcessorDeamon` makes under the wrong mutex;
its outcomes are those of a doubly linked list whose tail pointer was read
early: both nodes stay; either cuts the other off, the tail pointer leading to the
one that is listed or to the one that is not; or the node hangs off a removed one.
While the tail pointer leads out of the list (`broken`), what arrives is lost, until
the last node of the list is removed. `spoilt` records what is lost this way.
`rids`, `rows` and `status` are the map of r_ids and two facts about
`register_info`. `WaitDaemon` lets a connection daemon flip the status column.

`OrderedService` knows no lists: a request comes in (`Come`, which may cost
requests that wait their place) or is lost on entry (`Miss`), and the i-th to come
is answered (`Answer`), if no earlier one that is owed an answer is passed over but
the lost ones, and no later one has been answered. `Service` maps `arrived`,
`sent` and `spoilt` to its variables: all walks, hand-overs from list to list and
sweeps are stuttering steps, `SendItem` is an answer, and only a `BoxLink` that
races costs a request its place. A registration that is retried, a foreign
datagram and a key exchange come in like any other; owed an answer are the public
and the private requests.

### ClientRequests

`main` is the program counter of `client()`: `Transmit` (send), `PushBack` and
`Link` (the two ends of push_back), `Arm` (`if_wait = 1`), `Wake`. Each instance
of the daemon `ProcessRequestListener` runs through `Start`,
`Match`/`Matched`/`Unmatched` under `mutex_clt`, `Unlock`, then
`Skip`/`Age`/`Expire`/`Expired` for each listener, and `Sweep`. A listener that
ages takes three steps, since no mutex is held: `Age` reads `clicks`, `Count`
writes it back one higher, `Retry` reads it again and sends if it is even; each
of the last two works with what the instance has in hand (`mine`) or with what the
memory says by then, as the compiler likes. Callbacks are what they do to
`if_wait`. Undefined behaviour: a push_back whose tail node was
removed loses the listener (`lost`); an iterator on a removed node or a deleted
listener may end the process (`Stray`, `up`); a deleted listener may survive
`remove_if`. Three more history variables name the circumstances in which the code
does not keep its word: `early` (a request called back before `if_wait` was set
for it), `overlapped` (two instances have been under way together) and `raced`
(listeners two instances have counted, sent or given up at the same time).

### SessionLogin

One client program and the server, at the level of whole requests: the UDP
layers between them are the modules above, of which `copies` (transmissions of
a request still under way) and `answered` are what remains. `Ask` is `client()`
up to the request (a login if its database holds an account, `known`, otherwise
a registration), `Serve` the fork and the listening socket. From then on there are
two processes, which end apart: `Leave` is the end of the first one (no answer,
"quit", a crash), which leaves the service and its connections alone, and
`ServiceEnds` that of the second ("stop", a broken pipe, a crash), which closes
them. A start of the client while a shell or a service still runs does not get its
ports and ends, so `Ask` needs both gone. `TakeAccount` is what `connectionDeamon`
does with the account the server sends it: it decrypts it with the key its own
registration has drawn (`stored`; `key[a]` is what the server holds); an account
of an earlier registration does not decrypt, and the exception that says so ends
the service (`WrongKey`). `Register`, `RegisteredBefore`, `Login`, `LoginOnLine` and
`LoginInvalid` are the branches of `ProcessRequset`, a step each, since a daemon
they start runs 64 ticks later. `pc[d]` is the place of a daemon in
`clientWaitDeamon`, `listener[d]` and `checker[d]` those of its two threads;
`link` and `peer` say which start of the client a socket leads to, as another
one may be listening on the port by now. `rows` and `status` are the server's
table and survive `Dies`; `rids`, daemons and threads do not. A `client_id` is a
model value; those from 2^63 on form the set `Wide`, and `Found` is the look-up
that misses them. `click` of a login's `client_register` is zero: it is
value-initialised and nobody sets it. `spent` is a history variable: accounts
whose daemon has left its loop because the clicks ran out.

Undefined behaviour and uncaught exceptions end the process or do nothing
visible, by choice: `resFromClient` on an answer that never came
(`NotRecognised`), the report on a deleted `client_register` (`BeatOfDeleted`),
the socket that throws in `clientChecker` (`CheckerConnects`; always the end).

### ServiceMemory

`tag` is the first four bytes of the block, `body` what follows them. `shell` is
the place of the shell in its command loop, `child` that of the service's main
thread, `conn[c]` that of the thread of each connection; `info` and `pid` are
`connection_info`. A message is built behind the tag WAIT and handed over by
SDAT (`Ping`, `PingTag`); an answer is tagged before it is copied (`AnswerTag`,
`AnswerCopy`); a taken message is sent in one step and its tag cleared in the
next (`Take`, `Clear`), whatever the tag says by then. A send to a server that
has gone is `BrokenPipe`: SIGPIPE, which only the server ignores
(`src/controller.cpp:306`), ends the service wherever its threads are. The block
is never removed, so `Init` has any tag in it, the last client's. "quit" ends the
shell and nothing else. `spoilt` records the circumstances: a tag overwritten that
somebody waited for, a status read or a message taken while it was written
("torn"), a message of the last client found in the block ("stale"), a command
typed to a service that has gone, a broken pipe, `pthread_cancel` of a thread whose
identity was not stored yet. `since` is every
value `connection_info` has had since the status was asked for.

### ClockDaemon

`handler` and `it` are the place and the iterator of `threadsClock`: `Reap`,
`Reaped` (its first part), `Prune`, `Count`/`Fire`/`FireFails`, `Return`. `host`
is the thread the signal has interrupted, if that one has reported its end: the
handler does not wait for it. `clocks` and `finished` are lists with a tail
pointer each, and a push_back (`newClock`, `clockThreadFinish`) is two steps:
reading the tail and hooking the node on it (`Hooked`), in which what was hooked
there meanwhile is cut off. All clocks are filed like that while the handler runs
already: those of the daemons by the main thread, one after the other (`InTurn`),
since the timer is set before them, and the others by threads. `raced` says which list has seen two changes at
once. The walk of one tick is taken to be over when the next signal comes, 50 ms
later; the modules of the daemons need no such assumption of *their* instances.

### TcpSocket and TcpConnection

`down` and `up` are the streams of one connection, sequences of the four-byte
marks (`NETC`, `CTEN`, `DGET`, ...; the tag of a message stands for its data
too). One recv returns any non-empty prefix of a stream, but does not cut a
mark. `Step` is a round of `RecvRAW_SM` on the locals in `call`: a block that
begins with NETC is kept whole and ends the call, whatever else has come with
it, and a block before any mark is counted but not stored, so that `bdtas` can
exceed what `*p_rdt` holds (`Unreadable`). `Store` is a round of `RecvRAW`. The
server's thread is `clientWaitDeamon` (`Hello`, `Reply`, `NoReply`),
`clientChecker` (`Beat`) or `clientListener` (`Listen`), by the kind of the
connection; the client's is `connectionDeamon`. `torn`, `merged` and `expired`
say what the network has done to the recvs so far, and `reset` that the server has
closed a socket with a DGET unread (`Reset`): TCP may then drop what is on its way,
the account included.

### ProjectUpdate

The files are `ver` and `desc` (sources and descriptions, which the user edits
at any time) and `built` (the libraries); the tables are `src`, `libs`, `funcs`,
`rows`, `cptrow`, `projrow`, and `tables` says how many of them exist. A command
is a sequence of phases (`Following`); each but the last ones is a loop over
`todo`, one row a step, since each row is a transaction of its own. `Crash` may
come between any two steps, a compile error or a missing row ends the run with
`Fail`. The comparison of the argument rows (`ArgsChanged`, `ArgsMissing`)
follows the code's two loops, of which the second goes on where the first
stopped. `slipped` is the set of sources edited between their compilation and
the MD5 taken of them. `CheckFuncInfo` may find a function undefined in any run
(`FunctionUnresolved`): what a library defines is not modelled.

### MessageParser

`buffer` and `temp_buffer` are the parser's, `head_state` to `tail_state` its
four state machines, one byte a step. A byte is a character and the number it
adds to the check sum; the text of a head, an option and a number stand as one
byte each. `Encode` is what `MessageFactory` writes, `DecodedHead`,
`DecodedOptions` and `DecodedSize` what it makes of the parts the parser hands
it.

## 3. What TLC checks

| Run | Question | Bounds | Result |
|---|---|---|---|
| `transports` | are messages cut right? is what is accepted from a TCP stream a message, is memory read only that was stored, does the first message arrive? | every size 256..1100, some below, 2^16-1 and 2^16; the 3 kinds of connections, 7 marks per stream, calls that count up to 9 | holds |
| `fragments_announced` | does a message go out in as many boxes as it announces (`src/include/server.h:193`)? | the same sizes | **violated** at 512 bytes |
| `reassembly` | is the table consistent, does it deliver what it should, does it implement `MessageDelivery`? | messages of 3 boxes (sent in full) and of 2 (sent in 1), 2 transmissions each, 1 duplicate, lives 2 and +1 | holds |
| `pipeline` | once, in order, one account, no iterator on a removed node, does it implement `OrderedService`? | registration and retry in boxes, one public request, batches of 1, 2 instances of `ProcessRawData` | holds |
| `pipeline_served` | is every registration answered? | registration, login, foreign datagram, batches of 1, 1 instance | holds |
| `client_requests` | one callback, bounded retries, never on without an answer, does every wait end? | two requests, timeouts 1 and 2, 1 and 2 answers, 2 instances | holds |
| `session` | do accounts stay registered under their client's key, is the status column true, do daemons end? | 2 accounts (one `Wide`), 2 daemons, 2 tries, 1 click, the client started twice, the server twice, a first request that arrives twice | holds |
| `session_status` | is a lost connection recorded (`src/server.cpp:1409`)? | 1 account, 1 daemon, 2 clicks, no restart of the server | **violated** after a login |
| `service` | is what was typed sent, is the status shown true, does the shell go on? | 2 connections, 3 commands, 2 registrations, any tag left in the block | holds |
| `clock` | is every thread joined known, is nothing lost, does a one-shot clock fire once? | 1 periodic clock and 2 others (one for a tick later), each filed at any time, 2 thread identities, pruning every other tick | holds |
| `project` | do database and files agree after errors, kills and edits? | 2 sources, 2 functions, 3 descriptions, 2 versions (one does not compile), 2 edits, 2 kills | holds |
| `message_parsed` | is a message that was written read (`src/test/test_commu_modules/test_message.cpp:63`)? | 2 bodies, 2 messages | **violated** at the first |

Every `MC*.cfg` belongs to one of them; `service` needs no MC module, its constants
being plain sets and numbers. `transports` runs two components one after the other,
as a client that registers meets them: `MCTransport` lets the connection begin when
no datagram is being cut, and cuts none once it has begun. They share no variable,
and each property is about one of them.

Why the bounds are enough. The loop of the sender has three kinds of iteration
(not the last, last with a remainder, last at a multiple); the sizes run through
each several times. A listener meets every kind of box with two messages, two
transmissions and a duplicate: first, further, repeated, after completion, after
expiry, and for a listener just deleted. A batch of one makes every walk stop
early; two instances are what the second critical section of `ProcessRawData`
needs to be met by another walk. Two requests let the first one's leftovers
meet the second; a timeout of 1 gives up before any retry, one of 2 has a retry at
the parity the code asks for, and clicks on either side of it for two instances to
meet at. A session needs two starts of the client (the first can only register, the second log in)
and two daemons for one account to have two; the second copy of the first
request makes a registration come again after a restart that has forgotten
`rids`; one click is enough for a daemon to go round its loop and to run out.
Two connections are one that receives and one that sends, or two of the same
kind; three commands let a ping follow a status and a stop both. Two thread
identities are what a thread needs to meet another one in `push_back`, and to be
used again by a clock that fires while the first has not been joined; pruning
every other tick makes a used entry be passed over once and removed once. Seven marks are two messages and an acknowledgement in a stream, so every message
can be cut, or glued to the next one, at each of its marks, and a sender meets a
full buffer; a call that counts to nine has stored the parts of three messages. The
descriptions of the project gain a function, gain and lose arguments, and have
a function without output; two edits and two kills let a run be killed, the
description change, and the next run be killed in turn.

`StatusTrueUntilLogin` is about the first run of the server and about accounts
nobody has logged in to: after a restart the column keeps what the crash left in
it, and after a login it is not true (`session_status`).

`CHECK_DEADLOCK FALSE` stands where the process may die of freed memory
(`reassembly`, `client_requests`), in the session runs and in `service`, where
the programs are started or typed to a bounded number of times: everything then
stops; in `message_parsed`, where the stream ends; and in `transports`, where a
thread may end and leave its socket open.

The properties that name a history variable (`CallbackOnce`, `RetriesBounded`,
`WaitEnds`, `PingsSentAsAsked`, `StatusTrue`, `ShellGoesOn`, `NothingLost`, `OneShotFires`,
`RecordedIsBuilt`, `ReadableUnlessCut`, `MessagesArrive`) say under which circumstances, and only these, the code may
break its word. The circumstances are reachable in the runs: each is a race the
code has, listed as a hazard.

### Findings

* `fragments_announced`. `SentRawdata` announces `msg_size/256` boxes, but its last
  iteration takes up to 512 bytes, because `alls > 256` is strict: a message of
  512, 768, ... bytes goes out in one box less than announced (how many exactly is
  proved as `CountOfBoxes`). The receiver waits for the announced number
  ("应该接收的分包数量", `src/include/server.h:193`) and drops the message when its
  life is over. Resending does not help: the same boxes come again.
* `session_status`. The `client_register` of a login has `click` zero, so
  `clientWaitDeamon` leaves its loop before the first round. When the connection
  is lost later, nobody sets the status back: the next login to the account is
  answered "ok", but no connection daemon is started for it, and the client
  waits for its shell for ever.
* `message_parsed`. The factory sums the check over everything written before
  it, the head included; the parser clears its buffer after the head, so the
  options are checked against a sum without it. They never agree, and every
  message is thrown away.

### Seen while modelling

Contradicting no document:

* Client requests: `if_wait = 1` comes after `NewRequestListener`; if the daemon
  handles the answer in between, the main thread spins for ever (`early`). With
  two overlapping instances of the daemon a listener can be called back with an
  answer and with a timeout (`CallbackOnce` excepts them); two that count at one
  listener at once can both find the count even and both resend
  (`RetriesBounded` excepts that listener).
* Pipeline: `rawdata_in` can lose everything that arrives after a raced
  push_back, until a later pass happens to remove its last node.
* Sessions: a `client_id` from 2^63 on is stored signed and looked up unsigned:
  the client that was given one registers once, and all its logins go
  unanswered. A login handled before the connection daemon has written the
  status starts a second one; a client that comes and goes between the
  connections of the two threads ends the whole server (the exception in
  `clientChecker`); a registration whose client leaves before it has the account
  stays in the table for ever; its daemon can reach the next start of the client,
  which dies of an account it cannot decrypt. After "quit" the service goes on
  holding the port and the connections, and a new client cannot start beside it.
* Service: any tag can be overwritten by a connection that clears the one it has
  taken, so that a status or a stop is never answered; a stop between a flag and
  the identity behind it cancels thread 0 and crashes; a status can be printed
  before it is copied. A ping sent to a server that has gone kills the service
  without a word, and the next status is never answered. A D_OK
  left in the block lets the shell start before its service is ready, an SDAT makes
  a connection send what the last client had typed.
* Clock: two push_backs, or one and the handler, can lose a report (its thread
  is never joined) or a clock (its daemon never starts).
* Connections: a beat that arrives together with the LCNT message before it is
  dropped with it, the next one is noticed; a message cut in two is never put
  together, and can make `CheckRawMsg` read behind the block. Each beat is
  answered by a DGET nobody reads: after days both streams are full, the client
  blocks in the send of the next DGET, and the server in that of its next beat.
* Project: a run interrupted between the row of a source and that of its library
  makes every later update fail on a function of that source that has no row yet;
  so does a function added to a source that has not changed, which is not in
  `lib_index`.
  A kill between the deletion and the insertion of the row in `projfile` makes
  the project unusable for update. An argument added behind all stored ones
  makes the comparison read a row that is not there; one dropped from the end is
  not noticed. A source
  edited between its compilation and its MD5 is never compiled again.
* Messages: the exception of `message.cpp:27` is thrown as a pointer and caught
  as an object; anything in front of a head spoils it.

### Fairness

The timer starts every daemon again and again; a thread that is not waiting goes
on (weak fairness); a thread that waits for a mutex others take and release
again and again gets it eventually (strong fairness on the steps that need one,
which is what the runs with liveness assume of pthread mutexes). The network
and the peers owe nothing. In `SessionLogin` every connection daemon and both of
its threads go on, since nothing there waits but for a time limit or a join; a
listener in `RecvRAW` is only owed a return when the service is gone (its sockets
are closed then), and neither shell, service nor whoever restarts the server owes
anything. In `ServiceMemory` both processes and their threads run on, while the
user and the server owe nothing; in `ClockDaemon` the timer ticks, the handler
runs, and threads go on until they have reported and ended, while nobody has to
file a clock; in `ClientRequests` the main thread and the daemons run, and
`Start` gets `mutex_clt` in the end (strong fairness). In `TcpConnection` both threads go on and
`clientChecker` sends beats as long as there is room, while TCP may cut and glue
for ever and nobody has to type a message. `FragmentSender`, `ProjectUpdate` and
`MessageParser` promise nothing that needs fairness.

## 4. What is proved

TLAPS proves, for every value of the constants that satisfies the named
assumptions:

* `TransportProofs`, of `FragmentSender` (assumption `SizesAssumption`). The
  inductive invariant `LoopInv` relates the locals (`alls` is what remains, `aidx = bidx + 1`,
  `tmp_idx` boxes are on the wire) and describes each box on the wire. From it:
  `TypeCorrect`, `BoxesTile`, `MessageCovered`, and `CountOfBoxes`: as many boxes as
  announced, but one less from 512 bytes on when the size is a multiple of 256.
* `TransportProofs`, of `TcpConnection` (assumption `ConnectionAssumption`), for
  buffers of any size. `ConnInvariant`: both streams are whole messages end to end
  (`Streams`), which a cut of a recv (`Cut`) and a send (`SentWhole`) leave true. A
  call of `RecvRAW_SM` has nothing (`Blank`) until it has a block that begins with
  a head, is what one recv returned, and counts more than it holds only if some
  recv cut a message (`Block`). Nobody closes the connection on a client that still
  waits for its first message (`Waits`), since only a DGET makes the server close
  it. `RecvRAW` has no such limits; what it accepts is right because the unread
  part of a short connection is the end of all the server said (`Account`), in
  which a block from a head to a tail with ECYP second is the account and nothing
  else (`AccountAlone`). From it: `AcceptsWholeMessages`, `ReadsWhatIsThere`.
* `BoxReassemblyProofs` (assumption `BoxAssumption`). The invariant `Inv` joins
  `TypeOK`, the count of the slots, their numbering, `NoDeadListener`,
  `BoxUsedOnce` and `OnlyWholeDelivered`. It is needed as a whole: that a
  complete listener is full comes from the count of distinct slots within the
  announced number; that a hand-over is paid for with fresh copies comes from
  `BoxUsedOnce`. From it: `TypeCorrect`, `CountIsRight`, `NoBoxTwice`,
  `OnlyWhole`, `LifeBounded` (only a box that raises the count prolongs a life), the
  action properties `NothingThrownAway` and `OnlyStalePointersKill`, and `Implementation`: the listener table implements
  `MessageDelivery`.

* `SessionLoginProofs` (assumption `SessionAssumption`). The invariant `Inv`
  adds to the two safety properties `Future` (a start of the client that is
  still to come asks for nothing), `Asking` (a client that asks has no service yet,
  so that the account it asks for is not replaced meanwhile) and `OneDaemon`: two daemons of one account
  exist only if somebody has logged in to it. That is why the status stays true
  until then: what the account's daemon writes is never contradicted by another
  one that fails. Lemma `OwnStep` carries this argument for every step of a
  daemon, `NewStep` for the requests that start one. From it: `TypeCorrect`,
  `LoginRegistered`, `StatusTrue`.

* `ClientRequestsProofs` (assumption `RequestAssumption`), for any number of
  instances of the daemon. The invariant `Inv` joins `Mutex` (the instance that
  matches has the answer at hand), `Untouched` (nothing has happened to a request
  not made yet), `Marked` (an answered listener is active only until it is
  marked) and `WaitRight` (`if_wait = 0` means the request waited for is
  answered): a callback that writes 0 belongs to an active listener, which is
  neither an earlier, answered request nor a later one. `Rounds` is about the
  listeners no two instances have met at: an instance that counts or sends is alone
  at its listener (`Apart`), which is not deleted under it (`Alive`), what it has in
  hand is what the memory holds, and each retry has been paid for with two clicks
  (`Paid`). `Single` and `Once` carry `CallbackOnce`. From it:
  `ProceedsRight`, `RetriesLimited`, `CalledOnce`.
* `ServiceMemoryProofs` (assumption `ServiceAssumption`). `TagTells` says where
  the shell is when the block holds a question or an answer, `Asked` that what
  `connection_info` is while the shell waits counts as asked for, `Whole` what the
  body holds for each tag and place as long as nothing was read or written too
  early, and `Counted` that the pings a connection has sent, has in hand, finds
  tagged, or will find when the shell has built one, are no more than were typed,
  unless it has come upon a message of the last client (`Stale`).
  From it: `TypeCorrect`, `PingsAsAsked`, `StatusIsTrue`.
* `ClockDaemonProofs` (assumption `ClockAssumption`), for any number of threads.
  `HookedKeeps` and `HookedOnTail` say what a push_back leaves of
  a list: the nodes before the tail it read, in their places, and the new one;
  if that tail is still the last node, the whole list. `WithoutRest` says the
  same of remove_if. The invariant `Inv` follows the handler: what stands behind
  its iterator is in the map (`Ahead`), a thread that has not reported is in no
  list yet (`Fresh`), and between two reapings all that have reported are known
  (`Known`). `Filed` holds whatever the races: what stands in `clocks_list` has
  been filed, and nothing twice. `Lasting` and `Waiting` are about lists no push_back has raced on: the tail
  pointer leads to the end, at most one push_back is open and it has read that
  end, and while the handler joins, those still in the map stand at its iterator
  or behind. From `Inv`: `JoinsKnown`; from all of them: `NoneLost`.
  `UsedUp` (a clock that has started its thread has a NULL entry) gives `FiredOnce`.
* `ServerPipelineProofs` (assumption `PipelineAssumption`), for any datagrams, any
  batch limit and any number of threads. `OneRow` rests on an invariant of its
  own: a row stands for an r_id among `rids`. The rest rests on `Inv`, which adds
  to `TypeOK`: the item of the unlocked push_back has not arrived yet (`Linked`);
  nothing arrives twice (`ArrivedOnce`); what the four lists and `sent` hold has
  arrived, each thing stands in one place, later ones never ahead of earlier ones,
  and what can be answered and is not `spoilt` is all there (`Lined`); a walk holds
  its mutex and has left only null entries behind (`Placed`). `HandledOnce` speaks
  of one sequence drawn from all the lists and is not inductive: it follows from
  `Lined` (`InOrderDrawn`), which names positions only. Each change of a list is a
  lemma about any lists: an item is dropped (`Dropping`), moved on (`Moving`) or
  arrives (`Arriving`), and entries are removed (`Removing`); the last one needs
  what remove_if keeps, in which order (`WithoutKeeps`, from two facts about
  ranks in a finite set, `RanksIncrease` and `RanksFill`). The proof of the order
  uses that an item enters the next list before the mutex of its own is
  released, and that a walk goes from the head. From it: `TypeCorrect`,
  `NothingTwiceOrLost`, `ServedInOrder`, the action property `WalkUndisturbed`, and
  `ServiceImplemented`: the pipeline implements `OrderedService`. For that `Lined`
  also says that what is lost stands on no list, so that a lost request is never
  answered, and `Linked` that the item of the open push_back is not among the lost.
  The step that counts is `SendItem` (`SendServes`): what it answers stands at the
  head of what is left of the last list, what came earlier is then in `sent` or
  lost, and what came later is not in `sent`, because `sent` goes before the list
  in the order of arrival (`CameBefore`).
* `ProjectUpdateProofs` (assumption `ProjectAssumption`). `ModeFits` ties each
  phase to its command and `Written` each loop to the described functions;
  `SourceInv` relates libraries, MD5s and recorded versions at each phase,
  `FunctionInv` functions and their tables; `FreshInv`, `FiledInv` and `ArgsInv`
  say what the phases behind have left: sources recorded as they are (if nothing
  was edited), every described function filed, its rows in agreement. The hard part is the comparison:
  lemma `UnchangedAgrees` shows that two loops that find no difference, the
  second starting where the first stopped, mean that the stored rows begin with
  the wanted ones. From it: `TypeCorrect`, `BuiltBeforeRecorded`,
  `FilesOfFunctions`, `CompletedIsRight`.

Only model-checked:

* all liveness properties (`ListenersLeave`, `Answered`, `WaitEnds`,
  `DaemonsEnd`, `ShellGoesOn`, `OneShotFires` but for its safety half,
  `MessagesArrive`): liveness under fairness is beyond the prover;
* the three violated properties: they are false.

## 5. Plan

Everything in the list below is done, in this order: `FragmentSender`,
`BoxReassembly`, `ServerPipeline`, `ClientRequests`, `SessionLogin`,
`ServiceMemory`, `ClockDaemon`, `ProjectUpdate`, `MessageParser`,
`TcpConnection`, and the proofs
of each as far as section 4 says. What would come next, by use:

1. `client_lst` in `ServerPipeline`: the map that `ProcessRequset` changes
   without a mutex, as soon as some client sends an encrypted post.
2. The second run of the server (what the status column can say after a
   restart), as an abstract specification of `SessionLogin`.
3. The chunks of `SendRAW`, once a message of the program reaches 1024 bytes.

## 6. Not modelled

The contents of messages (JSON, keys, addresses): a datagram is known by its
class, its r_id and the account it names. Encryption is taken to be inverted by
decryption. Beyond that:

* Vendored code (`rapidjson`, `sqlite3.h`, SQLiteCpp's headers), which is most
  of the lines under `src/`; the modules take a row to be written or not.
* `CThread` and the block memory: no object of the class is created anywhere in
  the repository, so there is no behaviour to be faithful to.
* `TCPServer`, `TCPClient`, `TCPSession`: only a test program uses them, one
  connection at a time.
* The chunk protocol of `socket.cpp`: no message the program sends over TCP
  reaches the 1024 bytes from which it cuts.
* `CPart` loads a shared object and calls foreign code; what it does is up to
  that code. Reading the description files (`Cpt`, `deal_content`) is taken as
  done, and what a library defines as a free choice.
* Command line, SQL set-up, addresses, printing: straight-line code. The shell's
  command `info` only reads the client's own database.
* Encrypted posts sent by UDP (the other branch of `ProcessPacket`): nothing in the
  repository sends one. The only caller of `Post2SignedRawData` writes to a TCP
  connection (`src/server.cpp:1363`).
* Messages no sender of the repository writes: a message without an option size
  (the pointer thrown at `message.cpp:27`), a head in which a number is none
  (`std::stoi` throws past the parser), a request answered with an error.
* Cryptography: numeric algorithms and library wrappers without state that
  outlives a call.
* Races outside any module: `ProcessPacket` looks clients up in `client_lst`
  while `ProcessRequset` changes it; `nsvr` in `controller.cpp` is destroyed
  while the daemons use it, `pncl` is freed just before the service exits while
  its threads may still look at it; the handler of the clock allocates memory in
  whatever thread it interrupts. Each is a hazard in `PROJECT.json` with the
  reason why no property covers it.
