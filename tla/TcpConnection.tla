---------------------------- MODULE TcpConnection ----------------------------
(***************************************************************************)
(* One TCP connection between a thread of the server (clientWaitDeamon,    *)
(* clientChecker or clientListener, server.cpp) and the connectionDeamon   *)
(* (model.cpp) the client starts for it, over streams that keep no         *)
(* boundaries of messages.  The server's first message tells the kind:     *)
(*   SCNT  the account follows, and the connection is closed;              *)
(*   LCNT  beats follow;                                                   *)
(*   CNTL  the client is to send.                                          *)
(* SessionLogin and ServiceMemory take each of these messages as one step; *)
(* this module opens the step up.  No message the two exchange reaches the *)
(* 1024 bytes from which SendRAW cuts it into chunks.  The end of the      *)
(* client's service is left out.                                           *)
(***************************************************************************)
EXTENDS TcpSocket

CONSTANTS
  Kinds,   \* of connections, a subset of {"SCNT", "LCNT", "CNTL"}
  Room,    \* elements the socket buffers of a direction hold
  MaxCount \* bound: what bdtas counts up to within a call (a signal alone counts 3)

ASSUME ConnectionAssumption ==
  /\ Kinds \subseteq {"SCNT", "LCNT", "CNTL"}
  /\ Room \in Nat /\ MaxCount \in Nat

VARIABLES
  kind,
  down,      \* bytes on their way to the client
  up,        \* bytes on their way to the server
  server,    \* where the server's thread is
  client,    \* where connectionDeamon is
  call,      \* the locals of the client's RecvRAW or RecvRAW_SM
  returned,  \* that call has returned
  registered, if_beat, \* the client has its account, has had a beat
  pinged,    \* the server has had a message of the shell
  posts,     \* history: the shell has sent one
  taken,     \* history: what was last accepted as a message, at either end
  torn,      \* history: some recv returned a part of a message
  merged,    \* history: some recv returned more than one
  expired,   \* history: some recv timed out
  reset      \* TCP has reset the connection before all of down was delivered

sockets == <<down, up>>
reading == <<call, returned>>
outcome == <<registered, if_beat, pinged, posts, taken>>
network == <<torn, merged, expired, reset>>
connvars == <<kind, sockets, server, client, reading, outcome, network>>

ConnInit ==
  /\ kind \in Kinds
  /\ down = <<>> /\ up = <<>>
  /\ server = "hello" /\ client = "first"
  /\ call = Fresh /\ returned = FALSE
  /\ registered = FALSE /\ if_beat = FALSE /\ pinged = FALSE
  /\ posts = FALSE /\ taken = <<>>
  /\ torn = FALSE /\ merged = FALSE /\ expired = FALSE
  /\ reset = FALSE

Begins(e) == e \in {Mark("NETC"), Mark("DGET")}
Ends(e) == e \in {Mark("CTEN"), Mark("DGET")}

\* What a recv does to the boundaries of messages.
Boundaries(got) ==
  /\ torn' = (torn \/ ~Begins(got[1]) \/ ~Ends(Last(got)))
  /\ merged' = (merged \/ \E i \in 2 .. Len(got) : Begins(got[i]))
  /\ UNCHANGED <<expired, reset>>

\* A send blocks while the buffers are full.
Fits(stream, data) == Len(stream) + Len(data) <= Room
DGET == <<Mark("DGET")>>

-----------------------------------------------------------------------------
(* The server.                                                             *)

\* SendConnectionInfo.
Hello ==
  /\ server = "hello" /\ Fits(down, Signed(kind))
  /\ down' = down \o Signed(kind)
  /\ server' = CASE kind = "SCNT" -> "reply" [] kind = "LCNT" -> "beat" [] kind = "CNTL" -> "listen"
  /\ UNCHANGED <<kind, up, client, reading, outcome, network>>

\* resFromClient: one recv, which begins with DGET.  The account is sent and the
\* socket closed.
Reply ==
  /\ server = "reply" /\ Fits(down, Signed("ECYP"))
  /\ \E got \in Received(up) :
       /\ got[1] = Mark("DGET")
       /\ up' = Rest(up, got)
       /\ Boundaries(got)
  /\ down' = down \o Signed("ECYP")
  /\ server' = "closed"
  /\ UNCHANGED <<kind, client, reading, outcome>>

\* Nothing has come for three seconds: the thread ends, the socket stays open.
NoReply ==
  /\ server = "reply" /\ up = <<>>
  /\ server' = "failed" /\ expired' = TRUE
  /\ UNCHANGED <<kind, sockets, client, reading, outcome, torn, merged, reset>>

\* The socket is closed with a DGET unread, or gets one afterwards: what has not
\* arrived by then is dropped at either end.
Reset ==
  /\ server = "closed" /\ up # <<>>
  /\ down # <<>> /\ ~reset
  /\ reset' = TRUE
  /\ UNCHANGED <<kind, sockets, server, client, reading, outcome, torn, merged, expired>>

\* clientChecker, once a second.
Beat ==
  /\ server = "beat" /\ Fits(down, Signed("BEAT"))
  /\ down' = down \o Signed("BEAT")
  /\ UNCHANGED <<kind, up, server, client, reading, outcome, network>>

\* clientListener: what one recv returns is a message or it is not.
Listen ==
  /\ server = "listen"
  /\ \E got \in Received(up) :
       /\ up' = Rest(up, got)
       /\ Boundaries(got)
       /\ \/ /\ CheckRawMsg(got, Len(got))
             /\ pinged' = TRUE /\ taken' = got
          \/ /\ ~CheckRawMsg(got, Len(got))
             /\ UNCHANGED <<pinged, taken>>
  /\ UNCHANGED <<kind, down, server, client, reading, registered, if_beat, posts>>

-----------------------------------------------------------------------------
(* connectionDeamon.                                                       *)

InSM == client \in {"first", "long"}

\* A round of RecvRAW_SM; DGET is sent as soon as a message has begun.
RecvRAW_SM ==
  /\ InSM /\ ~returned /\ ~reset
  /\ \E got \in Received(down) :
       /\ down' = Rest(down, got)
       /\ call' = Step(call, got) /\ call'.bdtas <= MaxCount
       /\ \/ call'.dsat /\ Fits(up, DGET) /\ up' = up \o DGET
          \/ ~call'.dsat /\ UNCHANGED up
       /\ Boundaries(got)
  /\ returned' = call'.dfsh
  /\ UNCHANGED <<kind, server, client, outcome>>

\* A round of RecvRAW.
RecvRAW ==
  /\ client = "short" /\ ~returned /\ ~reset
  /\ \E got \in Received(down) :
       /\ down' = Rest(down, got)
       /\ call' = Store(call, got)
       /\ Boundaries(got)
  /\ UNCHANGED <<kind, up, server, client, returned, outcome>>

\* recv finds the connection closed or reset, or nothing for three seconds: both
\* calls return with what they have.
RecvEnds ==
  /\ InSM \/ client = "short"
  /\ ~returned /\ (down = <<>> \/ reset)
  /\ returned' = TRUE
  /\ expired' = (expired \/ server # "closed")
  /\ UNCHANGED <<kind, sockets, server, client, call, outcome, torn, merged, reset>>

NextCall == call' = Fresh /\ returned' = FALSE

\* CheckRawMsg looks for the tail where there is none: nothing more is said of
\* the client.
Undefined ==
  /\ returned /\ Unreadable(call)
  /\ client = "first" \/ (client = "long" /\ call.bdtas > 0)
  /\ client' = "undefined"
  /\ UNCHANGED <<kind, sockets, server, reading, outcome, network>>

\* "Connection Illegal": the thread ends and leaves the socket open.
Illegal ==
  /\ client = "first" /\ returned /\ ~Unreadable(call)
  /\ ~CheckRawMsg(call.data, call.bdtas)
  /\ client' = "gone"
  /\ NextCall
  /\ UNCHANGED <<kind, sockets, server, outcome, network>>

\* The kind of the connection; SCNT is answered once more.  (The code has a fourth
\* case, a first message of another kind, which no server sends.)
Recognise ==
  /\ client = "first" /\ returned /\ ~Unreadable(call)
  /\ CheckRawMsg(call.data, call.bdtas)
  /\ taken' = call.data
  /\ \/ /\ call.data[2] = Mark("SCNT") /\ Fits(up, DGET)
        /\ client' = "short" /\ up' = up \o DGET
     \/ call.data[2] = Mark("LCNT") /\ client' = "long" /\ UNCHANGED up
     \/ call.data[2] = Mark("CNTL") /\ client' = "send" /\ UNCHANGED up
  /\ NextCall
  /\ UNCHANGED <<kind, down, server, registered, if_beat, pinged, posts, network>>

\* The loop that follows.  A block that is no message is dropped, as is no block.
Readable == returned /\ ~Unreadable(call)

Dropped ==
  /\ returned /\ client \in {"short", "long"}
  /\ call.bdtas = 0 \/ (~Unreadable(call) /\ ~CheckRawMsg(call.data, call.bdtas))
  /\ NextCall
  /\ UNCHANGED <<kind, sockets, server, client, outcome, network>>

Registered ==
  /\ client = "short" /\ Readable
  /\ CheckRawMsg(call.data, call.bdtas) /\ call.data[2] = Mark("ECYP")
  /\ registered' = TRUE /\ taken' = call.data
  /\ NextCall
  /\ UNCHANGED <<kind, sockets, server, client, if_beat, pinged, posts, network>>

Beaten ==
  /\ client = "long" /\ Readable
  /\ CheckRawMsg(call.data, call.bdtas) /\ call.data[2] = Mark("BEAT")
  /\ if_beat' = TRUE /\ taken' = call.data
  /\ NextCall
  /\ UNCHANGED <<kind, sockets, server, client, registered, pinged, posts, network>>

\* A message of the shell is passed on.
Post ==
  /\ client = "send" /\ Fits(up, Signed("PING"))
  /\ up' = up \o Signed("PING")
  /\ posts' = TRUE
  /\ UNCHANGED <<kind, down, server, client, reading, registered, if_beat, pinged, taken, network>>

-----------------------------------------------------------------------------
Server == Hello \/ Reply \/ Listen
Client ==
  RecvRAW_SM \/ RecvRAW \/ RecvEnds \/ Undefined \/ Illegal \/ Recognise
    \/ Dropped \/ Registered \/ Beaten

ConnNext ==
  \/ Hello \/ Reply \/ NoReply \/ Reset \/ Beat \/ Listen
  \/ RecvRAW_SM \/ RecvRAW \/ RecvEnds \/ Undefined \/ Illegal \/ Recognise
  \/ Dropped \/ Registered \/ Beaten \/ Post

ConnSpec == ConnInit /\ [][ConnNext]_connvars

\* Both threads go on, and what is sent arrives.
FairSpec == ConnSpec /\ WF_connvars(Server) /\ WF_connvars(Beat) /\ WF_connvars(Client)

-----------------------------------------------------------------------------
\* What CheckRawMsg (server.cpp:334) lets through is one or more whole messages,
\* however the stream was cut and glued; an account is let through alone.
AcceptedWhole ==
  /\ taken # <<>> =>
       /\ Begins(taken[1]) /\ Ends(Last(taken))
       /\ \A i \in 2 .. Len(taken) : Begins(taken[i]) <=> Ends(taken[i - 1])
  /\ registered => taken = Signed("ECYP")

\* connectionDeamon looks for the tail of a message where there is none, or at NULL,
\* only after TCP has cut a message or the server has said nothing for three
\* seconds: messages glued together do not bring it there.
ReadableUnlessCut == client = "undefined" => torn \/ expired

\* The first message after the one that told the kind arrives: the account whatever
\* becomes of the boundaries, unless a recv times out or the DGET the server does not
\* read makes TCP reset the connection under it; a beat, and a message of the shell,
\* as long as each recv returns what one send has sent.
MessagesArrive ==
  /\ (client = "short" /\ server # "failed") ~> (registered \/ expired \/ reset)
  /\ client = "long" ~> (if_beat \/ torn \/ merged \/ client = "undefined")
  /\ posts ~> (pinged \/ torn \/ merged)
=============================================================================
