---------------------------- MODULE ServiceMemory ----------------------------
(***************************************************************************)
(* The two processes a client becomes once it is registered or logged in   *)
(* (controller.cpp, from the fork on): a shell that reads commands, and a  *)
(* service process with a thread that accepts the server's connections     *)
(* (clientServiceDeamon) and a thread for each of them (connectionDeamon). *)
(* They talk through a block of shared memory, whose first four bytes say  *)
(* what it holds, and nothing but these four bytes keeps them apart.       *)
(***************************************************************************)
EXTENDS Naturals

CONSTANTS
  Conns,    \* the connections the server opens
  MaxCmds,  \* bound: commands typed
  MaxJres,  \* bound: registrations (JRES) the server sends
  None

ASSUME ServiceAssumption == MaxCmds \in Nat /\ MaxJres \in Nat /\ None \notin Conns

VARIABLES
  tag,      \* the first four bytes ("" when they are zero)
  body,     \* what follows them
  shell,    \* where the shell is
  cmds, pings, \* commands typed, and the pings among them
  shown,    \* the status the shell has read last
  child,    \* where the main thread of the service is
  accepts,  \* clientServiceDeamon runs
  active,   \* pncl->if_active
  kill,     \* the threads pthread_cancel was called for
  conn,     \* where each connection's thread is
  info,     \* the flags set in connection_info
  pid,      \* beat_pid and listen_pid
  jres,     \* registrations received
  out,      \* messages each sending connection has sent to the server
  since,    \* history: what connection_info has been since "status" was typed
  spoilt    \* history: what the races have done

shellvars == <<shell, cmds, pings, shown>>
ctlvars == <<child, accepts, active, kill>>
connvars == <<conn, info, pid>>
vars == <<tag, body, shellvars, ctlvars, connvars, jres, out, since, spoilt>>

Flags == {"beat", "listen"}
Content(is, flags) == [is |-> is, flags |-> flags]

\* The tags somebody waits for.
Awaited == {"D_OK", "CIFO", "RCFO", "Exit", "SEXT"}
Tags == Awaited \union {"", "WAIT", "SDAT"}

\* The block is never removed: it holds what the last client has left in it.
Init ==
  /\ tag \in Tags /\ body = Content("old", {})
  /\ shell = "waitok" /\ cmds = 0 /\ pings = 0 /\ shown = body
  /\ child = "boot" /\ accepts = TRUE /\ active = TRUE /\ kill = {}
  /\ conn = [c \in Conns |-> "none"]
  /\ info = {} /\ pid = [f \in Flags |-> None]
  /\ jres = 0
  /\ out = [c \in Conns |-> [ping |-> 0, other |-> 0]]
  /\ since = {} /\ spoilt = {}

\* The shell waits for the service (for D_OK, once it could be there).
Waits == shell \in {"status", "stop"} \/ (shell = "waitok" /\ jres > 0)

\* The first four bytes are written, whatever they said.
Overwrite(waited, t) ==
  /\ tag' = t
  /\ spoilt' = IF tag \in waited /\ Waits THEN spoilt \union {"overwritten"} ELSE spoilt

-----------------------------------------------------------------------------
(* The shell.                                                              *)

Ready ==
  /\ shell = "waitok" /\ tag = "D_OK"
  /\ shell' = "prompt" /\ tag' = ""
  /\ UNCHANGED <<body, cmds, pings, shown, ctlvars, connvars, jres, out, since, spoilt>>

\* A command that waits for an answer starts afresh; nobody answers when the
\* service has gone.
Command(next) ==
  /\ shell = "prompt" /\ cmds < MaxCmds
  /\ cmds' = cmds + 1
  /\ shell' = next
  /\ spoilt' = (spoilt \ {"overwritten"})
                 \union (IF child \in {"sext", "gone"} THEN {"gone"} ELSE {})

Status ==
  /\ Command("status")
  /\ tag' = "CIFO"
  /\ since' = {info}
  /\ UNCHANGED <<body, pings, shown, ctlvars, connvars, jres, out>>

\* The tag says RCFO: connection_info is copied, even if it is not there yet.
StatusRead ==
  /\ shell = "status" /\ tag = "RCFO"
  /\ shell' = "clear"
  /\ shown' = body
  /\ spoilt' = IF child = "copy" THEN spoilt \union {"torn"} ELSE spoilt
  /\ UNCHANGED <<tag, body, cmds, pings, ctlvars, connvars, jres, out, since>>

StatusClear ==
  /\ shell = "clear"
  /\ shell' = "prompt" /\ tag' = ""
  /\ UNCHANGED <<body, cmds, pings, shown, ctlvars, connvars, jres, out, since, spoilt>>

Stop ==
  /\ Command("stop")
  /\ tag' = "Exit"
  /\ UNCHANGED <<body, pings, shown, ctlvars, connvars, jres, out, since>>

Stopped ==
  /\ shell = "stop" /\ tag = "SEXT"
  /\ shell' = "prompt"
  /\ UNCHANGED <<tag, body, cmds, pings, shown, ctlvars, connvars, jres, out, since, spoilt>>

\* The message is built behind the tag WAIT ...
Ping ==
  /\ tag # "WAIT"
  /\ Command("ping")
  /\ tag' = "WAIT"
  /\ body' = Content("ping", {})
  /\ pings' = pings + 1
  /\ UNCHANGED <<shown, ctlvars, connvars, jres, out, since>>

\* Fault: the tag the shell itself waits for.
PingTagWrong ==
  /\ shell = "ping"
  /\ shell' = "prompt" /\ tag' = "TADS"
  /\ UNCHANGED <<body, cmds, pings, shown, ctlvars, connvars, jres, out, since, spoilt>>

\* ... and then handed over.
PingTag ==
  /\ shell = "ping"
  /\ shell' = "prompt" /\ tag' = "SDAT"
  /\ UNCHANGED <<body, cmds, pings, shown, ctlvars, connvars, jres, out, since, spoilt>>

Quit ==
  /\ shell = "prompt"
  /\ shell' = "ended"
  /\ UNCHANGED <<tag, body, cmds, pings, shown, ctlvars, connvars, jres, out, since, spoilt>>

-----------------------------------------------------------------------------
(* The main thread of the service.                                         *)

\* It clears the tag after it has started the thread that accepts connections.
Boot ==
  /\ child = "boot"
  /\ child' = "loop"
  /\ Overwrite(Awaited, "")
  /\ UNCHANGED <<body, shellvars, accepts, active, kill, connvars, jres, out, since>>

SeeAsk ==
  /\ child = "loop" /\ tag = "CIFO"
  /\ child' = "tag"
  /\ UNCHANGED <<tag, body, shellvars, accepts, active, kill, connvars, jres, out, since, spoilt>>

\* The answer is announced before it is there.
AnswerTag ==
  /\ child = "tag"
  /\ child' = "copy" /\ tag' = "RCFO"
  /\ UNCHANGED <<body, shellvars, accepts, active, kill, connvars, jres, out, since, spoilt>>

\* Fault: a connection_info of its own is copied, not the one the threads set.
AnswerCopyFresh ==
  /\ child = "copy"
  /\ child' = "loop"
  /\ body' = Content("info", {})
  /\ UNCHANGED <<tag, shellvars, accepts, active, kill, connvars, jres, out, since, spoilt>>

AnswerCopy ==
  /\ child = "copy"
  /\ child' = "loop"
  /\ body' = Content("info", info)
  /\ spoilt' = IF \E c \in Conns : conn[c] = "take" THEN spoilt \union {"torn"} ELSE spoilt
  /\ UNCHANGED <<tag, shellvars, accepts, active, kill, connvars, jres, out, since>>

\* The threads are cancelled by the flags and the identities they have left, a flag
\* before its identity: pthread_cancel(0) ends the process.
SeeExit ==
  /\ child = "loop" /\ tag = "Exit"
  /\ active' = FALSE /\ accepts' = FALSE
  /\ \/ /\ \E f \in info : pid[f] = None
        /\ child' = "gone"
        /\ conn' = [c \in Conns |-> "over"]
        /\ spoilt' = spoilt \union {"crashed"}
        /\ UNCHANGED kill
     \/ /\ \A f \in info : pid[f] # None
        /\ child' = "exit"
        /\ kill' = {pid[f] : f \in info}
        /\ UNCHANGED <<conn, spoilt>>
  /\ UNCHANGED <<tag, body, shellvars, info, pid, jres, out, since>>

\* Fault: the shell is not told.
SextForgotten ==
  /\ child = "exit"
  /\ child' = "sext"
  /\ UNCHANGED <<tag, body, shellvars, accepts, active, kill, connvars, jres, out, since, spoilt>>

Sext ==
  /\ child = "exit"
  /\ child' = "sext" /\ tag' = "SEXT"
  /\ UNCHANGED <<body, shellvars, accepts, active, kill, connvars, jres, out, since, spoilt>>

Gone ==
  /\ child = "sext"
  /\ child' = "gone"
  /\ conn' = [c \in Conns |-> "over"]
  /\ UNCHANGED <<tag, body, shellvars, accepts, active, kill, info, pid, jres, out, since, spoilt>>

-----------------------------------------------------------------------------
(* The connections.                                                        *)

\* clientServiceDeamon: the server opens a connection, and a thread is made for it.
Accept(c) ==
  /\ accepts /\ conn[c] = "none"
  /\ conn' = [conn EXCEPT ![c] = "new"]
  /\ UNCHANGED <<tag, body, shellvars, ctlvars, info, pid, jres, out, since, spoilt>>

SetFlag(f) ==
  /\ info' = info \union {f}
  /\ since' = IF shell = "status" THEN since \union {info'} ELSE since

\* The first message says LCNT or SCNT: the thread will receive ...
Receiving(c) ==
  /\ conn[c] = "new"
  /\ conn' = [conn EXCEPT ![c] = "recv"]
  /\ UNCHANGED <<tag, body, shellvars, ctlvars, info, pid, jres, out, since, spoilt>>

\* ... or CNTL: it will send.
Sending(c) ==
  /\ conn[c] = "new"
  /\ conn' = [conn EXCEPT ![c] = "listen"]
  /\ SetFlag("listen")
  /\ UNCHANGED <<tag, body, shellvars, ctlvars, pid, jres, out, spoilt>>

\* The registration has come: the shell is told.
Jres(c) ==
  /\ conn[c] = "recv" /\ jres < MaxJres
  /\ jres' = jres + 1
  /\ Overwrite(Awaited \ {"D_OK"}, "D_OK")
  /\ UNCHANGED <<body, shellvars, ctlvars, connvars, out, since>>

\* The first heartbeat sets the flag ...
Beat(c) ==
  /\ conn[c] = "recv" /\ "beat" \notin info
  /\ conn' = [conn EXCEPT ![c] = "beat"]
  /\ SetFlag("beat")
  /\ UNCHANGED <<tag, body, shellvars, ctlvars, pid, jres, out, spoilt>>

\* ... and each flag is followed by the identity of its thread.
Named(c) ==
  /\ conn[c] \in Flags
  /\ pid' = [pid EXCEPT ![conn[c]] = c]
  /\ conn' = [conn EXCEPT ![c] = IF @ = "beat" THEN "recv" ELSE "send"]
  /\ UNCHANGED <<tag, body, shellvars, ctlvars, info, jres, out, since, spoilt>>

\* Before the first ping, SDAT is what the last client has left.
See(c) ==
  /\ conn[c] = "send" /\ tag = "SDAT"
  /\ conn' = [conn EXCEPT ![c] = "take"]
  /\ spoilt' = IF pings = 0 THEN spoilt \union {"stale"} ELSE spoilt
  /\ UNCHANGED <<tag, body, shellvars, ctlvars, info, pid, jres, out, since>>

\* What is in the block is sent, if its end mark is where its size says: what is no
\* message of the shell may be sent or refused.
Take(c) ==
  /\ conn[c] = "take"
  /\ conn' = [conn EXCEPT ![c] = "done"]
  /\ out' \in IF body.is = "ping" THEN {[out EXCEPT ![c].ping = @ + 1]}
                                  ELSE {out, [out EXCEPT ![c].other = @ + 1]}
  /\ UNCHANGED <<tag, body, shellvars, ctlvars, info, pid, jres, since, spoilt>>

\* Fault: the tag stays.
ClearForgotten(c) ==
  /\ conn[c] = "done"
  /\ conn' = [conn EXCEPT ![c] = "send"]
  /\ UNCHANGED <<tag, body, shellvars, ctlvars, info, pid, jres, out, since, spoilt>>

\* The tag is cleared, whatever it says by now.
Clear(c) ==
  /\ conn[c] = "done"
  /\ conn' = [conn EXCEPT ![c] = "send"]
  /\ Overwrite(Awaited \union {"WAIT"}, "")
  /\ UNCHANGED <<body, shellvars, ctlvars, info, pid, jres, out, since>>

\* A thread leaves at its next round after if_active was cleared ...
End(c) ==
  /\ conn[c] \in {"send", "recv"} /\ ~active
  /\ conn' = [conn EXCEPT ![c] = "over"]
  /\ info' = IF conn[c] = "send" THEN info \ {"listen"} ELSE info
  /\ UNCHANGED <<tag, body, shellvars, ctlvars, pid, jres, out, since, spoilt>>

\* ... or where a cancellation reaches it.
Cancelled(c) ==
  /\ c \in kill /\ conn[c] \in {"send", "recv", "take"}
  /\ conn' = [conn EXCEPT ![c] = "over"]
  /\ UNCHANGED <<tag, body, shellvars, ctlvars, info, pid, jres, out, since, spoilt>>

\* A message, or the DGET for one received, goes to a server that has gone: the
\* client takes SIGPIPE as it comes, and the whole process dies, wherever it is.
BrokenPipe(c) ==
  /\ conn[c] \in {"new", "recv", "take"} /\ child # "gone"
  /\ child' = "gone" /\ accepts' = FALSE
  /\ conn' = [d \in Conns |-> "over"]
  /\ spoilt' = spoilt \union {"pipe"} \union (IF child = "copy" THEN {"torn"} ELSE {})
  /\ UNCHANGED <<tag, body, shellvars, active, kill, info, pid, jres, out, since>>

-----------------------------------------------------------------------------
Shell == Ready \/ StatusRead \/ StatusClear \/ Stopped \/ PingTag
Main == Boot \/ SeeAsk \/ AnswerTag \/ AnswerCopy \/ SeeExit \/ Sext \/ Gone
Thread(c) == Named(c) \/ See(c) \/ Take(c) \/ Clear(c) \/ End(c) \/ Cancelled(c)

Next ==
  \/ Ready \/ Status \/ StatusRead \/ StatusClear \/ Stop \/ Stopped
  \/ Ping \/ PingTag \/ Quit
  \/ Boot \/ SeeAsk \/ AnswerTag \/ AnswerCopy \/ SeeExit \/ Sext \/ Gone
  \/ \E c \in Conns :
       \/ Accept(c) \/ Receiving(c) \/ Sending(c) \/ Jres(c) \/ Beat(c) \/ Named(c)
       \/ See(c) \/ Take(c) \/ Clear(c) \/ End(c) \/ Cancelled(c) \/ BrokenPipe(c)

Spec == Init /\ [][Next]_vars

\* Both processes and their threads keep running; the user types, and the server
\* connects and sends, when they like.
FairSpec ==
  /\ Spec
  /\ WF_vars(Shell) /\ WF_vars(Main)
  /\ \A c \in Conns : WF_vars(Thread(c))

-----------------------------------------------------------------------------
\* The shared block, the two processes and the connections keep their types.
TypeOK ==
  /\ tag \in Tags
  /\ {body, shown} \subseteq [is : {"old", "ping", "info"}, flags : SUBSET Flags]
  /\ shell \in {"waitok", "prompt", "status", "clear", "stop", "ping", "ended"}
  /\ cmds \in 0 .. MaxCmds /\ pings \in 0 .. cmds
  /\ child \in {"boot", "loop", "tag", "copy", "exit", "sext", "gone"}
  /\ accepts \in BOOLEAN /\ active \in BOOLEAN /\ kill \subseteq Conns
  /\ conn \in [Conns -> {"none", "new", "recv", "send", "take", "done", "over"} \union Flags]
  /\ info \subseteq Flags /\ pid \in [Flags -> Conns \union {None}]
  /\ jres \in 0 .. MaxJres
  /\ out \in [Conns -> [ping : Nat, other : Nat]]
  /\ since \subseteq SUBSET Flags
  /\ spoilt \subseteq {"overwritten", "stale", "torn", "gone", "crashed", "pipe"}

\* No connection sends a ping more often than it was typed, and none sends anything
\* else, unless a status answer was written under a message just being taken, or a
\* connection came upon the message of the client before.
PingsSentAsAsked ==
  "stale" \notin spoilt =>
    \A c \in Conns : out[c].ping <= pings /\ (out[c].other > 0 => "torn" \in spoilt)

\* The status the shell prints is one connection_info has had since it was asked
\* for, unless it was read before it was written.
StatusTrue ==
  (shell = "clear" /\ "torn" \notin spoilt) => shown.is = "info" /\ shown.flags \in since

\* A shell that waits for the service goes on, unless the tag it waits for, or the one
\* it has written, was overwritten, or the service had ended, crashed over a flag
\* without its identity, or died of a broken pipe.
ShellGoesOn ==
  Waits ~> (~Waits \/ spoilt \intersect {"overwritten", "gone", "crashed", "pipe"} # {})
=============================================================================
