--------------------------- MODULE OrderedService ---------------------------
(***************************************************************************)
(* What the pipeline of the square server promises to those who send it    *)
(* requests, without its lists, daemons and mutexes: requests are taken in *)
(* one after the other, and answered one after the other in that order,    *)
(* each once.  The server may refuse to answer a request, but passes over  *)
(* one it owes an answer only if it has lost it, which happens to requests *)
(* not answered yet, and only while another one comes in.                  *)
(***************************************************************************)
EXTENDS Naturals, Sequences

CONSTANTS
  Requests,
  Owed       \* those that are to be answered

VARIABLES
  came,      \* the requests taken in, in order
  answered,  \* the answers given, by request, in order
  lost       \* the requests lost, on entry or later

ovars == <<came, answered, lost>>

In(d, s) == \E i \in DOMAIN s : s[i] = d

OInit == came = <<>> /\ answered = <<>> /\ lost = {}

\* A request is taken in, which may cost some that wait.
Come(d, S) ==
  /\ ~In(d, came) /\ d \notin lost
  /\ \A e \in S : In(e, came) /\ ~In(e, answered)
  /\ came' = Append(came, d)
  /\ lost' = lost \union S
  /\ UNCHANGED answered

\* A request is lost on entry.
Miss(d) ==
  /\ ~In(d, came)
  /\ lost' = lost \union {d}
  /\ UNCHANGED <<came, answered>>

\* The i-th request is answered: nothing that came earlier and is owed an answer is
\* passed over, nothing that came later has been answered.
Answer(i) ==
  /\ ~In(came[i], answered) /\ came[i] \notin lost
  /\ \A j \in 1 .. i - 1 : came[j] \in Owed \ lost => In(came[j], answered)
  /\ \A j \in i + 1 .. Len(came) : ~In(came[j], answered)
  /\ answered' = Append(answered, came[i])
  /\ UNCHANGED <<came, lost>>

ONext ==
  \/ \E d \in Requests, S \in SUBSET Requests : Come(d, S)
  \/ \E d \in Requests : Miss(d)
  \/ \E i \in 1 .. Len(came) : Answer(i)

OSpec == OInit /\ [][ONext]_ovars
=============================================================================
