--------------------------- MODULE ClientRequests ---------------------------
(***************************************************************************)
(* How a client asks the square server for something: the main thread      *)
(* (controller.cpp, client) files a request_listener (NewRequestListener)  *)
(* and spins on the global if_wait; a clock daemon (ProcessRequestListener)*)
(* matches the answers that clientRespondDeamon has queued with the        *)
(* listeners, calls their callbacks, which write if_wait, sends unanswered *)
(* requests again, and gives up on them in the end.                        *)
(*                                                                         *)
(* The daemon holds mutex_clt while it matches answers; its second loop    *)
(* over req_lst, its remove_if, and the main thread's push_back hold       *)
(* nothing.  The clock starts an instance of the daemon whether or not the *)
(* last one has ended: Instances says how many may be under way together.  *)
(***************************************************************************)
EXTENDS Integers, SequencesExt

CONSTANTS
  Reqs,       \* the requests the main thread makes, in order
  Timeout,    \* runs of the daemon each of them waits (30 or 44 in the code)
  Instances,  \* instances of clientRequestDeamon
  MaxAnswers, \* bound: answers the network delivers to each request
  Nobody, End

Req == ToSet(Reqs)

ASSUME RequestAssumption ==
  /\ Reqs \in Seq(Req) /\ Reqs # <<>> /\ IsInjective(Reqs)
  /\ Timeout \in [Req -> Nat]
  /\ MaxAnswers \in [Req -> Nat]
  /\ Nobody \notin Instances /\ End \notin Req

VARIABLES
  main,     \* where the main thread is
  cur,      \* the request it is at
  tail,     \* inside push_back: the last node it saw
  if_wait,  \* the global: 1 waiting, 0 answered, -1 failed
  req_lst,  \* the listeners in the list, by request
  active,   \* request_listener.active
  clicks,   \* request_listener.clicks
  freed,    \* the listeners deleted
  res_lst,  \* answers queued, by request
  owner,    \* holder of mutex_clt
  pc, at,   \* of each instance: where it is, and the node its iterator is on
  mine,     \* of each instance: the clicks it has read, or written
  up,       \* the process is alive
  sent,     \* transmissions of each request so far
  answers,  \* answers that reached the client so far
  called,   \* history: the calls of each callback
  lost,     \* history: listeners a racing push_back has lost
  early,    \* history: requests called back before their wait began
  overlapped, \* history: two instances of the daemon have been under way together
  raced     \* history: listeners two instances have been working on together

client == <<main, cur, tail>>
listeners == <<active, clicks, freed>>
daemons == <<owner, pc, at, mine>>
netvars == <<sent, answers>>
history == <<lost, early, overlapped, raced>>
vars == <<client, if_wait, req_lst, listeners, res_lst, daemons, up, netvars, called, history>>

Init ==
  /\ main = "new" /\ cur = 1 /\ tail = End
  /\ if_wait = 1
  /\ req_lst = <<>> /\ res_lst = <<>>
  /\ active = [r \in Req |-> FALSE]
  /\ clicks = [r \in Req |-> 0]
  /\ freed = {} /\ lost = {}
  /\ owner = Nobody
  /\ pc = [p \in Instances |-> "idle"]
  /\ at = [p \in Instances |-> End]
  /\ mine = [p \in Instances |-> 0]
  /\ up = TRUE
  /\ sent = [r \in Req |-> 0] /\ answers = [r \in Req |-> 0]
  /\ called = [r \in Req |-> <<>>]
  /\ early = {} /\ raced = {} /\ overlapped = FALSE

Listed == ToSet(req_lst)

-----------------------------------------------------------------------------
(* The main thread.                                                        *)

\* NewRequestListener: the listener is filled in, and the request sent ...
Transmit ==
  LET r == Reqs[cur] IN
  /\ up /\ main = "new"
  /\ active' = [active EXCEPT ![r] = TRUE]
  /\ sent' = [sent EXCEPT ![r] = @ + 1]
  /\ main' = "push"
  /\ UNCHANGED <<cur, tail, if_wait, req_lst, clicks, freed, res_lst, daemons, up,
                 answers, called, history>>

\* ... and then the listener is put on req_lst, holding no mutex: push_back
\* reads the end of the list ...
PushBack ==
  /\ up /\ main = "push"
  /\ tail' = IF req_lst = <<>> THEN End ELSE Last(req_lst)
  /\ main' = "link"
  /\ UNCHANGED <<cur, if_wait, req_lst, listeners, res_lst, daemons, up, netvars, called, history>>

\* ... and hooks the node on it, unless that end has been removed meanwhile: then
\* the new node hangs off a node that is in the list no more.
Link ==
  /\ up /\ main = "link"
  /\ main' = "arm" /\ tail' = End
  /\ \/ /\ tail \in Listed \union {End}
        /\ req_lst' = Append(req_lst, Reqs[cur])
        /\ UNCHANGED lost
     \/ /\ tail \notin Listed \union {End}
        /\ lost' = lost \union {Reqs[cur]}
        /\ UNCHANGED req_lst
  /\ UNCHANGED <<cur, if_wait, listeners, res_lst, daemons, up, netvars, called, early,
                 overlapped, raced>>

\* Fault: if_wait keeps what the last request has left in it.
ArmForgotten ==
  /\ up /\ main = "arm"
  /\ main' = "wait"
  /\ UNCHANGED <<cur, tail, if_wait, req_lst, listeners, res_lst, daemons, up, netvars,
                 called, history>>

\* if_wait = 1, after the listener has been filed.
Arm ==
  /\ up /\ main = "arm"
  /\ if_wait' = 1
  /\ main' = "wait"
  /\ early' = IF called[Reqs[cur]] = <<>> THEN early ELSE early \union {Reqs[cur]}
  /\ UNCHANGED <<cur, tail, req_lst, listeners, res_lst, daemons, up, netvars, called, lost,
                 overlapped, raced>>

\* while (if_wait == 1): the loop ends, and the next request follows if this one
\* was answered.
Wake ==
  /\ up /\ main = "wait" /\ if_wait # 1
  /\ \/ if_wait # 0 /\ main' = "failed" /\ UNCHANGED cur
     \/ if_wait = 0 /\ cur < Len(Reqs) /\ main' = "new" /\ cur' = cur + 1
     \/ if_wait = 0 /\ cur = Len(Reqs) /\ main' = "served" /\ UNCHANGED cur
  /\ UNCHANGED <<tail, if_wait, req_lst, listeners, res_lst, daemons, up, netvars, called, history>>

-----------------------------------------------------------------------------
\* The server answers a request it has been sent, perhaps more than once, and
\* clientRespondDeamon queues the answer under mutex_clt.
Answer(r) ==
  /\ up /\ owner = Nobody
  /\ sent[r] > 0 /\ answers[r] < MaxAnswers[r]
  /\ answers' = [answers EXCEPT ![r] = @ + 1]
  /\ res_lst' = Append(res_lst, r)
  /\ UNCHANGED <<client, if_wait, req_lst, listeners, daemons, up, sent, called, history>>

-----------------------------------------------------------------------------
(* ProcessRequestListener.                                                 *)

Start(p) ==
  /\ up /\ pc[p] = "idle" /\ owner = Nobody
  /\ owner' = p
  /\ pc' = [pc EXCEPT ![p] = "match"]
  /\ overlapped' = (overlapped \/ \E q \in Instances : pc[q] # "idle")
  /\ UNCHANGED <<client, if_wait, req_lst, listeners, res_lst, at, mine, up, netvars, called,
                 lost, early, raced>>

\* What the callbacks do that matters here.  Their branches for an answer that is not
\* "ok" are left out: the server has no other.
Callback(r, how, value) ==
  /\ called' = [called EXCEPT ![r] = Append(@, how)]
  /\ if_wait' = value

\* The search for the listener of an answer reads the flags of all that are listed,
\* those another instance has deleted and not yet removed included.
Searched == up' \in IF freed \intersect Listed = {} THEN {TRUE} ELSE BOOLEAN

\* First loop, under mutex_clt.  An answer to an active listener is passed to its
\* callback ...
Match(p) ==
  LET r == Head(res_lst) IN
  /\ up /\ pc[p] = "match" /\ res_lst # <<>>
  /\ r \in Listed /\ active[r]
  /\ Callback(r, "answer", 0)
  /\ Searched
  /\ pc' = [pc EXCEPT ![p] = "matched"]
  /\ UNCHANGED <<client, req_lst, listeners, res_lst, owner, at, mine, netvars, history>>

\* Fault: the listener stays active.
MatchedForgotten(p) ==
  /\ up /\ pc[p] = "matched"
  /\ res_lst' = Tail(res_lst)
  /\ pc' = [pc EXCEPT ![p] = "match"]
  /\ UNCHANGED <<client, if_wait, req_lst, listeners, owner, at, mine, up, netvars, called,
                 history>>

\* ... and the listener is then marked and the answer freed.
Matched(p) ==
  /\ up /\ pc[p] = "matched"
  /\ active' = [active EXCEPT ![Head(res_lst)] = FALSE]
  /\ res_lst' = Tail(res_lst)
  /\ pc' = [pc EXCEPT ![p] = "match"]
  /\ UNCHANGED <<client, if_wait, req_lst, clicks, freed, owner, at, mine, up, netvars, called,
                 history>>

\* Any other answer is freed.
Unmatched(p) ==
  LET r == Head(res_lst) IN
  /\ up /\ pc[p] = "match" /\ res_lst # <<>>
  /\ ~(r \in Listed /\ active[r])
  /\ Searched
  /\ res_lst' = Tail(res_lst)
  /\ UNCHANGED <<client, if_wait, req_lst, listeners, daemons, netvars, called, history>>

\* The mutex is released, and the second loop begins.
Unlock(p) ==
  /\ up /\ pc[p] = "match" /\ res_lst = <<>>
  /\ owner' = Nobody
  /\ pc' = [pc EXCEPT ![p] = "walk"]
  /\ at' = [at EXCEPT ![p] = IF req_lst = <<>> THEN End ELSE Head(req_lst)]
  /\ UNCHANGED <<client, if_wait, req_lst, listeners, res_lst, mine, up, netvars, called, history>>

Following(r) ==
  LET i == CHOOSE i \in DOMAIN req_lst : req_lst[i] = r
  IN IF i < Len(req_lst) THEN req_lst[i + 1] ELSE End

OnListener(p) == pc[p] = "walk" /\ at[p] \in Listed /\ at[p] \notin freed

Skip(p) ==
  /\ up /\ OnListener(p) /\ ~active[at[p]]
  /\ at' = [at EXCEPT ![p] = Following(@)]
  /\ UNCHANGED <<client, if_wait, req_lst, listeners, res_lst, owner, pc, mine, up, netvars, called,
                 history>>

Waits(r) == clicks[r] < Timeout[r]

\* Two instances on one listener at once: nothing keeps them apart.
Working == {"aging", "counted", "expired"}
Races(p) ==
  raced' = IF \E q \in Instances \ {p} : at[q] = at[p] /\ pc[q] \in Working
             THEN raced \union {at[p]} ELSE raced

\* A waiting listener ages.  clicks++ reads ...
Age(p) ==
  LET r == at[p] IN
  /\ up /\ OnListener(p) /\ active[r] /\ Waits(r)
  /\ mine' = [mine EXCEPT ![p] = clicks[r]]
  /\ Races(p)
  /\ pc' = [pc EXCEPT ![p] = "aging"]
  /\ UNCHANGED <<client, if_wait, req_lst, listeners, res_lst, owner, at, up, netvars, called,
                 lost, early, overlapped>>

\* Fault: the clicks are set, not counted.
OlderOnce(n) == 1
Older(n) == n + 1

\* ... and writes: one more than was read for the test, or, read again, than there is ...
Count(p) ==
  LET r == at[p] IN
  /\ up /\ pc[p] = "aging"
  /\ \E n \in {mine[p], clicks[r]} :
       /\ mine' = [mine EXCEPT ![p] = Older(n)]
       /\ clicks' = [clicks EXCEPT ![r] = Older(n)]
  /\ up' \in IF r \in freed THEN BOOLEAN ELSE {TRUE}
  /\ pc' = [pc EXCEPT ![p] = "counted"]
  /\ UNCHANGED <<client, if_wait, req_lst, active, freed, res_lst, owner, at, netvars, called,
                 history>>

\* Fault: the request is sent again at every run.
ResendAlways(n) == TRUE
Resend(n) == n % 2 = 0

\* ... and every second time the request is sent again, by the clicks this instance
\* has written or those it reads again.  It may find the listener deleted, and its
\* node gone from the list, by another one.
Retry(p) ==
  LET r == at[p] IN
  /\ up /\ pc[p] = "counted"
  /\ \E n \in {mine[p], clicks[r]}, twice \in IF r \in freed THEN BOOLEAN ELSE {FALSE} :
       sent' = [sent EXCEPT ![r] = IF Resend(n) \/ twice THEN @ + 1 ELSE @]
  /\ up' \in IF r \in Listed /\ r \notin freed THEN {TRUE} ELSE BOOLEAN
  /\ mine' = [mine EXCEPT ![p] = 0]
  /\ pc' = [pc EXCEPT ![p] = "walk"]
  /\ at' = [at EXCEPT ![p] = IF r \in Listed THEN Following(r) ELSE End]
  /\ UNCHANGED <<client, if_wait, req_lst, listeners, res_lst, owner, answers, called, history>>

\* One that has waited long enough is given up: the callback is told so ...
Expire(p) ==
  /\ up /\ OnListener(p) /\ active[at[p]] /\ ~Waits(at[p])
  /\ Races(p)
  /\ pc' = [pc EXCEPT ![p] = "expired"]
  /\ UNCHANGED <<client, if_wait, req_lst, listeners, res_lst, owner, at, mine, up, netvars, called,
                 lost, early, overlapped>>

\* ... the listener is deleted, and its flag written in the memory just freed.  If
\* another instance has taken the node out of the list or deleted the listener
\* meanwhile, this one goes on from, or deletes, freed memory.
Expired(p) ==
  LET r == at[p] IN
  /\ up /\ pc[p] = "expired"
  /\ Callback(r, "timeout", -1)
  /\ freed' = freed \union {r}
  /\ active' = [active EXCEPT ![r] = FALSE]
  /\ up' \in IF r \in Listed /\ r \notin freed THEN {TRUE} ELSE BOOLEAN
  /\ pc' = [pc EXCEPT ![p] = "walk"]
  /\ at' = [at EXCEPT ![p] = IF r \in Listed THEN Following(r) ELSE End]
  /\ UNCHANGED <<client, req_lst, clicks, res_lst, owner, mine, netvars, history>>

\* An iterator on a node removed by another instance, or a listener deleted but
\* still listed: freed memory is read.
Stray(p) ==
  /\ up /\ pc[p] = "walk" /\ at[p] # End /\ ~OnListener(p)
  /\ up' \in BOOLEAN
  /\ at' = [at EXCEPT ![p] = IF @ \in Listed THEN Following(@) ELSE End]
  /\ UNCHANGED <<client, if_wait, req_lst, listeners, res_lst, owner, pc, mine, netvars, called,
                 history>>

\* remove_if: the listeners that are not active leave the list (answered ones
\* are never deleted).  The flag of a deleted one lies in freed memory, which
\* another thread may have been given meanwhile: it may stay.
Sweep(p) ==
  /\ up /\ pc[p] = "walk" /\ at[p] = End
  /\ \E stay \in SUBSET (freed \intersect Listed) :
       req_lst' = SelectSeq(req_lst, LAMBDA r : active[r] \/ r \in stay)
  /\ pc' = [pc EXCEPT ![p] = "idle"]
  /\ UNCHANGED <<client, if_wait, listeners, res_lst, owner, at, mine, up, netvars, called,
                 history>>

-----------------------------------------------------------------------------
Run(p) ==
  \/ Match(p) \/ Matched(p) \/ Unmatched(p) \/ Unlock(p)
  \/ Skip(p) \/ Age(p) \/ Count(p) \/ Retry(p) \/ Expire(p) \/ Expired(p) \/ Stray(p) \/ Sweep(p)

Main == Transmit \/ PushBack \/ Link \/ Arm \/ Wake

Next ==
  \/ Transmit \/ PushBack \/ Link \/ Arm \/ Wake
  \/ \E r \in Req : Answer(r)
  \/ \E p \in Instances :
       \/ Start(p) \/ Match(p) \/ Matched(p) \/ Unmatched(p) \/ Unlock(p)
       \/ Skip(p) \/ Age(p) \/ Count(p) \/ Retry(p) \/ Expire(p) \/ Expired(p)
       \/ Stray(p) \/ Sweep(p)

Spec == Init /\ [][Next]_vars

\* Both threads keep running, and the clock keeps starting the daemon, which gets
\* mutex_clt in the end although clientRespondDeamon takes it in between.
FairSpec ==
  /\ Spec
  /\ WF_vars(Main)
  /\ \A p \in Instances : SF_vars(Start(p)) /\ WF_vars(Run(p))

-----------------------------------------------------------------------------
\* However often a request was sent and answered, and however late: its
\* callback is called once, with an answer or with NULL, never with both, as long
\* as no two instances of the daemon are under way together.
CallbackOnce == overlapped \/ \A r \in Req : Len(called[r]) <= 1

\* The retries of a request are limited by its timeout, whatever is answered and
\* however the instances of the daemon overlap, unless two of them have been at the
\* listener together: then both may count one click, or both see the same even
\* number, and send again.
RetriesBounded == \A r \in Req : r \in raced \/ sent[r] <= 1 + Timeout[r] \div 2

\* The main thread goes on to the next step (login after the public key, the
\* service after login) only when the request before it was answered.
ProceedsOnlyAnswered ==
  \A i \in DOMAIN Reqs :
    (i < cur \/ main = "served") => "answer" \in ToSet(called[Reqs[i]])

\* Every wait of the main thread ends, with an answer or given up, but for the
\* two races the code has: the request was called back before if_wait was set
\* for it, or a push_back without a mutex has lost its listener.
WaitEnds ==
  main = "wait" ~> (main # "wait" \/ ~up \/ Reqs[cur] \in early \union lost)
=============================================================================
