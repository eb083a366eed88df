------------------------ MODULE ClientRequestsProofs ------------------------
(***************************************************************************)
(* Proofs about ClientRequests, for any requests, timeouts, numbers of     *)
(* answers and instances of the daemon.                                    *)
(***************************************************************************)
EXTENDS ClientRequests, SequenceTheorems, TLAPS

-----------------------------------------------------------------------------
(* The types the proofs need.                                              *)

\* An instance at work on a listener holds a number of clicks.
Held ==
  /\ mine = [p \in Instances |-> mine[p]]
  /\ \A p \in Instances : pc[p] \in {"aging", "counted"} /\ at[p] \in Req => mine[p] \in Nat
Typed ==
  /\ cur \in DOMAIN Reqs /\ res_lst \in Seq(Req)
  /\ clicks \in [Req -> Nat] /\ sent \in [Req -> Nat]
  /\ called \in [Req -> Seq({"answer", "timeout"})]
  /\ pc \in [Instances -> {"idle", "match", "matched", "walk", "aging", "counted", "expired"}]
  /\ Held
Switches == active \in [Req -> BOOLEAN] /\ overlapped \in BOOLEAN

\* The answer at hand is one to a request.
LEMMA AtHand ==
  ASSUME res_lst \in Seq(Req), res_lst # <<>>
  PROVE  Head(res_lst) \in Req /\ Tail(res_lst) \in Seq(Req)
BY HeadTailProperties

\* Requests are made one after the other, each of them once.
LEMMA Requests ==
  /\ DOMAIN Reqs = 1 .. Len(Reqs) /\ Len(Reqs) \in Nat \ {0}
  /\ \A i \in DOMAIN Reqs : Reqs[i] \in Req
  /\ \A i, j \in DOMAIN Reqs : Reqs[i] = Reqs[j] => i = j
  /\ \A r \in Req : \E i \in DOMAIN Reqs : r = Reqs[i]
<1>1. DOMAIN Reqs = 1 .. Len(Reqs) /\ Len(Reqs) \in Nat \ {0}
  BY RequestAssumption, LenProperties, EmptySeq
<1>2. \A i, j \in DOMAIN Reqs : Reqs[i] = Reqs[j] => i = j
  BY RequestAssumption DEF IsInjective
<1>3. (\A i \in DOMAIN Reqs : Reqs[i] \in Req) /\ \A r \in Req : \E i \in DOMAIN Reqs : r = Reqs[i]
  BY DEF Req, ToSet
<1> QED BY <1>1, <1>2, <1>3

Answered(r) == "answer" \in ToSet(called[r])

\* A callback adds its outcome to the calls of one request.
LEMMA Calls ==
  ASSUME Typed, NEW r, NEW how \in {"answer", "timeout"}, called' = [called EXCEPT ![r] = Append(@, how)]
  PROVE  /\ called' \in [Req -> Seq({"answer", "timeout"})]
         /\ \A q \in Req : /\ q # r => called'[q] = called[q]
                           /\ q = r => called'[q] # <<>> /\ Len(called'[q]) = Len(called[q]) + 1
                           /\ Answered(q)' <=> Answered(q) \/ (q = r /\ how = "answer")
<1>1. ASSUME NEW q \in Req, q = r
      PROVE  /\ called'[q] \in Seq({"answer", "timeout"}) /\ Len(called'[q]) = Len(called[q]) + 1
             /\ Answered(q)' <=> Answered(q) \/ how = "answer"
  <2>1. called'[q] = Append(called[q], how) /\ called[q] \in Seq({"answer", "timeout"})
    BY <1>1 DEF Typed
  <2>2. /\ Append(called[q], how) \in Seq({"answer", "timeout"})
        /\ Len(Append(called[q], how)) = Len(called[q]) + 1 /\ Len(called[q]) \in Nat
        /\ \A i \in 1 .. Len(called[q]) : Append(called[q], how)[i] = called[q][i]
        /\ Append(called[q], how)[Len(called[q]) + 1] = how
    BY <2>1, AppendProperties, LenProperties
  <2>3. DOMAIN called[q] = 1 .. Len(called[q]) /\ DOMAIN called'[q] = 1 .. Len(called[q]) + 1
    BY <2>1, <2>2, LenProperties
  <2>4. Answered(q) => Answered(q)'
    BY <2>1, <2>2, <2>3 DEF Answered, ToSet
  <2>5. how = "answer" => Answered(q)'
    BY <2>1, <2>2, <2>3 DEF Answered, ToSet
  <2>6. Answered(q)' => Answered(q) \/ how = "answer"
    BY <2>1, <2>2, <2>3 DEF Answered, ToSet
  <2> QED BY <2>1, <2>2, <2>4, <2>5, <2>6
<1>2. ASSUME NEW q \in Req, q # r PROVE called'[q] = called[q] /\ (Answered(q)' <=> Answered(q))
  BY <1>2 DEF Typed, Answered
<1>3. \A q \in Req : called[q] \in Seq({"answer", "timeout"}) /\ Len(called[q]) \in Nat
  BY LenProperties DEF Typed
<1>4. called' \in [Req -> Seq({"answer", "timeout"})]
  BY <1>1, <1>2, <1>3 DEF Typed
<1>5. \A q \in Req : q = r => called'[q] # <<>>
  BY <1>1, <1>3, EmptySeq
<1> QED BY <1>1, <1>2, <1>4, <1>5

-----------------------------------------------------------------------------
(* mutex_clt.                                                              *)

\* The instance that matches answers holds the mutex, and has an answer at hand
\* between the callback and the removal.
Mutex ==
  \A p \in Instances :
    /\ pc[p] \in {"match", "matched"} => owner = p
    /\ pc[p] = "matched" => res_lst # <<>> /\ Answered(Head(res_lst))

\* An instance that goes on counting holds what it held.
LEMMA HeldStays ==
  ASSUME Held, mine' = mine,
         \A q \in Instances : pc'[q] \in {"aging", "counted"} => pc'[q] = pc[q] /\ at'[q] = at[q]
  PROVE  Held'
BY DEF Held

\* Every step keeps the types.
LEMMA TypedStep == Typed /\ Mutex /\ [Next]_vars => Typed'
<1> SUFFICES ASSUME Typed /\ Mutex, [Next]_vars PROVE Typed'
  OBVIOUS
<1> USE Requests, AtHand DEF Typed, Mutex, client, listeners, daemons, netvars, history
<1>1. CASE Transmit
  BY <1>1 DEF Transmit, Held
<1>2. CASE PushBack
  BY <1>2 DEF PushBack, Held
<1>3. CASE Link
  BY <1>3 DEF Link, Held
<1>4. CASE Arm
  BY <1>4 DEF Arm, Held
<1>5. CASE Wake
  BY <1>5 DEF Wake, Held
<1>6. ASSUME NEW r \in Req, Answer(r) PROVE Typed'
  BY <1>6 DEF Answer, Held
<1>7. ASSUME NEW p \in Instances, Start(p) PROVE Typed'
  <2>1. /\ mine' = mine /\ pc' = [pc EXCEPT ![p] = "match"]
        /\ \A q \in Instances : q # p => at'[q] = at[q]
    BY <1>7 DEF Start
  <2>2. Held'
    BY <2>1, HeldStays
  <2>3. UNCHANGED <<cur, res_lst, clicks, sent, called>>
    BY <1>7 DEF Start
  <2> HIDE DEF Mutex
  <2> QED BY <2>1, <2>2, <2>3
<1>8. ASSUME NEW p \in Instances, Match(p) PROVE Typed'
  <2>1. pc' = [pc EXCEPT ![p] = "matched"] /\ UNCHANGED <<cur, res_lst, clicks, sent, at, mine>>
    BY <1>8 DEF Match
  <2>2. Held'
    BY <2>1, HeldStays
  <2>3. called' \in [Req -> Seq({"answer", "timeout"})]
    BY <1>8, Calls DEF Match, Callback
  <2> HIDE DEF Mutex
  <2> QED BY <2>1, <2>2, <2>3
<1>9. ASSUME NEW p \in Instances, Matched(p) PROVE Typed'
  BY <1>9 DEF Matched, Held
<1>10. ASSUME NEW p \in Instances, Unmatched(p) PROVE Typed'
  BY <1>10 DEF Unmatched, Held
<1>11. ASSUME NEW p \in Instances, Unlock(p) PROVE Typed'
  <2>1. /\ mine' = mine /\ pc' = [pc EXCEPT ![p] = "walk"]
        /\ \A q \in Instances : q # p => at'[q] = at[q]
    BY <1>11 DEF Unlock
  <2>2. Held'
    BY <2>1, HeldStays
  <2>3. UNCHANGED <<cur, res_lst, clicks, sent, called>>
    BY <1>11 DEF Unlock
  <2> HIDE DEF Mutex
  <2> QED BY <2>1, <2>2, <2>3
<1>12. ASSUME NEW p \in Instances, Skip(p) PROVE Typed'
  <2>1. /\ pc[p] = "walk" /\ UNCHANGED <<cur, res_lst, clicks, sent, called, pc, mine>>
        /\ \A q \in Instances : q # p => at'[q] = at[q]
    BY <1>12 DEF Skip, OnListener
  <2>2. Held'
    BY <2>1, HeldStays
  <2> HIDE DEF Mutex
  <2> QED BY <2>1, <2>2
<1>13. ASSUME NEW p \in Instances, Age(p) PROVE Typed'
  <2>1. mine' = [mine EXCEPT ![p] = clicks[at[p]]] /\ pc' = [pc EXCEPT ![p] = "aging"] /\ UNCHANGED at
    BY <1>13 DEF Age
  <2>2. Held'
    BY <2>1 DEF Held
  <2> QED BY <1>13, <2>2 DEF Age
<1>14. ASSUME NEW p \in Instances, Count(p) PROVE Typed'
  <2>1. PICK n \in {mine[p], clicks[at[p]]} :
          mine' = [mine EXCEPT ![p] = n + 1] /\ clicks' = [clicks EXCEPT ![at[p]] = n + 1]
    BY <1>14 DEF Count, Older
  <2>2. pc[p] = "aging" /\ pc' = [pc EXCEPT ![p] = "counted"] /\ UNCHANGED at
    BY <1>14 DEF Count
  <2>3. at[p] \in Req => n \in Nat /\ n + 1 \in Nat
    BY <2>1, <2>2 DEF Held
  <2>4. Held'
    BY <2>1, <2>2, <2>3 DEF Held
  <2>5. clicks' \in [Req -> Nat]
    <3>1. CASE at[p] \in Req
      <4> DEFINE m == n + 1
      <4>1. clicks' = [clicks EXCEPT ![at[p]] = m] /\ m \in Nat /\ clicks \in [Req -> Nat]
        BY <2>1, <2>3, <3>1
      <4> HIDE DEF m
      <4> QED BY ONLY <3>1, <4>1
    <3>2. CASE at[p] \notin Req
      BY <2>1, <3>2
    <3> QED BY <3>1, <3>2
  <2> QED BY <1>14, <2>4, <2>5 DEF Count
<1>15. ASSUME NEW p \in Instances, Retry(p) PROVE Typed'
  <2>1. PICK more \in BOOLEAN : sent' = [sent EXCEPT ![at[p]] = IF more THEN @ + 1 ELSE @]
    <3>1. PICK n \in {mine[p], clicks[at[p]]}, twice \in BOOLEAN :
            sent' = [sent EXCEPT ![at[p]] = IF Resend(n) \/ twice THEN @ + 1 ELSE @]
      BY <1>15 DEF Retry
    <3> QED BY <3>1
  <2>2. sent' \in [Req -> Nat]
    <3>1. CASE at[p] \in Req
      BY <2>1, <3>1
    <3>2. CASE at[p] \notin Req
      BY <2>1, <3>2
    <3> QED BY <3>1, <3>2
  <2>3. mine' = [mine EXCEPT ![p] = 0] /\ pc' = [pc EXCEPT ![p] = "walk"]
        /\ \A q \in Instances : q # p => at'[q] = at[q]
    BY <1>15 DEF Retry
  <2>4. Held'
    BY <2>3 DEF Held
  <2> QED BY <1>15, <2>2, <2>3, <2>4 DEF Retry
<1>16. ASSUME NEW p \in Instances, Expire(p) PROVE Typed'
  <2>1. /\ mine' = mine /\ pc' = [pc EXCEPT ![p] = "expired"]
        /\ \A q \in Instances : q # p => at'[q] = at[q]
    BY <1>16 DEF Expire
  <2>2. Held'
    BY <2>1, HeldStays
  <2> QED BY <1>16, <2>2 DEF Expire
<1>17. ASSUME NEW p \in Instances, Expired(p) PROVE Typed'
  <2>1. /\ mine' = mine /\ pc' = [pc EXCEPT ![p] = "walk"]
        /\ \A q \in Instances : q # p => at'[q] = at[q]
    BY <1>17 DEF Expired, Callback
  <2>2. Held'
    BY <2>1, HeldStays
  <2> QED BY <1>17, <2>2, Calls DEF Expired, Callback
<1>18. ASSUME NEW p \in Instances, Stray(p) PROVE Typed'
  BY <1>18 DEF Stray, Held
<1>19. ASSUME NEW p \in Instances, Sweep(p) PROVE Typed'
  BY <1>19 DEF Sweep, Held
<1>20. CASE UNCHANGED vars
  BY <1>20 DEF vars, Held
<1> QED BY <1>1, <1>2, <1>3, <1>4, <1>5, <1>6, <1>7, <1>8, <1>9, <1>10, <1>11, <1>12, <1>13, <1>14, <1>15, <1>16, <1>17, <1>18, <1>19, <1>20 DEF Next

\* Every step keeps the flags Boolean.
LEMMA SwitchesStep == Switches /\ [Next]_vars => Switches'
<1> SUFFICES ASSUME Switches, [Next]_vars PROVE Switches'
  OBVIOUS
<1> USE DEF Switches, client, listeners, daemons, netvars, history
<1>1. CASE Transmit
  BY <1>1 DEF Transmit
<1>2. CASE PushBack
  BY <1>2 DEF PushBack
<1>3. CASE Link
  BY <1>3 DEF Link
<1>4. CASE Arm
  BY <1>4 DEF Arm
<1>5. CASE Wake
  BY <1>5 DEF Wake
<1>6. ASSUME NEW r \in Req, Answer(r) PROVE Switches'
  BY <1>6 DEF Answer
<1>7. ASSUME NEW p \in Instances, Start(p) PROVE Switches'
  BY <1>7 DEF Start
<1>8. ASSUME NEW p \in Instances, Match(p) PROVE Switches'
  BY <1>8 DEF Match, Callback
<1>9. ASSUME NEW p \in Instances, Matched(p) PROVE Switches'
  BY <1>9 DEF Matched
<1>10. ASSUME NEW p \in Instances, Unmatched(p) PROVE Switches'
  BY <1>10 DEF Unmatched
<1>11. ASSUME NEW p \in Instances, Unlock(p) PROVE Switches'
  BY <1>11 DEF Unlock
<1>12. ASSUME NEW p \in Instances, Skip(p) PROVE Switches'
  BY <1>12 DEF Skip
<1>13. ASSUME NEW p \in Instances, Age(p) PROVE Switches'
  BY <1>13 DEF Age
<1>14. ASSUME NEW p \in Instances, Count(p) PROVE Switches'
  BY <1>14 DEF Count
<1>15. ASSUME NEW p \in Instances, Retry(p) PROVE Switches'
  BY <1>15 DEF Retry
<1>16. ASSUME NEW p \in Instances, Expire(p) PROVE Switches'
  BY <1>16 DEF Expire
<1>17. ASSUME NEW p \in Instances, Expired(p) PROVE Switches'
  BY <1>17 DEF Expired, Callback
<1>18. ASSUME NEW p \in Instances, Stray(p) PROVE Switches'
  BY <1>18 DEF Stray
<1>19. ASSUME NEW p \in Instances, Sweep(p) PROVE Switches'
  BY <1>19 DEF Sweep
<1>20. CASE UNCHANGED vars
  BY <1>20 DEF vars
<1> QED BY <1>1, <1>2, <1>3, <1>4, <1>5, <1>6, <1>7, <1>8, <1>9, <1>10, <1>11, <1>12, <1>13, <1>14, <1>15, <1>16, <1>17, <1>18, <1>19, <1>20 DEF Next

\* Every step keeps to mutex_clt.
LEMMA MutexStep == Typed /\ RequestAssumption /\ Mutex /\ [Next]_vars => Mutex'
<1> SUFFICES ASSUME Typed /\ RequestAssumption /\ Mutex, [Next]_vars PROVE Mutex'
  OBVIOUS
<1> USE AtHand, Calls DEF Typed, Mutex, Answered, client, listeners, daemons, netvars, history
<1>1. CASE Transmit
  BY <1>1 DEF Transmit
<1>2. CASE PushBack
  BY <1>2 DEF PushBack
<1>3. CASE Link
  BY <1>3 DEF Link
<1>4. CASE Arm
  BY <1>4 DEF Arm
<1>5. CASE Wake
  BY <1>5 DEF Wake
<1>6. ASSUME NEW r \in Req, Answer(r) PROVE Mutex'
  BY <1>6 DEF Answer
<1>7. ASSUME NEW p \in Instances, Start(p) PROVE Mutex'
  BY <1>7 DEF Start
<1>8. ASSUME NEW p \in Instances, Match(p) PROVE Mutex'
  BY <1>8 DEF Match, Callback
<1>9. ASSUME NEW p \in Instances, Matched(p) PROVE Mutex'
  BY <1>9 DEF Matched
<1>10. ASSUME NEW p \in Instances, Unmatched(p) PROVE Mutex'
  BY <1>10 DEF Unmatched
<1>11. ASSUME NEW p \in Instances, Unlock(p) PROVE Mutex'
  BY <1>11 DEF Unlock
<1>12. ASSUME NEW p \in Instances, Skip(p) PROVE Mutex'
  BY <1>12 DEF Skip
<1>13. ASSUME NEW p \in Instances, Age(p) PROVE Mutex'
  BY <1>13 DEF Age
<1>14. ASSUME NEW p \in Instances, Count(p) PROVE Mutex'
  BY <1>14 DEF Count
<1>15. ASSUME NEW p \in Instances, Retry(p) PROVE Mutex'
  BY <1>15 DEF Retry
<1>16. ASSUME NEW p \in Instances, Expire(p) PROVE Mutex'
  BY <1>16 DEF Expire, OnListener
<1>17. ASSUME NEW p \in Instances, Expired(p) PROVE Mutex'
  BY <1>17 DEF Expired, Callback
<1>18. ASSUME NEW p \in Instances, Stray(p) PROVE Mutex'
  BY <1>18 DEF Stray
<1>19. ASSUME NEW p \in Instances, Sweep(p) PROVE Mutex'
  BY <1>19 DEF Sweep
<1>20. CASE UNCHANGED vars
  BY <1>20 DEF vars
<1> QED BY <1>1, <1>2, <1>3, <1>4, <1>5, <1>6, <1>7, <1>8, <1>9, <1>10, <1>11, <1>12, <1>13, <1>14, <1>15, <1>16, <1>17, <1>18, <1>19, <1>20 DEF Next

-----------------------------------------------------------------------------
(* Requests to come, requests answered.                                    *)

\* The main thread has still to make this request.
Future(i) == i > cur \/ (i = cur /\ main = "new")

\* Nothing has happened to it yet.
Untouched ==
  \A i \in DOMAIN Reqs : Future(i) =>
    /\ ~active[Reqs[i]] /\ called[Reqs[i]] = <<>>
    /\ sent[Reqs[i]] = 0 /\ clicks[Reqs[i]] = 0
    /\ \A p \in Instances : pc[p] \in Working => at[p] # Reqs[i]

\* An answered listener is active only until the instance that answered it has
\* marked it.
Marked ==
  \A r \in Req : active[r] /\ Answered(r) =>
    \E p \in Instances : pc[p] = "matched" /\ Head(res_lst) = r

\* A request not called back is not answered.
LEMMA Uncalled == ASSUME NEW r, called[r] = <<>> PROVE ~Answered(r)
BY DEF Answered, ToSet

\* Matched marks the listener that Match has called back.
LEMMA MarkedStep == Typed /\ Switches /\ Mutex /\ Untouched /\ Marked /\ [Next]_vars => Marked'
<1> SUFFICES ASSUME Typed /\ Switches /\ Mutex /\ Untouched /\ Marked, [Next]_vars PROVE Marked'
  OBVIOUS
<1> USE DEF Typed, Switches, Mutex, Marked, Answered, client, listeners, daemons, netvars, history
<1>1. CASE Transmit
  <2> DEFINE s == Reqs[cur]
  <2>1. s \in Req /\ ~Answered(s)
    BY <1>1, Requests, Uncalled DEF Transmit, Future, Untouched
  <2>2. ASSUME NEW r \in Req, active'[r], Answered(r)' PROVE active[r] /\ Answered(r)
    BY <1>1, <2>1, <2>2 DEF Transmit
  <2> QED BY <1>1, <2>2 DEF Transmit
<1>2. CASE PushBack
  BY <1>2 DEF PushBack
<1>3. CASE Link
  BY <1>3 DEF Link
<1>4. CASE Arm
  BY <1>4 DEF Arm
<1>5. CASE Wake
  BY <1>5 DEF Wake
<1>6. ASSUME NEW r \in Req, Answer(r) PROVE Marked'
  BY <1>6 DEF Answer
<1>7. ASSUME NEW p \in Instances, Start(p) PROVE Marked'
  BY <1>7 DEF Start
<1>8. ASSUME NEW p \in Instances, Match(p) PROVE Marked'
  <2> DEFINE s == Head(res_lst)
  <2>1. s \in Req /\ called' = [called EXCEPT ![s] = Append(@, "answer")] /\ UNCHANGED <<active, res_lst>>
    BY <1>8, AtHand DEF Match, Callback
  <2>2. \A q \in Req : q # s => (Answered(q)' <=> Answered(q))
    BY <2>1, Calls DEF Typed
  <2>3. pc'[p] = "matched" /\ \A q \in Instances : pc[q] # "matched"
    BY <1>8 DEF Match
  <2> QED BY <2>1, <2>2, <2>3
<1>9. ASSUME NEW p \in Instances, Matched(p) PROVE Marked'
  <2> DEFINE s == Head(res_lst)
  <2>1. s \in Req /\ active' = [active EXCEPT ![s] = FALSE] /\ UNCHANGED called
    BY <1>9, AtHand DEF Matched
  <2>2. \A q \in Instances : pc[q] = "matched" => q = p
    BY <1>9 DEF Matched
  <2>3. \A r \in Req : active[r] /\ Answered(r) => r = s
    BY <2>2
  <2>4. \A r \in Req : Answered(r)' <=> Answered(r)
    BY <2>1
  <2>5. ~active'[s] /\ \A r \in Req : r # s => active'[r] = active[r]
    BY <2>1
  <2> QED BY <2>3, <2>4, <2>5
<1>10. ASSUME NEW p \in Instances, Unmatched(p) PROVE Marked'
  BY <1>10 DEF Unmatched
<1>11. ASSUME NEW p \in Instances, Unlock(p) PROVE Marked'
  BY <1>11 DEF Unlock
<1>12. ASSUME NEW p \in Instances, Skip(p) PROVE Marked'
  BY <1>12 DEF Skip
<1>13. ASSUME NEW p \in Instances, Age(p) PROVE Marked'
  <2>1. pc[p] = "walk" /\ UNCHANGED <<active, called, res_lst>> /\ pc' = [pc EXCEPT ![p] = "aging"]
    BY <1>13 DEF Age, OnListener
  <2> QED BY <2>1
<1>14. ASSUME NEW p \in Instances, Count(p) PROVE Marked'
  BY <1>14 DEF Count
<1>15. ASSUME NEW p \in Instances, Retry(p) PROVE Marked'
  BY <1>15 DEF Retry
<1>16. ASSUME NEW p \in Instances, Expire(p) PROVE Marked'
  <2>1. pc[p] = "walk" /\ UNCHANGED <<active, called, res_lst>> /\ pc' = [pc EXCEPT ![p] = "expired"]
    BY <1>16 DEF Expire, OnListener
  <2> QED BY <2>1
<1>17. ASSUME NEW p \in Instances, Expired(p) PROVE Marked'
  <2>1. pc[p] = "expired" /\ UNCHANGED res_lst /\ pc' = [pc EXCEPT ![p] = "walk"]
    BY <1>17 DEF Expired
  <2>2. \A r \in Req : (Answered(r)' <=> Answered(r)) /\ (active'[r] => active[r])
    BY <1>17, Calls DEF Expired, Callback
  <2> QED BY <2>1, <2>2
<1>18. ASSUME NEW p \in Instances, Stray(p) PROVE Marked'
  BY <1>18 DEF Stray
<1>19. ASSUME NEW p \in Instances, Sweep(p) PROVE Marked'
  BY <1>19 DEF Sweep
<1>20. CASE UNCHANGED vars
  BY <1>20 DEF vars
<1> QED BY <1>1, <1>2, <1>3, <1>4, <1>5, <1>6, <1>7, <1>8, <1>9, <1>10, <1>11, <1>12, <1>13, <1>14, <1>15, <1>16, <1>17, <1>18, <1>19, <1>20 DEF Next

\* Requests are counted from 1.
LEMMA Numbers == cur \in DOMAIN Reqs => cur \in Nat /\ \A i \in DOMAIN Reqs : i \in Nat
BY Requests

\* A step that does nothing to the requests of the future leaves them untouched.
LEMMA StillUntouched ==
  ASSUME Untouched,
         \A i \in DOMAIN Reqs : Future(i)' <=> Future(i),
         \A q \in Instances : pc'[q] \in Working => pc[q] \in Working /\ at'[q] = at[q],
         \A i \in DOMAIN Reqs : Future(i) =>
           /\ active'[Reqs[i]] = active[Reqs[i]] /\ called'[Reqs[i]] = called[Reqs[i]]
           /\ sent'[Reqs[i]] = sent[Reqs[i]] /\ clicks'[Reqs[i]] = clicks[Reqs[i]]
  PROVE  Untouched'
BY DEF Untouched

\* The daemon touches no request that has not been made.
LEMMA UntouchedStep == Typed /\ Switches /\ Mutex /\ Untouched /\ [Next]_vars => Untouched'
<1> SUFFICES ASSUME Typed /\ Switches /\ Mutex /\ Untouched, [Next]_vars PROVE Untouched'
  OBVIOUS
<1> USE DEF Typed, Switches, Mutex, Untouched, Working, client, listeners, daemons, netvars, history
<1>1. CASE Transmit
  <2>1. \A i \in DOMAIN Reqs : Future(i)' => Future(i) /\ Reqs[i] # Reqs[cur]
    BY <1>1, Requests, Numbers DEF Transmit, Future
  <2> QED BY <1>1, <2>1 DEF Transmit
<1>2. CASE PushBack
  <2>1. \A i \in DOMAIN Reqs : Future(i)' => Future(i)
    BY <1>2 DEF PushBack, Future
  <2> QED BY <1>2, <2>1 DEF PushBack
<1>3. CASE Link
  <2>1. \A i \in DOMAIN Reqs : Future(i)' => Future(i)
    BY <1>3 DEF Link, Future
  <2> QED BY <1>3, <2>1 DEF Link
<1>4. CASE Arm
  <2>1. \A i \in DOMAIN Reqs : Future(i)' => Future(i)
    BY <1>4 DEF Arm, Future
  <2> QED BY <1>4, <2>1 DEF Arm
<1>5. CASE Wake
  <2>1. \A i \in DOMAIN Reqs : Future(i)' => Future(i)
    BY <1>5, Numbers DEF Wake, Future
  <2> QED BY <1>5, <2>1 DEF Wake
<1>6. ASSUME NEW r \in Req, Answer(r) PROVE Untouched'
  <2>0. \A i \in DOMAIN Reqs : Future(i)' <=> Future(i)
    BY <1>6 DEF Answer, Future
  <2>1. UNCHANGED <<active, called, clicks, sent>>
    BY <1>6 DEF Answer
  <2>2. \A q \in Instances : pc'[q] \in Working => pc[q] \in Working /\ at'[q] = at[q]
    BY <1>6 DEF Answer, OnListener
  <2> QED BY <2>0, <2>1, <2>2
<1>7. ASSUME NEW p \in Instances, Start(p) PROVE Untouched'
  <2>0. \A i \in DOMAIN Reqs : Future(i)' <=> Future(i)
    BY <1>7 DEF Start, Future
  <2>1. UNCHANGED <<active, called, clicks, sent>>
    BY <1>7 DEF Start
  <2>2. \A q \in Instances : pc'[q] \in Working => pc[q] \in Working /\ at'[q] = at[q]
    BY <1>7 DEF Start, OnListener
  <2> QED BY <2>0, <2>1, <2>2
<1>8. ASSUME NEW p \in Instances, Match(p) PROVE Untouched'
  <2>0. \A i \in DOMAIN Reqs : Future(i)' <=> Future(i)
    BY <1>8 DEF Match, Future
  <2> DEFINE s == Head(res_lst)
  <2>1. s \in Req /\ active[s] /\ called' = [called EXCEPT ![s] = Append(@, "answer")]
    BY <1>8, AtHand DEF Match, Callback
  <2>2. \A q \in Req : q # s => called'[q] = called[q]
    BY <2>1, Calls DEF Typed
  <2>3. \A i \in DOMAIN Reqs : Future(i) => Reqs[i] # s /\ Reqs[i] \in Req
    BY <2>1, Requests
  <2>4. UNCHANGED <<active, sent, clicks, at>> /\ pc' = [pc EXCEPT ![p] = "matched"]
    BY <1>8 DEF Match
  <2>5. \A q \in Instances : pc'[q] \in Working => pc[q] \in Working
    BY <2>4
  <2> HIDE DEF s
  <2> QED BY <2>0, <2>2, <2>3, <2>4, <2>5
<1>9. ASSUME NEW p \in Instances, Matched(p) PROVE Untouched'
  <2>0. \A i \in DOMAIN Reqs : Future(i)' <=> Future(i)
    BY <1>9 DEF Matched, Future
  <2>1. active' = [active EXCEPT ![Head(res_lst)] = FALSE] /\ Head(res_lst) \in Req
    BY <1>9, AtHand DEF Matched
  <2>2. \A r \in Req : active'[r] => active[r]
    BY <2>1
  <2>3. UNCHANGED <<called, sent, clicks, at>> /\ \A q \in Instances : pc'[q] \in Working => pc[q] \in Working
    BY <1>9 DEF Matched
  <2> QED BY <2>0, <2>2, <2>3, Requests
<1>10. ASSUME NEW p \in Instances, Unmatched(p) PROVE Untouched'
  <2>0. \A i \in DOMAIN Reqs : Future(i)' <=> Future(i)
    BY <1>10 DEF Unmatched, Future
  <2>1. UNCHANGED <<active, called, clicks, sent>>
    BY <1>10 DEF Unmatched
  <2>2. \A q \in Instances : pc'[q] \in Working => pc[q] \in Working /\ at'[q] = at[q]
    BY <1>10 DEF Unmatched, OnListener
  <2> QED BY <2>0, <2>1, <2>2
<1>11. ASSUME NEW p \in Instances, Unlock(p) PROVE Untouched'
  <2>0. \A i \in DOMAIN Reqs : Future(i)' <=> Future(i)
    BY <1>11 DEF Unlock, Future
  <2>1. UNCHANGED <<active, called, clicks, sent>>
    BY <1>11 DEF Unlock
  <2>2. \A q \in Instances : pc'[q] \in Working => pc[q] \in Working /\ at'[q] = at[q]
    BY <1>11 DEF Unlock, OnListener
  <2> QED BY <2>0, <2>1, <2>2
<1>12. ASSUME NEW p \in Instances, Skip(p) PROVE Untouched'
  <2>0. \A i \in DOMAIN Reqs : Future(i)' <=> Future(i)
    BY <1>12 DEF Skip, Future
  <2>1. UNCHANGED <<active, called, clicks, sent>>
    BY <1>12 DEF Skip
  <2>2. \A q \in Instances : pc'[q] \in Working => pc[q] \in Working /\ at'[q] = at[q]
    BY <1>12 DEF Skip, OnListener
  <2> QED BY <2>0, <2>1, <2>2
<1>13. ASSUME NEW p \in Instances, Age(p) PROVE Untouched'
  <2>0. \A i \in DOMAIN Reqs : Future(i)' <=> Future(i)
    BY <1>13 DEF Age, Future
  <2>1. \A i \in DOMAIN Reqs : Future(i) => Reqs[i] # at[p]
    BY <1>13 DEF Age
  <2>2. UNCHANGED <<active, called, sent, clicks, at>> /\ pc' = [pc EXCEPT ![p] = "aging"]
    BY <1>13 DEF Age
  <2>3. \A q \in Instances : pc'[q] \in Working => q = p \/ pc[q] \in Working
    BY <2>2
  <2> QED BY <2>0, <2>1, <2>2, <2>3
<1>14. ASSUME NEW p \in Instances, Count(p) PROVE Untouched'
  <2>0. \A i \in DOMAIN Reqs : Future(i)' <=> Future(i)
    BY <1>14 DEF Count, Future
  <2>1. \A i \in DOMAIN Reqs : Future(i) => Reqs[i] # at[p] /\ Reqs[i] \in Req
    BY <1>14, Requests DEF Count
  <2>2. PICK n : clicks' = [clicks EXCEPT ![at[p]] = n]
    BY <1>14 DEF Count
  <2>3. \A r \in Req : r # at[p] => clicks'[r] = clicks[r]
    BY <2>2
  <2>4. UNCHANGED <<active, called, sent, at>> /\ pc' = [pc EXCEPT ![p] = "counted"] /\ pc[p] = "aging"
    BY <1>14 DEF Count
  <2>5. \A q \in Instances : pc'[q] \in Working => pc[q] \in Working /\ at'[q] = at[q]
    BY <2>4
  <2>6. ASSUME NEW i \in DOMAIN Reqs, Future(i)
        PROVE  /\ active'[Reqs[i]] = active[Reqs[i]] /\ called'[Reqs[i]] = called[Reqs[i]]
               /\ sent'[Reqs[i]] = sent[Reqs[i]] /\ clicks'[Reqs[i]] = clicks[Reqs[i]]
    BY <2>1, <2>3, <2>4, <2>6, Zenon
  <2> QED BY <2>0, <2>5, <2>6, StillUntouched, Zenon
<1>15. ASSUME NEW p \in Instances, Retry(p) PROVE Untouched'
  <2>0. \A i \in DOMAIN Reqs : Future(i)' <=> Future(i)
    BY <1>15 DEF Retry, Future
  <2>1. \A i \in DOMAIN Reqs : Future(i) => Reqs[i] # at[p] /\ Reqs[i] \in Req
    BY <1>15, Requests DEF Retry
  <2>2. PICK n : sent' = [sent EXCEPT ![at[p]] = n]
    BY <1>15 DEF Retry
  <2>3. \A r \in Req : r # at[p] => sent'[r] = sent[r]
    BY <2>2
  <2>4. UNCHANGED <<active, called, clicks>> /\ pc' = [pc EXCEPT ![p] = "walk"]
        /\ \A q \in Instances : q # p => at'[q] = at[q]
    BY <1>15 DEF Retry
  <2>5. \A q \in Instances : pc'[q] \in Working => pc[q] \in Working /\ at'[q] = at[q]
    BY <2>4
  <2>6. ASSUME NEW i \in DOMAIN Reqs, Future(i)
        PROVE  /\ active'[Reqs[i]] = active[Reqs[i]] /\ called'[Reqs[i]] = called[Reqs[i]]
               /\ sent'[Reqs[i]] = sent[Reqs[i]] /\ clicks'[Reqs[i]] = clicks[Reqs[i]]
    BY <2>1, <2>3, <2>4, <2>6, Zenon
  <2> QED BY <2>0, <2>5, <2>6, StillUntouched, Zenon
<1>16. ASSUME NEW p \in Instances, Expire(p) PROVE Untouched'
  <2>0. \A i \in DOMAIN Reqs : Future(i)' <=> Future(i)
    BY <1>16 DEF Expire, Future
  <2>1. \A i \in DOMAIN Reqs : Future(i) => Reqs[i] # at[p]
    BY <1>16 DEF Expire
  <2>2. UNCHANGED <<active, called, sent, clicks, at>> /\ pc' = [pc EXCEPT ![p] = "expired"]
    BY <1>16 DEF Expire
  <2>3. \A q \in Instances : pc'[q] \in Working => q = p \/ pc[q] \in Working
    BY <2>2
  <2> QED BY <2>0, <2>1, <2>2, <2>3
<1>17. ASSUME NEW p \in Instances, Expired(p) PROVE Untouched'
  <2>0. \A i \in DOMAIN Reqs : Future(i)' <=> Future(i)
    BY <1>17 DEF Expired, Future
  <2>1. \A i \in DOMAIN Reqs : Future(i) => Reqs[i] # at[p] /\ Reqs[i] \in Req
    BY <1>17, Requests DEF Expired
  <2>2. called' = [called EXCEPT ![at[p]] = Append(@, "timeout")] /\ active' = [active EXCEPT ![at[p]] = FALSE]
    BY <1>17 DEF Expired, Callback
  <2>3. \A r \in Req : r # at[p] => called'[r] = called[r] /\ active'[r] = active[r]
    BY <2>2, Calls, Zenon
  <2>4. UNCHANGED <<sent, clicks>> /\ \A q \in Instances : pc'[q] \in Working => pc[q] \in Working /\ at'[q] = at[q]
    BY <1>17 DEF Expired
  <2>5. ASSUME NEW i \in DOMAIN Reqs, Future(i)
        PROVE  /\ active'[Reqs[i]] = active[Reqs[i]] /\ called'[Reqs[i]] = called[Reqs[i]]
               /\ sent'[Reqs[i]] = sent[Reqs[i]] /\ clicks'[Reqs[i]] = clicks[Reqs[i]]
    BY <2>1, <2>3, <2>4, <2>5, Zenon
  <2> QED BY <2>0, <2>4, <2>5, StillUntouched, Zenon
<1>18. ASSUME NEW p \in Instances, Stray(p) PROVE Untouched'
  <2>0. \A i \in DOMAIN Reqs : Future(i)' <=> Future(i)
    BY <1>18 DEF Stray, Future
  <2>1. UNCHANGED <<active, called, clicks, sent>>
    BY <1>18 DEF Stray
  <2>2. \A q \in Instances : pc'[q] \in Working => pc[q] \in Working /\ at'[q] = at[q]
    BY <1>18 DEF Stray, OnListener
  <2> QED BY <2>0, <2>1, <2>2
<1>19. ASSUME NEW p \in Instances, Sweep(p) PROVE Untouched'
  <2>0. \A i \in DOMAIN Reqs : Future(i)' <=> Future(i)
    BY <1>19 DEF Sweep, Future
  <2>1. UNCHANGED <<active, called, clicks, sent>>
    BY <1>19 DEF Sweep
  <2>2. \A q \in Instances : pc'[q] \in Working => pc[q] \in Working /\ at'[q] = at[q]
    BY <1>19 DEF Sweep, OnListener
  <2> QED BY <2>0, <2>1, <2>2
<1>20. CASE UNCHANGED vars
  BY <1>20 DEF vars, Future
<1> QED BY <1>1, <1>2, <1>3, <1>4, <1>5, <1>6, <1>7, <1>8, <1>9, <1>10, <1>11, <1>12, <1>13, <1>14, <1>15, <1>16, <1>17, <1>18, <1>19, <1>20 DEF Next

\* An answered request stays answered.
Kept == \A r \in Req : Answered(r) => Answered(r)'

\* No step takes a call back.
LEMMA KeptAnswered == Typed /\ Mutex /\ [Next]_vars => Kept
<1> SUFFICES ASSUME Typed /\ Mutex, [Next]_vars PROVE Kept
  OBVIOUS
<1> USE AtHand DEF Typed, Kept, Answered, client, listeners, daemons, netvars, history
<1>1. CASE Transmit
  BY <1>1 DEF Transmit
<1>2. CASE PushBack
  BY <1>2 DEF PushBack
<1>3. CASE Link
  BY <1>3 DEF Link
<1>4. CASE Arm
  BY <1>4 DEF Arm
<1>5. CASE Wake
  BY <1>5 DEF Wake
<1>6. ASSUME NEW r \in Req, Answer(r) PROVE Kept
  BY <1>6 DEF Answer
<1>7. ASSUME NEW p \in Instances, Start(p) PROVE Kept
  BY <1>7 DEF Start
<1>8. ASSUME NEW p \in Instances, Match(p) PROVE Kept
  BY <1>8, Calls DEF Match, Callback
<1>9. ASSUME NEW p \in Instances, Matched(p) PROVE Kept
  BY <1>9 DEF Matched
<1>10. ASSUME NEW p \in Instances, Unmatched(p) PROVE Kept
  BY <1>10 DEF Unmatched
<1>11. ASSUME NEW p \in Instances, Unlock(p) PROVE Kept
  BY <1>11 DEF Unlock
<1>12. ASSUME NEW p \in Instances, Skip(p) PROVE Kept
  BY <1>12 DEF Skip
<1>13. ASSUME NEW p \in Instances, Age(p) PROVE Kept
  BY <1>13 DEF Age
<1>14. ASSUME NEW p \in Instances, Count(p) PROVE Kept
  BY <1>14 DEF Count
<1>15. ASSUME NEW p \in Instances, Retry(p) PROVE Kept
  BY <1>15 DEF Retry
<1>16. ASSUME NEW p \in Instances, Expire(p) PROVE Kept
  BY <1>16 DEF Expire
<1>17. ASSUME NEW p \in Instances, Expired(p) PROVE Kept
  BY <1>17, Calls DEF Expired, Callback
<1>18. ASSUME NEW p \in Instances, Stray(p) PROVE Kept
  BY <1>18 DEF Stray
<1>19. ASSUME NEW p \in Instances, Sweep(p) PROVE Kept
  BY <1>19 DEF Sweep
<1>20. CASE UNCHANGED vars
  BY <1>20 DEF vars
<1> QED BY <1>1, <1>2, <1>3, <1>4, <1>5, <1>6, <1>7, <1>8, <1>9, <1>10, <1>11, <1>12, <1>13, <1>14, <1>15, <1>16, <1>17, <1>18, <1>19, <1>20 DEF Next

\* The main thread goes on to another request, or is done, by Wake alone.
Stays == UNCHANGED cur /\ (main' = "served" => main = "served")

\* Every other step leaves the main thread at its request.
LEMMA OnlyWakeGoesOn == [Next]_vars => Stays \/ Wake
<1> SUFFICES ASSUME [Next]_vars PROVE Stays \/ Wake
  OBVIOUS
<1> USE DEF Stays, client, listeners, daemons, netvars, history
<1>1. CASE Transmit
  BY <1>1 DEF Transmit
<1>2. CASE PushBack
  BY <1>2 DEF PushBack
<1>3. CASE Link
  BY <1>3 DEF Link
<1>4. CASE Arm
  BY <1>4 DEF Arm
<1>5. CASE Wake
  BY <1>5
<1>6. ASSUME NEW r \in Req, Answer(r) PROVE Stays \/ Wake
  BY <1>6 DEF Answer
<1>7. ASSUME NEW p \in Instances, Start(p) PROVE Stays \/ Wake
  BY <1>7 DEF Start
<1>8. ASSUME NEW p \in Instances, Match(p) PROVE Stays \/ Wake
  BY <1>8 DEF Match, Callback
<1>9. ASSUME NEW p \in Instances, Matched(p) PROVE Stays \/ Wake
  BY <1>9 DEF Matched
<1>10. ASSUME NEW p \in Instances, Unmatched(p) PROVE Stays \/ Wake
  BY <1>10 DEF Unmatched
<1>11. ASSUME NEW p \in Instances, Unlock(p) PROVE Stays \/ Wake
  BY <1>11 DEF Unlock
<1>12. ASSUME NEW p \in Instances, Skip(p) PROVE Stays \/ Wake
  BY <1>12 DEF Skip
<1>13. ASSUME NEW p \in Instances, Age(p) PROVE Stays \/ Wake
  BY <1>13 DEF Age
<1>14. ASSUME NEW p \in Instances, Count(p) PROVE Stays \/ Wake
  BY <1>14 DEF Count
<1>15. ASSUME NEW p \in Instances, Retry(p) PROVE Stays \/ Wake
  BY <1>15 DEF Retry
<1>16. ASSUME NEW p \in Instances, Expire(p) PROVE Stays \/ Wake
  BY <1>16 DEF Expire
<1>17. ASSUME NEW p \in Instances, Expired(p) PROVE Stays \/ Wake
  BY <1>17 DEF Expired, Callback
<1>18. ASSUME NEW p \in Instances, Stray(p) PROVE Stays \/ Wake
  BY <1>18 DEF Stray
<1>19. ASSUME NEW p \in Instances, Sweep(p) PROVE Stays \/ Wake
  BY <1>19 DEF Sweep
<1>20. CASE UNCHANGED vars
  BY <1>20 DEF vars
<1> QED BY <1>1, <1>2, <1>3, <1>4, <1>5, <1>6, <1>7, <1>8, <1>9, <1>10, <1>11, <1>12, <1>13, <1>14, <1>15, <1>16, <1>17, <1>18, <1>19, <1>20 DEF Next

\* if_wait = 0 means the request waited for is answered.
WaitRight == main = "wait" /\ if_wait = 0 => Answered(Reqs[cur])

\* Wake goes on over an answered request only.
LEMMA ProceedsStep ==
  Typed /\ Mutex /\ WaitRight /\ ProceedsOnlyAnswered /\ [Next]_vars => ProceedsOnlyAnswered'
<1> SUFFICES ASSUME Typed, Mutex, WaitRight, ProceedsOnlyAnswered, [Next]_vars PROVE ProceedsOnlyAnswered'
  OBVIOUS
<1>1. \A i \in DOMAIN Reqs : Answered(Reqs[i]) => Answered(Reqs[i])'
  BY KeptAnswered, Requests DEF Kept
<1>2. \A i \in DOMAIN Reqs : i < cur \/ main = "served" => Answered(Reqs[i])
  BY DEF ProceedsOnlyAnswered, Answered
<1>3. CASE Stays
  BY <1>1, <1>2, <1>3 DEF Stays, ProceedsOnlyAnswered, Answered
<1>4. CASE Wake
  <2>1. \A i \in DOMAIN Reqs : i < cur' \/ main' = "served" => i < cur \/ (i = cur /\ main = "wait" /\ if_wait = 0)
    BY <1>4, Requests, Numbers DEF Wake, Typed
  <2> QED BY <1>1, <1>2, <2>1 DEF ProceedsOnlyAnswered, Answered, WaitRight
<1> QED BY <1>3, <1>4, OnlyWakeGoesOn

\* if_wait = 0 is written for the request waited for, or before Arm.
LEMMA WaitStep == Typed /\ Switches /\ Mutex /\ Marked /\ Untouched /\ ProceedsOnlyAnswered /\ WaitRight /\ [Next]_vars => WaitRight'
<1> SUFFICES ASSUME Typed /\ Switches /\ Mutex /\ Marked /\ Untouched /\ ProceedsOnlyAnswered /\ WaitRight, [Next]_vars PROVE WaitRight'
  OBVIOUS
<1> USE DEF WaitRight, client, listeners, daemons, netvars, history
<1>1. CASE Transmit
  BY <1>1 DEF Transmit
<1>2. CASE PushBack
  BY <1>2 DEF PushBack
<1>3. CASE Link
  BY <1>3 DEF Link
<1>4. CASE Arm
  BY <1>4 DEF Arm
<1>5. CASE Wake
  BY <1>5 DEF Wake
<1>6. ASSUME NEW r \in Req, Answer(r) PROVE WaitRight'
  BY <1>6, KeptAnswered, Requests DEF Answer, Kept, Typed
<1>7. ASSUME NEW p \in Instances, Start(p) PROVE WaitRight'
  BY <1>7, KeptAnswered, Requests DEF Start, Kept, Typed
<1>8. ASSUME NEW p \in Instances, Match(p) PROVE WaitRight'
  <2>1. PICK i \in DOMAIN Reqs : Head(res_lst) = Reqs[i]
    BY <1>8, AtHand, Requests DEF Match, Typed
  <2>2. Reqs[i] \in Req /\ active[Reqs[i]] /\ called' = [called EXCEPT ![Reqs[i]] = Append(@, "answer")]
    BY <1>8, <2>1, Requests DEF Match, Callback
  <2>3. Answered(Reqs[i])'
    BY <2>2, Calls
  <2>4. ~Answered(Reqs[i])
    BY <1>8, <2>1, <2>2 DEF Match, Mutex, Marked
  <2>5. ~(i < cur) /\ ~Future(i) /\ i \in Nat /\ cur \in Nat
    BY <2>2, <2>4, Requests, Numbers DEF ProceedsOnlyAnswered, Answered, Untouched, Typed
  <2>6. i = cur
    BY <2>5 DEF Future
  <2> QED BY <1>8, <2>3, <2>6 DEF Match
<1>9. ASSUME NEW p \in Instances, Matched(p) PROVE WaitRight'
  BY <1>9, KeptAnswered, Requests DEF Matched, Kept, Typed
<1>10. ASSUME NEW p \in Instances, Unmatched(p) PROVE WaitRight'
  BY <1>10, KeptAnswered, Requests DEF Unmatched, Kept, Typed
<1>11. ASSUME NEW p \in Instances, Unlock(p) PROVE WaitRight'
  BY <1>11, KeptAnswered, Requests DEF Unlock, Kept, Typed
<1>12. ASSUME NEW p \in Instances, Skip(p) PROVE WaitRight'
  BY <1>12, KeptAnswered, Requests DEF Skip, Kept, Typed
<1>13. ASSUME NEW p \in Instances, Age(p) PROVE WaitRight'
  BY <1>13, KeptAnswered, Requests DEF Age, Kept, Typed
<1>14. ASSUME NEW p \in Instances, Count(p) PROVE WaitRight'
  BY <1>14, KeptAnswered, Requests DEF Count, Kept, Typed
<1>15. ASSUME NEW p \in Instances, Retry(p) PROVE WaitRight'
  BY <1>15, KeptAnswered, Requests DEF Retry, Kept, Typed
<1>16. ASSUME NEW p \in Instances, Expire(p) PROVE WaitRight'
  BY <1>16, KeptAnswered, Requests DEF Expire, Kept, Typed
<1>17. ASSUME NEW p \in Instances, Expired(p) PROVE WaitRight'
  BY <1>17 DEF Expired, Callback
<1>18. ASSUME NEW p \in Instances, Stray(p) PROVE WaitRight'
  BY <1>18, KeptAnswered, Requests DEF Stray, Kept, Typed
<1>19. ASSUME NEW p \in Instances, Sweep(p) PROVE WaitRight'
  BY <1>19, KeptAnswered, Requests DEF Sweep, Kept, Typed
<1>20. CASE UNCHANGED vars
  BY <1>20 DEF vars, Answered
<1> QED BY <1>1, <1>2, <1>3, <1>4, <1>5, <1>6, <1>7, <1>8, <1>9, <1>10, <1>11, <1>12, <1>13, <1>14, <1>15, <1>16, <1>17, <1>18, <1>19, <1>20 DEF Next

-----------------------------------------------------------------------------
(* Retries.                                                                *)

\* Two instances at one listener have been seen.
Apart ==
  \A p, q \in Instances :
    p # q /\ pc[p] \in Working /\ pc[q] \in Working /\ at[p] = at[q] => at[p] \in raced

\* A listener is not deleted under an instance that counts its clicks, but in a race.
Alive == \A p \in Instances : pc[p] \in {"aging", "counted"} => at[p] \in raced \/ at[p] \notin freed

\* A listener pays for each retry with two clicks, and has as many as its timeout;
\* an instance that has counted a click has not yet sent for it.
Account(r) ==
  /\ clicks[r] <= Timeout[r] /\ sent[r] <= 1 + clicks[r] \div 2
  /\ \A p \in Instances : at[p] = r =>
       /\ pc[p] \in {"aging", "counted"} => mine[p] = clicks[r]
       /\ pc[p] = "aging" => clicks[r] < Timeout[r]
       /\ pc[p] = "counted" => clicks[r] > 0 /\ sent[r] <= 1 + (clicks[r] - 1) \div 2

Paid == \A r \in Req : r \in raced \/ Account(r)

Rounds == Apart /\ Alive /\ Paid

\* A step that has nothing to do with the listeners' clicks.
Quiet ==
  /\ UNCHANGED <<clicks, sent, freed, raced>>
  /\ \A q \in Instances : pc'[q] \in Working \/ pc[q] \in Working =>
       pc'[q] = pc[q] /\ at'[q] = at[q] /\ mine'[q] = mine[q]

\* The others.
Works ==
  \/ Transmit
  \/ \E p \in Instances : Age(p) \/ Count(p) \/ Retry(p) \/ Expire(p) \/ Expired(p)

\* Who counts, sends, deletes and races.
LEMMA Workers == Typed /\ [Next]_vars => Quiet \/ Works
<1> SUFFICES ASSUME Typed, [Next]_vars PROVE Quiet \/ Works
  OBVIOUS
<1> USE DEF Quiet, Works, Working, Typed, client, listeners, daemons, netvars, history
<1>1. CASE Transmit
  BY <1>1
<1>2. CASE PushBack
  BY <1>2 DEF PushBack
<1>3. CASE Link
  BY <1>3 DEF Link
<1>4. CASE Arm
  BY <1>4 DEF Arm
<1>5. CASE Wake
  BY <1>5 DEF Wake
<1>6. ASSUME NEW r \in Req, Answer(r) PROVE Quiet \/ Works
  BY <1>6 DEF Answer
<1>7. ASSUME NEW p \in Instances, Start(p) PROVE Quiet \/ Works
  BY <1>7 DEF Start
<1>8. ASSUME NEW p \in Instances, Match(p) PROVE Quiet \/ Works
  BY <1>8 DEF Match, Callback
<1>9. ASSUME NEW p \in Instances, Matched(p) PROVE Quiet \/ Works
  BY <1>9 DEF Matched
<1>10. ASSUME NEW p \in Instances, Unmatched(p) PROVE Quiet \/ Works
  BY <1>10 DEF Unmatched
<1>11. ASSUME NEW p \in Instances, Unlock(p) PROVE Quiet \/ Works
  BY <1>11 DEF Unlock
<1>12. ASSUME NEW p \in Instances, Skip(p) PROVE Quiet \/ Works
  BY <1>12 DEF Skip, OnListener
<1>13. ASSUME NEW p \in Instances, Age(p) PROVE Quiet \/ Works
  BY <1>13
<1>14. ASSUME NEW p \in Instances, Count(p) PROVE Quiet \/ Works
  BY <1>14
<1>15. ASSUME NEW p \in Instances, Retry(p) PROVE Quiet \/ Works
  BY <1>15
<1>16. ASSUME NEW p \in Instances, Expire(p) PROVE Quiet \/ Works
  BY <1>16
<1>17. ASSUME NEW p \in Instances, Expired(p) PROVE Quiet \/ Works
  BY <1>17
<1>18. ASSUME NEW p \in Instances, Stray(p) PROVE Quiet \/ Works
  BY <1>18 DEF Stray, OnListener
<1>19. ASSUME NEW p \in Instances, Sweep(p) PROVE Quiet \/ Works
  BY <1>19 DEF Sweep
<1>20. CASE UNCHANGED vars
  BY <1>20 DEF vars
<1> QED BY <1>1, <1>2, <1>3, <1>4, <1>5, <1>6, <1>7, <1>8, <1>9, <1>10, <1>11, <1>12, <1>13, <1>14, <1>15, <1>16, <1>17, <1>18, <1>19, <1>20 DEF Next

\* Every second click counts one retry ...
LEMMA Even ==
  ASSUME NEW n \in Nat, n > 0, NEW k \in Nat
  PROVE  /\ n % 2 = 0 /\ k <= 1 + (n - 1) \div 2 => k + 1 <= 1 + n \div 2
         /\ k <= 1 + (n - 1) \div 2 => k <= 1 + n \div 2
<1>1. n \div 2 \in Int /\ (n - 1) \div 2 \in Int /\ (n - 1) \div 2 <= n \div 2
  OBVIOUS
<1>2. n % 2 = 0 => n \div 2 = (n - 1) \div 2 + 1
  OBVIOUS
<1> QED BY ONLY <1>1, <1>2, k \in Nat

\* Steps that work on one listener leave the accounts of the others.
LEMMA OtherAccounts ==
  ASSUME NEW r, Account(r), clicks'[r] = clicks[r], sent'[r] = sent[r],
         \A q \in Instances : at'[q] = r /\ pc'[q] \in {"aging", "counted"} =>
           at[q] = r /\ pc'[q] = pc[q] /\ mine'[q] = mine[q]
  PROVE  Account(r)'
BY Zenon DEF Account

\* Only an instance alone at a listener counts and sends without a race.
LEMMA RoundsStep == Typed /\ Untouched /\ Rounds /\ [Next]_vars => Rounds'
<1> SUFFICES ASSUME Typed, Untouched, Rounds, [Next]_vars PROVE Rounds'
  OBVIOUS
<1>1. CASE Quiet
  <2>1. Apart'
    BY <1>1 DEF Quiet, Rounds, Apart
  <2>2. Alive'
    BY <1>1 DEF Quiet, Rounds, Alive, Working
  <2>3. ASSUME NEW r \in Req, r \notin raced' PROVE Account(r)'
    BY <1>1, <2>3, OtherAccounts DEF Quiet, Rounds, Paid, Working
  <2> QED BY <2>1, <2>2, <2>3 DEF Rounds, Paid
<1>2. CASE Transmit
  <2> DEFINE s == Reqs[cur]
  <2>1. /\ s \in Req /\ sent[s] = 0 /\ clicks[s] = 0
        /\ \A q \in Instances : pc[q] \in Working => at[q] # s
    BY <1>2, Requests DEF Transmit, Untouched, Future, Typed
  <2>2. UNCHANGED <<clicks, freed, raced, pc, at, mine>> /\ sent' = [sent EXCEPT ![s] = @ + 1]
    BY <1>2 DEF Transmit, daemons, history
  <2>3. Apart' /\ Alive'
    BY <2>2 DEF Rounds, Apart, Alive
  <2>4. ASSUME NEW r \in Req, r \notin raced' PROVE Account(r)'
    <3>1. Account(r)
      BY <2>2, <2>4 DEF Rounds, Paid
    <3>2. CASE r = s
      <4>1. sent'[r] = 1 /\ clicks'[r] = 0 /\ clicks[r] = 0
        BY <2>1, <2>2, <3>2 DEF Typed
      <4>2. \A q \in Instances : at'[q] = r => pc'[q] \notin {"aging", "counted"}
        BY <2>1, <2>2, <3>2 DEF Working
      <4>3. clicks'[r] <= Timeout[r] /\ sent'[r] <= 1 + clicks'[r] \div 2
        BY <3>1, <4>1 DEF Account
      <4> QED BY <4>2, <4>3 DEF Account
    <3>3. CASE r # s
      <4>1. sent'[r] = sent[r] /\ clicks'[r] = clicks[r]
        BY <2>2, <3>3 DEF Typed
      <4> QED BY <2>2, <3>1, <4>1, OtherAccounts
    <3> QED BY <3>2, <3>3
  <2> QED BY <2>3, <2>4 DEF Rounds, Paid
<1>3. ASSUME NEW p \in Instances, Age(p) PROVE Rounds'
  <2>1. /\ clicks[at[p]] < Timeout[at[p]] /\ at[p] \notin freed
        /\ mine' = [mine EXCEPT ![p] = clicks[at[p]]] /\ pc' = [pc EXCEPT ![p] = "aging"]
        /\ UNCHANGED <<clicks, sent, freed, at>>
    BY <1>3 DEF Age, Waits, OnListener, listeners, netvars
  <2>2. /\ raced \subseteq raced'
        /\ \A q \in Instances : q # p /\ at[q] = at[p] /\ pc[q] \in Working => at[p] \in raced'
    BY <1>3 DEF Age, Races
  <2>3. \A q \in Instances : q # p => pc'[q] = pc[q] /\ mine'[q] = mine[q]
    BY <2>1
  <2>4. pc'[p] = "aging" /\ mine'[p] = clicks[at[p]]
    BY <2>1 DEF Typed, Held
  <2>5. Apart'
    BY <2>1, <2>2, <2>3 DEF Rounds, Apart
  <2>6. Alive'
    BY <2>1, <2>2, <2>3 DEF Rounds, Alive
  <2>7. ASSUME NEW r \in Req, r \notin raced' PROVE Account(r)'
    <3>1. Account(r)
      BY <2>2, <2>7 DEF Rounds, Paid
    <3> QED BY <2>1, <2>3, <2>4, <3>1 DEF Account
  <2> QED BY <2>5, <2>6, <2>7 DEF Rounds, Paid
<1>4. ASSUME NEW p \in Instances, Count(p) PROVE Rounds'
  <2>1. /\ pc[p] = "aging" /\ pc' = [pc EXCEPT ![p] = "counted"] /\ UNCHANGED <<sent, freed, at, raced>>
    BY <1>4 DEF Count, netvars, history
  <2>2. PICK n \in {mine[p], clicks[at[p]]} :
          mine' = [mine EXCEPT ![p] = n + 1] /\ clicks' = [clicks EXCEPT ![at[p]] = n + 1]
    BY <1>4 DEF Count, Older
  <2>3. \A q \in Instances : q # p => pc'[q] = pc[q] /\ mine'[q] = mine[q]
    BY <2>1, <2>2
  <2>4. pc'[p] = "counted" /\ mine'[p] = n + 1
    BY <2>1, <2>2 DEF Typed, Held
  <2>5. Apart'
    BY <2>1, <2>3 DEF Rounds, Apart, Working
  <2>6. Alive'
    BY <2>1, <2>3 DEF Rounds, Alive
  <2>7. ASSUME NEW r \in Req, r \notin raced' PROVE Account(r)'
    <3>1. Account(r) /\ r \notin raced
      BY <2>1, <2>7 DEF Rounds, Paid
    <3>2. CASE r = at[p]
      <4>1. n = clicks[r] /\ clicks[r] < Timeout[r] /\ clicks[r] \in Nat
        BY <2>1, <2>2, <3>1, <3>2 DEF Account, Typed
      <4>2. \A q \in Instances : q # p /\ at[q] = r => pc'[q] \notin {"aging", "counted"}
        BY <2>1, <2>3, <3>1, <3>2 DEF Rounds, Apart, Working
      <4>3. clicks'[r] = clicks[r] + 1 /\ sent'[r] = sent[r] /\ mine'[p] = clicks'[r] /\ UNCHANGED at
        BY <2>1, <2>2, <2>4, <3>2, <4>1 DEF Typed
      <4>4. sent[r] \in Nat /\ sent[r] <= 1 + clicks[r] \div 2 /\ Timeout[r] \in Nat
        BY <3>1, RequestAssumption DEF Account, Typed
      <4>5. /\ clicks[r] + 1 <= Timeout[r] /\ clicks[r] + 1 > 0
            /\ sent[r] <= 1 + (clicks[r] + 1 - 1) \div 2
        BY ONLY <4>1, <4>4
      <4>6. sent[r] <= 1 + (clicks[r] + 1) \div 2
        BY ONLY <4>1, <4>4, <4>5, Even
      <4>7. /\ clicks'[r] <= Timeout[r] /\ clicks'[r] > 0
            /\ sent'[r] <= 1 + (clicks'[r] - 1) \div 2 /\ sent'[r] <= 1 + clicks'[r] \div 2
        <5> HIDE DEF Rounds
        <5> QED BY <4>1, <4>3, <4>5, <4>6
      <4>8. \A q \in Instances : at'[q] = r =>
              /\ pc'[q] \in {"aging", "counted"} => mine'[q] = clicks'[r]
              /\ pc'[q] # "aging"
        BY <2>4, <4>2, <4>3
      <4> QED BY <4>7, <4>8 DEF Account
    <3>3. CASE r # at[p]
      <4>1. clicks'[r] = clicks[r] /\ sent'[r] = sent[r]
        BY <2>1, <2>2, <3>3 DEF Typed
      <4> QED BY <2>1, <2>3, <3>1, <3>3, <4>1, OtherAccounts
    <3> QED BY <3>2, <3>3
  <2> QED BY <2>5, <2>6, <2>7 DEF Rounds, Paid
<1>5. ASSUME NEW p \in Instances, Retry(p) PROVE Rounds'
  <2>1. /\ pc[p] = "counted" /\ pc' = [pc EXCEPT ![p] = "walk"] /\ UNCHANGED <<clicks, freed, raced>>
        /\ mine' = [mine EXCEPT ![p] = 0] /\ \A q \in Instances : q # p => at'[q] = at[q]
    BY <1>5 DEF Retry, listeners, history
  <2>2. PICK n \in {mine[p], clicks[at[p]]}, twice \in IF at[p] \in freed THEN BOOLEAN ELSE {FALSE} :
          sent' = [sent EXCEPT ![at[p]] = IF n % 2 = 0 \/ twice THEN @ + 1 ELSE @]
    BY <1>5 DEF Retry, Resend
  <2>3. \A q \in Instances : q # p => pc'[q] = pc[q] /\ mine'[q] = mine[q]
    BY <2>1
  <2>4. pc'[p] = "walk"
    BY <2>1 DEF Typed
  <2>5. Apart'
    BY <2>1, <2>3, <2>4 DEF Rounds, Apart, Working
  <2>6. Alive'
    BY <2>1, <2>3, <2>4 DEF Rounds, Alive
  <2>7. ASSUME NEW r \in Req, r \notin raced' PROVE Account(r)'
    <3>1. Account(r) /\ r \notin raced
      BY <2>1, <2>7 DEF Rounds, Paid
    <3>2. CASE r = at[p]
      <4>1. n = clicks[r] /\ ~twice
        BY <2>1, <2>2, <3>1, <3>2 DEF Account, Rounds, Alive
      <4>2. \A q \in Instances : at'[q] = r => pc'[q] \notin {"aging", "counted"}
        BY <2>1, <2>3, <2>4, <3>1, <3>2 DEF Rounds, Apart, Working
      <4>3. /\ clicks[r] \in Nat /\ sent[r] \in Nat /\ clicks[r] > 0
            /\ sent[r] <= 1 + (clicks[r] - 1) \div 2 /\ clicks'[r] = clicks[r] /\ clicks[r] <= Timeout[r]
        BY <2>1, <3>1, <3>2 DEF Account, Typed
      <4>4. sent'[r] = IF clicks[r] % 2 = 0 THEN sent[r] + 1 ELSE sent[r]
        BY <2>2, <3>2, <4>1 DEF Typed
      <4>5. sent'[r] <= 1 + clicks'[r] \div 2 /\ clicks'[r] <= Timeout[r]
        BY ONLY <4>3, <4>4, Even
      <4> QED BY <4>2, <4>5 DEF Account
    <3>3. CASE r # at[p]
      <4>1. clicks'[r] = clicks[r] /\ sent'[r] = sent[r]
        BY <2>1, <2>2, <3>3 DEF Typed
      <4> QED BY <2>1, <2>3, <2>4, <3>1, <3>3, <4>1, OtherAccounts
    <3> QED BY <3>2, <3>3
  <2> QED BY <2>5, <2>6, <2>7 DEF Rounds, Paid
<1>6. ASSUME NEW p \in Instances, Expire(p) PROVE Rounds'
  <2>1. pc' = [pc EXCEPT ![p] = "expired"] /\ UNCHANGED <<clicks, sent, freed, at, mine>>
    BY <1>6 DEF Expire, listeners, netvars
  <2>2. /\ raced \subseteq raced'
        /\ \A q \in Instances : q # p /\ at[q] = at[p] /\ pc[q] \in Working => at[p] \in raced'
    BY <1>6 DEF Expire, Races
  <2>3. pc'[p] = "expired" /\ \A q \in Instances : q # p => pc'[q] = pc[q]
    BY <2>1 DEF Typed
  <2>4. Apart'
    BY <2>1, <2>2, <2>3 DEF Rounds, Apart
  <2>5. Alive'
    BY <2>1, <2>2, <2>3 DEF Rounds, Alive
  <2>6. ASSUME NEW r \in Req, r \notin raced' PROVE Account(r)'
    BY <2>1, <2>2, <2>3, <2>6, OtherAccounts DEF Rounds, Paid
  <2> QED BY <2>4, <2>5, <2>6 DEF Rounds, Paid
<1>7. ASSUME NEW p \in Instances, Expired(p) PROVE Rounds'
  <2>1. /\ pc[p] = "expired" /\ pc' = [pc EXCEPT ![p] = "walk"] /\ UNCHANGED <<clicks, sent, raced, mine>>
        /\ freed' = freed \union {at[p]} /\ \A q \in Instances : q # p => at'[q] = at[q]
    BY <1>7 DEF Expired, netvars, history
  <2>2. pc'[p] = "walk" /\ \A q \in Instances : q # p => pc'[q] = pc[q]
    BY <2>1 DEF Typed
  <2>3. Apart'
    BY <2>1, <2>2 DEF Rounds, Apart, Working
  <2>4. Alive'
    <3> SUFFICES ASSUME NEW q \in Instances, pc'[q] \in {"aging", "counted"}
                 PROVE  at'[q] \in raced' \/ at'[q] \notin freed'
      BY DEF Alive
    <3>1. q # p /\ at'[q] = at[q] /\ pc[q] \in {"aging", "counted"}
      BY <2>1, <2>2
    <3>2. at[q] \in raced \/ at[q] \notin freed
      BY <3>1 DEF Rounds, Alive
    <3>3. at[q] = at[p] => at[q] \in raced
      BY <2>1, <3>1 DEF Rounds, Apart, Working
    <3> QED BY <2>1, <3>1, <3>2, <3>3
  <2>5. ASSUME NEW r \in Req, r \notin raced' PROVE Account(r)'
    BY <2>1, <2>2, <2>5, OtherAccounts DEF Rounds, Paid
  <2> QED BY <2>3, <2>4, <2>5 DEF Rounds, Paid
<1> QED BY <1>1, <1>2, <1>3, <1>4, <1>5, <1>6, <1>7, Workers DEF Works

-----------------------------------------------------------------------------
(* Callbacks.                                                              *)

\* One instance of the daemon is under way at a time.
Single == overlapped \/ \A p, q \in Instances : pc[p] # "idle" /\ pc[q] # "idle" => p = q

\* Start records an overlap.
LEMMA SingleStep == Typed /\ Single /\ [Next]_vars => Single'
<1> SUFFICES ASSUME Typed /\ Single, [Next]_vars PROVE Single'
  OBVIOUS
<1> USE DEF Single, OnListener, Typed, client, listeners, daemons, netvars, history
<1>1. CASE Transmit
  BY <1>1 DEF Transmit
<1>2. CASE PushBack
  BY <1>2 DEF PushBack
<1>3. CASE Link
  BY <1>3 DEF Link
<1>4. CASE Arm
  BY <1>4 DEF Arm
<1>5. CASE Wake
  BY <1>5 DEF Wake
<1>6. ASSUME NEW r \in Req, Answer(r) PROVE Single'
  BY <1>6 DEF Answer
<1>7. ASSUME NEW p \in Instances, Start(p) PROVE Single'
  <2> SUFFICES ASSUME ~overlapped' PROVE \A q, s \in Instances : pc'[q] # "idle" /\ pc'[s] # "idle" => q = s
    BY DEF Single
  <2>1. \A q \in Instances : pc[q] = "idle"
    BY <1>7 DEF Start
  <2>2. \A q \in Instances : pc'[q] # "idle" => q = p
    BY <1>7, <2>1 DEF Start
  <2> QED BY <2>2
<1>8. ASSUME NEW p \in Instances, Match(p) PROVE Single'
  BY <1>8 DEF Match, Callback
<1>9. ASSUME NEW p \in Instances, Matched(p) PROVE Single'
  BY <1>9 DEF Matched
<1>10. ASSUME NEW p \in Instances, Unmatched(p) PROVE Single'
  BY <1>10 DEF Unmatched
<1>11. ASSUME NEW p \in Instances, Unlock(p) PROVE Single'
  BY <1>11 DEF Unlock
<1>12. ASSUME NEW p \in Instances, Skip(p) PROVE Single'
  BY <1>12 DEF Skip
<1>13. ASSUME NEW p \in Instances, Age(p) PROVE Single'
  BY <1>13 DEF Age
<1>14. ASSUME NEW p \in Instances, Count(p) PROVE Single'
  BY <1>14 DEF Count
<1>15. ASSUME NEW p \in Instances, Retry(p) PROVE Single'
  BY <1>15 DEF Retry
<1>16. ASSUME NEW p \in Instances, Expire(p) PROVE Single'
  BY <1>16 DEF Expire
<1>17. ASSUME NEW p \in Instances, Expired(p) PROVE Single'
  BY <1>17 DEF Expired, Callback
<1>18. ASSUME NEW p \in Instances, Stray(p) PROVE Single'
  BY <1>18 DEF Stray
<1>19. ASSUME NEW p \in Instances, Sweep(p) PROVE Single'
  BY <1>19 DEF Sweep
<1>20. CASE UNCHANGED vars
  BY <1>20 DEF vars
<1> QED BY <1>1, <1>2, <1>3, <1>4, <1>5, <1>6, <1>7, <1>8, <1>9, <1>10, <1>11, <1>12, <1>13, <1>14, <1>15, <1>16, <1>17, <1>18, <1>19, <1>20 DEF Next

\* An active listener has not been called back, but by the instance about to mark
\* it; nor has one about to be given up.
Calm ==
  /\ \A r \in Req : active[r] =>
       called[r] = <<>> \/ \E p \in Instances : pc[p] = "matched" /\ Head(res_lst) = r
  /\ \A p \in Instances : pc[p] = "expired" /\ at[p] \in Req => called[at[p]] = <<>>
  /\ \A r \in Req : Len(called[r]) <= 1

Once == overlapped \/ Calm

\* What was overlapped remains so.
LEMMA OverlappedStays == overlapped /\ [Next]_vars => overlapped'
<1> SUFFICES ASSUME overlapped, [Next]_vars PROVE overlapped'
  OBVIOUS
<1> USE DEF client, listeners, daemons, netvars, history
<1>1. CASE Transmit
  BY <1>1 DEF Transmit
<1>2. CASE PushBack
  BY <1>2 DEF PushBack
<1>3. CASE Link
  BY <1>3 DEF Link
<1>4. CASE Arm
  BY <1>4 DEF Arm
<1>5. CASE Wake
  BY <1>5 DEF Wake
<1>6. ASSUME NEW r \in Req, Answer(r) PROVE overlapped'
  BY <1>6 DEF Answer
<1>7. ASSUME NEW p \in Instances, Start(p) PROVE overlapped'
  BY <1>7 DEF Start
<1>8. ASSUME NEW p \in Instances, Match(p) PROVE overlapped'
  BY <1>8 DEF Match, Callback
<1>9. ASSUME NEW p \in Instances, Matched(p) PROVE overlapped'
  BY <1>9 DEF Matched
<1>10. ASSUME NEW p \in Instances, Unmatched(p) PROVE overlapped'
  BY <1>10 DEF Unmatched
<1>11. ASSUME NEW p \in Instances, Unlock(p) PROVE overlapped'
  BY <1>11 DEF Unlock
<1>12. ASSUME NEW p \in Instances, Skip(p) PROVE overlapped'
  BY <1>12 DEF Skip
<1>13. ASSUME NEW p \in Instances, Age(p) PROVE overlapped'
  BY <1>13 DEF Age
<1>14. ASSUME NEW p \in Instances, Count(p) PROVE overlapped'
  BY <1>14 DEF Count
<1>15. ASSUME NEW p \in Instances, Retry(p) PROVE overlapped'
  BY <1>15 DEF Retry
<1>16. ASSUME NEW p \in Instances, Expire(p) PROVE overlapped'
  BY <1>16 DEF Expire
<1>17. ASSUME NEW p \in Instances, Expired(p) PROVE overlapped'
  BY <1>17 DEF Expired, Callback
<1>18. ASSUME NEW p \in Instances, Stray(p) PROVE overlapped'
  BY <1>18 DEF Stray
<1>19. ASSUME NEW p \in Instances, Sweep(p) PROVE overlapped'
  BY <1>19 DEF Sweep
<1>20. CASE UNCHANGED vars
  BY <1>20 DEF vars
<1> QED BY <1>1, <1>2, <1>3, <1>4, <1>5, <1>6, <1>7, <1>8, <1>9, <1>10, <1>11, <1>12, <1>13, <1>14, <1>15, <1>16, <1>17, <1>18, <1>19, <1>20 DEF Next

\* Without overlaps, no callback is called twice.
LEMMA OnceStep == Typed /\ Switches /\ Mutex /\ Untouched /\ Single /\ Once /\ [Next]_vars => Once'
<1> SUFFICES ASSUME Typed /\ Switches /\ Mutex /\ Untouched /\ Single /\ Once, [Next]_vars, ~overlapped' PROVE Calm'
  BY DEF Once
<1>a. ~overlapped /\ Calm
  BY OverlappedStays DEF Once
<1> DEFINE Alone == \A p, q \in Instances : pc[p] # "idle" /\ pc[q] # "idle" => p = q
<1>b. Alone
  BY <1>a DEF Single
<1> USE <1>a, <1>b DEF Calm, client, listeners, daemons, netvars, history
<1>1. CASE Transmit
  <2>1. Reqs[cur] \in Req /\ called[Reqs[cur]] = <<>>
    BY <1>1, Requests DEF Transmit, Untouched, Future, Typed
  <2>2. active' = [active EXCEPT ![Reqs[cur]] = TRUE] /\ UNCHANGED <<called, pc, at, res_lst>>
    BY <1>1 DEF Transmit
  <2> QED BY <2>1, <2>2 DEF Typed
<1>2. CASE PushBack
  BY <1>2 DEF PushBack
<1>3. CASE Link
  BY <1>3 DEF Link
<1>4. CASE Arm
  BY <1>4 DEF Arm
<1>5. CASE Wake
  BY <1>5 DEF Wake
<1>6. ASSUME NEW r \in Req, Answer(r) PROVE Calm'
  <2>1. owner = Nobody /\ \A q \in Instances : pc[q] # "matched"
    BY <1>6, RequestAssumption DEF Answer, Mutex
  <2> QED BY <1>6, <2>1 DEF Answer
<1>7. ASSUME NEW p \in Instances, Start(p) PROVE Calm'
  <2>1. owner = Nobody /\ \A q \in Instances : pc[q] # "matched"
    BY <1>7, RequestAssumption DEF Start, Mutex
  <2>2. UNCHANGED <<active, called, at, res_lst>> /\ pc' = [pc EXCEPT ![p] = "match"]
    BY <1>7 DEF Start
  <2> QED BY <2>1, <2>2 DEF Typed
<1>8. ASSUME NEW p \in Instances, Match(p) PROVE Calm'
  <2>1. PICK r \in Req : r = Head(res_lst)
    BY <1>8, AtHand DEF Match, Typed
  <2>2. active[r] /\ called' = [called EXCEPT ![r] = Append(@, "answer")] /\ UNCHANGED <<active, at, res_lst>>
    BY <1>8, <2>1 DEF Match, Callback
  <2>3. pc[p] = "match" /\ pc' = [pc EXCEPT ![p] = "matched"]
    BY <1>8 DEF Match
  <2>4. \A q \in Instances : pc[q] # "matched" /\ pc[q] # "expired"
    BY <2>3 DEF Mutex
  <2>5. called[r] = <<>>
    BY <2>2, <2>4
  <2>6. Len(called'[r]) <= 1 /\ \A q \in Req : q # r => called'[q] = called[q]
    BY <2>2, <2>5, Calls
  <2>7. pc'[p] = "matched" /\ Head(res_lst') = r /\ \A q \in Instances : pc'[q] # "expired"
    BY <2>1, <2>2, <2>3, <2>4 DEF Typed
  <2> QED BY <2>2, <2>4, <2>6, <2>7
<1>9. ASSUME NEW p \in Instances, Matched(p) PROVE Calm'
  <2>1. PICK r \in Req : r = Head(res_lst)
    BY <1>9, AtHand DEF Matched, Mutex, Typed
  <2>2. active' = [active EXCEPT ![r] = FALSE] /\ UNCHANGED <<called, at>> /\ pc[p] = "matched" /\ pc' = [pc EXCEPT ![p] = "match"]
    BY <1>9, <2>1 DEF Matched
  <2>3. \A q \in Instances : pc[q] # "idle" => q = p
    BY <2>2
  <2>4. \A q \in Req : active'[q] => active[q] /\ q # r
    BY <2>2 DEF Switches
  <2>5. \A q \in Req : active'[q] => called[q] = <<>>
    BY <2>1, <2>4
  <2>6. \A q \in Instances : pc'[q] # "expired"
    BY <2>2, <2>3 DEF Typed
  <2> QED BY <2>2, <2>5, <2>6
<1>10. ASSUME NEW p \in Instances, Unmatched(p) PROVE Calm'
  <2>1. pc[p] = "match" /\ UNCHANGED <<active, called, pc, at>>
    BY <1>10 DEF Unmatched
  <2>2. \A q \in Instances : pc[q] # "matched" /\ pc[q] # "expired"
    BY <2>1 DEF Mutex
  <2> QED BY <2>1, <2>2
<1>11. ASSUME NEW p \in Instances, Unlock(p) PROVE Calm'
  <2>1. pc[p] = "match" /\ UNCHANGED <<active, called, res_lst>> /\ pc' = [pc EXCEPT ![p] = "walk"]
    BY <1>11 DEF Unlock
  <2>2. \A q \in Instances : pc[q] # "idle" => q = p
    BY <2>1
  <2>3. \A q \in Instances : pc[q] # "matched" /\ pc'[q] # "expired"
    BY <2>1, <2>2 DEF Typed
  <2> QED BY <2>1, <2>3
<1>12. ASSUME NEW p \in Instances, Skip(p) PROVE Calm'
  <2>1. pc[p] = "walk" /\ pc'[p] # "expired" /\ pc'[p] # "matched" /\ UNCHANGED <<active, called, res_lst>>
    BY <1>12 DEF Skip, OnListener, Typed
  <2>2. \A q \in Instances : pc[q] # "matched" /\ pc[q] # "expired"
    BY <2>1
  <2>3. \A q \in Instances : q # p => pc'[q] = pc[q]
    BY <1>12 DEF Skip
  <2>4. \A q \in Instances : pc'[q] # "expired"
    BY <2>1, <2>2, <2>3
  <2> QED BY <2>1, <2>2, <2>4
<1>13. ASSUME NEW p \in Instances, Age(p) PROVE Calm'
  <2>1. pc[p] = "walk" /\ pc'[p] # "expired" /\ pc'[p] # "matched" /\ UNCHANGED <<active, called, res_lst>>
    BY <1>13 DEF Age, OnListener, Typed
  <2>2. \A q \in Instances : pc[q] # "matched" /\ pc[q] # "expired"
    BY <2>1
  <2>3. \A q \in Instances : q # p => pc'[q] = pc[q]
    BY <1>13 DEF Age
  <2>4. \A q \in Instances : pc'[q] # "expired"
    BY <2>1, <2>2, <2>3
  <2> QED BY <2>1, <2>2, <2>4
<1>14. ASSUME NEW p \in Instances, Count(p) PROVE Calm'
  <2>1. pc[p] = "aging" /\ pc'[p] # "expired" /\ pc'[p] # "matched" /\ UNCHANGED <<active, called, res_lst>>
    BY <1>14 DEF Count, OnListener, Typed
  <2>2. \A q \in Instances : pc[q] # "matched" /\ pc[q] # "expired"
    BY <2>1
  <2>3. \A q \in Instances : q # p => pc'[q] = pc[q]
    BY <1>14 DEF Count
  <2>4. \A q \in Instances : pc'[q] # "expired"
    BY <2>1, <2>2, <2>3
  <2> QED BY <2>1, <2>2, <2>4
<1>15. ASSUME NEW p \in Instances, Retry(p) PROVE Calm'
  <2>1. pc[p] = "counted" /\ pc'[p] # "expired" /\ pc'[p] # "matched" /\ UNCHANGED <<active, called, res_lst>>
    BY <1>15 DEF Retry, OnListener, Typed
  <2>2. \A q \in Instances : pc[q] # "matched" /\ pc[q] # "expired"
    BY <2>1
  <2>3. \A q \in Instances : q # p => pc'[q] = pc[q]
    BY <1>15 DEF Retry
  <2>4. \A q \in Instances : pc'[q] # "expired"
    BY <2>1, <2>2, <2>3
  <2> QED BY <2>1, <2>2, <2>4
<1>16. ASSUME NEW p \in Instances, Expire(p) PROVE Calm'
  <2>1. pc[p] = "walk" /\ active[at[p]] /\ UNCHANGED <<active, called, res_lst, at>> /\ pc' = [pc EXCEPT ![p] = "expired"]
    BY <1>16 DEF Expire, OnListener
  <2>2. \A q \in Instances : pc[q] # "idle" => q = p
    BY <2>1
  <2>3. \A q \in Instances : pc[q] # "matched" /\ (pc'[q] = "expired" => q = p)
    BY <2>1, <2>2 DEF Typed
  <2> QED BY <2>1, <2>3
<1>17. ASSUME NEW p \in Instances, Expired(p) PROVE Calm'
  <2>1. pc[p] = "expired" /\ UNCHANGED res_lst /\ pc' = [pc EXCEPT ![p] = "walk"]
    BY <1>17 DEF Expired
  <2>2. called' = [called EXCEPT ![at[p]] = Append(@, "timeout")] /\ active' = [active EXCEPT ![at[p]] = FALSE]
    BY <1>17 DEF Expired, Callback
  <2>3. \A q \in Instances : pc[q] # "matched" /\ pc'[q] # "expired"
    BY <2>1 DEF Typed
  <2>4. \A r \in Req : r # at[p] => called'[r] = called[r]
    BY <2>2, Calls
  <2>5. \A r \in Req : active'[r] => active[r] /\ r # at[p]
    BY <2>2 DEF Switches
  <2>6. at[p] \in Req => called[at[p]] = <<>> /\ Len(called[at[p]]) = 0
    BY <2>1
  <2>7. at[p] \in Req => Len(called'[at[p]]) <= 1
    BY <2>2, <2>6, Calls
  <2> QED BY <2>3, <2>4, <2>5, <2>7
<1>18. ASSUME NEW p \in Instances, Stray(p) PROVE Calm'
  <2>1. pc[p] = "walk" /\ pc'[p] # "expired" /\ pc'[p] # "matched" /\ UNCHANGED <<active, called, res_lst>>
    BY <1>18 DEF Stray, OnListener, Typed
  <2>2. \A q \in Instances : pc[q] # "matched" /\ pc[q] # "expired"
    BY <2>1
  <2>3. \A q \in Instances : q # p => pc'[q] = pc[q]
    BY <1>18 DEF Stray
  <2>4. \A q \in Instances : pc'[q] # "expired"
    BY <2>1, <2>2, <2>3
  <2> QED BY <2>1, <2>2, <2>4
<1>19. ASSUME NEW p \in Instances, Sweep(p) PROVE Calm'
  <2>1. pc[p] = "walk" /\ pc'[p] # "expired" /\ pc'[p] # "matched" /\ UNCHANGED <<active, called, res_lst>>
    BY <1>19 DEF Sweep, OnListener, Typed
  <2>2. \A q \in Instances : pc[q] # "matched" /\ pc[q] # "expired"
    BY <2>1
  <2>3. \A q \in Instances : q # p => pc'[q] = pc[q]
    BY <1>19 DEF Sweep
  <2>4. \A q \in Instances : pc'[q] # "expired"
    BY <2>1, <2>2, <2>3
  <2> QED BY <2>1, <2>2, <2>4
<1>20. CASE UNCHANGED vars
  BY <1>20 DEF vars
<1> QED BY <1>1, <1>2, <1>3, <1>4, <1>5, <1>6, <1>7, <1>8, <1>9, <1>10, <1>11, <1>12, <1>13, <1>14, <1>15, <1>16, <1>17, <1>18, <1>19, <1>20 DEF Next

-----------------------------------------------------------------------------
(* The theorems.                                                           *)

Inv ==
  /\ Typed /\ Switches /\ Mutex
  /\ Untouched /\ Marked /\ WaitRight /\ ProceedsOnlyAnswered
  /\ Rounds /\ Single /\ Once

\* The invariant holds at first ...
LEMMA InitInv == Init => Inv
<1> SUFFICES ASSUME Init PROVE Inv
  OBVIOUS
<1> USE DEF Init
<1>1. Typed /\ Switches
  <2>1. 1 \in DOMAIN Reqs
    BY Requests
  <2>2. <<>> \in Seq(Req) /\ <<>> \in Seq({"answer", "timeout"})
    BY EmptySeq
  <2>3. Switches
    BY DEF Switches
  <2>4. Held
    BY DEF Held
  <2>5. Typed
    BY <2>1, <2>2, <2>4 DEF Typed
  <2> QED BY <2>3, <2>5
<1>2. Mutex
  <2>1. \A p \in Instances : pc[p] = "idle"
    OBVIOUS
  <2> QED BY <2>1 DEF Mutex
<1>3. Untouched
  BY Requests DEF Untouched, Working
<1>4. Marked
  BY DEF Marked
<1>5. WaitRight
  BY DEF WaitRight
<1>6. ProceedsOnlyAnswered
  BY Requests DEF ProceedsOnlyAnswered
<1>7. Rounds
  <2>1. Apart /\ Alive
    BY DEF Apart, Alive, Working
  <2>2. Paid
    BY RequestAssumption DEF Paid, Account
  <2> QED BY <2>1, <2>2 DEF Rounds
<1>8. Single
  BY DEF Single
<1>9. Once
  BY DEF Once, Calm
<1> QED BY <1>1, <1>2, <1>3, <1>4, <1>5, <1>6, <1>7, <1>8, <1>9 DEF Inv

\* ... every step keeps it ...
LEMMA NextInv == Inv /\ [Next]_vars => Inv'
BY TypedStep, SwitchesStep, MutexStep, UntouchedStep, MarkedStep, WaitStep, ProceedsStep,
   RoundsStep, SingleStep, OnceStep, RequestAssumption DEF Inv

\* ... and so it always holds.
LEMMA Invariance == Spec => []Inv
BY InitInv, NextInv, PTL DEF Spec

\* The main thread goes on to the next request only when if_wait = 0 was written
\* by the callback of the request before it: an answer to an earlier request that
\* comes again finds its listener marked, and one to a later request none.
THEOREM ProceedsRight == Spec => []ProceedsOnlyAnswered
BY Invariance, PTL DEF Inv

\* Each retry costs two clicks of the listener, and a listener is given up when its
\* clicks reach its timeout: instances of the daemon that overlap share its clicks,
\* as long as no two of them are at it together, each between reading the clicks and
\* sending for them, or giving it up.
THEOREM RetriesLimited == Spec => []RetriesBounded
<1>1. Inv => RetriesBounded
  <2> SUFFICES ASSUME Inv, NEW r \in Req, r \notin raced PROVE sent[r] <= 1 + Timeout[r] \div 2
    BY DEF RetriesBounded
  <2>1. sent[r] \in Nat /\ clicks[r] \in Nat /\ Timeout[r] \in Nat
    BY RequestAssumption DEF Inv, Typed
  <2>2. sent[r] <= 1 + clicks[r] \div 2 /\ clicks[r] <= Timeout[r]
    BY DEF Inv, Rounds, Paid, Account
  <2>3. clicks[r] \div 2 <= Timeout[r] \div 2 /\ clicks[r] \div 2 \in Int /\ Timeout[r] \div 2 \in Int
    BY <2>1, <2>2
  <2> QED BY <2>1, <2>2, <2>3
<1> QED BY <1>1, Invariance, PTL

\* While the clock's runs do not overlap, an active listener is one whose callback
\* has not been called: each callback is called at most once.
THEOREM CalledOnce == Spec => []CallbackOnce
<1>1. Inv => CallbackOnce
  BY DEF Inv, Once, Calm, CallbackOnce
<1> QED BY <1>1, Invariance, PTL
=============================================================================
