------------------------- MODULE SessionLoginProofs -------------------------
(***************************************************************************)
(* Proofs about SessionLogin, for any number of accounts, daemons, tries,  *)
(* clicks, starts and restarts.                                            *)
(***************************************************************************)
EXTENDS SessionLogin, TLAPS

\* Runs still to come ask for nothing yet.
Future == \A n \in Runs : n > run => wanted[n] = None

\* A client that asks has no service yet, and asks for what it knows.
Asking == client = "asking" => ~service /\ run \in Runs /\ wanted[run] = known

Unasked(a) == \A n \in Runs : wanted[n] # a

\* Two daemons of one account come of a login only.
OneDaemon ==
  \A d, e \in Daemon :
    (pc[d] # "idle" /\ pc[e] # "idle" /\ acct[d] = acct[e] /\ Unasked(acct[d])) => d = e

Inv == TypeOK /\ LoginIsRegistered /\ Asking /\ Future /\ OneDaemon /\ StatusTrueUntilLogin

Pcs == {"idle", "connect", "hello", "record", "watch", "join"}

-----------------------------------------------------------------------------
\* The instance chosen for a new daemon is a free one.
LEMMA ChosenIsFree ==
  (\E e \in Daemon : Idle(e)) => FreeDaemon \in Daemon /\ pc[FreeDaemon] = "idle"
<1>1. (\E e \in Daemon : Idle(e)) => FreeDaemon \in Daemon /\ Idle(FreeDaemon)
  BY DEF FreeDaemon
<1> QED BY <1>1 DEF Idle

-----------------------------------------------------------------------------
(* Type correctness, by groups of variables.                               *)

TypeClient ==
  /\ client \in {"off", "asking", "shell"} /\ service \in BOOLEAN
  /\ run \in 0 .. MaxRuns /\ stored \in 0 .. MaxRuns
  /\ known \in Account \union {None}
TypeNet ==
  /\ wanted \in [Runs -> Account \union {None}]
  /\ copies \in [Runs -> Nat] /\ \A n \in Runs : copies[n] <= Copies[n]
  /\ answered \in BOOLEAN
  /\ handing \subseteq rows
TypeServer ==
  /\ up \in BOOLEAN /\ boots \in 1 .. MaxBoots
  /\ rids \subseteq Runs
  /\ rows \subseteq Account /\ spent \subseteq rows
  /\ key \in [Account -> 0 .. MaxRuns]
  /\ status \in [Account -> {0, 1}]
TypeDaemons ==
  /\ pc \in [Daemon -> Pcs]
  /\ acct \in [Daemon -> Account \union {None}]
  /\ \A d \in Daemon : IF pc[d] = "idle" THEN acct[d] = None ELSE acct[d] \in rows
  /\ tries \in [Daemon -> 0 .. Tries - 1]
  /\ click \in [Daemon -> 0 .. Life]
  /\ link \in [Daemon -> 0 .. MaxRuns]
TypeThreads ==
  /\ listener \in [Daemon -> {"none", "reconnect", "recv", "end"}]
  /\ checker \in [Daemon -> {"none", "connect", "beat", "end"}]
  /\ peer \in [Daemon -> (0 .. MaxRuns) \X (0 .. MaxRuns)]
  /\ if_connected \in [Daemon -> BOOLEAN]

\* The type invariant in groups.
LEMMA TypeGroups ==
  TypeOK <=> TypeClient /\ TypeNet /\ TypeServer /\ TypeDaemons /\ TypeThreads
BY DEF TypeOK, TypeClient, TypeNet, TypeServer, TypeDaemons, TypeThreads, Pcs

\* The invariant holds at first.
LEMMA InitInv == Init => Inv
<1> SUFFICES ASSUME Init PROVE Inv
  OBVIOUS
<1>1. TypeClient
  <2>1. 0 \in 0 .. MaxRuns
    BY SessionAssumption
  <2> QED BY <2>1, Zenon DEF Init, TypeClient
<1>6. TypeServer
  <2>1. 1 \in 1 .. MaxBoots
    BY SessionAssumption
  <2>2. status \in [Account -> {0, 1}]
    BY DEF Init
  <2>3. key \in [Account -> 0 .. MaxRuns]
    BY SessionAssumption DEF Init
  <2> QED BY <2>1, <2>2, <2>3, Zenon DEF Init, TypeServer
<1>5. TypeNet
  <2>1. \A n \in Runs : Copies[n] \in Nat /\ copies[n] = 0
    BY SessionAssumption DEF Init, Runs
  <2>2. copies \in [Runs -> Nat] /\ \A n \in Runs : copies[n] <= Copies[n]
    BY <2>1 DEF Init
  <2> QED BY <2>2 DEF Init, TypeNet
<1>2. TypeDaemons /\ TypeThreads
  BY SessionAssumption DEF Init, TypeDaemons, TypeThreads, Pcs
<1>3. LoginIsRegistered /\ Asking /\ Future
  BY DEF Init, LoginIsRegistered, Asking, Future
<1>4. OneDaemon /\ StatusTrueUntilLogin
  BY DEF Init, OneDaemon, StatusTrueUntilLogin
<1> QED BY <1>1, <1>2, <1>3, <1>4, <1>5, <1>6, TypeGroups DEF Inv

\* A step changes few of the groups; the others, left alone, keep their types.
LEMMA GroupsKept ==
  ASSUME TypeOK
  PROVE  /\ UNCHANGED clientVars => TypeClient'
         /\ (UNCHANGED netVars /\ rows \subseteq rows') => TypeNet'
         /\ UNCHANGED <<up, boots, tableVars>> => TypeServer'
         /\ (UNCHANGED <<pc, acct, tries, click, link>> /\ rows \subseteq rows') => TypeDaemons'
         /\ UNCHANGED threadVars => TypeThreads'
<1> USE TypeGroups
<1>1. UNCHANGED clientVars => TypeClient'
  BY Zenon DEF clientVars, TypeClient
<1>2. (UNCHANGED netVars /\ rows \subseteq rows') => TypeNet'
  <2> SUFFICES ASSUME UNCHANGED netVars, rows \subseteq rows' PROVE TypeNet'
    OBVIOUS
  <2>1. handing' \subseteq rows'
    BY DEF netVars, TypeNet
  <2> QED BY <2>1, Zenon DEF netVars, TypeNet
<1>3. UNCHANGED <<up, boots, tableVars>> => TypeServer'
  BY Zenon DEF tableVars, TypeServer
<1>4. (UNCHANGED <<pc, acct, tries, click, link>> /\ rows \subseteq rows') => TypeDaemons'
  <2> SUFFICES ASSUME UNCHANGED <<pc, acct, tries, click, link>>, rows \subseteq rows'
               PROVE  TypeDaemons'
    OBVIOUS
  <2>1. \A d \in Daemon : IF pc'[d] = "idle" THEN acct'[d] = None ELSE acct'[d] \in rows'
    BY DEF TypeDaemons
  <2> QED BY <2>1, Zenon DEF TypeDaemons
<1>5. UNCHANGED threadVars => TypeThreads'
  BY Zenon DEF threadVars, TypeThreads
<1> QED BY <1>1, <1>2, <1>3, <1>4, <1>5

LEMMA StartKept ==
  ASSUME TypeOK, NEW d \in Daemon, NEW a \in rows', NEW n \in 0 .. Life,
         StartDaemon(d, a, n), rows \subseteq rows', rows' \subseteq Account
  PROVE  TypeDaemons' /\ TypeThreads'
<1> USE TypeGroups
<1>1. TypeThreads'
  BY Zenon DEF StartDaemon, TypeThreads, threadVars
<1>2. pc' \in [Daemon -> Pcs] /\ acct' \in [Daemon -> Account \union {None}]
  BY DEF StartDaemon, TypeDaemons, Pcs
<1>3. \A e \in Daemon : IF pc'[e] = "idle" THEN acct'[e] = None ELSE acct'[e] \in rows'
  BY DEF StartDaemon, TypeDaemons, Pcs
<1>4. click' \in [Daemon -> 0 .. Life]
  BY DEF StartDaemon, TypeDaemons
<1>5. tries' \in [Daemon -> 0 .. Tries - 1] /\ link' \in [Daemon -> 0 .. MaxRuns]
  BY Zenon DEF StartDaemon, TypeDaemons
<1> QED BY <1>1, <1>2, <1>3, <1>4, <1>5 DEF TypeDaemons

LEMMA EndsKept ==
  ASSUME TypeOK, NEW d \in Daemon, Ends(d), rows' = rows
  PROVE  TypeDaemons'
<1> USE TypeGroups
<1>1. pc' \in [Daemon -> Pcs] /\ acct' \in [Daemon -> Account \union {None}]
  BY DEF Ends, TypeDaemons, Pcs
<1>2. \A e \in Daemon : IF pc'[e] = "idle" THEN acct'[e] = None ELSE acct'[e] \in rows'
  BY DEF Ends, TypeDaemons, Pcs
<1>3. 0 \in 0 .. Tries - 1 /\ 0 \in 0 .. Life /\ 0 \in 0 .. MaxRuns
  BY SessionAssumption
<1>4. tries' \in [Daemon -> 0 .. Tries - 1] /\ click' \in [Daemon -> 0 .. Life]
  BY <1>3 DEF Ends, TypeDaemons
<1>5. link' \in [Daemon -> 0 .. MaxRuns]
  BY <1>3 DEF Ends, TypeDaemons
<1> QED BY <1>1, <1>2, <1>4, <1>5 DEF TypeDaemons

LEMMA DiesKept ==
  ASSUME TypeOK, Dies
  PROVE  TypeOK'
<1> USE TypeGroups
<1>1. TypeClient'
  BY GroupsKept, Zenon DEF Dies
<1>2. TypeNet'
  BY GroupsKept, Zenon DEF Dies
<1>3. TypeServer'
  <2>1. rids' \subseteq Runs
    BY DEF Dies
  <2> QED BY <2>1, Zenon DEF Dies, TypeServer
<1>4. 0 \in 0 .. Tries - 1 /\ 0 \in 0 .. Life /\ 0 \in 0 .. MaxRuns
  BY SessionAssumption
<1>5. TypeDaemons'
  BY <1>4 DEF Dies, TypeDaemons, Pcs
<1>6. TypeThreads'
  BY <1>4 DEF Dies, TypeThreads
<1> QED BY <1>1, <1>2, <1>3, <1>5, <1>6, Zenon DEF TypeOK, TypeClient, TypeNet, TypeServer,
        TypeDaemons, TypeThreads, Pcs

LEMMA TypeKept == TypeOK /\ [Next]_vars => TypeOK'
<1> SUFFICES ASSUME TypeOK, [Next]_vars
             PROVE  TypeClient' /\ TypeNet' /\ TypeServer' /\ TypeDaemons' /\ TypeThreads'
  BY Zenon DEF TypeOK, TypeClient, TypeNet, TypeServer, TypeDaemons, TypeThreads, Pcs
<1> USE TypeGroups, GroupsKept
<1>1. CASE Ask
  <2>1. run + 1 \in Runs /\ run' = run + 1 /\ run' \in 0 .. MaxRuns
    BY <1>1, SessionAssumption DEF Ask, Runs, TypeClient
  <2>2. TypeClient'
    BY <1>1, <2>1 DEF Ask, TypeClient
  <2>3. wanted' \in [Runs -> Account \union {None}]
    BY <1>1, <2>1 DEF Ask, TypeNet, TypeClient
  <2>4. copies' \in [Runs -> Nat] /\ \A n \in Runs : copies'[n] <= Copies[n]
    <3>1. \A n \in Runs : Copies[n] \in Nat
      BY SessionAssumption DEF Runs
    <3> QED BY <1>1, <2>1, <3>1 DEF Ask, TypeNet
  <2>5. TypeNet'
    BY <1>1, <2>3, <2>4, Zenon DEF Ask, TypeNet, tableVars
  <2> QED BY <1>1, <2>2, <2>5, Zenon DEF Ask, tableVars, daemonVars
<1>2. CASE Serve
  <2>1. TypeClient'
    BY <1>2 DEF Serve, TypeClient
  <2>2. TypeNet'
    BY <1>2, Zenon DEF Serve, TypeNet, tableVars
  <2> QED BY <1>2, <2>1, <2>2, Zenon DEF Serve, daemonVars, tableVars
<1>3. CASE Leave
  <2>1. TypeClient' /\ TypeNet'
    BY <1>3, Zenon DEF Leave, TypeClient, TypeNet, tableVars
  <2> QED BY <1>3, <2>1, Zenon DEF Leave, daemonVars, tableVars
<1>3a. ASSUME ServiceEnds \/ \E a \in handing : WrongKey(a)
       PROVE  TypeClient' /\ TypeNet' /\ TypeServer' /\ TypeDaemons' /\ TypeThreads'
  <2>1. /\ Closed
        /\ UNCHANGED <<client, run, known, stored, wanted, copies, answered, up, boots,
                       tableVars, daemonVars>>
    BY <1>3a, Zenon DEF ServiceEnds, WrongKey
  <2>2. TypeClient' /\ TypeNet'
    BY <2>1, Zenon DEF Closed, TypeClient, TypeNet, tableVars
  <2> QED BY <2>1, <2>2, Zenon DEF daemonVars, tableVars
<1>4. ASSUME NEW a \in handing, TakeAccount(a)
      PROVE  TypeClient' /\ TypeNet' /\ TypeServer' /\ TypeDaemons' /\ TypeThreads'
  <2>1. a \in Account /\ handing' \subseteq rows
    BY <1>4 DEF TakeAccount, TypeNet, TypeServer
  <2>2. TypeClient' /\ TypeNet'
    BY <1>4, <2>1, Zenon DEF TakeAccount, TypeClient, TypeNet, tableVars
  <2> QED BY <1>4, <2>2, Zenon DEF TakeAccount, daemonVars, tableVars
<1>5. ASSUME NEW n \in Runs, Receiving(n), answered' \in BOOLEAN, rows \subseteq rows'
      PROVE  TypeClient' /\ TypeNet'
  <2>1. copies' \in [Runs -> Nat] /\ \A m \in Runs : copies'[m] <= Copies[m]
    <3>1. \A m \in Runs : Copies[m] \in Nat
      BY SessionAssumption DEF Runs
    <3> QED BY <1>5, <3>1 DEF Receiving, TypeNet
  <2>2. handing' \subseteq rows'
    BY <1>5 DEF Receiving, TypeNet
  <2> QED BY <1>5, <2>1, <2>2, Zenon DEF Receiving, TypeNet
<1>51. \A n \in Runs : Answering(n) => Receiving(n) /\ answered' \in BOOLEAN
  BY Zenon DEF Answering, TypeNet
<1>6. ASSUME NEW n \in Runs, Register(n)
      PROVE  TypeClient' /\ TypeNet' /\ TypeServer' /\ TypeDaemons' /\ TypeThreads'
  <2>1. PICK a \in Account \ rows :
               /\ rows' = rows \union {a} /\ key' = [key EXCEPT ![a] = n]
               /\ status' = [status EXCEPT ![a] = 0]
               /\ StartDaemon(FreeDaemon, a, Life)
    BY <1>6, Zenon DEF Register
  <2>7. FreeDaemon \in Daemon /\ a \in rows'
    BY <2>1, ChosenIsFree DEF StartDaemon
  <2>2. rows \subseteq rows' /\ rows' \subseteq Account
    BY <1>6, <2>1 DEF Register, TypeServer
  <2>3. Life \in 0 .. Life
    BY SessionAssumption
  <2>4. TypeDaemons' /\ TypeThreads'
    BY <2>1, <2>7, <2>2, <2>3, StartKept, Zenon
  <2>5. rids' \subseteq Runs /\ status' \in [Account -> {0, 1}] /\ spent' \subseteq rows'
    BY <1>6, <2>1, <2>2 DEF Register, TypeServer
  <2>8. key' \in [Account -> 0 .. MaxRuns]
    BY <2>1, SessionAssumption DEF TypeServer, Runs
  <2>6. TypeServer'
    BY <1>6, <2>2, <2>5, <2>8, Zenon DEF Register, Answering, Receiving, TypeServer
  <2> QED BY <1>5, <1>51, <1>6, <2>2, <2>4, <2>6, Zenon DEF Register
<1>7. ASSUME NEW n \in Runs, RegisteredBefore(n) \/ LoginOnLine(n) \/ LoginInvalid(n)
      PROVE  TypeClient' /\ TypeNet' /\ TypeServer' /\ TypeDaemons' /\ TypeThreads'
  <2>1. Receiving(n) /\ answered' \in BOOLEAN
    BY <1>51, <1>7, Zenon DEF RegisteredBefore, LoginOnLine, LoginInvalid, TypeNet
  <2>2. rows' = rows /\ rows \subseteq rows' /\ UNCHANGED <<tableVars, daemonVars>>
    BY <1>7 DEF RegisteredBefore, LoginOnLine, LoginInvalid, tableVars
  <2>3. TypeClient' /\ TypeNet'
    BY <1>5, <2>1, <2>2, Zenon
  <2> QED BY <2>1, <2>2, <2>3, Zenon DEF Receiving, tableVars, daemonVars
<1>8. ASSUME NEW n \in Runs, Login(n)
      PROVE  TypeClient' /\ TypeNet' /\ TypeServer' /\ TypeDaemons' /\ TypeThreads'
  <2>1. rows' = rows /\ rows \subseteq rows' /\ rows' \subseteq Account
    BY <1>8 DEF Login, TypeServer
  <2>2. wanted[n] \in rows' /\ wanted[n] \in Account /\ FreeDaemon \in Daemon /\ 0 \in 0 .. Life
    BY <1>8, <2>1, ChosenIsFree, SessionAssumption DEF Login, Found, StartDaemon, TypeServer
  <2>3. TypeDaemons' /\ TypeThreads'
    BY <1>8, <2>1, <2>2, StartKept, Zenon DEF Login
  <2>4. rids' \subseteq Runs /\ status' \in [Account -> {0, 1}]
    BY <1>8, <2>2 DEF Login, TypeServer
  <2>5. TypeServer'
    BY <1>8, <2>4, Zenon DEF Login, Answering, Receiving, TypeServer
  <2> QED BY <1>5, <1>51, <1>8, <2>1, <2>3, <2>5, Zenon DEF Login
<1>9. ASSUME NEW d \in Daemon, Connect(d)
      PROVE  TypeClient' /\ TypeNet' /\ TypeServer' /\ TypeDaemons' /\ TypeThreads'
  <2>1. 0 \in 0 .. Tries - 1
    BY SessionAssumption
  <2>2. TypeDaemons'
    BY <1>9, <2>1 DEF Connect, TypeDaemons, TypeClient, Pcs, At, tableVars
  <2> QED BY <1>9, <2>2, Zenon DEF Connect, tableVars
<1>10. ASSUME NEW d \in Daemon, ConnectFails(d)
       PROVE  TypeClient' /\ TypeNet' /\ TypeServer' /\ TypeDaemons' /\ TypeThreads'
  <2>1. acct[d] \in Account /\ rows' = rows
    BY <1>10 DEF ConnectFails, At, TypeDaemons, TypeServer
  <2>2. status' \in [Account -> {0, 1}]
    BY <1>10, <2>1 DEF ConnectFails, TypeServer
  <2>3. TypeServer'
    BY <1>10, <2>2, Zenon DEF ConnectFails, TypeServer
  <2>4. TypeDaemons'
    <3>1. CASE Ends(d)
      BY <2>1, <3>1, EndsKept
    <3>2. CASE /\ tries[d] + 1 < Tries
               /\ tries' = [tries EXCEPT ![d] = @ + 1]
               /\ UNCHANGED <<pc, acct, click, link, status>>
      <4>1. tries' \in [Daemon -> 0 .. Tries - 1]
        BY <3>2, SessionAssumption DEF TypeDaemons
      <4> QED BY <2>1, <3>2, <4>1, Zenon DEF TypeDaemons
    <3> QED BY <1>10, <3>1, <3>2 DEF ConnectFails
  <2> QED BY <1>10, <2>1, <2>3, <2>4, Zenon DEF ConnectFails
<1>11. ASSUME NEW d \in Daemon, HandOver(d)
       PROVE  TypeClient' /\ TypeNet' /\ TypeServer' /\ TypeDaemons' /\ TypeThreads'
  <2>1. TypeDaemons'
    BY <1>11 DEF HandOver, TypeDaemons, Pcs, At, tableVars
  <2>2. handing' \subseteq rows'
    BY <1>11 DEF HandOver, TypeDaemons, TypeNet, At, tableVars
  <2>3. TypeNet'
    BY <1>11, <2>2, Zenon DEF HandOver, TypeNet
  <2> QED BY <1>11, <2>1, <2>3, Zenon DEF HandOver
<1>12. ASSUME NEW d \in Daemon, NotRecognised(d), ~Dies
       PROVE  TypeClient' /\ TypeNet' /\ TypeServer' /\ TypeDaemons' /\ TypeThreads'
  <2>1. rows' = rows /\ Ends(d) /\ UNCHANGED <<clientVars, netVars, up, boots, tableVars, threadVars>>
    BY <1>12 DEF NotRecognised, tableVars
  <2>2. TypeDaemons'
    BY <2>1, EndsKept
  <2> QED BY <2>1, <2>2, Zenon
<1>13. ASSUME NEW d \in Daemon, Record(d)
       PROVE  TypeClient' /\ TypeNet' /\ TypeServer' /\ TypeDaemons' /\ TypeThreads'
  <2>1. TypeDaemons' /\ TypeThreads'
    BY <1>13 DEF Record, TypeDaemons, TypeThreads, Pcs, At
  <2>2. acct[d] \in Account
    BY <1>13 DEF Record, At, TypeDaemons, TypeServer
  <2>3. status' \in [Account -> {0, 1}]
    BY <1>13, <2>2 DEF Record, TypeServer
  <2>4. TypeServer'
    BY <1>13, <2>3, Zenon DEF Record, TypeServer
  <2> QED BY <1>13, <2>1, <2>4, Zenon DEF Record
<1>14. ASSUME NEW d \in Daemon, Watch(d)
       PROVE  TypeClient' /\ TypeNet' /\ TypeServer' /\ TypeDaemons' /\ TypeThreads'
  <2>1. click' \in [Daemon -> 0 .. Life] /\ pc' \in [Daemon -> Pcs]
    BY <1>14, SessionAssumption DEF Watch, TypeDaemons, Pcs, At
  <2>2. \A e \in Daemon : IF pc'[e] = "idle" THEN acct'[e] = None ELSE acct'[e] \in rows'
    BY <1>14 DEF Watch, TypeDaemons, Pcs, At
  <2>3. TypeDaemons'
    BY <1>14, <2>1, <2>2, Zenon DEF Watch, TypeDaemons
  <2>4. acct[d] \in Account
    BY <1>14 DEF Watch, At, TypeDaemons, TypeServer
  <2>5. status' \in [Account -> {0, 1}]
    BY <1>14, <2>4 DEF Watch, TypeServer
  <2>6. TypeServer'
    BY <1>14, <2>5, Zenon DEF Watch, TypeServer
  <2> QED BY <1>14, <2>3, <2>6, Zenon DEF Watch
<1>15. ASSUME NEW d \in Daemon, WatchOver(d)
       PROVE  TypeClient' /\ TypeNet' /\ TypeServer' /\ TypeDaemons' /\ TypeThreads'
  <2>1. TypeDaemons'
    BY <1>15 DEF WatchOver, TypeDaemons, Pcs, At
  <2>2. spent' \subseteq rows'
    BY <1>15 DEF WatchOver, At, TypeDaemons, TypeServer
  <2>3. TypeServer'
    BY <1>15, <2>2, Zenon DEF WatchOver, TypeServer
  <2> QED BY <1>15, <2>1, <2>3, Zenon DEF WatchOver
<1>16. ASSUME NEW d \in Daemon, Join(d)
       PROVE  TypeClient' /\ TypeNet' /\ TypeServer' /\ TypeDaemons' /\ TypeThreads'
  <2>1. TypeDaemons'
    BY <1>16, EndsKept DEF Join, tableVars
  <2>2. <<0, 0>> \in (0 .. MaxRuns) \X (0 .. MaxRuns)
    BY SessionAssumption
  <2>3. TypeThreads'
    BY <1>16, <2>2 DEF Join, TypeThreads
  <2> QED BY <1>16, <2>1, <2>3, Zenon DEF Join, tableVars
<1>17. ASSUME UNCHANGED <<otherThan, up, tableVars>>, TypeThreads'
       PROVE  TypeClient' /\ TypeNet' /\ TypeServer' /\ TypeDaemons' /\ TypeThreads'
  <2>1. UNCHANGED <<clientVars, netVars>> /\ UNCHANGED <<up, boots, tableVars>>
        /\ UNCHANGED <<pc, acct, tries, click, link>> /\ rows \subseteq rows'
    BY <1>17 DEF otherThan, tableVars
  <2> QED BY <1>17, <2>1, Zenon
<1>18. ASSUME NEW d \in Daemon, Reconnect(d) \/ CheckerConnects(d), ~Dies
       PROVE  TypeThreads'
  <2>1. run \in 0 .. MaxRuns
    BY DEF TypeClient
  <2>2. \A i \in {1, 2} : [peer EXCEPT ![d][i] = run]
                            \in [Daemon -> (0 .. MaxRuns) \X (0 .. MaxRuns)]
    BY <2>1 DEF TypeThreads
  <2>3. peer' \in [Daemon -> (0 .. MaxRuns) \X (0 .. MaxRuns)]
    BY <1>18, <2>2 DEF Reconnect, CheckerConnects, TypeThreads
  <2>4. listener' \in [Daemon -> {"none", "reconnect", "recv", "end"}]
    BY <1>18 DEF Reconnect, CheckerConnects, TypeThreads
  <2>5. checker' \in [Daemon -> {"none", "connect", "beat", "end"}]
    BY <1>18 DEF Reconnect, CheckerConnects, TypeThreads
  <2>6. if_connected' \in [Daemon -> BOOLEAN]
    BY <1>18 DEF Reconnect, CheckerConnects, TypeThreads
  <2> QED BY <2>3, <2>4, <2>5, <2>6 DEF TypeThreads
<1>19. ASSUME NEW d \in Daemon, ListenerReset(d) \/ ListenerEnds(d) \/ Beat(d)
       PROVE  TypeThreads'
  BY <1>19 DEF ListenerReset, ListenerEnds, Beat, TypeThreads
<1>20. ASSUME NEW d \in Daemon,
              \/ Reconnect(d) \/ CheckerConnects(d)
              \/ ListenerReset(d) \/ ListenerEnds(d) \/ Beat(d),
              ~Dies
       PROVE  TypeClient' /\ TypeNet' /\ TypeServer' /\ TypeDaemons' /\ TypeThreads'
  <2>1. UNCHANGED <<otherThan, up, tableVars>>
    BY <1>20, Zenon DEF Reconnect, CheckerConnects, ListenerReset, ListenerEnds, Beat
  <2> QED BY <1>17, <1>18, <1>19, <1>20, <2>1, Zenon
<1>21. CASE Dies
  BY <1>21, DiesKept, Zenon DEF TypeOK, TypeClient, TypeNet, TypeServer, TypeDaemons, TypeThreads, Pcs
<1>22. CASE Boot
  <2>1. boots' \in 1 .. MaxBoots
    BY <1>22, SessionAssumption DEF Boot, TypeServer
  <2>2. TypeServer'
    BY <1>22, <2>1, Zenon DEF Boot, TypeServer, tableVars
  <2> QED BY <1>22, <2>2, Zenon DEF Boot, tableVars, daemonVars
<1>23. CASE UNCHANGED vars
  BY <1>23, Zenon DEF vars, tableVars, daemonVars
<1> QED
  BY <1>1, <1>2, <1>3, <1>3a, <1>4, <1>6, <1>7, <1>8, <1>9, <1>10, <1>11, <1>12, <1>13, <1>14,
     <1>15, <1>16, <1>20, <1>21, <1>22, <1>23, Zenon DEF Next, Stop, BeatOfDeleted

-----------------------------------------------------------------------------
(* What a client logs in with, and who has logged in.                      *)

LEMMA LoginKept ==
  ASSUME TypeOK, LoginIsRegistered, Asking, Future, [Next]_vars
  PROVE  /\ LoginIsRegistered' /\ Asking' /\ Future'
         /\ \A a \in Account : Unasked(a)' => Unasked(a)
<1>1. rows \subseteq rows' /\ \A a \in rows : key'[a] = key[a]
  <2>1. CASE \E n \in Runs : Register(n)
    BY <2>1 DEF Register, TypeOK
  <2>2. CASE ~\E n \in Runs : Register(n)
    <3>1. rows' = rows /\ key' = key
      BY <2>2, Zenon DEF Next, vars, Ask, Serve, Leave, ServiceEnds, TakeAccount, WrongKey,
         RegisteredBefore, Login, LoginOnLine, LoginInvalid, Connect, ConnectFails, HandOver,
         NotRecognised, Record, Watch, WatchOver, Join, Reconnect, ListenerReset, ListenerEnds,
         CheckerConnects, Beat, BeatOfDeleted, Stop, Boot, Dies, tableVars
    <3> QED BY <3>1
  <2> QED BY <2>1, <2>2
<1>2. CASE Ask
  <2>1. run' = run + 1 /\ run' \in Runs /\ known' = known /\ stored' = stored
    BY <1>2, SessionAssumption DEF Ask, TypeOK, Runs
  <2>2. wanted[run'] = None /\ \A n \in Runs : n > run' => wanted[n] = None
    BY <2>1 DEF Future, TypeOK, Runs
  <2>3. \A n \in Runs : wanted'[n] = IF n = run' THEN known ELSE wanted[n]
    BY <1>2, <2>1 DEF Ask, TypeOK
  <2>4. Future'
    BY <2>1, <2>2, <2>3 DEF Future, Runs
  <2>5. LoginIsRegistered'
    BY <1>1, <2>1, <2>3 DEF LoginIsRegistered
  <2>6. \A a \in Account : Unasked(a)' => Unasked(a)
    <3> SUFFICES ASSUME NEW a \in Account, Unasked(a)', NEW n \in Runs
                 PROVE  wanted[n] # a
      BY DEF Unasked
    <3>1. CASE n = run'
      BY <2>2, <3>1, SessionAssumption
    <3>2. CASE n # run'
      BY <2>3, <3>2 DEF Unasked
    <3> QED BY <3>1, <3>2
  <2>7. Asking'
    BY <1>2, <2>1, <2>3 DEF Asking, Ask
  <2> QED BY <2>4, <2>5, <2>6, <2>7
<1>3. ASSUME NEW a \in handing, TakeAccount(a)
      PROVE  /\ known' \in rows' /\ key'[known'] = stored'
             /\ run' = run /\ wanted' = wanted /\ Asking'
  <2>1. /\ known' = a /\ a \in rows /\ key[a] = stored /\ stored' = stored
        /\ run' = run /\ wanted' = wanted /\ client' = client /\ service
    BY <1>3 DEF TakeAccount, TypeOK
  <2> QED BY <1>1, <2>1 DEF Asking
<1>4. CASE Serve
  <2>1. /\ known' = known /\ run' = run /\ wanted' = wanted /\ client' = "shell"
        /\ known # None => stored' = stored
    BY <1>4 DEF Serve, Asking
  <2> QED BY <1>1, <2>1 DEF Asking, Future, LoginIsRegistered, Unasked
<1>5. ASSUME ~Ask, ~Serve, \A a \in handing : ~TakeAccount(a)
      PROVE  LoginIsRegistered' /\ Asking' /\ Future' /\ \A a \in Account : Unasked(a)' => Unasked(a)
  <2>1. UNCHANGED <<run, known, stored, wanted>>
    BY <1>5, Zenon DEF Next, vars, Leave, ServiceEnds, WrongKey, Closed, Register,
       RegisteredBefore, Login, LoginOnLine, LoginInvalid, Connect, ConnectFails, HandOver,
       NotRecognised, Record, Watch, WatchOver, Join, Reconnect, ListenerReset, ListenerEnds,
       CheckerConnects, Beat, BeatOfDeleted, Stop, Boot, Dies, Answering, Receiving,
       clientVars, netVars, otherThan
  <2>2. (client' = client /\ service' = service) \/ client' = "off" \/ (client' = client /\ service' = FALSE)
    BY <1>5, Zenon DEF Next, vars, Leave, ServiceEnds, WrongKey, Closed, Register,
       RegisteredBefore, Login, LoginOnLine, LoginInvalid, Connect, ConnectFails, HandOver,
       NotRecognised, Record, Watch, WatchOver, Join, Reconnect, ListenerReset, ListenerEnds,
       CheckerConnects, Beat, BeatOfDeleted, Stop, Boot, Dies, Answering, Receiving,
       clientVars, netVars, otherThan
  <2>3. Asking'
    BY <2>1, <2>2 DEF Asking
  <2>4. LoginIsRegistered'
    BY <1>1, <2>1 DEF LoginIsRegistered
  <2> QED BY <2>1, <2>3, <2>4 DEF Future, Unasked
<1>6. ASSUME NEW a \in handing, TakeAccount(a)
      PROVE  LoginIsRegistered' /\ Asking' /\ Future' /\ \A b \in Account : Unasked(b)' => Unasked(b)
  BY <1>1, <1>3, <1>6 DEF LoginIsRegistered, Future, Unasked
<1> QED BY <1>2, <1>4, <1>5, <1>6

-----------------------------------------------------------------------------
(* The status column.  The argument: an account nobody has logged in to    *)
(* has one daemon at most, so what that daemon writes is never contradicted*)
(* by another.                                                             *)

Live(d) == pc[d] # "idle"

\* A step of daemon d that leaves the other daemons and the other accounts alone
\* keeps both parts if it keeps the status of its own account right.
LEMMA OwnStep ==
  ASSUME Inv, TypeOK', NEW d \in Daemon, Live(d),
         \A a \in Account : Unasked(a)' => Unasked(a),
         rows' = rows, up' = up, boots' = boots, spent \subseteq spent',
         \A e \in Daemon \ {d} : pc'[e] = pc[e] /\ acct'[e] = acct[e],
         pc'[d] # "idle" => acct'[d] = acct[d],
         \A a \in Account \ {acct[d]} : status'[a] = status[a],
         acct[d] \in spent' \/ (status'[acct[d]] = 1 <=> pc'[d] = "watch")
           \/ (status' = status /\ (pc[d] = "watch" <=> pc'[d] = "watch"))
  PROVE  OneDaemon' /\ StatusTrueUntilLogin'
<1>1. acct[d] \in rows /\ rows \subseteq Account /\ spent' \subseteq rows /\ spent \subseteq rows
  BY DEF Inv, TypeOK, Live
<1>2. OneDaemon'
  <2> SUFFICES ASSUME NEW e \in Daemon, NEW f \in Daemon, pc'[e] # "idle", pc'[f] # "idle",
                      acct'[e] = acct'[f], \A n \in Runs : wanted'[n] # acct'[e]
               PROVE  e = f
    BY DEF OneDaemon, Unasked
  <2>1. /\ pc[e] # "idle" /\ acct'[e] = acct[e]
        /\ pc[f] # "idle" /\ acct'[f] = acct[f]
    BY DEF Live
  <2>2. acct[e] \in Account
    BY <2>1 DEF Inv, TypeOK
  <2>3. Unasked(acct[e])
    <3>1. \A n \in Runs : wanted'[n] # acct[e]
      BY <2>1
    <3> QED BY <2>2, <3>1 DEF Unasked
  <2> QED BY <2>1, <2>3 DEF Inv, OneDaemon
<1>3. StatusTrueUntilLogin'
  <2> SUFFICES ASSUME up', boots' = 1, NEW a \in rows' \ spent', \A n \in Runs : wanted'[n] # a
               PROVE  status'[a] = 1 <=> \E e \in Daemon : acct'[e] = a /\ pc'[e] = "watch"
    BY DEF StatusTrueUntilLogin, Watched
  <2>1. a \in Account /\ a \in rows \ spent /\ Unasked(a)
    BY <1>1 DEF Unasked
  <2>2. status[a] = 1 <=> \E e \in Daemon : acct[e] = a /\ pc[e] = "watch"
    BY <2>1 DEF Inv, StatusTrueUntilLogin, Watched, Unasked
  <2>3. CASE a # acct[d]
    <3>1. status'[a] = status[a]
      BY <2>1, <2>3
    <3>2. \A e \in Daemon : (acct'[e] = a /\ pc'[e] = "watch") <=> (acct[e] = a /\ pc[e] = "watch")
      BY <2>3
    <3> QED BY <2>2, <3>1, <3>2
  <2>4. CASE a = acct[d]
    <3>1. \A e \in Daemon : (pc[e] # "idle" /\ acct[e] = a) => e = d
      BY <2>1, <2>4 DEF Inv, OneDaemon, Live
    <3>2. \A e \in Daemon \ {d} : ~(acct'[e] = a /\ pc'[e] = "watch")
      BY <3>1
    <3>3. (\E e \in Daemon : acct'[e] = a /\ pc'[e] = "watch") <=> pc'[d] = "watch"
      BY <2>4, <3>2
    <3>4. (\E e \in Daemon : acct[e] = a /\ pc[e] = "watch") <=> pc[d] = "watch"
      BY <2>4, <3>1
    <3> QED BY <2>2, <2>4, <3>3, <3>4
  <2> QED BY <2>3, <2>4
<1> QED BY <1>2, <1>3

\* A new daemon for an account that is new, or that somebody has logged in to.
LEMMA NewStep ==
  ASSUME Inv, TypeOK', NEW a \in rows', NEW n \in 0 .. Life,
         \A b \in Account : Unasked(b)' => Unasked(b),
         StartDaemon(FreeDaemon, a, n),
         \/ a \notin rows /\ status'[a] = 0
         \/ ~Unasked(a),
         rows \subseteq rows', rows' \subseteq rows \union {a},
         up' = up, boots' = boots, spent' = spent,
         \A b \in Account \ {a} : status'[b] = status[b]
  PROVE  OneDaemon' /\ StatusTrueUntilLogin'
<1> DEFINE d == FreeDaemon
<1>1. d \in Daemon /\ pc[d] = "idle"
  BY ChosenIsFree DEF Inv, StartDaemon
<1>2. /\ \A e \in Daemon \ {d} : pc'[e] = pc[e] /\ acct'[e] = acct[e]
      /\ pc'[d] = "connect" /\ acct'[d] = a
  BY <1>1 DEF StartDaemon, Inv, TypeOK
<1> HIDE DEF d
<1>3. a \in Account /\ rows \subseteq Account
  BY DEF Inv, TypeOK
<1>4. \A e \in Daemon : pc[e] # "idle" => acct[e] \in rows
  BY DEF Inv, TypeOK
<1>5. Unasked(a)' => \A e \in Daemon : pc[e] # "idle" => acct[e] # a
  BY <1>3, <1>4
<1>6. OneDaemon'
  <2> SUFFICES ASSUME NEW e \in Daemon, NEW f \in Daemon, pc'[e] # "idle", pc'[f] # "idle",
                      acct'[e] = acct'[f], \A k \in Runs : wanted'[k] # acct'[e]
               PROVE  e = f
    BY DEF OneDaemon, Unasked
  <2>1. CASE e # d /\ f # d
    <3>1. pc[e] # "idle" /\ pc[f] # "idle" /\ acct[e] = acct[f] /\ acct[e] \in Account
      BY <1>2, <1>3, <1>4, <2>1
    <3>2. Unasked(acct[e])
      BY <1>2, <2>1, <3>1 DEF Unasked
    <3> QED BY <3>1, <3>2 DEF Inv, OneDaemon
  <2>2. CASE e = d \/ f = d
    <3>1. acct'[e] = a /\ acct'[f] = a
      BY <1>2, <2>2
    <3>2. Unasked(a)'
      BY <3>1 DEF Unasked
    <3> QED BY <1>2, <1>5, <3>1, <3>2
  <2> QED BY <2>1, <2>2
<1>7. StatusTrueUntilLogin'
  <2> SUFFICES ASSUME up', boots' = 1, NEW b \in rows' \ spent', \A k \in Runs : wanted'[k] # b
               PROVE  status'[b] = 1 <=> \E e \in Daemon : acct'[e] = b /\ pc'[e] = "watch"
    BY DEF StatusTrueUntilLogin, Watched
  <2>1. (\E e \in Daemon : acct'[e] = b /\ pc'[e] = "watch")
           <=> \E e \in Daemon : acct[e] = b /\ pc[e] = "watch"
    BY <1>1, <1>2
  <2>2. Unasked(b)' /\ b \in Account
    BY <1>3 DEF Unasked
  <2>3. CASE b # a
    <3>1. status'[b] = status[b] /\ b \in rows \ spent /\ Unasked(b)
      BY <2>2, <2>3
    <3>2. status[b] = 1 <=> \E e \in Daemon : acct[e] = b /\ pc[e] = "watch"
      BY <3>1 DEF Inv, StatusTrueUntilLogin, Watched, Unasked
    <3> QED BY <2>1, <3>1, <3>2
  <2>4. CASE b = a
    <3>1. Unasked(a) /\ Unasked(a)'
      BY <2>2, <2>4
    <3>2. status'[b] = 0
      BY <2>4, <3>1
    <3>3. ~ \E e \in Daemon : acct[e] = b /\ pc[e] = "watch"
      BY <1>5, <2>4, <3>1
    <3> QED BY <2>1, <3>2, <3>3
  <2> QED BY <2>3, <2>4
<1> QED BY <1>6, <1>7

\* A step that concerns neither daemons nor tables.
LEMMA QuietStep ==
  ASSUME Inv, \A a \in Account : Unasked(a)' => Unasked(a),
         rows' = rows, up' = up, boots' = boots, spent' = spent,
         pc' = pc, acct' = acct, status' = status
  PROVE  OneDaemon' /\ StatusTrueUntilLogin'
<1>1. /\ \A e \in Daemon : pc[e] # "idle" => acct[e] \in Account
      /\ rows \subseteq Account
  BY DEF Inv, TypeOK
<1>2. OneDaemon'
  <2> SUFFICES ASSUME NEW e \in Daemon, NEW f \in Daemon, pc[e] # "idle", pc[f] # "idle",
                      acct[e] = acct[f], \A k \in Runs : wanted'[k] # acct[e]
               PROVE  e = f
    BY DEF OneDaemon, Unasked
  <2>1. Unasked(acct[e])
    BY <1>1 DEF Unasked
  <2> QED BY <2>1 DEF Inv, OneDaemon
<1>3. StatusTrueUntilLogin'
  <2> SUFFICES ASSUME up, boots = 1, NEW a \in rows \ spent, \A k \in Runs : wanted'[k] # a
               PROVE  status[a] = 1 <=> \E e \in Daemon : acct[e] = a /\ pc[e] = "watch"
    BY DEF StatusTrueUntilLogin, Watched
  <2>1. Unasked(a)
    BY <1>1 DEF Unasked
  <2> QED BY <2>1 DEF Inv, StatusTrueUntilLogin, Watched, Unasked
<1> QED BY <1>2, <1>3

\* The process has died, or is started anew.
LEMMA DownStep ==
  ASSUME Inv, Dies \/ Boot
  PROVE  OneDaemon' /\ StatusTrueUntilLogin'
<1>1. CASE Dies
  <2>1. up' = FALSE /\ \A e \in Daemon : pc'[e] = "idle"
    BY <1>1 DEF Dies
  <2> QED BY <2>1 DEF OneDaemon, StatusTrueUntilLogin
<1>2. CASE Boot
  <2>1. boots' # 1
    BY <1>2, SessionAssumption DEF Boot, Inv, TypeOK
  <2>2. pc' = pc /\ acct' = acct /\ wanted' = wanted
    BY <1>2, Zenon DEF Boot, daemonVars, netVars
  <2>3. OneDaemon'
    BY <2>2 DEF Inv, OneDaemon, Unasked
  <2> QED BY <2>1, <2>3 DEF StatusTrueUntilLogin
<1> QED BY <1>1, <1>2

\* The steps of clientWaitDeamon keep the status of the daemon's account right.
LEMMA DaemonKept ==
  ASSUME Inv, TypeOK', \A a \in Account : Unasked(a)' => Unasked(a),
         NEW d \in Daemon, ConnectionDaemon(d), ~Dies
  PROVE  OneDaemon' /\ StatusTrueUntilLogin'
<1> DEFINE Others == \A e \in Daemon \ {d} : pc'[e] = pc[e] /\ acct'[e] = acct[e]
           Mine == pc'[d] # "idle" => acct'[d] = acct[d]
           Elsewhere == \A a \in Account \ {acct[d]} : status'[a] = status[a]
           Right == acct[d] \in spent' \/ (status'[acct[d]] = 1 <=> pc'[d] = "watch")
                      \/ (status' = status /\ (pc[d] = "watch" <=> pc'[d] = "watch"))
<1>1. /\ pc \in [Daemon -> Pcs] /\ acct \in [Daemon -> Account \union {None}]
      /\ status \in [Account -> {0, 1}]
      /\ Live(d) => acct[d] \in Account
  BY DEF Inv, TypeOK, Pcs, Live
<1>2. Live(d) /\ rows' = rows /\ up' = up /\ boots' = boots /\ spent \subseteq spent'
  BY Zenon DEF ConnectionDaemon, Connect, ConnectFails, HandOver, NotRecognised, Record, Watch,
     WatchOver, Join, Ends, At, Live, tableVars
<1>3. Others /\ Mine
  BY <1>1 DEF ConnectionDaemon, Connect, ConnectFails, HandOver, NotRecognised, Record, Watch,
     WatchOver, Join, Ends, At
<1>4. Elsewhere
  BY <1>1 DEF ConnectionDaemon, Connect, ConnectFails, HandOver, NotRecognised, Record, Watch,
     WatchOver, Join, Ends, tableVars
<1>5. Right
  <2>1. CASE Connect(d)
    BY <1>1, <2>1 DEF Connect, At, tableVars
  <2>2. CASE ConnectFails(d)
    BY <1>1, <1>2, <2>2 DEF ConnectFails, Ends, At
  <2>3. CASE HandOver(d)
    BY <1>1, <2>3 DEF HandOver, At, tableVars
  <2>4. CASE NotRecognised(d)
    BY <1>1, <2>4 DEF NotRecognised, Ends, At, tableVars
  <2>5. CASE Record(d)
    BY <1>1, <1>2, <2>5 DEF Record
  <2>6. CASE Watch(d)
    BY <1>1, <1>2, <2>6 DEF Watch, At
  <2>7. CASE WatchOver(d)
    BY <1>1, <2>7 DEF WatchOver
  <2>8. CASE Join(d)
    BY <1>1, <2>8 DEF Join, Ends, At, tableVars
  <2> QED BY <2>1, <2>2, <2>3, <2>4, <2>5, <2>6, <2>7, <2>8 DEF ConnectionDaemon
<1> QED BY <1>2, <1>3, <1>4, <1>5, OwnStep

LEMMA StatusKept ==
  ASSUME Inv, TypeOK', \A a \in Account : Unasked(a)' => Unasked(a), [Next]_vars
  PROVE  OneDaemon' /\ StatusTrueUntilLogin'
<1>1. CASE Dies \/ Boot
  BY <1>1, DownStep
<1>2. CASE \E d \in Daemon : ConnectionDaemon(d) /\ ~Dies
  BY <1>2, DaemonKept
<1>3. ASSUME NEW n \in Runs, Register(n)
      PROVE  OneDaemon' /\ StatusTrueUntilLogin'
  <2>1. PICK a \in Account \ rows :
               /\ rows' = rows \union {a} /\ key' = [key EXCEPT ![a] = n]
               /\ status' = [status EXCEPT ![a] = 0]
               /\ StartDaemon(FreeDaemon, a, Life)
    BY <1>3, Zenon DEF Register
  <2>2. status'[a] = 0 /\ \A b \in Account \ {a} : status'[b] = status[b]
    BY <2>1 DEF Inv, TypeOK
  <2>3. up' = up /\ boots' = boots /\ spent' = spent
    BY <1>3, Zenon DEF Register, Answering, Receiving
  <2>4. Life \in 0 .. Life
    BY SessionAssumption
  <2> QED BY <2>1, <2>2, <2>3, <2>4, NewStep
<1>4. ASSUME NEW n \in Runs, Login(n)
      PROVE  OneDaemon' /\ StatusTrueUntilLogin'
  <2>1. wanted[n] \in rows /\ ~Unasked(wanted[n]) /\ rows' = rows
    BY <1>4 DEF Login, Found, Unasked
  <2>2. \A b \in Account \ {wanted[n]} : status'[b] = status[b]
    BY <1>4 DEF Login, Inv, TypeOK
  <2>3. StartDaemon(FreeDaemon, wanted[n], 0) /\ up' = up /\ boots' = boots /\ spent' = spent
    BY <1>4, Zenon DEF Login, Answering, Receiving
  <2>4. 0 \in 0 .. Life
    BY SessionAssumption
  <2> QED BY <2>1, <2>2, <2>3, <2>4, NewStep
<1>5. ASSUME ~(Dies \/ Boot), ~\E d \in Daemon : ConnectionDaemon(d) /\ ~Dies,
             \A n \in Runs : ~Register(n) /\ ~Login(n)
      PROVE  /\ rows' = rows /\ up' = up /\ boots' = boots /\ spent' = spent
             /\ pc' = pc /\ acct' = acct /\ status' = status
  BY <1>5, Zenon DEF Next, vars, ConnectionDaemon, Stop, Ask, Serve, Leave, ServiceEnds,
     TakeAccount, WrongKey,
     RegisteredBefore, LoginOnLine, LoginInvalid, Answering, Receiving, Reconnect, ListenerReset, ListenerEnds,
     CheckerConnects, Beat, BeatOfDeleted, otherThan, tableVars, daemonVars
<1> QED BY <1>1, <1>2, <1>3, <1>4, <1>5, QuietStep

-----------------------------------------------------------------------------
LEMMA InvKept == Inv /\ [Next]_vars => Inv'
<1> SUFFICES ASSUME Inv, [Next]_vars PROVE Inv'
  OBVIOUS
<1>1. TypeOK'
  BY TypeKept DEF Inv
<1>2. LoginIsRegistered' /\ Asking' /\ Future' /\ \A a \in Account : Unasked(a)' => Unasked(a)
  BY <1>1, LoginKept DEF Inv
<1>3. OneDaemon' /\ StatusTrueUntilLogin'
  BY <1>1, <1>2, StatusKept
<1> QED BY <1>1, <1>2, <1>3 DEF Inv

\* Client, tables, daemons and threads keep their types, and a daemon that runs
\* has an account that is registered (SQEServer::register_info and the
\* client_register of clientWaitDeamon).
THEOREM TypeCorrect == Spec => []TypeOK
<1>1. Inv => TypeOK
  BY DEF Inv
<1> QED BY InitInv, InvKept, <1>1, PTL DEF Spec

\* An account the client holds or asks for is one the server has stored, and under
\* the client's own key, after any crash and restart of either and whichever daemon
\* handed it over (client(), "client login", Packet2Post).
THEOREM LoginRegistered == Spec => []LoginIsRegistered
<1>1. Inv => LoginIsRegistered
  BY DEF Inv
<1> QED BY InitInv, InvKept, <1>1, PTL DEF Spec

\* Until the first login to an account, a restart or the end of its clicks, the
\* status column is 1 exactly while clientWaitDeamon watches the connection.
THEOREM StatusTrue == Spec => []StatusTrueUntilLogin
<1>1. Inv => StatusTrueUntilLogin
  BY DEF Inv
<1> QED BY InitInv, InvKept, <1>1, PTL DEF Spec
=============================================================================
