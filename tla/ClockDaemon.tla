----------------------------- MODULE ClockDaemon -----------------------------
(***************************************************************************)
(* The clock (clock.cpp) that starts every daemon of the other modules:    *)
(* a SIGALRM handler (threadsClock) joins the threads that have reported   *)
(* their end, prunes the clocks that are used up, and walks over           *)
(* clocks_list, counting clocks down and starting a thread for each that   *)
(* has reached zero.  Threads report with clockThreadFinish and file clocks*)
(* with newClock: the main thread those of the daemons, when the timer has *)
(* been set already, and other threads further ones.  Both append to a list*)
(* the handler clears or prunes, and nothing keeps a thread from doing so  *)
(* while the handler runs in another one.                                  *)
(***************************************************************************)
EXTENDS Naturals, SequencesExt, StdList

CONSTANTS
  Periodic,   \* clocks with if_reset, filed by the main thread
  OneShot,    \* clocks without, filed by threads
  FirstClick, \* the click each clock is filed with
  Raw,        \* rawclick of each clock
  Tids,       \* thread identities, used again once their thread is forgotten
  EraseEvery, \* CLOCKESE
  Start,      \* the periodic clocks in the order they are filed
  End

Clocks == Periodic \union OneShot

ASSUME ClockAssumption ==
  /\ Periodic \intersect OneShot = {} /\ Tids \intersect Clocks = {}
  /\ End \notin Clocks \union Tids
  /\ FirstClick \in [Clocks -> Nat] /\ Raw \in [Clocks -> Nat] /\ EraseEvery \in Nat
  /\ Start \in Seq(Periodic) /\ IsInjective(Start) /\ ToSet(Start) = Periodic

VARIABLES
  clocks,   \* clocks_list, in order
  ctail,    \* the node its tail pointer leads to
  null,     \* clocks whose entry is NULL
  click,    \* of each clock
  erase,    \* clock_erase
  adder,    \* where the thread that files each clock is
  finished, \* clock_thread_finished, in order
  ftail,    \* the node its tail pointer leads to
  map,      \* clocks_thread_map, by tid
  pc,       \* of each thread
  seen,     \* inside push_back: the tail it read
  handler,  \* where the handler is
  it,       \* its iterator
  host,     \* the thread it interrupts, if that one has reported already
  fired,    \* history: threads started for each one-shot clock
  refused,  \* history: one-shot clocks whose thread could not be created
  raced     \* history: the lists of which a push_back met another change

clockvars == <<clocks, ctail, null, click, erase, adder>>
finvars == <<finished, ftail, map>>
handlervars == <<handler, it, host>>
vars == <<clockvars, finvars, pc, seen, handlervars, fired, refused, raced>>

Init ==
  /\ clocks = <<>> /\ ctail = End
  /\ null = {} /\ click = FirstClick /\ erase = EraseEvery
  /\ adder = [c \in Clocks |-> "new"]
  /\ finished = <<>> /\ ftail = End /\ map = {}
  /\ pc = [w \in Tids |-> "none"]
  /\ seen = [x \in Tids \union Clocks |-> End]
  /\ handler = "idle" /\ it = End /\ host = End
  /\ fired = [c \in OneShot |-> 0] /\ refused = {} /\ raced = {}

-----------------------------------------------------------------------------
(* std::list.                                                              *)

First(list) == IF list = <<>> THEN End ELSE Head(list)

\* The node after x; there is none if x is not in the list (any more).
After(list, x) ==
  LET next == {i \in DOMAIN list : i > 1 /\ list[i - 1] = x}
  IN IF next = {} THEN End ELSE list[CHOOSE i \in next : TRUE]

\* x hooked on the tail that was read before: what has been hooked on that tail
\* meanwhile is cut off, and x itself hangs in the air if the tail is gone.
Hooked(list, tail, x) ==
  IF tail = End THEN <<x>>
  ELSE IF tail \in ToSet(list) THEN Append(SubSeq(list, 1, CHOOSE i \in DOMAIN list : list[i] = tail), x)
  ELSE list

-----------------------------------------------------------------------------
(* Threads.                                                                *)

\* clockThreadFinish, with SIGALRM blocked in this thread only: push_back reads
\* the tail ...
Report(w) ==
  /\ pc[w] = "run"
  /\ pc' = [pc EXCEPT ![w] = "link"]
  /\ seen' = [seen EXCEPT ![w] = ftail]
  /\ raced' = IF handler = "reap" \/ \E v \in Tids : pc[v] = "link"
                THEN raced \union {"finished"} ELSE raced
  /\ UNCHANGED <<clockvars, finvars, handlervars, fired, refused>>

\* ... and hooks the new node on it.
Reported(w) ==
  /\ pc[w] = "link"
  /\ pc' = [pc EXCEPT ![w] = "left"]
  /\ finished' = Hooked(finished, seen[w], w) /\ ftail' = w
  /\ seen' = [seen EXCEPT ![w] = End]
  /\ raced' = IF handler = "reap" THEN raced \union {"finished"} ELSE raced
  /\ UNCHANGED <<clockvars, map, handlervars, fired, refused>>

\* The thread ends, unless the handler is running in it.
Exit(w) ==
  /\ pc[w] = "left" /\ host # w
  /\ pc' = [pc EXCEPT ![w] = IF w \in map THEN "gone" ELSE "none"]
  /\ UNCHANGED <<clockvars, finvars, seen, handlervars, fired, refused, raced>>

\* The main thread files its clocks one after the other.
InTurn(c) ==
  \A i, j \in DOMAIN Start : i < j /\ Start[j] = c => adder[Start[i]] = "done"

\* newClock, called by the main thread or some other one.
Register(c) ==
  /\ adder[c] = "new" /\ InTurn(c)
  /\ adder' = [adder EXCEPT ![c] = "link"]
  /\ seen' = [seen EXCEPT ![c] = ctail]
  /\ raced' = IF \E d \in Clocks : adder[d] = "link" THEN raced \union {"clocks"} ELSE raced
  /\ UNCHANGED <<clocks, ctail, null, click, erase, finvars, pc, handlervars, fired, refused>>

Registered(c) ==
  /\ adder[c] = "link"
  /\ adder' = [adder EXCEPT ![c] = "done"]
  /\ clocks' = Hooked(clocks, seen[c], c) /\ ctail' = c
  /\ seen' = [seen EXCEPT ![c] = End]
  /\ UNCHANGED <<null, click, erase, finvars, pc, handlervars, fired, refused, raced>>

-----------------------------------------------------------------------------
(* threadsClock.                                                           *)

\* The signal arrives, in some thread: it may be one that has reported its end.
\* The walks are taken to be over before the next signal, 50 ms later.
Tick ==
  /\ handler = "idle"
  /\ handler' = "reap" /\ it' = First(finished)
  /\ host' \in {End} \union {w \in Tids : pc[w] = "left"}
  /\ UNCHANGED <<clockvars, finvars, pc, seen, fired, refused, raced>>

\* The thread is waited for (a thread does not wait for itself) and forgotten.
Reap ==
  /\ handler = "reap" /\ it # End
  /\ pc[it] = "gone" \/ host = it
  /\ map' = map \ {it}
  /\ pc' = [pc EXCEPT ![it] = IF @ = "gone" THEN "none" ELSE @]
  /\ it' = After(finished, it)
  /\ UNCHANGED <<clockvars, finished, ftail, seen, handler, host, fired, refused, raced>>

\* Fault: clock_thread_finished keeps what was reaped.
ReapedForgotten ==
  /\ handler = "reap" /\ it = End
  /\ handler' = "prune"
  /\ UNCHANGED <<clockvars, finvars, pc, seen, it, host, fired, refused, raced>>

\* clock_thread_finished is cleared, whatever has come to it meanwhile.
Reaped ==
  /\ handler = "reap" /\ it = End
  /\ handler' = "prune"
  /\ finished' = <<>> /\ ftail' = End
  /\ raced' = IF \E w \in Tids : pc[w] = "link" THEN raced \union {"finished"} ELSE raced
  /\ UNCHANGED <<clockvars, map, pc, seen, it, host, fired, refused>>

\* Fault: the entry after each one that is used up.
UsedNext == {c \in ToSet(clocks) : \E d \in null : After(clocks, d) = c}

\* The entries remove_if takes out.
Used == null

\* clocks_list is pruned now and then, and the walk over it begins.
Prune ==
  /\ handler = "prune"
  /\ handler' = "walk"
  /\ \/ /\ erase > 0
        /\ erase' = erase - 1
        /\ it' = First(clocks)
        /\ UNCHANGED <<clocks, ctail, raced>>
     \/ /\ erase = 0
        /\ erase' = EraseEvery
        /\ clocks' = Without(clocks, Used)
        /\ ctail' = IF ctail \notin ToSet(clocks) THEN ctail
                    ELSE IF clocks' = <<>> THEN End ELSE Last(clocks')
        /\ it' = First(clocks')
        /\ raced' = IF clocks' # clocks /\ \E c \in Clocks : adder[c] = "link"
                      THEN raced \union {"clocks"} ELSE raced
  /\ UNCHANGED <<null, click, adder, finvars, pc, seen, host, fired, refused>>

\* An entry that is used up is passed over, any other clock counted down ...
Count ==
  /\ handler = "walk" /\ it # End
  /\ it \in null \/ click[it] > 0
  /\ click' = IF it \in null THEN click ELSE [click EXCEPT ![it] = @ - 1]
  /\ it' = After(clocks, it)
  /\ UNCHANGED <<clocks, ctail, null, erase, adder, finvars, pc, seen, handler, host, fired,
                 refused, raced>>

\* A periodic clock starts over, any other is deleted and its entry made NULL.
StartOver(c) ==
  \/ c \in Periodic /\ click' = [click EXCEPT ![c] = Raw[c]] /\ UNCHANGED null
  \/ c \in OneShot /\ null' = null \union {c} /\ UNCHANGED click

Due == handler = "walk" /\ it # End /\ it \notin null /\ click[it] = 0

\* ... until it has reached zero: a thread is entered in the map and started ...
Fire ==
  /\ Due
  /\ \E w \in Tids :
       /\ pc[w] = "none" /\ w \notin map
       /\ pc' = [pc EXCEPT ![w] = "run"]
       /\ map' = map \union {w}
  /\ fired' = [c \in OneShot |-> IF c = it THEN fired[c] + 1 ELSE fired[c]]
  /\ StartOver(it)
  /\ it' = After(clocks, it)
  /\ UNCHANGED <<clocks, ctail, erase, adder, finished, ftail, seen, handler, host, refused, raced>>

\* ... or pthread_create fails, which is not looked at.
FireFails ==
  /\ Due
  /\ \A w \in Tids : pc[w] # "none" \/ w \in map
  /\ refused' = refused \union ({it} \intersect OneShot)
  /\ StartOver(it)
  /\ it' = After(clocks, it)
  /\ UNCHANGED <<clocks, ctail, erase, adder, finvars, pc, seen, handler, host, fired, raced>>

Return ==
  /\ handler = "walk" /\ it = End
  /\ handler' = "idle" /\ host' = End
  /\ UNCHANGED <<clockvars, finvars, pc, seen, it, fired, refused, raced>>

-----------------------------------------------------------------------------
Handler == Reap \/ Reaped \/ Prune \/ Count \/ Fire \/ FireFails \/ Return

Next ==
  \/ Tick \/ Reap \/ Reaped \/ Prune \/ Count \/ Fire \/ FireFails \/ Return
  \/ \E w \in Tids : Report(w) \/ Reported(w) \/ Exit(w)
  \/ \E c \in Clocks : Register(c) \/ Registered(c)

Spec == Init /\ [][Next]_vars

\* The timer ticks for ever, the handler runs, and so do the threads.
FairSpec ==
  /\ Spec
  /\ WF_vars(Tick) /\ WF_vars(Handler)
  /\ \A w \in Tids : WF_vars(Report(w) \/ Reported(w) \/ Exit(w))
  /\ \A c \in Clocks : WF_vars(Registered(c))

-----------------------------------------------------------------------------
\* The thread the handler is about to join is in the map: `find(tid)->second` in
\* threadsClock never follows end(), whatever the unguarded push_backs do.
ReportedKnown == (handler = "reap" /\ it # End) => it \in map

\* As long as no push_back meets another change of the same list, every thread that
\* has reported is still to be joined, and every clock filed is on the list until it
\* is used up: the daemons, which never are, stay on it for good.
NothingLost ==
  /\ "finished" \notin raced =>
       \A w \in Tids : (pc[w] \in {"left", "gone"} /\ w \in map) => w \in ToSet(finished)
  /\ "clocks" \notin raced =>
       \A c \in Clocks : adder[c] = "done" => c \in ToSet(clocks) \union (null \ Periodic)

\* A clock that is not periodic starts its thread once and not again, unless the
\* thread is refused or the clock lost by a race.
OneShotFires ==
  \A c \in OneShot :
    /\ [](fired[c] <= 1)
    /\ adder[c] = "done" ~> (fired[c] = 1 \/ c \in refused \/ "clocks" \in raced)
=============================================================================
