-------------------------- MODULE ClockDaemonProofs --------------------------
(***************************************************************************)
(* Proofs about ClockDaemon, for any clocks, any number of threads, and    *)
(* every interleaving of the unguarded push_backs with the handler.        *)
(***************************************************************************)
EXTENDS ClockDaemon, FiniteSetTheorems, SequenceTheorems, TLAPS

-----------------------------------------------------------------------------
(* std::list.                                                              *)

\* Whatever a push_back cuts off, it leaves the nodes before in their places, and
\* every node but the new one was in the list.
LEMMA HookedKeeps ==
  ASSUME NEW S, NEW list \in Seq(S), IsInjective(list), NEW tail, NEW x \in S, x \notin ToSet(list)
  PROVE  /\ Hooked(list, tail, x) \in Seq(S) /\ IsInjective(Hooked(list, tail, x))
         /\ \A i \in DOMAIN Hooked(list, tail, x) : Hooked(list, tail, x)[i] # x =>
              i \in DOMAIN list /\ Hooked(list, tail, x)[i] = list[i]
<1> DEFINE new == Hooked(list, tail, x)
<1>1. CASE tail = End
  <2>1. new = <<x>>
    BY <1>1 DEF Hooked
  <2> QED BY <2>1 DEF IsInjective
<1>2. CASE tail # End /\ tail \notin ToSet(list)
  <2>1. new = list
    BY <1>2 DEF Hooked
  <2> QED BY <2>1
<1>3. CASE tail # End /\ tail \in ToSet(list)
  <2> DEFINE n == CHOOSE i \in DOMAIN list : list[i] = tail
             head == SubSeq(list, 1, n)
  <2>1. DOMAIN list = 1 .. Len(list) /\ Len(list) \in Nat /\ \A i \in DOMAIN list : list[i] \in S
    BY LenProperties, ElementOfSeq
  <2>2. \E i \in DOMAIN list : list[i] = tail
    BY <1>3 DEF ToSet
  <2>3. n \in DOMAIN list
    BY <2>2
  <2>4. n \in 1 .. Len(list) /\ n \in Int
    BY <2>1, <2>3
  <2>5. new = Append(head, x)
    BY <1>3 DEF Hooked
  <2> HIDE DEF n, new
  <2>6. \A i \in 1 .. n : list[i] \in S /\ i \in DOMAIN list
    BY <2>1, <2>4
  <2>7. head \in Seq(S) /\ Len(head) = n /\ \A i \in 1 .. n : head[i] = list[i]
    <3>1. /\ head \in Seq(S) /\ Len(head) = IF 1 <= n THEN n - 1 + 1 ELSE 0
          /\ \A i \in 1 .. n - 1 + 1 : head[i] = list[1 + i - 1]
      BY <2>4, <2>6, SubSeqProperties, 1 \in Int
    <3>2. n - 1 + 1 = n /\ 1 <= n /\ \A i \in 1 .. n : 1 + i - 1 = i
      BY <2>4
    <3> QED BY <3>1, <3>2
  <2> HIDE DEF head
  <2>8. /\ new \in Seq(S) /\ Len(new) = n + 1
        /\ \A i \in 1 .. n : new[i] = list[i]
        /\ new[n + 1] = x
    BY <2>5, <2>7, AppendProperties
  <2>9. DOMAIN new = 1 .. n + 1
    BY <2>8, LenProperties
  <2>10. \A i \in DOMAIN new : i = n + 1 \/ i \in 1 .. n
    BY <2>4, <2>9
  <2>11. \A i \in 1 .. n : new[i] # x
    BY <2>6, <2>8 DEF ToSet
  <2>12. IsInjective(new)
    <3> SUFFICES ASSUME NEW i \in DOMAIN new, NEW j \in DOMAIN new, new[i] = new[j] PROVE i = j
      BY DEF IsInjective
    <3>1. CASE i = n + 1 \/ j = n + 1
      BY <3>1, <2>8, <2>10, <2>11
    <3>2. CASE i # n + 1 /\ j # n + 1
      <4>1. i \in DOMAIN list /\ j \in DOMAIN list /\ list[i] = list[j]
        BY <3>2, <2>6, <2>8, <2>10
      <4> QED BY <4>1 DEF IsInjective
    <3> QED BY <3>1, <3>2
  <2>13. \A i \in DOMAIN new : new[i] # x => i \in DOMAIN list /\ new[i] = list[i]
    BY <2>6, <2>8, <2>10
  <2> QED BY <2>8, <2>12, <2>13 DEF new
<1> QED BY <1>1, <1>2, <1>3

\* The node after one is the next in the list.
LEMMA AfterFollows ==
  ASSUME NEW list, NEW x, After(list, x) # End
  PROVE  \E i \in DOMAIN list : i > 1 /\ list[i - 1] = x /\ After(list, x) = list[i]
<1> DEFINE next == {i \in DOMAIN list : i > 1 /\ list[i - 1] = x}
<1>1. next # {} /\ After(list, x) = list[CHOOSE i \in next : TRUE]
  BY DEF After
<1>2. (CHOOSE i \in next : TRUE) \in next
  BY <1>1
<1> QED BY <1>1, <1>2

-----------------------------------------------------------------------------
(* What is left of a list without some of its values.                      *)

\* Kept entries and ranks by name.
Kept(q, gone) == {i \in DOMAIN q : q[i] \notin gone}
Rank(K, i) == Cardinality({j \in K : j <= i})

\* Ranks among a set of positions: they increase ...
LEMMA RanksIncrease ==
  ASSUME NEW n \in Nat, NEW K \in SUBSET (1 .. n)
  PROVE  /\ IsFiniteSet(K) /\ Cardinality(K) \in Nat
         /\ \A i \in K : Rank(K, i) \in 1 .. Cardinality(K)
         /\ \A i, j \in K : i < j => Rank(K, i) < Rank(K, j)
<1>1. IsFiniteSet(K) /\ Cardinality(K) \in Nat
  <2>1. IsFiniteSet(1 .. n)
    BY FS_Interval
  <2> QED BY <2>1, FS_Subset, FS_CardinalityType
<1>2. ASSUME NEW i \in K
      PROVE  /\ IsFiniteSet({j \in K : j <= i}) /\ Rank(K, i) \in Nat /\ Rank(K, i) > 0
             /\ Rank(K, i) <= Cardinality(K)
  <2> DEFINE B == {j \in K : j <= i}
  <2>1. B \in SUBSET K /\ i \in B
    OBVIOUS
  <2>2. IsFiniteSet(B) /\ Cardinality(B) <= Cardinality(K)
    BY <2>1, <1>1, FS_Subset
  <2>3. Cardinality(B) \in Nat /\ (Cardinality(B) = 0 <=> B = {})
    <3> HIDE DEF B
    <3> QED BY <2>2, FS_CardinalityType, FS_EmptySet
  <2>4. Cardinality(B) # 0
    BY <2>1, <2>3
  <2> HIDE DEF B
  <2>5. Rank(K, i) = Cardinality(B)
    BY DEF B, Rank
  <2> QED BY <2>2, <2>3, <2>4, <2>5 DEF B
<1>3. ASSUME NEW i \in K, NEW j \in K, i < j
      PROVE  Rank(K, i) < Rank(K, j)
  <2> DEFINE A == {h \in K : h <= i}  B == {h \in K : h <= j}
  <2>1. A \in SUBSET B /\ j \in B /\ j \notin A
    <3>1. \A h \in K : h \in Nat
      OBVIOUS
    <3>2. i \in Nat /\ j \in Nat /\ i < j
      BY <3>1, <1>3
    <3>3. \A h \in K : h <= i => h <= j
      BY <3>1, <3>2
    <3>4. j <= j /\ ~(j <= i)
      BY <3>2
    <3> QED BY <3>3, <3>4
  <2>2. IsFiniteSet(B)
    BY <1>2
  <2> HIDE DEF A, B
  <2>3. A # B
    BY <2>1
  <2>4. /\ Cardinality(A) <= Cardinality(B)
        /\ Cardinality(A) = Cardinality(B) => A = B
    BY <2>1, <2>2, FS_Subset
  <2>5. Rank(K, i) = Cardinality(A) /\ Rank(K, j) = Cardinality(B)
    BY DEF A, B, Rank
  <2>6. Rank(K, i) \in Nat /\ Rank(K, j) \in Nat
    BY <1>2
  <2> QED BY <2>3, <2>4, <2>5, <2>6
<1>4. ASSUME NEW i \in K PROVE Rank(K, i) \in 1 .. Cardinality(K)
  <2>1. Rank(K, i) \in Nat /\ Rank(K, i) > 0 /\ Rank(K, i) <= Cardinality(K)
    BY <1>2
  <2> QED BY <2>1, <1>1
<1>5. \A i, j \in K : i < j => Rank(K, i) < Rank(K, j)
  BY <1>3
<1> QED BY <1>1, <1>4, <1>5

\* ... and leave none out.
LEMMA RanksFill ==
  ASSUME NEW n \in Nat, NEW K \in SUBSET (1 .. n)
  PROVE  \A m \in 1 .. Cardinality(K) : \E i \in K : Rank(K, i) = m
<1> DEFINE f == [i \in K |-> Rank(K, i)]  T == 1 .. Cardinality(K)
<1>1. /\ Cardinality(K) \in Nat /\ f \in [K -> T]
      /\ \A i, j \in K : i < j => f[i] < f[j]
  BY RanksIncrease
<1>2. IsFiniteSet(T) /\ Cardinality(T) = Cardinality(K)
  BY <1>1, FS_Interval
<1>3. f \in Injection(K, T)
  <2>1. \A i, j \in K : i < j \/ i = j \/ j < i
    OBVIOUS
  <2>2. \A i \in K : f[i] \in Nat
    BY <1>1
  <2> HIDE DEF f, T
  <2>3. \A i, j \in K : f[i] = f[j] => i = j
    BY <2>1, <2>2, <1>1
  <2> QED BY <1>1, <2>3 DEF Injection, IsInjective
<1> HIDE DEF f, T
<1>4. f \in Surjection(K, T)
  BY <1>2, <1>3, FS_Injection
<1>5. \A m \in T : \E i \in K : f[i] = m
  BY <1>4 DEF Surjection
<1> QED BY <1>5 DEF f, T

\* f says where in q the entries of w stood: in the same order, and none of those
\* that stay is missing.
StoodAt(f, w, q, gone) ==
  /\ f \in [DOMAIN w -> DOMAIN q]
  /\ \A n \in DOMAIN w : w[n] = q[f[n]] /\ q[f[n]] \notin gone
  /\ \A m, n \in DOMAIN w : m < n => f[m] < f[n]
  /\ \A i \in DOMAIN q : q[i] \notin gone => \E n \in DOMAIN w : f[n] = i

\* list::remove_if keeps the other entries, and their order.
LEMMA WithoutKeeps ==
  ASSUME NEW S, NEW q \in Seq(S), NEW gone, NEW w, w = Without(q, gone)
  PROVE  /\ w \in Seq(S) /\ Len(w) \in Nat /\ DOMAIN w = 1 .. Len(w)
         /\ \E f : StoodAt(f, w, q, gone)
         /\ \A p \in 1 .. Len(q) : (\A i \in 1 .. p : q[i] \notin gone)
              => p <= Len(w) /\ \A i \in 1 .. p : w[i] = q[i]
<1> DEFINE K == Kept(q, gone)
           f == [n \in 1 .. Cardinality(K) |-> CHOOSE i \in K : Rank(K, i) = n]
<1>1. Len(q) \in Nat /\ DOMAIN q = 1 .. Len(q) /\ K \in SUBSET (1 .. Len(q))
  BY LenProperties DEF Kept
<1>2. w = [n \in 1 .. Cardinality(K) |-> q[CHOOSE i \in K : Rank(K, i) = n]]
  BY DEF Without, Rank, Kept
<1> HIDE DEF K
<1>3. /\ Cardinality(K) \in Nat
      /\ \A i \in K : Rank(K, i) \in 1 .. Cardinality(K)
      /\ \A i, j \in K : i < j => Rank(K, i) < Rank(K, j)
      /\ \A m \in 1 .. Cardinality(K) : \E i \in K : Rank(K, i) = m
  BY <1>1, RanksIncrease, RanksFill
<1>4. ASSUME NEW n \in 1 .. Cardinality(K)
      PROVE  f[n] \in K /\ Rank(K, f[n]) = n /\ w[n] = q[f[n]]
  <2>1. f[n] = CHOOSE i \in K : Rank(K, i) = n
    OBVIOUS
  <2>2. \E i \in K : Rank(K, i) = n
    BY <1>3
  <2> HIDE DEF f
  <2> QED BY <2>1, <2>2, <1>2
<1>5. \A i \in K : i \in DOMAIN q /\ q[i] \notin gone /\ q[i] \in S /\ i \in Nat
  BY <1>1, ElementOfSeq DEF K, Kept
<1>6. w \in [1 .. Cardinality(K) -> S] /\ Len(w) = Cardinality(K) /\ DOMAIN w = 1 .. Len(w)
      /\ w \in Seq(S)
  BY <1>2, <1>3, <1>4, <1>5
<1> HIDE DEF f
<1>7. \A m, n \in 1 .. Cardinality(K) : m < n => f[m] < f[n]
  <2> SUFFICES ASSUME NEW m \in 1 .. Cardinality(K), NEW n \in 1 .. Cardinality(K), m < n
               PROVE  f[m] < f[n]
    OBVIOUS
  <2>1. f[m] \in K /\ f[n] \in K /\ f[m] \in Nat /\ f[n] \in Nat
    BY <1>4, <1>5
  <2>2. ~(f[n] < f[m]) /\ f[m] # f[n]
    BY <2>1, <1>3, <1>4
  <2> QED BY <2>1, <2>2
<1>8. \A i \in DOMAIN q : q[i] \notin gone => \E n \in 1 .. Cardinality(K) : f[n] = i
  <2> SUFFICES ASSUME NEW i \in DOMAIN q, q[i] \notin gone
               PROVE  \E n \in 1 .. Cardinality(K) : f[n] = i
    OBVIOUS
  <2>1. i \in K
    BY DEF K, Kept
  <2> DEFINE n == Rank(K, i)
  <2>2. n \in 1 .. Cardinality(K)
    BY <2>1, <1>3
  <2>3. f[n] \in K /\ Rank(K, f[n]) = n
    BY <2>2, <1>4
  <2>4. ~(f[n] < i) /\ ~(i < f[n]) /\ f[n] \in Nat /\ i \in Nat
    BY <2>1, <2>2, <2>3, <1>3, <1>5
  <2> HIDE DEF n
  <2>5. f[n] = i
    BY <2>4
  <2> QED BY <2>2, <2>5
<1>9. f \in [1 .. Len(w) -> DOMAIN q]
  BY <1>4, <1>5, <1>6 DEF f
<1>10. \A p \in Nat : (\A i \in 1 .. p : i \in K)
          => p <= Cardinality(K) /\ \A i \in 1 .. p : w[i] = q[i]
  <2> SUFFICES ASSUME NEW p \in Nat, \A i \in 1 .. p : i \in K
               PROVE  p <= Cardinality(K) /\ \A i \in 1 .. p : w[i] = q[i]
    OBVIOUS
  <2>1. ASSUME NEW i \in 1 .. p PROVE Rank(K, i) = i
    <3>1. {j \in K : j <= i} = 1 .. i
      BY <1>5
    <3>2. Cardinality(1 .. i) = i
      BY FS_Interval
    <3> QED BY <3>1, <3>2 DEF Rank
  <2>2. ASSUME NEW i \in 1 .. p
        PROVE  i \in 1 .. Cardinality(K) /\ w[i] = q[i]
    <3>1. i \in 1 .. Cardinality(K)
      BY <2>1, <1>3
    <3>2. f[i] \in K /\ Rank(K, f[i]) = i /\ w[i] = q[f[i]] /\ f[i] \in Nat
      BY <3>1, <1>4, <1>5
    <3>3. ~(f[i] < i) /\ ~(i < f[i])
      BY <3>2, <2>1, <1>3
    <3> QED BY <3>1, <3>2, <3>3
  <2> QED BY <2>2, <1>3
<1>11. StoodAt(f, w, q, gone)
  <2>1. \A n \in DOMAIN w : w[n] = q[f[n]] /\ q[f[n]] \notin gone
    BY <1>4, <1>5, <1>6
  <2>2. \A m, n \in DOMAIN w : m < n => f[m] < f[n]
    BY <1>6, <1>7
  <2>3. \A i \in DOMAIN q : q[i] \notin gone => \E n \in DOMAIN w : f[n] = i
    BY <1>6, <1>8
  <2> QED BY <2>1, <2>2, <2>3, <1>6, <1>9 DEF StoodAt
<1>12. \A p \in 1 .. Len(q) : (\A i \in 1 .. p : q[i] \notin gone)
          => p <= Len(w) /\ \A i \in 1 .. p : w[i] = q[i]
  <2> SUFFICES ASSUME NEW p \in 1 .. Len(q), \A i \in 1 .. p : q[i] \notin gone
               PROVE  p <= Len(w) /\ \A i \in 1 .. p : w[i] = q[i]
    OBVIOUS
  <2>1. \A i \in 1 .. p : i \in K
    BY <1>1 DEF K, Kept
  <2> QED BY <2>1, <1>6, <1>10, <1>1
<1> QED BY <1>3, <1>6, <1>11, <1>12

-----------------------------------------------------------------------------
(* Who is in clock_thread_finished, and who in clocks_thread_map.          *)

Typed ==
  /\ finished \in Seq(Tids) /\ IsInjective(finished)
  /\ pc \in [Tids -> {"none", "run", "link", "left", "gone"}]
  /\ map \subseteq Tids

\* A thread that has still to report is in the map and not in the list, and the
\* handler is not about to join it.
Fresh ==
  \A w \in Tids : pc[w] \in {"run", "link"} =>
    w \in map /\ w \notin ToSet(finished) /\ (handler = "reap" => it # w)

\* While the handler joins, it and those after it are in the map.
Ahead ==
  handler = "reap" /\ it # End =>
    /\ it \in map
    /\ \A i, j \in DOMAIN finished : finished[i] = it /\ i < j => finished[j] \in map

\* Otherwise all that have reported are.
Known == handler # "reap" => ToSet(finished) \subseteq map

\* The thread the handler has interrupted, if it has reported, is there still.
Interrupted == host # End => host \in Tids /\ pc[host] = "left"

Inv == Typed /\ Fresh /\ Ahead /\ Known /\ Interrupted

\* Every step of the threads and of the handler keeps the invariant.
LEMMA NextInv == Inv /\ [Next]_vars => Inv'
<1> SUFFICES ASSUME Inv, [Next]_vars PROVE Inv'
  OBVIOUS
<1> DEFINE NoThread == End \notin Tids
<1>a. NoThread
  BY ClockAssumption
<1> USE <1>a DEF Inv
<1>1. CASE Tick
  <2>1. handler = "idle" /\ handler' = "reap" /\ it' = First(finished) /\ UNCHANGED <<finished, map, pc>>
    BY <1>1 DEF Tick, finvars
  <2>2. Typed' /\ Interrupted'
    BY <1>1, <2>1 DEF Tick, finvars, Typed, Interrupted
  <2>3. it' # End => finished # <<>> /\ it' = finished[1] /\ 1 \in DOMAIN finished
    BY <2>1, EmptySeq, LenProperties DEF First, Typed
  <2>4. \A i \in DOMAIN finished : finished[i] \in map /\ finished[i] \in ToSet(finished)
    BY <2>1 DEF Known, ToSet
  <2>5. Ahead'
    BY <2>1, <2>3, <2>4 DEF Ahead
  <2>6. Fresh'
    BY <2>1, <2>3, <2>4 DEF Fresh
  <2> QED BY <2>1, <2>2, <2>5, <2>6 DEF Known
<1>2. CASE Reap
  <2>1. /\ handler = "reap" /\ it # End /\ map' = map \ {it} /\ it' = After(finished, it)
        /\ pc' = [pc EXCEPT ![it] = IF @ = "gone" THEN "none" ELSE @]
        /\ UNCHANGED <<finished, handler, host>> /\ (pc[it] = "gone" \/ host = it)
    BY <1>2 DEF Reap
  <2>2. it \in Tids /\ it \in map /\ pc[it] \in {"gone", "left"}
    BY <2>1 DEF Ahead, Typed, Interrupted
  <2>3. \A w \in Tids : pc'[w] \in {"run", "link", "left"} <=> pc[w] \in {"run", "link", "left"}
    BY <2>1, <2>2 DEF Typed
  <2>4. \A w \in Tids : pc'[w] \in {"run", "link", "left"} => pc'[w] = pc[w]
    BY <2>1, <2>2 DEF Typed
  <2>5. Typed'
    BY <2>1 DEF Typed
  <2>6. Interrupted'
    BY <2>1, <2>2, <2>3, <2>4 DEF Interrupted, Typed
  <2>7. ASSUME it' # End
        PROVE  \E i \in DOMAIN finished : i > 1 /\ finished[i - 1] = it /\ it' = finished[i]
    BY <2>1, <2>7, AfterFollows
  <2>8. DOMAIN finished = 1 .. Len(finished) /\ Len(finished) \in Nat
    BY LenProperties DEF Typed
  <2>9. Fresh'
    <3> SUFFICES ASSUME NEW w \in Tids, pc'[w] \in {"run", "link"}
                 PROVE  w \in map' /\ w \notin ToSet(finished') /\ it' # w
      BY DEF Fresh
    <3>1. pc[w] \in {"run", "link"} /\ w # it
      BY <2>2, <2>3, <2>4
    <3>2. w \in map /\ w \notin ToSet(finished)
      BY <3>1 DEF Fresh
    <3>3. it' # w
      BY <2>7, <3>2 DEF ToSet
    <3> QED BY <2>1, <3>1, <3>2, <3>3
  <2>10. Ahead'
    <3> SUFFICES ASSUME it' # End
                 PROVE  /\ it' \in map'
                        /\ \A i, j \in DOMAIN finished : finished[i] = it' /\ i < j => finished[j] \in map'
      BY <2>1 DEF Ahead
    <3>1. PICK k \in DOMAIN finished : k > 1 /\ finished[k - 1] = it /\ it' = finished[k]
      BY <2>7
    <3>2. k - 1 \in DOMAIN finished /\ k - 1 < k /\ k \in Nat
      BY <2>8, <3>1
    <3>3. \A j \in DOMAIN finished : k - 1 < j => finished[j] \in map /\ finished[j] # it
      <4> SUFFICES ASSUME NEW j \in DOMAIN finished, k - 1 < j PROVE finished[j] \in map /\ finished[j] # it
        OBVIOUS
      <4>1. finished[j] \in map
        BY <2>1, <3>1, <3>2 DEF Ahead
      <4>2. finished[j] # it
        BY <2>8, <3>1, <3>2 DEF Typed, IsInjective
      <4> QED BY <4>1, <4>2
    <3>4. it' \in map'
      BY <2>1, <3>1, <3>2, <3>3
    <3>5. ASSUME NEW i \in DOMAIN finished, NEW j \in DOMAIN finished, finished[i] = it', i < j
          PROVE  finished[j] \in map'
      <4>1. i = k
        BY <3>1, <3>5 DEF Typed, IsInjective
      <4>2. k - 1 < j
        BY <2>8, <3>2, <3>5, <4>1
      <4> QED BY <2>1, <3>3, <4>2
    <3> QED BY <3>4, <3>5
  <2> QED BY <2>1, <2>5, <2>6, <2>9, <2>10 DEF Known
<1>3. CASE Reaped
  <2>1. handler' = "prune" /\ finished' = <<>> /\ UNCHANGED <<map, pc, host>>
    BY <1>3 DEF Reaped
  <2>2. Typed'
    BY <2>1, EmptySeq DEF Typed, IsInjective
  <2>3. ToSet(finished') = {}
    BY <2>1 DEF ToSet
  <2> QED BY <2>1, <2>2, <2>3 DEF Fresh, Ahead, Known, Interrupted
<1>4. CASE Prune
  <2>1. handler # "reap" /\ handler' # "reap" /\ UNCHANGED <<finished, map, pc>> /\ host' \in {host, End}
    BY <1>4 DEF Prune, Due, finvars
  <2> QED BY <2>1 DEF Typed, Fresh, Ahead, Known, Interrupted
<1>5. CASE Count
  <2>1. handler # "reap" /\ handler' # "reap" /\ UNCHANGED <<finished, map, pc>> /\ host' \in {host, End}
    BY <1>5 DEF Count, Due, finvars
  <2> QED BY <2>1 DEF Typed, Fresh, Ahead, Known, Interrupted
<1>6. CASE Fire
  <2>1. handler = "walk" /\ UNCHANGED <<finished, handler, host>>
    BY <1>6 DEF Fire, Due
  <2>2. PICK w \in Tids : pc[w] = "none" /\ w \notin map /\ pc' = [pc EXCEPT ![w] = "run"] /\ map' = map \union {w}
    BY <1>6 DEF Fire
  <2>3. w \notin ToSet(finished)
    BY <2>1, <2>2 DEF Known
  <2>4. Typed' /\ Interrupted'
    BY <2>1, <2>2 DEF Typed, Interrupted
  <2>5. Fresh'
    BY <2>1, <2>2, <2>3 DEF Fresh, Typed
  <2> QED BY <2>1, <2>2, <2>4, <2>5 DEF Ahead, Known
<1>7. CASE FireFails
  <2>1. handler # "reap" /\ handler' # "reap" /\ UNCHANGED <<finished, map, pc>> /\ host' \in {host, End}
    BY <1>7 DEF FireFails, Due, finvars
  <2> QED BY <2>1 DEF Typed, Fresh, Ahead, Known, Interrupted
<1>8. CASE Return
  <2>1. handler # "reap" /\ handler' # "reap" /\ UNCHANGED <<finished, map, pc>> /\ host' \in {host, End}
    BY <1>8 DEF Return, Due, finvars
  <2> QED BY <2>1 DEF Typed, Fresh, Ahead, Known, Interrupted
<1>9. ASSUME NEW w \in Tids, Report(w) PROVE Inv'
  <2>1. /\ pc[w] = "run" /\ pc' = [pc EXCEPT ![w] = "link"]
        /\ UNCHANGED <<finished, map, handler, it, host>>
    BY <1>9 DEF Report, finvars, handlervars
  <2>2. Typed' /\ Interrupted'
    BY <2>1 DEF Typed, Interrupted
  <2>3. Fresh'
    BY <2>1 DEF Fresh, Typed
  <2> QED BY <2>1, <2>2, <2>3 DEF Ahead, Known
<1>10. ASSUME NEW w \in Tids, Reported(w) PROVE Inv'
  <2>1. /\ pc[w] = "link" /\ pc' = [pc EXCEPT ![w] = "left"]
        /\ finished' = Hooked(finished, seen[w], w)
        /\ UNCHANGED <<map, handler, it, host>>
    BY <1>10 DEF Reported, handlervars
  <2>2. w \in map /\ w \notin ToSet(finished) /\ (handler = "reap" => it # w)
    BY <2>1 DEF Fresh
  <2>3. finished' \in Seq(Tids) /\ IsInjective(finished')
    BY <2>1, <2>2, HookedKeeps DEF Typed
  <2>4. \A i \in DOMAIN finished' : finished'[i] # w => i \in DOMAIN finished /\ finished'[i] = finished[i]
    BY <2>1, <2>2, HookedKeeps DEF Typed
  <2>5. Typed' /\ Interrupted'
    BY <2>1, <2>3 DEF Typed, Interrupted
  <2>6. \A v \in ToSet(finished') : v = w \/ v \in ToSet(finished)
    BY <2>4 DEF ToSet
  <2>7. Fresh'
    BY <2>1, <2>6 DEF Fresh, Typed
  <2>8. Ahead'
    BY <2>1, <2>2, <2>4 DEF Ahead
  <2>9. Known'
    BY <2>1, <2>2, <2>6 DEF Known
  <2> QED BY <2>5, <2>7, <2>8, <2>9
<1>11. ASSUME NEW w \in Tids, Exit(w) PROVE Inv'
  <2>1. /\ pc[w] = "left" /\ host # w /\ pc' = [pc EXCEPT ![w] = IF w \in map THEN "gone" ELSE "none"]
        /\ UNCHANGED <<finished, map, handler, it, host>>
    BY <1>11 DEF Exit, finvars, handlervars
  <2>2. Typed' /\ Interrupted'
    BY <2>1 DEF Typed, Interrupted
  <2>3. Fresh'
    BY <2>1 DEF Fresh, Typed
  <2> QED BY <2>1, <2>2, <2>3 DEF Ahead, Known
<1>12. ASSUME NEW c \in Clocks, Register(c) PROVE Inv'
  <2>1. UNCHANGED <<finished, map, pc, handler, it, host>>
    BY <1>12 DEF Register, finvars, handlervars
  <2> QED BY <2>1 DEF Typed, Fresh, Ahead, Known, Interrupted
<1>13. ASSUME NEW c \in Clocks, Registered(c) PROVE Inv'
  <2>1. UNCHANGED <<finished, map, pc, handler, it, host>>
    BY <1>13 DEF Registered, finvars, handlervars
  <2> QED BY <2>1 DEF Typed, Fresh, Ahead, Known, Interrupted
<1>14. CASE UNCHANGED vars
  <2>1. UNCHANGED <<finished, map, pc, handler, it, host>>
    BY <1>14 DEF vars, finvars, handlervars
  <2> QED BY <2>1 DEF Typed, Fresh, Ahead, Known, Interrupted
<1> QED BY <1>1, <1>2, <1>3, <1>4, <1>5, <1>6, <1>7, <1>8, <1>9, <1>10, <1>11, <1>12, <1>13, <1>14 DEF Next

\* Nothing has reported when the clock starts.
LEMMA InitInv == Init => Inv
<1> SUFFICES ASSUME Init PROVE Inv
  OBVIOUS
<1>1. finished = <<>> /\ ToSet(finished) = {} /\ handler = "idle" /\ host = End
  BY DEF Init, ToSet
<1>2. Typed
  BY EmptySeq DEF Init, Typed, IsInjective
<1>3. Fresh
  BY DEF Init, Fresh
<1> QED BY <1>1, <1>2, <1>3 DEF Inv, Ahead, Known, Interrupted

\* `find(tid)->second` never follows end(): every thread the handler comes to is in
\* clocks_thread_map.  A push_back that meets the handler or another push_back may
\* cut threads off clock_thread_finished, but none is entered there twice, nor
\* after the handler has forgotten it.
THEOREM JoinsKnown == Spec => []ReportedKnown
<1>1. Inv => ReportedKnown
  BY DEF Inv, Ahead, ReportedKnown
<1> QED BY <1>1, InitInv, NextInv, PTL DEF Spec
-----------------------------------------------------------------------------
(* Nothing is lost.                                                        *)

\* The node a tail pointer should lead to.
TailOf(list) == IF list = <<>> THEN End ELSE Last(list)

\* A push_back that has read the tail the list has when it hooks on is an append.
LEMMA HookedOnTail ==
  ASSUME NEW S, NEW list \in Seq(S), IsInjective(list), End \notin S, NEW x
  PROVE  Hooked(list, TailOf(list), x) = Append(list, x)
<1>1. CASE list = <<>>
  BY <1>1 DEF TailOf, Hooked
<1>2. CASE list # <<>>
  <2> DEFINE n == Len(list)  k == CHOOSE i \in DOMAIN list : list[i] = Last(list)
  <2>1. n \in Nat /\ n > 0 /\ DOMAIN list = 1 .. n /\ Last(list) = list[n]
    BY <1>2, LenProperties, EmptySeq DEF Last
  <2>2. n \in DOMAIN list /\ list[n] \in S
    BY <2>1, ElementOfSeq
  <2>3. TailOf(list) = list[n] /\ list[n] # End /\ list[n] \in ToSet(list)
    BY <1>2, <2>1, <2>2 DEF TailOf, ToSet
  <2>4. k = n
    BY <2>1, <2>2 DEF IsInjective
  <2>5. Hooked(list, TailOf(list), x) = Append(SubSeq(list, 1, k), x)
    BY <2>1, <2>3 DEF Hooked
  <2>6. SubSeq(list, 1, n) = list
    BY <2>1
  <2> HIDE DEF n, k
  <2> QED BY <2>4, <2>5, <2>6
<1> QED BY <1>1, <1>2

\* remove_if takes out the values meant and no others.
LEMMA WithoutRest ==
  ASSUME NEW S, NEW q \in Seq(S), IsInjective(q), NEW gone, NEW w, w = Without(q, gone)
  PROVE  w \in Seq(S) /\ IsInjective(w) /\ ToSet(w) = ToSet(q) \ gone
<1>1. w \in Seq(S) /\ Len(w) \in Nat /\ DOMAIN w = 1 .. Len(w)
  BY WithoutKeeps
<1>2. PICK f : StoodAt(f, w, q, gone)
  BY WithoutKeeps
<1>3. Len(q) \in Nat /\ DOMAIN q = 1 .. Len(q)
  BY LenProperties
<1>4. \A n \in DOMAIN w : f[n] \in DOMAIN q /\ f[n] \in Nat /\ w[n] = q[f[n]] /\ w[n] \notin gone
  BY <1>2, <1>3 DEF StoodAt
<1>5. IsInjective(w)
  <2> SUFFICES ASSUME NEW m \in DOMAIN w, NEW n \in DOMAIN w, w[m] = w[n] PROVE m = n
    BY DEF IsInjective
  <2>1. f[m] = f[n]
    BY <1>4 DEF IsInjective
  <2>2. ~(m < n) /\ ~(n < m)
    BY <2>1, <1>2, <1>4 DEF StoodAt
  <2> QED BY <2>2, <1>1
<1>6. \A v \in ToSet(w) : v \in ToSet(q) \ gone
  BY <1>4 DEF ToSet
<1>7. \A v \in ToSet(q) \ gone : v \in ToSet(w)
  <2> SUFFICES ASSUME NEW i \in DOMAIN q, q[i] \notin gone PROVE q[i] \in ToSet(w)
    BY DEF ToSet
  <2>1. PICK n \in DOMAIN w : f[n] = i
    BY <1>2 DEF StoodAt
  <2> QED BY <2>1, <1>4 DEF ToSet
<1> QED BY <1>1, <1>5, <1>6, <1>7

\* What the push_backs have read, and where the tail pointers lead.
Noted ==
  /\ seen \in [Tids \union Clocks -> Tids \union Clocks \union {End}]
  /\ ftail \in Tids \union {End} /\ ctail \in Clocks \union {End}
  /\ adder \in [Clocks -> {"new", "link", "done"}]

\* clocks_list: clocks that have been filed, none of them twice.
Filed ==
  /\ null \subseteq OneShot
  /\ clocks \in Seq(Clocks) /\ IsInjective(clocks)
  /\ \A i \in DOMAIN clocks : adder[clocks[i]] = "done"

\* As long as no push_back on clocks_list has met another change, its tail pointer
\* leads to its end, and what has been filed is there.
Lasting == "clocks" \notin raced =>
  /\ ctail = TailOf(clocks)
  /\ \A c, d \in Clocks : adder[c] = "link" /\ adder[d] = "link" => c = d
  /\ \A c \in Clocks : adder[c] = "link" => seen[c] = ctail
  /\ \A c \in Clocks : adder[c] = "done" => c \in ToSet(clocks) \union null

\* The same of clock_thread_finished; and while the handler joins, those of it that
\* are still in the map stand at the iterator or behind it.
Waiting == "finished" \notin raced =>
  /\ ftail = TailOf(finished)
  /\ \A v, w \in Tids : pc[v] = "link" /\ pc[w] = "link" => v = w
  /\ \A w \in Tids : pc[w] = "link" => seen[w] = ftail
  /\ \A w \in Tids : pc[w] \in {"left", "gone"} /\ w \in map => w \in ToSet(finished)
  /\ handler = "reap" => \A i \in DOMAIN finished : finished[i] \in map =>
       \E k \in DOMAIN finished : k <= i /\ finished[k] = it

Lists == Noted /\ Filed /\ Lasting

\* Most steps leave clocks_list alone; a walk may make entries NULL.
LEMMA ListsKept ==
  ASSUME Lists, UNCHANGED <<clocks, ctail, adder>>, null \subseteq null', null' \subseteq OneShot,
         ftail' \in Tids \union {End},
         seen' \in [Tids \union Clocks -> Tids \union Clocks \union {End}],
         \A c \in Clocks : seen'[c] = seen[c],
         "clocks" \in raced => "clocks" \in raced'
  PROVE  Lists'
<1>1. Noted'
  BY DEF Lists, Noted
<1>2. Filed'
  BY DEF Lists, Filed
<1>3. Lasting'
  BY DEF Lists, Lasting, TailOf
<1> QED BY <1>1, <1>2, <1>3 DEF Lists

\* newClock files a clock.
LEMMA RegisteredLists == ASSUME Lists, NEW c \in Clocks, Registered(c) PROVE Lists'
<1> PICK list, new : list = clocks /\ new = clocks'
  OBVIOUS
<1>1. /\ adder[c] = "link" /\ adder' = [adder EXCEPT ![c] = "done"]
      /\ new = Hooked(list, seen[c], c) /\ ctail' = c
      /\ seen' = [seen EXCEPT ![c] = End]
      /\ UNCHANGED <<null, ftail, raced>>
  BY DEF Registered, finvars
<1>2. /\ list \in Seq(Clocks) /\ IsInjective(list) /\ Len(list) \in Nat
      /\ DOMAIN list = 1 .. Len(list)
      /\ \A i \in DOMAIN list : adder[list[i]] = "done" /\ list[i] \in Clocks
  BY LenProperties, ElementOfSeq DEF Lists, Filed
<1>3. c \notin ToSet(list)
  BY <1>1, <1>2 DEF ToSet
<1>4. /\ new \in Seq(Clocks) /\ IsInjective(new)
      /\ \A i \in DOMAIN new : new[i] # c => i \in DOMAIN list /\ new[i] = list[i]
  BY <1>1, <1>2, <1>3, HookedKeeps
<1>5. Noted'
  BY <1>1 DEF Lists, Noted
<1>6. \A d \in Clocks : d # c => adder'[d] = adder[d] /\ seen'[d] = seen[d]
  BY <1>1 DEF Lists, Noted
<1>7. adder'[c] = "done"
  BY <1>1 DEF Lists, Noted
<1>8. Filed'
  <2>1. ASSUME NEW i \in DOMAIN new PROVE adder'[new[i]] = "done"
    BY <1>2, <1>4, <1>6, <1>7
  <2>2. clocks' = new /\ null' \subseteq OneShot
    BY <1>1 DEF Lists, Filed
  <2> QED BY <2>1, <2>2, <1>4 DEF Filed
<1>9. Lasting'
  <2> SUFFICES ASSUME "clocks" \notin raced
               PROVE  /\ ctail' = TailOf(new)
                      /\ \A d, e \in Clocks : adder'[d] = "link" /\ adder'[e] = "link" => d = e
                      /\ \A d \in Clocks : adder'[d] = "link" => seen'[d] = ctail'
                      /\ \A d \in Clocks : adder'[d] = "done" => d \in ToSet(new) \union null'
    BY <1>1 DEF Lasting
  <2>1. /\ seen[c] = TailOf(list)
        /\ \A d \in Clocks : adder[d] = "link" => d = c
        /\ \A d \in Clocks : adder[d] = "done" => d \in ToSet(list) \union null
    BY <1>1 DEF Lists, Lasting
  <2>2. new = Append(list, c)
    BY <2>1, <1>1, <1>2, HookedOnTail, ClockAssumption
  <2>3. /\ Len(new) = Len(list) + 1 /\ new[Len(list) + 1] = c /\ new # <<>>
        /\ DOMAIN new = 1 .. Len(list) + 1 /\ \A i \in 1 .. Len(list) : new[i] = list[i]
    BY <2>2, <1>2
  <2>4. ctail' = TailOf(new)
    BY <2>3, <1>1 DEF TailOf, Last
  <2>5. c \in ToSet(new) /\ ToSet(list) \subseteq ToSet(new)
    BY <2>3, <1>2 DEF ToSet
  <2>6. \A d \in Clocks : adder'[d] # "link"
    BY <2>1, <1>6, <1>7
  <2> QED BY <2>1, <2>4, <2>5, <2>6, <1>1, <1>6, <1>7
<1> QED BY <1>5, <1>8, <1>9 DEF Lists

\* newClock reads the tail.
LEMMA RegisterLists == ASSUME Lists, NEW c \in Clocks, Register(c) PROVE Lists'
<1>1. /\ adder[c] = "new" /\ adder' = [adder EXCEPT ![c] = "link"]
      /\ seen' = [seen EXCEPT ![c] = ctail]
      /\ raced' = IF \E d \in Clocks : adder[d] = "link" THEN raced \union {"clocks"} ELSE raced
      /\ UNCHANGED <<clocks, ctail, null, ftail>>
  BY DEF Register, finvars
<1>2. /\ adder'[c] = "link" /\ seen'[c] = ctail
      /\ \A d \in Clocks : d # c => adder'[d] = adder[d] /\ seen'[d] = seen[d]
  BY <1>1 DEF Lists, Noted
<1>3. Noted'
  BY <1>1 DEF Lists, Noted
<1>4. Filed'
  <2>1. \A i \in DOMAIN clocks : clocks[i] \in Clocks /\ clocks[i] # c
    BY <1>1, ElementOfSeq, LenProperties DEF Lists, Filed
  <2> QED BY <2>1, <1>1, <1>2 DEF Lists, Filed
<1>5. Lasting'
  <2> SUFFICES ASSUME "clocks" \notin raced'
               PROVE  /\ ctail = TailOf(clocks)
                      /\ \A d, e \in Clocks : adder'[d] = "link" /\ adder'[e] = "link" => d = e
                      /\ \A d \in Clocks : adder'[d] = "link" => seen'[d] = ctail
                      /\ \A d \in Clocks : adder'[d] = "done" => d \in ToSet(clocks) \union null
    BY <1>1 DEF Lasting
  <2>1. "clocks" \notin raced /\ \A d \in Clocks : adder[d] # "link"
    BY <1>1
  <2>2. /\ ctail = TailOf(clocks)
        /\ \A d \in Clocks : adder[d] = "done" => d \in ToSet(clocks) \union null
    BY <2>1 DEF Lists, Lasting
  <2> QED BY <2>1, <2>2, <1>2
<1> QED BY <1>3, <1>4, <1>5 DEF Lists

\* The handler takes out the entries that are NULL; a push_back under way meets that
\* only if there are any.
LEMMA PruneLists ==
  ASSUME Lists, Prune, erase = 0
  PROVE  Lists'
<1> PICK list, new, gone : list = clocks /\ new = clocks' /\ gone = null
  OBVIOUS
<1>1. /\ new = Without(list, gone)
      /\ ctail' = IF ctail \notin ToSet(list) THEN ctail ELSE IF new = <<>> THEN End ELSE Last(new)
      /\ raced' = IF new # list /\ \E c \in Clocks : adder[c] = "link"
                    THEN raced \union {"clocks"} ELSE raced
      /\ UNCHANGED <<null, adder, seen, ftail>>
  BY DEF Prune, Used, finvars
<1>2. /\ list \in Seq(Clocks) /\ IsInjective(list) /\ Len(list) \in Nat
      /\ DOMAIN list = 1 .. Len(list)
      /\ \A i \in DOMAIN list : adder[list[i]] = "done"
      /\ gone \subseteq OneShot
  BY LenProperties DEF Lists, Filed
<1>3. new \in Seq(Clocks) /\ IsInjective(new) /\ ToSet(new) = ToSet(list) \ gone
  <2>1. PICK S : S = Clocks
    OBVIOUS
  <2>2. list \in Seq(S) /\ IsInjective(list) /\ new = Without(list, gone)
    BY <2>1, <1>1, <1>2
  <2>3. new \in Seq(S) /\ IsInjective(new) /\ ToSet(new) = ToSet(list) \ gone
    BY ONLY <2>2, WithoutRest
  <2> QED BY <2>1, <2>3
<1>4. /\ Len(new) \in Nat /\ DOMAIN new = 1 .. Len(new)
      /\ new # <<>> => Last(new) \in Clocks /\ Last(new) \in ToSet(new)
  <2>1. Len(new) \in Nat /\ DOMAIN new = 1 .. Len(new) /\ \A i \in DOMAIN new : new[i] \in Clocks
    BY <1>3, LenProperties, ElementOfSeq
  <2>2. new # <<>> => Len(new) \in DOMAIN new
    BY <2>1, <1>3, EmptySeq
  <2> QED BY <2>1, <2>2 DEF Last, ToSet
<1>5. Filed'
  <2>1. \A i \in DOMAIN new : \E j \in DOMAIN list : new[i] = list[j]
    BY <1>3 DEF ToSet
  <2>2. \A i \in DOMAIN new : adder[new[i]] = "done"
    BY <2>1, <1>2
  <2>3. clocks' = new /\ null' = gone
    BY <1>1
  <2> QED BY <2>2, <2>3, <1>1, <1>2, <1>3 DEF Filed
<1>6. Noted'
  BY <1>1, <1>4 DEF Lists, Noted
<1>7. Lasting'
  <2> SUFFICES ASSUME "clocks" \notin raced' PROVE Lasting'
    BY DEF Lasting
  <2>1. /\ "clocks" \notin raced
        /\ new # list => \A c \in Clocks : adder[c] # "link"
    BY <1>1
  <2>2. /\ ctail = TailOf(list)
        /\ \A c, d \in Clocks : adder[c] = "link" /\ adder[d] = "link" => c = d
        /\ \A c \in Clocks : adder[c] = "link" => seen[c] = ctail
        /\ \A c \in Clocks : adder[c] = "done" => c \in ToSet(list) \union gone
    BY <2>1 DEF Lists, Lasting
  <2>3. ctail' = TailOf(new) /\ (new = list => ctail' = ctail)
    <3>1. CASE list = <<>>
      <4>1. ToSet(list) = {}
        BY <3>1 DEF ToSet
      <4>2. new = <<>>
        <5>1. DOMAIN new = {}
          BY <4>1, <1>3 DEF ToSet
        <5> QED BY <5>1, <1>3, <1>4, EmptySeq
      <4> QED BY <3>1, <4>1, <4>2, <2>2, <1>1 DEF TailOf
    <3>2. CASE list # <<>>
      <4>1. Len(list) > 0 /\ ctail = list[Len(list)]
        BY <2>2, <3>2, <1>2, EmptySeq DEF TailOf, Last
      <4>2. ctail \in ToSet(list)
        BY <4>1, <1>2 DEF ToSet
      <4> QED BY <4>2, <3>2, <2>2, <1>1 DEF TailOf
    <3> QED BY <3>1, <3>2
  <2>4. \A c \in Clocks : adder[c] = "done" => c \in ToSet(new) \union gone
    BY <2>2, <1>3
  <2>5. \A c \in Clocks : adder[c] = "link" => seen[c] = ctail'
    BY <2>1, <2>2, <2>3
  <2>6. UNCHANGED <<null, adder, seen>> /\ clocks' = new /\ null = gone
    BY <1>1
  <2> QED BY <2>2, <2>3, <2>4, <2>5, <2>6 DEF Lasting
<1> QED BY <1>5, <1>6, <1>7 DEF Lists

\* A one-shot clock that starts a thread is deleted, and its entry made NULL.
LEMMA StartOverNull ==
  ASSUME Lists, StartOver(it)
  PROVE  null \subseteq null' /\ null' \subseteq OneShot
BY DEF Lists, Filed, StartOver

\* Every step keeps clocks_list so.
LEMMA NextLists == Inv /\ Lists /\ [Next]_vars => Lists'
<1> SUFFICES ASSUME Inv, Lists, [Next]_vars PROVE Lists'
  OBVIOUS
<1> DEFINE Seens == [Tids \union Clocks -> Tids \union Clocks \union {End}]
<1>a. /\ seen \in Seens /\ ftail \in Tids \union {End} /\ null \subseteq OneShot
      /\ Tids \intersect Clocks = {}
  BY ClockAssumption DEF Lists, Noted, Filed
<1>b. ASSUME UNCHANGED <<clocks, ctail, adder, ftail, seen, raced>>,
             null \subseteq null', null' \subseteq OneShot
      PROVE  Lists'
  BY <1>a, <1>b, ListsKept
<1>c. ASSUME UNCHANGED <<clocks, ctail, adder, null>>, ftail' \in Tids \union {End}, seen' \in Seens,
             \A c \in Clocks : seen'[c] = seen[c],
             raced' = raced \/ raced' = raced \union {"finished"}
      PROVE  Lists'
  BY <1>a, <1>c, ListsKept
<1>1. CASE Tick \/ Reap \/ Count \/ Return \/ UNCHANGED vars
  BY <1>1, <1>a, <1>b DEF Tick, Reap, Count, Return, vars, clockvars, finvars, handlervars
<1>2. CASE Reaped
  <2>1. /\ UNCHANGED <<clocks, ctail, adder, null, seen>> /\ ftail' = End
        /\ raced' = raced \/ raced' = raced \union {"finished"}
    BY <1>2 DEF Reaped, clockvars
  <2> QED BY <2>1, <1>a, <1>c
<1>3. CASE Prune
  <2>1. CASE erase = 0
    BY <2>1, <1>3, PruneLists
  <2>2. CASE erase # 0
    <3>1. UNCHANGED <<clocks, ctail, adder, ftail, seen, raced, null>>
      BY <2>2, <1>3 DEF Prune, finvars
    <3> QED BY <3>1, <1>a, <1>b
  <2> QED BY <2>1, <2>2
<1>4. CASE Fire \/ FireFails
  <2>1. UNCHANGED <<clocks, ctail, adder, ftail, seen, raced>> /\ StartOver(it)
    BY <1>4 DEF Fire, FireFails, finvars
  <2> QED BY <2>1, <1>b, StartOverNull
<1>5. ASSUME NEW w \in Tids, Report(w) PROVE Lists'
  <2>1. /\ UNCHANGED <<clocks, ctail, adder, null, ftail>> /\ seen' = [seen EXCEPT ![w] = ftail]
        /\ raced' = raced \/ raced' = raced \union {"finished"}
    BY <1>5 DEF Report, clockvars, finvars
  <2>2. seen' \in Seens /\ \A c \in Clocks : seen'[c] = seen[c]
    BY <2>1, <1>a
  <2> QED BY <2>1, <2>2, <1>a, <1>c
<1>6. ASSUME NEW w \in Tids, Reported(w) PROVE Lists'
  <2>1. /\ UNCHANGED <<clocks, ctail, adder, null>> /\ seen' = [seen EXCEPT ![w] = End]
        /\ ftail' = w /\ (raced' = raced \/ raced' = raced \union {"finished"})
    BY <1>6 DEF Reported, clockvars
  <2>2. seen' \in Seens /\ \A c \in Clocks : seen'[c] = seen[c]
    BY <2>1, <1>a
  <2> QED BY <2>1, <2>2, <1>a, <1>c
<1>7. ASSUME NEW w \in Tids, Exit(w) PROVE Lists'
  BY <1>7, <1>a, <1>b DEF Exit, clockvars, finvars
<1>8. ASSUME NEW c \in Clocks, Register(c) \/ Registered(c) PROVE Lists'
  BY <1>8, RegisterLists, RegisteredLists
<1> QED BY <1>1, <1>2, <1>3, <1>4, <1>5, <1>6, <1>7, <1>8 DEF Next

\* Every step keeps clock_thread_finished so.
LEMMA NextWaiting == Inv /\ Lists /\ Waiting /\ [Next]_vars => Waiting'
<1> SUFFICES ASSUME Inv, Lists, Waiting, [Next]_vars, "finished" \notin raced' PROVE Waiting'
  BY DEF Waiting
<1>a. /\ finished \in Seq(Tids) /\ IsInjective(finished) /\ map \subseteq Tids /\ End \notin Tids
      /\ pc \in [Tids -> {"none", "run", "link", "left", "gone"}]
      /\ Len(finished) \in Nat /\ DOMAIN finished = 1 .. Len(finished)
      /\ \A i \in DOMAIN finished : finished[i] \in Tids
  BY LenProperties, ElementOfSeq, ClockAssumption DEF Inv, Typed
<1>b. seen \in [Tids \union Clocks -> Tids \union Clocks \union {End}] /\ Tids \intersect Clocks = {}
  BY ClockAssumption DEF Lists, Noted
<1>c. "finished" \notin raced
  BY DEF Next, Tick, Reap, Reaped, Prune, Count, Fire, FireFails, Return, Report, Reported, Exit,
         Register, Registered, vars
<1>d. /\ ftail = TailOf(finished)
      /\ \A v, w \in Tids : pc[v] = "link" /\ pc[w] = "link" => v = w
      /\ \A w \in Tids : pc[w] = "link" => seen[w] = ftail
      /\ \A w \in Tids : pc[w] \in {"left", "gone"} /\ w \in map => w \in ToSet(finished)
      /\ handler = "reap" => \A i \in DOMAIN finished : finished[i] \in map =>
           \E k \in DOMAIN finished : k <= i /\ finished[k] = it
  BY <1>c DEF Waiting
<1>e. ASSUME UNCHANGED <<finished, ftail>>,
             \A w \in Tids : pc'[w] = "link" => pc[w] = "link" /\ seen'[w] = seen[w],
             \A w \in Tids : pc'[w] \in {"left", "gone"} /\ w \in map'
                               => pc[w] \in {"left", "gone"} /\ w \in map,
             handler' = "reap" => \A i \in DOMAIN finished : finished[i] \in map' =>
               \E k \in DOMAIN finished : k <= i /\ finished[k] = it'
      PROVE  Waiting'
  BY <1>d, <1>e DEF Waiting, TailOf
<1>1. CASE Tick
  <2>1. UNCHANGED <<finished, ftail, pc, seen, map>> /\ it' = First(finished)
    BY <1>1 DEF Tick, finvars
  <2>2. ASSUME NEW i \in DOMAIN finished PROVE 1 \in DOMAIN finished /\ 1 <= i /\ finished[1] = it'
    BY <2>1, <1>a, EmptySeq DEF First
  <2> QED BY <2>1, <2>2, <1>e
<1>2. CASE Reap
  <2>1. /\ handler = "reap" /\ it # End /\ map' = map \ {it} /\ it' = After(finished, it)
        /\ pc' = [pc EXCEPT ![it] = IF @ = "gone" THEN "none" ELSE @]
        /\ UNCHANGED <<finished, ftail, seen>>
    BY <1>2 DEF Reap
  <2>2. \A w \in Tids : pc'[w] = "link" => pc[w] = "link"
    BY <2>1, <1>a
  <2>3. \A w \in Tids : pc'[w] \in {"left", "gone"} /\ w \in map' => pc[w] \in {"left", "gone"} /\ w \in map
    BY <2>1, <1>a
  <2>4. ASSUME NEW i \in DOMAIN finished, finished[i] \in map'
        PROVE  \E k \in DOMAIN finished : k <= i /\ finished[k] = it'
    <3>1. PICK k \in DOMAIN finished : k <= i /\ finished[k] = it
      BY <2>1, <2>4, <1>d
    <3>2. k # i /\ k \in Nat /\ i \in Nat
      BY <3>1, <2>1, <2>4, <1>a
    <3>3. k + 1 \in DOMAIN finished /\ k + 1 <= i /\ k + 1 > 1 /\ finished[k + 1 - 1] = it
      BY <3>1, <3>2, <1>a
    <3> DEFINE next == {j \in DOMAIN finished : j > 1 /\ finished[j - 1] = it}
    <3>4. next = {k + 1}
      <4>1. \A j \in next : j - 1 \in DOMAIN finished /\ finished[j - 1] = finished[k] /\ j \in Nat
        BY <3>1, <1>a
      <4>2. \A j \in next : j - 1 = k
        BY <4>1, <3>1, <1>a DEF IsInjective
      <4> QED BY <4>1, <4>2, <3>2, <3>3
    <3>5. it' = finished[k + 1]
      <4> HIDE DEF next
      <4>1. After(finished, it) = finished[CHOOSE j \in next : TRUE]
        BY <3>4 DEF After, next
      <4> QED BY <4>1, <3>4, <2>1
    <3> QED BY <3>3, <3>5
  <2> QED BY <2>1, <2>2, <2>3, <2>4, <1>e
<1>3. CASE Reaped
  <2>1. /\ handler = "reap" /\ it = End /\ handler' # "reap" /\ finished' = <<>> /\ ftail' = End
        /\ UNCHANGED <<map, pc, seen>> /\ \A w \in Tids : pc[w] # "link"
    BY <1>3 DEF Reaped
  <2>2. \A i \in DOMAIN finished : finished[i] \notin map
    BY <2>1, <1>a, <1>d
  <2>3. \A w \in Tids : ~(pc[w] \in {"left", "gone"} /\ w \in map)
    BY <2>2, <1>d DEF ToSet
  <2> QED BY <2>1, <2>3 DEF Waiting, TailOf
<1>4. CASE Prune \/ Count \/ FireFails \/ Return
  <2>1. UNCHANGED <<finished, ftail, pc, seen, map>> /\ handler' # "reap"
    BY <1>4 DEF Prune, Count, FireFails, Return, Due, finvars
  <2> QED BY <2>1, <1>e
<1>5. CASE Fire
  <2>1. UNCHANGED <<finished, ftail, seen>> /\ handler' # "reap"
    BY <1>5 DEF Fire, Due
  <2>2. PICK w \in Tids : pc[w] = "none" /\ w \notin map /\ pc' = [pc EXCEPT ![w] = "run"] /\ map' = map \union {w}
    BY <1>5 DEF Fire
  <2>3. \A v \in Tids : pc'[v] \in {"link", "left", "gone"} => v # w /\ pc'[v] = pc[v]
    BY <2>2, <1>a
  <2> QED BY <2>1, <2>2, <2>3, <1>e
<1>6. ASSUME NEW w \in Tids, Report(w) PROVE Waiting'
  <2>1. /\ pc' = [pc EXCEPT ![w] = "link"] /\ seen' = [seen EXCEPT ![w] = ftail]
        /\ UNCHANGED <<finished, ftail, map, handler, it>>
        /\ handler # "reap" /\ \A v \in Tids : pc[v] # "link"
    BY <1>6 DEF Report, finvars, handlervars
  <2>2. /\ pc'[w] = "link" /\ seen'[w] = ftail
        /\ \A v \in Tids : v # w => pc'[v] = pc[v] /\ seen'[v] = seen[v]
    BY <2>1, <1>a, <1>b
  <2> QED BY <2>1, <2>2, <1>d DEF Waiting, TailOf
<1>7. ASSUME NEW w \in Tids, Reported(w) PROVE Waiting'
  <2> PICK list, new : list = finished /\ new = finished'
    OBVIOUS
  <2>1. /\ pc[w] = "link" /\ pc' = [pc EXCEPT ![w] = "left"]
        /\ new = Hooked(list, seen[w], w) /\ ftail' = w
        /\ seen' = [seen EXCEPT ![w] = End]
        /\ UNCHANGED <<map, handler, it>> /\ handler # "reap"
    BY <1>7 DEF Reported, handlervars
  <2>2. seen[w] = TailOf(list)
    BY <2>1, <1>d
  <2>3. new = Append(list, w)
    BY <2>1, <2>2, <1>a, HookedOnTail
  <2>4. /\ Len(new) = Len(list) + 1 /\ new[Len(list) + 1] = w /\ new # <<>>
        /\ DOMAIN new = 1 .. Len(list) + 1 /\ \A i \in 1 .. Len(list) : new[i] = list[i]
    BY <2>3, <1>a
  <2>5. ftail' = TailOf(new)
    BY <2>4, <2>1 DEF TailOf, Last
  <2>6. w \in ToSet(new) /\ ToSet(list) \subseteq ToSet(new)
    BY <2>4, <1>a DEF ToSet
  <2>7. /\ pc'[w] = "left" /\ \A v \in Tids : v # w => pc'[v] = pc[v] /\ seen'[v] = seen[v]
    BY <2>1, <1>a, <1>b
  <2>8. \A v \in Tids : pc'[v] # "link"
    BY <2>1, <2>7, <1>d
  <2>9. \A v \in Tids : pc'[v] \in {"left", "gone"} /\ v \in map' => v \in ToSet(new)
    BY <2>1, <2>6, <2>7, <1>d
  <2> QED BY <2>1, <2>5, <2>8, <2>9 DEF Waiting
<1>8. ASSUME NEW w \in Tids, Exit(w) PROVE Waiting'
  <2>1. /\ pc[w] = "left" /\ pc' = [pc EXCEPT ![w] = IF w \in map THEN "gone" ELSE "none"]
        /\ UNCHANGED <<finished, ftail, map, seen, handler, it>>
    BY <1>8 DEF Exit, finvars, handlervars
  <2>2. \A v \in Tids : pc'[v] = "link" => pc[v] = "link"
    BY <2>1, <1>a
  <2>3. \A v \in Tids : pc'[v] \in {"left", "gone"} => pc[v] \in {"left", "gone"}
    BY <2>1, <1>a
  <2> QED BY <2>1, <2>2, <2>3, <1>d, <1>e
<1>9. ASSUME NEW c \in Clocks, Register(c) \/ Registered(c) PROVE Waiting'
  <2>1. UNCHANGED <<finished, ftail, map, pc, handler, it>>
    BY <1>9 DEF Register, Registered, finvars, handlervars
  <2>2. \A w \in Tids : seen'[w] = seen[w]
    BY <1>9, <1>b DEF Register, Registered
  <2> QED BY <2>1, <2>2, <1>d, <1>e
<1>10. CASE UNCHANGED vars
  BY <1>10, <1>d, <1>e DEF vars, finvars, handlervars
<1> QED BY <1>1, <1>2, <1>3, <1>4, <1>5, <1>6, <1>7, <1>8, <1>9, <1>10 DEF Next

\* No thread that has reported stays unjoined and no clock that was filed, a daemon
\* least of all, goes without its thread unless a push_back has met another change
\* of the same list.
THEOREM NoneLost == Spec => []NothingLost
<1>1. Init => Inv /\ Lists /\ Waiting
  <2> SUFFICES ASSUME Init PROVE Inv /\ Lists /\ Waiting
    OBVIOUS
  <2>1. Inv
    BY InitInv
  <2>2. Noted
    BY DEF Init, Noted
  <2>3. Filed
    BY EmptySeq DEF Init, Filed, IsInjective
  <2>4. Lasting
    BY DEF Init, Lasting, TailOf
  <2>5. Waiting
    BY DEF Init, Waiting, TailOf
  <2> QED BY <2>1, <2>2, <2>3, <2>4, <2>5 DEF Lists
<1>2. Lists /\ Waiting => NothingLost
  <2> SUFFICES ASSUME Lists, Waiting PROVE NothingLost
    OBVIOUS
  <2>1. null \intersect Periodic = {}
    BY ClockAssumption DEF Lists, Filed
  <2>2. ASSUME "clocks" \notin raced, NEW c \in Clocks, adder[c] = "done"
        PROVE  c \in ToSet(clocks) \union (null \ Periodic)
    BY <2>1, <2>2 DEF Lists, Lasting
  <2>3. ASSUME "finished" \notin raced, NEW w \in Tids, pc[w] \in {"left", "gone"}, w \in map
        PROVE  w \in ToSet(finished)
    BY <2>3 DEF Waiting
  <2> QED BY <2>2, <2>3 DEF NothingLost
<1> QED BY <1>1, <1>2, NextInv, NextLists, NextWaiting, PTL DEF Spec

-----------------------------------------------------------------------------
(* One-shot clocks.                                                        *)

\* A clock that has started its thread is used up, and stays so.
UsedUp ==
  /\ fired \in [OneShot -> Nat]
  /\ \A c \in OneShot : fired[c] <= 1 /\ (c \notin null => fired[c] = 0)

LEMMA NextUsedUp == UsedUp /\ [Next]_vars => UsedUp'
<1> SUFFICES ASSUME UsedUp, [Next]_vars PROVE UsedUp'
  OBVIOUS
<1>1. ASSUME fired' = fired, null \subseteq null' PROVE UsedUp'
  BY <1>1 DEF UsedUp
<1>2. CASE Fire
  <2>1. /\ it \notin null /\ StartOver(it)
        /\ fired' = [c \in OneShot |-> IF c = it THEN fired[c] + 1 ELSE fired[c]]
    BY <1>2 DEF Fire, Due
  <2>2. null \subseteq null' /\ (it \in OneShot => it \in null')
    BY <2>1, ClockAssumption DEF StartOver
  <2> QED BY <2>1, <2>2 DEF UsedUp
<1>3. CASE FireFails
  BY <1>1, <1>3 DEF FireFails, StartOver
<1>4. CASE Tick \/ Reap \/ Reaped \/ Prune \/ Count \/ Return
  BY <1>1, <1>4 DEF Tick, Reap, Reaped, Prune, Count, Return, clockvars
<1>5. ASSUME NEW w \in Tids, Report(w) \/ Reported(w) \/ Exit(w) PROVE UsedUp'
  BY <1>1, <1>5 DEF Report, Reported, Exit, clockvars
<1>6. ASSUME NEW c \in Clocks, Register(c) \/ Registered(c) PROVE UsedUp'
  BY <1>1, <1>6 DEF Register, Registered
<1>7. CASE UNCHANGED vars
  BY <1>1, <1>7 DEF vars, clockvars
<1> QED BY <1>2, <1>3, <1>4, <1>5, <1>6, <1>7 DEF Next

\* A clock without if_reset starts its thread at most once, wherever on clocks_list
\* the races have left it and however long its NULL entry stays there: the safety
\* half of OneShotFires.
THEOREM FiredOnce == Spec => [](\A c \in OneShot : fired[c] <= 1)
<1>1. Init => UsedUp
  BY DEF Init, UsedUp
<1>2. UsedUp => \A c \in OneShot : fired[c] <= 1
  BY DEF UsedUp
<1> QED BY <1>1, <1>2, NextUsedUp, PTL DEF Spec
=============================================================================
