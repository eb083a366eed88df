------------------------ MODULE ServerPipelineProofs ------------------------
(***************************************************************************)
(* Proofs about ServerPipeline, for any datagrams, batch limit and number  *)
(* of threads: one account per registration, the types, that no datagram   *)
(* is handled twice or lost, that answers leave in the order of arrival,   *)
(* that a walk keeps its place, and that the pipeline implements           *)
(* OrderedService.                                                         *)
(***************************************************************************)
EXTENDS ServerPipeline, FiniteSetTheorems, SequenceTheorems, TLAPS
-----------------------------------------------------------------------------
(* Accounts.                                                               *)

\* A row stands for an r_id in SQEServer::rids, and only the step that puts the
\* r_id there adds one.
RowsFiled ==
  /\ rows \in [Rids -> Nat]
  /\ \A r \in Rids : rows[r] <= 1 /\ (r \notin rids => rows[r] = 0)

\* Registering a client, whoever asks for it, adds a row only for a new r_id.
LEMMA RegisterFiles ==
  ASSUME RowsFiled, NEW r, Register(r)
  PROVE  RowsFiled'
<1>1. CASE r \in rids
  BY <1>1 DEF Register, sqldb, RowsFiled
<1>2. CASE r \notin rids
  <2>1. rids' = rids \union {r} /\ rows' = [rows EXCEPT ![r] = @ + 1]
    BY <1>2 DEF Register
  <2>2. \A q \in Rids : q # r => rows'[q] = rows[q]
    BY <2>1 DEF RowsFiled
  <2>3. r \in Rids => rows[r] = 0 /\ rows'[r] = 1
    BY <1>2, <2>1 DEF RowsFiled
  <2>4. rows' \in [Rids -> Nat]
    <3>1. CASE r \in Rids
      BY <2>1, <3>1 DEF RowsFiled
    <3>2. CASE r \notin Rids
      BY <2>1, <3>2 DEF RowsFiled
    <3> QED BY <3>1, <3>2
  <2> QED BY <2>1, <2>2, <2>3, <2>4 DEF RowsFiled
<1> QED BY <1>1, <1>2

\* A login adds no row, though it puts its r_id among the others.
LEMMA LoginFiles ==
  ASSUME RowsFiled, NEW r, NEW a, Login(r, a)
  PROVE  RowsFiled'
BY DEF RowsFiled, Login, sqldb

\* Every step of the pipeline keeps the rows so.
LEMMA FiledStep == RowsFiled /\ [Next]_vars => RowsFiled'
<1> SUFFICES ASSUME RowsFiled, [Next]_vars PROVE RowsFiled'
  OBVIOUS
<1>1. ASSUME UNCHANGED <<rids, rows>> PROVE RowsFiled'
  BY <1>1 DEF RowsFiled
<1>2. ASSUME NEW d \in Datagrams, Receive(d) \/ BoxPush(d) PROVE RowsFiled'
  BY <1>1, <1>2 DEF Receive, BoxPush, sqldb
<1>3. CASE BoxLink
  BY <1>1, <1>3 DEF BoxLink, sqldb
<1>4. ASSUME NEW t \in Threads,
             Start(t) \/ SkipNull(t) \/ Finish(t) \/ RawUnlock(t) \/ RawSweep(t)
      PROVE  RowsFiled'
  BY <1>1, <1>4 DEF Start, SkipNull, Finish, RawUnlock, RawSweep, sqldb
<1>5. ASSUME NEW t \in RawThreads, RawDataItem(t) PROVE RowsFiled'
  BY <1>1, <1>5 DEF RawDataItem, sqldb
<1>6. CASE PacketItem
  BY <1>1, <1>6 DEF PacketItem, sqldb
<1>7. CASE RequestItem
  <2>1. \/ UNCHANGED sqldb
        \/ \E r : Register(r)
        \/ \E r, a : Login(r, a)
    BY <1>7 DEF RequestItem
  <2> QED BY <1>1, <2>1, RegisterFiles, LoginFiles DEF sqldb
<1>8. CASE SendItem
  BY <1>1, <1>8 DEF SendItem, sqldb
<1>9. ASSUME NEW r \in Rids, WaitDaemon(r) PROVE RowsFiled'
  BY <1>1, <1>9 DEF WaitDaemon
<1>10. CASE UNCHANGED vars
  BY <1>1, <1>10 DEF vars
<1> QED BY <1>2, <1>3, <1>4, <1>5, <1>6, <1>7, <1>8, <1>9, <1>10 DEF Next

\* However many datagrams ask for a registration under one r_id (a client sends it
\* again until it is answered), and however the daemons interleave, the account
\* gets one row: ProcessRequset looks for the r_id among rids before it inserts.
THEOREM OneRow == Spec => []OneAccountPerRequest
<1>1. Init => RowsFiled
  BY DEF Init, RowsFiled
<1>2. RowsFiled => OneAccountPerRequest
  BY DEF RowsFiled, OneAccountPerRequest
<1> QED BY <1>1, <1>2, FiledStep, PTL DEF Spec

-----------------------------------------------------------------------------
(* What is left of a list without some of its values.                      *)

\* Kept entries and ranks by name.
Kept(q, gone) == {i \in DOMAIN q : q[i] \notin gone}
Rank(K, i) == Cardinality({j \in K : j <= i})

\* Ranks among a set of positions: they increase ...
LEMMA RanksIncrease ==
  ASSUME NEW n \in Nat, NEW K \in SUBSET (1 .. n)
  PROVE  /\ IsFiniteSet(K) /\ Cardinality(K) \in Nat
         /\ \A i \in K : Rank(K, i) \in 1 .. Cardinality(K)
         /\ \A i, j \in K : i < j => Rank(K, i) < Rank(K, j)
<1>1. IsFiniteSet(K) /\ Cardinality(K) \in Nat
  <2>1. IsFiniteSet(1 .. n)
    BY FS_Interval
  <2> QED BY <2>1, FS_Subset, FS_CardinalityType
<1>2. ASSUME NEW i \in K
      PROVE  /\ IsFiniteSet({j \in K : j <= i}) /\ Rank(K, i) \in Nat /\ Rank(K, i) > 0
             /\ Rank(K, i) <= Cardinality(K)
  <2> DEFINE B == {j \in K : j <= i}
  <2>1. B \in SUBSET K /\ i \in B
    OBVIOUS
  <2>2. IsFiniteSet(B) /\ Cardinality(B) <= Cardinality(K)
    BY <2>1, <1>1, FS_Subset
  <2>3. Cardinality(B) \in Nat /\ (Cardinality(B) = 0 <=> B = {})
    <3> HIDE DEF B
    <3> QED BY <2>2, FS_CardinalityType, FS_EmptySet
  <2>4. Cardinality(B) # 0
    BY <2>1, <2>3
  <2> HIDE DEF B
  <2>5. Rank(K, i) = Cardinality(B)
    BY DEF B, Rank
  <2> QED BY <2>2, <2>3, <2>4, <2>5 DEF B
<1>3. ASSUME NEW i \in K, NEW j \in K, i < j
      PROVE  Rank(K, i) < Rank(K, j)
  <2> DEFINE A == {h \in K : h <= i}  B == {h \in K : h <= j}
  <2>1. A \in SUBSET B /\ j \in B /\ j \notin A
    <3>1. \A h \in K : h \in Nat
      OBVIOUS
    <3>2. i \in Nat /\ j \in Nat /\ i < j
      BY <3>1, <1>3
    <3>3. \A h \in K : h <= i => h <= j
      BY <3>1, <3>2
    <3>4. j <= j /\ ~(j <= i)
      BY <3>2
    <3> QED BY <3>3, <3>4
  <2>2. IsFiniteSet(B)
    BY <1>2
  <2> HIDE DEF A, B
  <2>3. A # B
    BY <2>1
  <2>4. /\ Cardinality(A) <= Cardinality(B)
        /\ Cardinality(A) = Cardinality(B) => A = B
    BY <2>1, <2>2, FS_Subset
  <2>5. Rank(K, i) = Cardinality(A) /\ Rank(K, j) = Cardinality(B)
    BY DEF A, B, Rank
  <2>6. Rank(K, i) \in Nat /\ Rank(K, j) \in Nat
    BY <1>2
  <2> QED BY <2>3, <2>4, <2>5, <2>6
<1>4. ASSUME NEW i \in K PROVE Rank(K, i) \in 1 .. Cardinality(K)
  <2>1. Rank(K, i) \in Nat /\ Rank(K, i) > 0 /\ Rank(K, i) <= Cardinality(K)
    BY <1>2
  <2> QED BY <2>1, <1>1
<1>5. \A i, j \in K : i < j => Rank(K, i) < Rank(K, j)
  BY <1>3
<1> QED BY <1>1, <1>4, <1>5

\* ... and leave none out.
LEMMA RanksFill ==
  ASSUME NEW n \in Nat, NEW K \in SUBSET (1 .. n)
  PROVE  \A m \in 1 .. Cardinality(K) : \E i \in K : Rank(K, i) = m
<1> DEFINE f == [i \in K |-> Rank(K, i)]  T == 1 .. Cardinality(K)
<1>1. /\ Cardinality(K) \in Nat /\ f \in [K -> T]
      /\ \A i, j \in K : i < j => f[i] < f[j]
  BY RanksIncrease
<1>2. IsFiniteSet(T) /\ Cardinality(T) = Cardinality(K)
  BY <1>1, FS_Interval
<1>3. f \in Injection(K, T)
  <2>1. \A i, j \in K : i < j \/ i = j \/ j < i
    OBVIOUS
  <2>2. \A i \in K : f[i] \in Nat
    BY <1>1
  <2> HIDE DEF f, T
  <2>3. \A i, j \in K : f[i] = f[j] => i = j
    BY <2>1, <2>2, <1>1
  <2> QED BY <1>1, <2>3 DEF Injection, IsInjective
<1> HIDE DEF f, T
<1>4. f \in Surjection(K, T)
  BY <1>2, <1>3, FS_Injection
<1>5. \A m \in T : \E i \in K : f[i] = m
  BY <1>4 DEF Surjection
<1> QED BY <1>5 DEF f, T

\* f says where in q the entries of w stood: in the same order, and none of those
\* that stay is missing.
StoodAt(f, w, q, gone) ==
  /\ f \in [DOMAIN w -> DOMAIN q]
  /\ \A n \in DOMAIN w : w[n] = q[f[n]] /\ q[f[n]] \notin gone
  /\ \A m, n \in DOMAIN w : m < n => f[m] < f[n]
  /\ \A i \in DOMAIN q : q[i] \notin gone => \E n \in DOMAIN w : f[n] = i

\* list::remove_if keeps the other entries, and their order.
LEMMA WithoutKeeps ==
  ASSUME NEW S, NEW q \in Seq(S), NEW gone, NEW w, w = Without(q, gone)
  PROVE  /\ w \in Seq(S) /\ Len(w) \in Nat /\ DOMAIN w = 1 .. Len(w)
         /\ \E f : StoodAt(f, w, q, gone)
         /\ \A p \in 1 .. Len(q) : (\A i \in 1 .. p : q[i] \notin gone)
              => p <= Len(w) /\ \A i \in 1 .. p : w[i] = q[i]
<1> DEFINE K == Kept(q, gone)
           f == [n \in 1 .. Cardinality(K) |-> CHOOSE i \in K : Rank(K, i) = n]
<1>1. Len(q) \in Nat /\ DOMAIN q = 1 .. Len(q) /\ K \in SUBSET (1 .. Len(q))
  BY LenProperties DEF Kept
<1>2. w = [n \in 1 .. Cardinality(K) |-> q[CHOOSE i \in K : Rank(K, i) = n]]
  BY DEF Without, Rank, Kept
<1> HIDE DEF K
<1>3. /\ Cardinality(K) \in Nat
      /\ \A i \in K : Rank(K, i) \in 1 .. Cardinality(K)
      /\ \A i, j \in K : i < j => Rank(K, i) < Rank(K, j)
      /\ \A m \in 1 .. Cardinality(K) : \E i \in K : Rank(K, i) = m
  BY <1>1, RanksIncrease, RanksFill
<1>4. ASSUME NEW n \in 1 .. Cardinality(K)
      PROVE  f[n] \in K /\ Rank(K, f[n]) = n /\ w[n] = q[f[n]]
  <2>1. f[n] = CHOOSE i \in K : Rank(K, i) = n
    OBVIOUS
  <2>2. \E i \in K : Rank(K, i) = n
    BY <1>3
  <2> HIDE DEF f
  <2> QED BY <2>1, <2>2, <1>2
<1>5. \A i \in K : i \in DOMAIN q /\ q[i] \notin gone /\ q[i] \in S /\ i \in Nat
  BY <1>1, ElementOfSeq DEF K, Kept
<1>6. w \in [1 .. Cardinality(K) -> S] /\ Len(w) = Cardinality(K) /\ DOMAIN w = 1 .. Len(w)
      /\ w \in Seq(S)
  BY <1>2, <1>3, <1>4, <1>5
<1> HIDE DEF f
<1>7. \A m, n \in 1 .. Cardinality(K) : m < n => f[m] < f[n]
  <2> SUFFICES ASSUME NEW m \in 1 .. Cardinality(K), NEW n \in 1 .. Cardinality(K), m < n
               PROVE  f[m] < f[n]
    OBVIOUS
  <2>1. f[m] \in K /\ f[n] \in K /\ f[m] \in Nat /\ f[n] \in Nat
    BY <1>4, <1>5
  <2>2. ~(f[n] < f[m]) /\ f[m] # f[n]
    BY <2>1, <1>3, <1>4
  <2> QED BY <2>1, <2>2
<1>8. \A i \in DOMAIN q : q[i] \notin gone => \E n \in 1 .. Cardinality(K) : f[n] = i
  <2> SUFFICES ASSUME NEW i \in DOMAIN q, q[i] \notin gone
               PROVE  \E n \in 1 .. Cardinality(K) : f[n] = i
    OBVIOUS
  <2>1. i \in K
    BY DEF K, Kept
  <2> DEFINE n == Rank(K, i)
  <2>2. n \in 1 .. Cardinality(K)
    BY <2>1, <1>3
  <2>3. f[n] \in K /\ Rank(K, f[n]) = n
    BY <2>2, <1>4
  <2>4. ~(f[n] < i) /\ ~(i < f[n]) /\ f[n] \in Nat /\ i \in Nat
    BY <2>1, <2>2, <2>3, <1>3, <1>5
  <2> HIDE DEF n
  <2>5. f[n] = i
    BY <2>4
  <2> QED BY <2>2, <2>5
<1>9. f \in [1 .. Len(w) -> DOMAIN q]
  BY <1>4, <1>5, <1>6 DEF f
<1>10. \A p \in Nat : (\A i \in 1 .. p : i \in K)
          => p <= Cardinality(K) /\ \A i \in 1 .. p : w[i] = q[i]
  <2> SUFFICES ASSUME NEW p \in Nat, \A i \in 1 .. p : i \in K
               PROVE  p <= Cardinality(K) /\ \A i \in 1 .. p : w[i] = q[i]
    OBVIOUS
  <2>1. ASSUME NEW i \in 1 .. p PROVE Rank(K, i) = i
    <3>1. {j \in K : j <= i} = 1 .. i
      BY <1>5
    <3>2. Cardinality(1 .. i) = i
      BY FS_Interval
    <3> QED BY <3>1, <3>2 DEF Rank
  <2>2. ASSUME NEW i \in 1 .. p
        PROVE  i \in 1 .. Cardinality(K) /\ w[i] = q[i]
    <3>1. i \in 1 .. Cardinality(K)
      BY <2>1, <1>3
    <3>2. f[i] \in K /\ Rank(K, f[i]) = i /\ w[i] = q[f[i]] /\ f[i] \in Nat
      BY <3>1, <1>4, <1>5
    <3>3. ~(f[i] < i) /\ ~(i < f[i])
      BY <3>2, <2>1, <1>3
    <3> QED BY <3>1, <3>2, <3>3
  <2> QED BY <2>2, <1>3
<1>11. StoodAt(f, w, q, gone)
  <2>1. \A n \in DOMAIN w : w[n] = q[f[n]] /\ q[f[n]] \notin gone
    BY <1>4, <1>5, <1>6
  <2>2. \A m, n \in DOMAIN w : m < n => f[m] < f[n]
    BY <1>6, <1>7
  <2>3. \A i \in DOMAIN q : q[i] \notin gone => \E n \in DOMAIN w : f[n] = i
    BY <1>6, <1>8
  <2> QED BY <2>1, <2>2, <2>3, <1>6, <1>9 DEF StoodAt
<1>12. \A p \in 1 .. Len(q) : (\A i \in 1 .. p : q[i] \notin gone)
          => p <= Len(w) /\ \A i \in 1 .. p : w[i] = q[i]
  <2> SUFFICES ASSUME NEW p \in 1 .. Len(q), \A i \in 1 .. p : q[i] \notin gone
               PROVE  p <= Len(w) /\ \A i \in 1 .. p : w[i] = q[i]
    OBVIOUS
  <2>1. \A i \in 1 .. p : i \in K
    BY <1>1 DEF K, Kept
  <2> QED BY <2>1, <1>6, <1>10, <1>1
<1> QED BY <1>3, <1>6, <1>11, <1>12

-----------------------------------------------------------------------------
(* The five lines a datagram moves along, 5 being what has been sent: what  *)
(* each kind of change does to the contents and to the order.               *)

Entries == Datagrams \union {Null}
Lists == [1 .. 5 -> Seq(Entries)]

Holds(X, d) == \E k \in 1 .. 5 : \E i \in DOMAIN X[k] : X[k][i] = d

\* d is ahead of e: on a later list, or earlier on the same one.
Ahead(X, d, e) ==
  \E k, l \in 1 .. 5 : \E i \in DOMAIN X[k], j \in DOMAIN X[l] :
     /\ X[k][i] = d /\ X[l][j] = e
     /\ k > l \/ (k = l /\ i < j)

\* What holds of all lists.
LEMMA ListsType ==
  ASSUME NEW X \in Lists, NEW k \in 1 .. 5
  PROVE  /\ X[k] \in Seq(Entries) /\ Len(X[k]) \in Nat /\ DOMAIN X[k] = 1 .. Len(X[k])
         /\ \A i \in DOMAIN X[k] : X[k][i] \in Entries /\ i \in Nat
BY LenProperties, ElementOfSeq DEF Lists

\* An entry is overwritten with nullptr; a list grows at its end.
LEMMA NulledEntry ==
  ASSUME NEW q \in Seq(Entries), NEW p \in DOMAIN q
  PROVE  /\ [q EXCEPT ![p] = Null] \in Seq(Entries)
         /\ DOMAIN [q EXCEPT ![p] = Null] = DOMAIN q
<1>1. Null \in Entries /\ p \in 1 .. Len(q)
  BY LenProperties DEF Entries
<1> QED BY <1>1, ExceptSeq

LEMMA GrownList ==
  ASSUME NEW S, NEW q \in Seq(S), NEW d \in S, NEW r, r = Append(q, d)
  PROVE  /\ r \in Seq(S) /\ Len(q) \in Nat /\ Len(r) = Len(q) + 1
         /\ DOMAIN q = 1 .. Len(q) /\ DOMAIN r = 1 .. Len(q) + 1
         /\ r[Len(q) + 1] = d
         /\ \A i \in DOMAIN q : i \in DOMAIN r /\ i # Len(q) + 1 /\ r[i] = q[i]
<1>1. Len(q) \in Nat /\ DOMAIN q = 1 .. Len(q)
  BY LenProperties
<1>2. r \in Seq(S) /\ Len(r) = Len(q) + 1 /\ r[Len(q) + 1] = d
      /\ \A i \in 1 .. Len(q) : r[i] = q[i]
  BY AppendProperties
<1>3. DOMAIN r = 1 .. Len(q) + 1
  BY <1>2, LenProperties
<1> QED BY <1>1, <1>2, <1>3

LEMMA GrownSet ==
  ASSUME NEW S, NEW q \in Seq(S), NEW d \in S, NEW r, r = Append(q, d)
  PROVE  ToSet(r) = ToSet(q) \union {d}
<1>1. /\ Len(q) \in Nat /\ DOMAIN q = 1 .. Len(q) /\ DOMAIN r = 1 .. Len(q) + 1
      /\ r[Len(q) + 1] = d
      /\ \A i \in DOMAIN q : i \in DOMAIN r /\ r[i] = q[i]
  BY GrownList
<1>2. \A i \in DOMAIN r : i \in DOMAIN q \/ i = Len(q) + 1
  BY <1>1
<1>3. Len(q) + 1 \in DOMAIN r
  BY <1>1
<1> QED BY <1>1, <1>2, <1>3 DEF ToSet

\* An item is dropped.
LEMMA Dropping ==
  ASSUME NEW X \in Lists, NEW Y \in Lists, NEW k \in 1 .. 5, NEW p \in DOMAIN X[k],
         Y[k] = [X[k] EXCEPT ![p] = Null],
         \A l \in 1 .. 5 : l # k => Y[l] = X[l]
  PROVE  /\ \A d \in Datagrams : Holds(Y, d) => Holds(X, d)
         /\ \A d \in Datagrams : Holds(X, d) /\ d # X[k][p] => Holds(Y, d)
         /\ \A d, e \in Datagrams : Ahead(Y, d, e) => Ahead(X, d, e)
<1>1. /\ \A l \in 1 .. 5 : l # k => Y[l] = X[l]
      /\ DOMAIN Y[k] = DOMAIN X[k] /\ Y[k][p] = Null
      /\ \A i \in DOMAIN X[k] : i # p => Y[k][i] = X[k][i]
  OBVIOUS
<1>2. \A l \in 1 .. 5 : \A i \in DOMAIN Y[l] :
         Y[l][i] \in Datagrams => i \in DOMAIN X[l] /\ X[l][i] = Y[l][i]
  BY <1>1, PipelineAssumption
<1>3. \A l \in 1 .. 5 : \A i \in DOMAIN X[l] :
         X[l][i] # X[k][p] => i \in DOMAIN Y[l] /\ Y[l][i] = X[l][i]
  BY <1>1
<1>4. ASSUME NEW d \in Datagrams, Holds(Y, d) PROVE Holds(X, d)
  BY <1>2, <1>4 DEF Holds
<1>5. ASSUME NEW d \in Datagrams, Holds(X, d), d # X[k][p] PROVE Holds(Y, d)
  BY <1>3, <1>5 DEF Holds
<1>6. ASSUME NEW d \in Datagrams, NEW e \in Datagrams, Ahead(Y, d, e)
      PROVE  Ahead(X, d, e)
  BY <1>2, <1>6 DEF Ahead
<1> QED BY <1>4, <1>5, <1>6

\* An item at the head of its list moves to the end of the next one.
LEMMA Moving ==
  ASSUME NEW X \in Lists, NEW Y \in Lists, NEW k \in 1 .. 4, NEW p \in DOMAIN X[k],
         X[k][p] # Null, \A i \in DOMAIN X[k] : i < p => X[k][i] = Null,
         Y[k] = [X[k] EXCEPT ![p] = Null],
         Y[k + 1] = Append(X[k + 1], X[k][p]),
         \A l \in 1 .. 5 : l # k /\ l # k + 1 => Y[l] = X[l]
  PROVE  /\ \A d \in Datagrams : Holds(Y, d) <=> Holds(X, d)
         /\ \A d, e \in Datagrams : Ahead(Y, d, e) => Ahead(X, d, e)
<1> DEFINE n == Len(X[k + 1]) + 1
<1>1. /\ k \in 1 .. 5 /\ k + 1 \in 1 .. 5 /\ k # k + 1 /\ n \in Nat
      /\ X[k][p] \in Datagrams /\ p \in Nat
      /\ DOMAIN X[k + 1] = 1 .. n - 1
  <2>1. k \in 1 .. 5 /\ k + 1 \in 1 .. 5 /\ k # k + 1
    OBVIOUS
  <2>2. Len(X[k + 1]) \in Nat /\ DOMAIN X[k + 1] = 1 .. Len(X[k + 1])
    BY <2>1, ListsType
  <2>3. X[k][p] \in Entries /\ p \in Nat
    BY <2>1, ListsType
  <2> QED BY <2>1, <2>2, <2>3 DEF Entries
<1>2. /\ \A l \in 1 .. 5 : l # k /\ l # k + 1 => Y[l] = X[l]
      /\ DOMAIN Y[k] = DOMAIN X[k] /\ Y[k][p] = Null
      /\ \A i \in DOMAIN X[k] : i # p => Y[k][i] = X[k][i]
      /\ DOMAIN Y[k + 1] = 1 .. n /\ Y[k + 1][n] = X[k][p]
      /\ \A i \in DOMAIN X[k + 1] : i \in 1 .. n /\ i # n /\ Y[k + 1][i] = X[k + 1][i]
  <2> DEFINE q == X[k + 1]  r == Y[k + 1]
  <2>1. q \in Seq(Entries) /\ X[k][p] \in Entries /\ r = Append(q, X[k][p])
    BY <1>1, ListsType DEF Entries
  <2> HIDE DEF q, r
  <2>2. /\ DOMAIN q = 1 .. Len(q) /\ DOMAIN r = 1 .. Len(q) + 1
        /\ Len(q) \in Nat /\ r[Len(q) + 1] = X[k][p]
        /\ \A i \in DOMAIN q : i \in DOMAIN r /\ i # Len(q) + 1 /\ r[i] = q[i]
    BY <2>1, GrownList
  <2> QED BY <2>2 DEF q, r
<1> HIDE DEF n
<1>3. \A l \in 1 .. 5 : \A i \in DOMAIN Y[l] : Y[l][i] \in Datagrams =>
         \/ i \in DOMAIN X[l] /\ X[l][i] = Y[l][i] /\ ~(l = k /\ i <= p)
         \/ l = k + 1 /\ i = n /\ Y[l][i] = X[k][p]
  <2> SUFFICES ASSUME NEW l \in 1 .. 5, NEW i \in DOMAIN Y[l], Y[l][i] \in Datagrams
               PROVE  \/ i \in DOMAIN X[l] /\ X[l][i] = Y[l][i] /\ ~(l = k /\ i <= p)
                      \/ l = k + 1 /\ i = n /\ Y[l][i] = X[k][p]
    OBVIOUS
  <2>1. CASE l = k
    <3>1. i \in DOMAIN X[k] /\ Y[k][i] # Null /\ i # p /\ X[k][i] = Y[k][i]
      BY <2>1, <1>2, PipelineAssumption
    <3>2. ~(i < p) /\ i \in Nat
      BY <3>1, <1>1, ListsType
    <3> QED BY <2>1, <3>1, <3>2, <1>1
  <2>2. CASE l = k + 1
    <3>1. i \in 1 .. n /\ i # n => i \in DOMAIN X[k + 1]
      BY <1>1
    <3> QED BY <2>2, <3>1, <1>1, <1>2
  <2>3. CASE l # k /\ l # k + 1
    BY <2>3, <1>2
  <2> QED BY <2>1, <2>2, <2>3
<1>6. n # 0
  BY <1>1, ListsType DEF n
<1>4. ASSUME NEW d \in Datagrams PROVE Holds(Y, d) <=> Holds(X, d)
  <2>1. ASSUME Holds(Y, d) PROVE Holds(X, d)
    <3>1. PICK l \in 1 .. 5 : \E i \in DOMAIN Y[l] : Y[l][i] = d
      BY <2>1 DEF Holds
    <3>2. PICK i \in DOMAIN Y[l] : Y[l][i] = d
      BY <3>1
    <3>3. (i \in DOMAIN X[l] /\ X[l][i] = d) \/ d = X[k][p]
      BY <3>2, <1>3
    <3> QED BY <3>3, <1>1 DEF Holds
  <2>2. ASSUME NEW l \in 1 .. 5, NEW i \in DOMAIN X[l], X[l][i] = d
        PROVE  Holds(Y, d)
    <3>1. CASE l = k /\ i = p
      <4>1. n \in DOMAIN Y[k + 1] /\ Y[k + 1][n] = d
        <5>1. n \in 1 .. n
          BY <1>1, <1>6
        <5> QED BY <5>1, <3>1, <2>2, <1>2
      <4> QED BY <4>1, <1>1 DEF Holds
    <3>2. CASE ~(l = k /\ i = p)
      <4>1. i \in DOMAIN Y[l] /\ Y[l][i] = d
        BY <3>2, <2>2, <1>1, <1>2
      <4> QED BY <4>1 DEF Holds
    <3> QED BY <3>1, <3>2
  <2> QED BY <2>1, <2>2 DEF Holds
<1>5. ASSUME NEW d \in Datagrams, NEW e \in Datagrams, Ahead(Y, d, e)
      PROVE  Ahead(X, d, e)
  <2>1. PICK l \in 1 .. 5, m \in 1 .. 5 : \E i \in DOMAIN Y[l], j \in DOMAIN Y[m] :
           Y[l][i] = d /\ Y[m][j] = e /\ (l > m \/ (l = m /\ i < j))
    BY <1>5 DEF Ahead
  <2>2. PICK i \in DOMAIN Y[l], j \in DOMAIN Y[m] :
           Y[l][i] = d /\ Y[m][j] = e /\ (l > m \/ (l = m /\ i < j))
    BY <2>1
  <2>3. \/ i \in DOMAIN X[l] /\ X[l][i] = d /\ ~(l = k /\ i <= p)
        \/ l = k + 1 /\ i = n /\ d = X[k][p]
    BY <2>2, <1>3
  <2>4. \/ j \in DOMAIN X[m] /\ X[m][j] = e /\ ~(m = k /\ j <= p)
        \/ m = k + 1 /\ j = n /\ e = X[k][p]
    BY <2>2, <1>3
  <2>5. CASE i \in DOMAIN X[l] /\ X[l][i] = d /\ j \in DOMAIN X[m] /\ X[m][j] = e
    BY <2>5, <2>2 DEF Ahead
  <2>6. CASE l = k + 1 /\ i = n /\ d = X[k][p] /\ j \in DOMAIN X[m] /\ X[m][j] = e
             /\ ~(m = k /\ j <= p)
    <3>1. k > m \/ (k = m /\ p < j)
      <4>1. j \in Nat
        BY <2>6, ListsType
      <4>2. m = k + 1 => j \in 1 .. n - 1
        BY <2>6, <1>1
      <4>3. (m = k /\ j > p) \/ m # k
        BY <2>6, <4>1, <1>1
      <4> QED BY <4>1, <4>2, <4>3, <2>2, <2>6, <1>1
    <3> QED BY <3>1, <2>6, <1>1 DEF Ahead
  <2>7. CASE i \in DOMAIN X[l] /\ X[l][i] = d /\ m = k + 1 /\ j = n /\ e = X[k][p]
    <3>1. l > k
      BY <2>2, <2>7, <1>1
    <3> QED BY <3>1, <2>7, <1>1 DEF Ahead
  <2>8. CASE l = k + 1 /\ i = n /\ m = k + 1 /\ j = n
    BY <2>8, <2>2, <1>1
  <2> QED BY <2>3, <2>4, <2>5, <2>6, <2>7, <2>8
<1> QED BY <1>4, <1>5

\* Entries are removed from a list.
LEMMA Removing ==
  ASSUME NEW X \in Lists, NEW Y \in Lists, NEW k \in 1 .. 5, NEW gone,
         Y[k] = Without(X[k], gone),
         \A l \in 1 .. 5 : l # k => Y[l] = X[l]
  PROVE  /\ \A d \in Datagrams : Holds(Y, d) => Holds(X, d)
         /\ \A d \in Datagrams : Holds(X, d) /\ d \notin gone => Holds(Y, d)
         /\ \A d, e \in Datagrams : Ahead(Y, d, e) => Ahead(X, d, e)
<1> PICK q, w : q = X[k] /\ w = Y[k]
  OBVIOUS
<1>1. q \in Seq(Entries) /\ w = Without(q, gone)
  BY ListsType
<1>2. PICK f : StoodAt(f, w, q, gone)
  BY ONLY <1>1, WithoutKeeps
<1>3. /\ f \in [DOMAIN w -> DOMAIN X[k]]
      /\ \A n \in DOMAIN w : w[n] = X[k][f[n]] /\ X[k][f[n]] \notin gone
      /\ \A m, n \in DOMAIN w : m < n => f[m] < f[n]
      /\ \A i \in DOMAIN X[k] : X[k][i] \notin gone => \E n \in DOMAIN w : f[n] = i
  BY <1>2 DEF StoodAt
<1>4. Y[k] = w /\ \A l \in 1 .. 5 : l # k => Y[l] = X[l]
  OBVIOUS
<1>5. ASSUME NEW d \in Datagrams, Holds(Y, d) PROVE Holds(X, d)
  BY <1>3, <1>4, <1>5 DEF Holds
<1>6. ASSUME NEW d \in Datagrams, Holds(X, d), d \notin gone PROVE Holds(Y, d)
  <2>1. PICK l \in 1 .. 5 : \E i \in DOMAIN X[l] : X[l][i] = d
    BY <1>6 DEF Holds
  <2>2. PICK i \in DOMAIN X[l] : X[l][i] = d
    BY <2>1
  <2>3. \E n \in DOMAIN Y[l] : Y[l][n] = d
    BY <2>2, <1>3, <1>4, <1>6
  <2> QED BY <2>3 DEF Holds
<1>7. ASSUME NEW d \in Datagrams, NEW e \in Datagrams, Ahead(Y, d, e)
      PROVE  Ahead(X, d, e)
  <2>1. PICK l \in 1 .. 5, m \in 1 .. 5 : \E i \in DOMAIN Y[l], j \in DOMAIN Y[m] :
           Y[l][i] = d /\ Y[m][j] = e /\ (l > m \/ (l = m /\ i < j))
    BY <1>7 DEF Ahead
  <2>2. PICK i \in DOMAIN Y[l], j \in DOMAIN Y[m] :
           Y[l][i] = d /\ Y[m][j] = e /\ (l > m \/ (l = m /\ i < j))
    BY <2>1
  <2> DEFINE a == IF l = k THEN f[i] ELSE i
             b == IF m = k THEN f[j] ELSE j
  <2>3. a \in DOMAIN X[l] /\ X[l][a] = d
    BY <2>2, <1>3, <1>4
  <2>4. b \in DOMAIN X[m] /\ X[m][b] = e
    BY <2>2, <1>3, <1>4
  <2>5. l = m /\ i < j => a < b
    BY <2>2, <1>3, <1>4
  <2> HIDE DEF a, b
  <2> QED BY <2>2, <2>3, <2>4, <2>5 DEF Ahead
<1> QED BY <1>5, <1>6, <1>7

\* An item is appended to the first list.
LEMMA Arriving ==
  ASSUME NEW X \in Lists, NEW Y \in Lists, NEW x \in Datagrams,
         Y[1] = Append(X[1], x),
         \A l \in 1 .. 5 : l # 1 => Y[l] = X[l]
  PROVE  /\ \A d \in Datagrams : Holds(Y, d) <=> Holds(X, d) \/ d = x
         /\ \A d, e \in Datagrams : Ahead(Y, d, e) => Ahead(X, d, e) \/ (Holds(X, d) /\ e = x)
<1> DEFINE n == Len(X[1]) + 1
<1>1. n \in Nat \ {0} /\ DOMAIN X[1] = 1 .. n - 1
  BY ListsType
<1>2. /\ \A l \in 1 .. 5 : l # 1 => Y[l] = X[l]
      /\ DOMAIN Y[1] = 1 .. n /\ Y[1][n] = x
      /\ \A i \in DOMAIN X[1] : Y[1][i] = X[1][i]
  <2> DEFINE q == X[1]  r == Y[1]
  <2>1. q \in Seq(Entries) /\ x \in Entries /\ r = Append(q, x)
    BY ListsType DEF Entries
  <2> HIDE DEF q, r
  <2>2. /\ DOMAIN q = 1 .. Len(q) /\ DOMAIN r = 1 .. Len(q) + 1
        /\ Len(q) \in Nat /\ r[Len(q) + 1] = x
        /\ \A i \in DOMAIN q : i \in DOMAIN r /\ i # Len(q) + 1 /\ r[i] = q[i]
    BY <2>1, GrownList
  <2> QED BY <2>2 DEF q, r
<1> HIDE DEF n
<1>3. \A l \in 1 .. 5 : \A i \in DOMAIN Y[l] :
         \/ i \in DOMAIN X[l] /\ X[l][i] = Y[l][i]
         \/ l = 1 /\ i = n /\ Y[l][i] = x
  <2> SUFFICES ASSUME NEW l \in 1 .. 5, NEW i \in DOMAIN Y[l]
               PROVE  \/ i \in DOMAIN X[l] /\ X[l][i] = Y[l][i]
                      \/ l = 1 /\ i = n /\ Y[l][i] = x
    OBVIOUS
  <2>1. CASE l = 1
    <3>1. i \in 1 .. n /\ (i # n => i \in DOMAIN X[1])
      BY <2>1, <1>1, <1>2
    <3> QED BY <2>1, <3>1, <1>2
  <2>2. CASE l # 1
    BY <2>2, <1>2
  <2> QED BY <2>1, <2>2
<1>4. \A l \in 1 .. 5 : \A i \in DOMAIN X[l] : i \in DOMAIN Y[l] /\ Y[l][i] = X[l][i]
  <2>1. \A i \in DOMAIN X[1] : i \in DOMAIN Y[1]
    BY <1>1, <1>2
  <2> QED BY <2>1, <1>2
<1>5. n \in DOMAIN Y[1] /\ Y[1][n] = x
  BY <1>1, <1>2
<1>6. ASSUME NEW d \in Datagrams PROVE Holds(Y, d) <=> Holds(X, d) \/ d = x
  <2>1. Holds(Y, d) => Holds(X, d) \/ d = x
    BY <1>3 DEF Holds
  <2>2. Holds(X, d) => Holds(Y, d)
    BY <1>4 DEF Holds
  <2>3. Holds(Y, x)
    <3>1. 1 \in 1 .. 5
      OBVIOUS
    <3> QED BY <3>1, <1>5 DEF Holds
  <2> QED BY <2>1, <2>2, <2>3
<1>7. ASSUME NEW d \in Datagrams, NEW e \in Datagrams, Ahead(Y, d, e)
      PROVE  Ahead(X, d, e) \/ (Holds(X, d) /\ e = x)
  <2>1. PICK l \in 1 .. 5, m \in 1 .. 5 : \E i \in DOMAIN Y[l], j \in DOMAIN Y[m] :
           Y[l][i] = d /\ Y[m][j] = e /\ (l > m \/ (l = m /\ i < j))
    BY <1>7 DEF Ahead
  <2>2. PICK i \in DOMAIN Y[l], j \in DOMAIN Y[m] :
           Y[l][i] = d /\ Y[m][j] = e /\ (l > m \/ (l = m /\ i < j))
    BY <2>1
  <2>3. CASE l = 1 /\ i = n
    <3>1. m = 1 /\ j \in 1 .. n /\ n < j
      BY <2>2, <2>3, <1>2
    <3> QED BY <3>1, <1>1
  <2>4. CASE i \in DOMAIN X[l] /\ X[l][i] = d
    <3>1. CASE m = 1 /\ j = n /\ e = x
      BY <2>4, <3>1 DEF Holds
    <3>2. CASE j \in DOMAIN X[m] /\ X[m][j] = e
      BY <2>2, <2>4, <3>2 DEF Ahead
    <3> QED BY <3>1, <3>2, <2>2, <1>3
  <2> QED BY <2>2, <2>3, <2>4, <1>3
<1> QED BY <1>6, <1>7

-----------------------------------------------------------------------------
(* The invariant.                                                          *)

LineOf(q, s) == [k \in 1 .. 5 |-> IF k = 5 THEN s ELSE q[k]]
Line == LineOf(queue, sent)

Before(s, d, e) == \E m, n \in DOMAIN s : m < n /\ s[m] = d /\ s[n] = e

\* boxProcessorDeamon's item is one that is not in the server yet, and not lost.
Linked ==
  /\ linking \in [item : Entries, seen : Seq(Entries), swept : BOOLEAN]
  /\ linking # NoLink => linking.item \in Datagrams \ (ToSet(arrived) \union spoilt)

ArrivedOnce == \A m, n \in DOMAIN arrived : arrived[m] = arrived[n] => m = n

\* What is on the lines has arrived and is not lost, stands in the order of arrival,
\* and is all that can be answered.
LinedUp(X, seq, lost) ==
  /\ \A d \in Datagrams : Holds(X, d) => d \in ToSet(seq) \ lost
  /\ \A d, e \in Datagrams : Ahead(X, d, e) => Before(seq, d, e)
  /\ \A d \in ToSet(seq) \ lost : Class[d] \in {"public", "private"} => Holds(X, d)

Lined == LinedUp(Line, arrived, spoilt)

\* A walk holds the mutex of its list, and has left only null entries behind.
Placed ==
  \A t \in Threads : pc[t] = "walk" =>
    /\ owner[Stage(t)] = t
    /\ pos[t] <= Len(queue[Stage(t)]) + 1
    /\ \A i \in 1 .. pos[t] - 1 : queue[Stage(t)][i] = Null

Inv == TypeOK /\ Linked /\ ArrivedOnce /\ Lined /\ Placed

LEMMA StageType ==
  /\ \A t \in Threads : Stage(t) \in 1 .. 4
  /\ \A t \in RawThreads : Stage(t) = 1
  /\ Stage("pkt") = 2 /\ Stage("req") = 3 /\ Stage("snd") = 4
  /\ \A t \in Threads : t # "snd" => Stage(t) + 1 \in 1 .. 4
BY PipelineAssumption DEF Stage, Threads

LEMMA LineType ==
  ASSUME NEW q \in [1 .. 4 -> Seq(Datagrams \union {Null})], NEW s \in Seq(Datagrams)
  PROVE  /\ LineOf(q, s) \in Lists
         /\ \A k \in 1 .. 4 : LineOf(q, s)[k] = q[k]
         /\ LineOf(q, s)[5] = s
<1>1. s \in Seq(Entries)
  BY SeqMonotonic DEF Entries
<1>2. \A k \in 1 .. 4 : q[k] \in Seq(Entries)
  BY DEF Entries
<1>3. \A k \in 1 .. 5 : (IF k = 5 THEN s ELSE q[k]) \in Seq(Entries)
  BY <1>1, <1>2
<1> QED BY <1>3 DEF LineOf, Lists

\* An item done with: dropped, passed on, or (by ProcessSendPackets) sent.
Served(t) ==
  /\ AtItem(t) /\ Advance(t)
  /\ UNCHANGED <<race, arrived>>
  /\ \/ Drop(t) /\ sent' = sent /\ Class[Current(t)] \notin {"public", "private"}
     \/ t # "snd" /\ PassOn(t) /\ sent' = sent
     \/ t = "snd" /\ Drop(t) /\ sent' = Append(sent, Current(t))

LEMMA ItemServed ==
  /\ \A t \in RawThreads : RawDataItem(t) => t \in Threads /\ Served(t)
  /\ PacketItem => Served("pkt")
  /\ RequestItem => Served("req")
  /\ SendItem => Served("snd")
<1>1. ASSUME NEW t \in RawThreads, RawDataItem(t) PROVE t \in Threads /\ Served(t)
  BY <1>1, PipelineAssumption DEF RawDataItem, Served, Threads, race
<1>2. PacketItem => Served("pkt")
  BY DEF PacketItem, Served, race
<1>3. RequestItem => Served("req")
  BY DEF RequestItem, Served, race, Unanswerable
<1>4. SendItem => Served("snd")
  BY DEF SendItem, Served, race
<1> QED BY <1>1, <1>2, <1>3, <1>4

\* Where the walk of an item stands.
LEMMA ItemPlace ==
  ASSUME Inv, NEW t \in Threads, AtItem(t)
  PROVE  /\ pc[t] = "walk"
         /\ Stage(t) \in 1 .. 4 /\ pos[t] \in DOMAIN Line[Stage(t)]
         /\ pos[t] \in 1 .. Len(queue[Stage(t)])
         /\ Line[Stage(t)] = queue[Stage(t)]
         /\ Line[Stage(t)][pos[t]] = Current(t) /\ Current(t) \in Datagrams
         /\ \A i \in DOMAIN Line[Stage(t)] : i < pos[t] => Line[Stage(t)][i] = Null
<1> DEFINE k == Stage(t)
<1>1. k \in 1 .. 4 /\ Line[k] = queue[k] /\ Line \in Lists
  BY StageType, LineType DEF Inv, TypeOK, Line
<1>2. pc[t] = "walk" /\ pos[t] <= Len(queue[k]) /\ Current(t) = queue[k][pos[t]] /\ Current(t) # Null
  BY DEF AtItem, Walking, Current
<1>3. pos[t] \in Nat \ {0}
  BY DEF Inv, TypeOK
<1> HIDE DEF k
<1>4. /\ DOMAIN Line[k] = 1 .. Len(Line[k]) /\ Len(Line[k]) \in Nat
      /\ \A i \in DOMAIN Line[k] : Line[k][i] \in Entries
  <2>1. k \in 1 .. 5
    BY <1>1
  <2> QED BY <1>1, <2>1, ListsType
<1>5. pos[t] \in 1 .. Len(queue[k]) /\ pos[t] \in DOMAIN Line[k]
  BY <1>1, <1>2, <1>3, <1>4
<1>6. \A i \in 1 .. pos[t] - 1 : queue[k][i] = Null
  BY <1>2 DEF Inv, Placed, k
<1>7. \A i \in DOMAIN Line[k] : i < pos[t] => Line[k][i] = Null
  BY <1>6, <1>1, <1>3, <1>4
<1>8. Current(t) \in Datagrams
  BY <1>1, <1>2, <1>4, <1>5 DEF Entries
<1> QED BY <1>1, <1>2, <1>5, <1>7, <1>8 DEF k


\* What each change of the lists does to what is lined up.
LEMMA LinedSubset ==
  ASSUME NEW X, NEW Y, NEW seq \in Seq(Datagrams), NEW lost, NEW lost2,
         LinedUp(X, seq, lost), lost \subseteq lost2,
         \A d \in Datagrams : Holds(Y, d) => Holds(X, d),
         \A d \in lost2 \ lost : ~Holds(Y, d),
         \A d \in Datagrams : Holds(X, d) /\ Class[d] \in {"public", "private"} /\ d \notin lost2
            => Holds(Y, d),
         \A d, e \in Datagrams : Ahead(Y, d, e) => Ahead(X, d, e)
  PROVE  LinedUp(Y, seq, lost2)
<1>1. ToSet(seq) \subseteq Datagrams
  BY LenProperties DEF ToSet
<1> QED BY <1>1 DEF LinedUp

LEMMA ServedLined ==
  ASSUME Inv, NEW t \in Threads, Served(t), TypeOK'
  PROVE  Lined'
<1> DEFINE k == Stage(t)  p == pos[t]  d == Current(t)
<1>1. /\ k \in 1 .. 4 /\ k \in 1 .. 5 /\ p \in DOMAIN Line[k] /\ Line[k][p] = d
      /\ d \in Datagrams /\ d # Null /\ Line[k] = queue[k]
      /\ \A i \in DOMAIN Line[k] : i < p => Line[k][i] = Null
  BY ItemPlace, PipelineAssumption DEF Served
<1>2. /\ Line \in Lists /\ LinedUp(Line, arrived, spoilt) /\ arrived \in Seq(Datagrams)
      /\ \A l \in 1 .. 4 : Line[l] = queue[l]
      /\ Line[5] = sent
  BY LineType DEF Inv, Lined, Line, TypeOK
<1>3. /\ Line' \in Lists
      /\ \A l \in 1 .. 4 : Line'[l] = queue'[l]
      /\ Line'[5] = sent'
  BY LineType DEF Line, TypeOK
<1>4. arrived' = arrived /\ spoilt' = spoilt /\ DOMAIN queue = 1 .. 4
  BY DEF Served, race, Inv, TypeOK
<1>5. PICK X, Y : X = Line /\ Y = Line'
  OBVIOUS
<1>6. CASE Drop(t) /\ sent' = sent /\ Class[d] \notin {"public", "private"}
  <2>1. queue' = [queue EXCEPT ![k][p] = Null]
    BY <1>6 DEF Drop, Nulled
  <2> HIDE DEF k, p, d
  <2>2. Y[k] = [X[k] EXCEPT ![p] = Null] /\ \A l \in 1 .. 5 : l # k => Y[l] = X[l]
    <3>1. queue'[k] = [queue[k] EXCEPT ![p] = Null]
      BY <2>1, <1>1, <1>4
    <3>2. \A l \in 1 .. 4 : l # k => queue'[l] = queue[l]
      BY <2>1, <1>4
    <3>3. \A l \in 1 .. 5 : l # k => l = 5 \/ l \in 1 .. 4
      OBVIOUS
    <3> QED BY <3>1, <3>2, <3>3, <1>1, <1>2, <1>3, <1>5, <1>6
  <2>3. /\ \A e \in Datagrams : Holds(Y, e) => Holds(X, e)
        /\ \A e \in Datagrams : Holds(X, e) /\ e # X[k][p] => Holds(Y, e)
        /\ \A c, e \in Datagrams : Ahead(Y, c, e) => Ahead(X, c, e)
    BY <2>2, <1>1, <1>2, <1>3, <1>5, Dropping
  <2>4. LinedUp(Y, arrived, spoilt)
    BY <2>3, <1>1, <1>2, <1>5, <1>6, LinedSubset
  <2> QED BY <2>4, <1>4, <1>5 DEF Lined
<1>7. CASE \/ t # "snd" /\ PassOn(t) /\ sent' = sent
           \/ t = "snd" /\ Drop(t) /\ sent' = Append(sent, d)
  <2>1. /\ Y[k] = [X[k] EXCEPT ![p] = Null]
        /\ Y[k + 1] = Append(X[k + 1], X[k][p])
        /\ \A l \in 1 .. 5 : l # k /\ l # k + 1 => Y[l] = X[l]
    <3>1. CASE t # "snd"
      <4>1. k + 1 \in 1 .. 4
        BY <3>1, StageType
      <4>2. queue' = [[queue EXCEPT ![k][p] = Null] EXCEPT ![k + 1] = Append(@, d)]
        BY <1>7, <3>1 DEF PassOn, Nulled
      <4> HIDE DEF k, p, d
      <4>3. /\ queue'[k] = [queue[k] EXCEPT ![p] = Null]
            /\ queue'[k + 1] = Append(queue[k + 1], d)
            /\ \A l \in 1 .. 4 : l # k /\ l # k + 1 => queue'[l] = queue[l]
        <5> DEFINE Q == [queue EXCEPT ![k][p] = Null]
        <5>1. DOMAIN Q = 1 .. 4 /\ Q[k] = [queue[k] EXCEPT ![p] = Null]
              /\ \A l \in 1 .. 4 : l # k => Q[l] = queue[l]
          BY <1>1, <1>4
        <5>2. queue' = [Q EXCEPT ![k + 1] = Append(Q[k + 1], d)]
          BY <4>2
        <5>3. k # k + 1
          BY <1>1
        <5> HIDE DEF Q
        <5> QED BY <5>1, <5>2, <5>3, <4>1, <1>1
      <4>4. \A l \in 1 .. 5 : l # k => l = 5 \/ l \in 1 .. 4
        OBVIOUS
      <4> QED BY <4>1, <4>3, <4>4, <1>1, <1>2, <1>3, <1>5, <1>7, <3>1
    <3>2. CASE t = "snd"
      <4>1. k = 4
        BY <3>2, StageType
      <4>2. queue' = [queue EXCEPT ![k][p] = Null] /\ sent' = Append(sent, d)
        BY <1>7, <3>2 DEF Drop, Nulled
      <4> HIDE DEF k, p, d
      <4>3. /\ queue'[4] = [queue[4] EXCEPT ![p] = Null]
            /\ \A l \in 1 .. 4 : l # 4 => queue'[l] = queue[l]
        BY <4>1, <4>2, <1>1, <1>4
      <4>4. \A l \in 1 .. 5 : l # k => l = 5 \/ l \in 1 .. 4
        OBVIOUS
      <4> QED BY <4>1, <4>2, <4>3, <4>4, <1>1, <1>2, <1>3, <1>5
    <3> QED BY <3>1, <3>2
  <2> HIDE DEF k, p, d
  <2>2. /\ \A e \in Datagrams : Holds(Y, e) <=> Holds(X, e)
        /\ \A c, e \in Datagrams : Ahead(Y, c, e) => Ahead(X, c, e)
    <3>1. /\ X \in Lists /\ Y \in Lists /\ k \in 1 .. 4 /\ p \in DOMAIN X[k]
          /\ X[k][p] # Null /\ \A i \in DOMAIN X[k] : i < p => X[k][i] = Null
      BY <1>1, <1>2, <1>3, <1>5
    <3> QED BY ONLY <3>1, <2>1, Moving
  <2>3. LinedUp(Y, arrived, spoilt)
    BY <2>2, <1>2, <1>5, LinedSubset
  <2> QED BY <2>3, <1>4, <1>5 DEF Lined
<1> QED BY <1>6, <1>7 DEF Served

LEMMA SweptType ==
  ASSUME TypeOK, NEW k \in 1 .. 4
  PROVE  Swept(k) \in [1 .. 4 -> Seq(Datagrams \union {Null})]
<1>1. PICK q : q = queue[k]
  OBVIOUS
<1>2. q \in Seq(Datagrams \union {Null})
  BY <1>1 DEF TypeOK
<1>3. NonNull(q) \in Seq(Datagrams \union {Null})
  BY <1>2, WithoutKeeps DEF NonNull
<1>4. queue \in [1 .. 4 -> Seq(Datagrams \union {Null})]
  BY DEF TypeOK
<1> QED BY <1>1, <1>3, <1>4 DEF Swept

\* Types of the database columns.
SqlType ==
  /\ rids \in SUBSET Rids
  /\ rows \in [Rids -> Nat] /\ waiting \in [Rids -> Nat]
  /\ status \in [Rids -> {0, 1}]

LEMMA SqlTypeStep == SqlType /\ [Next]_vars /\ TypeOK => SqlType'
<1> SUFFICES ASSUME SqlType, [Next]_vars, TypeOK PROVE SqlType'
  OBVIOUS
<1>1. ASSUME UNCHANGED sqldb PROVE SqlType'
  BY <1>1 DEF SqlType, sqldb
<1>2. ASSUME NEW r \in Rids, Register(r) PROVE SqlType'
  <2>1. CASE r \in rids
    BY <1>1, <1>2, <2>1 DEF Register
  <2>2. CASE r \notin rids
    BY <1>2, <2>2 DEF Register, SqlType
  <2> QED BY <2>1, <2>2
<1>3. ASSUME NEW r \in Rids, NEW a \in Rids, Login(r, a) PROVE SqlType'
  <2>1. CASE status[a] # 0
    BY <1>1, <1>3, <2>1 DEF Login
  <2>2. CASE status[a] = 0
    BY <1>3, <2>2 DEF Login, SqlType
  <2> QED BY <2>1, <2>2
<1>4. CASE RequestItem
  <2> DEFINE d == Current("req")
  <2>1. d \in Datagrams
    <3>1. /\ pos["req"] <= Len(queue[3]) /\ d = queue[3][pos["req"]] /\ d # Null
      BY <1>4, StageType DEF RequestItem, AtItem, Walking, Current
    <3>2. queue[3] \in Seq(Entries) /\ pos["req"] \in Nat \ {0}
      BY DEF TypeOK, Entries, Threads
    <3>3. Len(queue[3]) \in Nat
      BY <3>2, LenProperties
    <3>4. pos["req"] \in 1 .. Len(queue[3])
      BY <3>1, <3>2, <3>3
    <3>5. queue[3][pos["req"]] \in Entries
      BY <3>2, <3>4, ElementOfSeq
    <3> QED BY <3>1, <3>5 DEF Entries
  <2>2. Rid[d] \in Rids /\ Account[d] \in Rids
    BY <2>1, PipelineAssumption DEF Rids
  <2>3. \/ UNCHANGED sqldb
        \/ Register(Rid[d])
        \/ Login(Rid[d], Account[d])
    BY <1>4 DEF RequestItem
  <2> HIDE DEF d
  <2> QED BY <2>2, <2>3, <1>1, <1>2, <1>3
<1>5. CASE \E r \in Rids : WaitDaemon(r)
  BY <1>5 DEF WaitDaemon, SqlType
<1>6. ASSUME NEW d \in Datagrams, Receive(d) \/ BoxPush(d) PROVE UNCHANGED sqldb
  BY <1>6 DEF Receive, BoxPush
<1>7. CASE BoxLink
  BY <1>1, <1>7 DEF BoxLink
<1>8. ASSUME NEW t \in Threads,
             Start(t) \/ SkipNull(t) \/ Finish(t) \/ RawUnlock(t) \/ RawSweep(t)
      PROVE  UNCHANGED sqldb
  BY <1>8 DEF Start, SkipNull, Finish, RawUnlock, RawSweep
<1>9. ASSUME NEW t \in RawThreads, RawDataItem(t) PROVE UNCHANGED sqldb
  BY <1>9 DEF RawDataItem
<1>10. CASE PacketItem \/ SendItem
  BY <1>1, <1>10 DEF PacketItem, SendItem
<1>11. CASE UNCHANGED vars
  BY <1>1, <1>11 DEF vars, sqldb
<1> QED BY <1>1, <1>4, <1>5, <1>6, <1>7, <1>8, <1>9, <1>10, <1>11 DEF Next

\* Types of the lists and of the walks.
WalkType ==
  /\ owner \in [1 .. 4 -> Threads \union {Nobody}]
  /\ pc \in [Threads -> {"idle", "walk", "sweep"}]
  /\ pos \in [Threads -> Nat \ {0}]
  /\ prm \in [Threads -> 0 .. Batch]

FlowType ==
  /\ queue \in [1 .. 4 -> Seq(Datagrams \union {Null})]
  /\ sent \in Seq(Datagrams) /\ arrived \in Seq(Datagrams)
  /\ spoilt \in SUBSET Datagrams
  /\ linking.item \in Datagrams \union {Null} /\ broken \in BOOLEAN

LEMMA TypeParts == TypeOK <=> SqlType /\ WalkType /\ FlowType
BY DEF TypeOK, SqlType, WalkType, FlowType

LEMMA PushType ==
  ASSUME FlowType, NEW d \in Datagrams, Push(d)
  PROVE  /\ queue' \in [1 .. 4 -> Seq(Datagrams \union {Null})]
         /\ arrived' \in Seq(Datagrams)
         /\ spoilt' \in SUBSET Datagrams
<1>1. CASE broken
  BY <1>1 DEF Push, FlowType
<1>2. CASE ~broken
  <2>1. queue' = [queue EXCEPT ![1] = Append(@, d)] /\ arrived' = Append(arrived, d)
        /\ spoilt' = spoilt
    BY <1>2 DEF Push
  <2>2. queue[1] \in Seq(Datagrams \union {Null})
    BY DEF FlowType
  <2>3. Append(queue[1], d) \in Seq(Datagrams \union {Null}) /\ Append(arrived, d) \in Seq(Datagrams)
    BY <2>2, AppendProperties DEF FlowType
  <2> QED BY <2>1, <2>3 DEF FlowType
<1> QED BY <1>1, <1>2

LEMMA ServedType ==
  ASSUME Inv, NEW t \in Threads, Served(t)
  PROVE  FlowType' /\ WalkType'
<1> DEFINE k == Stage(t)  p == pos[t]  d == Current(t)
<1>1. k \in 1 .. 4 /\ p \in DOMAIN queue[k] /\ d \in Datagrams /\ pc[t] = "walk"
  BY ItemPlace DEF Served
<1>2. FlowType /\ WalkType
  BY TypeParts DEF Inv
<1>3. /\ UNCHANGED <<linking, broken, spoilt, arrived, owner, pc>>
      /\ pos' = [pos EXCEPT ![t] = @ + 1] /\ prm' = [prm EXCEPT ![t] = @ - 1]
      /\ prm[t] > 0
  BY DEF Served, race, Advance, AtItem
<1>4. WalkType'
  <2>1. Batch \in Nat
    BY PipelineAssumption
  <2>2. pos[t] + 1 \in Nat \ {0} /\ prm[t] - 1 \in 0 .. Batch
    BY <2>1, <1>2, <1>3 DEF WalkType
  <2> QED BY <2>2, <1>2, <1>3 DEF WalkType
<1> DEFINE Q == [queue EXCEPT ![k][p] = Null]  E == Datagrams \union {Null}
<1>5. Q \in [1 .. 4 -> Seq(E)]
  <2>1. queue \in [1 .. 4 -> Seq(E)] /\ queue[k] \in Seq(E)
    BY <1>1, <1>2 DEF FlowType
  <2>2. [queue[k] EXCEPT ![p] = Null] \in Seq(E)
    BY <2>1, <1>1, NulledEntry DEF Entries
  <2> QED BY <2>1, <2>2, <1>1
<1>6. /\ Drop(t) => queue' = Q
      /\ PassOn(t) => queue' = [Q EXCEPT ![k + 1] = Append(Q[k + 1], d)]
  BY DEF Drop, PassOn, Nulled
<1>7. queue' \in [1 .. 4 -> Seq(E)] /\ sent' \in Seq(Datagrams)
  <2>1. ASSUME t # "snd", PassOn(t) PROVE queue' \in [1 .. 4 -> Seq(E)]
    <3>1. k + 1 \in 1 .. 4
      BY <2>1, StageType
    <3>2. queue' = [Q EXCEPT ![k + 1] = Append(Q[k + 1], d)]
      BY <1>6, <2>1
    <3> HIDE DEF Q
    <3>3. Q[k + 1] \in Seq(E)
      BY <3>1, <1>5
    <3>4. Append(Q[k + 1], d) \in Seq(E)
      BY <3>3, <1>1, AppendProperties
    <3> QED BY <3>1, <3>2, <3>4, <1>5
  <2>2. Append(sent, d) \in Seq(Datagrams) /\ sent \in Seq(Datagrams)
    BY <1>1, <1>2, AppendProperties DEF FlowType
  <2> QED BY <2>1, <2>2, <1>5, <1>6 DEF Served
<1> QED BY <1>2, <1>3, <1>4, <1>7 DEF FlowType

LEMMA FlowTypeStep == Inv /\ [Next]_vars => FlowType' /\ WalkType'
<1> SUFFICES ASSUME Inv, [Next]_vars PROVE FlowType' /\ WalkType'
  OBVIOUS
<1>1. FlowType /\ WalkType
  BY TypeParts DEF Inv
<1>2. ASSUME NEW d \in Datagrams, Receive(d) PROVE FlowType' /\ WalkType'
  <2>1. Push(d) /\ UNCHANGED <<owner, pc, pos, prm, linking, broken, sent>>
    BY <1>2 DEF Receive, walks
  <2> QED BY <2>1, <1>1, PushType DEF FlowType, WalkType
<1>3. ASSUME NEW d \in Datagrams, BoxPush(d) PROVE FlowType' /\ WalkType'
  BY <1>3, <1>1 DEF BoxPush, lists, walks, FlowType, WalkType
<1>4. CASE BoxLink
  <2> DEFINE d == linking.item
  <2>1. d \in Datagrams
    BY <1>4 DEF BoxLink, Inv, Linked
  <2>2. UNCHANGED <<owner, pc, pos, prm, sent>> /\ linking' = NoLink
    BY <1>4 DEF BoxLink, walks
  <2>3. NewSince \in SUBSET Datagrams /\ queue[1] \in Seq(Datagrams \union {Null})
    <3>1. queue[1] \in Seq(Datagrams \union {Null})
      BY <1>1 DEF FlowType
    <3>2. ToSet(queue[1]) \subseteq Datagrams \union {Null}
      BY <3>1, LenProperties DEF ToSet
    <3> QED BY <3>1, <3>2 DEF NewSince
  <2> HIDE DEF d
  <2> DEFINE FlowStep ==
        /\ queue' \in [1 .. 4 -> Seq(Datagrams \union {Null})]
        /\ arrived' \in Seq(Datagrams) /\ spoilt' \in SUBSET Datagrams /\ broken' \in BOOLEAN
  <2>4. FlowStep
    <3>1. ASSUME Push(d), UNCHANGED broken PROVE FlowStep
      BY <3>1, <1>1, <2>1, PushType DEF FlowType
    <3>2. ASSUME queue' = [queue EXCEPT ![1] = Append(Without(queue[1], NewSince), d)],
                 arrived' = Append(arrived, d), spoilt' = spoilt \union NewSince,
                 broken' \in BOOLEAN
          PROVE  FlowStep
      <4>1. Without(queue[1], NewSince) \in Seq(Datagrams \union {Null})
        <5>1. PICK q : q = queue[1]
          OBVIOUS
        <5> QED BY <5>1, <2>3, WithoutKeeps
      <4>2. Append(Without(queue[1], NewSince), d) \in Seq(Datagrams \union {Null})
        BY <4>1, <2>1, AppendProperties
      <4>3. Append(arrived, d) \in Seq(Datagrams)
        BY <1>1, <2>1, AppendProperties DEF FlowType
      <4> QED BY <3>2, <4>2, <4>3, <2>3, <1>1 DEF FlowType
    <3>3. ASSUME spoilt' = spoilt \union {d}, broken' \in BOOLEAN,
                 UNCHANGED <<queue, arrived>>
          PROVE  FlowStep
      BY <3>3, <1>1, <2>1 DEF FlowType
    <3> QED BY <1>4, <3>1, <3>2, <3>3 DEF BoxLink, d
  <2>5. NoLink.item \in Datagrams \union {Null}
    BY DEF NoLink
  <2> QED BY <1>1, <2>2, <2>4, <2>5 DEF FlowType, WalkType
<1>5. ASSUME NEW t \in Threads, Start(t) \/ SkipNull(t) \/ RawUnlock(t)
      PROVE  FlowType' /\ WalkType'
  <2>1. UNCHANGED <<queue, linking, broken, spoilt, sent, arrived>>
    BY <1>5 DEF Start, SkipNull, RawUnlock, race
  <2>2. Stage(t) \in 1 .. 4 /\ Batch \in Nat
    BY StageType, PipelineAssumption
  <2>3. WalkType'
    BY <1>1, <1>5, <2>2 DEF Start, SkipNull, RawUnlock, Unlock, WalkType
  <2> QED BY <1>1, <2>1, <2>3 DEF FlowType
<1>6. ASSUME NEW t \in Threads, Finish(t) \/ RawSweep(t)
      PROVE  FlowType' /\ WalkType'
  <2>1. Stage(t) \in 1 .. 4 /\ 1 \in 1 .. 4 /\ Batch \in Nat
    BY StageType, PipelineAssumption
  <2>2. queue' \in [1 .. 4 -> Seq(Datagrams \union {Null})]
    <3>1. TypeOK
      BY DEF Inv
    <3>2. PICK k \in 1 .. 4 : queue' = Swept(k)
      BY <1>6, <2>1 DEF Finish, RawSweep
    <3>3. Swept(k) \in [1 .. 4 -> Seq(Datagrams \union {Null})]
      BY <3>1, SweptType
    <3> QED BY <3>2, <3>3
  <2>3. WalkType'
    <3>1. CASE Finish(t)
      <4>1. /\ owner' = [owner EXCEPT ![Stage(t)] = Nobody]
            /\ pos' = [pos EXCEPT ![t] = 1] /\ prm' = [prm EXCEPT ![t] = 0]
            /\ pc' = [pc EXCEPT ![t] = "idle"]
        BY <3>1 DEF Finish, Unlock
      <4> QED BY <4>1, <2>1, <1>1 DEF WalkType
    <3>2. CASE RawSweep(t)
      <4>1. pc' = [pc EXCEPT ![t] = "idle"] /\ UNCHANGED <<owner, pos, prm>>
        BY <3>2 DEF RawSweep
      <4> QED BY <4>1, <1>1 DEF WalkType
    <3> QED BY <1>6, <3>1, <3>2
  <2>4. linking'.item = linking.item /\ broken' \in BOOLEAN /\ UNCHANGED <<sent, arrived, spoilt>>
    BY <1>1, <1>6 DEF Finish, RawSweep, race, FlowType, Inv, Linked
  <2> QED BY <1>1, <2>2, <2>3, <2>4 DEF FlowType
<1>7. ASSUME NEW t \in RawThreads, RawDataItem(t) PROVE FlowType' /\ WalkType'
  BY <1>7, ItemServed, ServedType
<1>8. CASE PacketItem \/ RequestItem \/ SendItem
  BY <1>8, ItemServed, ServedType DEF Threads
<1>9. ASSUME NEW r \in Rids, WaitDaemon(r) PROVE FlowType' /\ WalkType'
  BY <1>1, <1>9 DEF WaitDaemon, lists, walks, race, FlowType, WalkType
<1>10. CASE UNCHANGED vars
  BY <1>1, <1>10 DEF vars, FlowType, WalkType
<1> QED BY <1>2, <1>3, <1>4, <1>5, <1>6, <1>7, <1>8, <1>9, <1>10 DEF Next

LEMMA TypeStep == Inv /\ [Next]_vars => TypeOK'
<1> SUFFICES ASSUME Inv, [Next]_vars PROVE TypeOK'
  OBVIOUS
<1>1. SqlType' /\ WalkType' /\ FlowType'
  BY TypeParts, SqlTypeStep, FlowTypeStep DEF Inv
<1> QED BY <1>1 DEF TypeOK, SqlType, WalkType, FlowType

\* What boxProcessorDeamon is about to append stays out of the server until then.
LEMMA LinkedStep == Inv /\ [Next]_vars => Linked'
<1> SUFFICES ASSUME Inv, [Next]_vars PROVE Linked'
  OBVIOUS
<1> DEFINE Rec == [item : Entries, seen : Seq(Entries), swept : BOOLEAN]
<1>1. /\ linking \in Rec /\ arrived \in Seq(Datagrams)
      /\ linking # NoLink => linking.item \in Datagrams \ (ToSet(arrived) \union spoilt)
  BY DEF Inv, Linked, TypeOK
<1>2. ASSUME UNCHANGED <<linking, arrived, spoilt>> PROVE Linked'
  BY <1>2 DEF Inv, Linked
<1>3. ASSUME NEW d \in Datagrams, Receive(d) PROVE Linked'
  <2>1. linking' = linking /\ d # linking.item
    BY <1>3 DEF Receive, Seen
  <2>2. arrived' = arrived \/ arrived' = Append(arrived, d)
    BY <1>3 DEF Receive, Push
  <2>3. ASSUME arrived' = Append(arrived, d) PROVE ToSet(arrived') = ToSet(arrived) \union {d}
    <3>1. PICK q, r : q = arrived /\ r = arrived'
      OBVIOUS
    <3>2. q \in Seq(Datagrams) /\ r = Append(q, d)
      BY <3>1, <2>3, <1>1
    <3>3. Len(q) \in Nat /\ DOMAIN q = 1 .. Len(q)
      BY <3>2, LenProperties
    <3>4. DOMAIN r = 1 .. Len(q) + 1 /\ r[Len(q) + 1] = d /\ \A i \in 1 .. Len(q) : r[i] = q[i]
      BY <3>2, <3>3
    <3>5. /\ \A i \in DOMAIN r : i \in DOMAIN q \/ i = Len(q) + 1
          /\ Len(q) + 1 \in DOMAIN r
      BY <3>3, <3>4
    <3>6. ToSet(r) = ToSet(q) \union {d}
      BY <3>3, <3>4, <3>5 DEF ToSet
    <3> QED BY <3>1, <3>6
  <2>4. linking # NoLink => linking.item \notin ToSet(arrived') \union spoilt'
    <3>1. spoilt' \subseteq spoilt \union {d}
      BY <1>3 DEF Receive, Push
    <3> QED BY <2>1, <2>2, <2>3, <3>1, <1>1
  <2> QED BY <2>1, <2>4, <1>1 DEF Linked
<1>4. ASSUME NEW d \in Datagrams, BoxPush(d) PROVE Linked'
  <2>1. /\ linking' = [item |-> d, seen |-> queue[1], swept |-> FALSE]
        /\ UNCHANGED <<arrived, spoilt>> /\ d \notin ToSet(arrived) \union spoilt
    BY <1>4 DEF BoxPush, Seen
  <2>2. queue[1] \in Seq(Entries)
    BY DEF Inv, TypeOK, Entries
  <2> QED BY <2>1, <2>2 DEF Linked, Entries
<1>5. CASE BoxLink
  <2>1. linking' = NoLink
    BY <1>5 DEF BoxLink
  <2>2. NoLink \in Rec
    BY EmptySeq DEF NoLink, Entries
  <2> QED BY <2>1, <2>2 DEF Linked
<1>6. ASSUME NEW t \in Threads, RawSweep(t) PROVE Linked'
  <2>1. /\ linking' = [linking EXCEPT !.swept =
                         @ \/ (linking.seen # <<>> /\ Null \in ToSet(queue[1]))]
        /\ UNCHANGED <<arrived, spoilt>>
    BY <1>6 DEF RawSweep
  <2>2. linking' \in Rec /\ linking'.item = linking.item
    BY <2>1, <1>1
  <2>3. linking = NoLink => linking' = NoLink
    <3>1. CASE linking = NoLink
      <4>1. linking.seen = <<>> /\ linking.swept = FALSE
        BY <3>1 DEF NoLink
      <4>2. linking' = [linking EXCEPT !.swept = FALSE]
        BY <4>1, <2>1
      <4> QED BY <4>2, <3>1 DEF NoLink
    <3> QED BY <3>1
  <2> QED BY <2>1, <2>2, <2>3, <1>1 DEF Linked
<1>7. ASSUME NEW t \in Threads, Start(t) \/ SkipNull(t) \/ Finish(t) \/ RawUnlock(t)
      PROVE  Linked'
  BY <1>2, <1>7 DEF Start, SkipNull, Finish, RawUnlock, race
<1>8. ASSUME NEW t \in RawThreads, RawDataItem(t) PROVE Linked'
  BY <1>2, <1>8 DEF RawDataItem, race
<1>9. CASE PacketItem \/ RequestItem \/ SendItem
  BY <1>2, <1>9 DEF PacketItem, RequestItem, SendItem, race
<1>10. ASSUME NEW r \in Rids, WaitDaemon(r) PROVE Linked'
  BY <1>2, <1>10 DEF WaitDaemon, race
<1>11. CASE UNCHANGED vars
  BY <1>2, <1>11 DEF vars
<1> QED BY <1>3, <1>4, <1>5, <1>6, <1>7, <1>8, <1>9, <1>10, <1>11 DEF Next

\* What one more arrival does to the order of arrival.
LEMMA OneMore ==
  ASSUME NEW s \in Seq(Datagrams), NEW x \in Datagrams \ ToSet(s), NEW r, r = Append(s, x),
         \A m, n \in DOMAIN s : s[m] = s[n] => m = n
  PROVE  /\ ToSet(r) = ToSet(s) \union {x}
         /\ \A m, n \in DOMAIN r : r[m] = r[n] => m = n
         /\ \A d, e : Before(s, d, e) => Before(r, d, e)
         /\ \A d \in ToSet(s) : Before(r, d, x)
<1>1. /\ Len(s) \in Nat /\ DOMAIN s = 1 .. Len(s) /\ DOMAIN r = 1 .. Len(s) + 1
      /\ r[Len(s) + 1] = x
      /\ \A i \in DOMAIN s : i \in DOMAIN r /\ i # Len(s) + 1 /\ r[i] = s[i]
  BY GrownList
<1>2. \A i \in DOMAIN r : i \in DOMAIN s \/ i = Len(s) + 1
  BY <1>1
<1>3. Len(s) + 1 \in DOMAIN r /\ \A i \in DOMAIN s : i < Len(s) + 1
  BY <1>1
<1>4. ToSet(r) = ToSet(s) \union {x}
  BY GrownSet
<1>5. ASSUME NEW m \in DOMAIN r, NEW n \in DOMAIN r, r[m] = r[n] PROVE m = n
  <2>1. \A i \in DOMAIN s : s[i] # x
    BY DEF ToSet
  <2> QED BY <2>1, <1>1, <1>2, <1>5
<1>6. ASSUME NEW d, NEW e, Before(s, d, e) PROVE Before(r, d, e)
  BY <1>1, <1>6 DEF Before
<1>7. ASSUME NEW d \in ToSet(s) PROVE Before(r, d, x)
  BY <1>1, <1>3 DEF Before, ToSet
<1> QED BY <1>4, <1>5, <1>6, <1>7

LEMMA LinedArrival ==
  ASSUME NEW X \in Lists, NEW Y \in Lists, NEW x \in Datagrams, NEW seq \in Seq(Datagrams),
         NEW r, r = Append(seq, x), x \notin ToSet(seq),
         \A m, n \in DOMAIN seq : seq[m] = seq[n] => m = n,
         Y[1] = Append(X[1], x), \A l \in 1 .. 5 : l # 1 => Y[l] = X[l],
         NEW lost, x \notin lost, LinedUp(X, seq, lost)
  PROVE  LinedUp(Y, r, lost)
<1>1. /\ ToSet(r) = ToSet(seq) \union {x}
      /\ \A d, e : Before(seq, d, e) => Before(r, d, e)
      /\ \A d \in ToSet(seq) : Before(r, d, x)
  BY OneMore
<1>2. /\ \A d \in Datagrams : Holds(Y, d) <=> Holds(X, d) \/ d = x
      /\ \A d, e \in Datagrams : Ahead(Y, d, e) => Ahead(X, d, e) \/ (Holds(X, d) /\ e = x)
  BY Arriving
<1>3. ToSet(seq) \subseteq Datagrams
  BY LenProperties DEF ToSet
<1> QED BY <1>1, <1>2, <1>3 DEF LinedUp

\* Steps that append to rawdata_in, or remove null or lost entries from a list.
LEMMA PushLined ==
  ASSUME Inv, NEW d \in Datagrams \ (ToSet(arrived) \union spoilt), Push(d), sent' = sent,
         TypeOK'
  PROVE  Lined' /\ ArrivedOnce'
<1>1. /\ Line \in Lists /\ LinedUp(Line, arrived, spoilt) /\ arrived \in Seq(Datagrams)
      /\ \A l \in 1 .. 4 : Line[l] = queue[l]
      /\ Line[5] = sent
      /\ \A m, n \in DOMAIN arrived : arrived[m] = arrived[n] => m = n
  BY LineType DEF Inv, Lined, Line, TypeOK, ArrivedOnce
<1>2. /\ Line' \in Lists
      /\ \A l \in 1 .. 4 : Line'[l] = queue'[l]
      /\ Line'[5] = sent'
  BY LineType DEF Line, TypeOK
<1>3. PICK X, Y, r : X = Line /\ Y = Line' /\ r = arrived'
  OBVIOUS
<1>4. CASE ~broken
  <2>1. /\ queue' = [queue EXCEPT ![1] = Append(@, d)]
        /\ arrived' = Append(arrived, d) /\ spoilt' = spoilt
    BY <1>4 DEF Push
  <2>2. queue'[1] = Append(queue[1], d) /\ \A l \in 1 .. 4 : l # 1 => queue'[l] = queue[l]
    BY <2>1 DEF Inv, TypeOK
  <2>3. Y[1] = Append(X[1], d) /\ \A l \in 1 .. 5 : l # 1 => Y[l] = X[l]
    <3>1. \A l \in 1 .. 5 : l # 1 => l = 5 \/ l \in 1 .. 4
      OBVIOUS
    <3>2. Y[1] = Append(X[1], d) /\ Y[5] = X[5]
      <4>1. 1 \in 1 .. 4
        OBVIOUS
      <4>2. Line'[1] = queue'[1] /\ Line[1] = queue[1]
        BY <4>1, <1>1, <1>2
      <4> QED BY <4>2, <2>2, <1>1, <1>2, <1>3
    <3>3. \A l \in 1 .. 4 : l # 1 => Y[l] = X[l]
      BY <2>2, <1>1, <1>2, <1>3
    <3> QED BY <3>1, <3>2, <3>3
  <2>4. LinedUp(Y, r, spoilt)
    BY <2>1, <2>3, <1>1, <1>2, <1>3, LinedArrival
  <2>5. \A m, n \in DOMAIN r : r[m] = r[n] => m = n
    BY <2>1, <1>1, <1>3, OneMore
  <2> QED BY <2>1, <2>4, <2>5, <1>3 DEF Lined, ArrivedOnce
<1>5. CASE broken
  <2>1. UNCHANGED <<queue, arrived, sent>> /\ spoilt' = spoilt \union {d}
    BY <1>5 DEF Push
  <2>2. Line' = Line
    BY <2>1 DEF Line
  <2>3. LinedUp(Line, arrived, spoilt \union {d})
    BY <1>1 DEF LinedUp
  <2> QED BY <2>1, <2>2, <2>3 DEF Lined, ArrivedOnce, Inv
<1> QED BY <1>4, <1>5

LEMMA SweptLined ==
  ASSUME Inv, TypeOK', NEW k \in 1 .. 4, queue' = Swept(k), UNCHANGED <<sent, arrived, spoilt>>
  PROVE  Lined'
<1>1. /\ Line \in Lists /\ LinedUp(Line, arrived, spoilt) /\ arrived \in Seq(Datagrams)
      /\ \A l \in 1 .. 4 : Line[l] = queue[l]
      /\ Line[5] = sent
  BY LineType DEF Inv, Lined, Line, TypeOK
<1>2. /\ Line' \in Lists
      /\ \A l \in 1 .. 4 : Line'[l] = queue'[l]
      /\ Line'[5] = sent'
  BY LineType DEF Line, TypeOK
<1>3. PICK X, Y : X = Line /\ Y = Line'
  OBVIOUS
<1>4. queue'[k] = Without(queue[k], {Null}) /\ \A l \in 1 .. 4 : l # k => queue'[l] = queue[l]
  BY DEF Swept, NonNull, Inv, TypeOK
<1>5. k \in 1 .. 5 /\ Y[k] = Without(X[k], {Null}) /\ \A l \in 1 .. 5 : l # k => Y[l] = X[l]
  <2>1. \A l \in 1 .. 5 : l # k => l = 5 \/ l \in 1 .. 4
    OBVIOUS
  <2> QED BY <2>1, <1>1, <1>2, <1>3, <1>4
<1>6. /\ \A d \in Datagrams : Holds(Y, d) => Holds(X, d)
      /\ \A d \in Datagrams : Holds(X, d) /\ d \notin {Null} => Holds(Y, d)
      /\ \A d, e \in Datagrams : Ahead(Y, d, e) => Ahead(X, d, e)
  BY <1>1, <1>2, <1>3, <1>5, Removing
<1>7. LinedUp(Y, arrived, spoilt)
  BY <1>6, <1>1, <1>3, LinedSubset, PipelineAssumption
<1> QED BY <1>7, <1>3 DEF Lined

LEMMA LinkLined ==
  ASSUME Inv, TypeOK', BoxLink
  PROVE  Lined' /\ ArrivedOnce'
<1> DEFINE d == linking.item
<1>1. d \in Datagrams \ (ToSet(arrived) \union spoilt) /\ sent' = sent
  BY DEF BoxLink, Inv, Linked
<1>2. /\ Line \in Lists /\ LinedUp(Line, arrived, spoilt) /\ arrived \in Seq(Datagrams)
      /\ \A l \in 1 .. 4 : Line[l] = queue[l]
      /\ Line[5] = sent
      /\ \A m, n \in DOMAIN arrived : arrived[m] = arrived[n] => m = n
  BY LineType DEF Inv, Lined, Line, TypeOK, ArrivedOnce
<1>3. /\ Line' \in Lists
      /\ \A l \in 1 .. 4 : Line'[l] = queue'[l]
      /\ Line'[5] = sent'
  BY LineType DEF Line, TypeOK
<1> HIDE DEF d
<1>4. CASE Push(d)
  BY <1>4, <1>1, PushLined
<1>5. CASE /\ queue' = [queue EXCEPT ![1] = Append(Without(queue[1], NewSince), d)]
           /\ arrived' = Append(arrived, d) /\ spoilt' = spoilt \union NewSince
  <2> DEFINE Z == LineOf([queue EXCEPT ![1] = Without(queue[1], NewSince)], sent)
  <2>1. /\ Z \in Lists /\ Z[1] = Without(queue[1], NewSince)
        /\ \A l \in 1 .. 4 : l # 1 => Z[l] = queue[l]
        /\ Z[5] = sent
    <3>1. PICK q, w : q = queue[1] /\ w = Without(queue[1], NewSince)
      OBVIOUS
    <3>2. q \in Seq(Datagrams \union {Null})
      BY <3>1 DEF Inv, TypeOK
    <3>3. w \in Seq(Datagrams \union {Null})
      BY <3>1, <3>2, WithoutKeeps
    <3>4. PICK Q : Q = [queue EXCEPT ![1] = w]
      OBVIOUS
    <3>5. /\ Q \in [1 .. 4 -> Seq(Datagrams \union {Null})]
          /\ Q[1] = w /\ \A l \in 1 .. 4 : l # 1 => Q[l] = queue[l]
      <4>1. queue \in [1 .. 4 -> Seq(Datagrams \union {Null})]
        BY DEF Inv, TypeOK
      <4> QED BY <4>1, <3>3, <3>4
    <3>6. Z = LineOf(Q, sent) /\ sent \in Seq(Datagrams)
      BY <3>1, <3>4 DEF Inv, TypeOK
    <3> HIDE DEF Z
    <3>7. /\ Z \in Lists /\ Z[5] = sent
          /\ \A l \in 1 .. 4 : Z[l] = Q[l]
      BY <3>5, <3>6, LineType
    <3> QED BY <3>1, <3>5, <3>7
  <2>2. PICK X, Y, z, r, g :
           X = Line /\ Y = Line' /\ z = Z /\ r = arrived' /\ g = NewSince
    OBVIOUS
  <2> HIDE DEF Z
  <2>3. \A l \in 1 .. 5 : l # 1 => l = 5 \/ l \in 1 .. 4
    OBVIOUS
  <2>4. z[1] = Without(X[1], g) /\ \A l \in 1 .. 5 : l # 1 => z[l] = X[l]
    BY <2>1, <2>2, <2>3, <1>2
  <2>5. /\ \A e \in Datagrams : Holds(z, e) => Holds(X, e)
        /\ \A e \in Datagrams : Holds(X, e) /\ e \notin g => Holds(z, e)
        /\ \A c, e \in Datagrams : Ahead(z, c, e) => Ahead(X, c, e)
    <3>1. X \in Lists /\ z \in Lists /\ 1 \in 1 .. 5
      BY <2>1, <2>2, <1>2
    <3> QED BY ONLY <3>1, <2>4, Removing
  <2>6. ASSUME NEW e \in Datagrams, e \in g, Holds(z, e) PROVE FALSE
    <3>0. PICK l \in 1 .. 5 : \E j \in DOMAIN z[l] : z[l][j] = e
      BY <2>6 DEF Holds
    <3>1. PICK j \in DOMAIN z[l] : z[l][j] = e
      BY <3>0
    <3>2. CASE l = 1
      <4> PICK q, w : q = X[1] /\ w = z[1]
        OBVIOUS
      <4>1. q \in Seq(Entries) /\ w = Without(q, g) /\ j \in DOMAIN w /\ w[j] = e
        BY <3>1, <3>2, <2>2, <2>4, <1>2, ListsType
      <4>2. \E f : StoodAt(f, w, q, g)
        BY ONLY <4>1, WithoutKeeps
      <4>3. e \notin g
        BY <4>1, <4>2 DEF StoodAt
      <4> QED BY <4>3, <2>6
    <3>3. CASE l # 1
      <4>1. j \in DOMAIN X[l] /\ X[l][j] = e
        BY <3>1, <3>3, <2>4
      <4>2. PICK i \in DOMAIN X[1] : X[1][i] = e
        BY <2>6, <2>2, <1>2 DEF NewSince, ToSet
      <4>3. Ahead(X, e, e)
        <5>1. 1 \in 1 .. 5 /\ l > 1
          BY <3>3
        <5> QED BY <4>1, <4>2, <5>1 DEF Ahead
      <4>4. Before(arrived, e, e)
        BY <4>3, <2>2, <1>2 DEF LinedUp
      <4>5. \A m \in DOMAIN arrived : m \in Nat
        BY <1>2, LenProperties
      <4> QED BY <4>4, <4>5, <1>2 DEF Before
    <3> QED BY <3>2, <3>3
  <2>7. LinedUp(z, arrived, spoilt \union g)
    <3>1. g \subseteq Datagrams
      <4>1. \A i \in DOMAIN queue[1] : queue[1][i] \in Entries
        BY <1>2, ListsType
      <4> QED BY <4>1, <2>2 DEF NewSince, ToSet, Entries
    <3>2. \A e \in (spoilt \union g) \ spoilt : ~Holds(z, e)
      BY <3>1, <2>6
    <3>3. LinedUp(X, arrived, spoilt) /\ arrived \in Seq(Datagrams)
      BY <2>2, <1>2
    <3>4. \A e \in Datagrams : Holds(X, e) /\ Class[e] \in {"public", "private"} /\ e \notin spoilt \union g
            => Holds(z, e)
      BY <2>5
    <3> QED BY <3>2, <3>3, <3>4, <2>5, LinedSubset
  <2>8. queue'[1] = Append(Without(queue[1], NewSince), d)
        /\ \A l \in 1 .. 4 : l # 1 => queue'[l] = queue[l]
    BY <1>5 DEF Inv, TypeOK
  <2>9. Y[1] = Append(z[1], d) /\ \A l \in 1 .. 5 : l # 1 => Y[l] = z[l]
    BY <2>1, <2>2, <2>3, <2>8, <1>1, <1>3
  <2>10. d \notin spoilt \union g
    <3>1. \A i \in DOMAIN queue[1] : queue[1][i] \in Datagrams => Holds(Line, queue[1][i])
      <4>1. 1 \in 1 .. 5 /\ Line[1] = queue[1]
        BY <1>2
      <4> QED BY <4>1 DEF Holds
    <3>2. d \notin ToSet(queue[1])
      BY <3>1, <1>1, <1>2 DEF LinedUp, ToSet
    <3> QED BY <3>2, <2>2, <1>1 DEF NewSince
  <2>11. LinedUp(Y, r, spoilt \union g)
    BY <2>10, <2>1, <2>2, <2>7, <2>9, <1>1, <1>2, <1>3, <1>5, LinedArrival
  <2>12. \A m, n \in DOMAIN r : r[m] = r[n] => m = n
    BY <2>2, <1>1, <1>2, <1>5, OneMore
  <2> QED BY <2>2, <2>11, <2>12, <1>5 DEF Lined, ArrivedOnce
<1>6. CASE spoilt' = spoilt \union {d} /\ UNCHANGED <<queue, arrived>>
  <2>1. Line' = Line
    BY <1>1, <1>6 DEF Line
  <2>2. LinedUp(Line, arrived, spoilt \union {d})
    BY <1>1, <1>2 DEF LinedUp
  <2> QED BY <1>6, <2>1, <2>2 DEF Lined, ArrivedOnce, Inv
<1> QED BY <1>4, <1>5, <1>6 DEF BoxLink, d

LEMMA LinedStep == Inv /\ [Next]_vars => Lined' /\ ArrivedOnce'
<1> SUFFICES ASSUME Inv, [Next]_vars PROVE Lined' /\ ArrivedOnce'
  OBVIOUS
<1>1. TypeOK'
  BY TypeStep
<1>2. arrived' = arrived => ArrivedOnce'
  BY DEF Inv, ArrivedOnce
<1>3. ASSUME UNCHANGED <<queue, sent, arrived, spoilt>> PROVE Lined' /\ ArrivedOnce'
  BY <1>2, <1>3 DEF Inv, Lined, Line
<1>4. ASSUME NEW d \in Datagrams, Receive(d) PROVE Lined' /\ ArrivedOnce'
  <2>1. d \notin ToSet(arrived) \union spoilt /\ Push(d) /\ sent' = sent
    BY <1>4 DEF Receive, Seen
  <2> QED BY <2>1, <1>1, PushLined
<1>5. ASSUME NEW d \in Datagrams, BoxPush(d) PROVE Lined' /\ ArrivedOnce'
  BY <1>3, <1>5 DEF BoxPush, lists
<1>6. CASE BoxLink
  BY <1>1, <1>6, LinkLined
<1>7. ASSUME NEW t \in Threads, Start(t) \/ SkipNull(t) \/ RawUnlock(t)
      PROVE  Lined' /\ ArrivedOnce'
  BY <1>3, <1>7 DEF Start, SkipNull, RawUnlock, race
<1>8. ASSUME NEW t \in Threads, Finish(t) \/ RawSweep(t) PROVE Lined' /\ ArrivedOnce'
  <2>1. PICK k \in 1 .. 4 : queue' = Swept(k)
    BY <1>8, StageType DEF Finish, RawSweep
  <2>2. UNCHANGED <<sent, arrived, spoilt>>
    BY <1>8 DEF Finish, RawSweep, race
  <2> QED BY <2>1, <2>2, <1>1, <1>2, SweptLined
<1>9. ASSUME NEW t \in Threads, Served(t) PROVE Lined' /\ ArrivedOnce'
  BY <1>1, <1>2, <1>9, ServedLined DEF Served
<1>10. ASSUME NEW t \in RawThreads, RawDataItem(t) PROVE Lined' /\ ArrivedOnce'
  BY <1>9, <1>10, ItemServed
<1>11. CASE PacketItem \/ RequestItem \/ SendItem
  BY <1>9, <1>11, ItemServed DEF Threads
<1>12. ASSUME NEW r \in Rids, WaitDaemon(r) PROVE Lined' /\ ArrivedOnce'
  BY <1>3, <1>12 DEF WaitDaemon, lists, race
<1>13. CASE UNCHANGED vars
  BY <1>3, <1>13 DEF vars
<1> QED BY <1>4, <1>5, <1>6, <1>7, <1>8, <1>10, <1>11, <1>12, <1>13 DEF Next

-----------------------------------------------------------------------------
(* The walks.                                                              *)

\* Two walks are on different lists, and none is on a list that is free.
LEMMA OneWalkPerList ==
  ASSUME Inv, NEW u \in Threads, pc[u] = "walk"
  PROVE  /\ owner[Stage(u)] = u /\ Stage(u) \in 1 .. 4
         /\ \A t \in Threads : pc[t] = "walk" /\ t # u => Stage(t) # Stage(u)
         /\ ~Free(Stage(u))
<1>1. \A t \in Threads : pc[t] = "walk" => owner[Stage(t)] = t
  BY DEF Inv, Placed
<1>2. \A t \in Threads : t # Nobody
  BY PipelineAssumption DEF Threads
<1> QED BY <1>1, <1>2, StageType DEF Free

\* What a step does to a walk that goes on: nothing, or its list grows at the end;
\* or it is the walk's own step past the entry it stands on; or it is the unlocked
\* push_back that cuts nodes off.
Undisturbed(u) ==
  /\ pos'[u] = pos[u]
  /\ \/ queue'[Stage(u)] = queue[Stage(u)]
     \/ \E d \in Entries : queue'[Stage(u)] = Append(queue[Stage(u)], d)
StepOn(u) ==
  /\ pos[u] \in 1 .. Len(queue[Stage(u)])
  /\ pos'[u] = pos[u] + 1
  /\ queue'[Stage(u)] = [queue[Stage(u)] EXCEPT ![pos[u]] = Null]
CutOff(u) ==
  /\ linking.item # linking'.item
  /\ pos'[u] = pos[u]
  /\ \E d \in Entries :
        queue'[Stage(u)] = Append(Without(queue[Stage(u)], NewSince), d)

Goes(u) == owner'[Stage(u)] = u /\ (Undisturbed(u) \/ StepOn(u) \/ CutOff(u))

\* The steps that can touch the list of a walk, one by one.
LEMMA PushWalk ==
  ASSUME Inv, NEW u \in Threads, pc[u] = "walk", NEW d \in Datagrams, Push(d), UNCHANGED walks
  PROVE  Goes(u)
<1>1. owner[Stage(u)] = u /\ Stage(u) \in 1 .. 4 /\ DOMAIN queue = 1 .. 4 /\ d \in Entries
  BY OneWalkPerList DEF Inv, TypeOK, Entries
<1>2. queue' = queue \/ queue' = [queue EXCEPT ![1] = Append(@, d)]
  BY DEF Push
<1>3. queue'[Stage(u)] = queue[Stage(u)] \/ queue'[Stage(u)] = Append(queue[Stage(u)], d)
  BY <1>1, <1>2
<1> QED BY <1>1, <1>3 DEF Goes, Undisturbed, walks

LEMMA LinkWalk ==
  ASSUME Inv, NEW u \in Threads, pc[u] = "walk", BoxLink
  PROVE  Goes(u)
<1> DEFINE d == linking.item
<1>1. /\ d \in Datagrams /\ d \in Entries /\ d # Null
      /\ linking' = NoLink /\ UNCHANGED <<owner, pc, pos, prm>>
  BY PipelineAssumption DEF BoxLink, walks, Inv, Linked, Entries
<1>2. linking.item # linking'.item
  BY <1>1 DEF NoLink
<1>3. owner[Stage(u)] = u /\ Stage(u) \in 1 .. 4 /\ DOMAIN queue = 1 .. 4
  BY OneWalkPerList DEF Inv, TypeOK
<1>4. \/ Push(d)
      \/ queue' = [queue EXCEPT ![1] = Append(Without(queue[1], NewSince), d)]
      \/ queue' = queue
  BY DEF BoxLink
<1> HIDE DEF d
<1>5. CASE Push(d)
  BY <1>1, <1>5, PushWalk DEF walks
<1>6. CASE queue' = queue
  BY <1>1, <1>3, <1>6 DEF Goes, Undisturbed
<1>7. CASE queue' = [queue EXCEPT ![1] = Append(Without(queue[1], NewSince), d)]
  <2>1. CASE Stage(u) = 1
    <3>1. queue'[Stage(u)] = Append(Without(queue[Stage(u)], NewSince), d)
      BY <1>3, <1>7, <2>1
    <3> QED BY <3>1, <1>1, <1>2, <1>3 DEF Goes, CutOff
  <2>2. CASE Stage(u) # 1
    BY <1>1, <1>3, <1>7, <2>2 DEF Goes, Undisturbed
  <2> QED BY <2>1, <2>2
<1> QED BY <1>4, <1>5, <1>6, <1>7

LEMMA ServedWalk ==
  ASSUME Inv, NEW t \in Threads, Served(t), NEW u \in Threads, pc[u] = "walk"
  PROVE  Goes(u)
<1> DEFINE k == Stage(t)  p == pos[t]  d == Current(t)  Q == [queue EXCEPT ![k][p] = Null]
<1>1. k \in 1 .. 4 /\ p \in 1 .. Len(queue[k]) /\ d \in Entries /\ pc[t] = "walk"
  BY ItemPlace DEF Served, Entries
<1>2. /\ owner' = owner /\ pos' = [pos EXCEPT ![t] = @ + 1]
      /\ DOMAIN pos = Threads /\ DOMAIN queue = 1 .. 4
  BY DEF Served, Advance, Inv, TypeOK
<1>3. /\ owner[Stage(u)] = u /\ Stage(u) \in 1 .. 4
      /\ t # u => Stage(t) # Stage(u)
  BY <1>1, OneWalkPerList
<1>4. \/ queue' = Q
      \/ k + 1 \in 1 .. 4 /\ queue' = [Q EXCEPT ![k + 1] = Append(Q[k + 1], d)]
  BY StageType DEF Served, Drop, PassOn, Nulled
<1>5. /\ DOMAIN Q = 1 .. 4 /\ Q[k] = [queue[k] EXCEPT ![p] = Null]
      /\ \A l \in 1 .. 4 : l # k => Q[l] = queue[l]
  BY <1>1, <1>2
<1> HIDE DEF Q, d
<1>6. /\ queue'[k] = [queue[k] EXCEPT ![p] = Null]
      /\ \A l \in 1 .. 4 : l # k => queue'[l] = queue[l] \/ queue'[l] = Append(queue[l], d)
  <2>1. k # k + 1
    BY <1>1
  <2> HIDE DEF k, p
  <2> QED BY <2>1, <1>1, <1>4, <1>5
<1>7. CASE u = t
  BY <1>1, <1>2, <1>3, <1>6, <1>7 DEF Goes, StepOn
<1>8. CASE u # t
  <2>1. pos'[u] = pos[u] /\ owner'[Stage(u)] = u
    BY <1>2, <1>3, <1>8
  <2>2. queue'[Stage(u)] = queue[Stage(u)] \/ queue'[Stage(u)] = Append(queue[Stage(u)], d)
    BY <1>3, <1>6, <1>8
  <2> QED BY <2>1, <2>2, <1>1 DEF Goes, Undisturbed
<1> QED BY <1>7, <1>8

LEMMA WalkStep ==
  ASSUME Inv, [Next]_vars, NEW u \in Threads, pc[u] = "walk", pc'[u] = "walk"
  PROVE  Goes(u)
<1>1. /\ owner[Stage(u)] = u /\ Stage(u) \in 1 .. 4 /\ ~Free(Stage(u))
      /\ \A t \in Threads : pc[t] = "walk" /\ t # u => Stage(t) # Stage(u)
  BY OneWalkPerList
<1>2. /\ queue \in [1 .. 4 -> Seq(Datagrams \union {Null})] /\ DOMAIN queue = 1 .. 4
      /\ DOMAIN pos = Threads /\ DOMAIN pc = Threads /\ DOMAIN owner = 1 .. 4
      /\ pos \in [Threads -> Nat \ {0}]
  BY DEF Inv, TypeOK
<1>3. ASSUME queue'[Stage(u)] = queue[Stage(u)], owner'[Stage(u)] = owner[Stage(u)],
             pos'[u] = pos[u]
      PROVE  Goes(u)
  BY <1>1, <1>3 DEF Goes, Undisturbed
<1>4. ASSUME NEW d \in Datagrams, Receive(d) PROVE Goes(u)
  BY <1>4, PushWalk DEF Receive
<1>5. ASSUME NEW d \in Datagrams, BoxPush(d) PROVE Goes(u)
  BY <1>3, <1>5 DEF BoxPush, lists, walks
<1>6. CASE BoxLink
  BY <1>6, LinkWalk
<1>7. ASSUME NEW t \in Threads, Start(t) PROVE Goes(u)
  <2>1. t # u /\ Stage(t) # Stage(u)
    BY <1>1, <1>7 DEF Start
  <2> QED BY <2>1, <1>1, <1>2, <1>3, <1>7, StageType DEF Start
<1>8. ASSUME NEW t \in Threads, SkipNull(t) PROVE Goes(u)
  <2>1. CASE t = u
    <3> DEFINE q == queue[Stage(u)]
    <3>1. /\ pos[u] <= Len(q) /\ q[pos[u]] = Null
          /\ pos'[u] = pos[u] + 1 /\ queue' = queue /\ owner' = owner
      BY <1>2, <1>8, <2>1 DEF SkipNull, Walking, Current
    <3>2. q \in Seq(Datagrams \union {Null}) /\ pos[u] \in Nat \ {0}
      BY <1>1, <1>2
    <3> HIDE DEF q
    <3>3. pos[u] \in 1 .. Len(q) /\ DOMAIN q = 1 .. Len(q) /\ q \in [1 .. Len(q) -> Datagrams \union {Null}]
      BY <3>1, <3>2, LenProperties
    <3>4. q = [q EXCEPT ![pos[u]] = Null]
      BY <3>1, <3>3
    <3> QED BY <3>1, <3>3, <3>4, <1>1 DEF Goes, StepOn, q
  <2>2. CASE t # u
    BY <2>2, <1>2, <1>3, <1>8 DEF SkipNull
  <2> QED BY <2>1, <2>2
<1>9. ASSUME NEW t \in Threads, Finish(t) \/ RawUnlock(t) PROVE Goes(u)
  <2>1. pc[t] = "walk" /\ pc'[t] # "walk"
    BY <1>2, <1>9 DEF Finish, RawUnlock, WalkOver
  <2>2. t # u /\ Stage(t) # Stage(u)
    BY <2>1, <1>1
  <2> QED BY <2>2, <1>1, <1>2, <1>3, <1>9, StageType DEF Finish, RawUnlock, Unlock, Swept
<1>10. ASSUME NEW t \in Threads, RawSweep(t) PROVE Goes(u)
  <2>1. Stage(u) # 1
    BY <1>1, <1>10 DEF RawSweep
  <2> QED BY <2>1, <1>1, <1>2, <1>3, <1>10 DEF RawSweep, Swept
<1>11. ASSUME NEW t \in RawThreads, RawDataItem(t) PROVE Goes(u)
  BY <1>11, ItemServed, ServedWalk
<1>12. CASE PacketItem \/ RequestItem \/ SendItem
  BY <1>12, ItemServed, ServedWalk DEF Threads
<1>13. ASSUME NEW r \in Rids, WaitDaemon(r) PROVE Goes(u)
  BY <1>3, <1>13 DEF WaitDaemon, lists, walks
<1>14. CASE UNCHANGED vars
  BY <1>3, <1>14 DEF vars
<1> QED BY <1>4, <1>5, <1>6, <1>7, <1>8, <1>9, <1>10, <1>11, <1>12, <1>13, <1>14 DEF Next

\* A walk that begins does so at the first entry, holding the mutex.
LEMMA WalkBegins ==
  ASSUME Inv, [Next]_vars, NEW u \in Threads, pc[u] # "walk", pc'[u] = "walk"
  PROVE  owner'[Stage(u)] = u /\ pos'[u] = 1
<1>1. DOMAIN pc = Threads /\ DOMAIN pos = Threads /\ DOMAIN owner = 1 .. 4
  BY DEF Inv, TypeOK
<1>2. \E t \in Threads : Start(t)
  <2>1. ASSUME NEW t \in Threads, SkipNull(t) \/ Finish(t) \/ RawUnlock(t) \/ RawSweep(t)
        PROVE  FALSE
    BY <1>1, <2>1 DEF SkipNull, Finish, RawUnlock, RawSweep
  <2>2. ASSUME NEW t \in Threads, Served(t) PROVE FALSE
    BY <2>2 DEF Served, Advance
  <2>3. ASSUME NEW t \in RawThreads, RawDataItem(t) PROVE FALSE
    BY <2>2, <2>3, ItemServed
  <2>4. ~(PacketItem \/ RequestItem \/ SendItem)
    BY <2>2, ItemServed DEF Threads
  <2>5. ASSUME NEW d \in Datagrams, Receive(d) \/ BoxPush(d) PROVE FALSE
    BY <2>5 DEF Receive, BoxPush, lists, walks
  <2>6. ~BoxLink
    BY DEF BoxLink, walks
  <2>7. ASSUME NEW r \in Rids, WaitDaemon(r) PROVE FALSE
    BY <2>7 DEF WaitDaemon, lists, walks
  <2>8. ~UNCHANGED vars
    BY DEF vars
  <2> QED BY <2>1, <2>3, <2>4, <2>5, <2>6, <2>7, <2>8 DEF Next
<1>3. PICK t \in Threads : Start(t)
  BY <1>2
<1>4. t = u
  BY <1>1, <1>3 DEF Start
<1> QED BY <1>1, <1>3, <1>4, StageType DEF Start

LEMMA PlacedStep == Inv /\ [Next]_vars => Placed'
<1> SUFFICES ASSUME Inv, [Next]_vars, NEW u \in Threads, pc'[u] = "walk"
             PROVE  /\ owner'[Stage(u)] = u
                    /\ pos'[u] <= Len(queue'[Stage(u)]) + 1
                    /\ \A i \in 1 .. pos'[u] - 1 : queue'[Stage(u)][i] = Null
  BY DEF Placed
<1>1. PICK q, r : q = queue[Stage(u)] /\ r = queue'[Stage(u)]
  OBVIOUS
<1>2. q \in Seq(Entries) /\ r \in Seq(Entries) /\ pos[u] \in Nat \ {0}
  BY <1>1, TypeStep, StageType DEF Inv, TypeOK, Entries
<1>3. /\ Len(q) \in Nat /\ DOMAIN q = 1 .. Len(q)
      /\ Len(r) \in Nat /\ DOMAIN r = 1 .. Len(r)
  BY <1>2, LenProperties
<1>4. CASE pc[u] = "walk"
  <2>1. pos[u] <= Len(q) + 1 /\ \A i \in 1 .. pos[u] - 1 : q[i] = Null
    BY <1>1, <1>4 DEF Inv, Placed
  <2>2. owner'[Stage(u)] = u /\ (Undisturbed(u) \/ StepOn(u) \/ CutOff(u))
    BY <1>4, WalkStep DEF Goes
  <2>3. CASE Undisturbed(u)
    <3>1. pos'[u] = pos[u] /\ (r = q \/ \E d \in Entries : r = Append(q, d))
      BY <1>1, <2>3 DEF Undisturbed
    <3>2. ASSUME NEW d \in Entries, r = Append(q, d)
          PROVE  Len(r) = Len(q) + 1 /\ \A i \in DOMAIN q : r[i] = q[i]
      BY <3>2, <1>2, GrownList
    <3>3. Len(r) >= Len(q) /\ \A i \in DOMAIN q : r[i] = q[i]
      <4>1. CASE r = q
        BY <4>1, <1>3
      <4>2. CASE \E d \in Entries : r = Append(q, d)
        BY <4>2, <3>2, <1>3
      <4> QED BY <3>1, <4>1, <4>2
    <3>4. pos[u] <= Len(r) + 1 /\ \A i \in 1 .. pos[u] - 1 : r[i] = Null
      BY <3>3, <2>1, <1>2, <1>3
    <3> QED BY <3>1, <3>4, <2>2, <1>1
  <2>4. CASE StepOn(u)
    <3>1. pos[u] \in 1 .. Len(q) /\ pos'[u] = pos[u] + 1 /\ r = [q EXCEPT ![pos[u]] = Null]
      BY <1>1, <2>4 DEF StepOn
    <3>2. Len(r) = Len(q)
      BY <3>1, <1>2, ExceptSeq DEF Entries
    <3>3. \A i \in 1 .. pos[u] : r[i] = Null
      <4>1. ASSUME NEW i \in 1 .. pos[u] PROVE r[i] = Null
        <5>1. i \in DOMAIN q
          BY <3>1, <1>2, <1>3
        <5>2. CASE i = pos[u]
          BY <3>1, <5>1, <5>2
        <5>3. CASE i # pos[u]
          BY <3>1, <5>1, <5>3, <2>1, <1>2
        <5> QED BY <5>2, <5>3
      <4> QED BY <4>1
    <3>4. pos'[u] <= Len(r) + 1 /\ \A i \in 1 .. pos'[u] - 1 : r[i] = Null
      BY <3>1, <3>2, <3>3, <1>2, <1>3
    <3> QED BY <3>4, <2>2, <1>1
  <2>5. CASE CutOff(u)
    <3>1. pos'[u] = pos[u]
      BY <2>5 DEF CutOff
    <3>2. PICK d, g, w :
             d \in Entries /\ g = NewSince /\ w = Without(q, g) /\ r = Append(w, d)
      BY <1>1, <2>5 DEF CutOff
    <3>3. Null \notin g
      BY <3>2 DEF NewSince
    <3>4. /\ w \in Seq(Entries)
          /\ \A p \in 1 .. Len(q) : (\A i \in 1 .. p : q[i] \notin g)
                => p <= Len(w) /\ \A i \in 1 .. p : w[i] = q[i]
      BY <3>2, <1>2, WithoutKeeps
    <3>5. /\ Len(w) \in Nat /\ DOMAIN w = 1 .. Len(w) /\ Len(r) = Len(w) + 1
          /\ \A i \in DOMAIN w : r[i] = w[i]
      BY <3>2, <3>4, GrownList
    <3>6. pos[u] - 1 <= Len(w) /\ \A i \in 1 .. pos[u] - 1 : w[i] = Null
      <4>1. CASE pos[u] = 1
        BY <4>1, <3>5
      <4>2. CASE pos[u] # 1
        <5> DEFINE p == pos[u] - 1
        <5>1. p \in 1 .. Len(q) /\ \A i \in 1 .. p : q[i] = Null
          BY <4>2, <2>1, <1>2, <1>3
        <5> HIDE DEF p
        <5>2. p <= Len(w) /\ \A i \in 1 .. p : w[i] = q[i]
          BY <5>1, <3>3, <3>4
        <5> QED BY <5>1, <5>2 DEF p
      <4> QED BY <4>1, <4>2
    <3>7. pos[u] <= Len(r) + 1 /\ \A i \in 1 .. pos[u] - 1 : r[i] = Null
      BY <3>5, <3>6, <1>2
    <3> QED BY <3>1, <3>7, <2>2, <1>1
  <2> QED BY <2>2, <2>3, <2>4, <2>5
<1>5. CASE pc[u] # "walk"
  <2>1. owner'[Stage(u)] = u /\ pos'[u] = 1
    BY <1>5, WalkBegins
  <2> QED BY <2>1, <1>1, <1>3
<1> QED BY <1>4, <1>5

-----------------------------------------------------------------------------
(* All datagrams in one sequence: what InOrder takes from the lines.       *)

\* s holds what lines lo to hi hold, in the order of arrival.
Drawn(s, X, seq, lo, hi) ==
  /\ s \in Seq(Datagrams)
  /\ \A d \in Datagrams :
       (\E i \in DOMAIN s : s[i] = d)
         <=> \E k \in lo .. hi : \E i \in DOMAIN X[k] : X[k][i] = d
  /\ \A i, j \in DOMAIN s : i < j => Before(seq, s[i], s[j])

LEMMA DrawNonNull ==
  ASSUME NEW X \in Lists, NEW seq, NEW lost, LinedUp(X, seq, lost), NEW k \in 1 .. 5,
         NEW w, w = NonNull(X[k])
  PROVE  Drawn(w, X, seq, k, k)
<1> PICK q, none : q = X[k] /\ none = {Null}
  OBVIOUS
<1>1. q \in Seq(Entries) /\ DOMAIN q \subseteq Nat /\ w = Without(q, none)
  BY ListsType DEF NonNull
<1>2. /\ w \in Seq(Entries) /\ Len(w) \in Nat /\ DOMAIN w = 1 .. Len(w)
      /\ \E f : StoodAt(f, w, q, none)
  BY ONLY <1>1, WithoutKeeps
<1>3. PICK f : /\ f \in [1 .. Len(w) -> DOMAIN q]
               /\ \A n \in 1 .. Len(w) : w[n] = q[f[n]] /\ q[f[n]] \notin none
               /\ \A m, n \in 1 .. Len(w) : m < n => f[m] < f[n]
               /\ \A i \in DOMAIN q : q[i] \notin none => \E n \in 1 .. Len(w) : f[n] = i
  BY <1>2 DEF StoodAt
<1>4. ASSUME NEW n \in 1 .. Len(w)
      PROVE  w[n] \in Datagrams /\ f[n] \in DOMAIN q /\ q[f[n]] = w[n]
  <2>1. f[n] \in DOMAIN q /\ q[f[n]] = w[n] /\ w[n] # Null
    BY <1>3
  <2>2. w[n] \in Entries
    BY <1>2, ElementOfSeq
  <2> QED BY <2>1, <2>2 DEF Entries
<1>5. w \in Seq(Datagrams)
  <2>1. w \in [1 .. Len(w) -> Datagrams]
    BY <1>2, <1>4, LenProperties
  <2> QED BY <2>1, <1>2
<1>6. ASSUME NEW d \in Datagrams
      PROVE  (\E i \in DOMAIN w : w[i] = d)
               <=> \E l \in k .. k : \E i \in DOMAIN X[l] : X[l][i] = d
  <2>1. (\E i \in DOMAIN w : w[i] = d) <=> \E i \in DOMAIN q : q[i] = d
    <3>1. ASSUME NEW i \in DOMAIN w, w[i] = d PROVE \E j \in DOMAIN q : q[j] = d
      BY <3>1, <1>2, <1>4
    <3>2. ASSUME NEW j \in DOMAIN q, q[j] = d PROVE \E i \in DOMAIN w : w[i] = d
      <4>1. q[j] \notin none
        BY <3>2, PipelineAssumption
      <4>2. PICK n \in 1 .. Len(w) : f[n] = j
        BY <4>1, <1>3
      <4> QED BY <4>2, <3>2, <1>2, <1>4
    <3> QED BY <3>1, <3>2
  <2>2. \A l \in k .. k : l = k
    OBVIOUS
  <2>3. k \in k .. k
    OBVIOUS
  <2> QED BY <2>1, <2>2, <2>3
<1>7. ASSUME NEW i \in DOMAIN w, NEW j \in DOMAIN w, i < j
      PROVE  Before(seq, w[i], w[j])
  <2>1. Ahead(X, w[i], w[j])
    <3>1. /\ f[i] \in DOMAIN X[k] /\ f[j] \in DOMAIN X[k] /\ f[i] < f[j]
          /\ X[k][f[i]] = w[i] /\ X[k][f[j]] = w[j]
      BY <1>2, <1>3, <1>4, <1>7
    <3> QED BY <3>1 DEF Ahead
  <2> QED BY <2>1, <1>2, <1>4 DEF LinedUp
<1> QED BY <1>5, <1>6, <1>7 DEF Drawn

LEMMA DrawSent ==
  ASSUME NEW X \in Lists, NEW seq, NEW lost, LinedUp(X, seq, lost),
         X[5] \in Seq(Datagrams)
  PROVE  Drawn(X[5], X, seq, 5, 5)
<1> PICK s : s = X[5]
  OBVIOUS
<1>1. s \in Seq(Datagrams) /\ \A i \in DOMAIN s : s[i] \in Datagrams
  BY LenProperties
<1>2. 5 \in 5 .. 5 /\ 5 \in 1 .. 5 /\ \A k \in 5 .. 5 : k = 5
  OBVIOUS
<1>3. ASSUME NEW i \in DOMAIN s, NEW j \in DOMAIN s, i < j
      PROVE  Before(seq, s[i], s[j])
  <2>1. Ahead(X, s[i], s[j])
    BY <1>2, <1>3 DEF Ahead
  <2> QED BY <2>1, <1>1 DEF LinedUp
<1>4. \A d \in Datagrams :
        (\E i \in DOMAIN s : s[i] = d)
          <=> \E k \in 5 .. 5 : \E i \in DOMAIN X[k] : X[k][i] = d
  BY <1>2
<1> QED BY <1>1, <1>3, <1>4 DEF Drawn

LEMMA DrawMore ==
  ASSUME NEW X \in Lists, NEW seq, NEW lost, LinedUp(X, seq, lost),
         NEW lo \in 1 .. 4, NEW s, NEW t, NEW r, r = s \o t,
         Drawn(s, X, seq, lo + 1, 5), Drawn(t, X, seq, lo, lo)
  PROVE  Drawn(r, X, seq, lo, 5)
<1>1. s \in Seq(Datagrams) /\ t \in Seq(Datagrams)
  BY DEF Drawn
<1>2. /\ Len(s) \in Nat /\ DOMAIN s = 1 .. Len(s)
      /\ Len(t) \in Nat /\ DOMAIN t = 1 .. Len(t)
      /\ \A i \in DOMAIN s : s[i] \in Datagrams
      /\ \A i \in DOMAIN t : t[i] \in Datagrams
  BY <1>1, LenProperties
<1>3. /\ r \in Seq(Datagrams) /\ DOMAIN r = 1 .. Len(s) + Len(t)
      /\ \A i \in 1 .. Len(s) + Len(t) :
            r[i] = IF i <= Len(s) THEN s[i] ELSE t[i - Len(s)]
  <2>1. r \in Seq(Datagrams) /\ Len(r) = Len(s) + Len(t)
        /\ \A i \in 1 .. Len(s) + Len(t) :
              r[i] = IF i <= Len(s) THEN s[i] ELSE t[i - Len(s)]
    BY <1>1, ConcatProperties
  <2> QED BY <2>1, LenProperties
<1>4. \A i \in DOMAIN r : \/ i \in DOMAIN s /\ r[i] = s[i]
                          \/ i - Len(s) \in DOMAIN t /\ r[i] = t[i - Len(s)] /\ i > Len(s)
  BY <1>2, <1>3
<1>5. /\ \A i \in DOMAIN s : i \in DOMAIN r /\ r[i] = s[i]
      /\ \A i \in DOMAIN t : Len(s) + i \in DOMAIN r /\ r[Len(s) + i] = t[i]
  BY <1>2, <1>3
<1>6. lo + 1 \in 2 .. 5 /\ \A k : k \in lo .. 5 <=> k \in lo + 1 .. 5 \/ k \in lo .. lo
  OBVIOUS
<1>7. ASSUME NEW d \in Datagrams
      PROVE  (\E i \in DOMAIN r : r[i] = d)
               <=> \E k \in lo .. 5 : \E i \in DOMAIN X[k] : X[k][i] = d
  <2>1. (\E i \in DOMAIN r : r[i] = d)
           <=> (\E i \in DOMAIN s : s[i] = d) \/ (\E i \in DOMAIN t : t[i] = d)
    <3>1. ASSUME NEW i \in DOMAIN r, r[i] = d
          PROVE  (\E j \in DOMAIN s : s[j] = d) \/ (\E j \in DOMAIN t : t[j] = d)
      BY <3>1, <1>4
    <3>2. ASSUME NEW i \in DOMAIN s, s[i] = d PROVE \E j \in DOMAIN r : r[j] = d
      BY <3>2, <1>5
    <3>3. ASSUME NEW i \in DOMAIN t, t[i] = d PROVE \E j \in DOMAIN r : r[j] = d
      BY <3>3, <1>5
    <3> QED BY <3>1, <3>2, <3>3
  <2>2. (\E i \in DOMAIN s : s[i] = d)
           <=> \E k \in lo + 1 .. 5 : \E i \in DOMAIN X[k] : X[k][i] = d
    BY DEF Drawn
  <2>3. (\E i \in DOMAIN t : t[i] = d)
           <=> \E k \in lo .. lo : \E i \in DOMAIN X[k] : X[k][i] = d
    BY DEF Drawn
  <2> QED BY <2>1, <2>2, <2>3, <1>6
<1>8. ASSUME NEW i \in DOMAIN r, NEW j \in DOMAIN r, i < j
      PROVE  Before(seq, r[i], r[j])
  <2>1. i \in Nat /\ j \in Nat
    BY <1>2, <1>3
  <2>2. CASE i \in DOMAIN s /\ j \in DOMAIN s
    BY <2>2, <1>5, <1>8 DEF Drawn
  <2>3. CASE i - Len(s) \in DOMAIN t /\ i > Len(s)
    <3>1. /\ j - Len(s) \in DOMAIN t /\ i - Len(s) < j - Len(s)
          /\ r[i] = t[i - Len(s)] /\ r[j] = t[j - Len(s)]
      <4>1. j > Len(s) /\ j \notin DOMAIN s
        BY <2>1, <2>3, <1>2, <1>8
      <4>2. j - Len(s) \in DOMAIN t /\ r[j] = t[j - Len(s)]
        BY <4>1, <1>4
      <4>3. i \notin DOMAIN s
        BY <2>1, <2>3, <1>2
      <4>4. r[i] = t[i - Len(s)]
        BY <4>3, <1>4
      <4>5. i - Len(s) < j - Len(s)
        BY <2>1, <1>2, <1>8
      <4> QED BY <2>3, <4>2, <4>4, <4>5
    <3>2. PICK a, b : a = i - Len(s) /\ b = j - Len(s)
      OBVIOUS
    <3>3. Before(seq, t[a], t[b])
      BY <2>3, <3>1, <3>2 DEF Drawn
    <3> QED BY <3>1, <3>2, <3>3
  <2>4. CASE i \in DOMAIN s /\ j - Len(s) \in DOMAIN t /\ j > Len(s)
    <3>1. /\ r[i] = s[i] /\ r[j] = t[j - Len(s)]
          /\ r[i] \in Datagrams /\ r[j] \in Datagrams
      BY <2>1, <2>4, <1>2, <1>3
    <3>2. PICK k \in lo + 1 .. 5 : \E m \in DOMAIN X[k] : X[k][m] = r[i]
      BY <2>4, <3>1 DEF Drawn
    <3>3. PICK l \in lo .. lo : \E n \in DOMAIN X[l] : X[l][n] = r[j]
      BY <2>4, <3>1 DEF Drawn
    <3>4. k \in 1 .. 5 /\ l \in 1 .. 5 /\ k > l
      BY <1>6
    <3>5. Ahead(X, r[i], r[j])
      BY <3>2, <3>3, <3>4 DEF Ahead
    <3> QED BY <3>1, <3>5 DEF LinedUp
  <2> QED BY <2>2, <2>3, <2>4, <1>4
<1> QED BY <1>3, <1>7, <1>8 DEF Drawn

LEMMA InOrderDrawn == Inv => Drawn(InOrder, Line, arrived, 1, 5)
<1> SUFFICES ASSUME Inv PROVE Drawn(InOrder, Line, arrived, 1, 5)
  OBVIOUS
<1>1. /\ Line \in Lists /\ LinedUp(Line, arrived, spoilt)
      /\ Line[1] = queue[1] /\ Line[2] = queue[2] /\ Line[3] = queue[3] /\ Line[4] = queue[4]
      /\ Line[5] = sent /\ sent \in Seq(Datagrams)
  <2>1. Line \in Lists /\ (\A k \in 1 .. 4 : Line[k] = queue[k]) /\ Line[5] = sent
    BY LineType DEF Inv, Line, TypeOK
  <2> QED BY <2>1 DEF Inv, Lined, TypeOK
<1>2. PICK X, seq, lost : X = Line /\ seq = arrived /\ lost = spoilt
  OBVIOUS
<1> PICK n1, n2, n3, n4 : /\ n1 = NonNull(X[1]) /\ n2 = NonNull(X[2])
                          /\ n3 = NonNull(X[3]) /\ n4 = NonNull(X[4])
  OBVIOUS
<1> PICK s5, s4, s3, s2, s1 :
       s5 = X[5] /\ s4 = s5 \o n4 /\ s3 = s4 \o n3 /\ s2 = s3 \o n2 /\ s1 = s2 \o n1
  OBVIOUS
<1>3. X \in Lists /\ LinedUp(X, seq, lost) /\ X[5] \in Seq(Datagrams)
  BY <1>1, <1>2
<1>4. Drawn(s5, X, seq, 5, 5)
  BY <1>3, DrawSent
<1>5. /\ Drawn(n1, X, seq, 1, 1) /\ Drawn(n2, X, seq, 2, 2)
      /\ Drawn(n3, X, seq, 3, 3) /\ Drawn(n4, X, seq, 4, 4)
  <2>1. \A k \in 1 .. 5 : Drawn(NonNull(X[k]), X, seq, k, k)
    BY <1>3, DrawNonNull
  <2> QED BY <2>1
<1>6. ASSUME NEW lo \in 1 .. 4, NEW s, NEW t, NEW r, r = s \o t,
             Drawn(s, X, seq, lo + 1, 5), Drawn(t, X, seq, lo, lo)
      PROVE  Drawn(r, X, seq, lo, 5)
  BY <1>3, <1>6, DrawMore
<1>7. 4 \in 1 .. 4 /\ 4 + 1 = 5 /\ 3 \in 1 .. 4 /\ 3 + 1 = 4
      /\ 2 \in 1 .. 4 /\ 2 + 1 = 3 /\ 1 \in 1 .. 4 /\ 1 + 1 = 2
  OBVIOUS
<1>8. Drawn(s4, X, seq, 4, 5)
  BY <1>4, <1>5, <1>6, <1>7
<1>9. Drawn(s3, X, seq, 3, 5)
  BY <1>5, <1>6, <1>7, <1>8
<1>10. Drawn(s2, X, seq, 2, 5)
  BY <1>5, <1>6, <1>7, <1>9
<1>11. Drawn(s1, X, seq, 1, 5)
  BY <1>5, <1>6, <1>7, <1>10
<1>12. InOrder = s1
  BY <1>1, <1>2 DEF InOrder
<1> QED BY <1>2, <1>11, <1>12

LEMMA InvStep == Inv /\ [Next]_vars => Inv'
BY TypeStep, LinkedStep, LinedStep, PlacedStep DEF Inv

LEMMA InvInit == Init => Inv
<1> SUFFICES ASSUME Init PROVE Inv
  OBVIOUS
<1>1. TypeOK
  <2>1. <<>> \in Seq(Datagrams \union {Null}) /\ <<>> \in Seq(Datagrams)
    BY EmptySeq
  <2>2. /\ queue \in [1 .. 4 -> Seq(Datagrams \union {Null})]
        /\ sent \in Seq(Datagrams) /\ arrived \in Seq(Datagrams)
    BY <2>1 DEF Init
  <2>3. /\ owner \in [1 .. 4 -> Threads \union {Nobody}]
        /\ pc \in [Threads -> {"idle", "walk", "sweep"}]
        /\ pos \in [Threads -> Nat \ {0}]
        /\ prm \in [Threads -> 0 .. Batch]
    BY PipelineAssumption DEF Init
  <2>4. /\ linking.item \in Datagrams \union {Null} /\ broken \in BOOLEAN
        /\ spoilt \in SUBSET Datagrams
    BY DEF Init, NoLink
  <2>5. /\ rids \in SUBSET Rids
        /\ rows \in [Rids -> Nat] /\ waiting \in [Rids -> Nat]
        /\ status \in [Rids -> {0, 1}]
    BY DEF Init
  <2> QED BY <2>2, <2>3, <2>4, <2>5 DEF TypeOK
<1>2. Linked
  BY EmptySeq DEF Init, Linked, NoLink, Entries
<1>3. ArrivedOnce
  BY DEF Init, ArrivedOnce
<1>4. Lined
  <2>1. \A k \in 1 .. 5 : Line[k] = <<>>
    BY DEF Init, Line, LineOf
  <2>2. \A d : ~Holds(Line, d) /\ \A e : ~Ahead(Line, d, e)
    BY <2>1 DEF Holds, Ahead
  <2>3. ToSet(arrived) = {}
    BY DEF Init, ToSet
  <2> QED BY <2>2, <2>3 DEF Lined, LinedUp
<1>5. Placed
  BY DEF Init, Placed
<1> QED BY <1>1, <1>2, <1>3, <1>4, <1>5 DEF Inv

LEMMA InvHolds == Spec => []Inv
BY InvInit, InvStep, PTL DEF Spec

\* The lists hold datagrams and null entries only, the cursors and the batch
\* counters stay in range, and the database columns keep their types, whatever the
\* interleaving of the daemons of SQEServer.
THEOREM TypeCorrect == Spec => []TypeOK
BY InvHolds, PTL DEF Inv

LEMMA OnceInvariant == Inv => HandledOnce
<1> SUFFICES ASSUME Inv, NEW d \in Datagrams
             PROVE  /\ \A i, j \in Occurrences(d, InOrder) : i = j
                    /\ (d \in ToSet(arrived) \ spoilt /\ Class[d] \in {"public", "private"}) =>
                         d \in ToSet(InOrder)
  BY DEF HandledOnce
<1>1. PICK s : s = InOrder
  OBVIOUS
<1>2. Drawn(s, Line, arrived, 1, 5)
  BY <1>1, InOrderDrawn
<1>3. ASSUME NEW i \in Occurrences(d, s), NEW j \in Occurrences(d, s) PROVE i = j
  <2>1. i \in DOMAIN s /\ j \in DOMAIN s /\ s[i] = d /\ s[j] = d
    BY DEF Occurrences
  <2>2. i \in Nat /\ j \in Nat
    BY <2>1, <1>2, LenProperties DEF Drawn
  <2>3. ~Before(arrived, d, d)
    <3>1. arrived \in Seq(Datagrams) /\ \A m, n \in DOMAIN arrived : arrived[m] = arrived[n] => m = n
      BY DEF Inv, TypeOK, ArrivedOnce
    <3>2. \A m \in DOMAIN arrived : m \in Nat
      BY <3>1, LenProperties
    <3> QED BY <3>1, <3>2 DEF Before
  <2>4. ~(i < j) /\ ~(j < i)
    BY <2>1, <2>3, <1>2 DEF Drawn
  <2> QED BY <2>2, <2>4
<1>4. ASSUME d \in ToSet(arrived) \ spoilt, Class[d] \in {"public", "private"}
      PROVE  d \in ToSet(s)
  <2>1. Holds(Line, d)
    BY <1>4 DEF Inv, Lined, LinedUp
  <2>2. \E i \in DOMAIN s : s[i] = d
    BY <2>1, <1>2 DEF Holds, Drawn
  <2> QED BY <2>2 DEF ToSet
<1> QED BY <1>1, <1>3, <1>4

\* However the walks, overlapping instances, batch limits and sweeps interleave, no
\* datagram stands in two places of the pipeline or is answered twice, and none that
\* has an answer is dropped: each of them moves under both mutexes from the head of
\* one list to the end of the next, where no sweep takes it for a null entry.
THEOREM NothingTwiceOrLost == Spec => []HandledOnce
BY InvHolds, OnceInvariant, PTL

LEMMA OrderInvariant == Inv => FirstComeFirstServed
<1> SUFFICES ASSUME Inv PROVE FirstComeFirstServed
  OBVIOUS
<1>1. PICK s : s = InOrder
  OBVIOUS
<1>2. Drawn(s, Line, arrived, 1, 5)
  BY <1>1, InOrderDrawn
<1>3. \A i, j \in DOMAIN s : i < j =>
        \E m, n \in DOMAIN arrived : m < n /\ arrived[m] = s[i] /\ arrived[n] = s[j]
  BY <1>2 DEF Drawn, Before
<1> QED BY <1>1, <1>3 DEF FirstComeFirstServed

\* Requests leave in the order they came in, for any batch limit and any number of
\* overlapping ProcessRawData: a walk has left only null entries behind it, so the
\* item it passes on is the first of its list, and it goes to the end of the next.
THEOREM ServedInOrder == Spec => []FirstComeFirstServed
BY InvHolds, OrderInvariant, PTL

LEMMA CursorStep == Inv /\ Inv' /\ [Next]_vars =>
  \A t \in Threads :
       (pc[t] = "walk" /\ pc'[t] = "walk" /\ linking'.item = linking.item) =>
         \A i \in pos[t] .. Len(queue[Stage(t)]) :
            i > pos'[t] => /\ i <= Len(queue'[Stage(t)])
                           /\ queue'[Stage(t)][i] = queue[Stage(t)][i]
<1> SUFFICES ASSUME Inv, [Next]_vars, NEW t \in Threads,
                    pc[t] = "walk", pc'[t] = "walk", linking'.item = linking.item,
                    NEW i \in pos[t] .. Len(queue[Stage(t)]), i > pos'[t]
             PROVE  /\ i <= Len(queue'[Stage(t)])
                    /\ queue'[Stage(t)][i] = queue[Stage(t)][i]
  OBVIOUS
<1>1. PICK q, r : q = queue[Stage(t)] /\ r = queue'[Stage(t)]
  OBVIOUS
<1>2. q \in Seq(Entries) /\ pos[t] \in Nat \ {0}
  BY <1>1, StageType DEF Inv, TypeOK, Entries
<1>3. Len(q) \in Nat /\ DOMAIN q = 1 .. Len(q)
  BY <1>2, LenProperties
<1>4. i \in DOMAIN q
  BY <1>1, <1>2, <1>3
<1>5. Undisturbed(t) \/ StepOn(t)
  BY WalkStep DEF Goes, CutOff
<1>6. CASE Undisturbed(t)
  <2>1. r = q \/ \E d \in Entries : r = Append(q, d)
    BY <1>1, <1>6 DEF Undisturbed
  <2>2. ASSUME NEW d \in Entries, r = Append(q, d)
        PROVE  Len(r) = Len(q) + 1 /\ r[i] = q[i]
    BY <2>2, <1>2, <1>4, GrownList
  <2>3. CASE r = q
    BY <2>3, <1>1, <1>3, <1>4
  <2>4. CASE \E d \in Entries : r = Append(q, d)
    BY <2>2, <2>4, <1>1, <1>3, <1>4
  <2> QED BY <2>1, <2>3, <2>4
<1>7. CASE StepOn(t)
  <2>1. pos[t] \in 1 .. Len(q) /\ pos'[t] = pos[t] + 1 /\ r = [q EXCEPT ![pos[t]] = Null]
    BY <1>1, <1>7 DEF StepOn
  <2>2. Len(r) = Len(q)
    BY <2>1, <1>2, ExceptSeq DEF Entries
  <2>3. i # pos[t]
    BY <2>1, <1>2, <1>3, <1>4
  <2>4. r[i] = q[i]
    BY <2>1, <2>3, <1>4
  <2> QED BY <2>2, <2>4, <1>1, <1>3, <1>4
<1> QED BY <1>5, <1>6, <1>7

\* While a daemon walks, what it has still to come to stays where it is, however
\* many other instances start, unlock and sweep: ProcessRawData sweeps outside its
\* walk, but under the mutex a walk holds.
THEOREM WalkUndisturbed == Spec => CursorStable
<1>1. Inv /\ Inv' /\ [Next]_vars =>
        [\A t \in Threads :
           (pc[t] = "walk" /\ pc'[t] = "walk" /\ linking'.item = linking.item) =>
             \A i \in pos[t] .. Len(queue[Stage(t)]) :
                i > pos'[t] => /\ i <= Len(queue'[Stage(t)])
                               /\ queue'[Stage(t)][i] = queue[Stage(t)][i]]_vars
  BY CursorStep
<1> QED BY <1>1, InvHolds, PTL DEF Spec, CursorStable

-----------------------------------------------------------------------------
(* The refinement.                                                         *)

\* Nothing stands in two places, and what stands in one came later than what stands
\* in a place ahead of it.
LEMMA PlacesTell ==
  ASSUME Inv, NEW k \in 1 .. 5, NEW l \in 1 .. 5, NEW i \in DOMAIN Line[k], NEW j \in DOMAIN Line[l],
         k > l \/ (k = l /\ i < j), Line[k][i] \in Datagrams, Line[l][j] \in Datagrams,
         NEW m \in DOMAIN arrived, NEW n \in DOMAIN arrived,
         arrived[m] = Line[k][i], arrived[n] = Line[l][j]
  PROVE  m < n
<1>1. Ahead(Line, Line[k][i], Line[l][j])
  BY DEF Ahead
<1>2. Before(arrived, arrived[m], arrived[n])
  BY <1>1 DEF Inv, Lined, LinedUp
<1> QED BY <1>2 DEF Before, Inv, ArrivedOnce

\* What has been answered, and what stands on a line, has come.
LEMMA CameBefore ==
  ASSUME Inv
  PROVE  /\ Line \in Lists /\ Line[5] = sent /\ \A k \in 1 .. 4 : Line[k] = queue[k]
         /\ DOMAIN arrived \subseteq Nat /\ DOMAIN arrived = 1 .. Len(arrived)
         /\ \A i \in DOMAIN arrived : arrived[i] \in Datagrams
         /\ \A d \in Datagrams : Holds(Line, d) => d \notin spoilt /\ \E i \in DOMAIN arrived : arrived[i] = d
<1>1. arrived \in Seq(Datagrams) /\ LinedUp(Line, arrived, spoilt)
  BY DEF Inv, TypeOK, Lined
<1>2. /\ DOMAIN arrived \subseteq Nat /\ DOMAIN arrived = 1 .. Len(arrived)
      /\ \A i \in DOMAIN arrived : arrived[i] \in Datagrams
  BY <1>1, LenProperties, ElementOfSeq
<1>3. Line \in Lists /\ Line[5] = sent /\ \A k \in 1 .. 4 : Line[k] = queue[k]
  BY LineType DEF Inv, TypeOK, Line
<1>4. \A d \in Datagrams : Holds(Line, d) => d \notin spoilt /\ \E i \in DOMAIN arrived : arrived[i] = d
  BY <1>1 DEF LinedUp, ToSet
<1> QED BY <1>2, <1>3, <1>4

LEMMA PushServes ==
  ASSUME NEW d \in Datagrams, d \notin ToSet(arrived) \union spoilt, Push(d), sent' = sent
  PROVE  Promise!ONext
<1>1. ~Promise!In(d, arrived)
  BY DEF Promise!In, ToSet
<1>2. CASE arrived' = Append(arrived, d) /\ spoilt' = spoilt
  <2>1. Promise!Come(d, {})
    BY <1>1, <1>2 DEF Promise!Come
  <2> QED BY <2>1 DEF Promise!ONext
<1>3. CASE arrived' = arrived /\ spoilt' = spoilt \union {d}
  <2>1. Promise!Miss(d)
    BY <1>1, <1>3 DEF Promise!Miss
  <2> QED BY <2>1 DEF Promise!ONext
<1> QED BY <1>2, <1>3 DEF Push

LEMMA LinkServes == Inv /\ BoxLink => Promise!ONext
<1> SUFFICES ASSUME Inv, BoxLink PROVE Promise!ONext
  OBVIOUS
<1> DEFINE d == linking.item
<1>1. d \in Datagrams /\ d \notin ToSet(arrived) \union spoilt /\ sent' = sent
  BY DEF BoxLink, Inv, Linked
<1>2. ~Promise!In(d, arrived)
  BY <1>1 DEF Promise!In, ToSet
<1> HIDE DEF d
<1>3. CASE Push(d)
  BY <1>1, <1>3, PushServes
<1>4. CASE arrived' = Append(arrived, d) /\ spoilt' = spoilt \union NewSince
  <2>1. ASSUME NEW e \in NewSince
        PROVE  e \in Datagrams /\ Promise!In(e, arrived) /\ ~Promise!In(e, sent)
    <3>1. PICK i \in DOMAIN Line[1] : Line[1][i] = e
      BY CameBefore DEF NewSince, ToSet
    <3>2. 1 \in 1 .. 5 /\ 5 \in 1 .. 5 /\ 5 > 1 /\ Line \in Lists
      BY CameBefore
    <3>3. e \in Datagrams
      <4>1. e \in Entries /\ e # Null
        BY <3>1, <3>2, ListsType DEF NewSince
      <4> QED BY <4>1 DEF Entries
    <3>4. Holds(Line, e)
      BY <3>1, <3>2 DEF Holds
    <3>5. PICK m \in DOMAIN arrived : arrived[m] = e
      BY <3>3, <3>4, CameBefore
    <3>6. ASSUME NEW j \in DOMAIN sent, sent[j] = e PROVE FALSE
      <4>1. j \in DOMAIN Line[5] /\ Line[5][j] = e
        BY <3>6, CameBefore
      <4>2. m < m
        BY <4>1, <3>1, <3>2, <3>3, <3>5, PlacesTell
      <4>3. m \in Nat
        BY CameBefore
      <4> QED BY <4>2, <4>3
    <3> QED BY <3>3, <3>5, <3>6 DEF Promise!In
  <2>2. Promise!Come(d, NewSince)
    BY <2>1, <1>1, <1>2, <1>4 DEF Promise!Come
  <2>3. NewSince \in SUBSET Datagrams
    BY <2>1
  <2> QED BY <2>2, <2>3, <1>1 DEF Promise!ONext
<1>5. CASE spoilt' = spoilt \union {d} /\ arrived' = arrived
  <2>1. Promise!Miss(d)
    BY <1>1, <1>2, <1>5 DEF Promise!Miss
  <2> QED BY <2>1, <1>1 DEF Promise!ONext
<1> QED BY <1>3, <1>4, <1>5 DEF BoxLink, d

LEMMA SendServes == Inv /\ SendItem => Promise!ONext
<1> SUFFICES ASSUME Inv, SendItem PROVE Promise!ONext
  OBVIOUS
<1> DEFINE d == Current("snd")  p == pos["snd"]
<1>1. /\ AtItem("snd") /\ sent' = Append(sent, d) /\ UNCHANGED <<arrived, spoilt>>
  BY DEF SendItem, race
<1>2. /\ p \in DOMAIN Line[4] /\ Line[4][p] = d /\ d \in Datagrams
      /\ \A m \in DOMAIN Line[4] : m < p => Line[4][m] = Null
  BY <1>1, ItemPlace, StageType DEF Threads
<1> HIDE DEF d, p
<1>3. 4 \in 1 .. 5 /\ 5 \in 1 .. 5 /\ 5 > 4 /\ Line \in Lists
  BY CameBefore
<1>4. p \in Nat /\ \A l \in 1 .. 5 : DOMAIN Line[l] \subseteq Nat
  BY <1>2, <1>3, ListsType
<1>5. Holds(Line, d)
  BY <1>2, <1>3 DEF Holds
<1>6. d \notin spoilt /\ \E i \in DOMAIN arrived : arrived[i] = d
  BY <1>2, <1>5, CameBefore
<1>7. PICK i \in DOMAIN arrived : arrived[i] = d
  BY <1>6
<1>8. i \in Nat /\ i \in 1 .. Len(arrived)
  BY CameBefore
<1>9. ASSUME NEW j \in DOMAIN arrived, j >= i, Promise!In(arrived[j], sent) PROVE FALSE
  <2>1. PICK m \in DOMAIN sent : sent[m] = arrived[j]
    BY <1>9 DEF Promise!In
  <2>2. m \in DOMAIN Line[5] /\ Line[5][m] = arrived[j] /\ arrived[j] \in Datagrams
    BY <2>1, CameBefore
  <2>3. j < i
    BY <2>2, <1>2, <1>3, <1>7, PlacesTell
  <2>4. j \in Nat
    BY CameBefore
  <2> QED BY <2>3, <2>4, <1>8, <1>9
<1>10. ASSUME NEW j \in DOMAIN arrived, j < i, Class[arrived[j]] \in {"public", "private"},
              arrived[j] \notin spoilt
       PROVE  Promise!In(arrived[j], sent)
  <2>1. arrived[j] \in Datagrams /\ j \in Nat
    BY CameBefore
  <2>2. Holds(Line, arrived[j])
    BY <1>10 DEF Inv, Lined, LinedUp, ToSet
  <2>3. PICK l \in 1 .. 5 : \E m \in DOMAIN Line[l] : Line[l][m] = arrived[j]
    BY <2>2 DEF Holds
  <2>4. PICK m \in DOMAIN Line[l] : Line[l][m] = arrived[j]
    BY <2>3
  <2>5. CASE l = 5
    BY <2>4, <2>5, CameBefore DEF Promise!In
  <2>6. CASE l < 4 \/ (l = 4 /\ p < m)
    <3>1. 4 > l \/ (4 = l /\ p < m)
      BY <2>6
    <3>2. i < j
      BY <3>1, <2>1, <2>4, <1>2, <1>3, <1>7, PlacesTell
    <3> QED BY <3>2, <2>1, <1>8, <1>10
  <2>7. CASE l = 4 /\ m < p
    <3>1. Line[4][m] = Null /\ Line[4][m] = arrived[j]
      BY <2>4, <2>7, <1>2
    <3> QED BY <3>1, <2>1, PipelineAssumption
  <2>8. CASE l = 4 /\ m = p
    <3>1. arrived[j] = arrived[i]
      BY <2>4, <2>8, <1>2, <1>7
    <3>2. j = i
      BY <3>1 DEF Inv, ArrivedOnce
    <3> QED BY <3>2, <2>1, <1>10
  <2>9. m \in Nat
    BY <1>4
  <2>10. l = 5 \/ l < 4 \/ l = 4
    OBVIOUS
  <2>11. p < m \/ m < p \/ m = p
    BY <2>9, <1>4
  <2> QED BY <2>5, <2>6, <2>7, <2>8, <2>10, <2>11
<1>11. Promise!Answer(i)
  <2>1. ~Promise!In(arrived[i], sent) /\ arrived[i] \notin spoilt
    BY <1>6, <1>7, <1>8, <1>9
  <2>2. \A j \in 1 .. i - 1 :
           arrived[j] \in {e \in Datagrams : Class[e] \in {"public", "private"}} \ spoilt
             => Promise!In(arrived[j], sent)
    <3>1. \A j \in 1 .. i - 1 : j \in DOMAIN arrived /\ j < i
      BY <1>8, CameBefore
    <3> QED BY <3>1, <1>10
  <2>3. \A j \in i + 1 .. Len(arrived) : ~Promise!In(arrived[j], sent)
    <3>1. \A j \in i + 1 .. Len(arrived) : j \in DOMAIN arrived /\ j >= i
      BY <1>8, CameBefore
    <3> QED BY <3>1, <1>9
  <2> QED BY <2>1, <2>2, <2>3, <1>1, <1>7 DEF Promise!Answer
<1> QED BY <1>8, <1>11 DEF Promise!ONext

\* Only what fills rawdata_in and ProcessSendPackets are seen from outside.
LEMMA ServeStep == Inv /\ [Next]_vars => [Promise!ONext]_(Promise!ovars)
<1> SUFFICES ASSUME Inv, [Next]_vars PROVE Promise!ONext \/ UNCHANGED Promise!ovars
  OBVIOUS
<1>1. UNCHANGED <<arrived, sent, spoilt>> => UNCHANGED Promise!ovars
  BY DEF Promise!ovars
<1>2. ASSUME NEW d \in Datagrams, Receive(d) PROVE Promise!ONext
  <2>1. d \notin ToSet(arrived) \union spoilt /\ Push(d) /\ sent' = sent
    BY <1>2 DEF Receive, Seen
  <2> QED BY <2>1, PushServes
<1>3. ASSUME NEW d \in Datagrams, BoxPush(d) PROVE UNCHANGED Promise!ovars
  BY <1>1, <1>3 DEF BoxPush
<1>4. ASSUME NEW t \in Threads,
             Start(t) \/ SkipNull(t) \/ Finish(t) \/ RawUnlock(t) \/ RawSweep(t)
      PROVE  UNCHANGED Promise!ovars
  BY <1>1, <1>4 DEF Start, SkipNull, Finish, RawUnlock, RawSweep, race
<1>5. ASSUME NEW t \in RawThreads, RawDataItem(t) PROVE UNCHANGED Promise!ovars
  BY <1>1, <1>5 DEF RawDataItem, race
<1>6. CASE PacketItem \/ RequestItem
  BY <1>1, <1>6 DEF PacketItem, RequestItem, race
<1>7. ASSUME NEW r \in Rids, WaitDaemon(r) PROVE UNCHANGED Promise!ovars
  BY <1>1, <1>7 DEF WaitDaemon, race
<1>8. CASE UNCHANGED vars
  BY <1>1, <1>8 DEF vars
<1> QED BY <1>2, <1>3, <1>4, <1>5, <1>6, <1>7, <1>8, LinkServes, SendServes DEF Next

\* To those who send requests the four lists, for any batch limit and any number of
\* overlapping ProcessRawData, are one service that answers in order, each request
\* once, and passes over one it owes an answer only if the unlocked push_back has lost it.
THEOREM ServiceImplemented == Spec => Service
<1>1. Init => Promise!OInit
  BY DEF Init, Promise!OInit
<1> QED BY <1>1, ServeStep, InvHolds, PTL DEF Spec, Service, Promise!OSpec
=============================================================================
