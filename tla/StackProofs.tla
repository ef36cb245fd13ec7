----------------------------- MODULE StackProofs -----------------------------
(***************************************************************************)
(* Proofs about six parts of the stack.  The DHCP client, the DHCP         *)
(* server and the link between them (DhcpNet): what the server does to its *)
(* list, what a step of the client may do, and from both the invariant     *)
(* behind NeverStalls, HeldIsLeased and, while every range has one start,  *)
(* LeaseUnique.  The ARP cache (Etharp): the invariant of its table behind *)
(* ArpSound.  Multicast membership (Igmp): the invariant of one group      *)
(* behind MembershipSound.  UDP (Udp): the invariant of the list and the   *)
(* blocks behind UdpSound.  Waiting for sockets (Select): the invariant of *)
(* the waiting threads and the walks behind SelectSound.  The sequential   *)
(* API (Netconn): the invariant of the message, the netconn and its block  *)
(* behind NetconnSound.                                                    *)
(***************************************************************************)
EXTENDS DhcpNet, Etharp, Igmp, Udp, Select, FiniteSetTheorems, SequenceTheorems, TLAPS

-----------------------------------------------------------------------------
(* The list of the server. *)

\* The addresses a station may hold or name: none, or one from b on.
From(b) == {0} \cup {a \in Nat : a >= b}

\* The nodes of plist that the stations M may have.  A node never has time
\* 0 left: dhcps_coarse_tmr frees it as it gets there.
Nodes(b, M) ==
  [ip : From(b) \ {0}, mac : M, timer : Nat \ {0},
   type : {"DYNAMIC", "STATIC"}, state : {"ONLINE", "OFFLINE"}]

\* LeaseUnique, of any list: sorted by address, no address and no station
\* twice.
Unique(pl) ==
  \A i, j \in DOMAIN pl : i < j => pl[i].ip < pl[j].ip /\ pl[i].mac # pl[j].mac

\* A set of natural numbers that is not empty has a least element.
LEMMA Least ==
  ASSUME NEW T, T \subseteq Nat, T # {}
  PROVE  \E x \in T : \A y \in T : x <= y
<1>1. PICK x \in T : \A y \in T : ~(<<y, x>> \in OpToRel(<, Nat))
  BY NatLessThanWellFounded, WFMin
<1>2. \A y \in T : ~(y < x)
  BY <1>1 DEF OpToRel
<1> QED
  BY <1>2

\* A set of indices that is not empty has a greatest element.
LEMMA Greatest ==
  ASSUME NEW n \in Nat, NEW T, T \subseteq 1 .. n, T # {}
  PROVE  \E x \in T : \A y \in T : y <= x
<1>1. \A y \in T : y \in Int /\ n - y \in Nat
  OBVIOUS
<1> DEFINE D == {n - y : y \in T}
<1>2. D \subseteq Nat /\ D # {}
  BY <1>1
<1>3. PICK d \in D : \A e \in D : d <= e
  BY <1>2, Least
<1>4. PICK x \in T : d = n - x
  OBVIOUS
<1>5. \A y \in T : n - x <= n - y
  BY <1>3, <1>4
<1> QED
  BY <1>1, <1>5

\* A set of indices closed downwards is an interval from 1, and its
\* cardinality is the end of it: what the two searches of the server count.
LEMMA Prefix ==
  ASSUME NEW n \in Nat, NEW I, I \subseteq 1 .. n,
         \A i \in I : \A j \in 1 .. i : j \in I
  PROVE  \E k \in 0 .. n : I = 1 .. k /\ Cardinality(I) = k
<1>1. CASE I = 1 .. n
  BY <1>1, FS_Interval
<1>2. CASE I # 1 .. n
  <2> DEFINE T == (1 .. n) \ I
  <2>1. T \subseteq Nat /\ T # {}
    <3>1. \A i \in I : i \in 1 .. n
      OBVIOUS
    <3>2. \E i \in 1 .. n : i \notin I
      BY <1>2, <3>1
    <3> QED
      BY <3>2
  <2>2. PICK x \in T : \A y \in T : x <= y
    BY <2>1, Least
  <2>3. x \in 1 .. n /\ x \notin I
    OBVIOUS
  <2>4. ASSUME NEW i \in I PROVE i \in 1 .. x - 1
    <3>1. i \in 1 .. n
      OBVIOUS
    <3>2. ~(x \in 1 .. i)
      BY <2>3
    <3> QED
      BY <3>1, <3>2, <2>3
  <2>5. ASSUME NEW i \in 1 .. x - 1 PROVE i \in I
    <3>1. i \in 1 .. n /\ ~(x <= i)
      BY <2>3
    <3> QED
      BY <3>1, <2>2
  <2>6. I = 1 .. x - 1
    BY <2>4, <2>5
  <2>7. x - 1 \in 0 .. n
    BY <2>3
  <2>8. Cardinality(1 .. x - 1) = x - 1
    BY <2>7, FS_Interval
  <2> QED
    BY <2>6, <2>7, <2>8
<1> QED
  BY <1>1, <1>2

\* What InsertAt makes of a sequence.
LEMMA Inserted ==
  ASSUME NEW S, NEW s \in Seq(S), NEW k \in 1 .. Len(s) + 1, NEW e \in S
  PROVE  /\ InsertAt(s, k, e) \in Seq(S)
         /\ Len(InsertAt(s, k, e)) = Len(s) + 1
         /\ \A i \in 1 .. Len(s) + 1 :
              InsertAt(s, k, e)[i] = IF i < k THEN s[i]
                                     ELSE IF i = k THEN e ELSE s[i - 1]
<1> DEFINE a == SubSeq(s, 1, k - 1)
           z == SubSeq(s, k, Len(s))
<1>1. Len(s) \in Nat /\ \A i \in 1 .. Len(s) : s[i] \in S
  BY LenProperties, ElementOfSeq
<1>2. /\ a \in Seq(S) /\ Len(a) = k - 1
      /\ \A i \in 1 .. k - 1 : a[i] = s[i]
  BY <1>1, SubSeqProperties
<1>3. /\ z \in Seq(S) /\ Len(z) = Len(s) - k + 1
      /\ \A i \in 1 .. Len(s) - k + 1 : z[i] = s[k + i - 1]
  BY <1>1, SubSeqProperties
<1>4. <<e>> \in Seq(S) /\ Len(<<e>>) = 1 /\ <<e>>[1] = e
  OBVIOUS
<1> HIDE DEF a, z
<1>5. /\ a \o <<e>> \in Seq(S) /\ Len(a \o <<e>>) = k
      /\ \A i \in 1 .. k : (a \o <<e>>)[i] = IF i < k THEN s[i] ELSE e
  BY <1>1, <1>2, <1>4, ConcatProperties
<1> DEFINE h == a \o <<e>>
<1> HIDE DEF h
<1>6. /\ h \o z \in Seq(S) /\ Len(h \o z) = Len(s) + 1
      /\ \A i \in 1 .. Len(s) + 1 :
           (h \o z)[i] = IF i <= k THEN h[i] ELSE z[i - k]
  <2>1. h \in Seq(S) /\ Len(h) = k
    BY <1>5 DEF h
  <2>2. /\ h \o z \in Seq(S) /\ Len(h \o z) = Len(h) + Len(z)
        /\ \A i \in 1 .. Len(h) + Len(z) :
             (h \o z)[i] = IF i <= Len(h) THEN h[i] ELSE z[i - Len(h)]
    BY <1>3, <2>1, ConcatProperties, Zenon
  <2>3. Len(h) + Len(z) = Len(s) + 1
    BY <1>1, <1>3, <2>1
  <2> QED
    BY <2>1, <2>2, <2>3, Zenon
<1>7. \A i \in 1 .. Len(s) + 1 :
        (h \o z)[i] = IF i < k THEN s[i] ELSE IF i = k THEN e ELSE s[i - 1]
  BY <1>1, <1>3, <1>5, <1>6 DEF h
<1> QED
  BY <1>6, <1>7 DEF InsertAt, h, a, z

\* What RemoveAt makes of a sequence.
LEMMA Removed ==
  ASSUME NEW S, NEW s \in Seq(S), NEW k \in 1 .. Len(s)
  PROVE  /\ RemoveAt(s, k) \in Seq(S)
         /\ Len(RemoveAt(s, k)) = Len(s) - 1
         /\ \A i \in 1 .. Len(s) - 1 :
              RemoveAt(s, k)[i] = IF i < k THEN s[i] ELSE s[i + 1]
<1> DEFINE a == SubSeq(s, 1, k - 1)
           z == SubSeq(s, k + 1, Len(s))
<1>1. Len(s) \in Nat /\ \A i \in 1 .. Len(s) : s[i] \in S
  BY LenProperties, ElementOfSeq
<1>2. /\ a \in Seq(S) /\ Len(a) = k - 1
      /\ \A i \in 1 .. k - 1 : a[i] = s[i]
  BY <1>1, SubSeqProperties
<1>3. /\ z \in Seq(S) /\ Len(z) = Len(s) - k
      /\ \A i \in 1 .. Len(s) - k : z[i] = s[k + i]
  <2>1. \A i \in 1 .. Len(s) - k : s[k + 1 + i - 1] = s[k + i]
    BY <1>1
  <2> QED
    BY <1>1, <2>1, SubSeqProperties
<1> HIDE DEF a, z
<1>4. /\ a \o z \in Seq(S) /\ Len(a \o z) = Len(s) - 1
      /\ \A i \in 1 .. Len(s) - 1 :
           (a \o z)[i] = IF i <= k - 1 THEN a[i] ELSE z[i - (k - 1)]
  <2>1. /\ a \o z \in Seq(S) /\ Len(a \o z) = Len(a) + Len(z)
        /\ \A i \in 1 .. Len(a) + Len(z) :
             (a \o z)[i] = IF i <= Len(a) THEN a[i] ELSE z[i - Len(a)]
    BY <1>2, <1>3, ConcatProperties, Zenon
  <2>2. Len(a) + Len(z) = Len(s) - 1
    BY <1>1, <1>2, <1>3
  <2> QED
    BY <1>2, <2>1, <2>2, Zenon
<1>5. \A i \in 1 .. Len(s) - 1 :
        (a \o z)[i] = IF i < k THEN s[i] ELSE s[i + 1]
  <2> SUFFICES ASSUME NEW i \in 1 .. Len(s) - 1
               PROVE  (a \o z)[i] = IF i < k THEN s[i] ELSE s[i + 1]
    OBVIOUS
  <2>1. CASE i < k
    BY <1>1, <1>2, <1>4, <2>1
  <2>2. CASE ~(i < k)
    <3>1. i - (k - 1) \in 1 .. Len(s) - k /\ k + (i - (k - 1)) = i + 1
      BY <1>1, <2>2
    <3> QED
      BY <1>1, <1>3, <1>4, <2>2, <3>1
  <2> QED
    BY <2>1, <2>2
<1> QED
  BY <1>4, <1>5 DEF RemoveAt, a, z

\* Pick takes nodes of the list in their order.
LEMMA Picked ==
  ASSUME NEW S, NEW s \in Seq(S), NEW I, I \subseteq 1 .. Len(s)
  PROVE  /\ Pick(s, I) \in Seq(S)
         /\ \E f \in [DOMAIN Pick(s, I) -> I] :
              /\ \A k \in DOMAIN Pick(s, I) : Pick(s, I)[k] = s[f[k]]
              /\ \A k, l \in DOMAIN Pick(s, I) : k < l => f[k] < f[l]
<1> DEFINE Upto(i) == {j \in I : j <= i}
           n == Cardinality(I)
           r == [i \in I |-> Cardinality(Upto(i))]
           f == [k \in 1 .. n |-> CHOOSE i \in I : Cardinality(Upto(i)) = k]
<1>1. Len(s) \in Nat /\ \A i \in 1 .. Len(s) : s[i] \in S
  BY LenProperties, ElementOfSeq
<1>2. IsFiniteSet(I) /\ n \in Nat
  <2>1. IsFiniteSet(1 .. Len(s))
    BY <1>1, FS_Interval
  <2>2. IsFiniteSet(I)
    BY <2>1, FS_Subset
  <2> QED
    BY <2>2, FS_CardinalityType
<1>3. \A i \in I : i \in Int
  BY <1>1
<1>4. \A i \in I : IsFiniteSet(Upto(i)) /\ r[i] \in 1 .. n
  <2> SUFFICES ASSUME NEW i \in I
               PROVE  IsFiniteSet(Upto(i)) /\ r[i] \in 1 .. n
    OBVIOUS
  <2>1. Upto(i) \subseteq I /\ i \in Upto(i)
    BY <1>3
  <2>2. IsFiniteSet(Upto(i)) /\ Cardinality(Upto(i)) <= n
    BY <2>1, <1>2, FS_Subset
  <2>3. Cardinality(Upto(i)) \in Nat /\ Cardinality(Upto(i)) # 0
    BY <2>1, <2>2, FS_CardinalityType, FS_EmptySet
  <2> QED
    BY <2>2, <2>3, <1>2
<1>5. \A i, j \in I : i < j => r[i] < r[j]
  <2> SUFFICES ASSUME NEW i \in I, NEW j \in I, i < j PROVE r[i] < r[j]
    OBVIOUS
  <2>1. i \in Int /\ j \in Int /\ \A x \in Upto(i) : x \in Int /\ x <= i
    BY <1>3
  <2>2. \A x \in Upto(i) : x \in Upto(j)
    BY <2>1
  <2>3. j \in Upto(j) /\ j \notin Upto(i)
    BY <2>1
  <2> HIDE DEF Upto
  <2>4. Cardinality(Upto(i)) <= Cardinality(Upto(j))
        /\ Cardinality(Upto(j)) # Cardinality(Upto(i))
    BY <2>2, <2>3, <1>4, FS_Subset
  <2>5. r[i] \in 1 .. n /\ r[j] \in 1 .. n
    BY <1>4
  <2>6. r[i] = Cardinality(Upto(i)) /\ r[j] = Cardinality(Upto(j))
    OBVIOUS
  <2> HIDE DEF r, n
  <2> QED
    BY <2>4, <2>5, <2>6, <1>2
<1>6. \A k \in 1 .. n : \E i \in I : r[i] = k
  <2>1. r \in [I -> 1 .. n] /\ \A i, j \in I : r[i] = r[j] => i = j
    <3>1. r \in [I -> 1 .. n]
      BY <1>4
    <3> HIDE DEF r, n
    <3>2. \A i \in I : i \in Int /\ r[i] \in Int
      BY <1>3, <3>1, <1>2
    <3>3. \A i, j \in I : r[i] = r[j] => ~(i < j) /\ ~(j < i)
      BY <1>5, <3>2
    <3> QED
      BY <3>1, <3>2, <3>3
  <2> HIDE DEF r
  <2>2. r \in Injection(I, 1 .. n)
    BY <2>1 DEF Injection, IsInjective
  <2>3. IsFiniteSet(1 .. n) /\ Cardinality(1 .. n) = n
    BY <1>2, FS_Interval
  <2>4. r \in Surjection(I, 1 .. n)
    BY <2>2, <2>3, FS_Injection
  <2> QED
    BY <2>4 DEF Surjection
<1>7. \A k \in 1 .. n : f[k] \in I /\ r[f[k]] = k
  <2> SUFFICES ASSUME NEW k \in 1 .. n PROVE f[k] \in I /\ r[f[k]] = k
    OBVIOUS
  <2>1. \E i \in I : Cardinality(Upto(i)) = k
    BY <1>6
  <2>2. f[k] \in I /\ Cardinality(Upto(f[k])) = k
    BY <2>1
  <2> QED
    BY <2>2
<1>8. \A k, l \in 1 .. n : k < l => f[k] < f[l]
  <2> HIDE DEF r, f, n
  <2> SUFFICES ASSUME NEW k \in 1 .. n, NEW l \in 1 .. n, k < l,
                      ~(f[k] < f[l])
               PROVE  FALSE
    OBVIOUS
  <2>1. f[k] \in I /\ f[l] \in I /\ r[f[k]] = k /\ r[f[l]] = l
    BY <1>7
  <2>2. f[l] < f[k] \/ f[l] = f[k]
    <3>1. f[k] \in Int /\ f[l] \in Int
      BY <1>3, <2>1
    <3> QED
      BY <3>1
  <2>3. k \in Int /\ l \in Int
    BY <1>2
  <2>4. CASE f[l] = f[k]
    BY <2>1, <2>3, <2>4
  <2>5. CASE f[l] < f[k]
    <3>1. r[f[l]] < r[f[k]]
      BY <1>5, <2>1, <2>5
    <3> QED
      BY <3>1, <2>1, <2>3
  <2> QED
    BY <2>2, <2>4, <2>5
<1>9. Pick(s, I) = [k \in 1 .. n |-> s[f[k]]]
  BY DEF Pick
<1>10. f \in [1 .. n -> I]
  BY <1>7
<1> HIDE DEF r, f
<1>11. \A k \in 1 .. n : s[f[k]] \in S
  BY <1>1, <1>7
<1>12. Pick(s, I) \in Seq(S)
  BY <1>2, <1>9, <1>11, IsASeq
<1> QED
  BY <1>8, <1>9, <1>10, <1>12

\* What a node of the list is.
LEMMA NodeTypes ==
  ASSUME NEW b \in Nat, NEW M, NEW pl \in Seq(Nodes(b, M))
  PROVE  /\ Len(pl) \in Nat /\ DOMAIN pl = 1 .. Len(pl)
         /\ \A i \in DOMAIN pl :
              /\ pl[i] \in Nodes(b, M) /\ pl[i].ip \in Nat \ {0}
              /\ pl[i].ip >= b /\ pl[i].timer \in Nat \ {0}
<1>1. Len(pl) \in Nat /\ DOMAIN pl = 1 .. Len(pl)
  BY LenProperties
<1>2. \A i \in DOMAIN pl : pl[i] \in Nodes(b, M)
  BY <1>1, ElementOfSeq
<1> QED
  BY <1>1, <1>2 DEF Nodes, From

\* node_remove_from_list keeps every other node, and the list sorted.
LEMMA Removes ==
  ASSUME NEW b \in Nat, NEW M, NEW pl \in Seq(Nodes(b, M)),
         NEW k \in 1 .. Len(pl)
  PROVE  /\ node_remove_from_list(pl, k) \in Seq(Nodes(b, M))
         /\ Unique(pl) => Unique(node_remove_from_list(pl, k))
         /\ \A x \in DOMAIN node_remove_from_list(pl, k) :
              \E i \in DOMAIN pl :
                i # k /\ node_remove_from_list(pl, k)[x] = pl[i]
         /\ \A i \in DOMAIN pl : i # k =>
              \E x \in DOMAIN node_remove_from_list(pl, k) :
                node_remove_from_list(pl, k)[x] = pl[i]
<1> DEFINE q == RemoveAt(pl, k)
<1>1. q \in Seq(Nodes(b, M)) /\ Len(q) = Len(pl) - 1
  BY Removed
<1>2. \A i \in 1 .. Len(pl) - 1 : q[i] = IF i < k THEN pl[i] ELSE pl[i + 1]
  BY Removed
<1>3. Len(pl) \in Nat /\ DOMAIN pl = 1 .. Len(pl) /\ DOMAIN q = 1 .. Len(pl) - 1
  BY <1>1, LenProperties
<1> HIDE DEF q
<1>4. ASSUME Unique(pl), NEW i \in DOMAIN q, NEW j \in DOMAIN q, i < j
      PROVE  q[i].ip < q[j].ip /\ q[i].mac # q[j].mac
  <2> DEFINE At(x) == IF x < k THEN x ELSE x + 1
  <2>1. /\ At(i) \in DOMAIN pl /\ At(j) \in DOMAIN pl /\ At(i) < At(j)
    BY <1>3, <1>4
  <2>2. q[i] = pl[At(i)] /\ q[j] = pl[At(j)]
    BY <1>2, <1>3
  <2> HIDE DEF At
  <2> QED
    BY <1>4, <2>1, <2>2 DEF Unique
<1>5. ASSUME NEW x \in DOMAIN q
      PROVE  \E i \in DOMAIN pl : i # k /\ q[x] = pl[i]
  <2> DEFINE i == IF x < k THEN x ELSE x + 1
  <2>1. i \in DOMAIN pl /\ i # k /\ q[x] = pl[i]
    BY <1>2, <1>3
  <2> QED
    BY <2>1
<1>6. ASSUME NEW i \in DOMAIN pl, i # k PROVE \E x \in DOMAIN q : q[x] = pl[i]
  <2>1. CASE i < k
    <3>1. i \in DOMAIN q /\ q[i] = pl[i]
      BY <1>2, <1>3, <2>1
    <3> QED
      BY <3>1
  <2>2. CASE i > k
    <3>1. i - 1 \in DOMAIN q /\ q[i - 1] = pl[i]
      BY <1>2, <1>3, <2>2
    <3> QED
      BY <3>1
  <2> QED
    BY <1>3, <1>6, <2>1, <2>2
<1> QED
  BY <1>1, <1>4, <1>5, <1>6 DEF Unique, q, node_remove_from_list

\* node_insert_to_list keeps the list sorted if the address and the station
\* are new to it.
LEMMA Inserts ==
  ASSUME NEW b \in Nat, NEW M, NEW pl \in Seq(Nodes(b, M)),
         NEW n \in Nodes(b, M)
  PROVE  /\ node_insert_to_list(pl, n) \in Seq(Nodes(b, M))
         /\ Leased(node_insert_to_list(pl, n), n.mac, n.ip)
         /\ Unique(pl)
              /\ (\A i \in DOMAIN pl : pl[i].ip # n.ip /\ pl[i].mac # n.mac)
            => Unique(node_insert_to_list(pl, n))
<1> DEFINE before == {i \in DOMAIN pl : \A j \in 1 .. i : ~(n.ip < pl[j].ip)}
           q == node_insert_to_list(pl, n)
<1>1. /\ Len(pl) \in Nat /\ DOMAIN pl = 1 .. Len(pl)
      /\ \A i \in DOMAIN pl : pl[i].ip \in Int
  BY NodeTypes
<1>2. n.ip \in Int
  BY DEF Nodes, From
<1>3. PICK k \in 0 .. Len(pl) : before = 1 .. k /\ Cardinality(before) = k
  <2>1. before \subseteq 1 .. Len(pl)
    BY <1>1
  <2>2. \A i \in before : \A j \in 1 .. i : j \in before
    BY <1>1
  <2> HIDE DEF before
  <2> QED
    BY <1>1, <2>1, <2>2, Prefix
<1>4. q = InsertAt(pl, k + 1, n)
  BY <1>3 DEF node_insert_to_list
<1>5. k + 1 \in 1 .. Len(pl) + 1
  BY <1>1, <1>3
<1> HIDE DEF q
<1>6. /\ q \in Seq(Nodes(b, M)) /\ Len(q) = Len(pl) + 1
      /\ \A i \in 1 .. Len(pl) + 1 :
           q[i] = IF i < k + 1 THEN pl[i] ELSE IF i = k + 1 THEN n ELSE pl[i - 1]
  <2> DEFINE m == k + 1
  <2>1. m \in 1 .. Len(pl) + 1 /\ q = InsertAt(pl, m, n)
    BY <1>4, <1>5
  <2> HIDE DEF m
  <2>2. q \in Seq(Nodes(b, M)) /\ Len(q) = Len(pl) + 1
    BY <2>1, Inserted
  <2>3. \A i \in 1 .. Len(pl) + 1 :
          q[i] = IF i < m THEN pl[i] ELSE IF i = m THEN n ELSE pl[i - 1]
    <3>1. \A i \in 1 .. Len(pl) + 1 :
            InsertAt(pl, m, n)[i] = IF i < m THEN pl[i] ELSE IF i = m THEN n ELSE pl[i - 1]
      <4>1. pl \in Seq(Nodes(b, M)) /\ n \in Nodes(b, M) /\ m \in 1 .. Len(pl) + 1
        BY <2>1
      <4> QED
        BY ONLY <4>1, Inserted
    <3> QED
      BY <2>1, <3>1, Zenon
  <2> QED
    BY <2>2, <2>3 DEF m
<1>7. DOMAIN q = 1 .. Len(pl) + 1
  BY <1>6, LenProperties
<1>8. k + 1 \in DOMAIN q /\ q[k + 1] = n
  BY <1>5, <1>6, <1>7
<1>9. ASSUME Unique(pl),
             \A i \in DOMAIN pl : pl[i].ip # n.ip /\ pl[i].mac # n.mac,
             NEW i \in DOMAIN q, NEW j \in DOMAIN q, i < j
      PROVE  q[i].ip < q[j].ip /\ q[i].mac # q[j].mac
  <2>1. \A x \in 1 .. k : x \in DOMAIN pl /\ pl[x].ip < n.ip
    <3> SUFFICES ASSUME NEW x \in 1 .. k
                 PROVE  x \in DOMAIN pl /\ pl[x].ip < n.ip
      OBVIOUS
    <3>1. x \in DOMAIN pl /\ x \in before /\ x \in 1 .. x
      BY <1>1, <1>3
    <3>2. ~(n.ip < pl[x].ip) /\ pl[x].ip # n.ip
      BY <3>1, <1>9
    <3> QED
      BY <3>1, <3>2, <1>1, <1>2
  <2>2. \A x \in DOMAIN pl : x > k => n.ip < pl[x].ip
    <3> SUFFICES ASSUME NEW x \in DOMAIN pl, x > k PROVE n.ip < pl[x].ip
      OBVIOUS
    <3>1. k + 1 \in DOMAIN pl /\ k + 1 \notin before
      <4>1. k + 1 \in 1 .. Len(pl) /\ k + 1 \notin 1 .. k
        <5> HIDE DEF before
        <5> QED
          BY <1>1
      <4> QED
        BY <1>1, <1>3, <4>1
    <3>2. PICK y \in 1 .. k + 1 : n.ip < pl[y].ip
      BY <3>1
    <3>3. y \in DOMAIN pl /\ y <= x
      BY <1>1, <3>1
    <3>4. y = x \/ pl[y].ip < pl[x].ip
      BY <1>1, <1>9, <3>3 DEF Unique
    <3> QED
      BY <1>1, <1>2, <3>2, <3>3, <3>4
  <2>3. CASE i < k + 1 /\ j < k + 1
    <3>1. i \in DOMAIN pl /\ j \in DOMAIN pl /\ q[i] = pl[i] /\ q[j] = pl[j]
      BY <1>1, <1>5, <1>6, <1>7, <2>3
    <3> QED
      BY <1>9, <3>1 DEF Unique
  <2>4. CASE i < k + 1 /\ j = k + 1
    <3>1. i \in 1 .. k /\ q[i] = pl[i] /\ q[j] = n
      BY <1>1, <1>5, <1>6, <1>7, <2>4
    <3> QED
      BY <1>9, <3>1, <2>1
  <2>5. CASE i < k + 1 /\ j > k + 1
    <3>1. i \in DOMAIN pl /\ j - 1 \in DOMAIN pl /\ i < j - 1
          /\ q[i] = pl[i] /\ q[j] = pl[j - 1]
      BY <1>1, <1>5, <1>6, <1>7, <2>5
    <3> QED
      BY <1>9, <3>1 DEF Unique
  <2>6. CASE i = k + 1
    <3>1. j - 1 \in DOMAIN pl /\ j - 1 > k /\ q[i] = n /\ q[j] = pl[j - 1]
      BY <1>1, <1>5, <1>6, <1>7, <1>9, <2>6
    <3> QED
      BY <1>9, <3>1, <2>2
  <2>7. CASE i > k + 1
    <3>1. i - 1 \in DOMAIN pl /\ j - 1 \in DOMAIN pl /\ i - 1 < j - 1
          /\ q[i] = pl[i - 1] /\ q[j] = pl[j - 1]
      BY <1>1, <1>5, <1>6, <1>7, <1>9, <2>7
    <3> QED
      BY <1>9, <3>1 DEF Unique
  <2> QED
    BY <1>5, <1>7, <1>9, <2>3, <2>4, <2>5, <2>6, <2>7
<1> QED
  BY <1>6, <1>8, <1>9 DEF Unique, Leased, q

\* What LastIndex finds.
LEMMA LastOf ==
  ASSUME NEW n \in Nat, NEW I, I \subseteq 1 .. n,
         NEW x, x = IF I = {} THEN 0 ELSE CHOOSE i \in I : \A j \in I : j <= i
  PROVE  x \in 0 .. n /\ (x = 0 <=> I = {}) /\ (x # 0 => x \in I)
<1>1. CASE I = {}
  BY <1>1
<1>2. CASE I # {}
  <2>1. \E i \in I : \A j \in I : j <= i
    BY <1>2, Greatest
  <2>2. x \in I
    BY <1>2, <2>1
  <2>3. \A y \in 1 .. n : y # 0 /\ y \in 0 .. n
    BY SMT
  <2>4. x # 0 /\ x \in 0 .. n
    BY <2>2, <2>3, Zenon
  <2> QED
    BY <1>2, <2>2, <2>4, Zenon
<1> QED
  BY <1>1, <1>2

\* The address wifi_softap_dhcps_client_update finds for a station without
\* one is on no other node, provided that no node lies below the range: the
\* nodes in order from its start are then all there are up to the gap.
LEMMA Frees ==
  ASSUME NEW b \in Nat, NEW M, NEW pl \in Seq(Nodes(b, M)), NEW pool,
         pool.start \in Nat, pool.start >= b, NEW mine \in 0 .. Len(pl)
  PROVE  /\ FreeAddress(pl, pool, mine) \in From(b)
         /\ Unique(pl) /\ pool.start = b /\ FreeAddress(pl, pool, mine) # 0 =>
              \A i \in DOMAIN pl :
                i # mine => pl[i].ip # FreeAddress(pl, pool, mine)
<1> DEFINE upto == IF mine = 0 THEN Len(pl) ELSE mine - 1
           In(i) == \A j \in 1 .. i : pl[j].ip = pool.start + j - 1
           inOrder == {i \in 1 .. upto : In(i)}
           free == FreeAddress(pl, pool, mine)
<1>1. /\ Len(pl) \in Nat /\ DOMAIN pl = 1 .. Len(pl)
      /\ \A i \in DOMAIN pl : pl[i].ip \in Nat /\ pl[i].ip >= b
  BY NodeTypes
<1>2. upto \in 0 .. Len(pl) /\ upto \in Nat
  BY <1>1
<1>3. PICK k \in 0 .. upto : inOrder = 1 .. k /\ Cardinality(inOrder) = k
  <2>1. inOrder \subseteq 1 .. upto
    OBVIOUS
  <2>2. \A i \in inOrder : \A j \in 1 .. i : j \in inOrder
    BY <1>2
  <2> HIDE DEF inOrder, upto
  <2> QED
    BY <1>2, <2>1, <2>2, Prefix
<1>4. free \in {0, pool.start + k}
  BY <1>3 DEF FreeAddress
<1>5. k \in Nat /\ k <= upto /\ k <= Len(pl)
  BY <1>1, <1>2, <1>3
<1>6. free \in From(b)
  BY <1>4, <1>5 DEF From
<1>7. \A j \in 1 .. k : j \in DOMAIN pl /\ pl[j].ip = pool.start + j - 1
  <2> SUFFICES ASSUME NEW j \in 1 .. k
               PROVE  j \in DOMAIN pl /\ pl[j].ip = pool.start + j - 1
    OBVIOUS
  <2>1. In(j)
    BY <1>3
  <2>2. j \in 1 .. j /\ j \in 1 .. Len(pl)
    BY <1>1, <1>5
  <2> QED
    BY <1>1, <2>1, <2>2
<1>8. k # upto => pl[k + 1].ip # pool.start + k
  <2> SUFFICES ASSUME k # upto, pl[k + 1].ip = pool.start + k PROVE FALSE
    OBVIOUS
  <2>1. \A j \in 1 .. k + 1 : j \in 1 .. k \/ j = k + 1
    BY <1>5
  <2>2. pool.start + (k + 1) - 1 = pool.start + k
    BY <1>5
  <2>3. In(k + 1)
    BY <1>7, <2>1, <2>2
  <2>4. k + 1 \in 1 .. upto
    <3> HIDE DEF upto
    <3> QED
      BY <1>2, <1>5
  <2>5. k + 1 \in inOrder
    BY <2>3, <2>4
  <2> HIDE DEF inOrder
  <2> QED
    BY <1>3, <1>5, <2>5
<1>9. k = upto => (mine = 0 /\ k = Len(pl)) \/ mine = k + 1
  <2>1. CASE mine = 0
    BY <2>1
  <2>2. CASE mine # 0
    <3>1. upto = mine - 1 /\ mine \in Int
      BY <1>1, <2>2
    <3> HIDE DEF upto, inOrder
    <3> QED
      BY <3>1
  <2> QED
    BY <2>1, <2>2
<1> HIDE DEF upto, inOrder, In
<1>10. ASSUME Unique(pl), pool.start = b, NEW i \in DOMAIN pl, i # mine,
             pl[i].ip = b + k
      PROVE  FALSE
  <2>1. i \in 1 .. Len(pl)
    BY <1>1
  <2>2. i > k
    <3> SUFFICES ASSUME i \in 1 .. k PROVE FALSE
      BY <1>5, <2>1
    <3>1. pl[i].ip = b + i - 1
      BY <1>7, <1>10
    <3> QED
      BY <1>5, <1>10, <3>1
  <2>3. k + 1 \in DOMAIN pl /\ k + 1 <= i
    BY <1>1, <1>5, <2>1, <2>2
  <2>4. pl[k + 1].ip >= b + k
    <3>1. CASE k = 0
      BY <1>1, <2>3, <3>1
    <3>2. CASE k # 0
      <4>1. k \in DOMAIN pl /\ pl[k].ip = b + k - 1 /\ k < k + 1
        BY <1>5, <1>7, <1>10, <3>2
      <4>2. pl[k].ip < pl[k + 1].ip
        BY <1>10, <2>3, <4>1 DEF Unique
      <4>3. pl[k + 1].ip \in Nat
        BY <1>1, <2>3
      <4> QED
        BY <1>5, <4>1, <4>2, <4>3
    <3> QED
      BY <3>1, <3>2
  <2>5. i # k + 1
    <3> SUFFICES ASSUME i = k + 1 PROVE FALSE
      OBVIOUS
    <3>1. k = upto
      BY <1>8, <1>10
    <3>2. k = Len(pl)
      BY <1>9, <1>10, <3>1
    <3> QED
      BY <1>1, <1>5, <2>1, <3>2
  <2>6. pl[k + 1].ip < pl[i].ip
    <3>1. k + 1 < i
      BY <1>5, <2>1, <2>3, <2>5
    <3> QED
      BY <1>10, <2>3, <3>1 DEF Unique
  <2>7. pl[k + 1].ip \in Nat
    BY <1>1, <2>3
  <2> QED
    BY <1>5, <1>10, <2>4, <2>6, <2>7
<1> QED
  BY <1>4, <1>6, <1>10

\* A station that names no address gets a node with the address it is told.
LEMMA Unnamed ==
  ASSUME NEW b \in Nat, NEW M, NEW pl \in Seq(Nodes(b, M)), NEW pool,
         pool.start \in Nat, pool.start >= b, NEW mac \in M,
         NEW u, u = UpdateUnnamed(pl, pool, mac)
  PROVE  /\ u.pl \in Seq(Nodes(b, M)) /\ u.addr \in From(b)
         /\ u.addr # 0 => Leased(u.pl, mac, u.addr)
         /\ Unique(pl) /\ pool.start = b => Unique(u.pl)
<1> DEFINE I == {i \in DOMAIN pl : pl[i].mac = mac}
           mine == LastIndex(pl, LAMBDA n : n.mac = mac)
           addr == FreeAddress(pl, pool, mine)
           node == Node(addr, mac, "DYNAMIC")
           rest == IF mine = 0 THEN pl ELSE node_remove_from_list(pl, mine)
<1>1. /\ Len(pl) \in Nat /\ DOMAIN pl = 1 .. Len(pl)
  BY NodeTypes
<1>2. mine = IF I = {} THEN 0 ELSE CHOOSE i \in I : \A j \in I : j <= i
  BY DEF LastIndex
<1>3. mine \in 0 .. Len(pl) /\ (mine = 0 <=> I = {}) /\ (mine # 0 => mine \in I)
  <2>1. I \subseteq 1 .. Len(pl)
    BY <1>1
  <2> HIDE DEF I, mine
  <2> QED
    BY <1>1, <1>2, <2>1, LastOf
<1>4. /\ addr \in From(b)
      /\ Unique(pl) /\ pool.start = b /\ addr # 0 =>
           \A i \in DOMAIN pl : i # mine => pl[i].ip # addr
  <2> HIDE DEF mine
  <2> QED
    BY <1>3, Frees
<1>5. rest \in Seq(Nodes(b, M)) /\ (Unique(pl) => Unique(rest))
  <2> HIDE DEF mine
  <2> QED
    BY <1>1, <1>3, Removes
<1>6. u = IF addr = 0 \/ (mine = 0 /\ addr > pool.end) THEN Refused(pl)
          ELSE [pl |-> node_insert_to_list(rest, node), addr |-> addr,
                renew |-> FALSE]
  BY DEF UpdateUnnamed
<1>7. \A x \in DOMAIN rest : \E i \in DOMAIN pl : i # mine /\ rest[x] = pl[i]
  <2> HIDE DEF mine
  <2>1. CASE mine = 0
    BY <1>1, <2>1
  <2>2. CASE mine # 0
    <3>1. mine \in 1 .. Len(pl)
      BY <1>1, <1>3, <2>2
    <3> QED
      BY <2>2, <3>1, Removes
  <2> QED
    BY <2>1, <2>2
<1>8. CASE u = Refused(pl)
  BY <1>8 DEF Refused, From
<1>9. CASE addr # 0 /\ u = [pl |-> node_insert_to_list(rest, node),
                           addr |-> addr, renew |-> FALSE]
  <2>1. node \in Nodes(b, M) /\ node.mac = mac /\ node.ip = addr
    <3> HIDE DEF addr
    <3> QED
      BY <1>4, <1>9, ServerAssumption DEF Node, Nodes
  <2>2. ASSUME Unique(pl), pool.start = b, NEW x \in DOMAIN rest
        PROVE  rest[x].ip # addr /\ rest[x].mac # mac
    <3>1. PICK i \in DOMAIN pl : i # mine /\ rest[x] = pl[i]
      BY <1>7
    <3>2. pl[i].mac # mac
      <4> HIDE DEF mine
      <4>1. CASE mine = 0
        BY <1>3, <4>1
      <4>2. CASE mine # 0
        <5>1. /\ mine \in DOMAIN pl /\ pl[mine].mac = mac /\ mine \in Int
              /\ i \in Int
          BY <1>1, <1>3, <4>2
        <5> QED
          BY <5>1, <3>1, <2>2 DEF Unique
      <4> QED
        BY <4>1, <4>2
    <3> QED
      BY <1>4, <1>9, <2>2, <3>1, <3>2
  <2> HIDE DEF rest, addr, node
  <2>3. /\ u.pl \in Seq(Nodes(b, M)) /\ Leased(u.pl, mac, addr)
        /\ Unique(pl) /\ pool.start = b => Unique(u.pl)
    <3> DEFINE ins == node_insert_to_list(rest, node)
    <3>1. /\ ins \in Seq(Nodes(b, M)) /\ Leased(ins, mac, addr)
          /\ Unique(pl) /\ pool.start = b => Unique(ins)
      BY <1>5, <2>1, <2>2, Inserts
    <3>2. u.pl = ins
      BY <1>9
    <3> HIDE DEF ins
    <3> QED
      BY <3>1, <3>2
  <2> QED
    BY <1>4, <1>9, <2>3
<1> HIDE DEF addr, mine, rest, node
<1> QED
  BY <1>6, <1>8, <1>9

\* So does a station that names its address, be it by renewing its node, by
\* taking over an offline one or with a new node.
LEMMA Named ==
  ASSUME NEW b \in Nat, NEW M, NEW pl \in Seq(Nodes(b, M)), NEW pool,
         NEW mac \in M, NEW ip \in From(b) \ {0},
         NEW u, u = UpdateNamed(pl, pool, mac, ip)
  PROVE  /\ u.pl \in Seq(Nodes(b, M)) /\ u.addr \in From(b)
         /\ u.addr # 0 => Leased(u.pl, mac, u.addr)
         /\ Unique(pl) => Unique(u.pl)
<1> DEFINE I == {i \in DOMAIN pl : pl[i].mac = mac}
           J == {i \in DOMAIN pl : pl[i].ip = ip}
           mine == LastIndex(pl, LAMBDA n : n.mac = mac)
           at == LastIndex(pl, LAMBDA n : n.ip = ip)
           node == Node(ip, mac, IF at # 0 /\ at = mine THEN "DYNAMIC"
                                 ELSE "STATIC")
           rest == IF mine = 0 THEN pl ELSE node_remove_from_list(pl, mine)
           taken == ReplaceAt(pl, at, node)
<1>1. Len(pl) \in Nat /\ DOMAIN pl = 1 .. Len(pl)
  BY NodeTypes
<1>2. mine = IF I = {} THEN 0 ELSE CHOOSE i \in I : \A j \in I : j <= i
  BY DEF LastIndex
<1>3. at = IF J = {} THEN 0 ELSE CHOOSE i \in J : \A j \in J : j <= i
  BY DEF LastIndex
<1>4. /\ mine \in 0 .. Len(pl) /\ (mine = 0 <=> I = {})
      /\ mine # 0 => mine \in 1 .. Len(pl) /\ pl[mine].mac = mac
  <2>1. I \subseteq 1 .. Len(pl) /\ \A i \in I : pl[i].mac = mac
    BY <1>1
  <2> HIDE DEF I, mine
  <2> QED
    BY <1>1, <1>2, <2>1, LastOf
<1>5. /\ at \in 0 .. Len(pl) /\ (at = 0 <=> J = {})
      /\ at # 0 => at \in 1 .. Len(pl) /\ pl[at].ip = ip
  <2>1. J \subseteq 1 .. Len(pl) /\ \A i \in J : pl[i].ip = ip
    BY <1>1
  <2> HIDE DEF J, at
  <2> QED
    BY <1>1, <1>3, <2>1, LastOf
<1>6. node \in Nodes(b, M) /\ node.mac = mac /\ node.ip = ip
  <2> HIDE DEF at, mine
  <2> QED
    BY ServerAssumption DEF Node, Nodes
<1>7. u = IF at # 0
          THEN IF at # mine /\ pl[at].state # "OFFLINE" THEN Refused(pl)
               ELSE [pl |-> IF mine \in {0, at} THEN taken
                            ELSE node_remove_from_list(taken, mine),
                     addr |-> ip, renew |-> at = mine]
          ELSE IF mine = 0 /\ ip > pool.end THEN Refused(pl)
               ELSE [pl |-> node_insert_to_list(rest, node), addr |-> ip,
                     renew |-> FALSE]
  BY Zenon DEF UpdateNamed
<1> HIDE DEF mine, at, node
<1>8. \A i \in DOMAIN pl : i # mine /\ Unique(pl) => pl[i].mac # mac
  <2> SUFFICES ASSUME NEW i \in DOMAIN pl, i # mine, Unique(pl), pl[i].mac = mac
               PROVE  FALSE
    OBVIOUS
  <2>1. mine # 0
    BY <1>4
  <2>2. mine \in 1 .. Len(pl) /\ pl[mine].mac = mac /\ i \in 1 .. Len(pl)
    BY <1>1, <1>4, <2>1
  <2>3. i < mine \/ mine < i
    BY <1>1, <2>2
  <2> QED
    BY <1>1, <2>2, <2>3 DEF Unique
<1>9. CASE u = Refused(pl)
  BY <1>9 DEF Refused, From
<1>10. CASE at = 0 /\ u = [pl |-> node_insert_to_list(rest, node),
                           addr |-> ip, renew |-> FALSE]
  <2>1. /\ rest \in Seq(Nodes(b, M)) /\ (Unique(pl) => Unique(rest))
        /\ \A x \in DOMAIN rest : \E i \in DOMAIN pl : i # mine /\ rest[x] = pl[i]
    <3>1. CASE mine = 0
      BY <1>1, <3>1
    <3>2. CASE mine # 0
      BY <1>4, <3>2, Removes
    <3> QED
      BY <3>1, <3>2
  <2>2. ASSUME Unique(pl), NEW x \in DOMAIN rest
        PROVE  rest[x].ip # node.ip /\ rest[x].mac # node.mac
    <3>1. PICK i \in DOMAIN pl : i # mine /\ rest[x] = pl[i]
      BY <2>1
    <3>2. pl[i].ip # ip
      BY <1>5, <1>10
    <3> QED
      BY <1>6, <1>8, <2>2, <3>1, <3>2
  <2> DEFINE ins == node_insert_to_list(rest, node)
  <2> HIDE DEF rest
  <2>3. /\ ins \in Seq(Nodes(b, M)) /\ Leased(ins, mac, ip)
        /\ Unique(pl) => Unique(ins)
    BY <1>6, <2>1, <2>2, Inserts
  <2>4. u.pl = ins /\ u.addr = ip
    BY <1>10
  <2> HIDE DEF ins
  <2> QED
    BY <2>3, <2>4
<1>11. CASE at # 0 /\ u = [pl |-> IF mine \in {0, at} THEN taken
                                  ELSE node_remove_from_list(taken, mine),
                           addr |-> ip, renew |-> at = mine]
  <2>1. at \in 1 .. Len(pl) /\ pl[at].ip = ip
    BY <1>5, <1>11
  <2>2. /\ taken \in Seq(Nodes(b, M)) /\ Len(taken) = Len(pl)
        /\ \A j \in 1 .. Len(pl) : taken[j] = IF j = at THEN node ELSE pl[j]
    BY <1>6, <2>1, ExceptSeq DEF ReplaceAt
  <2> HIDE DEF taken
  <2>3. DOMAIN taken = 1 .. Len(pl)
    BY <2>2, LenProperties
  <2>4. \A j \in 1 .. Len(pl) :
          /\ taken[j].ip = pl[j].ip
          /\ taken[j].mac = IF j = at THEN mac ELSE pl[j].mac
    BY <1>6, <2>1, <2>2
  <2>5. ASSUME mine \in {0, at}
        PROVE  Leased(taken, mac, ip) /\ (Unique(pl) => Unique(taken))
    <3>1. Leased(taken, mac, ip)
      BY <2>1, <2>3, <2>4 DEF Leased
    <3>2. ASSUME Unique(pl), NEW i \in 1 .. Len(pl), NEW j \in 1 .. Len(pl), i < j
          PROVE  taken[i].ip < taken[j].ip /\ taken[i].mac # taken[j].mac
      <4>1. pl[i].ip < pl[j].ip /\ pl[i].mac # pl[j].mac
        BY <1>1, <3>2 DEF Unique
      <4>2. \A x \in 1 .. Len(pl) : x # at => pl[x].mac # mac
        BY <1>1, <1>4, <1>8, <2>5, <3>2
      <4>3. i # j
        BY <3>2
      <4> QED
        BY <2>4, <4>1, <4>2, <4>3
    <3> QED
      BY <2>3, <3>1, <3>2 DEF Unique
  <2>6. ASSUME mine \notin {0, at}
        PROVE  LET q == node_remove_from_list(taken, mine)
               IN  /\ q \in Seq(Nodes(b, M)) /\ Leased(q, mac, ip)
                   /\ Unique(pl) => Unique(q)
    <3> DEFINE q == node_remove_from_list(taken, mine)
    <3>1. mine \in 1 .. Len(taken)
      BY <1>4, <2>2, <2>6
    <3>2. /\ q \in Seq(Nodes(b, M))
          /\ \E x \in DOMAIN q : q[x] = taken[at]
      <4>1. at \in DOMAIN taken /\ at # mine
        BY <2>1, <2>3, <2>6
      <4>2. taken \in Seq(Nodes(b, M))
        BY <2>2
      <4>3. q \in Seq(Nodes(b, M))
        BY <3>1, <4>2, Removes
      <4>4. \A i \in DOMAIN taken : i # mine =>
              \E x \in DOMAIN node_remove_from_list(taken, mine) :
                node_remove_from_list(taken, mine)[x] = taken[i]
        BY <3>1, <4>2, Removes
      <4> QED
        BY <4>1, <4>3, <4>4
    <3>3. Leased(q, mac, ip)
      BY <2>1, <2>4, <3>2 DEF Leased
    <3>4. ASSUME Unique(pl) PROVE Unique(q)
      <4> DEFINE At(x) == IF x < mine THEN x ELSE x + 1
      <4>1. Len(q) = Len(pl) - 1 /\ DOMAIN q = 1 .. Len(pl) - 1
        BY <2>2, <3>1, <3>2, Removed, LenProperties DEF node_remove_from_list
      <4>2. \A x \in 1 .. Len(pl) - 1 : q[x] = taken[At(x)]
        BY <2>2, <3>1, Removed DEF node_remove_from_list
      <4>3. \A x \in 1 .. Len(pl) - 1 : At(x) \in 1 .. Len(pl) /\ At(x) # mine
        BY <1>1, <2>2, <3>1
      <4>4. \A x, y \in 1 .. Len(pl) - 1 : x < y => At(x) < At(y)
        BY <1>1, <2>2, <3>1
      <4> HIDE DEF q, At
      <4>5. \A i, j \in 1 .. Len(pl) :
              i < j /\ i # mine /\ j # mine =>
                taken[i].ip < taken[j].ip /\ taken[i].mac # taken[j].mac
        <5> SUFFICES ASSUME NEW i \in 1 .. Len(pl), NEW j \in 1 .. Len(pl),
                            i < j, i # mine, j # mine
                     PROVE  /\ taken[i].ip < taken[j].ip
                            /\ taken[i].mac # taken[j].mac
          OBVIOUS
        <5>1. pl[i].ip < pl[j].ip /\ pl[i].mac # pl[j].mac
          BY <1>1, <3>4 DEF Unique
        <5>2. pl[i].mac # mac /\ pl[j].mac # mac
          BY <1>1, <1>8, <3>4
        <5>3. i # j
          OBVIOUS
        <5> QED
          BY <2>4, <5>1, <5>2, <5>3
      <4> QED
        BY <4>1, <4>2, <4>3, <4>4, <4>5, SMTT(30) DEF Unique
    <3> QED
      BY <3>2, <3>3, <3>4
  <2> DEFINE q == IF mine \in {0, at} THEN taken
                  ELSE node_remove_from_list(taken, mine)
  <2>7. /\ q \in Seq(Nodes(b, M)) /\ Leased(q, mac, ip)
        /\ Unique(pl) => Unique(q)
    BY <2>2, <2>5, <2>6
  <2>8. u.pl = q /\ u.addr = ip
    BY <1>11
  <2> HIDE DEF q
  <2> QED
    BY <2>7, <2>8
<1> HIDE DEF rest, taken
<1> QED
  BY <1>7, <1>9, <1>10, <1>11

\* A node goes offline and stays where it is.
LEMMA MarkedOffline ==
  ASSUME NEW b \in Nat, NEW M, NEW pl \in Seq(Nodes(b, M)),
         NEW i \in 1 .. Len(pl)
  PROVE  LET q == [pl EXCEPT ![i].state = "OFFLINE"]
         IN  /\ q \in Seq(Nodes(b, M)) /\ Len(q) = Len(pl)
             /\ Unique(pl) => Unique(q)
<1> DEFINE e == [pl[i] EXCEPT !.state = "OFFLINE"]
           q == [pl EXCEPT ![i].state = "OFFLINE"]
<1>1. Len(pl) \in Nat /\ DOMAIN pl = 1 .. Len(pl) /\ pl[i] \in Nodes(b, M)
  BY NodeTypes
<1>2. e \in Nodes(b, M) /\ e.ip = pl[i].ip /\ e.mac = pl[i].mac
  BY <1>1 DEF Nodes
<1>3. q = [pl EXCEPT ![i] = e]
  OBVIOUS
<1> HIDE DEF e, q
<1>4. /\ q \in Seq(Nodes(b, M)) /\ Len(q) = Len(pl)
      /\ \A j \in 1 .. Len(pl) : q[j] = IF j = i THEN e ELSE pl[j]
  BY <1>2, <1>3, ExceptSeq
<1>5. DOMAIN q = 1 .. Len(pl)
  BY <1>4, LenProperties
<1>6. \A j \in 1 .. Len(pl) : q[j].ip = pl[j].ip /\ q[j].mac = pl[j].mac
  BY <1>2, <1>4
<1>7. Unique(pl) => Unique(q)
  BY <1>1, <1>5, <1>6 DEF Unique
<1> QED
  BY <1>4, <1>7 DEF q

\* A station that leaves disturbs no other node.
LEMMA Leaves ==
  ASSUME NEW b \in Nat, NEW M, NEW pl \in Seq(Nodes(b, M)), NEW mac, NEW ip,
         NEW force
  PROVE  LET q == wifi_softap_dhcps_client_leave(pl, mac, ip, force)
         IN  q \in Seq(Nodes(b, M)) /\ (Unique(pl) => Unique(q))
<1> DEFINE I == {i \in DOMAIN pl : pl[i].mac = mac /\ pl[i].ip = ip}
           i == CHOOSE k \in I : \A j \in I : k <= j
           q == wifi_softap_dhcps_client_leave(pl, mac, ip, force)
<1>1. Len(pl) \in Nat /\ DOMAIN pl = 1 .. Len(pl)
  BY NodeTypes
<1>2. CASE I = {}
  BY <1>2 DEF wifi_softap_dhcps_client_leave
<1>3. CASE I # {}
  <2>1. I \subseteq Nat /\ I \subseteq 1 .. Len(pl)
    BY <1>1
  <2>2. \E k \in I : \A j \in I : k <= j
    <3> HIDE DEF I
    <3> QED
      BY <1>3, <2>1, Least
  <2>3. i \in 1 .. Len(pl)
    <3> HIDE DEF I
    <3> QED
      BY <2>1, <2>2
  <2>4. \/ q = node_remove_from_list(pl, i)
        \/ q = [pl EXCEPT ![i].state = "OFFLINE"]
    BY <1>3 DEF wifi_softap_dhcps_client_leave
  <2> HIDE DEF i, q
  <2>5. q \in Seq(Nodes(b, M)) /\ (Unique(pl) => Unique(q))
    <3>1. CASE q = node_remove_from_list(pl, i)
      BY <2>3, <3>1, Removes
    <3>2. CASE q = [pl EXCEPT ![i].state = "OFFLINE"]
      BY <2>3, <3>2, MarkedOffline
    <3> QED
      BY <2>4, <3>1, <3>2
  <2> QED
    BY <2>5 DEF q
<1> QED
  BY <1>2, <1>3

\* kill_oldest_dhcps_pool frees one node of a list that has two.
LEMMA Kills ==
  ASSUME NEW b \in Nat, NEW M, NEW pl \in Seq(Nodes(b, M)), Len(pl) >= 2
  PROVE  LET q == kill_oldest_dhcps_pool(pl)
         IN  q \in Seq(Nodes(b, M)) /\ (Unique(pl) => Unique(q))
<1> DEFINE C == 2 .. Len(pl)
           Older(i, j) == \/ pl[i].timer < pl[j].timer
                          \/ pl[i].timer = pl[j].timer /\ i <= j
           min == CHOOSE i \in C : \A j \in C : Older(i, j)
           off == [pl EXCEPT ![Len(pl)].state = "OFFLINE"]
<1>1. /\ Len(pl) \in Nat /\ DOMAIN pl = 1 .. Len(pl)
      /\ \A i \in DOMAIN pl : pl[i].timer \in Nat
  BY NodeTypes
<1>2. \A i \in C : i \in Nat /\ i \in 1 .. Len(pl) /\ pl[i].timer \in Nat
  BY <1>1
<1>3. 2 \in C /\ Len(pl) \in 1 .. Len(pl)
  BY <1>1
<1> HIDE DEF C
<1>4. \E i \in C : \A j \in C : Older(i, j)
  <2> DEFINE T == {pl[i].timer : i \in C}
  <2>1. T \subseteq Nat /\ T # {}
    BY <1>2, <1>3
  <2>2. PICK t \in T : \A y \in T : t <= y
    BY <2>1, Least
  <2> DEFINE U == {i \in C : pl[i].timer = t}
  <2>3. U \subseteq Nat /\ U # {}
    BY <1>2
  <2>4. PICK i \in U : \A j \in U : i <= j
    <3> HIDE DEF U
    <3> QED
      BY <2>3, Least
  <2>5. ASSUME NEW j \in C PROVE Older(i, j)
    <3>1. /\ t \in Nat /\ pl[j].timer \in Nat /\ t <= pl[j].timer
          /\ pl[i].timer = t
      BY <1>2, <2>2
    <3>2. CASE pl[j].timer = t
      BY <2>4, <3>1, <3>2
    <3>3. CASE pl[j].timer # t
      BY <3>1, <3>3
    <3> QED
      BY <3>2, <3>3
  <2> HIDE DEF Older
  <2> QED
    BY <2>5
<1>5. min \in 1 .. Len(pl)
  <2> HIDE DEF Older
  <2> QED
    BY <1>2, <1>4
<1>6. kill_oldest_dhcps_pool(pl) = node_remove_from_list(off, min)
  BY DEF kill_oldest_dhcps_pool, C
<1>7. /\ off \in Seq(Nodes(b, M)) /\ Len(off) = Len(pl)
      /\ Unique(pl) => Unique(off)
  BY <1>3, MarkedOffline
<1> HIDE DEF off, min
<1>8. LET q == node_remove_from_list(off, min)
      IN  q \in Seq(Nodes(b, M)) /\ (Unique(pl) => Unique(q))
  BY <1>5, <1>7, Removes
<1> QED
  BY <1>6, <1>8

\* The minute timer of the server frees nodes and orders none anew.
LEMMA Ages ==
  ASSUME NEW b \in Nat, NEW M, NEW pl \in Seq(Nodes(b, M))
  PROVE  LET q == dhcps_coarse_tmr(pl)
         IN  q \in Seq(Nodes(b, M)) /\ (Unique(pl) => Unique(q))
<1> DEFINE aged == [i \in DOMAIN pl |-> Aged(pl[i])]
           A == {aged[i] : i \in DOMAIN pl}
           I == {i \in DOMAIN pl : aged[i].timer # 0}
           kept == Pick(aged, I)
<1>1. /\ Len(pl) \in Nat /\ DOMAIN pl = 1 .. Len(pl)
      /\ \A i \in DOMAIN pl : pl[i] \in Nodes(b, M) /\ pl[i].timer \in Nat \ {0}
  BY NodeTypes
<1>2. \A i \in DOMAIN pl :
        /\ aged[i].ip = pl[i].ip /\ aged[i].mac = pl[i].mac
        /\ aged[i].timer # 0 => aged[i] \in Nodes(b, M)
  <2> SUFFICES ASSUME NEW n \in Nodes(b, M), n.timer \in Nat \ {0}
               PROVE  /\ Aged(n).ip = n.ip /\ Aged(n).mac = n.mac
                      /\ Aged(n).timer # 0 => Aged(n) \in Nodes(b, M)
    BY <1>1
  <2>1. CASE n.type = "DYNAMIC"
    <3>1. Aged(n) = [n EXCEPT !.timer = n.timer - 1]
      BY <2>1 DEF Aged
    <3>2. n.timer - 1 # 0 => n.timer - 1 \in Nat \ {0}
      OBVIOUS
    <3> QED
      BY <3>1, <3>2 DEF Nodes
  <2>2. CASE n.type # "DYNAMIC"
    BY <2>2 DEF Aged
  <2> QED
    BY <2>1, <2>2
<1>3. aged \in [1 .. Len(pl) -> A]
  BY <1>1
<1> HIDE DEF aged
<1>4. aged \in Seq(A) /\ Len(aged) = Len(pl)
  BY <1>1, <1>3
<1>5. I \subseteq 1 .. Len(aged)
  BY <1>1, <1>4
<1> HIDE DEF A
<1>6. /\ kept \in Seq(A)
      /\ \E f \in [DOMAIN kept -> I] :
           /\ \A k \in DOMAIN kept : kept[k] = aged[f[k]]
           /\ \A k, l \in DOMAIN kept : k < l => f[k] < f[l]
  <2> HIDE DEF I
  <2> QED
    BY <1>4, <1>5, Picked
<1>7. PICK f \in [DOMAIN kept -> I] :
        /\ \A k \in DOMAIN kept : kept[k] = aged[f[k]]
        /\ \A k, l \in DOMAIN kept : k < l => f[k] < f[l]
  BY <1>6
<1>8. Len(kept) \in Nat /\ DOMAIN kept = 1 .. Len(kept)
      /\ kept \in [1 .. Len(kept) -> A]
  BY <1>6, LenProperties
<1> HIDE DEF kept
<1>9. \A k \in DOMAIN kept : f[k] \in DOMAIN pl /\ kept[k] \in Nodes(b, M)
        /\ kept[k].ip = pl[f[k]].ip /\ kept[k].mac = pl[f[k]].mac
  BY <1>2, <1>7
<1>10. kept \in Seq(Nodes(b, M))
  <2>1. kept \in [1 .. Len(kept) -> Nodes(b, M)]
    BY <1>8, <1>9
  <2> QED
    BY <1>8, <2>1, SeqDef
<1>11. Unique(pl) => Unique(kept)
  <2> SUFFICES ASSUME Unique(pl), NEW k \in DOMAIN kept, NEW l \in DOMAIN kept,
                      k < l
               PROVE  kept[k].ip < kept[l].ip /\ kept[k].mac # kept[l].mac
    BY DEF Unique
  <2>1. f[k] < f[l]
    BY <1>7
  <2>2. pl[f[k]].ip < pl[f[l]].ip /\ pl[f[k]].mac # pl[f[l]].mac
    BY <1>9, <2>1 DEF Unique
  <2> QED
    BY <1>9, <2>2
<1>12. Len(kept) >= MAX_STATION_NUM => Len(kept) >= 2
  BY <1>8, ServerAssumption
<1>13. dhcps_coarse_tmr(pl) =
         IF Len(kept) >= MAX_STATION_NUM THEN kill_oldest_dhcps_pool(kept)
         ELSE kept
  BY DEF dhcps_coarse_tmr, kept, aged
<1> QED
  BY <1>10, <1>11, <1>12, <1>13, Kills

\* The answer to a message: an ACK names the address its list now has for
\* the station, and the list stays sorted.
LEMMA Parses ==
  ASSUME NEW b \in Nat, NEW M, NEW pl \in Seq(Nodes(b, M)), NEW pool,
         pool.start \in Nat, pool.start >= b, NEW mac \in M,
         NEW m, m.ci \in From(b), NEW p, p = parse_msg(pl, pool, mac, m)
  PROVE  /\ p.pl \in Seq(Nodes(b, M)) /\ p.addr \in From(b)
         /\ p.answer = "ACK" /\ p.addr # 0 => Leased(p.pl, mac, p.addr)
         /\ Unique(pl) /\ pool.start = b => Unique(p.pl)
<1> DEFINE u == wifi_softap_dhcps_client_update(pl, pool, mac, m.ci)
           s == parse_options(m, u.addr, u.renew)
<1>1. /\ u.pl \in Seq(Nodes(b, M)) /\ u.addr \in From(b)
      /\ u.addr # 0 => Leased(u.pl, mac, u.addr)
      /\ Unique(pl) /\ pool.start = b => Unique(u.pl)
  <2>1. CASE m.ci = 0
    <3>1. u = UpdateUnnamed(pl, pool, mac)
      BY <2>1 DEF wifi_softap_dhcps_client_update
    <3> HIDE DEF u
    <3> QED
      BY <3>1, Unnamed
  <2>2. CASE m.ci # 0
    <3>1. u = UpdateNamed(pl, pool, mac, m.ci)
      BY <2>2 DEF wifi_softap_dhcps_client_update
    <3> HIDE DEF u
    <3> QED
      BY <2>2, <3>1, Named
  <2> QED
    BY <2>1, <2>2
<1> HIDE DEF u, s
<1> DEFINE v == IF s = "RELEASE"
                THEN wifi_softap_dhcps_client_leave(u.pl, mac, m.ci, TRUE)
                ELSE u.pl
<1>2. p = [pl |-> v, answer |-> s, addr |-> u.addr]
  BY DEF parse_msg, u, s
<1>3. v \in Seq(Nodes(b, M)) /\ (Unique(u.pl) => Unique(v))
  BY <1>1, Leaves
<1>4. s = "ACK" => v = u.pl
  OBVIOUS
<1> HIDE DEF v
<1> QED
  BY <1>1, <1>2, <1>3, <1>4
-----------------------------------------------------------------------------
(* The client. *)

\* The messages of a station.
Msgs(b) ==
  [type : {"DISCOVER", "REQUEST", "DECLINE", "RELEASE"}, ci : From(b),
   req : From(b), cur : BOOLEAN]

\* The answers of the server.
Answers(b) ==
  [type : {"OFFER", "ACK", "NAK"}, yi : From(b), cur : BOOLEAN,
   lease : {LeaseTime}]

\* What the record of a station always has.
Known(b, r) ==
  /\ {"st", "armed", "up", "ip", "off", "out", "bump"} \subseteq DOMAIN r
  /\ r.st \in States /\ r.armed \in BOOLEAN
  /\ r.ip \in From(b) /\ r.off \in From(b) /\ r.out \in Seq(Msgs(b))

\* A client with no address yet has a timeout running, and one that is bound
\* has its interface up.
Sane(b, r) ==
  /\ Known(b, r)
  /\ r.st \notin {"OFF", "BOUND"} => r.armed
  /\ r.st = "BOUND" => r.up

\* The step from r to q takes over no answer of the server: an address under
\* scrutiny or in use was so before, or was under scrutiny until now.
Quiet(r, q) ==
  /\ q.st = "CHECKING" => r.st = "CHECKING" /\ q.off = r.off
  /\ q.st = "BOUND" => \/ r.st = "BOUND" /\ q.ip = r.ip
                       \/ r.st = "CHECKING" /\ q.ip = r.off

\* The step from r to q is the receipt of the acknowledgement m.
Learns(r, m, q) ==
  /\ m.cur /\ m.type = "ACK"
  /\ \/ q.st = "CHECKING" /\ q.off = m.yi
     \/ q.st = "BOUND" /\ r.st \in Extending

\* A new transaction identifier leaves the messages under way as they are,
\* but current.
LEMMA StaleMsgs ==
  ASSUME NEW b, NEW q
  PROVE  /\ q \in Seq(Msgs(b)) => Stale(q) \in Seq(Msgs(b))
         /\ q \in Seq(Answers(b)) =>
              /\ Stale(q) \in Seq(Answers(b)) /\ DOMAIN Stale(q) = DOMAIN q
              /\ \A i \in DOMAIN q : ~Stale(q)[i].cur
<1>1. ASSUME q \in Seq(Msgs(b)) PROVE Stale(q) \in Seq(Msgs(b))
  <2>1. /\ Len(q) \in Nat /\ DOMAIN q = 1 .. Len(q)
        /\ \A i \in 1 .. Len(q) : q[i] \in Msgs(b)
    BY <1>1, LenProperties, ElementOfSeq
  <2>2. \A i \in 1 .. Len(q) : [q[i] EXCEPT !.cur = FALSE] \in Msgs(b)
    BY <2>1 DEF Msgs
  <2>3. Stale(q) = [i \in 1 .. Len(q) |-> [q[i] EXCEPT !.cur = FALSE]]
    BY <2>1 DEF Stale
  <2>4. Stale(q) \in [1 .. Len(q) -> Msgs(b)]
    BY <2>2, <2>3
  <2> QED
    BY <2>1, <2>4, SeqDef
<1>2. ASSUME q \in Seq(Answers(b))
      PROVE  /\ Stale(q) \in Seq(Answers(b)) /\ DOMAIN Stale(q) = DOMAIN q
             /\ \A i \in DOMAIN q : ~Stale(q)[i].cur
  <2>1. /\ Len(q) \in Nat /\ DOMAIN q = 1 .. Len(q)
        /\ \A i \in 1 .. Len(q) : q[i] \in Answers(b)
    BY <1>2, LenProperties, ElementOfSeq
  <2>2. \A i \in 1 .. Len(q) : /\ [q[i] EXCEPT !.cur = FALSE] \in Answers(b)
                               /\ [q[i] EXCEPT !.cur = FALSE].cur = FALSE
    BY <2>1 DEF Answers
  <2>3. Stale(q) = [i \in 1 .. Len(q) |-> [q[i] EXCEPT !.cur = FALSE]]
    BY <2>1 DEF Stale
  <2>4. Stale(q) \in [1 .. Len(q) -> Answers(b)]
    BY <2>2, <2>3
  <2>5. Stale(q) \in Seq(Answers(b))
    BY <2>1, <2>4, SeqDef
  <2> QED
    BY <2>1, <2>2, <2>3, <2>5
<1> QED
  BY <1>1, <1>2

\* dhcp_set_state changes no address.
LEMMA StateSet ==
  ASSUME NEW b, NEW r, Known(b, r), NEW s \in States
  PROVE  /\ Known(b, dhcp_set_state(r, s)) /\ dhcp_set_state(r, s).st = s
         /\ dhcp_set_state(r, s).off = r.off /\ dhcp_set_state(r, s).ip = r.ip
         /\ dhcp_set_state(r, s).up = r.up
BY DEF Known, dhcp_set_state

\* dhcp_create_msg, with memory or without, changes no address and no state.
LEMMA MessageMade ==
  ASSUME NEW b, NEW r, Known(b, r),
         NEW type \in {"DISCOVER", "REQUEST", "DECLINE", "RELEASE"},
         NEW req \in From(b), NEW mem
  PROVE  /\ Known(b, dhcp_create_msg(r, type, req, mem))
         /\ dhcp_create_msg(r, type, req, mem).st = r.st
         /\ dhcp_create_msg(r, type, req, mem).off = r.off
<1> DEFINE new == type # "REQUEST" /\ r.tries = 0
           msg == [type |-> type, ci |-> Ciaddr(r, type), req |-> req,
                   cur |-> TRUE]
           old == IF new THEN Stale(r.out) ELSE r.out
<1>1. msg \in Msgs(b)
  BY DEF Known, Msgs, Ciaddr, From
<1>2. old \in Seq(Msgs(b))
  BY StaleMsgs DEF Known
<1>3. Append(old, msg) \in Seq(Msgs(b))
  BY <1>1, <1>2, AppendProperties
<1> DEFINE q == [r EXCEPT !.bump = @ \/ new, !.out = Append(old, msg)]
<1>4. dhcp_create_msg(r, type, req, mem) = IF mem THEN q ELSE r
  BY DEF dhcp_create_msg, Known
<1> HIDE DEF old, msg, new
<1>5. Known(b, q) /\ q.st = r.st /\ q.off = r.off
  BY <1>3 DEF Known
<1> QED
  BY <1>4, <1>5

\* Whoever waits has a timeout running.
LEMMA Awaits ==
  ASSUME NEW b, NEW r, Known(b, r), r.st # "BOUND"
  PROVE  Sane(b, Await(r)) /\ Await(r).st = r.st /\ Await(r).off = r.off
BY DEF Known, Sane, Await

\* What the senders of the client have in common.
LEMMA Sends ==
  ASSUME NEW b, NEW r, Known(b, r), NEW s \in States \ {"BOUND"},
         NEW type \in {"DISCOVER", "REQUEST", "DECLINE", "RELEASE"},
         NEW req \in From(b), NEW mem
  PROVE  LET q == Await(dhcp_create_msg(dhcp_set_state(r, s), type, req, mem))
         IN  Sane(b, q) /\ q.st = s
<1> DEFINE t == dhcp_set_state(r, s)
           u == dhcp_create_msg(t, type, req, mem)
<1>1. Known(b, t) /\ t.st = s
  BY StateSet
<1> HIDE DEF t
<1>2. Known(b, u) /\ u.st = s
  BY <1>1, MessageMade
<1> HIDE DEF u
<1>3. Sane(b, Await(u)) /\ Await(u).st = s
  BY <1>2, Awaits
<1> QED
  BY <1>3 DEF t, u

\* Where each function of dhcp.c that sends or binds leaves the client.
LEMMA Senders ==
  ASSUME NEW b, NEW r, Known(b, r), NEW mem
  PROVE  /\ Sane(b, dhcp_discover(r, mem))
         /\ dhcp_discover(r, mem).st = "SELECTING"
         /\ Sane(b, dhcp_select(r, mem))
         /\ dhcp_select(r, mem).st = "REQUESTING"
         /\ Sane(b, dhcp_check(r)) /\ dhcp_check(r).st = "CHECKING"
         /\ dhcp_check(r).off = r.off
         /\ Sane(b, dhcp_renew(r, mem)) /\ dhcp_renew(r, mem).st = "RENEWING"
         /\ Sane(b, dhcp_rebind(r, mem)) /\ dhcp_rebind(r, mem).st = "REBINDING"
         /\ Sane(b, dhcp_reboot(r, mem)) /\ dhcp_reboot(r, mem).st = "REBOOTING"
         /\ Sane(b, dhcp_decline(r, mem))
         /\ dhcp_decline(r, mem).st = "BACKING_OFF"
         /\ Sane(b, dhcp_bind(r)) /\ dhcp_bind(r).st = "BOUND"
         /\ dhcp_bind(r).ip = r.off
         /\ Known(b, dhcp_release(r, mem))
<1>1. {"OFF", "SELECTING", "REQUESTING", "CHECKING", "RENEWING", "REBINDING",
       "REBOOTING", "BACKING_OFF"} \subseteq States \ {"BOUND"}
      /\ "BOUND" \in States
  BY DEF States
<1>2. 0 \in From(b) /\ r.off \in From(b)
  BY DEF From, Known
<1>3. Sane(b, dhcp_discover(r, mem)) /\ dhcp_discover(r, mem).st = "SELECTING"
  <2>1. Known(b, [r EXCEPT !.off = 0])
    BY <1>2 DEF Known
  <2> QED
    BY <2>1, <1>1, <1>2, Sends DEF dhcp_discover
<1>4. /\ Sane(b, dhcp_check(r)) /\ dhcp_check(r).st = "CHECKING"
      /\ dhcp_check(r).off = r.off
  <2> DEFINE t == dhcp_set_state(r, "CHECKING")
  <2>1. Known(b, t) /\ t.st = "CHECKING" /\ t.off = r.off
    BY <1>1, StateSet
  <2> HIDE DEF t
  <2>2. Sane(b, Await(t)) /\ Await(t).st = "CHECKING" /\ Await(t).off = r.off
    BY <2>1, Awaits
  <2> QED
    BY <2>2 DEF dhcp_check, t
<1>5. /\ Sane(b, dhcp_bind(r)) /\ dhcp_bind(r).st = "BOUND"
      /\ dhcp_bind(r).ip = r.off
  <2> DEFINE q == [r EXCEPT
              !.t1 = IF dhcp_bindT1(r) >= dhcp_bindT2(r) THEN 0
                     ELSE dhcp_bindT1(r),
              !.t2 = dhcp_bindT2(r), !.ip = r.off, !.up = TRUE]
  <2>1. Known(b, q) /\ q.ip = r.off /\ q.up = TRUE
    BY DEF Known
  <2>2. dhcp_bind(r) = dhcp_set_state(q, "BOUND")
    BY DEF dhcp_bind
  <2> HIDE DEF q
  <2> DEFINE w == dhcp_set_state(q, "BOUND")
  <2>3. Known(b, w) /\ w.st = "BOUND" /\ w.ip = r.off /\ w.up = TRUE
    <3>1. Known(b, q) /\ "BOUND" \in States
      BY <2>1, <1>1
    <3>2. Known(b, w) /\ w.st = "BOUND" /\ w.ip = q.ip
      BY <3>1, StateSet
    <3>3. w.up = q.up
      BY <3>1, StateSet
    <3> QED
      BY <2>1, <3>2, <3>3, Zenon
  <2> HIDE DEF w
  <2> QED
    BY <2>2, <2>3 DEF Sane, w
<1>6. Known(b, dhcp_release(r, mem))
  <2> DEFINE o == dhcp_set_state(r, "OFF")
             c == [o EXCEPT !.off = 0, !.lease = 0]
             t == dhcp_create_msg(c, "RELEASE", 0, mem)
             s == Await(t)
  <2>1. Known(b, o) /\ o.st = "OFF"
    BY <1>1, StateSet
  <2>2. Known(b, c) /\ c.st = "OFF"
    BY <1>2, <2>1 DEF Known
  <2> HIDE DEF c
  <2>3. Known(b, t) /\ t.st = "OFF"
    BY <1>2, <2>2, MessageMade
  <2> HIDE DEF t
  <2>4. Known(b, s)
    BY <2>3, Awaits DEF Sane
  <2> HIDE DEF s
  <2>5. Known(b, [s EXCEPT !.up = FALSE, !.ip = 0])
    BY <1>2, <2>4 DEF Known
  <2> QED
    BY <2>5 DEF dhcp_release, s, t, c
<1>7. \A s \in States \ {"BOUND"} :
        LET q == Await(dhcp_create_msg(dhcp_set_state(r, s), "REQUEST", r.off,
                                       mem))
        IN  Sane(b, q) /\ q.st = s
  BY <1>2, Sends
<1>8. /\ Sane(b, dhcp_decline(r, mem))
      /\ dhcp_decline(r, mem).st = "BACKING_OFF"
  BY <1>1, <1>2, Sends DEF dhcp_decline
<1>9. /\ Sane(b, dhcp_select(r, mem)) /\ dhcp_select(r, mem).st = "REQUESTING"
      /\ Sane(b, dhcp_renew(r, mem)) /\ dhcp_renew(r, mem).st = "RENEWING"
      /\ Sane(b, dhcp_rebind(r, mem)) /\ dhcp_rebind(r, mem).st = "REBINDING"
      /\ Sane(b, dhcp_reboot(r, mem)) /\ dhcp_reboot(r, mem).st = "REBOOTING"
  BY <1>1, <1>7 DEF dhcp_select, dhcp_renew, dhcp_rebind, dhcp_reboot
<1> QED
  BY <1>3, <1>4, <1>5, <1>6, <1>8, <1>9

\* Every step of the client but dhcp_recv is quiet, whether memory for the
\* message is found or not.
LEMMA Handlers ==
  ASSUME NEW b, NEW r, Sane(b, r), NEW mem
  PROVE  /\ \A a : /\ Sane(b, dhcp_arp_reply(r, a, mem))
                   /\ Quiet(r, dhcp_arp_reply(r, a, mem))
         /\ Sane(b, dhcp_fine_tmr(r, mem)) /\ Quiet(r, dhcp_fine_tmr(r, mem))
         /\ Sane(b, dhcp_coarse_tmr(r, mem))
         /\ Quiet(r, dhcp_coarse_tmr(r, mem))
         /\ Sane(b, dhcp_start(r, mem)) /\ Quiet(r, dhcp_start(r, mem))
         /\ Sane(b, dhcp_stop(r)) /\ Quiet(r, dhcp_stop(r))
         /\ Sane(b, dhcp_network_changed(r, mem))
         /\ Quiet(r, dhcp_network_changed(r, mem))
<1>1. Known(b, r)
  BY DEF Sane
<1>2. \A q : q.st \notin {"CHECKING", "BOUND"} => Quiet(r, q)
  BY DEF Quiet
<1>3. ASSUME NEW a PROVE /\ Sane(b, dhcp_arp_reply(r, a, mem))
                         /\ Quiet(r, dhcp_arp_reply(r, a, mem))
  <2>1. /\ Sane(b, dhcp_decline(r, mem)) /\ Quiet(r, dhcp_decline(r, mem))
        /\ Quiet(r, r)
    BY <1>1, <1>2, Senders DEF Quiet
  <2> QED
    BY <2>1 DEF dhcp_arp_reply
<1>4. Sane(b, dhcp_fine_tmr(r, mem)) /\ Quiet(r, dhcp_fine_tmr(r, mem))
  <2> DEFINE q == [r EXCEPT !.armed = FALSE]
  <2>1. /\ Known(b, q) /\ q.st = r.st /\ q.off = r.off /\ q.ip = r.ip
        /\ q.up = r.up
    BY <1>1 DEF Known
  <2> HIDE DEF q
  <2>2. q.st \in {"OFF", "BOUND"} => Sane(b, q) /\ Quiet(r, q)
    BY <2>1 DEF Sane, Quiet
  <2>3. /\ Sane(b, dhcp_discover(dhcp_release(q, mem), mem))
        /\ Quiet(r, dhcp_discover(dhcp_release(q, mem), mem))
    BY <1>2, <2>1, Senders
  <2>4. /\ Sane(b, dhcp_discover(q, mem)) /\ Quiet(r, dhcp_discover(q, mem))
        /\ Sane(b, dhcp_select(q, mem)) /\ Quiet(r, dhcp_select(q, mem))
        /\ Sane(b, dhcp_renew(q, mem)) /\ Quiet(r, dhcp_renew(q, mem))
        /\ Sane(b, dhcp_rebind(q, mem)) /\ Quiet(r, dhcp_rebind(q, mem))
        /\ Sane(b, dhcp_reboot(q, mem)) /\ Quiet(r, dhcp_reboot(q, mem))
    BY <1>2, <2>1, Senders
  <2>5. q.st = "CHECKING" =>
          /\ Sane(b, dhcp_check(q)) /\ Quiet(r, dhcp_check(q))
          /\ Sane(b, dhcp_bind(q)) /\ Quiet(r, dhcp_bind(q))
    BY <2>1, Senders DEF Quiet
  <2>6. q.st \in States
    BY <2>1 DEF Known
  <2>7. Sane(b, dhcp_timeout(q, mem)) /\ Quiet(r, dhcp_timeout(q, mem))
    BY <2>2, <2>3, <2>4, <2>5, <2>6 DEF dhcp_timeout, States
  <2> QED
    BY <2>7 DEF dhcp_fine_tmr, q
<1>5. Sane(b, dhcp_coarse_tmr(r, mem)) /\ Quiet(r, dhcp_coarse_tmr(r, mem))
  <2> DEFINE Like(q) == /\ Sane(b, q) /\ q.st = r.st /\ q.off = r.off
                        /\ q.ip = r.ip
  <2>1. ASSUME NEW q, Like(q)
        PROVE  /\ Sane(b, dhcp_t1_timeout(q, mem))
               /\ Quiet(r, dhcp_t1_timeout(q, mem))
               /\ Sane(b, dhcp_t2_timeout(q, mem))
               /\ Quiet(r, dhcp_t2_timeout(q, mem)) /\ Quiet(r, q)
    <3>1. Quiet(r, q) /\ Known(b, q)
      BY <2>1 DEF Quiet, Sane
    <3>2. /\ Sane(b, dhcp_renew(q, mem)) /\ Quiet(r, dhcp_renew(q, mem))
          /\ Sane(b, dhcp_rebind(q, mem)) /\ Quiet(r, dhcp_rebind(q, mem))
      BY <1>2, <3>1, Senders
    <3> QED
      BY <2>1, <3>1, <3>2 DEF dhcp_t1_timeout, dhcp_t2_timeout
  <2> DEFINE s == [r EXCEPT !.t2 = Dec(@)]
             u == [s EXCEPT !.t1 = Dec(@)]
  <2>2. Like(s)
    BY DEF Sane, Known
  <2>3. Like(u)
    <3> HIDE DEF s
    <3> QED
      BY <2>2 DEF Sane, Known
  <2> HIDE DEF Like
  <2>4. dhcp_coarse_tmr(r, mem) =
          IF r.t2 = 1 THEN dhcp_t2_timeout(s, mem)
          ELSE IF r.t1 = 1 THEN dhcp_t1_timeout(u, mem) ELSE u
    BY DEF dhcp_coarse_tmr
  <2> HIDE DEF s, u
  <2> QED
    BY <2>1, <2>2, <2>3, <2>4 DEF Like
<1>6. \A q : Known(b, q) => Sane(b, dhcp_stop(q)) /\ Quiet(r, dhcp_stop(q))
  <2> SUFFICES ASSUME NEW q, Known(b, q)
               PROVE  Sane(b, dhcp_stop(q)) /\ Quiet(r, dhcp_stop(q))
    OBVIOUS
  <2> DEFINE w == [q EXCEPT !.pcb = FALSE]
  <2>1. Known(b, w)
    BY DEF Known
  <2> HIDE DEF w
  <2>2. /\ Known(b, dhcp_set_state(w, "OFF"))
        /\ dhcp_set_state(w, "OFF").st = "OFF"
    BY <2>1, StateSet DEF States
  <2> QED
    BY <1>2, <2>2 DEF dhcp_stop, Sane, w
<1>7. Sane(b, dhcp_start(r, mem)) /\ Quiet(r, dhcp_start(r, mem))
  <2> DEFINE n == [Blank EXCEPT !.ip = r.ip, !.up = r.up, !.pcb = TRUE]
  <2>1. Known(b, n)
    <3>1. <<>> \in Seq(Msgs(b)) /\ 0 \in From(b) /\ r.ip \in From(b)
      BY <1>1 DEF From, Known
    <3> QED
      BY <3>1 DEF Known, Blank, States
  <2>2. /\ Sane(b, dhcp_discover(n, mem)) /\ Quiet(r, dhcp_discover(n, mem))
        /\ Known(b, dhcp_discover(n, mem))
    BY <1>2, <2>1, Senders DEF Sane
  <2> HIDE DEF n
  <2>3. dhcp_start(r, mem) = IF mem THEN dhcp_discover(n, mem)
                             ELSE dhcp_stop(dhcp_discover(n, mem))
    BY DEF dhcp_start, n
  <2> QED
    BY <2>2, <2>3, <1>6
<1>8. /\ Sane(b, dhcp_network_changed(r, mem))
      /\ Quiet(r, dhcp_network_changed(r, mem))
  <2> DEFINE s == [r EXCEPT !.tries = 0]
             w == [s EXCEPT !.up = FALSE]
  <2>1. Known(b, s) /\ Known(b, w)
    BY <1>1 DEF Known
  <2> HIDE DEF s, w
  <2>2. /\ Sane(b, dhcp_reboot(w, mem)) /\ Quiet(r, dhcp_reboot(w, mem))
        /\ Sane(b, dhcp_discover(s, mem)) /\ Quiet(r, dhcp_discover(s, mem))
    BY <1>2, <2>1, Senders
  <2>3. Quiet(r, r)
    BY DEF Quiet
  <2> QED
    BY <2>2, <2>3 DEF dhcp_network_changed, s, w
<1> QED
  BY <1>1, <1>3, <1>4, <1>5, <1>6, <1>7, <1>8

\* dhcp_recv is quiet or takes over an acknowledgement of the current
\* transaction.
LEMMA Receives ==
  ASSUME NEW b, NEW r, Sane(b, r), NEW m, m.yi \in From(b), NEW mem
  PROVE  /\ Sane(b, dhcp_recv(r, m, mem))
         /\ \/ Quiet(r, dhcp_recv(r, m, mem))
            \/ Learns(r, m, dhcp_recv(r, m, mem))
<1> DEFINE a == dhcp_check(dhcp_handle_ack(r, m))
           n == dhcp_handle_nak(r, mem)
           o == dhcp_handle_offer(r, m, mem)
           d == dhcp_bind(r)
<1>1. Known(b, r) /\ Quiet(r, r)
  BY DEF Sane, Quiet
<1>2. \A q : q.st \notin {"CHECKING", "BOUND"} => Quiet(r, q)
  BY DEF Quiet
<1>3. Sane(b, a) /\ a.st = "CHECKING" /\ a.off = m.yi
  <2>1. Known(b, dhcp_handle_ack(r, m)) /\ dhcp_handle_ack(r, m).off = m.yi
    BY <1>1 DEF Known, dhcp_handle_ack
  <2> QED
    BY <2>1, Senders
<1>4. Sane(b, n) /\ Quiet(r, n)
  <2> DEFINE w == [r EXCEPT !.up = FALSE, !.ip = 0]
  <2>1. Known(b, w)
    BY <1>1 DEF Known, From
  <2> HIDE DEF w
  <2>2. Known(b, dhcp_set_state(w, "BACKING_OFF"))
    BY <2>1, StateSet DEF States
  <2> QED
    BY <1>2, <2>2, Senders DEF dhcp_handle_nak, w
<1>5. Sane(b, o) /\ Quiet(r, o)
  <2> DEFINE w == [r EXCEPT !.armed = FALSE, !.off = m.yi]
  <2>1. Known(b, w)
    BY <1>1 DEF Known
  <2> HIDE DEF w
  <2> QED
    BY <1>2, <2>1, Senders DEF dhcp_handle_offer, w
<1>6. Sane(b, d) /\ d.st = "BOUND"
  BY <1>1, Senders
<1> HIDE DEF a, n, o, d
<1>7. \/ dhcp_recv(r, m, mem) \in {r, n, o}
      \/ m.cur /\ m.type = "ACK" /\ dhcp_recv(r, m, mem) = a
      \/ m.cur /\ m.type = "ACK" /\ r.st \in Extending /\ dhcp_recv(r, m, mem) = d
  BY DEF dhcp_recv, Extending, a, n, o, d
<1> QED
  BY <1>1, <1>3, <1>4, <1>5, <1>6, <1>7 DEF Learns

-----------------------------------------------------------------------------
(* Both, and the link. *)

\* The address is leased to the station, or the server gave the lease up.
Own(pl, ad, c, a) == Leased(pl, c, a) \/ ad[c]

\* Every station and every frame under way is as above.
ClientInv(b) ==
  /\ DOMAIN sta = Stations
  /\ \A c \in Stations : Sane(b, sta[c])
  /\ up \in [Stations -> Seq(Msgs(b))]
  /\ down \in [Stations -> Seq(Answers(b))]

\* The list, and a range that starts at b or later when it is in use.
ServerInv(b) ==
  /\ plist \in Seq(Nodes(b, Stations \cup Guests))
  /\ lease \in [enable : BOOLEAN, start : Int, end : Int]
  /\ lease.enable \/ server # 0 => lease.start \in Nat /\ lease.start >= b

\* Where a lease comes from: an acknowledgement under way that is still
\* current, an address being checked and an address in use are each leased to
\* the station, unless the server gave the lease up (adrift) or the station
\* extended its lease on the acknowledgement of another address (rash).
LeasedInv ==
  /\ adrift \in [Stations -> BOOLEAN] /\ rash \in [Stations -> BOOLEAN]
  /\ \A c \in Stations :
       /\ \A i \in DOMAIN down[c] :
            down[c][i].type = "ACK" /\ down[c][i].cur /\ down[c][i].yi # 0 =>
              Own(plist, adrift, c, down[c][i].yi)
       /\ sta[c].st = "CHECKING" /\ sta[c].off # 0 =>
            Own(plist, adrift, c, sta[c].off)
       /\ sta[c].st = "BOUND" /\ sta[c].ip # 0 =>
            Own(plist, adrift, c, sta[c].ip) \/ rash[c]

\* The inductive invariant.
LeaseInv(b) == ClientInv(b) /\ ServerInv(b) /\ LeasedInv

\* No range starts below b, and no guest names an address below b.
AtLeast(b) ==
  /\ \A l \in Ranges : l.enable => l.start >= b
  /\ \A ip \in ApAddresses : DefaultRange(ip).start >= b
  /\ \A a \in GuestAddresses : a >= b

\* A full queue loses the last frames.
LEMMA Fits ==
  ASSUME NEW S, NEW q \in Seq(S)
  PROVE  /\ Fit(q) \in Seq(S)
         /\ \A i \in DOMAIN Fit(q) : i \in DOMAIN q /\ Fit(q)[i] = q[i]
<1>1. Len(q) \in Nat /\ DOMAIN q = 1 .. Len(q) /\ QueueLen \in Nat \ {0}
  BY LenProperties, NetAssumption
<1>2. CASE ~(Len(q) > QueueLen)
  BY <1>2 DEF Fit
<1>3. CASE Len(q) > QueueLen
  <2> DEFINE s == SubSeq(q, 1, QueueLen)
  <2>1. \A i \in 1 .. QueueLen : q[i] \in S
    BY <1>1, <1>3, ElementOfSeq
  <2>2. s \in Seq(S) /\ Len(s) = QueueLen /\ \A i \in 1 .. QueueLen : s[i] = q[i]
    BY <1>1, <1>3, <2>1, SubSeqProperties
  <2>3. DOMAIN s = 1 .. QueueLen
    BY <2>2, LenProperties
  <2>4. Fit(q) = s
    BY <1>3 DEF Fit
  <2> HIDE DEF s
  <2> QED
    BY <1>1, <1>3, <2>2, <2>3, <2>4
<1> QED
  BY <1>2, <1>3

\* The head and the rest of a queue.
LEMMA Tails ==
  ASSUME NEW S, NEW q \in Seq(S), q # <<>>
  PROVE  /\ Tail(q) \in Seq(S) /\ Head(q) \in S /\ 1 \in DOMAIN q
         /\ Head(q) = q[1]
         /\ \A i \in DOMAIN Tail(q) : i + 1 \in DOMAIN q /\ Tail(q)[i] = q[i + 1]
<1>1. /\ Tail(q) \in Seq(S) /\ Head(q) \in S /\ Len(Tail(q)) = Len(q) - 1
      /\ \A i \in 1 .. Len(q) - 1 : Tail(q)[i] = q[i + 1]
      /\ Len(q) \in Nat /\ Len(q) # 0 /\ Head(q) = q[1]
  BY HeadTailProperties, EmptySeq, LenProperties
<1>2. DOMAIN q = 1 .. Len(q) /\ DOMAIN Tail(q) = 1 .. Len(q) - 1
  BY <1>1, LenProperties
<1> QED
  BY <1>1, <1>2

\* A step of a station keeps the invariant.  Its claims are those it had, or
\* the acknowledgement it just received.
LEMMA StationStep ==
  ASSUME NEW b \in Nat, LeaseInv(b), NEW c \in Stations, NEW r, Sane(b, r),
         NEW q, Station(c, r, q),
         \/ q = down[c] /\ Quiet(sta[c], r)
         \/ /\ down[c] # <<>> /\ q = Tail(down[c])
            /\ Quiet(sta[c], r) \/ Learns(sta[c], Head(down[c]), r)
  PROVE  LeaseInv(b)'
<1> DEFINE s == [r EXCEPT !.out = <<>>, !.bump = FALSE]
           y == IF r.bump THEN Stale(up[c]) ELSE up[c]
           d == IF r.bump THEN Stale(q) ELSE q
<1>1. /\ DOMAIN sta = Stations /\ up[c] \in Seq(Msgs(b))
      /\ down[c] \in Seq(Answers(b)) /\ r.out \in Seq(Msgs(b))
  BY DEF LeaseInv, ClientInv, Sane, Known
<1>2. /\ Sane(b, s) /\ s.st = r.st /\ s.off = r.off /\ s.ip = r.ip
  <2>1. /\ s.st = r.st /\ s.off = r.off /\ s.ip = r.ip
        /\ DOMAIN s = DOMAIN r /\ s.out = <<>>
    BY DEF Sane, Known
  <2>2. s.armed = r.armed
    BY DEF Sane, Known
  <2>3. s.up = r.up
    BY DEF Sane, Known
  <2> HIDE DEF s
  <2>4. Known(b, s)
    BY <2>1, <2>2 DEF Sane, Known
  <2> QED
    BY <2>1, <2>2, <2>3, <2>4 DEF Sane
<1>3. /\ q \in Seq(Answers(b))
      /\ \A i \in DOMAIN q : \E j \in DOMAIN down[c] : q[i] = down[c][j]
  <2>1. CASE q = down[c]
    BY <1>1, <2>1
  <2>2. CASE down[c] # <<>> /\ q = Tail(down[c])
    <3>1. Tail(down[c]) \in Seq(Answers(b))
      BY <1>1, <2>2, Tails
    <3>2. \A i \in DOMAIN Tail(down[c]) :
            i + 1 \in DOMAIN down[c] /\ Tail(down[c])[i] = down[c][i + 1]
      BY <1>1, <2>2, Tails
    <3> QED
      BY <2>2, <3>1, <3>2
  <2> QED
    BY <2>1, <2>2
<1>4. /\ d \in Seq(Answers(b))
      /\ \A i \in DOMAIN d : d[i].cur =>
           \E j \in DOMAIN down[c] : d[i] = down[c][j]
  BY <1>3, StaleMsgs
<1>5. Fit(y \o r.out) \in Seq(Msgs(b))
  <2>1. y \in Seq(Msgs(b))
    BY <1>1, StaleMsgs
  <2> HIDE DEF y
  <2>2. y \o r.out \in Seq(Msgs(b))
    BY <1>1, <2>1, ConcatProperties
  <2> QED
    BY <2>2, Fits
<1>6. sta' = [sta EXCEPT ![c] = s]
  BY DEF Station
<1>7. up' = [up EXCEPT ![c] = Fit(y \o r.out)]
  BY DEF Station
<1>8. down' = [down EXCEPT ![c] = d]
  BY DEF Station
<1> HIDE DEF s, y, d
<1>9. ClientInv(b)'
  <2>1. DOMAIN sta' = Stations /\ \A x \in Stations : Sane(b, sta'[x])
    BY <1>1, <1>2, <1>6 DEF LeaseInv, ClientInv
  <2>2. up' \in [Stations -> Seq(Msgs(b))]
    BY <1>5, <1>7 DEF LeaseInv, ClientInv
  <2>3. down' \in [Stations -> Seq(Answers(b))]
    BY <1>4, <1>8 DEF LeaseInv, ClientInv
  <2> QED
    BY <2>1, <2>2, <2>3 DEF ClientInv
<1>10. ServerInv(b)'
  BY DEF LeaseInv, ServerInv, Station
<1>11. LeasedInv'
  <2>1. /\ adrift' \in [Stations -> BOOLEAN] /\ rash' \in [Stations -> BOOLEAN]
        /\ \A x \in Stations \ {c} : adrift'[x] = adrift[x] /\ rash'[x] = rash[x]
    BY DEF Station, LeaseInv, LeasedInv
  <2>2. plist' = plist
    BY DEF Station
  <2>3. ASSUME NEW x \in Stations \ {c}
        PROVE  /\ sta'[x] = sta[x] /\ down'[x] = down[x]
               /\ \A a : Own(plist, adrift, x, a) => Own(plist', adrift', x, a)
    BY <1>1, <1>6, <1>8, <2>1, <2>2 DEF Own, LeaseInv, ClientInv
  <2>4. ASSUME NEW a, a \in Claim(c)', Own(plist, adrift, c, a)
        PROVE Own(plist', adrift', c, a)
    BY <2>2, <2>4 DEF Own, Station, LeaseInv, LeasedInv
  <2>5. sta'[c] = s /\ down'[c] = d
    BY <1>1, <1>6, <1>8 DEF LeaseInv, ClientInv
  <2>6. ASSUME NEW i \in DOMAIN d, d[i].type = "ACK", d[i].cur, d[i].yi # 0
        PROVE  Own(plist', adrift', c, d[i].yi)
    <3>1. PICK j \in DOMAIN down[c] : d[i] = down[c][j]
      BY <1>4, <2>6
    <3>2. Own(plist, adrift, c, d[i].yi)
      BY <2>6, <3>1 DEF LeaseInv, LeasedInv
    <3>3. d[i].yi \in Claim(c)'
      BY <2>5, <2>6 DEF Claim
    <3> QED
      BY <2>4, <3>2, <3>3
  <2> DEFINE m == Head(down[c])
  <2>7. Learns(sta[c], m, r) /\ down[c] # <<>> /\ m.yi # 0 =>
          Own(plist, adrift, c, m.yi)
    BY <1>1, Tails DEF Learns, LeaseInv, LeasedInv
  <2> HIDE DEF m
  <2>8. ASSUME s.st = "CHECKING", s.off # 0 PROVE Own(plist', adrift', c, s.off)
    <3>1. Own(plist, adrift, c, s.off)
      BY <1>2, <2>7, <2>8 DEF Quiet, Learns, LeaseInv, LeasedInv, m
    <3>2. s.off \in Claim(c)'
      BY <2>5, <2>8 DEF Claim
    <3> QED
      BY <2>4, <3>1, <3>2
  <2>9. ASSUME s.st = "BOUND", s.ip # 0
        PROVE Own(plist', adrift', c, s.ip) \/ rash'[c]
    <3>1. s.ip \in Claim(c)'
      <4>1. s.up
        BY <1>2, <2>9 DEF Sane
      <4> QED
        BY <2>5, <2>9, <4>1 DEF Claim
    <3>2. rash'[c] = (rash[c] \/ (sta[c].st \in Extending /\ m.yi # r.ip))
      BY <1>2, <2>9 DEF Station, LeaseInv, LeasedInv, m
    <3>3. \/ Own(plist, adrift, c, s.ip) \/ rash[c]
          \/ (sta[c].st \in Extending /\ m.yi # r.ip)
      BY <1>2, <2>7, <2>9 DEF Quiet, Learns, LeaseInv, LeasedInv, m
    <3> QED
      BY <2>4, <3>1, <3>2, <3>3
  <2> QED
    BY <2>1, <2>3, <2>5, <2>6, <2>8, <2>9 DEF LeasedInv, LeaseInv
<1> QED
  BY <1>9, <1>10, <1>11 DEF LeaseInv

\* A step of the server keeps the claims of the stations: a lease that goes
\* while the station claims the address sets adrift.
LEMMA Drifts ==
  ASSUME NEW b \in Nat, LeaseInv(b), Drift(plist'), rash' = rash, sta' = sta,
         \A c \in Stations : \A i \in DOMAIN down'[c] :
           \/ down'[c][i].cur =>
                \E j \in DOMAIN down[c] : down'[c][i] = down[c][j]
           \/ /\ down'[c][i].type = "ACK" /\ down'[c][i].yi # 0
              => Leased(plist', c, down'[c][i].yi)
  PROVE  LeasedInv'
<1>1. /\ adrift' \in [Stations -> BOOLEAN] /\ rash' \in [Stations -> BOOLEAN]
      /\ \A c \in Stations : adrift'[c] = ( \/ adrift[c]
             \/ \E a \in Claim(c) : Leased(plist, c, a) /\ ~Leased(plist', c, a))
  BY DEF Drift, LeaseInv, LeasedInv
<1>2. ASSUME NEW c \in Stations, NEW a \in Claim(c), Own(plist, adrift, c, a)
      PROVE Own(plist', adrift', c, a)
  BY <1>1, <1>2 DEF Own
<1>3. ASSUME NEW c \in Stations, NEW i \in DOMAIN down'[c],
             down'[c][i].type = "ACK", down'[c][i].cur, down'[c][i].yi # 0
      PROVE  Own(plist', adrift', c, down'[c][i].yi)
  <2>1. CASE \E j \in DOMAIN down[c] : down'[c][i] = down[c][j]
    <3>1. PICK j \in DOMAIN down[c] : down'[c][i] = down[c][j]
      BY <2>1
    <3>2. down[c][j].yi \in Claim(c)
      BY <1>3, <3>1 DEF Claim
    <3>3. Own(plist, adrift, c, down[c][j].yi)
      BY <1>3, <3>1 DEF LeaseInv, LeasedInv
    <3>4. Own(plist', adrift', c, down[c][j].yi)
      BY <1>2, <3>2, <3>3
    <3> QED
      BY <3>1, <3>4 DEF Own
  <2>2. CASE Leased(plist', c, down'[c][i].yi)
    BY <2>2 DEF Own, Leased
  <2> QED
    BY <1>3, <2>1, <2>2
<1>4. ASSUME NEW c \in Stations, sta[c].st = "CHECKING", sta[c].off # 0
      PROVE  Own(plist', adrift', c, sta[c].off)
  <2>1. sta[c].off \in Claim(c) /\ Own(plist, adrift, c, sta[c].off)
    BY <1>4 DEF Claim, LeaseInv, LeasedInv
  <2> QED
    BY <1>2, <2>1
<1>5. ASSUME NEW c \in Stations, sta[c].st = "BOUND", sta[c].ip # 0
      PROVE  Own(plist', adrift', c, sta[c].ip) \/ rash'[c]
  <2>1. sta[c].ip \in Claim(c) /\ (Own(plist, adrift, c, sta[c].ip) \/ rash[c])
    BY <1>5 DEF Claim, LeaseInv, LeasedInv, ClientInv, Sane
  <2> QED
    BY <1>2, <2>1
<1>6. ASSUME NEW c \in Stations
      PROVE  /\ sta'[c].st = "CHECKING" /\ sta'[c].off # 0 =>
                  Own(plist', adrift', c, sta[c].off)
             /\ sta'[c].st = "BOUND" /\ sta'[c].ip # 0 =>
                  Own(plist', adrift', c, sta[c].ip) \/ rash'[c]
  BY <1>4, <1>5
<1> QED
  BY <1>1, <1>3, <1>6 DEF LeasedInv, Own

\* The range beside the address of the access point never wraps below 1.
LEMMA Defaults ==
  ASSUME NEW ip \in ApAddresses
  PROVE  /\ DefaultRange(ip) \in [enable : BOOLEAN, start : Int, end : Int]
         /\ DefaultRange(ip).start \in Nat /\ DefaultRange(ip).start >= 1
<1>1. ip \in Nat /\ ip >= 1 /\ DHCPS_MAX_LEASE \in Nat /\ Octet \in Nat
      /\ 2 * DHCPS_MAX_LEASE < Octet
  BY NetAssumption, ServerAssumption DEF Addresses
<1>2. 2 * ip >= Octet =>
        ip - DHCPS_MAX_LEASE \in Nat /\ ip - DHCPS_MAX_LEASE >= 1
  BY <1>1
<1> QED
  BY <1>1, <1>2 DEF DefaultRange

\* The invariant holds at first.
LEMMA InitLeased ==
  ASSUME NEW b \in Nat, Init
  PROVE  LeaseInv(b)
<1>1. Sane(b, Blank)
  <2>1. <<>> \in Seq(Msgs(b)) /\ 0 \in From(b)
    BY DEF From
  <2>2. Known(b, Blank)
    BY <2>1 DEF Known, Blank, States
  <2> QED
    BY <2>2 DEF Sane, Blank
<1>2. ClientInv(b)
  <2>1. DOMAIN sta = Stations /\ \A c \in Stations : sta[c] = Blank
    BY DEF Init
  <2>2. /\ up \in [Stations -> Seq(Msgs(b))]
        /\ down \in [Stations -> Seq(Answers(b))]
    BY DEF Init
  <2> QED
    BY <1>1, <2>1, <2>2 DEF ClientInv
<1>3. ServerInv(b)
  BY DEF Init, ServerInv
<1>4. LeasedInv
  <2>1. \A c \in Stations : /\ sta[c].st = "OFF" /\ down[c] = <<>>
                            /\ DOMAIN down[c] = {}
    BY DEF Init, Blank
  <2>2. adrift \in [Stations -> BOOLEAN] /\ rash \in [Stations -> BOOLEAN]
    BY DEF Init
  <2> QED
    BY <2>1, <2>2 DEF LeasedInv
<1> QED
  BY <1>2, <1>3, <1>4 DEF LeaseInv

\* It is kept by whatever a station does,
LEMMA StationActions ==
  ASSUME NEW b \in Nat, LeaseInv(b), NEW c \in Stations,
         \/ Start(c) \/ Stop(c) \/ LinkUp(c) \/ FineTimer(c) \/ CoarseTimer(c)
         \/ ArpAnswered(c) \/ Receive(c)
  PROVE  LeaseInv(b)'
<1>1. Sane(b, sta[c])
  BY DEF LeaseInv, ClientInv
<1>2. ASSUME NEW r, Sane(b, r), Quiet(sta[c], r), Acts(c, r) PROVE LeaseInv(b)'
  BY <1>2, StationStep DEF Acts
<1>3. CASE Start(c)
  <2>1. PICK mem \in BOOLEAN : Acts(c, dhcp_start(sta[c], mem))
    BY <1>3 DEF Start
  <2> QED
    BY <1>1, <1>2, <2>1, Handlers
<1>4. CASE Stop(c)
  BY <1>1, <1>2, <1>4, Handlers DEF Stop
<1>5. CASE LinkUp(c)
  <2>1. PICK mem \in BOOLEAN : Acts(c, dhcp_network_changed(sta[c], mem))
    BY <1>5 DEF LinkUp
  <2> QED
    BY <1>1, <1>2, <2>1, Handlers
<1>6. CASE FineTimer(c)
  <2>1. PICK mem \in BOOLEAN : Acts(c, dhcp_fine_tmr(sta[c], mem))
    BY <1>6 DEF FineTimer
  <2> QED
    BY <1>1, <1>2, <2>1, Handlers
<1>7. CASE CoarseTimer(c)
  <2>1. PICK mem \in BOOLEAN : Acts(c, dhcp_coarse_tmr(sta[c], mem))
    BY <1>7 DEF CoarseTimer
  <2> QED
    BY <1>1, <1>2, <2>1, Handlers
<1>8. CASE ArpAnswered(c)
  <2>1. PICK mem \in BOOLEAN : Acts(c, dhcp_arp_reply(sta[c], sta[c].off, mem))
    BY <1>8 DEF ArpAnswered
  <2> QED
    BY <1>1, <1>2, <2>1, Handlers
<1>9. CASE Receive(c)
  <2>1. PICK mem \in BOOLEAN :
          Station(c, IF sta[c].pcb THEN dhcp_recv(sta[c], Head(down[c]), mem)
                     ELSE sta[c], Tail(down[c]))
    BY <1>9 DEF Receive
  <2> DEFINE m == Head(down[c])
             r == IF sta[c].pcb THEN dhcp_recv(sta[c], m, mem) ELSE sta[c]
  <2>2. down[c] # <<>> /\ m \in Answers(b)
    BY <1>9, Tails DEF Receive, LeaseInv, ClientInv
  <2>3. m.yi \in From(b)
    BY <2>2 DEF Answers
  <2>4. Quiet(sta[c], sta[c])
    BY DEF Quiet
  <2> HIDE DEF m
  <2>5. Sane(b, r) /\ (Quiet(sta[c], r) \/ Learns(sta[c], m, r))
    BY <1>1, <2>3, <2>4, Receives
  <2>6. Station(c, r, Tail(down[c]))
    BY <2>1 DEF m
  <2> HIDE DEF r
  <2> QED
    BY <2>2, <2>5, <2>6, StationStep DEF m
<1> QED
  BY <1>3, <1>4, <1>5, <1>6, <1>7, <1>8, <1>9

\* by the server, as long as its list and the queues keep their types,
LEMMA ServerSteps ==
  ASSUME NEW b \in Nat, LeaseInv(b), Drift(plist'),
         UNCHANGED <<sta, lease, rash>>, server' \in {server, 0},
         plist' \in Seq(Nodes(b, Stations \cup Guests)),
         up' \in [Stations -> Seq(Msgs(b))],
         down' \in [Stations -> Seq(Answers(b))],
         \A c \in Stations : \A i \in DOMAIN down'[c] :
           \/ down'[c][i].cur =>
                \E j \in DOMAIN down[c] : down'[c][i] = down[c][j]
           \/ /\ down'[c][i].type = "ACK" /\ down'[c][i].yi # 0
              => Leased(plist', c, down'[c][i].yi)
  PROVE  LeaseInv(b)'
<1>1. ClientInv(b)'
  BY DEF LeaseInv, ClientInv
<1>2. ServerInv(b)'
  BY DEF LeaseInv, ServerInv
<1>3. LeasedInv'
  BY Drifts
<1> QED
  BY <1>1, <1>2, <1>3 DEF LeaseInv

\* by the message of a station and the answer to it,
LEMMA Serves ==
  ASSUME NEW b \in Nat, LeaseInv(b), NEW c \in Stations, handle_dhcp(c)
  PROVE  /\ LeaseInv(b)'
         /\ Unique(plist) /\ lease.start = b => Unique(plist')
<1> DEFINE m == Head(up[c])
           p == parse_msg(plist, lease, c, m)
           a == [type |-> p.answer, yi |-> p.addr, cur |-> m.cur,
                 lease |-> LeaseTime]
           d == down[c]
           q == Fit(Append(d, a))
<1>1. /\ up[c] # <<>> /\ server # 0 /\ plist' = p.pl
      /\ up' = [up EXCEPT ![c] = Tail(@)] /\ Drift(plist')
      /\ UNCHANGED <<sta, lease, server, rash>>
  BY DEF handle_dhcp
<1>2. down' = IF p.answer \in {"OFFER", "ACK", "NAK"}
              THEN [down EXCEPT ![c] = q] ELSE down
  BY DEF handle_dhcp, Reply
<1>3. /\ up \in [Stations -> Seq(Msgs(b))]
      /\ down \in [Stations -> Seq(Answers(b))]
      /\ plist \in Seq(Nodes(b, Stations \cup Guests))
      /\ lease.start \in Nat /\ lease.start >= b
  BY <1>1 DEF LeaseInv, ClientInv, ServerInv
<1>4. m \in Msgs(b) /\ Tail(up[c]) \in Seq(Msgs(b))
  BY <1>1, <1>3, Tails
<1>5. m.ci \in From(b) /\ m.cur \in BOOLEAN
  BY <1>4 DEF Msgs
<1> HIDE DEF m
<1>6. /\ p.pl \in Seq(Nodes(b, Stations \cup Guests)) /\ p.addr \in From(b)
      /\ p.answer = "ACK" /\ p.addr # 0 => Leased(p.pl, c, p.addr)
      /\ Unique(plist) /\ lease.start = b => Unique(p.pl)
  <2>1. c \in Stations \cup Guests
    OBVIOUS
  <2> QED
    BY <1>3, <1>5, <2>1, Parses
<1> HIDE DEF p
<1>7. up' \in [Stations -> Seq(Msgs(b))]
  BY <1>1, <1>3, <1>4
<1>8. d \in Seq(Answers(b))
  BY <1>3
<1>9. ASSUME p.answer \in {"OFFER", "ACK", "NAK"}
      PROVE  /\ q \in Seq(Answers(b))
             /\ \A i \in DOMAIN q : q[i] = a \/ \E j \in DOMAIN d : q[i] = d[j]
  <2>1. a \in Answers(b)
    BY <1>5, <1>6, <1>9 DEF Answers
  <2> HIDE DEF a, d
  <2>2. /\ Append(d, a) \in Seq(Answers(b))
        /\ Len(Append(d, a)) = Len(d) + 1
        /\ \A i \in 1 .. Len(d) : Append(d, a)[i] = d[i]
        /\ Append(d, a)[Len(d) + 1] = a
    BY <1>8, <2>1, AppendProperties
  <2>3. /\ Len(d) \in Nat /\ DOMAIN d = 1 .. Len(d)
        /\ DOMAIN Append(d, a) = 1 .. Len(d) + 1
    BY <1>8, <2>2, LenProperties
  <2>4. \A i \in DOMAIN Append(d, a) :
          Append(d, a)[i] = a \/ \E j \in DOMAIN d : Append(d, a)[i] = d[j]
    <3> SUFFICES ASSUME NEW i \in DOMAIN Append(d, a)
                 PROVE  Append(d, a)[i] = a
                          \/ \E j \in DOMAIN d : Append(d, a)[i] = d[j]
      OBVIOUS
    <3>1. i \in 1 .. Len(d) \/ i = Len(d) + 1
      BY <2>3
    <3> QED
      BY <2>2, <2>3, <3>1
  <2> DEFINE f == Append(d, a)
  <2> HIDE DEF f
  <2>5. /\ Fit(f) \in Seq(Answers(b))
        /\ \A i \in DOMAIN Fit(f) : i \in DOMAIN f /\ Fit(f)[i] = f[i]
    BY <2>2, Fits DEF f
  <2> QED
    BY <2>4, <2>5 DEF f
<1> HIDE DEF q
<1>10. down' \in [Stations -> Seq(Answers(b))]
  BY <1>2, <1>3, <1>9
<1>11. ASSUME NEW x \in Stations, NEW i \in DOMAIN down'[x]
       PROVE  \/ down'[x][i].cur =>
                   \E j \in DOMAIN down[x] : down'[x][i] = down[x][j]
              \/ /\ down'[x][i].type = "ACK" /\ down'[x][i].yi # 0
                 => Leased(plist', x, down'[x][i].yi)
  <2>1. CASE down'[x] = down[x]
    BY <2>1
  <2>2. CASE down'[x] # down[x]
    <3>1. x = c /\ p.answer \in {"OFFER", "ACK", "NAK"} /\ down'[x] = q
      BY <1>2, <1>3, <2>2
    <3>2. q[i] = a \/ \E j \in DOMAIN d : q[i] = d[j]
      BY <1>9, <3>1
    <3>3. a.type = p.answer /\ a.yi = p.addr
      OBVIOUS
    <3> HIDE DEF a
    <3> QED
      BY <1>1, <1>6, <3>1, <3>2, <3>3
  <2> QED
    BY <2>1, <2>2
<1>12. LeaseInv(b)'
  BY <1>1, <1>6, <1>7, <1>10, <1>11, ServerSteps
<1> QED
  BY <1>1, <1>6, <1>12

\* by the message of a guest,
LEMMA ServesGuest ==
  ASSUME NEW b \in Nat, LeaseInv(b), NEW g \in Guests, NEW m \in GuestMsgs,
         \A a \in GuestAddresses : a >= b, handle_guest(g, m)
  PROVE  /\ LeaseInv(b)'
         /\ Unique(plist) /\ lease.start = b => Unique(plist')
<1> DEFINE p == parse_msg(plist, lease, g, m)
<1>1. /\ server # 0 /\ plist' = p.pl /\ Drift(plist')
      /\ UNCHANGED <<sta, up, down, lease, server, rash>>
  BY DEF handle_guest
<1>2. /\ up \in [Stations -> Seq(Msgs(b))]
      /\ down \in [Stations -> Seq(Answers(b))]
      /\ plist \in Seq(Nodes(b, Stations \cup Guests))
      /\ lease.start \in Nat /\ lease.start >= b
  BY <1>1 DEF LeaseInv, ClientInv, ServerInv
<1>3. m.ci \in From(b)
  <2>1. m.ci = 0 \/ m.ci \in GuestAddresses
    BY DEF GuestMsgs
  <2>2. \A a \in GuestAddresses : a \in Nat
    BY NetAssumption, ServerAssumption DEF Addresses
  <2> QED
    BY <2>1, <2>2 DEF From
<1>4. /\ p.pl \in Seq(Nodes(b, Stations \cup Guests))
      /\ Unique(plist) /\ lease.start = b => Unique(p.pl)
  <2>1. g \in Stations \cup Guests
    OBVIOUS
  <2> QED
    BY <1>2, <1>3, <2>1, Parses
<1> HIDE DEF p
<1>5. LeaseInv(b)'
  BY <1>1, <1>2, <1>4, ServerSteps
<1> QED
  BY <1>1, <1>4, <1>5

\* and by the timer, the departures, the losses, and the changes of range.
LEMMA OtherSteps ==
  ASSUME NEW b \in Nat, AtLeast(b), LeaseInv(b)
  PROVE  /\ ServerTimer \/ dhcps_stop \/ (\E c \in Stations : StationGone(c)) =>
              LeaseInv(b)' /\ (Unique(plist) => Unique(plist'))
         /\ (\E c \in Stations : LoseUp(c) \/ LoseDown(c)) \/ UNCHANGED vars =>
              LeaseInv(b)' /\ UNCHANGED <<plist, lease, server>>
         /\ \A ip \in ApAddresses :
              \/ dhcps_start(ip)
              \/ \E l \in Ranges : wifi_softap_set_dhcps_lease(l, ip)
              => LeaseInv(b)' /\ UNCHANGED plist
<1> DEFINE N == Seq(Nodes(b, Stations \cup Guests))
<1>1. /\ plist \in N /\ up \in [Stations -> Seq(Msgs(b))]
      /\ down \in [Stations -> Seq(Answers(b))]
  BY DEF LeaseInv, ClientInv, ServerInv
<1>2. ASSUME plist' \in N, Drift(plist'), server' \in {server, 0},
             UNCHANGED <<sta, up, down, lease, rash>>
      PROVE  LeaseInv(b)'
  BY <1>1, <1>2, ServerSteps
<1> HIDE DEF N
<1>3. ASSUME ServerTimer PROVE LeaseInv(b)' /\ (Unique(plist) => Unique(plist'))
  <2>1. plist' \in N /\ (Unique(plist) => Unique(plist'))
    BY <1>1, <1>3, Ages DEF ServerTimer, N
  <2> QED
    BY <1>2, <1>3, <2>1 DEF ServerTimer
<1>4. ASSUME dhcps_stop PROVE LeaseInv(b)' /\ (Unique(plist) => Unique(plist'))
  <2>1. plist' = <<>>
    BY <1>4 DEF dhcps_stop
  <2>2. plist' \in N /\ Unique(plist')
    BY <2>1 DEF N, Unique
  <2> QED
    BY <1>2, <1>4, <2>1, <2>2 DEF dhcps_stop
<1>5. ASSUME NEW c \in Stations, StationGone(c)
      PROVE  LeaseInv(b)' /\ (Unique(plist) => Unique(plist'))
  <2>1. plist' \in N /\ (Unique(plist) => Unique(plist'))
    BY <1>1, <1>5, Leaves DEF StationGone, N
  <2> QED
    BY <1>2, <1>5, <2>1 DEF StationGone
<1>6. ASSUME UNCHANGED <<sta, plist, lease, server, adrift, rash>>,
             up' \in [Stations -> Seq(Msgs(b))],
             down' \in [Stations -> Seq(Answers(b))],
             \A c \in Stations : \A i \in DOMAIN down'[c] :
               \E j \in DOMAIN down[c] : down'[c][i] = down[c][j]
      PROVE  LeaseInv(b)'
  <2>1. ClientInv(b)'
    BY <1>6 DEF LeaseInv, ClientInv
  <2>2. ServerInv(b)'
    BY <1>6 DEF LeaseInv, ServerInv
  <2>3. \A c \in Stations : \A i \in DOMAIN down'[c] :
          down'[c][i].type = "ACK" /\ down'[c][i].cur /\ down'[c][i].yi # 0 =>
            Own(plist, adrift, c, down'[c][i].yi)
    <3> SUFFICES ASSUME NEW c \in Stations, NEW i \in DOMAIN down'[c],
                        down'[c][i].type = "ACK", down'[c][i].cur,
                        down'[c][i].yi # 0
                 PROVE  Own(plist, adrift, c, down'[c][i].yi)
      OBVIOUS
    <3>1. PICK j \in DOMAIN down[c] : down'[c][i] = down[c][j]
      BY <1>6
    <3> QED
      BY <3>1 DEF LeaseInv, LeasedInv
  <2>4. LeasedInv'
    BY <1>6, <2>3 DEF LeaseInv, LeasedInv
  <2> QED
    BY <2>1, <2>2, <2>4 DEF LeaseInv
<1>7. ASSUME NEW c \in Stations, LoseUp(c) PROVE LeaseInv(b)'
  <2>1. up' \in [Stations -> Seq(Msgs(b))]
    BY <1>1, <1>7, Tails DEF LoseUp
  <2> QED
    BY <1>1, <1>6, <1>7, <2>1 DEF LoseUp
<1>8. ASSUME NEW c \in Stations, LoseDown(c) PROVE LeaseInv(b)'
  <2>1. /\ down[c] # <<>> /\ down' = [down EXCEPT ![c] = Tail(down[c])]
        /\ UNCHANGED <<sta, up, plist, lease, server, adrift, rash>>
    BY <1>8 DEF LoseDown
  <2>2. Tail(down[c]) \in Seq(Answers(b))
    BY <1>1, <2>1, Tails
  <2>3. \A i \in DOMAIN Tail(down[c]) :
          i + 1 \in DOMAIN down[c] /\ Tail(down[c])[i] = down[c][i + 1]
    <3>1. down[c] \in Seq(Answers(b))
      BY <1>1
    <3> QED
      BY <2>1, <3>1, Tails
  <2>4. down' \in [Stations -> Seq(Answers(b))]
    BY <1>1, <2>1, <2>2
  <2>5. \A x \in Stations : \A i \in DOMAIN down'[x] :
          \E j \in DOMAIN down[x] : down'[x][i] = down[x][j]
    BY <1>1, <2>1, <2>3
  <2> QED
    BY <1>1, <1>6, <2>1, <2>4, <2>5
<1>9. ASSUME UNCHANGED vars PROVE LeaseInv(b)'
  BY <1>1, <1>6, <1>9 DEF vars
<1>10. ASSUME UNCHANGED <<sta, up, down, plist, adrift, rash>>,
              lease' \in [enable : BOOLEAN, start : Int, end : Int],
              lease'.enable \/ server' # 0 =>
                lease'.start \in Nat /\ lease'.start >= b
       PROVE  LeaseInv(b)'
  <2>1. ClientInv(b)'
    BY <1>10 DEF LeaseInv, ClientInv
  <2>2. ServerInv(b)'
    BY <1>10 DEF LeaseInv, ServerInv
  <2>3. LeasedInv'
    BY <1>10 DEF LeaseInv, LeasedInv, Own
  <2> QED
    BY <2>1, <2>2, <2>3 DEF LeaseInv
<1>11. ASSUME NEW ip \in ApAddresses, dhcps_start(ip) PROVE LeaseInv(b)'
  <2>1. /\ DefaultRange(ip) \in [enable : BOOLEAN, start : Int, end : Int]
        /\ DefaultRange(ip).start \in Nat /\ DefaultRange(ip).start >= b
    BY Defaults DEF AtLeast
  <2>2. /\ lease \in [enable : BOOLEAN, start : Int, end : Int]
        /\ lease.enable => lease.start \in Nat /\ lease.start >= b
    BY DEF LeaseInv, ServerInv
  <2>3. (lease' = lease /\ lease.enable) \/ lease' = DefaultRange(ip)
    BY <1>11 DEF dhcps_start, wifi_softap_init_dhcps_lease
  <2> QED
    BY <1>10, <1>11, <2>1, <2>2, <2>3 DEF dhcps_start
<1>12. ASSUME NEW ip \in ApAddresses, NEW l \in Ranges,
              wifi_softap_set_dhcps_lease(l, ip)
       PROVE  LeaseInv(b)'
  <2>1. l \in [enable : BOOLEAN, start : Nat, end : Nat]
    BY NetAssumption, ServerAssumption DEF Addresses
  <2>2. lease \in [enable : BOOLEAN, start : Int, end : Int]
    BY DEF LeaseInv, ServerInv
  <2>3. /\ server = 0 /\ server' = 0
        /\ lease' = IF l.enable THEN l ELSE [lease EXCEPT !.enable = FALSE]
        /\ UNCHANGED <<sta, up, down, plist, adrift, rash>>
    BY <1>12 DEF wifi_softap_set_dhcps_lease
  <2>4. CASE l.enable
    <3>1. l.start >= b
      BY <2>4 DEF AtLeast
    <3> QED
      BY <1>10, <2>1, <2>3, <2>4, <3>1
  <2>5. CASE ~l.enable
    <3>1. /\ lease'.enable = FALSE
          /\ lease' \in [enable : BOOLEAN, start : Int, end : Int]
      BY <2>2, <2>3, <2>5
    <3> QED
      BY <1>10, <2>3, <3>1
  <2> QED
    BY <2>4, <2>5
<1>13. /\ \A c \in Stations : LoseUp(c) \/ LoseDown(c) =>
            UNCHANGED <<plist, lease, server>>
       /\ UNCHANGED vars => UNCHANGED <<plist, lease, server>>
  BY DEF LoseUp, LoseDown, vars
<1>14. /\ \A ip \in ApAddresses : dhcps_start(ip) => UNCHANGED plist
       /\ \A ip \in ApAddresses, l \in Ranges :
            wifi_softap_set_dhcps_lease(l, ip) => UNCHANGED plist
  BY DEF dhcps_start, wifi_softap_set_dhcps_lease
<1> QED
  BY <1>3, <1>4, <1>5, <1>7, <1>8, <1>9, <1>11, <1>12, <1>13, <1>14

\* So every step keeps it.
LEMMA NextLeased ==
  ASSUME NEW b \in Nat, AtLeast(b), LeaseInv(b), [Next]_vars
  PROVE  /\ LeaseInv(b)'
         /\ Unique(plist) /\ (server # 0 => lease.start = b) => Unique(plist')
<1>1. CASE UNCHANGED vars
  BY <1>1, OtherSteps
<1>2. ASSUME NEW c \in Stations,
             \/ Start(c) \/ Stop(c) \/ LinkUp(c) \/ FineTimer(c)
             \/ CoarseTimer(c) \/ ArpAnswered(c) \/ Receive(c)
      PROVE  LeaseInv(b)' /\ plist' = plist
  <2>1. plist' = plist
    BY <1>2, Zenon DEF Start, Stop, LinkUp, FineTimer, CoarseTimer, ArpAnswered,
                Receive, Acts, Station
  <2> QED
    BY <1>2, <2>1, StationActions
<1>3. ASSUME NEW c \in Stations, handle_dhcp(c)
      PROVE  /\ LeaseInv(b)' /\ server # 0
             /\ Unique(plist) /\ lease.start = b => Unique(plist')
  BY <1>3, Serves DEF handle_dhcp
<1>4. ASSUME NEW g \in Guests, NEW m \in GuestMsgs, handle_guest(g, m)
      PROVE  /\ LeaseInv(b)' /\ server # 0
             /\ Unique(plist) /\ lease.start = b => Unique(plist')
  BY <1>4, ServesGuest DEF handle_guest, AtLeast
<1>5. ASSUME \/ ServerTimer \/ dhcps_stop
             \/ \E c \in Stations : StationGone(c)
      PROVE  LeaseInv(b)' /\ (Unique(plist) => Unique(plist'))
  BY <1>5, OtherSteps
<1>6. ASSUME \E c \in Stations : LoseUp(c) \/ LoseDown(c)
      PROVE  LeaseInv(b)' /\ plist' = plist
  BY <1>6, OtherSteps
<1>7. ASSUME NEW ip \in ApAddresses,
             \/ dhcps_start(ip)
             \/ \E l \in Ranges : wifi_softap_set_dhcps_lease(l, ip)
      PROVE  LeaseInv(b)' /\ plist' = plist
  BY <1>7, OtherSteps
<1> QED
  BY <1>1, <1>2, <1>3, <1>4, <1>5, <1>6, <1>7 DEF Next, vars

\* Every instance of the model is one with b = 0.
LEMMA AtLeastZero == AtLeast(0)
<1>1. \A l \in Ranges : l.start >= 0
  BY NetAssumption, ServerAssumption DEF Addresses
<1>2. \A a \in GuestAddresses : a >= 0
  BY NetAssumption, ServerAssumption DEF Addresses
<1>3. \A ip \in ApAddresses : DefaultRange(ip).start >= 0
  BY Defaults
<1> QED
  BY <1>1, <1>2, <1>3 DEF AtLeast

-----------------------------------------------------------------------------

\* The invariant holds of the whole behaviour, for any ranges, any addresses
\* of the access point and any guests.
THEOREM LeasesKept == Spec => []LeaseInv(0)
<1>1. Init => LeaseInv(0)
  BY InitLeased
<1>2. LeaseInv(0) /\ [Next]_vars => LeaseInv(0)'
  BY AtLeastZero, NextLeased
<1> QED
  BY <1>1, <1>2, PTL DEF Spec

\* NeverStalls, for every instance: in dhcp.c no loss of a message or of
\* memory leaves a client that has no address without a request timeout.
THEOREM ClientNeverStalls == Spec => []NeverStalls
<1>1. LeaseInv(0) => NeverStalls
  BY DEF LeaseInv, ClientInv, Sane, NeverStalls
<1> QED
  BY <1>1, LeasesKept, PTL

\* HeldIsLeased, for every instance: the address dhcp_bind gave a station is
\* on the list of the server for that station, whatever was lost, delayed or
\* answered twice, unless the server gave it up or dhcp_recv took the
\* acknowledgement of another address for its own.
THEOREM AddressesAreLeased == Spec => []HeldIsLeased
<1>1. LeaseInv(0) => HeldIsLeased
  BY DEF LeaseInv, LeasedInv, HeldIsLeased, Own
<1> QED
  BY <1>1, LeasesKept, PTL

\* The range starts at b whatever it is set to, and no guest names an
\* address below it.
OneStart(b) ==
  /\ \A l \in Ranges : l.enable => l.start = b
  /\ \A ip \in ApAddresses : DefaultRange(ip).start = b
  /\ \A a \in GuestAddresses : a >= b

\* With one start, no two nodes share an address.
UniqueInv(b) ==
  /\ LeaseInv(b) /\ Unique(plist)
  /\ lease.enable \/ server # 0 => lease.start = b

\* LeasesSound, under the condition the search for a gap in
\* wifi_softap_dhcps_client_update needs: nobody names an address below the
\* start of the range.  The stations do not, for they were given theirs by
\* this server from that same start; guests must not.
THEOREM LeasesStaySound ==
  ASSUME NEW b \in Nat, OneStart(b)
  PROVE  Spec => []LeasesSound
<1>1. AtLeast(b)
  BY DEF OneStart, AtLeast
<1>2. Init => UniqueInv(b)
  <2>1. Init => LeaseInv(b)
    BY InitLeased
  <2> QED
    BY <2>1 DEF Init, UniqueInv, Unique
<1>3. UniqueInv(b) /\ [Next]_vars => UniqueInv(b)'
  <2> SUFFICES ASSUME UniqueInv(b), [Next]_vars PROVE UniqueInv(b)'
    OBVIOUS
  <2>1. LeaseInv(b)' /\ Unique(plist')
    BY <1>1, NextLeased DEF UniqueInv
  <2>2. Unique(plist)'
    BY <2>1 DEF Unique
  <2>3. (lease.enable \/ server # 0 => lease.start = b)'
    <3>1. CASE UNCHANGED <<lease, server>>
      BY <3>1 DEF UniqueInv
    <3>2. CASE dhcps_stop
      BY <3>2 DEF dhcps_stop, UniqueInv
    <3>3. ASSUME NEW ip \in ApAddresses, dhcps_start(ip)
          PROVE  lease'.start = b
      BY <3>3 DEF dhcps_start, wifi_softap_init_dhcps_lease, UniqueInv, OneStart
    <3>4. ASSUME NEW ip \in ApAddresses, NEW l \in Ranges,
                 wifi_softap_set_dhcps_lease(l, ip)
          PROVE  server' = 0 /\ (lease'.enable => lease'.start = b)
      <4>1. /\ server' = 0
            /\ lease' = IF l.enable THEN l ELSE [lease EXCEPT !.enable = FALSE]
        BY <3>4 DEF wifi_softap_set_dhcps_lease
      <4>2. lease \in [enable : BOOLEAN, start : Int, end : Int]
        BY DEF UniqueInv, LeaseInv, ServerInv
      <4> QED
        BY <4>1, <4>2 DEF OneStart
    <3>5. ASSUME NEW c \in Stations,
                 \/ Start(c) \/ Stop(c) \/ LinkUp(c) \/ FineTimer(c)
                 \/ CoarseTimer(c) \/ ArpAnswered(c) \/ Receive(c)
                 \/ handle_dhcp(c) \/ StationGone(c) \/ LoseUp(c) \/ LoseDown(c)
          PROVE  UNCHANGED <<lease, server>>
      BY <3>5, Zenon DEF Start, Stop, LinkUp, FineTimer, CoarseTimer, ArpAnswered,
                  Receive, Acts, Station, handle_dhcp, StationGone, LoseUp,
                  LoseDown
    <3>6. /\ ServerTimer => UNCHANGED <<lease, server>>
          /\ \A g, m : handle_guest(g, m) => UNCHANGED <<lease, server>>
      BY DEF ServerTimer, handle_guest
    <3> QED
      BY <3>1, <3>2, <3>3, <3>4, <3>5, <3>6 DEF Next, vars
  <2> QED
    BY <2>1, <2>2, <2>3 DEF UniqueInv
<1>4. UniqueInv(b) => LeasesSound
  BY DEF UniqueInv, LeaseInv, LeasedInv, LeasesSound, LeaseUnique, HeldIsLeased,
         Unique, Own
<1> QED
  BY <1>2, <1>3, <1>4, PTL DEF Spec

-----------------------------------------------------------------------------
(* The ARP cache: the invariant is about a table t, the addresses heard (h)  *)
(* and the number of packets given out so far (n).                           *)

\* The queue of an entry for address a.
QueueInv(q, a, n) ==
  /\ q \in Seq(Packets) /\ Len(q) <= MaxQueue
  /\ \A k \in 1 .. Len(q) : q[k].hop = a /\ q[k].id <= n
  /\ \A k \in 2 .. Len(q) : q[k - 1].id < q[k].id

\* An entry: only a pending one holds packets, and a stable one has the
\* address heard last.
EntryInv(e, h, n) ==
  /\ e \in ArpEntry
  /\ e.q # << >> => e.state = "PENDING"
  /\ QueueInv(e.q, e.ip, n)
  /\ Stable(e) => e.mac = h[e.ip]

\* Besides, no two live entries are for one address.
ArpTableInv(t, h, n) ==
  /\ t \in [Slots -> ArpEntry]
  /\ \A i \in Slots : EntryInv(t[i], h, n)
  /\ \A i, j \in Slots : Live(t[i]) /\ Live(t[j]) /\ t[i].ip = t[j].ip => i = j

\* The frames a step sends.
FramesRight(o, h) ==
  o \in Seq([pkt : Packets, mac : Macs \union {NoMac}]) /\ \A k \in 1 .. Len(o) : o[k].mac = h[o[k].pkt.hop]

\* The invariant of the cache.
ArpInv ==
  /\ etharp_cached_entry \in Slots
  /\ packets \in 0 .. MaxPackets
  /\ heard \in [Addrs -> Macs \union {NoMac}]
  /\ ArpTableInv(arp_table, heard, packets)
  /\ FramesRight(out, heard)

\* The pieces of the assumption.
LEMMA ArpValues ==
  ASSUME ArpAssumption
  PROVE  /\ TableSize \in Nat \ {0} /\ MaxQueue \in Nat \ {0}
         /\ MaxAge \in Nat \ {0} /\ MaxPackets \in Nat
         /\ Gw \in Addrs /\ \A i \in Slots : i \in Nat
         /\ 1 \in Slots
         /\ \A a \in Addrs : \A m \in MacsOf[a] : m \in Macs
         /\ Locals \subseteq Addrs
BY DEF ArpAssumption, Addrs, Macs, Slots

\* An entry that free_entry leaves, and one that find_entry makes of it.
LEMMA EmptyEntry ==
  ASSUME ArpAssumption, NEW h, NEW n \in Nat, NEW a \in Addrs
  PROVE  LET e == [Empty EXCEPT !.ip = a, !.ctime = 0]
         IN  /\ EntryInv(Empty, h, n) /\ ~ Live(Empty)
             /\ EntryInv(e, h, n) /\ ~ Live(e) /\ e.ip = a /\ e.q = << >>
<1>1. Empty \in ArpEntry /\ Empty.state = "EMPTY" /\ Empty.q = << >>
  <2>1. << >> \in Seq(Packets) /\ 0 \in 0 .. MaxAge
    BY ArpValues
  <2> QED
    BY <2>1, ArpValues DEF Empty, ArpEntry
<1>2. [Empty EXCEPT !.ip = a, !.ctime = 0] \in ArpEntry
  <2>1. 0 \in 0 .. MaxAge
    BY ArpValues
  <2> QED
    BY <1>1, <2>1 DEF ArpEntry
<1>3. \A b : QueueInv(<< >>, b, n)
  BY ArpValues DEF QueueInv
<1>4. EntryInv(Empty, h, n) /\ ~ Live(Empty)
  BY <1>1, <1>3 DEF EntryInv, Stable, Live
<1> DEFINE e == [Empty EXCEPT !.ip = a, !.ctime = 0]
<1>5. e \in ArpEntry /\ e.state = "EMPTY" /\ e.q = << >> /\ e.ip = a
  BY <1>1, <1>2 DEF ArpEntry
<1> HIDE DEF e
<1>6. EntryInv(e, h, n) /\ ~ Live(e)
  BY <1>3, <1>5 DEF EntryInv, Stable, Live
<1> QED
  BY <1>4, <1>5, <1>6 DEF e

\* Of some entries one is the oldest, and the sweep finds it.
LEMMA OldestIn ==
  ASSUME ArpAssumption, NEW t \in [Slots -> ArpEntry], NEW S, S \subseteq Slots, S # {}
  PROVE  Oldest(t, S) \in S
<1>1. \A i \in S : i \in 1 .. TableSize /\ t[i].ctime \in 0 .. MaxAge
  BY DEF Slots, ArpEntry
<1>2. TableSize \in Nat /\ MaxAge \in Nat /\ MaxAge + 1 \in Nat
  BY ArpValues
<1> DEFINE C == {t[i].ctime + 1 : i \in S}
<1>3. C \subseteq 1 .. MaxAge + 1 /\ C # {}
  BY <1>1, <1>2
<1>4. PICK c \in C : \A d \in C : d <= c
  BY <1>2, <1>3, Greatest
<1> DEFINE I == {i \in S : t[i].ctime + 1 = c}
<1>5. I \subseteq 1 .. TableSize /\ I # {}
  BY <1>1
<1>6. PICK m \in I : \A j \in I : j <= m
  BY <1>2, <1>5, Greatest
<1>7. \A j \in S : t[j].ctime < t[m].ctime \/ (t[j].ctime = t[m].ctime /\ j <= m)
  <2> SUFFICES ASSUME NEW j \in S
               PROVE  t[j].ctime < t[m].ctime \/ (t[j].ctime = t[m].ctime /\ j <= m)
    OBVIOUS
  <2>1. t[m].ctime + 1 = c /\ t[j].ctime + 1 <= c /\ t[j].ctime \in Nat /\ t[m].ctime \in Nat
    BY <1>1, <1>4, <1>6
  <2>2. t[j].ctime = t[m].ctime => j <= m
    BY <1>6, <2>1
  <2> HIDE DEF C, I
  <2> QED
    BY <2>1, <2>2
<1>8. m \in S
  OBVIOUS
<1> QED
  BY <1>7, <1>8 DEF Oldest

\* A full table always has an entry to give up.
LEMMA VictimIn ==
  ASSUME ArpAssumption, NEW t \in [Slots -> ArpEntry], \A i \in Slots : Live(t[i])
  PROVE  Victim(t) \in Slots
<1> DEFINE stable == {i \in Slots : Stable(t[i])}
           idle == {i \in Slots : t[i].state = "PENDING" /\ t[i].q = << >>}
           queued == {i \in Slots : t[i].state = "PENDING" /\ t[i].q # << >>}
           S == IF stable # {} THEN stable ELSE IF idle # {} THEN idle ELSE queued
<1>1. 1 \in stable \/ 1 \in idle \/ 1 \in queued
  <2>1. 1 \in Slots /\ t[1] \in ArpEntry /\ Live(t[1])
    BY ArpValues
  <2> QED
    BY <2>1 DEF Live, Stable, ArpEntry
<1>2. S \subseteq Slots /\ S # {}
  BY <1>1
<1>3. Victim(t) = Oldest(t, S)
  BY DEF Victim
<1> HIDE DEF S
<1> QED
  BY <1>2, <1>3, OldestIn

\* find_entry: the entry of an address, or a fresh one in its place, in a
\* table that is as sound as before and in which the address is nowhere else.
LEMMA FindEntry ==
  ASSUME ArpAssumption, NEW t, NEW h, NEW n \in Nat, ArpTableInv(t, h, n), NEW a \in Addrs,
         NEW tryHard \in BOOLEAN
  PROVE  LET f == find_entry(t, a, tryHard)
         IN  /\ f.i \in Slots \union {0} /\ (tryHard => f.i # 0)
             /\ ArpTableInv(f.table, h, n)
             /\ f.i # 0 => f.table[f.i].ip = a /\ (~ Live(f.table[f.i]) => f.table[f.i].q = << >>)
             /\ \A j \in Slots : j # f.i /\ Live(f.table[j]) => f.table[j].ip # a
<1> DEFINE match == {i \in Slots : Live(t[i]) /\ t[i].ip = a}
           empty == {i \in Slots : ~ Live(t[i])}
           fresh == IF empty # {} THEN CHOOSE i \in empty : \A j \in empty : i <= j
                                  ELSE Victim(t)
           f == find_entry(t, a, tryHard)
           e == [Empty EXCEPT !.ip = a, !.ctime = 0]
<1>0. /\ t \in [Slots -> ArpEntry]
      /\ \A i \in Slots : EntryInv(t[i], h, n)
      /\ \A i, j \in Slots : Live(t[i]) /\ Live(t[j]) /\ t[i].ip = t[j].ip => i = j
      /\ Slots \subseteq Nat /\ 0 \notin Slots
  BY ArpValues DEF ArpTableInv, Slots
<1>1. CASE match # {}
  <2> DEFINE i == CHOOSE i \in match : \A j \in match : i <= j
  <2>1. i \in match
    <3>1. PICK x \in match : \A y \in match : x <= y
      BY <1>0, <1>1, Least
    <3> QED
      BY <3>1
  <2>2. f = [i |-> i, table |-> t]
    BY <1>1 DEF find_entry
  <2> HIDE DEF f, i
  <2>3. f.i = i /\ f.table = t
    BY <2>2
  <2> QED
    BY <1>0, <2>1, <2>3 DEF f
<1>2. CASE match = {} /\ ~ tryHard
  <2>1. f = [i |-> 0, table |-> t]
    BY <1>2 DEF find_entry
  <2>2. f.i = 0 /\ f.table = t
    BY <2>1
  <2>3. \A j \in Slots : Live(t[j]) => t[j].ip # a
    BY <1>2
  <2> HIDE DEF f
  <2> QED
    BY <1>2, <2>2, <2>3 DEF f
<1>3. CASE match = {} /\ tryHard
  <2>1. fresh \in Slots
    <3>1. CASE empty # {}
      <4>1. PICK x \in empty : \A y \in empty : x <= y
        BY <1>0, <3>1, Least
      <4> QED
        BY <3>1, <4>1
    <3>2. CASE empty = {}
      BY <1>0, <3>2, VictimIn
    <3> QED
      BY <3>1, <3>2
  <2>2. f = [i |-> fresh, table |-> [t EXCEPT ![fresh] = e]]
    BY <1>3 DEF find_entry, free_entry
  <2> HIDE DEF fresh
  <2>3. f.table = [t EXCEPT ![fresh] = e]
    BY <2>2
  <2>4. f.i = fresh
    BY <2>2
  <2>5. /\ EntryInv(e, h, n) /\ ~ Live(e) /\ e.ip = a /\ e.q = << >> /\ e \in ArpEntry
    <3>1. EntryInv(e, h, n) /\ ~ Live(e) /\ e.ip = a /\ e.q = << >>
      BY EmptyEntry, Zenon
    <3>2. e \in ArpEntry
      BY <3>1, Zenon DEF EntryInv
    <3> QED
      BY <3>1, <3>2
  <2> HIDE DEF f, e
  <2>6. \A j \in Slots : f.table[j] = IF j = fresh THEN e ELSE t[j]
    BY <1>0, <2>1, <2>3
  <2>7. ArpTableInv(f.table, h, n)
    <3>1. f.table \in [Slots -> ArpEntry]
      BY <1>0, <2>1, <2>3, <2>5
    <3>2. \A j \in Slots : EntryInv(f.table[j], h, n)
      BY <1>0, <2>5, <2>6
    <3>3. \A i, j \in Slots :
            Live(f.table[i]) /\ Live(f.table[j]) /\ f.table[i].ip = f.table[j].ip => i = j
      BY <1>0, <2>5, <2>6
    <3> QED
      BY <3>1, <3>2, <3>3 DEF ArpTableInv
  <2>8. \A j \in Slots : j # f.i /\ Live(f.table[j]) => f.table[j].ip # a
    BY <1>3, <2>4, <2>6
  <2>9. f.table[f.i] = e /\ f.i \in Slots /\ f.i # 0
    BY <1>0, <2>1, <2>4, <2>6
  <2> QED
    BY <2>5, <2>7, <2>8, <2>9 DEF f
<1> QED
  BY <1>1, <1>2, <1>3

\* What holds of an entry with n packets given out holds with more.
LEMMA EntryLater ==
  ASSUME NEW e, NEW h, NEW n \in Nat, EntryInv(e, h, n)
  PROVE  EntryInv(e, h, n + 1)
<1>1. e.q \in Seq(Packets) /\ \A k \in 1 .. Len(e.q) : e.q[k].id <= n
  BY DEF EntryInv, QueueInv
<1>2. \A k \in 1 .. Len(e.q) : e.q[k].id \in Nat
  <2>1. \A k \in 1 .. Len(e.q) : e.q[k] \in Packets
    BY <1>1
  <2> QED
    BY <2>1 DEF Packets
<1>3. \A k \in 1 .. Len(e.q) : e.q[k].id <= n + 1
  BY <1>1, <1>2
<1> QED
  BY <1>3 DEF EntryInv, QueueInv

\* The queue of an entry after the packet n + 1 for its address.
LEMMA QueuedKeeps ==
  ASSUME ArpAssumption, NEW q, NEW a, NEW n \in Nat, QueueInv(q, a, n),
         NEW p \in Packets, p.hop = a, p.id = n + 1
  PROVE  QueueInv(Queued(q, p), a, n + 1)
<1>1. /\ q \in Seq(Packets) /\ Len(q) \in Nat /\ Len(q) <= MaxQueue
      /\ \A k \in 1 .. Len(q) : q[k].hop = a /\ q[k].id <= n
      /\ \A k \in 2 .. Len(q) : q[k - 1].id < q[k].id
  BY DEF QueueInv
<1>2. \A k \in 1 .. Len(q) : q[k].id \in Nat
  <2>1. \A k \in 1 .. Len(q) : q[k] \in Packets
    BY <1>1
  <2> QED
    BY <2>1 DEF Packets
<1>3. CASE Len(q) >= MaxQueue
  <2> DEFINE r == Tail(q)
  <2>1. q # << >> /\ Len(q) = MaxQueue /\ Len(q) > 0
    BY <1>1, <1>3, ArpValues
  <2>2. /\ r \in Seq(Packets) /\ Len(r) = Len(q) - 1
        /\ \A k \in 1 .. Len(r) : r[k] = q[k + 1]
    BY <1>1, <2>1, HeadTailProperties
  <2> HIDE DEF r
  <2> DEFINE s == Append(r, p)
  <2>3. /\ s \in Seq(Packets) /\ Len(s) = Len(r) + 1 /\ s[Len(s)] = p
        /\ \A k \in 1 .. Len(r) : s[k] = r[k]
    BY <2>2, AppendProperties
  <2>4. Queued(q, p) = s
    BY <1>3 DEF Queued, r
  <2> HIDE DEF s
  <2>5. Len(s) = Len(q) /\ \A k \in 1 .. Len(s) : s[k] = IF k = Len(s) THEN p ELSE q[k + 1]
    BY <1>1, <2>1, <2>2, <2>3, SMTT(30)
  <2>6. \A k \in 1 .. Len(s) : s[k].hop = a /\ s[k].id <= n + 1
    BY <1>1, <1>2, <2>5
  <2>7. ASSUME NEW k \in 2 .. Len(s) PROVE s[k - 1].id < s[k].id
    <3>1. k - 1 \in 1 .. Len(s) /\ k - 1 # Len(s) /\ s[k - 1] = q[k] /\ k \in 1 .. Len(s)
      BY <1>1, <2>5
    <3>2. CASE k = Len(s)
      BY <1>1, <1>2, <2>5, <3>1, <3>2
    <3>3. CASE k # Len(s)
      <4>1. s[k] = q[k + 1] /\ k + 1 \in 2 .. Len(q) /\ (k + 1) - 1 = k
        BY <1>1, <2>5, <3>1, <3>3
      <4> QED
        BY <1>1, <3>1, <4>1
    <3> QED
      BY <3>2, <3>3
  <2> QED
    BY <2>1, <2>3, <2>4, <2>5, <2>6, <2>7 DEF QueueInv
<1>4. CASE ~ (Len(q) >= MaxQueue)
  <2> DEFINE s == Append(q, p)
  <2>1. /\ s \in Seq(Packets) /\ Len(s) = Len(q) + 1 /\ s[Len(s)] = p
        /\ \A k \in 1 .. Len(q) : s[k] = q[k]
    BY <1>1, AppendProperties
  <2>2. Queued(q, p) = s
    BY <1>4 DEF Queued
  <2> HIDE DEF s
  <2>3. Len(s) <= MaxQueue
    BY <1>1, <1>4, <2>1, ArpValues
  <2>4. \A k \in 1 .. Len(s) : s[k].hop = a /\ s[k].id <= n + 1
    <3>1. \A k \in 1 .. Len(s) : s[k] = IF k = Len(s) THEN p ELSE q[k]
      BY <1>1, <2>1
    <3>2. \A k \in 1 .. Len(s) : k # Len(s) => k \in 1 .. Len(q)
      BY <1>1, <2>1
    <3> QED
      BY <1>1, <1>2, <3>1, <3>2
  <2>5. ASSUME NEW k \in 2 .. Len(s) PROVE s[k - 1].id < s[k].id
    <3>1. k - 1 \in 1 .. Len(q) /\ s[k - 1] = q[k - 1]
      BY <1>1, <2>1
    <3>2. CASE k = Len(s)
      BY <1>1, <1>2, <2>1, <3>1, <3>2
    <3>3. CASE k # Len(s)
      BY <1>1, <2>1, <3>1, <3>3, SMTT(30)
    <3> QED
      BY <3>2, <3>3
  <2> QED
    BY <2>1, <2>2, <2>3, <2>4, <2>5 DEF QueueInv
<1> QED
  BY <1>3, <1>4

\* One entry of a sound table replaced, by one whose address is nowhere else.
LEMMA EntryReplaced ==
  ASSUME NEW t \in [Slots -> ArpEntry], NEW i \in Slots, NEW e, NEW h, NEW n,
         EntryInv(e, h, n),
         \A j \in Slots : j # i => EntryInv(t[j], h, n),
         \A j \in Slots : j # i /\ Live(t[j]) => t[j].ip # e.ip,
         \A j, k \in Slots : Live(t[j]) /\ Live(t[k]) /\ t[j].ip = t[k].ip => j = k
  PROVE  ArpTableInv([t EXCEPT ![i] = e], h, n)
<1> DEFINE u == [t EXCEPT ![i] = e]
<1>1. e \in ArpEntry
  BY DEF EntryInv
<1>2. u \in [Slots -> ArpEntry] /\ \A j \in Slots : u[j] = IF j = i THEN e ELSE t[j]
  BY <1>1
<1> HIDE DEF u
<1>3. \A j \in Slots : EntryInv(u[j], h, n)
  BY <1>2
<1>4. \A j, k \in Slots : Live(u[j]) /\ Live(u[k]) /\ u[j].ip = u[k].ip => j = k
  BY <1>2
<1>5. ArpTableInv(u, h, n)
  BY <1>2, <1>3, <1>4 DEF ArpTableInv
<1> QED
  BY <1>5 DEF u

\* What ArpTableInv says of a table.
LEMMA TableFacts ==
  ASSUME NEW t, NEW h, NEW n, ArpTableInv(t, h, n)
  PROVE  /\ t \in [Slots -> ArpEntry]
         /\ \A i \in Slots : EntryInv(t[i], h, n)
         /\ \A i, j \in Slots : Live(t[i]) /\ Live(t[j]) /\ t[i].ip = t[j].ip => i = j
BY DEF ArpTableInv

\* update_arp_entry: the host's entry gets the address just heard, and what
\* waited for it goes there.
LEMMA UpdateKeeps ==
  ASSUME ArpAssumption, ArpInv, NEW a \in Addrs, NEW m \in MacsOf[a], NEW tryHard \in BOOLEAN,
         update_arp_entry(a, m, tryHard), heard' = [heard EXCEPT ![a] = m],
         UNCHANGED <<etharp_cached_entry, configured, netif_up, packets>>
  PROVE  ArpInv'
<1> DEFINE f == find_entry(arp_table, a, tryHard)
           i == f.i
           t == f.table
<1>1. /\ packets \in Nat /\ heard \in [Addrs -> Macs \union {NoMac}]
      /\ ArpTableInv(arp_table, heard, packets)
  BY ArpValues DEF ArpInv
<1>2. /\ i \in Slots \union {0}
      /\ ArpTableInv(t, heard, packets)
      /\ i # 0 => t[i].ip = a
      /\ \A j \in Slots : j # i /\ Live(t[j]) => t[j].ip # a
      /\ i = 0 => t = arp_table
  <2>1. i = 0 => t = arp_table
    <3>1. f = [i |-> 0, table |-> arp_table] \/ f.table = arp_table \/ tryHard
      BY DEF find_entry
    <3>2. tryHard => i # 0
      BY <1>1, FindEntry
    <3> QED
      BY <3>1, <3>2
  <2> QED
    BY <1>1, <2>1, FindEntry
<1>3. m \in Macs /\ heard' \in [Addrs -> Macs \union {NoMac}] /\ heard'[a] = m
      /\ \A b \in Addrs : b # a => heard'[b] = heard[b]
  BY <1>1, ArpValues
<1>4. /\ t \in [Slots -> ArpEntry]
      /\ \A j \in Slots : EntryInv(t[j], heard, packets)
      /\ \A j, k \in Slots : Live(t[j]) /\ Live(t[k]) /\ t[j].ip = t[k].ip => j = k
  BY <1>2, TableFacts
<1>5. \A j \in Slots : j # i => EntryInv(t[j], heard', packets)
  <2> SUFFICES ASSUME NEW j \in Slots, j # i PROVE EntryInv(t[j], heard', packets)
    OBVIOUS
  <2>1. t[j] \in ArpEntry /\ EntryInv(t[j], heard, packets) /\ t[j].ip \in Addrs
    BY <1>4 DEF ArpEntry
  <2>2. Stable(t[j]) => Live(t[j])
    BY DEF Stable, Live
  <2>3. Stable(t[j]) => t[j].ip # a
    BY <1>2, <2>2
  <2>4. Stable(t[j]) => t[j].mac = heard'[t[j].ip]
    BY <1>3, <2>1, <2>3 DEF EntryInv
  <2> QED
    BY <2>1, <2>4 DEF EntryInv
<1>6. update_arp_entry(a, m, tryHard) =
        IF i = 0 THEN arp_table' = arp_table /\ out' = << >>
        ELSE /\ arp_table' = [t EXCEPT ![i].state = "STABLE", ![i].mac = m,
                                       ![i].ctime = 0, ![i].q = << >>]
             /\ out' = [k \in 1 .. Len(t[i].q) |-> Frame(t[i].q[k], m)]
  BY DEF update_arp_entry
<1>7. packets' = packets /\ etharp_cached_entry' = etharp_cached_entry
  OBVIOUS
<1> HIDE DEF f
<1>8. CASE i = 0
  <2>1. arp_table' = t /\ out' = << >>
    BY <1>2, <1>6, <1>8
  <2>2. 0 \notin Slots
    BY DEF Slots
  <2>3. ArpTableInv(arp_table', heard', packets')
    BY <1>4, <1>5, <1>7, <1>8, <2>1, <2>2 DEF ArpTableInv
  <2>4. FramesRight(out', heard')
    BY <2>1 DEF FramesRight
  <2> QED
    BY <1>3, <1>7, <2>3, <2>4 DEF ArpInv
<1>9. CASE i # 0
  <2> DEFINE e == [t[i] EXCEPT !.state = "STABLE", !.mac = m, !.ctime = 0, !.q = << >>]
             q == t[i].q
  <2>1. i \in Slots /\ t[i].ip = a /\ t[i] \in ArpEntry
    BY <1>2, <1>4, <1>9
  <2>2. [t EXCEPT ![i].state = "STABLE", ![i].mac = m, ![i].ctime = 0, ![i].q = << >>]
          = [t EXCEPT ![i] = e]
    BY <1>4, <2>1
  <2>3. EntryInv(e, heard', packets) /\ e.ip = a
    <3>1. e \in ArpEntry /\ e.state = "STABLE" /\ e.mac = m /\ e.ip = a /\ e.q = << >>
      <4>1. << >> \in Seq(Packets) /\ 0 \in 0 .. MaxAge
        BY ArpValues
      <4> QED
        BY <1>3, <2>1, <4>1 DEF ArpEntry
    <3>2. QueueInv(<< >>, a, packets)
      BY ArpValues DEF QueueInv
    <3> QED
      BY <1>3, <3>1, <3>2 DEF EntryInv
  <2>4. ArpTableInv([t EXCEPT ![i] = e], heard', packets)
    BY <1>2, <1>4, <1>5, <2>1, <2>3, EntryReplaced, Zenon
  <2>5. ArpTableInv(arp_table', heard', packets')
    BY <1>6, <1>7, <1>9, <2>2, <2>4, Zenon
  <2>6. q \in Seq(Packets) /\ \A k \in 1 .. Len(q) : q[k].hop = a
    BY <1>4, <2>1, SMTT(30) DEF EntryInv, QueueInv
  <2>7. out' = [k \in 1 .. Len(q) |-> Frame(q[k], m)]
    BY <1>6, <1>9
  <2> HIDE DEF q
  <2>8. FramesRight(out', heard')
    <3>1. Len(q) \in Nat /\ \A k \in 1 .. Len(q) : q[k] \in Packets
      BY <2>6
    <3>2. \A k \in 1 .. Len(q) :
            /\ Frame(q[k], m) \in [pkt : Packets, mac : Macs \union {NoMac}]
            /\ Frame(q[k], m).mac = m /\ Frame(q[k], m).pkt = q[k]
      BY <1>3, <3>1 DEF Frame
    <3>3. out' \in Seq([pkt : Packets, mac : Macs \union {NoMac}]) /\ Len(out') = Len(q)
      BY <2>7, <3>1, <3>2
    <3>4. \A k \in 1 .. Len(q) : out'[k].mac = m /\ out'[k].pkt.hop = a
      BY <2>6, <2>7, <3>2
    <3> QED
      BY <1>3, <3>3, <3>4 DEF FramesRight
  <2> QED
    BY <1>3, <1>7, <2>5, <2>8 DEF ArpInv
<1> QED
  BY <1>8, <1>9

\* etharp_query: the packet n + 1 goes to the address the entry has, or waits
\* for it; without a packet (p = << >>) only the entry is made.
LEMMA QueryKeeps ==
  ASSUME ArpAssumption, ArpInv, NEW a \in Addrs, NEW p, NEW copied \in BOOLEAN,
         etharp_query(a, p, copied), heard' = heard,
         \/ p = << >> /\ packets' = packets
         \/ /\ p = <<[id |-> packets + 1, hop |-> a]>>
            /\ packets' = packets + 1 /\ packets < MaxPackets
  PROVE  ArpInv'
<1> DEFINE f == find_entry(arp_table, a, TRUE)
           i == f.i
           e == IF Live(f.table[i]) THEN f.table[i]
                                    ELSE [f.table[i] EXCEPT !.state = "PENDING"]
           t == IF Live(f.table[i]) THEN f.table ELSE [f.table EXCEPT ![i].state = "PENDING"]
           n == packets
<1>1. /\ n \in Nat /\ MaxPackets \in Nat /\ heard \in [Addrs -> Macs \union {NoMac}]
      /\ ArpTableInv(arp_table, heard, n) /\ etharp_cached_entry \in Slots
      /\ packets' \in 0 .. MaxPackets
  BY ArpValues DEF ArpInv
<1>2. /\ i \in Slots /\ f.table[i].ip = a
      /\ ArpTableInv(f.table, heard, n)
      /\ ~ Live(f.table[i]) => f.table[i].q = << >>
      /\ \A j \in Slots : j # i /\ Live(f.table[j]) => f.table[j].ip # a
  <2>1. ASSUME NEW b \in BOOLEAN, b
        PROVE  LET g == find_entry(arp_table, a, b)
               IN  /\ g.i \in Slots \union {0} /\ g.i # 0
                   /\ ArpTableInv(g.table, heard, n)
                   /\ g.i # 0 => g.table[g.i].ip = a /\ (~ Live(g.table[g.i]) => g.table[g.i].q = << >>)
                   /\ \A j \in Slots : j # g.i /\ Live(g.table[j]) => g.table[j].ip # a
    <3> DEFINE g == find_entry(arp_table, a, b)
    <3>1. /\ g.i \in Slots \union {0} /\ ArpTableInv(g.table, heard, n)
          /\ g.i # 0 => g.table[g.i].ip = a /\ (~ Live(g.table[g.i]) => g.table[g.i].q = << >>)
          /\ \A j \in Slots : j # g.i /\ Live(g.table[j]) => g.table[j].ip # a
      BY <1>1, FindEntry
    <3>2. b => g.i # 0
      BY <1>1, FindEntry
    <3> HIDE DEF g
    <3>3. g.i # 0
      BY <2>1, <3>2, Zenon
    <3> QED
      BY <3>1, <3>3, Zenon DEF g
  <2>2. /\ f.i \in Slots \union {0} /\ f.i # 0
        /\ ArpTableInv(f.table, heard, n)
        /\ f.i # 0 => f.table[f.i].ip = a /\ (~ Live(f.table[f.i]) => f.table[f.i].q = << >>)
        /\ \A j \in Slots : j # f.i /\ Live(f.table[j]) => f.table[j].ip # a
    BY <2>1, Zenon
  <2> HIDE DEF f
  <2> QED
    BY <2>2
<1>3. /\ f.table \in [Slots -> ArpEntry]
      /\ \A j \in Slots : EntryInv(f.table[j], heard, n)
      /\ \A j, k \in Slots :
           Live(f.table[j]) /\ Live(f.table[k]) /\ f.table[j].ip = f.table[k].ip => j = k
  BY <1>2, TableFacts
<1>4. etharp_query(a, p, copied) =
        IF Stable(t[i])
          THEN /\ arp_table' = t
               /\ out' = [k \in 1 .. Len(p) |-> Frame(p[k], t[i].mac)]
               /\ etharp_cached_entry' = IF p = << >> THEN etharp_cached_entry ELSE i
          ELSE /\ arp_table' = IF p # << >> /\ copied
                                 THEN [t EXCEPT ![i].q = Queued(t[i].q, p[1])] ELSE t
               /\ out' = << >>
               /\ UNCHANGED etharp_cached_entry
  BY DEF etharp_query
<1> DEFINE g == f.table
<1> HIDE DEF f
<1>5. /\ t \in [Slots -> ArpEntry] /\ t = [g EXCEPT ![i] = e] /\ t[i] = e
      /\ e.ip = a /\ Live(e) /\ EntryInv(e, heard, n)
  <2>1. CASE Live(g[i])
    BY <1>2, <1>3, <2>1
  <2>2. CASE ~ Live(g[i])
    <3>1. g[i] \in ArpEntry /\ EntryInv(g[i], heard, n) /\ e = [g[i] EXCEPT !.state = "PENDING"]
      BY <1>2, <1>3, <2>2
    <3>2. e \in ArpEntry /\ e.state = "PENDING" /\ e.ip = a /\ e.q = g[i].q
      BY <1>2, <3>1 DEF ArpEntry
    <3>3. t = [g EXCEPT ![i] = e] /\ t[i] = e
      BY <1>2, <1>3, <2>2, <3>1
    <3> HIDE DEF e, t
    <3>4. EntryInv(e, heard, n) /\ Live(e)
      BY <1>2, <3>1, <3>2 DEF EntryInv, Stable, Live
    <3>5. t \in [Slots -> ArpEntry]
      BY <1>2, <1>3, <3>2, <3>3
    <3> QED
      BY <3>2, <3>3, <3>4, <3>5
  <2> QED
    BY <2>1, <2>2
<1>6. ArpTableInv(t, heard, n)
  <2> HIDE DEF e, t
  <2>1. ArpTableInv([g EXCEPT ![i] = e], heard, n)
    BY <1>2, <1>3, <1>5, EntryReplaced
  <2> QED
    BY <1>5, <2>1
<1> HIDE DEF e, t
<1>7. /\ \A j \in Slots : EntryInv(t[j], heard, n)
      /\ \A j, k \in Slots : Live(t[j]) /\ Live(t[k]) /\ t[j].ip = t[k].ip => j = k
  BY <1>6, TableFacts
<1>8. \A j \in Slots : EntryInv(t[j], heard, packets')
  <2>1. CASE packets' = packets
    BY <1>7, <2>1
  <2>2. CASE packets' = packets + 1
    <3>1. \A j \in Slots : EntryInv(t[j], heard, n + 1)
      BY <1>1, <1>7, EntryLater
    <3> QED
      BY <2>2, <3>1
  <2> QED
    BY <2>1, <2>2
<1>9. ArpTableInv(t, heard', packets')
  BY <1>5, <1>7, <1>8 DEF ArpTableInv
<1>10. etharp_cached_entry' \in Slots
  BY <1>1, <1>2, <1>4
<1>11. heard' \in [Addrs -> Macs \union {NoMac}]
  BY <1>1
<1>12. FramesRight(<< >>, heard')
  BY DEF FramesRight
<1>13. p # << >> => /\ p = <<[id |-> n + 1, hop |-> a]>> /\ Len(p) = 1 /\ packets' = n + 1
                    /\ p[1] \in Packets /\ p[1].hop = a /\ p[1].id = n + 1
  <2> SUFFICES ASSUME p # << >>
               PROVE  /\ p = <<[id |-> n + 1, hop |-> a]>> /\ Len(p) = 1 /\ packets' = n + 1
                      /\ p[1] \in Packets /\ p[1].hop = a /\ p[1].id = n + 1
    OBVIOUS
  <2>1. p = <<[id |-> n + 1, hop |-> a]>> /\ packets' = n + 1 /\ n + 1 \in 1 .. MaxPackets
    BY <1>1
  <2>2. [id |-> n + 1, hop |-> a] \in Packets
    BY <2>1 DEF Packets
  <2> QED
    BY <2>1, <2>2
<1>14. CASE Stable(t[i])
  <2>1. arp_table' = t /\ out' = [k \in 1 .. Len(p) |-> Frame(p[k], t[i].mac)]
    BY <1>4, <1>14
  <2>2. t[i].mac = heard'[a] /\ t[i].mac \in Macs \union {NoMac}
    BY <1>5, <1>14 DEF EntryInv, ArpEntry
  <2>3. FramesRight(out', heard')
    <3>1. CASE p = << >>
      <4>1. out' = << >>
        BY <2>1, <3>1
      <4> QED
        BY <1>12, <4>1
    <3>2. CASE p # << >>
      <4> DEFINE r == Frame(p[1], t[i].mac)
      <4>1. r \in [pkt : Packets, mac : Macs \union {NoMac}] /\ r.mac = heard'[r.pkt.hop]
        BY <1>13, <2>2, <3>2 DEF Frame
      <4>2. out' = [k \in 1 .. 1 |-> Frame(p[k], t[i].mac)]
        BY <1>13, <2>1, <3>2
      <4>3. \A k \in 1 .. 1 : k = 1
        OBVIOUS
      <4>4. out' = [k \in 1 .. 1 |-> r]
        BY <4>2, <4>3
      <4> HIDE DEF r
      <4>5. out' \in Seq([pkt : Packets, mac : Macs \union {NoMac}]) /\ Len(out') = 1
        BY <4>1, <4>4
      <4> QED
        BY <4>1, <4>4, <4>5 DEF FramesRight
    <3> QED
      BY <3>1, <3>2
  <2> QED
    BY <1>1, <1>9, <1>10, <1>11, <2>1, <2>3 DEF ArpInv
<1>15. CASE ~ Stable(t[i])
  <2>1. out' = << >>
    BY <1>4, <1>15
  <2>2. ArpTableInv(arp_table', heard', packets')
    <3>1. CASE ~ (p # << >> /\ copied)
      <4>1. arp_table' = t
        BY <1>4, <1>15, <3>1
      <4> QED
        BY <1>9, <4>1
    <3>2. CASE p # << >> /\ copied
      <4> DEFINE q == Queued(e.q, p[1])
                 d == [e EXCEPT !.q = q]
      <4>1. arp_table' = [t EXCEPT ![i].q = q]
        BY <1>4, <1>5, <1>15, <3>2
      <4>2. QueueInv(e.q, a, n) /\ e \in ArpEntry
        BY <1>5 DEF EntryInv
      <4>3. QueueInv(q, a, n + 1)
        BY <1>1, <1>13, <3>2, <4>2, QueuedKeeps
      <4>4. q \in Seq(Packets)
        BY <4>3 DEF QueueInv
      <4> HIDE DEF q
      <4>5. /\ d \in ArpEntry /\ d.q = q /\ d.ip = a /\ d.state = e.state
        BY <1>5, <4>2, <4>4 DEF ArpEntry
      <4>6. arp_table' = [t EXCEPT ![i] = d]
        BY <1>2, <1>5, <4>1
      <4> HIDE DEF d
      <4>7. d.state = "PENDING" /\ ~ Stable(d)
        BY <1>5, <1>15, <4>2, <4>5 DEF Live, Stable, ArpEntry
      <4>8. EntryInv(d, heard', packets')
        BY <1>13, <3>2, <4>3, <4>5, <4>7 DEF EntryInv
      <4>9. \A j \in Slots : j # i /\ Live(t[j]) => t[j].ip # d.ip
        BY <1>2, <1>5, <1>7, <4>5
      <4>10. \A j \in Slots : j # i => EntryInv(t[j], heard', packets')
        BY <1>8
      <4>11. ArpTableInv([t EXCEPT ![i] = d], heard', packets')
        BY <1>2, <1>5, <1>7, <4>8, <4>9, <4>10, EntryReplaced
      <4> QED
        BY <4>6, <4>11
    <3> QED
      BY <3>1, <3>2
  <2> QED
    BY <1>1, <1>10, <1>11, <1>12, <2>1, <2>2 DEF ArpInv
<1> QED
  BY <1>14, <1>15

\* etharp_output_to_arp_index: the packet goes to the address of a stable
\* entry of its hop, which is asked for again when it is about to expire.
LEMMA IndexKeeps ==
  ASSUME ArpAssumption, ArpInv, NEW a \in Addrs, NEW i \in Slots, NEW p \in Packets,
         Usable(i, a), p.hop = a, NEW asked \in BOOLEAN,
         etharp_output_to_arp_index(i, p, asked), heard' = heard,
         packets' = packets + 1, packets < MaxPackets
  PROVE  ArpInv'
<1> DEFINE e == arp_table[i]
           again == e.state = "STABLE" /\ e.ctime >= RerequestAge /\ asked
           d == [e EXCEPT !.state = "REREQUESTING"]
<1>1. /\ packets \in Nat /\ MaxPackets \in Nat /\ heard \in [Addrs -> Macs \union {NoMac}]
      /\ ArpTableInv(arp_table, heard, packets)
      /\ packets' \in 0 .. MaxPackets
  BY ArpValues DEF ArpInv
<1>2. /\ arp_table \in [Slots -> ArpEntry]
      /\ \A j \in Slots : EntryInv(arp_table[j], heard, packets)
      /\ \A j, k \in Slots :
           Live(arp_table[j]) /\ Live(arp_table[k]) /\ arp_table[j].ip = arp_table[k].ip => j = k
  BY <1>1, TableFacts
<1>3. \A j \in Slots : EntryInv(arp_table[j], heard', packets')
  BY <1>1, <1>2, EntryLater
<1>4. /\ e \in ArpEntry /\ Stable(e) /\ e.ip = a /\ e.mac = heard[a]
      /\ e.mac \in Macs \union {NoMac} /\ Live(e)
  BY <1>2 DEF Usable, EntryInv, ArpEntry, Stable, Live
<1>5. /\ etharp_cached_entry' = i /\ out' = <<Frame(p, e.mac)>>
      /\ arp_table' = IF again THEN [arp_table EXCEPT ![i].state = "REREQUESTING"] ELSE arp_table
  BY DEF etharp_output_to_arp_index
<1>6. FramesRight(out', heard')
  <2> DEFINE r == Frame(p, e.mac)
  <2>1. r \in [pkt : Packets, mac : Macs \union {NoMac}] /\ r.mac = heard'[r.pkt.hop]
    BY <1>4 DEF Frame
  <2>2. out' = <<r>>
    BY <1>5
  <2> HIDE DEF r
  <2> QED
    BY <2>1, <2>2 DEF FramesRight
<1>7. ArpTableInv(arp_table', heard', packets')
  <2>1. CASE ~ again
    <3>1. arp_table' = arp_table
      BY <1>5, <2>1
    <3> QED
      BY <1>2, <1>3, <3>1 DEF ArpTableInv
  <2>2. CASE again
    <3>1. /\ d \in ArpEntry /\ d.state = "REREQUESTING" /\ d.ip = a
          /\ d.mac = e.mac /\ d.q = e.q
      BY <1>4 DEF ArpEntry
    <3>2. arp_table' = [arp_table EXCEPT ![i] = d]
      BY <1>2, <1>5, <2>2
    <3>3. EntryInv(e, heard', packets') /\ e.q = << >>
      BY <1>3, <2>2 DEF EntryInv
    <3> HIDE DEF d
    <3>4. EntryInv(d, heard', packets')
      BY <1>4, <3>1, <3>3 DEF EntryInv
    <3>5. \A j \in Slots : j # i /\ Live(arp_table[j]) => arp_table[j].ip # d.ip
      BY <1>2, <1>4, <3>1
    <3>6. ArpTableInv([arp_table EXCEPT ![i] = d], heard', packets')
      BY <1>2, <1>3, <3>4, <3>5, EntryReplaced
    <3> QED
      BY <3>2, <3>6
  <2> QED
    BY <2>1, <2>2
<1>8. heard' \in [Addrs -> Macs \union {NoMac}] /\ etharp_cached_entry' \in Slots
  BY <1>1, <1>5
<1> QED
  BY <1>1, <1>6, <1>7, <1>8 DEF ArpInv

\* etharp_output, by whichever of the two ways.
LEMMA OutputKeeps ==
  ASSUME ArpAssumption, ArpInv, NEW dst \in Addrs, NEW ok \in BOOLEAN, etharp_output(dst, ok)
  PROVE  ArpInv'
<1> DEFINE hop == IF OnLink(dst) THEN dst ELSE Gw
           p == [id |-> packets + 1, hop |-> hop]
           usable == {j \in Slots : Usable(j, hop)}
           i == IF etharp_cached_entry \in usable THEN etharp_cached_entry
                ELSE CHOOSE j \in usable : \A k \in usable : j <= k
<1>1. hop \in Addrs /\ packets \in Nat /\ MaxPackets \in Nat /\ Slots \subseteq Nat
  BY ArpValues DEF ArpInv
<1>2. /\ packets < MaxPackets /\ packets' = packets + 1 /\ heard' = heard
      /\ usable # {} => etharp_output_to_arp_index(i, p, ok)
      /\ usable = {} => etharp_query(hop, <<p>>, ok)
  BY DEF etharp_output
<1>3. p \in Packets /\ p.hop = hop
  BY <1>1, <1>2 DEF Packets
<1>4. CASE usable # {}
  <2>1. PICK x \in usable : \A y \in usable : x <= y
    BY <1>1, <1>4, Least
  <2>2. i \in usable
    BY <2>1
  <2> HIDE DEF hop, p, i
  <2>3. i \in Slots /\ Usable(i, hop)
    BY <2>2
  <2> QED
    BY <1>1, <1>2, <1>3, <1>4, <2>3, IndexKeeps
<1>5. CASE usable = {}
  <2> HIDE DEF hop
  <2> QED
    BY <1>1, <1>2, <1>5, QueryKeeps
<1> QED
  BY <1>4, <1>5

\* etharp_tmr: an entry grows older or is freed with its packets.
LEMMA TmrArpKeeps ==
  ASSUME ArpAssumption, ArpInv, etharp_tmr
  PROVE  ArpInv'
<1>1. /\ packets \in Nat /\ ArpTableInv(arp_table, heard, packets)
  BY ArpValues DEF ArpInv
<1>2. /\ arp_table \in [Slots -> ArpEntry]
      /\ \A j \in Slots : EntryInv(arp_table[j], heard, packets)
      /\ \A j, k \in Slots :
           Live(arp_table[j]) /\ Live(arp_table[k]) /\ arp_table[j].ip = arp_table[k].ip => j = k
  BY <1>1, TableFacts
<1>3. ASSUME NEW e, EntryInv(e, heard, packets)
      PROVE  /\ EntryInv(AgedEntry(e), heard, packets)
             /\ Live(AgedEntry(e)) => Live(e) /\ AgedEntry(e).ip = e.ip
  <2> DEFINE old == \/ e.ctime + 1 >= MaxAge
                    \/ e.state = "PENDING" /\ e.ctime + 1 >= MaxPending
             d == [e EXCEPT !.ctime = @ + 1,
                            !.state = IF @ = "REREQUESTING" THEN "STABLE" ELSE @]
  <2>1. CASE ~ Live(e)
    <3>1. AgedEntry(e) = e
      BY <2>1 DEF AgedEntry
    <3> QED
      BY <1>3, <3>1
  <2>2. CASE Live(e) /\ old
    <3>1. AgedEntry(e) = Empty
      BY <2>2 DEF AgedEntry, free_entry
    <3>2. EntryInv(Empty, heard, packets) /\ ~ Live(Empty)
      BY <1>1, ArpValues, EmptyEntry
    <3> QED
      BY <3>1, <3>2
  <2>3. CASE Live(e) /\ ~ old
    <3>1. AgedEntry(e) = d
      BY <2>3 DEF AgedEntry
    <3>2. e \in ArpEntry /\ e.ctime \in 0 .. MaxAge /\ e.ctime + 1 \in 0 .. MaxAge
      <4>1. e \in ArpEntry /\ e.ctime \in 0 .. MaxAge
        BY <1>3 DEF EntryInv, ArpEntry
      <4> QED
        BY <2>3, <4>1, ArpValues
    <3>3. /\ d \in ArpEntry /\ d.ip = e.ip /\ d.q = e.q /\ d.mac = e.mac
          /\ d.state = IF e.state = "REREQUESTING" THEN "STABLE" ELSE e.state
      BY <3>2 DEF ArpEntry
    <3> HIDE DEF d
    <3>4. /\ Stable(d) => Stable(e)
          /\ e.state = "PENDING" => d.state = "PENDING"
      BY <3>3 DEF Stable
    <3>5. EntryInv(d, heard, packets)
      BY <1>3, <3>3, <3>4 DEF EntryInv
    <3> QED
      BY <2>3, <3>1, <3>3, <3>5
  <2> QED
    BY <2>1, <2>2, <2>3
<1>4. /\ arp_table' = [j \in Slots |-> AgedEntry(arp_table[j])]
      /\ out' = << >>
      /\ UNCHANGED <<etharp_cached_entry, heard, packets>>
  BY DEF etharp_tmr
<1>5. \A j \in Slots : arp_table'[j] = AgedEntry(arp_table[j])
  BY <1>4
<1>6. \A j \in Slots : EntryInv(arp_table'[j], heard, packets)
  BY <1>2, <1>3, <1>5
<1>7. arp_table' \in [Slots -> ArpEntry]
  <2>1. \A j \in Slots : AgedEntry(arp_table[j]) \in ArpEntry
    BY <1>5, <1>6 DEF EntryInv
  <2> QED
    BY <1>4, <2>1
<1>8. \A j, k \in Slots :
        Live(arp_table'[j]) /\ Live(arp_table'[k]) /\ arp_table'[j].ip = arp_table'[k].ip => j = k
  BY <1>2, <1>3, <1>5
<1>9. ArpTableInv(arp_table', heard', packets')
  BY <1>4, <1>6, <1>7, <1>8 DEF ArpTableInv
<1>10. FramesRight(out', heard')
  BY <1>4 DEF FramesRight
<1> QED
  BY <1>4, <1>9, <1>10 DEF ArpInv

\* The first state: nothing heard, nothing sent.
LEMMA ArpInitInv ==
  ASSUME ArpAssumption, ArpInit
  PROVE  ArpInv
<1>1. EntryInv(Empty, heard, 0) /\ ~ Live(Empty) /\ Empty \in ArpEntry
  <2>1. EntryInv(Empty, heard, 0) /\ ~ Live(Empty)
    BY ArpValues, EmptyEntry
  <2> QED
    BY <2>1 DEF EntryInv
<1>2. \A i \in Slots : arp_table[i] = Empty
  BY DEF ArpInit
<1>3. ArpTableInv(arp_table, heard, 0)
  BY <1>1, <1>2 DEF ArpInit, ArpTableInv
<1>4. FramesRight(out, heard)
  BY DEF ArpInit, FramesRight
<1> QED
  BY <1>3, <1>4, ArpValues DEF ArpInit, ArpInv

\* Every step of the cache keeps the invariant.
LEMMA ArpNextInv ==
  ASSUME ArpAssumption, ArpInv, [ArpNext]_arpVars
  PROVE  ArpInv'
<1>1. CASE UNCHANGED arpVars
  BY <1>1 DEF arpVars, ArpInv, ArpTableInv, EntryInv, QueueInv, FramesRight
<1>2. ASSUME NEW a \in Addrs, NEW mac \in MacsOf[a], NEW for_us \in BOOLEAN,
             etharp_arp_input(a, mac, for_us)
      PROVE  ArpInv'
  BY <1>2, UpdateKeeps DEF etharp_arp_input
<1>3. ASSUME NEW a \in Addrs, NEW mac \in MacsOf[a], etharp_ip_input(a, mac)
      PROVE  ArpInv'
  BY <1>3, UpdateKeeps DEF etharp_ip_input
<1>4. ASSUME NEW a \in Addrs, NEW ok \in BOOLEAN, etharp_output(a, ok) PROVE ArpInv'
  BY <1>4, OutputKeeps
<1>5. ASSUME NEW a \in Locals, Probe(a) PROVE ArpInv'
  <2>1. a \in Addrs /\ packets' = packets /\ heard' = heard /\ etharp_query(a, << >>, FALSE)
    BY <1>5 DEF Addrs, Probe
  <2> QED
    BY <2>1, QueryKeeps
<1>6. CASE etharp_tmr
  BY <1>6, TmrArpKeeps
<1>7. CASE netif_set_ipaddr \/ netif_set_down \/ netif_set_up
  <2>1. UNCHANGED <<arp_table, etharp_cached_entry, heard, packets>> /\ out' = << >>
    BY <1>7 DEF netif_set_ipaddr, netif_set_down, netif_set_up
  <2>2. FramesRight(<< >>, heard')
    BY DEF FramesRight
  <2>3. ArpTableInv(arp_table, heard, packets)' = ArpTableInv(arp_table, heard, packets)
    BY <2>1
  <2> QED
    BY <2>1, <2>2, <2>3 DEF ArpInv
<1> QED
  BY <1>1, <1>2, <1>3, <1>4, <1>5, <1>6, <1>7 DEF ArpNext

\* The invariant is what CacheSound and RightMac say, and more.
LEMMA ArpInvSound ==
  ASSUME ArpInv
  PROVE  ArpSound
<1>1. ArpTableInv(arp_table, heard, packets) /\ FramesRight(out, heard)
  BY DEF ArpInv
<1>2. CacheSound
  <2>1. \A i \in Slots : EntryInv(arp_table[i], heard, packets)
    BY <1>1, TableFacts
  <2>2. \A i \in Slots : DOMAIN arp_table[i].q = 1 .. Len(arp_table[i].q)
    BY <2>1 DEF EntryInv, QueueInv
  <2>3. \A i, j \in Slots :
          Live(arp_table[i]) /\ Live(arp_table[j]) /\ arp_table[i].ip = arp_table[j].ip => i = j
    BY <1>1, TableFacts
  <2> QED
    BY <2>1, <2>2, <2>3 DEF CacheSound, EntryInv, QueueInv
<1>3. RightMac
  <2>1. DOMAIN out = 1 .. Len(out)
    BY <1>1 DEF FramesRight
  <2> QED
    BY <1>1, <2>1 DEF RightMac, FramesRight
<1> QED
  BY <1>2, <1>3 DEF ArpSound

\* An address has one live entry, only a pending one keeps packets, they are
\* its own and in order, and every frame goes to the hardware address heard
\* last: for every table size, queue length, age limit and set of hosts.
THEOREM ArpStaysSound ==
  ASSUME ArpAssumption
  PROVE  ArpSpec => []ArpSound
<1>1. ArpInit => ArpInv
  BY ArpInitInv
<1>2. ArpInv /\ [ArpNext]_arpVars => ArpInv'
  BY ArpNextInv
<1>3. ArpInv => ArpSound
  BY ArpInvSound
<1> QED
  BY <1>1, <1>2, <1>3, PTL DEF ArpSpec

-----------------------------------------------------------------------------
(* IGMP: the invariant is about one group of one interface at a time. *)

\* A group as igmp.c keeps it.
GroupRec ==
  [listed : BOOLEAN, timer : Nat, state : {"NON", "IDLE", "DELAYING"},
   last : BOOLEAN, use : Nat]

\* A group e, who reported it last (r), when an answer is due (d) and whether
\* its interface has started (on).  An answer that is due belongs to a group
\* whose timer runs out in time; an idle member did not report last.
GroupInv(e, r, d, on) ==
  /\ e \in GroupRec /\ r \in {"nobody", "us", "other"} /\ d \in Nat \union {-1}
  /\ e.listed => on /\ e.use > 0 /\ e.state # "NON" /\ (e.last <=> r = "us")
  /\ ~ e.listed => e.state = "NON" /\ d = -1
  /\ e.state = "IDLE" => ~ e.last
  /\ d # -1 => e.state = "DELAYING" /\ 1 <= e.timer /\ e.timer <= d

\* The invariant: every group of every interface, the MAC filters and the
\* types.
Keys == Ifs \X All

GroupsInv ==
  \A k \in Keys : GroupInv(group[k], reporter[k], due[k], k[1] \in started)

FilterInv ==
  \A n \in Ifs : \A g \in All : g \in filter[n] <=> group[<<n, g>>].listed

IgmpTypeOK ==
  /\ started \subseteq Ifs
  /\ group \in [Keys -> GroupRec]
  /\ reporter \in [Keys -> {"nobody", "us", "other"}]
  /\ due \in [Keys -> Nat \union {-1}]
  /\ filter \in [Ifs -> SUBSET All]

IgmpInv == IgmpTypeOK /\ GroupsInv /\ FilterInv

\* The pieces of the assumption, and the keys.
LEMMA IgmpValues ==
  ASSUME IgmpAssumption
  PROVE  /\ JoinDelay \in Nat \ {0} /\ V1Delay \in Nat \ {0}
         /\ \A r \in MaxResps : r \in Nat
         /\ \A n \in Ifs, g \in All : <<n, g>> \in Keys /\ <<n, g>>[1] = n /\ <<n, g>>[2] = g
         /\ \A k \in Keys : k[1] \in Ifs /\ k[2] \in All /\ k = <<k[1], k[2]>>
         /\ AllSystems \in All /\ \A g \in Groups : g \in All /\ g # AllSystems
BY DEF IgmpAssumption, Keys, All

\* What the invariant says of one group suffices for what MembershipSound
\* says of it.
LEMMA GroupSound ==
  ASSUME NEW e, NEW r, NEW d, NEW on, GroupInv(e, r, d, on)
  PROVE  /\ d # 0
         /\ e.listed => (e.last <=> r = "us")
         /\ e.listed => e.use > 0
BY DEF GroupInv, GroupRec

\* igmp_start_timer: never 0, and not beyond the response time unless that
\* is 0.
LEMMA TimersBounds ==
  ASSUME NEW max \in Nat, NEW t \in Timers(max)
  PROVE  t \in Nat /\ 1 <= t /\ (t <= max \/ (max = 0 /\ t = 1))
         /\ (max > 1 => t < max)
BY DEF Timers

\* igmp_delaying_member never lets a group answer later than it had to.
LEMMA DelayedKeeps ==
  ASSUME NEW e, NEW r, NEW d, NEW on, GroupInv(e, r, d, on),
         NEW max \in Nat, NEW t \in Timers(max)
  PROVE  GroupInv(Delayed(e, max, t), r, d, on)
<1> DEFINE f == [e EXCEPT !.timer = t, !.state = "DELAYING"]
<1>1. t \in Nat /\ 1 <= t /\ (t <= max \/ (max = 0 /\ t = 1))
  BY TimersBounds
<1>2. CASE Delayed(e, max, t) = e
  BY <1>2
<1>3. CASE /\ Delayed(e, max, t) = f
           /\ \/ e.state = "IDLE"
              \/ e.state = "DELAYING" /\ (e.timer = 0 \/ max < e.timer)
  <2>1. /\ f \in GroupRec /\ f.timer = t /\ f.state = "DELAYING"
        /\ f.listed = e.listed /\ f.last = e.last /\ f.use = e.use
    BY <1>1 DEF GroupInv, GroupRec
  <2>2. d # -1 => t <= d
    BY <1>1, <1>3 DEF GroupInv, GroupRec
  <2>3. e.listed
    BY <1>3 DEF GroupInv, GroupRec
  <2> QED
    BY <1>1, <1>3, <2>1, <2>2, <2>3 DEF GroupInv
<1> QED
  BY <1>2, <1>3 DEF Delayed

\* Asked to answer within max, a member has its timer run out by then.
LEMMA AskedKeeps ==
  ASSUME NEW e, NEW r, NEW d, NEW on, GroupInv(e, r, d, on), e.listed,
         NEW max \in Nat, NEW t \in Timers(max)
  PROVE  GroupInv(Delayed(e, max, t), r, Sooner(d, IF max = 0 THEN 1 ELSE max), on)
<1> DEFINE f == Delayed(e, max, t)
           m == IF max = 0 THEN 1 ELSE max
<1>1. t \in Nat /\ 1 <= t /\ t <= m
  BY TimersBounds
<1>2. GroupInv(f, r, d, on)
  BY DelayedKeeps
<1>3. f.state = "DELAYING" /\ f.listed = e.listed
  BY DEF Delayed, GroupInv, GroupRec
<1>4. f.timer \in Nat /\ 1 <= f.timer /\ f.timer <= m
  BY <1>1 DEF Delayed, GroupInv, GroupRec
<1>5. m \in Nat /\ d \in Nat \union {-1}
  BY DEF GroupInv
<1>6. Sooner(d, m) \in Nat /\ f.timer <= Sooner(d, m)
  BY <1>2, <1>4, <1>5 DEF Sooner, GroupInv
<1> HIDE DEF f, m
<1>7. GroupInv(f, r, Sooner(d, m), on)
  BY <1>2, <1>3, <1>4, <1>6 DEF GroupInv
<1> QED
  BY <1>7 DEF f, m


\* One group at a time: what a step must show.
LEMMA GroupsKept ==
  ASSUME started' \subseteq Ifs,
         group' = [k \in Keys |-> group'[k]],
         reporter' = [k \in Keys |-> reporter'[k]],
         due' = [k \in Keys |-> due'[k]],
         \A k \in Keys : GroupInv(group'[k], reporter'[k], due'[k], k[1] \in started'),
         filter' \in [Ifs -> SUBSET All],
         \A n \in Ifs : \A g \in All : g \in filter'[n] <=> group'[<<n, g>>].listed
  PROVE  IgmpInv'
<1>1. \A k \in Keys : /\ group'[k] \in GroupRec
                      /\ reporter'[k] \in {"nobody", "us", "other"}
                      /\ due'[k] \in Nat \union {-1}
  BY DEF GroupInv
<1>2. IgmpTypeOK'
  BY <1>1 DEF IgmpTypeOK
<1> QED
  BY <1>2 DEF IgmpInv, GroupsInv, FilterInv

\* DelayingMembers of groups that are asked (or not) to answer.
LEMMA MembersDelayed ==
  ASSUME IgmpInv, NEW K, K \subseteq Keys, NEW max \in Nat, DelayingMembers(K, max)
  PROVE  /\ group' = [k \in Keys |-> group'[k]]
         /\ \A k \in Keys : group'[k].listed = group[k].listed
         /\ \A k \in Keys : GroupInv(group'[k], reporter[k], due[k], k[1] \in started)
         /\ (\A k \in K : group[k].listed) /\ Asked(K, max)
              => /\ due' = [k \in Keys |-> due'[k]]
                 /\ \A k \in Keys : GroupInv(group'[k], reporter[k], due'[k], k[1] \in started)
<1>1. PICK t \in [K -> Timers(max)] :
        group' = [k \in Keys |-> IF k \in K THEN Delayed(group[k], max, t[k]) ELSE group[k]]
  BY DEF DelayingMembers, Keys
<1>2. \A k \in Keys : GroupInv(group[k], reporter[k], due[k], k[1] \in started)
  BY DEF IgmpInv, GroupsInv
<1>3. \A k \in Keys : group'[k].listed = group[k].listed
  BY <1>1, <1>2 DEF Delayed, GroupInv, GroupRec
<1>4. ASSUME NEW k \in Keys
      PROVE  GroupInv(group'[k], reporter[k], due[k], k[1] \in started)
  <2>1. CASE k \in K
    BY <1>1, <1>2, <2>1, DelayedKeeps
  <2> QED
    BY <1>1, <1>2, <2>1
<1>5. ASSUME \A k \in K : group[k].listed, Asked(K, max)
      PROVE  /\ due' = [k \in Keys |-> due'[k]]
             /\ \A k \in Keys : GroupInv(group'[k], reporter[k], due'[k], k[1] \in started)
  <2>1. due' = [k \in Keys |-> IF k \in K THEN Sooner(due[k], IF max = 0 THEN 1 ELSE max)
                               ELSE due[k]]
    BY <1>5 DEF Asked, Keys
  <2>2. ASSUME NEW k \in Keys
        PROVE  GroupInv(group'[k], reporter[k], due'[k], k[1] \in started)
    <3>1. CASE k \in K
      <4>1. /\ group'[k] = Delayed(group[k], max, t[k]) /\ group[k].listed
            /\ due'[k] = Sooner(due[k], IF max = 0 THEN 1 ELSE max)
            /\ t[k] \in Timers(max)
        BY <1>1, <1>5, <2>1, <3>1
      <4>2. GroupInv(group[k], reporter[k], due[k], k[1] \in started)
        BY <1>2
      <4>3. GroupInv(Delayed(group[k], max, t[k]), reporter[k],
                     Sooner(due[k], IF max = 0 THEN 1 ELSE max), k[1] \in started)
        BY <4>1, <4>2, AskedKeeps
      <4> QED
        BY <4>1, <4>3
    <3> QED
      BY <1>1, <1>2, <2>1, <3>1
  <2> QED
    BY <2>1, <2>2
<1> QED
  BY <1>1, <1>3, <1>4, <1>5

\* A query or igmp_report_groups: the timers of some groups, nothing else.
LEMMA DelayingKeeps ==
  ASSUME IgmpInv, NEW K, K \subseteq Keys, NEW max \in Nat, DelayingMembers(K, max),
         UNCHANGED <<started, filter, reporter>>,
         UNCHANGED due \/ (Asked(K, max) /\ \A k \in K : group[k].listed)
  PROVE  IgmpInv'
<1>1. /\ group' = [k \in Keys |-> group'[k]] /\ due' = [k \in Keys |-> due'[k]]
      /\ \A k \in Keys : group'[k].listed = group[k].listed
      /\ \A k \in Keys : GroupInv(group'[k], reporter[k], due'[k], k[1] \in started)
  <2>1. CASE UNCHANGED due
    BY <2>1, MembersDelayed DEF IgmpInv, IgmpTypeOK
  <2>2. CASE Asked(K, max) /\ \A k \in K : group[k].listed
    BY <2>2, MembersDelayed
  <2> QED
    BY <2>1, <2>2
<1>2. \A n \in Ifs : \A g \in All : g \in filter'[n] <=> group'[<<n, g>>].listed
  BY <1>1 DEF IgmpInv, FilterInv, Keys
<1>3. reporter' = [k \in Keys |-> reporter'[k]] /\ filter' \in [Ifs -> SUBSET All]
      /\ started' \subseteq Ifs
  BY DEF IgmpInv, IgmpTypeOK
<1>4. \A k \in Keys : GroupInv(group'[k], reporter'[k], due'[k], k[1] \in started')
  BY <1>1
<1> QED
  BY <1>1, <1>2, <1>3, <1>4, GroupsKept

\* igmp_report_groups: every group of an interface answers within its delay.
LEMMA ReportGroupsKeeps ==
  ASSUME IgmpAssumption, IgmpInv, NEW n \in Ifs, igmp_report_groups(n)
  PROVE  IgmpInv'
<1>1. Listed(n) \subseteq Keys /\ JoinDelay \in Nat
  BY IgmpValues DEF Listed, Keys
<1> QED
  BY <1>1, DelayingKeeps DEF igmp_report_groups

\* igmp_input, a query: general, or of one group.
LEMMA QueriesKeep ==
  ASSUME IgmpAssumption, IgmpInv, NEW n \in Ifs, NEW r \in MaxResps,
         GeneralQuery(n, r) \/ \E g \in Groups : GroupQuery(n, g, r)
  PROVE  IgmpInv'
<1>1. CASE GeneralQuery(n, r)
  <2> DEFINE max == IF r = 0 THEN V1Delay ELSE r
             K == {k \in Listed(n) : k[2] # AllSystems}
  <2>1. /\ K \subseteq Keys /\ max \in Nat
        /\ \A k \in K : group[k].listed
    BY IgmpValues DEF Listed, Keys
  <2>2. DelayingMembers(K, max) /\ Asked(K, max) /\ UNCHANGED <<started, filter, reporter>>
    BY <1>1 DEF GeneralQuery
  <2> HIDE DEF max, K
  <2> QED
    BY <2>1, <2>2, DelayingKeeps
<1>2. ASSUME NEW g \in Groups, GroupQuery(n, g, r) PROVE IgmpInv'
  <2>1. {<<n, g>>} \subseteq Keys /\ r \in Nat /\ \A k \in {<<n, g>>} : group[k].listed
    BY <1>2, IgmpValues DEF GroupQuery
  <2> QED
    BY <1>2, <2>1, DelayingKeeps DEF GroupQuery
<1> QED
  BY <1>1, <1>2

\* igmp_start: no group of an interface that has not started is listed.
LEMMA StartKeeps ==
  ASSUME IgmpAssumption, IgmpInv, NEW n \in Ifs, NEW mem \in BOOLEAN, igmp_start(n, mem)
  PROVE  IgmpInv'
<1> USE DEF igmp_start
<1> DEFINE s == <<n, AllSystems>>
           new == [New EXCEPT !.state = "IDLE", !.use = 1]
<1>0. s \in Keys /\ s[1] = n
  BY IgmpValues
<1>1. /\ group \in [Keys -> GroupRec] /\ filter \in [Ifs -> SUBSET All]
      /\ reporter \in [Keys -> {"nobody", "us", "other"}]
      /\ due \in [Keys -> Nat \union {-1}] /\ started \subseteq Ifs
      /\ \A k \in Keys : GroupInv(group[k], reporter[k], due[k], k[1] \in started)
  BY DEF IgmpInv, IgmpTypeOK, GroupsInv
<1>2. \A k \in Keys : k[1] = n => ~ group[k].listed /\ due[k] = -1
  BY <1>1 DEF GroupInv
<1>3. /\ new \in GroupRec /\ new.use = 1 /\ new.state = "IDLE"
      /\ new.listed = TRUE /\ new.last = FALSE
  BY DEF New, Absent, GroupRec
<1>4. /\ group' = [group EXCEPT ![s] = IF mem THEN new ELSE group[s]]
      /\ reporter' = [reporter EXCEPT ![s] = "nobody"]
      /\ due' = due
  OBVIOUS
<1> HIDE DEF s, new
<1>5. ASSUME NEW k \in Keys
      PROVE  GroupInv(group'[k], reporter'[k], due'[k], k[1] \in started')
  <2>1. CASE k = s
    <3>1. CASE mem
      <4>1. group'[k] = new /\ reporter'[k] = "nobody" /\ due'[k] = -1 /\ k[1] \in started'
        BY <1>0, <1>1, <1>2, <1>4, <2>1, <3>1
      <4>2. GroupInv(new, "nobody", -1, TRUE)
        BY <1>3 DEF GroupInv
      <4>3. (k[1] \in started') = TRUE
        BY <4>1
      <4> QED
        BY <4>1, <4>2, <4>3
    <3>2. CASE ~ mem
      <4>1. group'[k] = group[k] /\ reporter'[k] = "nobody" /\ due'[k] = due[k]
        BY <1>0, <1>1, <1>4, <2>1, <3>2
      <4>2. GroupInv(group[k], reporter[k], due[k], k[1] \in started) /\ ~ group[k].listed
        BY <1>0, <1>1, <1>2, <2>1
      <4> QED
        BY <4>1, <4>2 DEF GroupInv
    <3> QED
      BY <3>1, <3>2
  <2>2. CASE k # s
    <3>1. group'[k] = group[k] /\ reporter'[k] = reporter[k] /\ due'[k] = due[k]
      BY <1>0, <1>1, <1>4, <2>2
    <3>2. GroupInv(group[k], reporter[k], due[k], k[1] \in started)
      BY <1>1
    <3>3. k[1] \in started => k[1] \in started'
      OBVIOUS
    <3> QED
      BY <3>1, <3>2, <3>3 DEF GroupInv
  <2> QED
    BY <2>1, <2>2
<1>6. filter' \in [Ifs -> SUBSET All] /\ started' \subseteq Ifs
  BY <1>1, IgmpValues
<1>7. ASSUME NEW m \in Ifs, NEW g \in All
      PROVE  g \in filter'[m] <=> group'[<<m, g>>].listed
  <2>0. <<m, g>> \in Keys /\ <<m, g>>[1] = m /\ (<<m, g>> = s <=> m = n /\ g = AllSystems)
    BY IgmpValues DEF s
  <2>1. CASE m = n
    <3>1. filter'[m] = IF mem THEN {AllSystems} ELSE {}
      BY <1>1, <2>1
    <3>2. ~ group[<<m, g>>].listed
      BY <1>2, <2>0, <2>1
    <3>3. group'[<<m, g>>].listed <=> mem /\ g = AllSystems
      <4>1. CASE mem /\ g = AllSystems
        BY <1>0, <1>1, <1>3, <1>4, <2>0, <2>1, <4>1
      <4>2. CASE ~ mem \/ g # AllSystems
        <5>1. group'[<<m, g>>] = group[<<m, g>>]
          BY <1>0, <1>1, <1>4, <2>0, <2>1, <4>2
        <5> QED
          BY <3>2, <4>2, <5>1
      <4> QED
        BY <4>1, <4>2
    <3> QED
      BY <3>1, <3>3
  <2>2. CASE m # n
    <3>1. filter'[m] = filter[m] /\ group'[<<m, g>>] = group[<<m, g>>]
      BY <1>0, <1>1, <1>4, <2>0, <2>2
    <3> QED
      BY <3>1 DEF IgmpInv, FilterInv
  <2> QED
    BY <2>1, <2>2
<1>8. /\ group' = [k \in Keys |-> group'[k]] /\ due' = [k \in Keys |-> due'[k]]
      /\ reporter' = [k \in Keys |-> reporter'[k]]
  BY <1>1, <1>4
<1> QED
  BY <1>5, <1>6, <1>7, <1>8, GroupsKept

\* igmp_stop.
LEMMA StopKeeps ==
  ASSUME IgmpAssumption, IgmpInv, NEW n \in Ifs, igmp_stop(n)
  PROVE  IgmpInv'
<1> USE DEF igmp_stop
<1>1. /\ group' = [k \in Keys |-> IF k[1] = n THEN Absent ELSE group[k]]
      /\ due' = [k \in Keys |-> IF k[1] = n THEN -1 ELSE due[k]]
      /\ reporter' = reporter
  BY DEF Keys
<1>2. /\ filter \in [Ifs -> SUBSET All] /\ started \subseteq Ifs
      /\ reporter = [k \in Keys |-> reporter[k]]
      /\ \A k \in Keys : GroupInv(group[k], reporter[k], due[k], k[1] \in started)
  BY DEF IgmpInv, IgmpTypeOK, GroupsInv
<1>3. Absent \in GroupRec /\ ~ Absent.listed /\ Absent.state = "NON"
  BY DEF Absent, GroupRec
<1>4. ASSUME NEW k \in Keys
      PROVE  GroupInv(group'[k], reporter'[k], due'[k], k[1] \in started')
  <2>1. CASE k[1] = n
    <3>1. group'[k] = Absent /\ due'[k] = -1 /\ reporter'[k] = reporter[k]
      BY <1>1, <2>1
    <3> QED
      BY <1>2, <1>3, <3>1 DEF GroupInv
  <2>2. CASE k[1] # n
    <3>1. group'[k] = group[k] /\ due'[k] = due[k] /\ reporter'[k] = reporter[k]
          /\ (k[1] \in started <=> k[1] \in started')
      BY <1>1, <2>2
    <3> QED
      BY <1>2, <3>1 DEF GroupInv
  <2> QED
    BY <2>1, <2>2
<1>5. filter' \in [Ifs -> SUBSET All] /\ started' \subseteq Ifs
  BY <1>2
<1>6. ASSUME NEW m \in Ifs, NEW g \in All
      PROVE  g \in filter'[m] <=> group'[<<m, g>>].listed
  <2>0. <<m, g>> \in Keys /\ <<m, g>>[1] = m
    BY IgmpValues
  <2>1. CASE m = n
    BY <1>1, <1>2, <1>3, <2>0, <2>1
  <2>2. CASE m # n
    BY <1>1, <1>2, <2>0, <2>2 DEF IgmpInv, FilterInv
  <2> QED
    BY <2>1, <2>2
<1>7. /\ group' = [k \in Keys |-> group'[k]] /\ due' = [k \in Keys |-> due'[k]]
      /\ reporter' = [k \in Keys |-> reporter'[k]]
  BY <1>1, <1>2
<1> QED
  BY <1>4, <1>5, <1>6, <1>7, GroupsKept


\* igmp_input, a report of another host.
LEMMA HeardKeeps ==
  ASSUME NEW e, NEW r, NEW d, NEW on, GroupInv(e, r, d, on), e.listed
  PROVE  GroupInv(HeardReport(e), "other", -1, on) /\ HeardReport(e).listed
<1> DEFINE f == [e EXCEPT !.timer = 0, !.state = "IDLE", !.last = FALSE]
<1>1. e \in GroupRec /\ on /\ e.use > 0 /\ e.state # "NON"
  BY DEF GroupInv
<1>2. CASE e.state = "DELAYING"
  <2>1. /\ f \in GroupRec /\ f.listed = e.listed /\ f.use = e.use
        /\ f.state = "IDLE" /\ f.last = FALSE
    BY <1>1 DEF GroupRec
  <2>2. HeardReport(e) = f
    BY <1>2 DEF HeardReport
  <2> HIDE DEF f
  <2> QED
    BY <1>1, <2>1, <2>2 DEF GroupInv
<1>3. CASE e.state # "DELAYING"
  <2>1. HeardReport(e) = e /\ e.state = "IDLE" /\ ~ e.last
    BY <1>1, <1>3 DEF HeardReport, GroupInv, GroupRec
  <2> QED
    BY <1>1, <2>1 DEF GroupInv
<1> QED
  BY <1>2, <1>3

\* The same for the whole table.
LEMMA ReportKeeps ==
  ASSUME IgmpAssumption, IgmpInv, NEW n \in Ifs, NEW g \in Groups, igmp_report(n, g)
  PROVE  IgmpInv'
<1> USE DEF igmp_report
<1> DEFINE s == <<n, g>>
<1>0. s \in Keys
  BY IgmpValues
<1>1. /\ group \in [Keys -> GroupRec] /\ filter \in [Ifs -> SUBSET All]
      /\ reporter \in [Keys -> {"nobody", "us", "other"}]
      /\ due \in [Keys -> Nat \union {-1}] /\ started \subseteq Ifs
      /\ \A k \in Keys : GroupInv(group[k], reporter[k], due[k], k[1] \in started)
  BY DEF IgmpInv, IgmpTypeOK, GroupsInv
<1>2. /\ group' = [group EXCEPT ![s] = HeardReport(group[s])]
      /\ reporter' = [reporter EXCEPT ![s] = "other"]
      /\ due' = [due EXCEPT ![s] = -1]
      /\ filter' = filter /\ started' = started /\ group[s].listed
  OBVIOUS
<1> HIDE DEF s
<1>3. /\ GroupInv(HeardReport(group[s]), "other", -1, s[1] \in started)
      /\ HeardReport(group[s]).listed
  BY <1>0, <1>1, <1>2, HeardKeeps
<1>4. ASSUME NEW k \in Keys
      PROVE  /\ GroupInv(group'[k], reporter'[k], due'[k], k[1] \in started')
             /\ group'[k].listed <=> group[k].listed
  <2>1. CASE k = s
    BY <1>0, <1>1, <1>2, <1>3, <2>1
  <2>2. CASE k # s
    BY <1>0, <1>1, <1>2, <2>2
  <2> QED
    BY <2>1, <2>2
<1>5. \A m \in Ifs : \A h \in All : h \in filter'[m] <=> group'[<<m, h>>].listed
  BY <1>2, <1>4, IgmpValues DEF IgmpInv, FilterInv
<1>6. /\ group' = [k \in Keys |-> group'[k]] /\ due' = [k \in Keys |-> due'[k]]
      /\ reporter' = [k \in Keys |-> reporter'[k]]
      /\ filter' \in [Ifs -> SUBSET All] /\ started' \subseteq Ifs
  BY <1>1, <1>2
<1> QED
  BY <1>4, <1>5, <1>6, GroupsKept

\* igmp_joingroup: the groups it makes are new, the others gain a user.
LEMMA JoinKeeps ==
  ASSUME IgmpAssumption, IgmpInv, NEW g \in Groups, NEW got, NEW mem \in BOOLEAN,
         igmp_joingroup(g, got, mem)
  PROVE  IgmpInv'
<1> DEFINE J == JoinedOn(got \union {n \in started : group[<<n, g>>].listed})
           K == {<<n, g>> : n \in J}
           fresh == {k \in K : group[k].state = "NON"}
           new(t) == Reported([New EXCEPT !.timer = t, !.state = "DELAYING", !.use = 1], mem)
<1>1. /\ group \in [Keys -> GroupRec] /\ filter \in [Ifs -> SUBSET All]
      /\ reporter \in [Keys -> {"nobody", "us", "other"}]
      /\ due \in [Keys -> Nat \union {-1}] /\ started \subseteq Ifs
      /\ \A k \in Keys : GroupInv(group[k], reporter[k], due[k], k[1] \in started)
  BY DEF IgmpInv, IgmpTypeOK, GroupsInv
<1>2. PICK t \in [fresh -> Timers(JoinDelay)] :
        group' = [k \in Keys |-> IF k \in fresh THEN new(t[k])
                                 ELSE IF k \in K THEN [group[k] EXCEPT !.use = @ + 1]
                                 ELSE group[k]]
  BY DEF igmp_joingroup, Keys
<1>3. /\ filter' = [n \in Ifs |-> IF <<n, g>> \in fresh THEN filter[n] \union {g} ELSE filter[n]]
      /\ reporter' = [k \in Keys |-> IF k \in fresh THEN IF mem THEN "us" ELSE "nobody"
                                     ELSE reporter[k]]
      /\ UNCHANGED <<started, due>>
  BY DEF igmp_joingroup, Keys
<1>4. \A k \in K : k \in Keys /\ k[1] \in started /\ k[2] = g
  <2>1. J \subseteq started
    BY DEF JoinedOn
  <2> HIDE DEF J
  <2> QED
    BY <1>1, <2>1, IgmpValues
<1>5. ASSUME NEW u \in Timers(JoinDelay)
      PROVE  /\ new(u).listed = TRUE
             /\ GroupInv(new(u), IF mem THEN "us" ELSE "nobody", -1, TRUE)
  <2>1. u \in Nat
    BY IgmpValues, TimersBounds
  <2>2. /\ new(u) \in GroupRec /\ new(u).listed = TRUE /\ new(u).use = 1
        /\ new(u).state = "DELAYING" /\ new(u).last = mem
    BY <2>1 DEF Reported, New, Absent, GroupRec
  <2> HIDE DEF new
  <2> QED
    BY <2>2 DEF GroupInv
<1> HIDE DEF K, new
<1>6. ASSUME NEW k \in Keys
      PROVE  /\ GroupInv(group'[k], reporter'[k], due'[k], k[1] \in started')
             /\ group'[k].listed <=> (group[k].listed \/ k \in fresh)
  <2>0. /\ GroupInv(group[k], reporter[k], due[k], k[1] \in started)
        /\ due'[k] = due[k] /\ (k[1] \in started') = (k[1] \in started)
    BY <1>1, <1>3
  <2>1. CASE k \in fresh
    <3>1. /\ group'[k] = new(t[k]) /\ t[k] \in Timers(JoinDelay)
          /\ reporter'[k] = IF mem THEN "us" ELSE "nobody"
      BY <1>2, <1>3, <2>1
    <3>2. due[k] = -1 /\ (k[1] \in started) = TRUE
      BY <1>4, <2>0, <2>1 DEF GroupInv
    <3>3. new(t[k]).listed = TRUE
          /\ GroupInv(new(t[k]), IF mem THEN "us" ELSE "nobody", -1, TRUE)
      BY <1>5, <3>1
    <3> QED
      BY <2>0, <2>1, <3>1, <3>2, <3>3
  <2>2. CASE k \notin fresh /\ k \in K
    <3> DEFINE f == [group[k] EXCEPT !.use = @ + 1]
    <3>1. group'[k] = f /\ reporter'[k] = reporter[k]
      BY <1>2, <1>3, <2>2
    <3>2. /\ group[k] \in GroupRec /\ group[k].state # "NON"
      BY <1>1, <2>2
    <3>3. /\ f \in GroupRec /\ f.use = group[k].use + 1 /\ f.use > 0
          /\ f.listed = group[k].listed /\ f.state = group[k].state
          /\ f.last = group[k].last /\ f.timer = group[k].timer
      BY <3>2 DEF GroupRec
    <3> HIDE DEF f
    <3>4. GroupInv(f, reporter[k], due[k], k[1] \in started)
      BY <2>0, <3>3 DEF GroupInv
    <3> QED
      BY <2>0, <2>2, <3>1, <3>3, <3>4
  <2>3. CASE k \notin fresh /\ k \notin K
    BY <1>2, <1>3, <2>0, <2>3
  <2> QED
    BY <2>1, <2>2, <2>3
<1>7. ASSUME NEW m \in Ifs, NEW h \in All
      PROVE  h \in filter'[m] <=> group'[<<m, h>>].listed
  <2>1. <<m, h>> \in Keys /\ <<m, h>>[2] = h
    BY IgmpValues
  <2>2. h \in filter[m] <=> group[<<m, h>>].listed
    BY DEF IgmpInv, FilterInv
  <2>3. h \in filter'[m] <=> h \in filter[m] \/ (h = g /\ <<m, g>> \in fresh)
    BY <1>1, <1>3
  <2>4. <<m, h>> \in fresh => h = g
    BY <1>4, <2>1
  <2> QED
    BY <1>6, <2>1, <2>2, <2>3, <2>4
<1>8. /\ group' = [k \in Keys |-> group'[k]] /\ due' = [k \in Keys |-> due'[k]]
      /\ reporter' = [k \in Keys |-> reporter'[k]] /\ started' \subseteq Ifs
  BY <1>1, <1>2, <1>3
<1>9. filter' \in [Ifs -> SUBSET All]
  <2>1. g \in All
    BY IgmpValues
  <2> QED
    BY <1>1, <1>3, <2>1
<1> QED
  BY <1>6, <1>7, <1>8, <1>9, GroupsKept

\* igmp_leavegroup: the last user removes the group.
LEMMA LeaveKeeps ==
  ASSUME IgmpAssumption, IgmpInv, NEW g \in Groups, NEW mem \in BOOLEAN,
         igmp_leavegroup(g, mem)
  PROVE  IgmpInv'
<1> DEFINE K == {<<n, g>> : n \in started} \intersect {k \in Keys : group[k].listed}
           gone == {k \in K : group[k].use <= 1}
<1>1. /\ group \in [Keys -> GroupRec] /\ filter \in [Ifs -> SUBSET All]
      /\ reporter \in [Keys -> {"nobody", "us", "other"}]
      /\ due \in [Keys -> Nat \union {-1}] /\ started \subseteq Ifs
      /\ \A k \in Keys : GroupInv(group[k], reporter[k], due[k], k[1] \in started)
  BY DEF IgmpInv, IgmpTypeOK, GroupsInv
<1>2. /\ group' = [k \in Keys |-> IF k \in gone THEN Absent
                                  ELSE IF k \in K THEN [group[k] EXCEPT !.use = @ - 1]
                                  ELSE group[k]]
      /\ filter' = [n \in Ifs |-> IF <<n, g>> \in gone THEN filter[n] \ {g} ELSE filter[n]]
      /\ due' = [k \in Keys |-> IF k \in gone THEN -1 ELSE due[k]]
      /\ UNCHANGED <<started, reporter>>
  BY DEF igmp_leavegroup, Keys
<1>3. \A k \in K : k \in Keys /\ k[2] = g /\ group[k].listed
  BY <1>1, IgmpValues
<1>4. Absent \in GroupRec /\ Absent.listed = FALSE /\ Absent.state = "NON"
  BY DEF Absent, GroupRec
<1> HIDE DEF K
<1>5. ASSUME NEW k \in Keys
      PROVE  /\ GroupInv(group'[k], reporter'[k], due'[k], k[1] \in started')
             /\ group'[k].listed <=> (group[k].listed /\ k \notin gone)
  <2>0. /\ GroupInv(group[k], reporter[k], due[k], k[1] \in started)
        /\ reporter'[k] = reporter[k] /\ (k[1] \in started') = (k[1] \in started)
    BY <1>1, <1>2
  <2>1. CASE k \in gone
    <3>1. group'[k] = Absent /\ due'[k] = -1
      BY <1>2, <2>1
    <3>2. GroupInv(Absent, reporter[k], -1, k[1] \in started)
      BY <1>1, <1>4 DEF GroupInv
    <3> QED
      BY <1>4, <2>0, <2>1, <3>1, <3>2
  <2>2. CASE k \notin gone /\ k \in K
    <3> DEFINE f == [group[k] EXCEPT !.use = @ - 1]
    <3>1. group'[k] = f /\ due'[k] = due[k]
      BY <1>2, <2>2
    <3>2. group[k] \in GroupRec /\ group[k].use \in Nat /\ group[k].use > 1
      BY <1>1, <2>2 DEF GroupRec
    <3>3. /\ f \in GroupRec /\ f.use > 0
          /\ f.listed = group[k].listed /\ f.state = group[k].state
          /\ f.last = group[k].last /\ f.timer = group[k].timer
      BY <3>2 DEF GroupRec
    <3> HIDE DEF f
    <3>4. GroupInv(f, reporter[k], due[k], k[1] \in started)
      BY <2>0, <3>3 DEF GroupInv
    <3> QED
      BY <2>0, <2>2, <3>1, <3>3, <3>4
  <2>3. CASE k \notin K
    BY <1>2, <2>0, <2>3
  <2> QED
    BY <2>1, <2>2, <2>3
<1>6. ASSUME NEW m \in Ifs, NEW h \in All
      PROVE  h \in filter'[m] <=> group'[<<m, h>>].listed
  <2>1. <<m, h>> \in Keys /\ <<m, h>>[2] = h
    BY IgmpValues
  <2>2. h \in filter[m] <=> group[<<m, h>>].listed
    BY DEF IgmpInv, FilterInv
  <2>3. h \in filter'[m] <=> h \in filter[m] /\ ~ (h = g /\ <<m, g>> \in gone)
    BY <1>1, <1>2
  <2>4. <<m, h>> \in gone => h = g
    BY <1>3, <2>1
  <2> QED
    BY <1>5, <2>1, <2>2, <2>3, <2>4
<1>7. /\ group' = [k \in Keys |-> group'[k]] /\ due' = [k \in Keys |-> due'[k]]
      /\ reporter' = [k \in Keys |-> reporter'[k]] /\ started' \subseteq Ifs
      /\ filter' \in [Ifs -> SUBSET All]
  BY <1>1, <1>2
<1> QED
  BY <1>5, <1>6, <1>7, GroupsKept

\* igmp_tmr and igmp_timeout, for one group: a timer that is not yet at its
\* end leaves as much time as the answer has.
LEMMA TickKeeps ==
  ASSUME NEW e, NEW r, NEW d, NEW on, GroupInv(e, r, d, on), NEW mem \in BOOLEAN
  PROVE  LET f == [e EXCEPT !.timer = IF @ > 0 THEN @ - 1 ELSE 0]
             sends == e.timer = 1 /\ e.state = "DELAYING"
         IN  /\ sends => GroupInv(Reported(f, mem), IF mem THEN "us" ELSE r, -1, on)
             /\ ~ sends => GroupInv(f, r, IF d = -1 THEN -1 ELSE d - 1, on)
             /\ f.listed = e.listed /\ Reported(f, mem).listed = e.listed
<1> DEFINE f == [e EXCEPT !.timer = IF @ > 0 THEN @ - 1 ELSE 0]
           sends == e.timer = 1 /\ e.state = "DELAYING"
           h == Reported(f, mem)
<1>1. e \in GroupRec /\ e.timer \in Nat
  BY DEF GroupInv, GroupRec
<1>2. /\ f \in GroupRec /\ f.timer = IF e.timer > 0 THEN e.timer - 1 ELSE 0
      /\ f.listed = e.listed /\ f.state = e.state /\ f.last = e.last /\ f.use = e.use
  BY <1>1 DEF GroupRec
<1>3. /\ h \in GroupRec /\ h.timer = f.timer /\ h.listed = e.listed /\ h.state = e.state
      /\ h.last = (e.last \/ mem) /\ h.use = e.use
  BY <1>2 DEF Reported, GroupRec
<1> HIDE DEF f, h
<1>4. ASSUME sends PROVE GroupInv(h, IF mem THEN "us" ELSE r, -1, on)
  <2>1. e.listed
    BY <1>1, <1>4 DEF GroupInv
  <2>2. CASE mem
    BY <1>3, <1>4, <2>1, <2>2 DEF GroupInv
  <2>3. CASE ~ mem
    <3>1. h.last = e.last
      BY <1>1, <1>3, <2>3 DEF GroupRec
    <3> QED
      BY <1>3, <1>4, <2>1, <2>3, <3>1 DEF GroupInv
  <2> QED
    BY <2>2, <2>3
<1>5. ASSUME ~ sends PROVE GroupInv(f, r, IF d = -1 THEN -1 ELSE d - 1, on)
  BY <1>1, <1>2, <1>5 DEF GroupInv
<1> QED
  BY <1>2, <1>3, <1>4, <1>5 DEF f, h

\* The same for the whole table.
LEMMA TmrKeeps ==
  ASSUME IgmpAssumption, IgmpInv, NEW mem \in BOOLEAN, igmp_tmr(mem)
  PROVE  IgmpInv'
<1> DEFINE f(k) == [group[k] EXCEPT !.timer = IF @ > 0 THEN @ - 1 ELSE 0]
           sends(k) == group[k].timer = 1 /\ group[k].state = "DELAYING"
<1>1. /\ filter \in [Ifs -> SUBSET All] /\ started \subseteq Ifs
      /\ \A k \in Keys : GroupInv(group[k], reporter[k], due[k], k[1] \in started)
  BY DEF IgmpInv, IgmpTypeOK, GroupsInv
<1>2. /\ group' = [k \in Keys |-> IF sends(k) THEN Reported(f(k), mem) ELSE f(k)]
      /\ reporter' = [k \in Keys |-> IF sends(k) /\ mem THEN "us" ELSE reporter[k]]
      /\ due' = [k \in Keys |-> IF sends(k) \/ due[k] = -1 THEN -1 ELSE due[k] - 1]
      /\ UNCHANGED <<started, filter>>
  BY DEF igmp_tmr, Keys
<1>3. ASSUME NEW k \in Keys
      PROVE  /\ GroupInv(group'[k], reporter'[k], due'[k], k[1] \in started')
             /\ group'[k].listed = group[k].listed
  <2>1. /\ sends(k) => GroupInv(Reported(f(k), mem), IF mem THEN "us" ELSE reporter[k], -1,
                                k[1] \in started)
        /\ ~ sends(k) => GroupInv(f(k), reporter[k], IF due[k] = -1 THEN -1 ELSE due[k] - 1,
                                  k[1] \in started)
        /\ f(k).listed = group[k].listed /\ Reported(f(k), mem).listed = group[k].listed
    BY <1>1, TickKeeps
  <2> HIDE DEF f, sends
  <2>2. /\ group'[k] = IF sends(k) THEN Reported(f(k), mem) ELSE f(k)
        /\ reporter'[k] = IF sends(k) /\ mem THEN "us" ELSE reporter[k]
        /\ due'[k] = IF sends(k) \/ due[k] = -1 THEN -1 ELSE due[k] - 1
        /\ (k[1] \in started') = (k[1] \in started)
    BY <1>2
  <2>3. CASE sends(k)
    <3>1. /\ group'[k] = Reported(f(k), mem) /\ due'[k] = -1
          /\ reporter'[k] = IF mem THEN "us" ELSE reporter[k]
      BY <2>2, <2>3
    <3> QED
      BY <2>1, <2>2, <2>3, <3>1
  <2>4. CASE ~ sends(k)
    <3>1. /\ group'[k] = f(k) /\ reporter'[k] = reporter[k]
          /\ due'[k] = IF due[k] = -1 THEN -1 ELSE due[k] - 1
      BY <2>2, <2>4
    <3> QED
      BY <2>1, <2>2, <2>4, <3>1
  <2> QED
    BY <2>3, <2>4
<1>4. \A m \in Ifs : \A h \in All : h \in filter'[m] <=> group'[<<m, h>>].listed
  <2>1. filter' = filter
    BY <1>2
  <2> QED
    BY <1>3, <2>1, IgmpValues DEF IgmpInv, FilterInv
<1>5. /\ group' = [k \in Keys |-> group'[k]] /\ due' = [k \in Keys |-> due'[k]]
      /\ reporter' = [k \in Keys |-> reporter'[k]] /\ started' \subseteq Ifs
      /\ filter' \in [Ifs -> SUBSET All]
  BY <1>1, <1>2
<1> QED
  BY <1>3, <1>4, <1>5, GroupsKept

\* igmp.c, with any interfaces, groups, delays and response times: a query is
\* answered in time, and the list, the MAC filters and the flag of the last
\* reporter agree.
THEOREM MembershipStaysSound ==
  ASSUME IgmpAssumption
  PROVE  IgmpSpec => []MembershipSound
<1>1. IgmpInit => IgmpInv
  <2> SUFFICES ASSUME IgmpInit PROVE IgmpInv
    OBVIOUS
  <2>1. Absent \in GroupRec /\ Absent.listed = FALSE /\ Absent.state = "NON"
    BY DEF Absent, GroupRec
  <2>2. /\ group = [k \in Keys |-> Absent] /\ reporter = [k \in Keys |-> "nobody"]
        /\ due = [k \in Keys |-> -1] /\ started = {} /\ filter = [n \in Ifs |-> {}]
    BY DEF IgmpInit, Keys
  <2>3. IgmpTypeOK
    BY <2>1, <2>2 DEF IgmpTypeOK
  <2>4. GroupsInv
    BY <2>1, <2>2 DEF GroupsInv, GroupInv
  <2>5. FilterInv
    BY <2>1, <2>2 DEF FilterInv, Keys
  <2> QED
    BY <2>3, <2>4, <2>5 DEF IgmpInv
<1>2. IgmpInv /\ [IgmpNext]_igmpVars => IgmpInv'
  <2> SUFFICES ASSUME IgmpInv, [IgmpNext]_igmpVars PROVE IgmpInv'
    OBVIOUS
  <2>1. ASSUME NEW n \in Ifs, NEW mem \in BOOLEAN, igmp_start(n, mem) PROVE IgmpInv'
    BY <2>1, StartKeeps
  <2>2. ASSUME NEW n \in Ifs, igmp_stop(n) PROVE IgmpInv'
    BY <2>2, StopKeeps
  <2>3. ASSUME NEW n \in Ifs, igmp_report_groups(n) PROVE IgmpInv'
    BY <2>3, ReportGroupsKeeps
  <2>4. ASSUME NEW n \in Ifs, NEW r \in MaxResps,
               GeneralQuery(n, r) \/ \E g \in Groups : GroupQuery(n, g, r)
        PROVE  IgmpInv'
    BY <2>4, QueriesKeep
  <2>5. ASSUME NEW n \in Ifs, NEW g \in Groups, igmp_report(n, g) PROVE IgmpInv'
    BY <2>5, ReportKeeps
  <2>6. ASSUME NEW g \in Groups, NEW mem \in BOOLEAN,
               \/ \E got \in SUBSET Ifs : igmp_joingroup(g, got, mem)
               \/ igmp_leavegroup(g, mem)
        PROVE  IgmpInv'
    BY <2>6, JoinKeeps, LeaveKeeps
  <2>7. ASSUME NEW mem \in BOOLEAN, igmp_tmr(mem) PROVE IgmpInv'
    BY <2>7, TmrKeeps
  <2>8. CASE UNCHANGED igmpVars
    BY <2>8 DEF igmpVars, IgmpInv, IgmpTypeOK, GroupsInv, FilterInv
  <2> QED
    BY <2>1, <2>2, <2>3, <2>4, <2>5, <2>6, <2>7, <2>8 DEF IgmpNext
<1>3. IgmpInv => MembershipSound
  <2> SUFFICES ASSUME IgmpInv PROVE MembershipSound
    OBVIOUS
  <2>1. \A k \in Keys : /\ due[k] # 0
                        /\ group[k].listed => (group[k].last <=> reporter[k] = "us")
                        /\ group[k].listed => group[k].use > 0
    BY GroupSound DEF IgmpInv, GroupsInv
  <2>2. \A n \in Ifs : filter[n] = {g \in All : group[<<n, g>>].listed}
    BY DEF IgmpInv, FilterInv, IgmpTypeOK
  <2> QED
    BY <2>1, <2>2 DEF MembershipSound, Keys
<1> QED
  BY <1>1, <1>2, <1>3, PTL DEF IgmpSpec

-----------------------------------------------------------------------------
(* UDP: the list holds the bound blocks once each, and no two blocks have    *)
(* overlapping local addresses.                                              *)

\* The fields of a block.
BlockRec ==
  [lip : UdpIfs \union {AnyAddr}, lport : Nat,
   rip : Hosts \union {AnyAddr}, rport : Nat, connected : BOOLEAN]

\* A block has a remote address exactly when it is connected.
RemoteInv(e) ==
  /\ e.connected = TRUE => e.rip \in Hosts
  /\ e.connected = FALSE => e.rport = 0

\* Two blocks that no datagram can be for at once.
Apart(e, f) ==
  e.lport = f.lport /\ e.lport # 0 => e.lip # f.lip /\ e.lip # AnyAddr /\ f.lip # AnyAddr

\* The blocks b when the blocks in L are allocated: each is sound, the free
\* ones have no address, and no two are for one datagram.
BlocksInv(b, L) ==
  /\ b \in [Pcbs -> BlockRec]
  /\ \A u \in Pcbs : RemoteInv(b[u]) /\ (u \notin L => b[u] = Unbound)
  /\ \A u, v \in Pcbs : u # v => Apart(b[u], b[v])

\* The allocated blocks that have a port: the ones udp_pcbs holds.
BoundIn(b, L) == {u \in L : b[u].lport # 0}

\* A list over D with each element of S once and no other.
OnceEach(D, l, S) ==
  /\ l \in Seq(D)
  /\ \A j, k \in 1 .. Len(l) : l[j] = l[k] => j = k
  /\ \A u : u \in S <=> \E k \in 1 .. Len(l) : l[k] = u

\* The datagram the last step sent, if it sent one.
SentInv ==
  \A k \in DOMAIN udp_sent :
    LET d == udp_sent[k] IN
    /\ d.by \in live /\ d.via \in netifs_up
    /\ d.from = pcb[d.by].lport /\ d.from # 0
    /\ pcb[d.by].lip \in {AnyAddr, d.via}

\* The invariant.
UdpInv ==
  /\ netifs_up \subseteq UdpIfs /\ netif_default \in UdpIfs
  /\ live \subseteq Pcbs
  /\ BlocksInv(pcb, live)
  /\ OnceEach(Pcbs, udp_pcbs, BoundIn(pcb, live))
  /\ SentInv

\* The pieces of the assumption.
LEMMA UdpValues ==
  ASSUME UdpAssumption
  PROVE  /\ RangeStart \in Nat \ {0} /\ RangeEnd \in Nat
         /\ IsFiniteSet(Pcbs) /\ RangeEnd - RangeStart > Cardinality(Pcbs)
         /\ \A p \in BindPorts : p \in Nat /\ p # 0
         /\ netif_list \in Seq(UdpIfs) /\ StaIf \in UdpIfs
         /\ AnyAddr \notin UdpIfs /\ AnyAddr \notin Hosts
         /\ Broadcast \notin UdpIfs /\ Broadcast \notin Hosts
BY DEF UdpAssumption

\* An element in front of a list that it is not on.
LEMMA PutInFront ==
  ASSUME NEW D, NEW l, NEW S, OnceEach(D, l, S), NEW u \in D, u \notin S
  PROVE  OnceEach(D, <<u>> \o l, S \union {u})
<1> DEFINE m == <<u>> \o l
<1>1. l \in Seq(D) /\ Len(l) \in Nat
  BY DEF OnceEach
<1>2. <<u>> \in Seq(D) /\ Len(<<u>>) = 1 /\ <<u>>[1] = u
  OBVIOUS
<1>3. /\ m \in Seq(D) /\ Len(m) = Len(l) + 1
      /\ \A i \in 1 .. Len(l) + 1 : m[i] = IF i <= 1 THEN <<u>>[i] ELSE l[i - 1]
  BY <1>1, <1>2, ConcatProperties
<1>4. m[1] = u /\ \A i \in 2 .. Len(m) : m[i] = l[i - 1] /\ i - 1 \in 1 .. Len(l)
  BY <1>1, <1>2, <1>3
<1> HIDE DEF m
<1>5. \A i \in 1 .. Len(l) : l[i] # u /\ i + 1 \in 2 .. Len(m) /\ m[i + 1] = l[i]
  <2> SUFFICES ASSUME NEW i \in 1 .. Len(l)
               PROVE  l[i] # u /\ i + 1 \in 2 .. Len(m) /\ m[i + 1] = l[i]
    OBVIOUS
  <2>1. l[i] \in S
    BY DEF OnceEach
  <2>2. i + 1 \in 2 .. Len(m) /\ (i + 1) - 1 = i
    BY <1>1, <1>3
  <2> QED
    BY <1>4, <2>1, <2>2
<1>6. \A j, k \in 1 .. Len(m) : m[j] = m[k] => j = k
  <2> SUFFICES ASSUME NEW j \in 1 .. Len(m), NEW k \in 1 .. Len(m), m[j] = m[k]
               PROVE  j = k
    OBVIOUS
  <2>0. ASSUME NEW i \in 2 .. Len(m)
        PROVE  m[i] # u
    <3>1. m[i] = l[i - 1] /\ i - 1 \in 1 .. Len(l)
      BY <1>4
    <3>2. l[i - 1] # u
      BY <1>5, <3>1
    <3> QED
      BY <3>1, <3>2
  <2>1. CASE j = 1 \/ k = 1
    <3>1. (j = 1 \/ j \in 2 .. Len(m)) /\ (k = 1 \/ k \in 2 .. Len(m))
      BY <1>1, <1>3
    <3> QED
      BY <1>4, <2>0, <2>1, <3>1
  <2>2. CASE j # 1 /\ k # 1
    <3>1. j \in 2 .. Len(m) /\ k \in 2 .. Len(m)
      BY <1>1, <1>3, <2>2
    <3>2. l[j - 1] = l[k - 1] /\ j - 1 \in 1 .. Len(l) /\ k - 1 \in 1 .. Len(l)
      BY <1>4, <3>1
    <3>3. j - 1 = k - 1
      BY <3>2 DEF OnceEach
    <3> QED
      BY <3>1, <3>3
  <2> QED
    BY <2>1, <2>2
<1>7. \A v : v \in S \union {u} <=> \E k \in 1 .. Len(m) : m[k] = v
  <2>1. ASSUME NEW v \in S PROVE \E k \in 1 .. Len(m) : m[k] = v
    <3>1. PICK i \in 1 .. Len(l) : l[i] = v
      BY DEF OnceEach
    <3>2. i + 1 \in 1 .. Len(m) /\ m[i + 1] = v
      BY <1>1, <1>3, <1>5, <3>1
    <3> QED
      BY <3>2
  <2>2. \E k \in 1 .. Len(m) : m[k] = u
    BY <1>1, <1>3, <1>4
  <2>3. ASSUME NEW k \in 1 .. Len(m), k # 1 PROVE m[k] \in S
    <3>1. k \in 2 .. Len(m)
      BY <1>1, <1>3, <2>3
    <3>2. k - 1 \in 1 .. Len(l) /\ m[k] = l[k - 1]
      BY <1>4, <3>1
    <3> QED
      BY <3>2 DEF OnceEach
  <2> QED
    BY <1>4, <2>1, <2>2, <2>3
<1>8. OnceEach(D, m, S \union {u})
  BY <1>3, <1>6, <1>7 DEF OnceEach
<1> QED
  BY <1>8 DEF m

\* An element taken from its place.
LEMMA TakenOut ==
  ASSUME NEW D, NEW l, NEW S, OnceEach(D, l, S), NEW k \in 1 .. Len(l)
  PROVE  OnceEach(D, RemoveAt(l, k), S \ {l[k]})
<1> DEFINE m == RemoveAt(l, k)
<1>1. l \in Seq(D) /\ Len(l) \in Nat
  BY DEF OnceEach
<1>2. /\ m \in Seq(D) /\ Len(m) = Len(l) - 1
      /\ \A i \in 1 .. Len(l) - 1 : m[i] = IF i < k THEN l[i] ELSE l[i + 1]
  BY <1>1, Removed
<1> HIDE DEF m
<1> DEFINE at(i) == IF i < k THEN i ELSE i + 1
<1>3. \A i \in 1 .. Len(m) : at(i) \in 1 .. Len(l) /\ at(i) # k /\ m[i] = l[at(i)]
  <2> SUFFICES ASSUME NEW i \in 1 .. Len(m)
               PROVE  at(i) \in 1 .. Len(l) /\ at(i) # k /\ m[i] = l[at(i)]
    OBVIOUS
  <2>1. CASE i < k
    BY <1>1, <1>2, <2>1
  <2>2. CASE ~ (i < k)
    BY <1>1, <1>2, <2>2
  <2> QED
    BY <2>1, <2>2
<1>4. \A i, j \in 1 .. Len(m) : at(i) = at(j) => i = j
  BY <1>1, <1>2
<1>5. \A j \in 1 .. Len(l) : j # k => \E i \in 1 .. Len(m) : at(i) = j
  <2> SUFFICES ASSUME NEW j \in 1 .. Len(l), j # k PROVE \E i \in 1 .. Len(m) : at(i) = j
    OBVIOUS
  <2>1. CASE j < k
    <3>1. j \in 1 .. Len(m) /\ at(j) = j
      BY <1>1, <1>2, <2>1
    <3> QED
      BY <3>1
  <2>2. CASE j > k
    <3>1. j - 1 \in 1 .. Len(m) /\ at(j - 1) = j
      BY <1>1, <1>2, <2>2
    <3> QED
      BY <3>1
  <2> QED
    BY <1>1, <2>1, <2>2
<1> HIDE DEF at
<1>6. \A i, j \in 1 .. Len(m) : m[i] = m[j] => i = j
  BY <1>3, <1>4 DEF OnceEach
<1>7. \A v : v \in S \ {l[k]} <=> \E i \in 1 .. Len(m) : m[i] = v
  BY <1>3, <1>5 DEF OnceEach
<1>8. OnceEach(D, m, S \ {l[k]})
  BY <1>2, <1>6, <1>7 DEF OnceEach
<1> QED
  BY <1>8 DEF m

\* udp_input: the same blocks in another order.
LEMMA FrontKeeps ==
  ASSUME NEW l, NEW S, OnceEach(Pcbs, l, S), NEW k \in 1 .. Len(l)
  PROVE  OnceEach(Pcbs, MovedToFront(l, k), S)
<1>1. CASE k = 1
  BY <1>1 DEF MovedToFront
<1>2. CASE k # 1
  <2>1. l[k] \in S /\ l[k] \in Pcbs
    BY DEF OnceEach
  <2>2. OnceEach(Pcbs, RemoveAt(l, k), S \ {l[k]})
    BY TakenOut
  <2>3. OnceEach(Pcbs, <<l[k]>> \o RemoveAt(l, k), (S \ {l[k]}) \union {l[k]})
    BY <2>1, <2>2, PutInFront
  <2>4. (S \ {l[k]}) \union {l[k]} = S
    BY <2>1
  <2> QED
    BY <1>2, <2>3, <2>4 DEF MovedToFront
<1> QED
  BY <1>1, <1>2

\* udp_remove: the list without the block.
LEMMA UnlinkKeeps ==
  ASSUME NEW l, NEW S, OnceEach(Pcbs, l, S), NEW u
  PROVE  OnceEach(Pcbs, Unlinked(l, u), S \ {u})
<1>1. DOMAIN l = 1 .. Len(l)
  BY DEF OnceEach
<1>2. CASE \E k \in DOMAIN l : l[k] = u
  <2> DEFINE k == CHOOSE k \in DOMAIN l : l[k] = u
  <2>1. k \in 1 .. Len(l) /\ l[k] = u
    BY <1>1, <1>2
  <2>2. Unlinked(l, u) = RemoveAt(l, k)
    BY <1>2 DEF Unlinked
  <2> HIDE DEF k
  <2> QED
    BY <2>1, <2>2, TakenOut
<1>3. CASE ~ \E k \in DOMAIN l : l[k] = u
  <2>1. Unlinked(l, u) = l
    BY <1>3 DEF Unlinked
  <2>2. u \notin S
    BY <1>1, <1>3 DEF OnceEach
  <2>3. S \ {u} = S
    BY <2>2
  <2> QED
    BY <2>1, <2>3
<1> QED
  BY <1>2, <1>3

\* What the invariant says of the blocks that are on the list.
LEMMA ListFacts ==
  ASSUME UdpInv
  PROVE  /\ udp_pcbs \in Seq(Pcbs) /\ Len(udp_pcbs) \in Nat
         /\ DOMAIN udp_pcbs = 1 .. Len(udp_pcbs)
         /\ OnList = BoundIn(pcb, live)
         /\ live \subseteq Pcbs
         /\ \A j, k \in DOMAIN udp_pcbs : udp_pcbs[j] = udp_pcbs[k] => j = k
<1>1. udp_pcbs \in Seq(Pcbs) /\ DOMAIN udp_pcbs = 1 .. Len(udp_pcbs) /\ Len(udp_pcbs) \in Nat
  BY DEF UdpInv, OnceEach
<1>2. OnList = BoundIn(pcb, live)
  BY <1>1 DEF UdpInv, OnceEach, OnList
<1> QED
  BY <1>1, <1>2 DEF UdpInv, OnceEach

\* udp_bind always finds a port of the range that nobody has.
LEMMA PortFree ==
  ASSUME UdpAssumption, UdpInv
  PROVE  /\ GivenPort(0) \in Nat /\ GivenPort(0) # 0
         /\ \A v \in Pcbs : pcb[v].lport # GivenPort(0)
<1> DEFINE R == RangeStart .. RangeEnd - 1
           Free == {q \in R : \A v \in OnList : pcb[v].lport # q}
           Given(q) == /\ \A v \in OnList : pcb[v].lport # q
                       /\ \A r \in RangeStart .. q - 1 : \E v \in OnList : pcb[v].lport = r
<1>1. /\ RangeStart \in Nat \ {0} /\ RangeEnd \in Nat /\ IsFiniteSet(Pcbs)
      /\ Cardinality(Pcbs) \in Nat /\ RangeEnd - RangeStart > Cardinality(Pcbs)
  BY UdpValues, FS_CardinalityType
<1>2. R \subseteq Nat \ {0} /\ IsFiniteSet(R) /\ Cardinality(Pcbs) < Cardinality(R)
  <2>1. RangeStart \in Int /\ RangeEnd - 1 \in Int /\ ~ (RangeStart > RangeEnd - 1)
    BY <1>1
  <2>2. IsFiniteSet(R) /\ Cardinality(R) = (RangeEnd - 1) - RangeStart + 1
    BY <2>1, FS_Interval
  <2>3. R \subseteq Nat \ {0}
    BY <1>1
  <2>4. (RangeEnd - 1) - RangeStart + 1 = RangeEnd - RangeStart
    BY <1>1
  <2> QED
    BY <1>1, <2>2, <2>3, <2>4
<1>3. OnList \subseteq Pcbs
  BY ListFacts DEF BoundIn
<1>4. Free # {}
  <2> SUFFICES ASSUME Free = {} PROVE FALSE
    OBVIOUS
  <2>1. \A q \in R : \E v \in OnList : pcb[v].lport = q
    OBVIOUS
  <2> DEFINE f == [q \in R |-> CHOOSE v \in OnList : pcb[v].lport = q]
  <2>2. \A q \in R : f[q] \in OnList /\ pcb[f[q]].lport = q
    BY <2>1
  <2>3. f \in [R -> Pcbs]
    BY <1>3, <2>2
  <2> HIDE DEF f, R
  <2>4. \E x, y \in R : x # y /\ f[x] = f[y]
    <3>1. IsFiniteSet(R) /\ IsFiniteSet(Pcbs) /\ Cardinality(Pcbs) < Cardinality(R)
      BY <1>1, <1>2
    <3> QED
      BY <2>3, <3>1, FS_PigeonHole
  <2> QED
    BY <2>2, <2>4
<1>5. PICK q \in Free : \A r \in Free : q <= r
  BY <1>2, <1>4, Least
<1>6. Given(q) /\ q \in R
  <2>1. ASSUME NEW r \in RangeStart .. q - 1 PROVE \E v \in OnList : pcb[v].lport = r
    <3>1. r \in R /\ ~ (q <= r)
      BY <1>1, <1>5
    <3>2. r \notin Free
      BY <1>5, <3>1
    <3> QED
      BY <3>1, <3>2
  <2> QED
    BY <1>5, <2>1
<1>7. GivenPort(0) = CHOOSE r \in R : Given(r)
  BY DEF GivenPort
<1>8. GivenPort(0) \in R /\ Given(GivenPort(0))
  BY <1>6, <1>7
<1>9. \A v \in Pcbs : v \in OnList \/ pcb[v].lport = 0
  BY ListFacts DEF BoundIn, UdpInv, BlocksInv, Unbound
<1> QED
  BY <1>2, <1>8, <1>9

\* An operation on one block that leaves it bound, to an address that does
\* not overlap with another block's.
LEMMA BlockBound ==
  ASSUME UdpAssumption, UdpInv, NEW u \in live, NEW e \in BlockRec,
         RemoteInv(e), e.lport # 0,
         \A v \in Pcbs : v # u => Apart(e, pcb[v]),
         pcb' = [pcb EXCEPT ![u] = e], udp_pcbs' = Activated(u),
         UNCHANGED <<netifs_up, netif_default, live>>, SentInv'
  PROVE  UdpInv'
<1>1. pcb \in [Pcbs -> BlockRec] /\ live \subseteq Pcbs /\ u \in Pcbs
  BY DEF UdpInv, BlocksInv
<1>2. pcb' \in [Pcbs -> BlockRec] /\ \A v \in Pcbs : pcb'[v] = IF v = u THEN e ELSE pcb[v]
  BY <1>1
<1>3. BlocksInv(pcb', live)
  <2>1. \A v \in Pcbs : RemoteInv(pcb'[v]) /\ (v \notin live => pcb'[v] = Unbound)
    BY <1>2 DEF UdpInv, BlocksInv
  <2>2. \A v, w \in Pcbs : v # w => Apart(pcb'[v], pcb'[w])
    <3> SUFFICES ASSUME NEW v \in Pcbs, NEW w \in Pcbs, v # w PROVE Apart(pcb'[v], pcb'[w])
      OBVIOUS
    <3>1. Apart(pcb[v], pcb[w])
      BY DEF UdpInv, BlocksInv
    <3>2. CASE v = u
      BY <1>2, <3>2
    <3>3. CASE w = u
      <4>1. Apart(e, pcb[v]) /\ pcb'[v] = pcb[v] /\ pcb'[w] = e
        BY <1>2, <3>3
      <4> QED
        BY <4>1 DEF Apart
    <3>4. CASE v # u /\ w # u
      BY <1>2, <3>1, <3>4
    <3> QED
      BY <3>2, <3>3, <3>4
  <2> QED
    BY <1>2, <2>1, <2>2 DEF BlocksInv
<1>4. BoundIn(pcb', live) = BoundIn(pcb, live) \union {u}
  BY <1>1, <1>2 DEF BoundIn
<1>5. OnceEach(Pcbs, udp_pcbs', BoundIn(pcb', live))
  <2>1. OnceEach(Pcbs, udp_pcbs, BoundIn(pcb, live)) /\ OnList = BoundIn(pcb, live)
    BY ListFacts DEF UdpInv
  <2>2. CASE u \in OnList
    <3>1. udp_pcbs' = udp_pcbs /\ BoundIn(pcb', live) = BoundIn(pcb, live)
      BY <1>4, <2>1, <2>2 DEF Activated
    <3> QED
      BY <2>1, <3>1
  <2>3. CASE u \notin OnList
    <3>1. udp_pcbs' = <<u>> \o udp_pcbs
      BY <2>3 DEF Activated
    <3>2. OnceEach(Pcbs, <<u>> \o udp_pcbs, BoundIn(pcb, live) \union {u})
      BY <1>1, <2>1, <2>3, PutInFront
    <3> QED
      BY <1>4, <3>1, <3>2
  <2> QED
    BY <2>2, <2>3
<1> QED
  BY <1>1, <1>3, <1>5 DEF UdpInv

\* ip_route returns interfaces that are up.
LEMMA RouteIsUp ==
  ASSUME UdpAssumption, UdpInv, NEW dest, NEW n \in ip_route(dest)
  PROVE  n \in netifs_up
<1> DEFINE near == {m \in netifs_up : Matches(dest, m)}
           K == {k \in DOMAIN netif_list : netif_list[k] \in near}
<1>1. CASE near # {}
  <2>1. K \subseteq Nat /\ K # {}
    <3>1. DOMAIN netif_list \subseteq Nat
      BY UdpValues
    <3>2. PICK m \in near : m \in UdpIfs
      BY <1>1 DEF UdpInv
    <3>3. PICK k \in DOMAIN netif_list : netif_list[k] = m
      BY <3>2 DEF UdpIfs
    <3> QED
      BY <3>1, <3>3
  <2>2. PICK k \in K : \A j \in K : k <= j
    BY <2>1, Least
  <2>3. \A j \in 1 .. k - 1 : netif_list[j] \notin near
    <3> SUFFICES ASSUME NEW j \in 1 .. k - 1, netif_list[j] \in near PROVE FALSE
      OBVIOUS
    <3>1. k \in 1 .. Len(netif_list) /\ DOMAIN netif_list = 1 .. Len(netif_list) /\ Len(netif_list) \in Nat
      BY UdpValues
    <3>2. j \in K /\ ~ (k <= j)
      BY <3>1
    <3> QED
      BY <2>2, <3>2
  <2>4. First(near) \in near
    BY <2>2, <2>3 DEF First
  <2> QED
    BY <1>1, <2>4 DEF ip_route
<1>2. CASE near = {}
  BY <1>2 DEF ip_route
<1> QED
  BY <1>1, <1>2

\* The block after an implicit bind: bound to a port that nobody else has.
LEMMA ReadyBlock ==
  ASSUME UdpAssumption, UdpInv, NEW u \in live
  PROVE  \E p \in Nat : LET e == [pcb[u] EXCEPT !.lport = p] IN
           /\ p # 0 /\ Ready(u) = [pcb EXCEPT ![u] = e]
           /\ e \in BlockRec /\ e.lport = p
           /\ e.lip = pcb[u].lip /\ e.rip = pcb[u].rip /\ e.rport = pcb[u].rport
           /\ e.connected = pcb[u].connected
           /\ \A v \in Pcbs : v # u => Apart(e, pcb[v])
<1>1. u \in Pcbs /\ pcb \in [Pcbs -> BlockRec] /\ pcb[u] \in BlockRec
  BY DEF UdpInv, BlocksInv
<1>2. CASE pcb[u].lport = 0
  <2> DEFINE p == GivenPort(0)
             e == [pcb[u] EXCEPT !.lport = p]
  <2>1. p \in Nat /\ p # 0 /\ \A v \in Pcbs : pcb[v].lport # p
    BY PortFree
  <2>2. Ready(u) = [pcb EXCEPT ![u].lip = pcb[u].lip, ![u].lport = p]
    BY <1>2 DEF Ready, Bound
  <2> HIDE DEF p
  <2>3. Ready(u) = [pcb EXCEPT ![u] = e]
    BY <1>1, <2>2 DEF BlockRec
  <2>4. /\ e \in BlockRec /\ e.lport = p
        /\ e.lip = pcb[u].lip /\ e.rip = pcb[u].rip /\ e.rport = pcb[u].rport
    BY <1>1, <2>1 DEF BlockRec
  <2>5. e.connected = pcb[u].connected
    BY <1>1 DEF BlockRec
  <2>6. \A v \in Pcbs : v # u => Apart(e, pcb[v])
    BY <2>1, <2>4 DEF Apart
  <2> QED
    BY <2>1, <2>3, <2>4, <2>5, <2>6
<1>3. CASE pcb[u].lport # 0
  <2> DEFINE p == pcb[u].lport
             e == [pcb[u] EXCEPT !.lport = p]
  <2>1. p \in Nat /\ p # 0
    BY <1>1, <1>3 DEF BlockRec
  <2>2. e = pcb[u]
    BY <1>1 DEF BlockRec
  <2>3. Ready(u) = [pcb EXCEPT ![u] = e]
    BY <1>1, <1>3, <2>2 DEF Ready
  <2>4. \A v \in Pcbs : v # u => Apart(pcb[u], pcb[v])
    BY <1>1 DEF UdpInv, BlocksInv
  <2> QED
    BY <1>1, <2>1, <2>2, <2>3, <2>4
<1> QED
  BY <1>2, <1>3

\* Without a datagram there is nothing to say of it.
LEMMA NothingSent ==
  ASSUME udp_sent' = << >>
  PROVE  SentInv'
<1>1. DOMAIN udp_sent' = {}
  OBVIOUS
<1> QED
  BY <1>1 DEF SentInv

\* udp_bind.
LEMMA BindKeeps ==
  ASSUME UdpAssumption, UdpInv, NEW u \in Pcbs, NEW ip \in UdpIfs \union {AnyAddr},
         NEW port \in BindPorts \union {0}, udp_bind(u, ip, port)
  PROVE  UdpInv'
<1> DEFINE q == GivenPort(port)
           e == [pcb[u] EXCEPT !.lip = ip, !.lport = q]
<1>1. /\ u \in live /\ ~ Taken(u, ip, port) /\ udp_pcbs' = Activated(u) /\ udp_sent' = << >>
      /\ pcb' = [pcb EXCEPT ![u].lip = ip, ![u].lport = q]
      /\ UNCHANGED <<netifs_up, netif_default, live>>
  BY DEF udp_bind, Bound
<1>2. /\ q \in Nat /\ q # 0
      /\ \A v \in Pcbs : v # u /\ pcb[v].lport = q => port = q /\ v \in OnList
  <2>1. CASE port = 0
    BY <2>1, PortFree
  <2>2. CASE port # 0
    <3>1. q = port /\ port \in BindPorts
      BY <2>2 DEF GivenPort
    <3>2. q \in Nat /\ q # 0
      BY <3>1, UdpValues
    <3>3. \A v \in Pcbs : v \in OnList \/ pcb[v].lport = 0
      BY ListFacts DEF BoundIn, UdpInv, BlocksInv, Unbound
    <3> QED
      BY <3>1, <3>2, <3>3
  <2> QED
    BY <2>1, <2>2
<1>3. pcb \in [Pcbs -> BlockRec] /\ pcb[u] \in BlockRec /\ RemoteInv(pcb[u])
  BY DEF UdpInv, BlocksInv
<1> HIDE DEF q
<1>4. e \in BlockRec /\ e.lip = ip /\ e.lport = q /\ e.rip = pcb[u].rip /\ e.rport = pcb[u].rport
  BY <1>2, <1>3 DEF BlockRec
<1>5. e.connected = pcb[u].connected
  BY <1>3 DEF BlockRec
<1>6. pcb' = [pcb EXCEPT ![u] = e]
  BY <1>1, <1>3
<1> HIDE DEF e
<1>7. RemoteInv(e)
  BY <1>3, <1>4, <1>5 DEF RemoteInv
<1>8. \A v \in Pcbs : v # u => Apart(e, pcb[v])
  <2> SUFFICES ASSUME NEW v \in Pcbs, v # u, pcb[v].lport = q
               PROVE  ip # pcb[v].lip /\ ip # AnyAddr /\ pcb[v].lip # AnyAddr
    BY <1>4 DEF Apart
  <2>1. port = q /\ v \in OnList \ {u}
    BY <1>2
  <2> QED
    BY <1>1, <2>1 DEF Taken
<1> QED
  BY <1>1, <1>2, <1>4, <1>6, <1>7, <1>8, NothingSent, BlockBound

\* udp_connect.
LEMMA ConnectKeeps ==
  ASSUME UdpAssumption, UdpInv, NEW u \in Pcbs, NEW ip \in Hosts, NEW port \in BindPorts,
         udp_connect(u, ip, port)
  PROVE  UdpInv'
<1>1. /\ u \in live /\ udp_pcbs' = Activated(u) /\ udp_sent' = << >>
      /\ pcb' = [Ready(u) EXCEPT ![u].rip = ip, ![u].rport = port, ![u].connected = TRUE]
      /\ UNCHANGED <<netifs_up, netif_default, live>>
  BY DEF udp_connect
<1>2. PICK p \in Nat : LET e == [pcb[u] EXCEPT !.lport = p] IN
           /\ p # 0 /\ Ready(u) = [pcb EXCEPT ![u] = e]
           /\ e \in BlockRec /\ e.lport = p /\ e.lip = pcb[u].lip
           /\ \A v \in Pcbs : v # u => Apart(e, pcb[v])
  BY <1>1, ReadyBlock
<1> DEFINE e == [pcb[u] EXCEPT !.lport = p]
           d == [e EXCEPT !.rip = ip, !.rport = port, !.connected = TRUE]
<1>3. /\ p # 0 /\ Ready(u) = [pcb EXCEPT ![u] = e] /\ e \in BlockRec /\ e.lport = p
      /\ \A v \in Pcbs : v # u => Apart(e, pcb[v])
  BY <1>2
<1> HIDE DEF e
<1>4. pcb \in [Pcbs -> BlockRec] /\ port \in Nat
  BY UdpValues DEF UdpInv, BlocksInv
<1>5. d \in BlockRec /\ d.lport = p /\ d.lip = e.lip /\ d.rip = ip
  BY <1>3, <1>4 DEF BlockRec
<1>6. d.connected = TRUE
  BY <1>3 DEF BlockRec
<1>7. pcb' = [pcb EXCEPT ![u] = d]
  BY <1>1, <1>3, <1>4
<1> HIDE DEF d
<1>8. RemoteInv(d)
  BY <1>5, <1>6 DEF RemoteInv
<1>9. \A v \in Pcbs : v # u => Apart(d, pcb[v])
  BY <1>3, <1>5 DEF Apart
<1> QED
  BY <1>1, <1>3, <1>5, <1>7, <1>8, <1>9, NothingSent, BlockBound

\* udp_sendto: what it sends has the block's port and an interface's address.
LEMMA SendKeeps ==
  ASSUME UdpAssumption, UdpInv, NEW u \in Pcbs, NEW dest, NEW dport, udp_sendto(u, dest, dport)
  PROVE  UdpInv'
<1>1. PICK n \in ip_route(dest) :
       /\ u \in live /\ pcb' = Ready(u) /\ udp_pcbs' = Activated(u)
       /\ udp_sent' = IF pcb'[u].lip \in {AnyAddr, n} /\ (pcb'[u].lip = n => n \in addressed)
                        THEN << [by |-> u, via |-> n, from |-> pcb'[u].lport,
                                 to |-> dest, dport |-> dport] >>
                        ELSE << >>
       /\ UNCHANGED <<netifs_up, netif_default, live>>
  BY DEF udp_sendto
<1>2. PICK p \in Nat : LET e == [pcb[u] EXCEPT !.lport = p] IN
           /\ p # 0 /\ Ready(u) = [pcb EXCEPT ![u] = e]
           /\ e \in BlockRec /\ e.lport = p
           /\ e.rip = pcb[u].rip /\ e.rport = pcb[u].rport
           /\ e.connected = pcb[u].connected
           /\ \A v \in Pcbs : v # u => Apart(e, pcb[v])
  BY <1>1, ReadyBlock
<1> DEFINE e == [pcb[u] EXCEPT !.lport = p]
<1>3. /\ p # 0 /\ Ready(u) = [pcb EXCEPT ![u] = e] /\ e \in BlockRec /\ e.lport = p
      /\ e.rip = pcb[u].rip /\ e.rport = pcb[u].rport /\ e.connected = pcb[u].connected
      /\ \A v \in Pcbs : v # u => Apart(e, pcb[v])
  BY <1>2
<1> HIDE DEF e
<1>4. pcb \in [Pcbs -> BlockRec] /\ RemoteInv(pcb[u])
  BY DEF UdpInv, BlocksInv
<1>5. RemoteInv(e)
  BY <1>3, <1>4 DEF RemoteInv
<1>6. pcb'[u] = e
  BY <1>1, <1>3, <1>4
<1>7. SentInv'
  <2>1. CASE udp_sent' = << >>
    BY <2>1, NothingSent
  <2>2. CASE udp_sent' # << >>
    <3> DEFINE d == [by |-> u, via |-> n, from |-> pcb'[u].lport, to |-> dest, dport |-> dport]
    <3>1. udp_sent' = <<d>> /\ pcb'[u].lip \in {AnyAddr, n}
      BY <1>1, <2>2
    <3>2. n \in netifs_up'
      BY <1>1, RouteIsUp
    <3>3. u \in live' /\ pcb'[u].lport # 0
      BY <1>1, <1>3, <1>6
    <3>4. d.by = u /\ d.via = n /\ d.from = pcb'[u].lport
      OBVIOUS
    <3> HIDE DEF d
    <3>5. DOMAIN udp_sent' = {1} /\ udp_sent'[1] = d
      BY <3>1
    <3> QED
      BY <3>1, <3>2, <3>3, <3>4, <3>5 DEF SentInv
  <2> QED
    BY <2>1, <2>2
<1> QED
  BY <1>1, <1>3, <1>5, <1>7, BlockBound

\* udp_new, udp_remove, udp_disconnect.
LEMMA BlockKeeps ==
  ASSUME UdpAssumption, UdpInv, NEW u \in Pcbs, udp_new(u) \/ udp_remove(u) \/ udp_disconnect(u)
  PROVE  UdpInv'
<1>1. /\ pcb \in [Pcbs -> BlockRec] /\ live \subseteq Pcbs
      /\ \A v \in Pcbs : RemoteInv(pcb[v]) /\ (v \notin live => pcb[v] = Unbound)
      /\ \A v, w \in Pcbs : v # w => Apart(pcb[v], pcb[w])
      /\ OnceEach(Pcbs, udp_pcbs, BoundIn(pcb, live))
  BY DEF UdpInv, BlocksInv
<1>2. Unbound \in BlockRec /\ Unbound.lport = 0 /\ Unbound.rport = 0 /\ Unbound.connected = FALSE
  BY DEF Unbound, BlockRec
<1>3. RemoteInv(Unbound)
  BY <1>2 DEF RemoteInv
<1>4. CASE udp_new(u)
  <2>1. /\ u \notin live /\ live' = live \union {u} /\ udp_sent' = << >>
        /\ UNCHANGED <<netifs_up, netif_default, udp_pcbs, pcb>>
    BY <1>4 DEF udp_new
  <2>2. BoundIn(pcb', live') = BoundIn(pcb, live)
    BY <1>1, <1>2, <2>1 DEF BoundIn
  <2>3. BlocksInv(pcb', live')
    BY <1>1, <2>1 DEF BlocksInv
  <2> QED
    BY <1>1, <2>1, <2>2, <2>3, NothingSent DEF UdpInv
<1>5. CASE udp_remove(u)
  <2>1. /\ u \in live /\ live' = live \ {u} /\ udp_sent' = << >>
        /\ pcb' = [pcb EXCEPT ![u] = Unbound] /\ udp_pcbs' = Unlinked(udp_pcbs, u)
        /\ UNCHANGED <<netifs_up, netif_default>>
    BY <1>5 DEF udp_remove
  <2>2. pcb' \in [Pcbs -> BlockRec] /\ \A v \in Pcbs : pcb'[v] = IF v = u THEN Unbound ELSE pcb[v]
    BY <1>1, <1>2, <2>1
  <2>3. BoundIn(pcb', live') = BoundIn(pcb, live) \ {u}
    BY <1>1, <2>1, <2>2 DEF BoundIn
  <2>4. OnceEach(Pcbs, udp_pcbs', BoundIn(pcb', live'))
    <3>1. OnceEach(Pcbs, Unlinked(udp_pcbs, u), BoundIn(pcb, live) \ {u})
      BY <1>1, UnlinkKeeps
    <3> QED
      BY <2>1, <2>3, <3>1
  <2>5. \A v, w \in Pcbs : v # w => Apart(pcb'[v], pcb'[w])
    BY <1>1, <1>2, <2>2 DEF Apart
  <2>6. BlocksInv(pcb', live')
    BY <1>1, <1>3, <2>1, <2>2, <2>5 DEF BlocksInv
  <2> QED
    BY <1>1, <2>1, <2>4, <2>6, NothingSent DEF UdpInv
<1>6. CASE udp_disconnect(u)
  <2> DEFINE e == [pcb[u] EXCEPT !.rip = AnyAddr, !.rport = 0, !.connected = FALSE]
  <2>1. /\ u \in live /\ live' = live /\ udp_sent' = << >>
        /\ pcb' = [pcb EXCEPT ![u].rip = AnyAddr, ![u].rport = 0, ![u].connected = FALSE]
        /\ UNCHANGED <<netifs_up, netif_default, udp_pcbs>>
    BY <1>6 DEF udp_disconnect
  <2>2. pcb[u] \in BlockRec
    BY <1>1
  <2>3. e \in BlockRec /\ e.lip = pcb[u].lip /\ e.lport = pcb[u].lport /\ e.rport = 0
    BY <2>2 DEF BlockRec
  <2>4. e.connected = FALSE
    BY <2>2 DEF BlockRec
  <2>5. pcb' = [pcb EXCEPT ![u] = e]
    BY <1>1, <2>1
  <2> HIDE DEF e
  <2>6. RemoteInv(e)
    BY <2>3, <2>4 DEF RemoteInv
  <2>7. pcb' \in [Pcbs -> BlockRec] /\ \A v \in Pcbs : pcb'[v] = IF v = u THEN e ELSE pcb[v]
    BY <1>1, <2>3, <2>5
  <2>8. BoundIn(pcb', live') = BoundIn(pcb, live)
    BY <1>1, <2>1, <2>3, <2>7 DEF BoundIn
  <2>9. \A v, w \in Pcbs : v # w => Apart(pcb'[v], pcb'[w])
    <3> SUFFICES ASSUME NEW v \in Pcbs, NEW w \in Pcbs, v # w PROVE Apart(pcb'[v], pcb'[w])
      OBVIOUS
    <3>1. /\ pcb'[v].lip = pcb[v].lip /\ pcb'[v].lport = pcb[v].lport
          /\ pcb'[w].lip = pcb[w].lip /\ pcb'[w].lport = pcb[w].lport
      BY <2>3, <2>7
    <3>2. Apart(pcb[v], pcb[w])
      BY <1>1
    <3> QED
      BY <3>1, <3>2 DEF Apart
  <2>10. BlocksInv(pcb', live')
    BY <1>1, <2>1, <2>6, <2>7, <2>9 DEF BlocksInv
  <2> QED
    BY <1>1, <2>1, <2>8, <2>10, NothingSent DEF UdpInv
<1> QED
  BY <1>4, <1>5, <1>6

\* udp_input moves a block, the interfaces change: the blocks stay.
LEMMA OthersKeep ==
  ASSUME UdpAssumption, UdpInv,
         \/ \E src, sport, dest, port : udp_input(src, sport, dest, port)
         \/ \E n \in UdpIfs : netif_set(n)
  PROVE  UdpInv'
<1>1. CASE \E src, sport, dest, port : udp_input(src, sport, dest, port)
  <2>1. PICK src, sport, dest, port : udp_input(src, sport, dest, port)
    BY <1>1
  <2> DEFINE full == FullMatch(src, sport, dest, port)
  <2>2. /\ udp_pcbs' = IF full = {} THEN udp_pcbs
                       ELSE MovedToFront(udp_pcbs, CHOOSE k \in full : TRUE)
        /\ udp_sent' = << >> /\ UNCHANGED <<netifs_up, netif_default, pcb, live>>
    BY <2>1 DEF udp_input
  <2>3. full \subseteq 1 .. Len(udp_pcbs)
    BY ListFacts DEF FullMatch
  <2> HIDE DEF full
  <2>4. OnceEach(Pcbs, udp_pcbs', BoundIn(pcb, live))
    <3>1. OnceEach(Pcbs, udp_pcbs, BoundIn(pcb, live))
      BY DEF UdpInv
    <3>2. CASE full = {}
      BY <2>2, <3>1, <3>2
    <3>3. CASE full # {}
      <4> DEFINE k == CHOOSE k \in full : TRUE
      <4>1. k \in 1 .. Len(udp_pcbs)
        BY <2>3, <3>3
      <4>2. udp_pcbs' = MovedToFront(udp_pcbs, k)
        BY <2>2, <3>3
      <4> HIDE DEF k
      <4> QED
        BY <3>1, <4>1, <4>2, FrontKeeps
    <3> QED
      BY <3>2, <3>3
  <2> QED
    BY <2>2, <2>4, NothingSent DEF UdpInv
<1>2. CASE \E n \in UdpIfs : netif_set(n)
  <2>1. PICK n \in UdpIfs : netif_set(n)
    BY <1>2
  <2>2. /\ netifs_up' \subseteq UdpIfs /\ netif_default' \in UdpIfs
        /\ udp_sent' = << >> /\ UNCHANGED <<udp_pcbs, pcb, live>>
    BY <2>1 DEF netif_set, UdpInv
  <2> QED
    BY <2>2, NothingSent DEF UdpInv
<1> QED
  BY <1>1, <1>2

\* The first of the indices with a property: exactly one, if there is any.
LEMMA FirstOne ==
  ASSUME NEW n \in Nat, NEW M, M \subseteq 1 .. n
  PROVE  LET F == {k \in M : \A j \in 1 .. k - 1 : j \notin M}
         IN  F \subseteq M /\ (M # {} => F # {})
<1> DEFINE F == {k \in M : \A j \in 1 .. k - 1 : j \notin M}
<1>1. ASSUME M # {} PROVE F # {}
  <2>0. M \subseteq Nat
    OBVIOUS
  <2>1. PICK k \in M : \A j \in M : k <= j
    BY <1>1, <2>0, Least
  <2>2. \A j \in 1 .. k - 1 : j \notin M
    BY <2>0, <2>1
  <2> QED
    BY <2>1, <2>2
<1> QED
  BY <1>1

\* The positions udp_input may find: those that match, and one if any does.
LEMMA Found ==
  ASSUME UdpInv, NEW src, NEW sport, NEW dest, NEW port
  PROVE  LET l == udp_pcbs
             M == {k \in DOMAIN l : LocalMatch(l[k], dest, port) /\ RemoteMatch(l[k], src, sport)}
             N == {k \in DOMAIN l : LocalMatch(l[k], dest, port) /\ pcb[l[k]].connected = FALSE}
         IN  /\ FullMatch(src, sport, dest, port) \subseteq M
             /\ M # {} => FullMatch(src, sport, dest, port) # {}
             /\ Unconnected(dest, port) \subseteq N
             /\ N # {} => Unconnected(dest, port) # {}
<1> DEFINE l == udp_pcbs
           M == {k \in DOMAIN l : LocalMatch(l[k], dest, port) /\ RemoteMatch(l[k], src, sport)}
           N == {k \in DOMAIN l : LocalMatch(l[k], dest, port) /\ pcb[l[k]].connected = FALSE}
<1>1. /\ DOMAIN l = 1 .. Len(l) /\ Len(l) \in Nat
      /\ \A k \in DOMAIN l : l[k] \in Pcbs /\ pcb[l[k]].connected \in BOOLEAN
  <2>1. DOMAIN l = 1 .. Len(l) /\ Len(l) \in Nat /\ l \in Seq(Pcbs)
    BY ListFacts
  <2>2. \A v \in Pcbs : pcb[v].connected \in BOOLEAN
    BY DEF UdpInv, BlocksInv, BlockRec
  <2> QED
    BY <2>1, <2>2
<1>2. \A k \in DOMAIN l : \A j \in 1 .. k - 1 : j \in DOMAIN l
  BY <1>1
<1>3. M \subseteq 1 .. Len(l) /\ N \subseteq 1 .. Len(l)
  BY <1>1
<1>4. FullMatch(src, sport, dest, port) = {k \in M : \A j \in 1 .. k - 1 : j \notin M}
  BY <1>2 DEF FullMatch
<1>5. Unconnected(dest, port) = {k \in N : \A j \in 1 .. k - 1 : j \notin N}
  <2>1. \A k \in DOMAIN l : (~ pcb[l[k]].connected) <=> pcb[l[k]].connected = FALSE
    BY <1>1, Zenon
  <2> QED
    BY <1>2, <2>1 DEF Unconnected
<1> HIDE DEF M, N
<1>6. LET F == {k \in M : \A j \in 1 .. k - 1 : j \notin M}
      IN  F \subseteq M /\ (M # {} => F # {})
  BY <1>1, <1>3, FirstOne
<1>7. LET F == {k \in N : \A j \in 1 .. k - 1 : j \notin N}
      IN  F \subseteq N /\ (N # {} => F # {})
  BY <1>1, <1>3, FirstOne
<1> QED
  BY <1>4, <1>5, <1>6, <1>7 DEF M, N

\* What udp_input does with a datagram is what DemuxSound says.
LEMMA DemuxRight ==
  ASSUME UdpAssumption, UdpInv
  PROVE  DemuxSound
<1>1. /\ OnList = BoundIn(pcb, live) /\ DOMAIN udp_pcbs = 1 .. Len(udp_pcbs)
      /\ \A j, k \in DOMAIN udp_pcbs : udp_pcbs[j] = udp_pcbs[k] => j = k
      /\ \A k \in DOMAIN udp_pcbs : udp_pcbs[k] \in OnList /\ udp_pcbs[k] \in Pcbs
  <2>1. \A k \in DOMAIN udp_pcbs : udp_pcbs[k] \in OnList
    BY DEF OnList
  <2> QED
    BY <2>1, ListFacts DEF BoundIn
<1>2. \A u \in Pcbs : /\ pcb[u].connected \in BOOLEAN /\ RemoteInv(pcb[u])
  BY DEF UdpInv, BlocksInv, BlockRec
<1>3. \A src \in Hosts, dest \in UdpIfs \union {Broadcast}, sport, port \in BindPorts :
        LET to == Receivers(src, sport, dest, port)
            friends == {u \in OnList : /\ LocalMatch(u, dest, port) /\ pcb[u].connected
                                       /\ pcb[u].rip = src /\ pcb[u].rport = sport}
        IN  /\ Accepted(dest) /\ friends # {} => to # {} /\ to \subseteq friends
            /\ \A u \in to : pcb[u].connected => u \in friends
  <2> TAKE src \in Hosts, dest \in UdpIfs \union {Broadcast}, sport, port \in BindPorts
  <2> DEFINE l == udp_pcbs
             M == {k \in DOMAIN l : LocalMatch(l[k], dest, port) /\ RemoteMatch(l[k], src, sport)}
             N == {k \in DOMAIN l : LocalMatch(l[k], dest, port) /\ pcb[l[k]].connected = FALSE}
             F == FullMatch(src, sport, dest, port)
             G == Unconnected(dest, port)
             to == Receivers(src, sport, dest, port)
             friends == {u \in OnList : /\ LocalMatch(u, dest, port) /\ pcb[u].connected
                                        /\ pcb[u].rip = src /\ pcb[u].rport = sport}
  <2>1. F \subseteq M /\ (M # {} => F # {}) /\ G \subseteq N
    BY Found
  <2>2. sport # 0 /\ AnyAddr \notin Hosts
    BY UdpValues
  <2>3. \A k \in M : l[k] \in friends
    <3> SUFFICES ASSUME NEW k \in M PROVE l[k] \in friends
      OBVIOUS
    <3>1. l[k] \in OnList /\ l[k] \in Pcbs /\ LocalMatch(l[k], dest, port)
      BY <1>1
    <3>2. pcb[l[k]].rport = sport /\ pcb[l[k]].rip \in {AnyAddr, src}
      BY DEF RemoteMatch
    <3>3. pcb[l[k]].connected = TRUE
      <4>1. pcb[l[k]].connected # FALSE
        BY <1>2, <2>2, <3>1, <3>2 DEF RemoteInv
      <4>2. pcb[l[k]].connected \in BOOLEAN
        BY <1>2, <3>1
      <4> QED
        BY <4>1, <4>2
    <3>4. pcb[l[k]].rip \in Hosts
      BY <1>2, <3>1, <3>3 DEF RemoteInv
    <3>5. pcb[l[k]].rip = src
      BY <2>2, <3>2, <3>4
    <3>6. pcb[l[k]].connected
      BY <3>3, Zenon
    <3> QED
      BY <3>1, <3>2, <3>5, <3>6
  <2>4. friends # {} => M # {}
    <3> SUFFICES ASSUME NEW u \in friends PROVE M # {}
      OBVIOUS
    <3>1. PICK k \in DOMAIN l : l[k] = u
      BY DEF OnList
    <3>2. LocalMatch(u, dest, port) /\ RemoteMatch(u, src, sport)
      BY DEF RemoteMatch
    <3> QED
      BY <3>1, <3>2
  <2>5. to = IF ~ Accepted(dest) THEN {} ELSE {l[k] : k \in IF F # {} THEN F ELSE G}
    BY DEF Receivers
  <2>6. \A k \in N : ~ pcb[l[k]].connected
    <3>1. \A k \in N : pcb[l[k]].connected = FALSE
      OBVIOUS
    <3> QED
      BY <3>1, Zenon
  <2> HIDE DEF M, N, F, G, to, friends
  <2>7. Accepted(dest) /\ friends # {} => to # {} /\ to \subseteq friends
    BY <2>1, <2>3, <2>4, <2>5
  <2>8. ASSUME NEW u \in to, pcb[u].connected PROVE u \in friends
    <3>1. PICK k \in IF F # {} THEN F ELSE G : u = l[k]
      BY <2>5
    <3>2. CASE F # {}
      BY <2>1, <2>3, <3>1, <3>2
    <3>3. CASE F = {}
      <4>1. k \in N
        BY <2>1, <3>1, <3>3
      <4>2. ~ pcb[u].connected
        BY <2>6, <3>1, <4>1, Zenon
      <4> QED
        BY <2>8, <4>2
    <3> QED
      BY <3>2, <3>3
  <2> QED
    BY <2>7, <2>8 DEF to, friends
<1>4. OnList = {u \in live : pcb[u].lport # 0}
  BY <1>1 DEF BoundIn
<1>5. \A j, k \in DOMAIN udp_pcbs : udp_pcbs[j] = udp_pcbs[k] => j = k
  BY <1>1
<1> QED
  BY <1>3, <1>4, <1>5, Zenon DEF DemuxSound

\* The block that sent a datagram is the only one an answer can be for.
LEMMA AnswerRight ==
  ASSUME UdpAssumption, UdpInv
  PROVE  AnswerReturns
<1> SUFFICES ASSUME NEW i \in DOMAIN udp_sent,
                    udp_sent[i].via \in addressed, udp_sent[i].to \in Hosts,
                    pcb[udp_sent[i].by].connected =>
                      /\ pcb[udp_sent[i].by].rip = udp_sent[i].to
                      /\ pcb[udp_sent[i].by].rport = udp_sent[i].dport
             PROVE  Receivers(udp_sent[i].to, udp_sent[i].dport, udp_sent[i].via, udp_sent[i].from)
                      = {udp_sent[i].by}
  BY DEF AnswerReturns
<1> DEFINE d == udp_sent[i]
           u == d.by
           src == d.to
           sport == d.dport
           dest == d.via
           port == d.from
           l == udp_pcbs
           M == {k \in DOMAIN l : LocalMatch(l[k], dest, port) /\ RemoteMatch(l[k], src, sport)}
           N == {k \in DOMAIN l : LocalMatch(l[k], dest, port) /\ pcb[l[k]].connected = FALSE}
           F == FullMatch(src, sport, dest, port)
           G == Unconnected(dest, port)
<1>1. /\ u \in live /\ dest \in netifs_up /\ port = pcb[u].lport /\ port # 0
      /\ pcb[u].lip \in {AnyAddr, dest}
  BY DEF UdpInv, SentInv
<1>2. dest \in UdpIfs /\ dest # Broadcast /\ u \in Pcbs
  BY <1>1, UdpValues DEF UdpInv
<1>3. PICK k0 \in DOMAIN l : l[k0] = u
  <2>1. u \in OnList
    BY <1>1, ListFacts DEF BoundIn
  <2> QED
    BY <2>1 DEF OnList
<1>4. /\ \A j, k \in DOMAIN l : l[j] = l[k] => j = k
      /\ \A k \in DOMAIN l : l[k] \in Pcbs
  <2>1. l \in Seq(Pcbs) /\ \A j, k \in DOMAIN l : l[j] = l[k] => j = k
    BY ListFacts
  <2> QED
    BY <2>1
<1>5. \A k \in DOMAIN l : LocalMatch(l[k], dest, port) => k = k0
  <2> SUFFICES ASSUME NEW k \in DOMAIN l, LocalMatch(l[k], dest, port), l[k] # u PROVE FALSE
    BY <1>3, <1>4
  <2>1. Apart(pcb[u], pcb[l[k]])
    BY <1>2, <1>4 DEF UdpInv, BlocksInv
  <2>2. pcb[l[k]].lport = port /\ (pcb[l[k]].lip = AnyAddr \/ pcb[l[k]].lip = dest)
    BY <1>2 DEF LocalMatch
  <2> QED
    BY <1>1, <2>1, <2>2 DEF Apart
<1>6. LocalMatch(u, dest, port)
  BY <1>1, <1>2 DEF LocalMatch
<1>7. F \subseteq M /\ (M # {} => F # {}) /\ G \subseteq N /\ (N # {} => G # {})
  BY Found
<1>8. M \subseteq {k0} /\ N \subseteq {k0}
  BY <1>5
<1>9. M # {} \/ N # {}
  <2>1. pcb[u].connected \in BOOLEAN
    BY <1>2 DEF UdpInv, BlocksInv, BlockRec
  <2>2. CASE pcb[u].connected = FALSE
    BY <1>3, <1>6, <2>2
  <2>3. CASE pcb[u].connected = TRUE
    <3>1. pcb[u].rip = src /\ pcb[u].rport = sport
      BY <2>3
    <3>2. RemoteMatch(u, src, sport)
      BY <3>1 DEF RemoteMatch
    <3> QED
      BY <1>3, <1>6, <3>2
  <2> QED
    BY <2>1, <2>2, <2>3
<1>10. Accepted(dest)
  BY <1>1 DEF Accepted
<1>11. Receivers(src, sport, dest, port) = {l[k] : k \in IF F # {} THEN F ELSE G}
  BY <1>10 DEF Receivers
<1> HIDE DEF M, N, F, G
<1>12. (IF F # {} THEN F ELSE G) = {k0}
  <2>1. F \subseteq {k0} /\ G \subseteq {k0} /\ (F = {} => G # {})
    BY <1>7, <1>8, <1>9
  <2> QED
    BY <2>1
<1>13. {l[k] : k \in {k0}} = {u}
  BY <1>3
<1> QED
  BY <1>11, <1>12, <1>13

\* udp.c, with any blocks, interfaces, hosts and ports: a datagram reaches the
\* block it is for, and the answer to a datagram the block that sent it,
\* whatever was bound, connected, removed and moved in the list before.
THEOREM UdpStaysSound ==
  ASSUME UdpAssumption
  PROVE  UdpSpec => []UdpSound
<1>1. UdpInit => UdpInv
  <2> SUFFICES ASSUME UdpInit PROVE UdpInv
    OBVIOUS
  <2>1. /\ netifs_up = {} /\ netif_default = StaIf /\ udp_pcbs = << >> /\ live = {}
        /\ pcb = [u \in Pcbs |-> Unbound] /\ udp_sent = << >>
    BY DEF UdpInit
  <2>2. Unbound \in BlockRec /\ Unbound.lport = 0 /\ Unbound.rport = 0
    BY DEF Unbound, BlockRec
  <2>3. Unbound.connected = FALSE
    BY DEF Unbound
  <2>4. RemoteInv(Unbound) /\ Apart(Unbound, Unbound)
    BY <2>2, <2>3 DEF RemoteInv, Apart
  <2>5. BlocksInv(pcb, live)
    BY <2>1, <2>2, <2>4 DEF BlocksInv
  <2>6. OnceEach(Pcbs, udp_pcbs, BoundIn(pcb, live))
    BY <2>1 DEF OnceEach, BoundIn
  <2>7. SentInv
    BY <2>1 DEF SentInv
  <2> QED
    BY <2>1, <2>5, <2>6, <2>7, UdpValues DEF UdpInv
<1>2. UdpInv /\ [UdpNext]_udpVars => UdpInv'
  <2> SUFFICES ASSUME UdpInv, [UdpNext]_udpVars PROVE UdpInv'
    OBVIOUS
  <2>1. CASE UNCHANGED udpVars
    BY <2>1 DEF udpVars, UdpInv, SentInv, BoundIn
  <2>2. ASSUME NEW u \in Pcbs,
               \/ udp_new(u) \/ udp_remove(u) \/ udp_disconnect(u)
               \/ \E ip \in UdpIfs \union {AnyAddr}, port \in BindPorts \union {0} :
                    udp_bind(u, ip, port)
               \/ \E p \in Hosts, port \in BindPorts : udp_connect(u, p, port)
               \/ \E p \in Hosts \union {Broadcast}, port \in BindPorts : udp_sendto(u, p, port)
        PROVE  UdpInv'
    <3>1. CASE udp_new(u) \/ udp_remove(u) \/ udp_disconnect(u)
      BY <3>1, BlockKeeps
    <3>2. ASSUME NEW ip \in UdpIfs \union {AnyAddr}, NEW port \in BindPorts \union {0},
                 udp_bind(u, ip, port)
          PROVE  UdpInv'
      BY <3>2, BindKeeps
    <3>3. ASSUME NEW p \in Hosts, NEW port \in BindPorts, udp_connect(u, p, port)
          PROVE  UdpInv'
      BY <3>3, ConnectKeeps
    <3>4. ASSUME NEW p \in Hosts \union {Broadcast}, NEW port \in BindPorts, udp_sendto(u, p, port)
          PROVE  UdpInv'
      BY <3>4, SendKeeps
    <3> QED
      BY <2>2, <3>1, <3>2, <3>3, <3>4
  <2>3. CASE \/ \E src, sport, dest, port : udp_input(src, sport, dest, port)
             \/ \E n \in UdpIfs : netif_set(n)
    BY <2>3, OthersKeep
  <2> QED
    BY <2>1, <2>2, <2>3 DEF UdpNext
<1>3. UdpInv => UdpSound
  BY DemuxRight, AnswerRight DEF UdpSound
<1> QED
  BY <1>1, <1>2, <1>3, PTL DEF UdpSpec

-----------------------------------------------------------------------------
(* lwip_select and event_callback: no wake-up is lost. *)

\* A lwip_select: its socket index is one of the sockets, and its semaphore is
\* signalled when it was marked so, until it stops waiting.
SelAts == {"idle", "scan", "list", "enter", "rescan", "wait", "leave", "off", "final"}

SelRec ==
  [at : SelAts,
   i : Nat, rd : SUBSET Socks, wr : SUBSET Socks, ready : BOOLEAN, sem : {0, 1},
   signalled : BOOLEAN]

\* Between Enlist and Unlist.
OnCbList(f) == f.at \in {"enter", "rescan", "wait", "leave", "off"}

SelInv(f) ==
  /\ f \in SelRec
  /\ f.at # "idle" => f.i \in Socks
  /\ f.at \in {"list", "wait", "off"} => f.i = 0
  /\ f.sem = 1 => f.signalled = TRUE
  /\ f.signalled = TRUE /\ f.at \notin {"leave", "off", "final"} => f.sem = 1

\* Whether select_waiting of the socket s counts the lwip_select f.
Counts(f, s) ==
  /\ s \in f.rd \union f.wr
  /\ \/ f.at = "enter" /\ s < f.i
     \/ f.at \in {"rescan", "wait"}
     \/ f.at = "leave" /\ s >= f.i

\* The lwip_select f has looked at the socket s after it was counted there.
Past(f, s) == f.at = "wait" \/ (f.at = "rescan" /\ f.ready = FALSE /\ s < f.i)

\* The fields of a socket, and of an event_callback.
SockRec == [rcv : Nat, send : BOOLEAN, waiting : Nat]

WalkRec == [at : {"idle", "walk"}, s : Nat, scb : Threads \union {"none"}, changed : BOOLEAN]

\* The elements of select_cb_list are the threads between Enlist and Unlist.
CbListInv == OnceEach(Threads, select_cb_list, {t \in Threads : OnCbList(sel[t])})

\* select_waiting counts the lwip_selects that wait for the socket.
CountInv == \A s \in Socks : sock[s].waiting = Cardinality({t \in Threads : Counts(sel[t], s)})

\* An event_callback stands on an element of the list, or starts again.
WalkInv(w) ==
  w.at = "walk" =>
    /\ w.s \in Socks
    /\ w.changed = TRUE \/ \E k \in 1 .. Len(select_cb_list) : select_cb_list[k] = w.scb

\* The heart of it: what became ready behind a lwip_select's back is on its
\* way to it.
WakeInv ==
  \A t \in Threads, s \in Socks :
    Past(sel[t], s) /\ sel[t].signalled = FALSE /\ ReadyFor(sel[t], s) =>
      \E c \in Callers : walks[c].at = "walk" /\ walks[c].s = s /\ Ahead(c, t)

\* The invariant.
SelectInv ==
  /\ sel \in [Threads -> SelRec] /\ sock \in [Socks -> SockRec] /\ walks \in [Callers -> WalkRec]
  /\ \A t \in Threads : SelInv(sel[t])
  /\ CbListInv /\ CountInv /\ WakeInv
  /\ \A c \in Callers : WalkInv(walks[c])

\* The values of the constants.
LEMMA SelectValues ==
  ASSUME SelectAssumption
  PROVE  /\ IsFiniteSet(Threads) /\ "none" \notin Threads
         /\ LastSock \in Int /\ Socks = 0 .. LastSock
         /\ \A w \in Wants : w[1] \in SUBSET Socks /\ w[2] \in SUBSET Socks /\ 0 \in Socks
<1>1. Cardinality(Socks) \in Nat /\ IsFiniteSet(Threads) /\ "none" \notin Threads
  BY FS_CardinalityType DEF SelectAssumption
<1>2. LastSock \in Int /\ Socks = 0 .. LastSock
  BY <1>1 DEF SelectAssumption, LastSock
<1>3. ASSUME NEW w \in Wants
      PROVE  w[1] \in SUBSET Socks /\ w[2] \in SUBSET Socks /\ 0 \in Socks
  <2>1. w[1] \union w[2] # {} /\ w[1] \union w[2] \subseteq Socks
    BY DEF SelectAssumption
  <2>2. PICK x \in Socks : TRUE
    BY <2>1
  <2>3. 0 \in Socks
    BY <1>2, <2>2
  <2> QED
    BY <2>1, <2>3
<1> QED
  BY <1>1, <1>2, <1>3

\* A socket that a lwip_select has looked at is counted for it.
LEMMA PastIsCounted ==
  ASSUME NEW f, NEW s, Past(f, s), s \in f.rd \union f.wr
  PROVE  Counts(f, s) /\ OnCbList(f)
BY DEF Past, Counts, OnCbList

\* How many threads wait does not change if each goes on waiting as it did.
LEMMA CountsKept ==
  ASSUME NEW s, \A u \in Threads : Counts(sel'[u], s) <=> Counts(sel[u], s)
  PROVE  {u \in Threads : Counts(sel'[u], s)} = {u \in Threads : Counts(sel[u], s)}
OBVIOUS

\* A step of one lwip_select that touches only its own record: nothing is
\* passed over if it has not looked past a socket that was ready.
LEMMA SelChanges ==
  ASSUME SelectInv, NEW t \in Threads, NEW g, sel' = [sel EXCEPT ![t] = g],
         UNCHANGED <<sock, select_cb_list, walks>>, SelInv(g),
         OnCbList(g) <=> OnCbList(sel[t]),
         \A s \in Socks : Counts(g, s) <=> Counts(sel[t], s),
         \A s \in Socks : Past(g, s) /\ g.signalled = FALSE /\ ReadyFor(g, s) =>
           Past(sel[t], s) /\ sel[t].signalled = FALSE /\ ReadyFor(sel[t], s)
  PROVE  SelectInv'
<1>1. /\ sel \in [Threads -> SelRec] /\ sock' = sock /\ select_cb_list' = select_cb_list
      /\ walks' = walks
  BY DEF SelectInv
<1>2. sel' \in [Threads -> SelRec] /\ \A u \in Threads : sel'[u] = IF u = t THEN g ELSE sel[u]
  BY <1>1 DEF SelInv
<1>3. \A u \in Threads : SelInv(sel'[u])
  BY <1>2 DEF SelectInv
<1>4. {u \in Threads : OnCbList(sel'[u])} = {u \in Threads : OnCbList(sel[u])}
  BY <1>2
<1>5. CbListInv'
  BY <1>1, <1>4 DEF SelectInv, CbListInv
<1>6. CountInv'
  <2> SUFFICES ASSUME NEW s \in Socks
               PROVE  sock'[s].waiting = Cardinality({u \in Threads : Counts(sel'[u], s)})
    BY DEF CountInv
  <2>1. {u \in Threads : Counts(sel'[u], s)} = {u \in Threads : Counts(sel[u], s)}
    BY <1>2, CountsKept
  <2> QED
    BY <1>1, <2>1 DEF SelectInv, CountInv
<1>7. WakeInv'
  <2> SUFFICES ASSUME NEW u \in Threads, NEW s \in Socks,
                      Past(sel'[u], s), sel'[u].signalled = FALSE, ReadyFor(sel[u], s)'
               PROVE  \E c \in Callers : walks'[c].at = "walk" /\ walks'[c].s = s /\ Ahead(c, u)'
    BY DEF WakeInv
  <2>1. Past(sel[u], s) /\ sel[u].signalled = FALSE /\ ReadyFor(sel[u], s)
    <3>1. ReadyFor(sel'[u], s)
      BY <1>1 DEF ReadyFor
    <3> QED
      BY <1>2, <3>1
  <2>2. PICK c \in Callers : walks[c].at = "walk" /\ walks[c].s = s /\ Ahead(c, u)
    BY <2>1 DEF SelectInv, WakeInv
  <2>3. Ahead(c, u)'
    BY <1>1, <2>2 DEF Ahead
  <2> QED
    BY <1>1, <2>2, <2>3
<1>8. \A c \in Callers : WalkInv(walks[c])'
  BY <1>1 DEF SelectInv, WalkInv
<1> QED
  BY <1>1, <1>2, <1>3, <1>5, <1>6, <1>7, <1>8 DEF SelectInv

\* The fields of a lwip_select.
LEMMA SelFields ==
  ASSUME SelectInv, NEW t \in Threads
  PROVE  /\ SelInv(sel[t]) /\ sel[t] \in SelRec /\ sel[t].i \in Nat /\ sel[t].at \in SelAts
         /\ sel[t].rd \in SUBSET Socks /\ sel[t].wr \in SUBSET Socks /\ sel[t].sem \in {0, 1}
         /\ sel[t].ready \in BOOLEAN /\ sel[t].signalled \in BOOLEAN
         /\ (sel[t].at # "idle" => sel[t].i \in Socks)
<1>1. SelInv(sel[t]) /\ sel[t] \in SelRec
  BY DEF SelectInv, SelInv
<1>2. /\ sel[t].i \in Nat /\ sel[t].at \in SelAts /\ sel[t].rd \in SUBSET Socks /\ sel[t].wr \in SUBSET Socks
      /\ sel[t].sem \in {0, 1}
  BY <1>1 DEF SelRec
<1>3. sel[t].ready \in BOOLEAN /\ sel[t].signalled \in BOOLEAN
  BY <1>1, Zenon DEF SelRec
<1>4. sel[t].at # "idle" => sel[t].i \in Socks
  BY <1>1 DEF SelInv
<1> QED
  BY <1>1, <1>2, <1>3, <1>4, Zenon

\* A lwip_select that is not running.
LEMMA NoSelIs ==
  /\ NoSel \in SelRec /\ NoSel.at = "idle" /\ NoSel.i = 0 /\ NoSel.sem = 0
  /\ NoSel.signalled = FALSE
<1>1. NoSel.at = "idle" /\ NoSel.i = 0 /\ NoSel.sem = 0
  BY DEF NoSel
<1>2. NoSel.signalled = FALSE
  BY Zenon DEF NoSel
<1>3. 0 \in Nat
  OBVIOUS
<1>4. NoSel \in SelRec
  BY <1>3, Zenon DEF NoSel, SelRec, SelAts
<1> QED
  BY <1>1, <1>2, <1>4, Zenon

\* lwip_select begins.
LEMMA SelectBegins ==
  ASSUME SelectAssumption, SelectInv, NEW t \in Threads, lwip_select(t)
  PROVE  SelectInv'
<1>1. PICK w \in Wants :
           sel' = [sel EXCEPT ![t] = [NoSel EXCEPT !.at = "scan", !.rd = w[1], !.wr = w[2]]]
  BY DEF lwip_select
<1> DEFINE g == [NoSel EXCEPT !.at = "scan", !.rd = w[1], !.wr = w[2]]
<1>3. w[1] \in SUBSET Socks /\ w[2] \in SUBSET Socks /\ 0 \in Socks
  BY SelectValues
<1>4. sel[t].at = "idle" /\ UNCHANGED <<sock, select_cb_list, walks>>
  BY DEF lwip_select
<1>5. g \in SelRec
  BY <1>3, NoSelIs, Zenon DEF SelRec, SelAts
<1>6. g.at = "scan" /\ g.i = 0 /\ g.sem = 0
  BY NoSelIs DEF SelRec
<1>7. g.signalled = FALSE
  BY NoSelIs, Zenon DEF SelRec
<1> HIDE DEF g
<1>8. SelInv(g)
  BY <1>3, <1>5, <1>6, <1>7 DEF SelInv
<1>9. OnCbList(g) <=> OnCbList(sel[t])
  BY <1>4, <1>6 DEF OnCbList
<1>10. \A s \in Socks : (Counts(g, s) <=> Counts(sel[t], s)) /\ ~ Past(g, s)
  BY <1>4, <1>6 DEF Counts, Past
<1> QED
  BY <1>1, <1>4, <1>8, <1>9, <1>10, SelChanges DEF g

\* A lwip_select whose place, index, answer and semaphore have changed.
SelAt(f, a, i, r, m) == [f EXCEPT !.at = a, !.i = i, !.ready = r, !.sem = m]

SelIsAt(g, f, a, i, r, m) ==
  /\ g \in SelRec /\ g.at = a /\ g.i = i /\ g.rd = f.rd /\ g.wr = f.wr
  /\ g.ready = r /\ g.sem = m /\ g.signalled = f.signalled

LEMMA SelMoved ==
  ASSUME NEW f \in SelRec, NEW a \in SelAts, NEW i \in Nat, NEW r \in BOOLEAN, NEW m \in {0, 1}
  PROVE  SelIsAt(SelAt(f, a, i, r, m), f, a, i, r, m)
<1> DEFINE g == SelAt(f, a, i, r, m)
<1>1. g.at = a /\ g.i = i /\ g.rd = f.rd /\ g.wr = f.wr /\ g.sem = m
  BY DEF SelRec, SelAt
<1>2. g.ready = r /\ g.signalled = f.signalled
  BY Zenon DEF SelRec, SelAt
<1>3. g \in SelRec
  BY Zenon DEF SelRec, SelAt
<1> HIDE DEF g
<1>4. SelIsAt(g, f, a, i, r, m)
  BY <1>1, <1>2, <1>3, Zenon DEF SelIsAt
<1> QED
  BY <1>4 DEF g

\* Whether a lwip_select's record is one it may have depends on few fields.
LEMMA SelInvOf ==
  ASSUME NEW f, SelInv(f), NEW g \in SelRec, g.i \in Socks, 0 \in Socks,
         g.signalled = f.signalled,
         g.at \in {"list", "wait", "off"} => g.i = 0,
         \/ g.sem = f.sem /\ (f.at \in {"leave", "off", "final"} => g.at \in {"leave", "off", "final"})
         \/ g.sem = 0 /\ g.at \in {"leave", "off", "final"}
  PROVE  SelInv(g)
<1>1. g.sem = 1 => g.signalled = TRUE
  BY DEF SelInv
<1>2. g.signalled = TRUE /\ g.at \notin {"leave", "off", "final"} => g.sem = 1
  BY DEF SelInv
<1> QED
  BY <1>1, <1>2 DEF SelInv

\* One iteration of lwip_selscan.
LEMMA Scans ==
  ASSUME SelectAssumption, SelectInv, NEW t \in Threads, lwip_selscan(t)
  PROVE  SelectInv'
<1> DEFINE f == sel[t]
           ready == f.ready \/ ReadyFor(f, f.i)
<1>1. /\ SelInv(f) /\ f \in SelRec /\ f.at \in SelAts /\ f.i \in Nat /\ f.rd \in SUBSET Socks
      /\ f.wr \in SUBSET Socks /\ f.sem \in {0, 1} /\ (f.at # "idle" => f.i \in Socks)
  BY SelFields
<1>2. f.ready \in BOOLEAN /\ f.signalled \in BOOLEAN /\ ready \in BOOLEAN
  BY SelFields, Zenon
<1>3. f.at \in {"scan", "rescan", "final"} /\ UNCHANGED <<sock, select_cb_list, walks>>
  BY DEF lwip_selscan
<1>4. LastSock \in Int /\ Socks = 0 .. LastSock /\ f.i \in Socks /\ 0 \in Socks
  BY <1>1, <1>3, SelectValues
<1>5. \A s \in Socks : ready = FALSE /\ ReadyFor(f, s) => s # f.i /\ f.ready = FALSE
  BY <1>2
<1>6. sel \in [Threads -> SelRec]
  BY DEF SelectInv
<1> HIDE DEF ready
<1>7. CASE f.i < LastSock
  <2> DEFINE g == SelAt(f, f.at, f.i + 1, ready, f.sem)
  <2>1. f.i + 1 \in Nat /\ f.i + 1 \in Socks
    BY <1>4, <1>7
  <2>2. /\ g \in SelRec /\ g.at = f.at /\ g.i = f.i + 1 /\ g.rd = f.rd /\ g.wr = f.wr
        /\ g.ready = ready /\ g.sem = f.sem /\ g.signalled = f.signalled
    <3>1. SelIsAt(g, f, f.at, f.i + 1, ready, f.sem)
      BY <1>1, <1>2, <2>1, SelMoved
    <3> QED
      BY <3>1 DEF SelIsAt
  <2>3. sel' = [sel EXCEPT ![t] = g]
    <3>1. sel' = [sel EXCEPT ![t].i = @ + 1, ![t].ready = ready]
      BY <1>7 DEF lwip_selscan, ready
    <3>2. [sel[t] EXCEPT !.i = @ + 1, !.ready = ready] = g
      BY <1>1 DEF SelRec, SelAt
    <3> QED
      BY <1>6, <3>1, <3>2
  <2> HIDE DEF g
  <2>4. SelInv(g)
    BY <1>1, <1>3, <1>4, <2>1, <2>2, SelInvOf
  <2>5. OnCbList(g) <=> OnCbList(f)
    BY <2>2 DEF OnCbList
  <2>6. \A s \in Socks : Counts(g, s) <=> Counts(f, s)
    BY <1>3, <2>2 DEF Counts
  <2>7. \A s \in Socks : Past(g, s) /\ g.signalled = FALSE /\ ReadyFor(g, s) =>
           Past(f, s) /\ f.signalled = FALSE /\ ReadyFor(f, s)
    <3> SUFFICES ASSUME NEW s \in Socks, Past(g, s), g.signalled = FALSE, ReadyFor(g, s)
                 PROVE  Past(f, s) /\ f.signalled = FALSE /\ ReadyFor(f, s)
      OBVIOUS
    <3>1. ReadyFor(f, s) /\ f.signalled = FALSE
      BY <2>2 DEF ReadyFor
    <3>2. f.at = "rescan" /\ ready = FALSE /\ s < f.i + 1
      BY <1>3, <2>2 DEF Past
    <3>3. s # f.i /\ f.ready = FALSE
      BY <1>5, <3>1, <3>2
    <3> QED
      BY <1>1, <1>4, <3>1, <3>2, <3>3 DEF Past
  <2> QED
    BY <1>3, <2>3, <2>4, <2>5, <2>6, <2>7, SelChanges
<1>8. CASE ~(f.i < LastSock)
  <2>1. f.i = LastSock
    BY <1>4, <1>8
  <2>2. \/ f.at = "scan" /\ sel' = [sel EXCEPT ![t] = [f EXCEPT !.at = "list", !.i = 0]]
        \/ f.at = "rescan" /\ ready = FALSE /\ sel' = [sel EXCEPT ![t] = [f EXCEPT !.at = "wait", !.i = 0]]
        \/ f.at = "rescan" /\ sel' = [sel EXCEPT ![t] = [f EXCEPT !.at = "leave", !.i = 0]]
        \/ f.at \in {"scan", "final"} /\ sel' = [sel EXCEPT ![t] = NoSel]
    BY <1>2, <1>8 DEF lwip_selscan, ready
  <2>3. ASSUME NEW a \in {"list", "wait", "leave"},
               sel' = [sel EXCEPT ![t] = [f EXCEPT !.at = a, !.i = 0]],
               \/ f.at = "scan" /\ a = "list"
               \/ f.at = "rescan" /\ a = "leave"
               \/ f.at = "rescan" /\ a = "wait" /\ ready = FALSE
        PROVE  SelectInv'
    <3> DEFINE g == SelAt(f, a, 0, f.ready, f.sem)
    <3>1. /\ g \in SelRec /\ g.at = a /\ g.i = 0 /\ g.rd = f.rd /\ g.wr = f.wr
          /\ g.ready = f.ready /\ g.sem = f.sem /\ g.signalled = f.signalled
      <4>1. a \in SelAts /\ 0 \in Nat
        BY DEF SelAts
      <4>2. SelIsAt(g, f, a, 0, f.ready, f.sem)
        BY <1>1, <1>2, <4>1, SelMoved
      <4> QED
        BY <4>2 DEF SelIsAt
    <3>2. sel' = [sel EXCEPT ![t] = g]
      <4>1. [f EXCEPT !.at = a, !.i = 0] = g
        BY <1>1 DEF SelRec, SelAt
      <4> QED
        BY <2>3, <4>1
    <3> HIDE DEF g
    <3>3. SelInv(g)
      <4>1. g.i \in Socks /\ 0 \in Socks
        BY <1>4, <3>1
      <4> QED
        BY <1>1, <1>3, <2>3, <3>1, <4>1, SelInvOf
    <3>4. OnCbList(g) <=> OnCbList(f)
      BY <2>3, <3>1 DEF OnCbList
    <3>5. \A s \in Socks : Counts(g, s) <=> Counts(f, s)
      BY <1>4, <2>3, <3>1 DEF Counts
    <3>6. \A s \in Socks : Past(g, s) /\ g.signalled = FALSE /\ ReadyFor(g, s) =>
             Past(f, s) /\ f.signalled = FALSE /\ ReadyFor(f, s)
      <4> SUFFICES ASSUME NEW s \in Socks, Past(g, s), g.signalled = FALSE, ReadyFor(g, s)
                   PROVE  Past(f, s) /\ f.signalled = FALSE /\ ReadyFor(f, s)
        OBVIOUS
      <4>1. ReadyFor(f, s) /\ f.signalled = FALSE
        BY <3>1 DEF ReadyFor
      <4>2. f.at = "rescan" /\ ready = FALSE
        BY <2>3, <3>1 DEF Past
      <4>3. s # f.i /\ f.ready = FALSE
        BY <1>5, <4>1, <4>2
      <4>4. s < f.i
        BY <1>4, <2>1, <4>3
      <4> QED
        BY <4>1, <4>2, <4>3, <4>4 DEF Past
    <3> QED
      BY <1>3, <3>2, <3>3, <3>4, <3>5, <3>6, SelChanges
  <2>4. ASSUME f.at \in {"scan", "final"}, sel' = [sel EXCEPT ![t] = NoSel]
        PROVE  SelectInv'
    <3>1. SelInv(NoSel)
      BY NoSelIs DEF SelInv
    <3>2. OnCbList(NoSel) <=> OnCbList(f)
      BY <2>4, NoSelIs DEF OnCbList
    <3>3. \A s \in Socks : (Counts(NoSel, s) <=> Counts(f, s)) /\ ~ Past(NoSel, s)
      BY <2>4, NoSelIs DEF Counts, Past
    <3> QED
      BY <1>3, <2>4, <3>1, <3>2, <3>3, SelChanges
  <2> HIDE DEF f
  <2> QED
    BY <2>2, <2>3, <2>4
<1> QED
  BY <1>7, <1>8

\* The wait ends, because of a signal or of a timeout.
LEMMA StopsWaiting ==
  ASSUME SelectAssumption, SelectInv, NEW t \in Threads, Woken(t) \/ SelectTimeout(t)
  PROVE  SelectInv'
<1> DEFINE f == sel[t]
<1>1. /\ SelInv(f) /\ f \in SelRec /\ f.at \in SelAts /\ f.i \in Nat /\ f.sem \in {0, 1} /\ f.at = "wait" /\ f.i = 0
      /\ f.i \in Socks
  BY SelFields DEF Woken, SelectTimeout, SelInv
<1>2. f.ready \in BOOLEAN
  BY SelFields, Zenon
<1>3. UNCHANGED <<sock, select_cb_list, walks>> /\ sel \in [Threads -> SelRec]
  BY DEF Woken, SelectTimeout, SelectInv
<1>4. \E m \in {0, f.sem} : sel' = [sel EXCEPT ![t] = [f EXCEPT !.at = "leave", !.sem = m]]
  <2>1. CASE Woken(t)
    <3>1. f.sem = 1 /\ sel' = [sel EXCEPT ![t].at = "leave", ![t].sem = @ - 1]
      BY <1>1, <2>1 DEF Woken
    <3>2. [f EXCEPT !.at = "leave", !.sem = @ - 1] = [f EXCEPT !.at = "leave", !.sem = 0]
      BY <1>1, <3>1 DEF SelRec
    <3> QED
      BY <1>3, <3>1, <3>2
  <2>2. CASE SelectTimeout(t)
    <3>1. sel' = [sel EXCEPT ![t].at = "leave"]
      BY <2>2 DEF SelectTimeout
    <3>2. [f EXCEPT !.at = "leave"] = [f EXCEPT !.at = "leave", !.sem = f.sem]
      BY <1>1 DEF SelRec
    <3> QED
      BY <1>3, <3>1, <3>2
  <2> QED
    BY <2>1, <2>2
<1>5. PICK m \in {0, f.sem} : sel' = [sel EXCEPT ![t] = [f EXCEPT !.at = "leave", !.sem = m]]
  BY <1>4
<1> DEFINE g == SelAt(f, "leave", 0, f.ready, m)
<1>6. /\ g \in SelRec /\ g.at = "leave" /\ g.i = 0 /\ g.rd = f.rd /\ g.wr = f.wr
      /\ g.sem = m /\ g.signalled = f.signalled
  <2>1. "leave" \in SelAts /\ 0 \in Nat /\ m \in {0, 1}
    BY <1>1 DEF SelAts
  <2>2. SelIsAt(g, f, "leave", 0, f.ready, m)
    BY <1>1, <1>2, <2>1, SelMoved
  <2> QED
    BY <2>2 DEF SelIsAt
<1>7. sel' = [sel EXCEPT ![t] = g]
  <2>1. [f EXCEPT !.at = "leave", !.sem = m] = g
    BY <1>1 DEF SelRec, SelAt
  <2> QED
    BY <1>5, <2>1
<1> HIDE DEF g
<1>8. SelInv(g)
  BY <1>1, <1>6, SelInvOf
<1>9. OnCbList(g) <=> OnCbList(f)
  BY <1>1, <1>6 DEF OnCbList
<1>10. \A s \in Socks : (Counts(g, s) <=> Counts(f, s)) /\ ~ Past(g, s)
  BY <1>1, <1>6, SelectValues DEF Counts, Past
<1> QED
  BY <1>3, <1>7, <1>8, <1>9, <1>10, SelChanges

\* Every walk starts again after a change of the list.
LEMMA AllStartAgain ==
  ASSUME SelectInv, Counted
  PROVE  /\ walks' \in [Callers -> WalkRec]
         /\ \A c \in Callers : walks[c].at = "walk" =>
              walks'[c].at = "walk" /\ walks'[c].s = walks[c].s /\ walks'[c].changed = TRUE
         /\ \A c \in Callers : walks'[c].at = "walk" =>
              walks'[c].s = walks[c].s /\ walks[c].at = "walk" /\ walks'[c].changed = TRUE
<1>1. walks \in [Callers -> WalkRec]
  BY DEF SelectInv
<1>2. walks' = [c \in Callers |-> [walks[c] EXCEPT !.changed = walks[c].at = "walk"]]
  BY DEF Counted
<1>3. ASSUME NEW c \in Callers
      PROVE  /\ walks'[c] \in WalkRec /\ walks'[c].at = walks[c].at /\ walks'[c].s = walks[c].s
             /\ (walks[c].at = "walk" => walks'[c].changed = TRUE)
  <2>1. walks'[c] = [walks[c] EXCEPT !.changed = walks[c].at = "walk"] /\ walks[c] \in WalkRec
    BY <1>1, <1>2
  <2>2. walks'[c] \in WalkRec
    BY <2>1, Zenon DEF WalkRec
  <2>3. walks'[c].at = walks[c].at /\ walks'[c].s = walks[c].s
    BY <2>1 DEF WalkRec
  <2>4. walks[c].at = "walk" => walks'[c].changed = TRUE
    BY <2>1, Zenon DEF WalkRec
  <2> QED
    BY <2>2, <2>3, <2>4
<1> QED
  BY <1>2, <1>3

\* A lwip_select goes on the list, or off it.
LEMMA ListChanges ==
  ASSUME SelectInv, NEW t \in Threads, NEW g, sel' = [sel EXCEPT ![t] = g], SelInv(g),
         sock' = sock, Counted, CbListInv',
         \A s \in Socks : (Counts(g, s) <=> Counts(sel[t], s)) /\ ~ Past(g, s)
  PROVE  SelectInv'
<1>1. sel \in [Threads -> SelRec] /\ sock \in [Socks -> SockRec]
  BY DEF SelectInv
<1>2. sel' \in [Threads -> SelRec] /\ \A u \in Threads : sel'[u] = IF u = t THEN g ELSE sel[u]
  BY <1>1 DEF SelInv
<1>3. \A u \in Threads : SelInv(sel'[u])
  BY <1>2 DEF SelectInv
<1>4. CountInv'
  <2> SUFFICES ASSUME NEW s \in Socks
               PROVE  sock'[s].waiting = Cardinality({u \in Threads : Counts(sel'[u], s)})
    BY DEF CountInv
  <2>1. {u \in Threads : Counts(sel'[u], s)} = {u \in Threads : Counts(sel[u], s)}
    BY <1>2, CountsKept
  <2> QED
    BY <2>1 DEF SelectInv, CountInv
<1>5. WakeInv'
  <2> SUFFICES ASSUME NEW u \in Threads, NEW s \in Socks,
                      Past(sel'[u], s), sel'[u].signalled = FALSE, ReadyFor(sel[u], s)'
               PROVE  \E c \in Callers : walks'[c].at = "walk" /\ walks'[c].s = s /\ Ahead(c, u)'
    BY DEF WakeInv
  <2>1. u # t /\ sel'[u] = sel[u]
    BY <1>2
  <2>2. Past(sel[u], s) /\ sel[u].signalled = FALSE /\ ReadyFor(sel[u], s)
    BY <2>1 DEF ReadyFor
  <2>3. PICK c \in Callers : walks[c].at = "walk" /\ walks[c].s = s
    BY <2>2 DEF SelectInv, WakeInv
  <2>4. walks'[c].at = "walk" /\ walks'[c].s = s /\ walks'[c].changed = TRUE
    BY <2>3, AllStartAgain
  <2>5. Ahead(c, u)'
    BY <2>4 DEF Ahead
  <2> QED
    BY <2>4, <2>5
<1>6. \A c \in Callers : WalkInv(walks[c])'
  BY AllStartAgain DEF SelectInv, WalkInv
<1> QED
  BY <1>1, <1>2, <1>3, <1>4, <1>5, <1>6, AllStartAgain DEF SelectInv

\* lwip_select puts itself on top of the list.
LEMMA Enlists ==
  ASSUME SelectAssumption, SelectInv, NEW t \in Threads, Enlist(t)
  PROVE  SelectInv'
<1> DEFINE f == sel[t]
           g == SelAt(f, "enter", f.i, f.ready, f.sem)
<1>1. /\ SelInv(f) /\ f \in SelRec /\ f.i \in Nat /\ f.sem \in {0, 1} /\ f.at = "list" /\ f.i = 0
      /\ f.i \in Socks /\ "enter" \in SelAts
  BY SelFields DEF Enlist, SelInv, SelAts
<1>2. f.ready \in BOOLEAN
  BY SelFields, Zenon
<1>3. /\ sel' = [sel EXCEPT ![t].at = "enter"] /\ sel \in [Threads -> SelRec] /\ Counted
      /\ sock' = sock /\ select_cb_list' = <<t>> \o select_cb_list
  BY DEF Enlist, SelectInv
<1>4. sel' = [sel EXCEPT ![t] = g]
  <2>1. [f EXCEPT !.at = "enter"] = g
    BY <1>1 DEF SelRec, SelAt
  <2> QED
    BY <1>3, <2>1
<1>5. /\ g \in SelRec /\ g.at = "enter" /\ g.i = 0 /\ g.rd = f.rd /\ g.wr = f.wr
      /\ g.sem = f.sem /\ g.signalled = f.signalled
  <2>1. SelIsAt(g, f, "enter", f.i, f.ready, f.sem)
    BY <1>1, <1>2, SelMoved
  <2> QED
    BY <1>1, <2>1 DEF SelIsAt
<1> HIDE DEF g
<1>6. SelInv(g)
  BY <1>1, <1>5, SelInvOf
<1>7. \A s \in Socks : (Counts(g, s) <=> Counts(f, s)) /\ ~ Past(g, s)
  BY <1>1, <1>5, SelectValues DEF Counts, Past
<1>8. CbListInv'
  <2>1. \A u \in Threads : sel'[u] = IF u = t THEN g ELSE sel[u]
    BY <1>3, <1>4
  <2> DEFINE S == {u \in Threads : OnCbList(sel[u])}
  <2>2. {u \in Threads : OnCbList(sel'[u])} = S \union {t} /\ t \notin S
    BY <1>1, <1>5, <2>1 DEF OnCbList
  <2>3. OnceEach(Threads, select_cb_list, S)
    BY DEF SelectInv, CbListInv
  <2> HIDE DEF S
  <2>4. OnceEach(Threads, <<t>> \o select_cb_list, S \union {t})
    BY <2>2, <2>3, PutInFront
  <2> QED
    BY <1>3, <2>2, <2>4 DEF CbListInv
<1> QED
  BY <1>3, <1>4, <1>6, <1>7, <1>8, ListChanges

\* Where a lwip_select is on the list.
LEMMA PlaceOf ==
  ASSUME SelectInv, NEW t, NEW k \in 1 .. Len(select_cb_list), select_cb_list[k] = t
  PROVE  Place(select_cb_list, t) = k
<1>1. \A j \in 1 .. Len(select_cb_list) : select_cb_list[j] = t => j = k
  BY DEF SelectInv, CbListInv, OnceEach
<1> QED
  BY <1>1 DEF Place

\* The threads that are on the list.
LEMMA OnTheList ==
  ASSUME SelectInv
  PROVE  /\ select_cb_list \in Seq(Threads) /\ Len(select_cb_list) \in Nat
         /\ \A k \in 1 .. Len(select_cb_list) :
              select_cb_list[k] \in Threads /\ OnCbList(sel[select_cb_list[k]])
         /\ \A t \in Threads : OnCbList(sel[t]) =>
              \E k \in 1 .. Len(select_cb_list) : select_cb_list[k] = t
BY DEF SelectInv, CbListInv, OnceEach

\* lwip_select takes itself off the list.
LEMMA Unlists ==
  ASSUME SelectAssumption, SelectInv, NEW t \in Threads, Unlist(t)
  PROVE  SelectInv'
<1> DEFINE f == sel[t]
           g == SelAt(f, "final", f.i, f.ready, f.sem)
<1>1. /\ SelInv(f) /\ f \in SelRec /\ f.i \in Nat /\ f.sem \in {0, 1} /\ f.at = "off" /\ f.i = 0
      /\ f.i \in Socks /\ "final" \in SelAts
  BY SelFields DEF Unlist, SelInv, SelAts
<1>2. f.ready \in BOOLEAN
  BY SelFields, Zenon
<1>3. /\ sel' = [sel EXCEPT ![t].at = "final"] /\ sel \in [Threads -> SelRec] /\ Counted
      /\ sock' = sock /\ select_cb_list' = RemoveAt(select_cb_list, Place(select_cb_list, t))
  BY DEF Unlist, SelectInv
<1>4. sel' = [sel EXCEPT ![t] = g]
  <2>1. [f EXCEPT !.at = "final"] = g
    BY <1>1 DEF SelRec, SelAt
  <2> QED
    BY <1>3, <2>1
<1>5. /\ g \in SelRec /\ g.at = "final" /\ g.i = 0 /\ g.rd = f.rd /\ g.wr = f.wr
      /\ g.sem = f.sem /\ g.signalled = f.signalled
  <2>1. SelIsAt(g, f, "final", f.i, f.ready, f.sem)
    BY <1>1, <1>2, SelMoved
  <2> QED
    BY <1>1, <2>1 DEF SelIsAt
<1> HIDE DEF g
<1>6. SelInv(g)
  BY <1>1, <1>5, SelInvOf
<1>7. \A s \in Socks : (Counts(g, s) <=> Counts(f, s)) /\ ~ Past(g, s)
  BY <1>1, <1>5 DEF Counts, Past
<1>8. CbListInv'
  <2>1. \A u \in Threads : sel'[u] = IF u = t THEN g ELSE sel[u]
    BY <1>3, <1>4
  <2> DEFINE S == {u \in Threads : OnCbList(sel[u])}
  <2>2. {u \in Threads : OnCbList(sel'[u])} = S \ {t} /\ t \in S
    BY <1>1, <1>5, <2>1 DEF OnCbList
  <2>3. OnceEach(Threads, select_cb_list, S)
    BY DEF SelectInv, CbListInv
  <2>4. PICK k \in 1 .. Len(select_cb_list) : select_cb_list[k] = t
    BY <2>2, OnTheList
  <2>5. Place(select_cb_list, t) = k
    BY <2>4, PlaceOf
  <2> HIDE DEF S
  <2>6. OnceEach(Threads, RemoveAt(select_cb_list, k), S \ {select_cb_list[k]})
    BY <2>3, TakenOut
  <2> QED
    BY <1>3, <2>2, <2>4, <2>5, <2>6 DEF CbListInv
<1> QED
  BY <1>3, <1>4, <1>6, <1>7, <1>8, ListChanges

\* The number of threads that wait, when one more or one fewer does.
LEMMA CountChanges ==
  ASSUME SelectAssumption, SelectInv, NEW t \in Threads, NEW g, NEW s \in Socks,
         \A u \in Threads : sel'[u] = IF u = t THEN g ELSE sel[u]
  PROVE  LET n == Cardinality({u \in Threads : Counts(sel'[u], s)})
         IN /\ n \in Nat
            /\ Counts(g, s) /\ ~ Counts(sel[t], s) => n = sock[s].waiting + 1
            /\ Counts(sel[t], s) /\ ~ Counts(g, s) => n = sock[s].waiting - 1
            /\ (Counts(sel[t], s) <=> Counts(g, s)) => n = sock[s].waiting
<1> DEFINE A == {u \in Threads : Counts(sel[u], s)}
           B == {u \in Threads : Counts(sel'[u], s)}
<1>1. sock[s].waiting = Cardinality(A)
  BY DEF SelectInv, CountInv
<1>2. IsFiniteSet(A) /\ IsFiniteSet(B)
  BY SelectValues, FS_Subset
<1>3. Cardinality(A) \in Nat /\ Cardinality(B) \in Nat
  BY <1>2, FS_CardinalityType
<1>4. ASSUME Counts(g, s), ~ Counts(sel[t], s)
      PROVE  Cardinality(B) = Cardinality(A) + 1
  <2>1. B = A \union {t} /\ t \notin A
    BY <1>4
  <2> HIDE DEF A, B
  <2> QED
    BY <1>2, <2>1, FS_AddElement
<1>5. ASSUME Counts(sel[t], s), ~ Counts(g, s)
      PROVE  Cardinality(B) = Cardinality(A) - 1
  <2>1. B = A \ {t} /\ t \in A
    BY <1>5
  <2> HIDE DEF A, B
  <2> QED
    BY <1>2, <2>1, FS_RemoveElement
<1>6. ASSUME Counts(sel[t], s) <=> Counts(g, s)
      PROVE  B = A
  BY <1>6
<1> HIDE DEF A
<1> QED
  BY <1>1, <1>3, <1>4, <1>5, <1>6

\* select_waiting of one socket of a lwip_select is increased or decreased.
LEMMA WaitingChanges ==
  ASSUME SelectAssumption, SelectInv, NEW t \in Threads, NEW g, sel' = [sel EXCEPT ![t] = g],
         SelInv(g), UNCHANGED <<select_cb_list, walks>>, NEW d \in {1, -1},
         LET i == sel[t].i
         IN sock' = IF i \in sel[t].rd \union sel[t].wr
                    THEN [sock EXCEPT ![i].waiting = @ + d] ELSE sock,
         sel[t].i \in Socks, OnCbList(g) <=> OnCbList(sel[t]), g.rd = sel[t].rd, g.wr = sel[t].wr,
         \A s \in Socks : ~ Past(g, s),
         \A s \in Socks : s # sel[t].i => (Counts(g, s) <=> Counts(sel[t], s)),
         d = 1 => ~ Counts(sel[t], sel[t].i) /\ (sel[t].i \in g.rd \union g.wr => Counts(g, sel[t].i)),
         d = -1 => (sel[t].i \in g.rd \union g.wr => Counts(sel[t], sel[t].i)) /\ ~ Counts(g, sel[t].i)
  PROVE  SelectInv'
<1> DEFINE i == sel[t].i
<1>1. /\ sel \in [Threads -> SelRec] /\ sock \in [Socks -> SockRec]
      /\ select_cb_list' = select_cb_list /\ walks' = walks
  BY DEF SelectInv
<1>2. sel' \in [Threads -> SelRec] /\ \A u \in Threads : sel'[u] = IF u = t THEN g ELSE sel[u]
  BY <1>1 DEF SelInv
<1>3. \A u \in Threads : SelInv(sel'[u])
  BY <1>2 DEF SelectInv
<1>4. {u \in Threads : OnCbList(sel'[u])} = {u \in Threads : OnCbList(sel[u])}
  BY <1>2
<1>5. CbListInv'
  BY <1>1, <1>4 DEF SelectInv, CbListInv
<1>6. ASSUME NEW s \in Socks
      PROVE  /\ sock'[s].rcv = sock[s].rcv
             /\ sock'[s].waiting = IF s = i /\ i \in sel[t].rd \union sel[t].wr
                                   THEN sock[s].waiting + d ELSE sock[s].waiting
  BY <1>1 DEF SockRec
<1>7. ASSUME NEW s \in Socks
      PROVE  sock'[s].send = sock[s].send
  BY <1>1, Zenon DEF SockRec
<1>8. ASSUME NEW s \in Socks
      PROVE  /\ sock'[s].waiting = Cardinality({u \in Threads : Counts(sel'[u], s)})
             /\ sock'[s].waiting \in Nat
  <2> DEFINE n == Cardinality({u \in Threads : Counts(sel'[u], s)})
  <2>1. /\ n \in Nat
        /\ Counts(g, s) /\ ~ Counts(sel[t], s) => n = sock[s].waiting + 1
        /\ Counts(sel[t], s) /\ ~ Counts(g, s) => n = sock[s].waiting - 1
        /\ (Counts(sel[t], s) <=> Counts(g, s)) => n = sock[s].waiting
    BY <1>2, CountChanges
  <2> HIDE DEF n
  <2>2. CASE s # i
    BY <1>6, <2>1, <2>2 DEF n
  <2>3. CASE s = i /\ i \in sel[t].rd \union sel[t].wr
    <3>1. sock[s].waiting \in Nat
      BY <1>1 DEF SockRec
    <3> QED
      BY <1>6, <2>1, <2>3, <3>1 DEF n
  <2>4. CASE s = i /\ i \notin sel[t].rd \union sel[t].wr
    <3>1. ~ Counts(sel[t], s) /\ ~ Counts(g, s)
      BY <2>4 DEF Counts
    <3> QED
      BY <1>6, <2>1, <2>4, <3>1 DEF n
  <2> QED
    BY <2>2, <2>3, <2>4
<1>9. CountInv'
  BY <1>8 DEF CountInv
<1>10. sock' \in [Socks -> SockRec]
  <2>1. ASSUME NEW s \in Socks, NEW m \in Nat
        PROVE  [sock[s] EXCEPT !.waiting = m] \in SockRec
    BY <1>1, Zenon DEF SockRec
  <2>2. CASE i \in sel[t].rd \union sel[t].wr
    <3>1. sock' = [sock EXCEPT ![i] = [sock[i] EXCEPT !.waiting = @ + d]]
      BY <1>1, <2>2
    <3>2. sock[i].waiting + d \in Nat
      <4>1. sock'[i].waiting = sock[i].waiting + d
        BY <1>6, <2>2
      <4>2. sock'[i].waiting \in Nat
        BY <1>8
      <4> QED
        BY <4>1, <4>2
    <3>3. [sock[i] EXCEPT !.waiting = @ + d] \in SockRec
      BY <2>1, <3>2
    <3> QED
      BY <1>1, <3>1, <3>3
  <2>3. CASE i \notin sel[t].rd \union sel[t].wr
    BY <1>1, <2>3
  <2> QED
    BY <2>2, <2>3
<1>11. WakeInv'
  <2> SUFFICES ASSUME NEW u \in Threads, NEW s \in Socks,
                      Past(sel'[u], s), sel'[u].signalled = FALSE, ReadyFor(sel[u], s)'
               PROVE  \E c \in Callers : walks'[c].at = "walk" /\ walks'[c].s = s /\ Ahead(c, u)'
    BY DEF WakeInv
  <2>1. u # t /\ sel'[u] = sel[u]
    BY <1>2
  <2>2. Past(sel[u], s) /\ sel[u].signalled = FALSE
    BY <2>1
  <2>3. ReadyFor(sel[u], s)
    BY <1>6, <1>7, <2>1 DEF ReadyFor
  <2>4. PICK c \in Callers : walks[c].at = "walk" /\ walks[c].s = s /\ Ahead(c, u)
    BY <2>2, <2>3 DEF SelectInv, WakeInv
  <2>5. Ahead(c, u)'
    BY <1>1, <2>4 DEF Ahead
  <2> QED
    BY <1>1, <2>4, <2>5
<1>12. \A c \in Callers : WalkInv(walks[c])'
  BY <1>1 DEF SelectInv, WalkInv
<1> QED
  BY <1>1, <1>2, <1>3, <1>5, <1>9, <1>10, <1>11, <1>12 DEF SelectInv

\* Enter and Leave: one socket after the other.
LEMMA EntersAndLeaves ==
  ASSUME SelectAssumption, SelectInv, NEW t \in Threads, Enter(t) \/ Leave(t)
  PROVE  SelectInv'
<1> DEFINE f == sel[t]
<1>1. PICK a \in {"enter", "leave"} :
        LET next == IF a = "enter" THEN "rescan" ELSE "off"
            d == IF a = "enter" THEN 1 ELSE -1
        IN Waiting(t, a, d, next)
  BY DEF Enter, Leave
<1> DEFINE next == IF a = "enter" THEN "rescan" ELSE "off"
           d == IF a = "enter" THEN 1 ELSE -1
<1>2. /\ SelInv(f) /\ f \in SelRec /\ f.i \in Nat /\ f.sem \in {0, 1} /\ f.at = a /\ f.i \in Socks
      /\ f.at \in SelAts
  BY <1>1, SelFields DEF Waiting
<1>3. f.ready \in BOOLEAN
  BY SelFields, Zenon
<1>4. /\ sock' = IF f.i \in f.rd \union f.wr THEN [sock EXCEPT ![f.i].waiting = @ + d] ELSE sock
      /\ UNCHANGED <<select_cb_list, walks>> /\ Step(t, next) /\ sel \in [Threads -> SelRec]
  BY <1>1 DEF Waiting, SelectInv
<1>5. LastSock \in Int /\ Socks = 0 .. LastSock
  BY SelectValues
<1> DEFINE more == f.i < LastSock
           g == IF more THEN SelAt(f, a, f.i + 1, f.ready, f.sem)
                ELSE SelAt(f, next, 0, FALSE, f.sem)
<1>6. sel' = [sel EXCEPT ![t] = g]
  <2>1. sel' = [sel EXCEPT ![t] = IF f.i < LastSock THEN [f EXCEPT !.i = f.i + 1]
                                  ELSE [f EXCEPT !.i = 0, !.at = next, !.ready = FALSE]]
    BY <1>4 DEF Step
  <2>2. [f EXCEPT !.i = f.i + 1] = SelAt(f, a, f.i + 1, f.ready, f.sem)
    BY <1>2 DEF SelAt, SelRec
  <2>3. [f EXCEPT !.i = 0, !.at = next, !.ready = FALSE] = SelAt(f, next, 0, FALSE, f.sem)
    BY <1>2 DEF SelAt, SelRec
  <2> QED
    BY <2>1, <2>2, <2>3
<1>7. /\ g \in SelRec /\ g.rd = f.rd /\ g.wr = f.wr /\ g.sem = f.sem /\ g.signalled = f.signalled
      /\ g.i \in Socks /\ 0 \in Socks
      /\ IF more THEN g.at = a /\ g.i = f.i + 1 ELSE g.at = next /\ g.i = 0
  <2>1. CASE more
    <3>1. f.i + 1 \in Nat /\ f.i + 1 \in Socks /\ 0 \in Socks
      BY <1>2, <1>5, <2>1
    <3>2. SelIsAt(SelAt(f, f.at, f.i + 1, f.ready, f.sem), f, f.at, f.i + 1, f.ready, f.sem)
      BY <1>2, <1>3, <3>1, SelMoved
    <3>3. SelIsAt(g, f, a, f.i + 1, f.ready, f.sem)
      BY <1>2, <2>1, <3>2
    <3> HIDE DEF g
    <3> QED
      BY <2>1, <3>1, <3>3 DEF SelIsAt
  <2>2. CASE ~more
    <3>1. 0 \in Nat /\ 0 \in Socks /\ next \in SelAts
      BY <1>2, <1>5 DEF SelAts
    <3>2. SelIsAt(SelAt(f, next, 0, FALSE, f.sem), f, next, 0, FALSE, f.sem)
      <4> HIDE DEF next
      <4> QED
        BY <1>2, <3>1, SelMoved
    <3>3. SelIsAt(g, f, next, 0, FALSE, f.sem)
      BY <2>2, <3>2
    <3> HIDE DEF g, next
    <3> QED
      BY <2>2, <3>1, <3>3 DEF SelIsAt
  <2> QED
    BY <2>1, <2>2
<1> HIDE DEF g
<1>8. ~more => f.i = LastSock
  BY <1>2, <1>5
<1>9. SelInv(g)
  <2>1. g.at \in {"list", "wait", "off"} => g.i = 0
    BY <1>7
  <2>2. f.at \in {"leave", "off", "final"} => g.at \in {"leave", "off", "final"}
    BY <1>2, <1>7
  <2> QED
    BY <1>2, <1>7, <2>1, <2>2, SelInvOf
<1>10. OnCbList(g) <=> OnCbList(f)
  BY <1>2, <1>7 DEF OnCbList
<1>11. \A s \in Socks : ~ Past(g, s)
  BY <1>2, <1>5, <1>7 DEF Past
<1>12. \A s \in Socks : s # f.i => (Counts(g, s) <=> Counts(f, s))
  BY <1>2, <1>5, <1>7, <1>8 DEF Counts
<1>13. a = "enter" => ~ Counts(f, f.i) /\ (f.i \in g.rd \union g.wr => Counts(g, f.i))
  BY <1>2, <1>5, <1>7, <1>8 DEF Counts
<1>14. a = "leave" => (f.i \in g.rd \union g.wr => Counts(f, f.i)) /\ ~ Counts(g, f.i)
  BY <1>2, <1>5, <1>7, <1>8 DEF Counts
<1>15. d \in {1, -1} /\ (d = 1 => a = "enter") /\ (d = -1 => a = "leave")
  OBVIOUS
<1> HIDE DEF d, next
<1> QED
  BY <1>2, <1>4, <1>6, <1>7, <1>9, <1>10, <1>11, <1>12, <1>13, <1>14, <1>15, WaitingChanges

\* The test of one element: what changes is the record of that thread, and
\* only if it was not signalled and the socket is ready for it.
LEMMA TestedOne ==
  ASSUME SelectInv, NEW t \in Threads, NEW ss, NEW s \in Socks, sel' = Tested(ss, s, t), sock' = ss
  PROVE  /\ sel' \in [Threads -> SelRec]
         /\ \A u \in Threads : SelInv(sel'[u])
         /\ \A u \in Threads : /\ OnCbList(sel'[u]) <=> OnCbList(sel[u])
                               /\ \A x : Counts(sel'[u], x) <=> Counts(sel[u], x)
                               /\ \A x : Past(sel'[u], x) <=> Past(sel[u], x)
                               /\ sel'[u].rd = sel[u].rd /\ sel'[u].wr = sel[u].wr
                               /\ sel'[u].signalled = FALSE => sel[u].signalled = FALSE
         /\ sel'[t].signalled = FALSE => ~ ReadyFor(sel[t], s)'
<1> DEFINE f == sel[t]
           hit == (s \in f.rd /\ ss[s].rcv > 0) \/ (s \in f.wr /\ ss[s].send)
<1>1. /\ SelInv(f) /\ f \in SelRec /\ f.sem \in {0, 1} /\ sel \in [Threads -> SelRec]
      /\ \A u \in Threads : SelInv(sel[u])
  BY SelFields DEF SelectInv
<1>2. f.signalled \in BOOLEAN
  BY SelFields, Zenon
<1>3. CASE f.signalled = FALSE /\ hit
  <2> DEFINE g == [f EXCEPT !.signalled = TRUE, !.sem = 1]
  <2>1. f.sem = 0
    BY <1>1, <1>3 DEF SelInv
  <2>2. sel' = [sel EXCEPT ![t].signalled = TRUE, ![t].sem = @ + 1]
    BY <1>3 DEF Tested
  <2>3. [f EXCEPT !.signalled = TRUE, !.sem = @ + 1] = g
    BY <1>1, <2>1 DEF SelRec
  <2>4. sel' = [sel EXCEPT ![t] = g]
    BY <1>1, <2>2, <2>3
  <2>5. g \in SelRec
    BY <1>1, Zenon DEF SelRec
  <2>6. /\ g.at = f.at /\ g.i = f.i /\ g.rd = f.rd /\ g.wr = f.wr /\ g.ready = f.ready
        /\ g.sem = 1 /\ g.signalled = TRUE
    BY <1>1 DEF SelRec
  <2> HIDE DEF g
  <2>7. SelInv(g)
    BY <1>1, <2>5, <2>6 DEF SelInv
  <2>8. /\ OnCbList(g) <=> OnCbList(f)
        /\ \A x : Counts(g, x) <=> Counts(f, x)
        /\ \A x : Past(g, x) <=> Past(f, x)
    BY <2>6 DEF OnCbList, Counts, Past
  <2>9. \A u \in Threads : sel'[u] = IF u = t THEN g ELSE sel[u]
    BY <1>1, <2>4
  <2>10. sel' \in [Threads -> SelRec]
    BY <1>1, <2>4, <2>5
  <2> QED
    BY <1>1, <2>6, <2>7, <2>8, <2>9, <2>10
<1>4. CASE ~(f.signalled = FALSE /\ hit)
  <2>1. sel' = sel
    BY <1>2, <1>4 DEF Tested
  <2>2. f.signalled = FALSE => ~ ReadyFor(sel[t], s)'
    BY <1>4, <2>1 DEF ReadyFor
  <2> QED
    BY <1>1, <2>1, <2>2
<1> QED
  BY <1>3, <1>4

\* With the sockets as in ss, every lwip_select that is to be woken is ahead
\* of another walk, or of the walk of c for the socket s at its element t.
OnItsWay(c, ss, s, t) ==
  \A u \in Threads, x \in Socks :
    Past(sel[u], x) /\ sel[u].signalled = FALSE
      /\ ((x \in sel[u].rd /\ ss[x].rcv > 0) \/ (x \in sel[u].wr /\ ss[x].send))
    => \/ \E b \in Callers \ {c} : walks[b].at = "walk" /\ walks[b].s = x /\ Ahead(b, u)
       \/ /\ x = s /\ t # "none"
          /\ \/ u = t
             \/ \E j, k \in 1 .. Len(select_cb_list) :
                  select_cb_list[j] = t /\ select_cb_list[k] = u /\ j < k

\* An event_callback looks at the element t of the list, for the socket s.
LEMMA VisitKeeps ==
  ASSUME SelectAssumption, SelectInv, NEW c \in Callers, NEW s \in Socks, NEW ss, NEW t,
         sock' = ss, ss \in [Socks -> SockRec], select_cb_list' = select_cb_list,
         \A x \in Socks : ss[x].waiting = sock[x].waiting,
         Visit(c, ss, s, t),
         t = "none" \/ \E k \in 1 .. Len(select_cb_list) : select_cb_list[k] = t,
         OnItsWay(c, ss, s, t)
  PROVE  SelectInv'
<1>1. /\ sel \in [Threads -> SelRec] /\ walks \in [Callers -> WalkRec] /\ s \in Nat
      /\ "none" \notin Threads
  BY SelectValues DEF SelectInv
<1>2. t # "none" => t \in Threads
  BY OnTheList
<1> DEFINE w == IF t = "none" THEN NoWalk
                ELSE [at |-> "walk", s |-> s, scb |-> t, changed |-> FALSE]
<1>3. walks' = [walks EXCEPT ![c] = w]
  BY DEF Visit
<1>4. w \in WalkRec
  <2>1. NoWalk \in WalkRec
    BY DEF NoWalk, WalkRec
  <2>2. CASE t # "none"
    BY <1>1, <1>2, <2>2 DEF WalkRec
  <2> QED
    BY <2>1, <2>2
<1>5. /\ w.at = "walk" => t # "none" /\ w.s = s /\ w.scb = t
      /\ t # "none" => w.at = "walk" /\ w.s = s /\ w.scb = t
  BY DEF NoWalk
<1> HIDE DEF w
<1>6. /\ walks' \in [Callers -> WalkRec]
      /\ \A b \in Callers : walks'[b] = IF b = c THEN w ELSE walks[b]
  BY <1>1, <1>3, <1>4
<1>7. /\ sel' \in [Threads -> SelRec]
      /\ \A u \in Threads : SelInv(sel'[u])
      /\ \A u \in Threads : /\ OnCbList(sel'[u]) <=> OnCbList(sel[u])
                            /\ \A x : Counts(sel'[u], x) <=> Counts(sel[u], x)
                            /\ \A x : Past(sel'[u], x) <=> Past(sel[u], x)
                            /\ sel'[u].rd = sel[u].rd /\ sel'[u].wr = sel[u].wr
                            /\ sel'[u].signalled = FALSE => sel[u].signalled = FALSE
  <2>1. CASE t = "none"
    <3>1. sel' = sel
      BY <2>1 DEF Visit
    <3> QED
      BY <1>1, <3>1 DEF SelectInv
  <2>2. CASE t # "none"
    <3>1. sel' = Tested(ss, s, t) /\ t \in Threads
      BY <1>2, <2>2 DEF Visit
    <3> QED
      BY <3>1, TestedOne
  <2> QED
    BY <2>1, <2>2
<1>8. t # "none" /\ sel'[t].signalled = FALSE => ~ ReadyFor(sel[t], s)'
  <2> SUFFICES ASSUME t # "none", sel'[t].signalled = FALSE
               PROVE  ~ ReadyFor(sel[t], s)'
    OBVIOUS
  <2>1. sel' = Tested(ss, s, t) /\ t \in Threads
    BY <1>2 DEF Visit
  <2> QED
    BY <2>1, TestedOne
<1>9. CbListInv'
  <2>1. {u \in Threads : OnCbList(sel'[u])} = {u \in Threads : OnCbList(sel[u])}
    BY <1>7
  <2> QED
    BY <2>1 DEF SelectInv, CbListInv
<1>10. CountInv'
  <2> SUFFICES ASSUME NEW x \in Socks
               PROVE  sock'[x].waiting = Cardinality({u \in Threads : Counts(sel'[u], x)})
    BY DEF CountInv
  <2>1. {u \in Threads : Counts(sel'[u], x)} = {u \in Threads : Counts(sel[u], x)}
    BY <1>7, CountsKept
  <2> QED
    BY <2>1 DEF SelectInv, CountInv
<1>11. WakeInv'
  <2> SUFFICES ASSUME NEW u \in Threads, NEW x \in Socks,
                      Past(sel'[u], x), sel'[u].signalled = FALSE, ReadyFor(sel[u], x)'
               PROVE  \E b \in Callers : walks'[b].at = "walk" /\ walks'[b].s = x /\ Ahead(b, u)'
    BY DEF WakeInv
  <2>1. Past(sel[u], x) /\ sel[u].signalled = FALSE
    BY <1>7
  <2>2. (x \in sel[u].rd /\ ss[x].rcv > 0) \/ (x \in sel[u].wr /\ ss[x].send)
    BY <1>7 DEF ReadyFor
  <2>3. CASE \E b \in Callers \ {c} : walks[b].at = "walk" /\ walks[b].s = x /\ Ahead(b, u)
    <3>1. PICK b \in Callers \ {c} : walks[b].at = "walk" /\ walks[b].s = x /\ Ahead(b, u)
      BY <2>3
    <3>2. walks'[b] = walks[b]
      BY <1>6
    <3>3. Ahead(b, u)'
      BY <3>1, <3>2 DEF Ahead
    <3> QED
      BY <3>1, <3>2, <3>3
  <2>4. CASE /\ x = s /\ t # "none"
             /\ \/ u = t
                \/ \E j, k \in 1 .. Len(select_cb_list) :
                     select_cb_list[j] = t /\ select_cb_list[k] = u /\ j < k
    <3>1. u # t
      BY <1>8, <2>4
    <3>2. walks'[c].at = "walk" /\ walks'[c].s = x /\ walks'[c].scb = t
      BY <1>5, <1>6, <2>4
    <3>3. Ahead(c, u)'
      BY <2>4, <3>1, <3>2 DEF Ahead
    <3> QED
      BY <3>2, <3>3
  <2> QED
    BY <2>1, <2>2, <2>3, <2>4 DEF OnItsWay
<1>12. \A b \in Callers : WalkInv(walks[b])'
  BY <1>2, <1>5, <1>6 DEF SelectInv, WalkInv
<1> QED
  BY <1>6, <1>7, <1>9, <1>10, <1>11, <1>12 DEF SelectInv

\* From the head of the list every thread of it is ahead.
LEMMA HeadIsFirst ==
  ASSUME SelectInv, NEW u \in Threads, OnCbList(sel[u])
  PROVE  /\ Head1 \in Threads
         /\ \/ u = Head1
            \/ \E j, k \in 1 .. Len(select_cb_list) :
                 select_cb_list[j] = Head1 /\ select_cb_list[k] = u /\ j < k
<1>1. PICK k \in 1 .. Len(select_cb_list) : select_cb_list[k] = u
  BY OnTheList
<1>2. select_cb_list \in Seq(Threads) /\ Len(select_cb_list) \in Nat
  BY OnTheList
<1>3. select_cb_list # <<>> /\ 1 \in 1 .. Len(select_cb_list)
  BY <1>1, <1>2
<1>4. Head1 = select_cb_list[1] /\ select_cb_list[1] \in Threads
  BY <1>2, <1>3 DEF Head1
<1> QED
  BY <1>1, <1>3, <1>4

\* The head of the list is on it, if there is one.
LEMMA HeadIsOn ==
  ASSUME SelectInv
  PROVE  Head1 = "none" \/ \E k \in 1 .. Len(select_cb_list) : select_cb_list[k] = Head1
<1>1. select_cb_list \in Seq(Threads) /\ Len(select_cb_list) \in Nat
  BY OnTheList
<1>2. CASE select_cb_list # <<>>
  <2>1. 1 \in 1 .. Len(select_cb_list) /\ Head1 = select_cb_list[1]
    BY <1>1, <1>2 DEF Head1
  <2> QED
    BY <2>1
<1> QED
  BY <1>2 DEF Head1

\* A walk goes on.
LEMMA WalksOn ==
  ASSUME SelectAssumption, SelectInv, NEW c \in Callers, Walk(c)
  PROVE  SelectInv'
<1> DEFINE w == walks[c]
           l == select_cb_list
           t == IF w.changed THEN Head1 ELSE After(l, w.scb)
<1>1. /\ Visit(c, sock, w.s, t) /\ sock' = sock /\ l' = l /\ w.at = "walk"
  BY DEF Walk
<1>2. /\ w.s \in Socks /\ (w.changed = TRUE \/ \E k \in 1 .. Len(l) : l[k] = w.scb)
      /\ sock \in [Socks -> SockRec]
  BY <1>1 DEF SelectInv, WalkInv
<1>3. w.changed \in BOOLEAN
  <2>1. w \in WalkRec
    BY DEF SelectInv
  <2> QED
    BY <2>1, Zenon DEF WalkRec
<1>4. l \in Seq(Threads) /\ Len(l) \in Nat /\ "none" \notin Threads
  BY OnTheList, SelectValues
<1>5. ASSUME NEW j \in 1 .. Len(l), l[j] = w.scb
      PROVE  After(l, w.scb) = IF j = Len(l) THEN "none" ELSE l[j + 1]
  <2>1. Place(l, w.scb) = j
    BY <1>5, PlaceOf
  <2> QED
    BY <2>1 DEF After
<1>6. t = "none" \/ \E k \in 1 .. Len(l) : l[k] = t
  <2>1. CASE w.changed
    BY <2>1, HeadIsOn
  <2>2. CASE ~ w.changed
    <3>1. PICK j \in 1 .. Len(l) : l[j] = w.scb
      BY <1>2, <1>3, <2>2
    <3>2. t = IF j = Len(l) THEN "none" ELSE l[j + 1]
      BY <1>5, <2>2, <3>1
    <3>3. j # Len(l) => j + 1 \in 1 .. Len(l)
      BY <1>4
    <3> HIDE DEF t
    <3> QED
      BY <3>2, <3>3
  <2> QED
    BY <2>1, <2>2
<1>7. ASSUME NEW u \in Threads, NEW x \in Socks, Past(sel[u], x), sel[u].signalled = FALSE,
             (x \in sel[u].rd /\ sock[x].rcv > 0) \/ (x \in sel[u].wr /\ sock[x].send)
      PROVE  \/ \E b \in Callers \ {c} : walks[b].at = "walk" /\ walks[b].s = x /\ Ahead(b, u)
             \/ /\ x = w.s /\ t # "none"
                /\ \/ u = t
                   \/ \E j, k \in 1 .. Len(l) : l[j] = t /\ l[k] = u /\ j < k
  <2>1. ReadyFor(sel[u], x) /\ x \in sel[u].rd \union sel[u].wr
    BY <1>7 DEF ReadyFor
  <2>2. PICK b \in Callers : walks[b].at = "walk" /\ walks[b].s = x /\ Ahead(b, u)
    BY <1>7, <2>1 DEF SelectInv, WakeInv
  <2>3. CASE b # c
    BY <2>2, <2>3
  <2>4. CASE b = c /\ w.changed
    <3>1. OnCbList(sel[u])
      BY <1>7, <2>1, PastIsCounted
    <3> QED
      BY <1>4, <2>2, <2>4, <3>1, HeadIsFirst
  <2>5. CASE b = c /\ ~ w.changed
    <3>1. PICK j, k \in 1 .. Len(l) : l[j] = w.scb /\ l[k] = u /\ j < k
      BY <2>2, <2>5 DEF Ahead
    <3>2. t = l[j + 1] /\ j + 1 \in 1 .. Len(l)
      BY <1>4, <1>5, <2>5, <3>1
    <3>3. l[j + 1] \in Threads
      BY <1>4, <3>2
    <3>4. u = t \/ j + 1 < k
      BY <3>1, <3>2
    <3> HIDE DEF t
    <3> QED
      BY <1>4, <2>2, <2>5, <3>1, <3>2, <3>3, <3>4
  <2> QED
    BY <2>3, <2>4, <2>5
<1> HIDE DEF t
<1>8. OnItsWay(c, sock, w.s, t)
  BY <1>7, Zenon DEF OnItsWay
<1> QED
  BY <1>1, <1>2, <1>6, <1>8, VisitKeeps

\* An event is reported.
LEMMA EventReported ==
  ASSUME SelectAssumption, SelectInv, NEW c \in Callers, NEW s \in Socks, event_callback(c, s)
  PROVE  SelectInv'
<1> DEFINE l == select_cb_list
<1>1. PICK ev \in {[sock[s] EXCEPT !.rcv = @ + 1], [sock[s] EXCEPT !.rcv = @ - 1],
                   [sock[s] EXCEPT !.send = TRUE], [sock[s] EXCEPT !.send = FALSE]} :
        /\ ev.rcv \in 0..MaxRcv
        /\ sock' = [sock EXCEPT ![s] = ev]
        /\ IF ev.waiting = 0 THEN UNCHANGED <<walks, sel>>
           ELSE Visit(c, [sock EXCEPT ![s] = ev], s, Head1)
  BY DEF event_callback
<1> DEFINE ss == [sock EXCEPT ![s] = ev]
<1>2. sock \in [Socks -> SockRec] /\ sock[s] \in SockRec /\ l' = l /\ walks[c].at = "idle"
  BY DEF SelectInv, event_callback
<1>3. ev.rcv \in Nat /\ ev.waiting = sock[s].waiting
  BY <1>1, <1>2 DEF SelectAssumption, SockRec
<1>4. ev \in SockRec
  <2>1. ASSUME NEW r \in Nat
        PROVE  [sock[s] EXCEPT !.rcv = r] \in SockRec
    BY <1>2, Zenon DEF SockRec
  <2>2. ASSUME NEW b \in BOOLEAN
        PROVE  [sock[s] EXCEPT !.send = b] \in SockRec
    BY <1>2, Zenon DEF SockRec
  <2>3. ASSUME NEW r, ev = [sock[s] EXCEPT !.rcv = r]
        PROVE  r \in Nat
    BY <1>2, <1>3, <2>3 DEF SockRec
  <2>4. \/ ev = [sock[s] EXCEPT !.send = TRUE] \/ ev = [sock[s] EXCEPT !.send = FALSE]
        \/ \E r : ev = [sock[s] EXCEPT !.rcv = r]
    BY <1>1
  <2> QED
    BY <2>1, <2>2, <2>3, <2>4, Zenon
<1>5. /\ ss \in [Socks -> SockRec] /\ \A x \in Socks : ss[x] = IF x = s THEN ev ELSE sock[x]
      /\ \A x \in Socks : ss[x].waiting = sock[x].waiting
  BY <1>2, <1>3, <1>4
<1> HIDE DEF ss
<1>6. sock' = ss
  BY <1>1 DEF ss
<1>7. ASSUME NEW u \in Threads, NEW x \in Socks, Past(sel[u], x), sel[u].signalled = FALSE,
             (x \in sel[u].rd /\ ss[x].rcv > 0) \/ (x \in sel[u].wr /\ ss[x].send), x # s
      PROVE  \E b \in Callers \ {c} : walks[b].at = "walk" /\ walks[b].s = x /\ Ahead(b, u)
  <2>1. ReadyFor(sel[u], x)
    BY <1>5, <1>7 DEF ReadyFor
  <2>2. PICK b \in Callers : walks[b].at = "walk" /\ walks[b].s = x /\ Ahead(b, u)
    BY <1>7, <2>1 DEF SelectInv, WakeInv
  <2> QED
    BY <1>2, <2>2
<1>8. CASE ev.waiting # 0
  <2>1. Visit(c, ss, s, Head1)
    BY <1>1, <1>8 DEF ss
  <2>2. ASSUME NEW u \in Threads, NEW x \in Socks, Past(sel[u], x), sel[u].signalled = FALSE,
               (x \in sel[u].rd /\ ss[x].rcv > 0) \/ (x \in sel[u].wr /\ ss[x].send)
        PROVE  \/ \E b \in Callers \ {c} : walks[b].at = "walk" /\ walks[b].s = x /\ Ahead(b, u)
               \/ /\ x = s /\ Head1 # "none"
                  /\ \/ u = Head1
                     \/ \E j, k \in 1 .. Len(l) : l[j] = Head1 /\ l[k] = u /\ j < k
    <3>1. CASE x # s
      BY <1>7, <2>2, <3>1
    <3>2. CASE x = s
      <4>1. OnCbList(sel[u])
        BY <2>2, PastIsCounted
      <4> QED
        BY <3>2, <4>1, HeadIsFirst, SelectValues
    <3> QED
      BY <3>1, <3>2
  <2>3. OnItsWay(c, ss, s, Head1)
    BY <2>2, Zenon DEF OnItsWay
  <2> QED
    BY <1>2, <1>5, <1>6, <2>1, <2>3, HeadIsOn, VisitKeeps
<1>9. CASE ev.waiting = 0
  <2>1. walks' = walks /\ sel' = sel
    BY <1>1, <1>9
  <2>2. WakeInv'
    <3> SUFFICES ASSUME NEW u \in Threads, NEW x \in Socks,
                        Past(sel'[u], x), sel'[u].signalled = FALSE, ReadyFor(sel[u], x)'
                 PROVE  \E b \in Callers : walks'[b].at = "walk" /\ walks'[b].s = x /\ Ahead(b, u)'
      BY DEF WakeInv
    <3>1. /\ Past(sel[u], x) /\ sel[u].signalled = FALSE
          /\ (x \in sel[u].rd /\ ss[x].rcv > 0) \/ (x \in sel[u].wr /\ ss[x].send)
      BY <1>6, <2>1 DEF ReadyFor
    <3>2. x # s
      <4> SUFFICES ASSUME x = s
                   PROVE  FALSE
        OBVIOUS
      <4> DEFINE A == {v \in Threads : Counts(sel[v], s)}
      <4>1. Counts(sel[u], s)
        BY <3>1, PastIsCounted
      <4>2. u \in A /\ IsFiniteSet(A)
        BY <4>1, SelectValues, FS_Subset
      <4>3. Cardinality(A) = 0
        BY <1>3, <1>9 DEF SelectInv, CountInv
      <4> HIDE DEF A
      <4> QED
        BY <4>2, <4>3, FS_EmptySet
    <3>3. PICK b \in Callers : walks[b].at = "walk" /\ walks[b].s = x /\ Ahead(b, u)
      BY <1>7, <3>1, <3>2
    <3>4. Ahead(b, u)'
      BY <1>2, <2>1, <3>3 DEF Ahead
    <3> QED
      BY <2>1, <3>3, <3>4
  <2>3. CbListInv'
    BY <1>2, <2>1 DEF SelectInv, CbListInv
  <2>4. CountInv'
    BY <1>5, <1>6, <2>1 DEF SelectInv, CountInv
  <2>5. \A b \in Callers : WalkInv(walks[b])'
    BY <1>2, <2>1 DEF SelectInv, WalkInv
  <2> QED
    BY <1>5, <1>6, <2>1, <2>2, <2>3, <2>4, <2>5 DEF SelectInv
<1> QED
  BY <1>8, <1>9

\* What the invariant says of a state.
LEMMA SelectInvSound ==
  ASSUME SelectAssumption, SelectInv
  PROVE  SelectSound
<1>1. NoLostWakeup
  <2> SUFFICES ASSUME NEW t \in Threads, sel[t].at = "wait", sel[t].sem = 0,
                      NEW s \in Socks, ReadyFor(sel[t], s)
               PROVE  \E c \in Callers : walks[c].at = "walk" /\ walks[c].s = s /\ Ahead(c, t)
    BY DEF NoLostWakeup
  <2>1. SelInv(sel[t]) /\ Past(sel[t], s)
    BY SelFields DEF Past
  <2>2. sel[t].signalled \in BOOLEAN
    BY SelFields, Zenon
  <2>3. sel[t].signalled = FALSE
    BY <2>1, <2>2 DEF SelInv
  <2> QED
    BY <2>1, <2>3 DEF SelectInv, WakeInv
<1>2. WalkOnList
  <2> SUFFICES ASSUME NEW c \in Callers, walks[c].at = "walk"
               PROVE  walks[c].changed \/ walks[c].scb \in Range(select_cb_list)
    BY DEF WalkOnList
  <2>1. walks[c].changed = TRUE \/ \E k \in 1 .. Len(select_cb_list) : select_cb_list[k] = walks[c].scb
    BY DEF SelectInv, WalkInv
  <2>2. DOMAIN select_cb_list = 1 .. Len(select_cb_list)
    BY OnTheList
  <2> QED
    BY <2>1, <2>2 DEF Range
<1>3. WaitingCounted
  <2> SUFFICES ASSUME select_cb_list = <<>>, NEW s \in Socks
               PROVE  sock[s].waiting = 0
    BY DEF WaitingCounted
  <2>1. \A t \in Threads : ~ OnCbList(sel[t])
    BY OnTheList
  <2>2. {t \in Threads : Counts(sel[t], s)} = {}
    BY <2>1 DEF Counts, OnCbList
  <2> QED
    BY <2>2, FS_EmptySet DEF SelectInv, CountInv
<1>4. \A t \in Threads : sel[t].sem \in {0, 1}
  BY SelFields
<1> QED
  BY <1>1, <1>2, <1>3, <1>4 DEF SelectSound

\* No lwip_select sleeps through an event that it asked for, however the
\* event_callbacks of any number of threads are interleaved with the scans and
\* the changes of select_cb_list; no walk stands on a lwip_select_cb that has
\* left the list; select_waiting counts the waiting threads; and a semaphore is
\* signalled at most once for each wait.
THEOREM NoWakeupIsLost ==
  ASSUME SelectAssumption
  PROVE  SelectSpec => []SelectSound
<1>1. SelectInit => SelectInv
  <2> SUFFICES ASSUME SelectInit
               PROVE  SelectInv
    OBVIOUS
  <2>1. /\ sock = [s \in Socks |-> [rcv |-> 0, send |-> FALSE, waiting |-> 0]]
        /\ select_cb_list = <<>> /\ sel = [t \in Threads |-> NoSel]
        /\ walks = [c \in Callers |-> NoWalk]
    BY DEF SelectInit
  <2>2. sel \in [Threads -> SelRec] /\ \A t \in Threads : sel[t] = NoSel
    BY <2>1, NoSelIs
  <2>3. /\ sock \in [Socks -> SockRec] /\ \A s \in Socks : sock[s].waiting = 0
    BY <2>1 DEF SockRec
  <2>4. walks \in [Callers -> WalkRec] /\ \A c \in Callers : walks[c].at = "idle"
    BY <2>1 DEF NoWalk, WalkRec
  <2>5. \A t \in Threads : SelInv(sel[t])
    BY <2>2, NoSelIs DEF SelInv
  <2>6. \A t \in Threads, s \in Socks :
          ~ OnCbList(sel[t]) /\ ~ Counts(sel[t], s) /\ ~ Past(sel[t], s)
    BY <2>2, NoSelIs DEF OnCbList, Counts, Past
  <2>7. CbListInv
    <3>1. {t \in Threads : OnCbList(sel[t])} = {}
      BY <2>2, NoSelIs DEF OnCbList
    <3> QED
      BY <2>1, <3>1 DEF CbListInv, OnceEach
  <2>8. CountInv
    <3>1. \A s \in Socks : {t \in Threads : Counts(sel[t], s)} = {}
      BY <2>6
    <3> QED
      BY <2>3, <3>1, FS_EmptySet DEF CountInv
  <2>9. WakeInv
    BY <2>6 DEF WakeInv
  <2>10. \A c \in Callers : WalkInv(walks[c])
    BY <2>4 DEF WalkInv
  <2> QED
    BY <2>2, <2>3, <2>4, <2>5, <2>7, <2>8, <2>9, <2>10 DEF SelectInv
<1>2. SelectInv /\ [SelectNext]_selectVars => SelectInv'
  <2> SUFFICES ASSUME SelectInv, [SelectNext]_selectVars
               PROVE  SelectInv'
    OBVIOUS
  <2>1. CASE SelectNext
    <3>1. ASSUME NEW t \in Threads,
                 \/ lwip_select(t) \/ lwip_selscan(t) \/ Enlist(t) \/ Enter(t)
                 \/ Woken(t) \/ SelectTimeout(t) \/ Leave(t) \/ Unlist(t)
          PROVE  SelectInv'
      BY <3>1, SelectBegins, Scans, Enlists, EntersAndLeaves, StopsWaiting, Unlists
    <3>2. ASSUME NEW c \in Callers, Walk(c) \/ \E s \in Socks : event_callback(c, s)
          PROVE  SelectInv'
      BY <3>2, WalksOn, EventReported
    <3> QED
      BY <2>1, <3>1, <3>2 DEF SelectNext
  <2>2. CASE UNCHANGED selectVars
    <3>1. sock' = sock /\ select_cb_list' = select_cb_list /\ sel' = sel /\ walks' = walks
      BY <2>2 DEF selectVars
    <3>2. CbListInv' /\ CountInv'
      BY <3>1 DEF SelectInv, CbListInv, CountInv
    <3>3. WakeInv'
      BY <3>1 DEF SelectInv, WakeInv, ReadyFor, Ahead
    <3>4. \A c \in Callers : WalkInv(walks[c])'
      BY <3>1 DEF SelectInv, WalkInv
    <3> QED
      BY <3>1, <3>2, <3>3, <3>4 DEF SelectInv
  <2> QED
    BY <2>1, <2>2
<1>3. SelectInv => SelectSound
  BY SelectInvSound
<1> QED
  BY <1>1, <1>2, <1>3, PTL DEF SelectSpec
-----------------------------------------------------------------------------
(* The sequential API: what blocks is woken, what waits is told. *)

CONSTANTS MboxSize, SndBuf, Writes, Hows

VARIABLES netconn, netpcb, apimsg, op_completed, sockevents, finNext

\* The netconn with the names of its fields, so that they stay apart from those
\* of the other parts.
Nc == INSTANCE Netconn WITH
  conn <- netconn, pcb <- netpcb, call <- apimsg, sem <- op_completed, sock <- sockevents

\* The codes of err_t.
ErrCodes == Nc!Fatal \union Nc!Soft

\* The types of the netconn, of its control block, of the events of its socket
\* and of the message of the application thread; and of the state that a
\* function of tcpip_thread works on.
ConnRec ==
  [state : {"NONE", "WRITE", "LISTEN", "CONNECT", "CLOSE"}, pcb : BOOLEAN, cur : BOOLEAN,
   woff : Nat, lerr : ErrCodes, nb : BOOLEAN, inconn : BOOLEAN, checkws : BOOLEAN,
   rvalid : BOOLEAN, rmbox : Seq({"data", "eof"}), avalid : BOOLEAN, ambox : Seq({"new", "eof"}),
   freed : BOOLEAN, halved : BOOLEAN]

ConnPcb ==
  [st : {"none", "closed", "listen", "synsent", "est"}, arg : BOOLEAN, recv : BOOLEAN,
   sent : BOOLEAN, poll : BOOLEAN, errf : BOOLEAN, used : 0 .. SndBuf, refused : BOOLEAN,
   fin : BOOLEAN, rxclosed : BOOLEAN, txclosed : BOOLEAN]

EventRec == [rcv : Int, send : BOOLEAN, err : BOOLEAN]

ApiFunctions == {"none", "connect", "listen", "write", "getaddr", "close", "delete", "recv",
              "recved", "accept"}

MsgRec == [at : {"idle", "queued", "wait", "fetch"}, fn : ApiFunctions, len : Nat,
          how : {"none", "RD", "WR", "RDWR", "data", "eof"}, res : ErrCodes]

WorkRec == [conn : ConnRec, pcb : ConnPcb, res : ErrCodes, sem : Nat, sock : EventRec]

\* The fields of such a state.
LEMMA WorkFields ==
  ASSUME NEW w \in WorkRec
  PROVE  /\ w.conn \in ConnRec /\ w.pcb \in ConnPcb /\ w.res \in ErrCodes
         /\ w.sem \in Nat /\ w.sock \in EventRec
         /\ w.sem + 1 \in Nat
BY DEF WorkRec

\* v has these fields.
Fields(v, c, p, s, e) ==
  v \in WorkRec /\ v.conn = c /\ v.pcb = p /\ v.sem = s /\ v.sock = e

\* A field of it is replaced.
LEMMA WorkSet ==
  ASSUME NEW w, NEW c, NEW p, NEW s, NEW e, Fields(w, c, p, s, e)
  PROVE  /\ \A r \in ErrCodes, n \in Nat : Fields([w EXCEPT !.res = r, !.sem = n], c, p, n, e)
         /\ \A x \in ConnRec : Fields([w EXCEPT !.conn = x], x, p, s, e)
         /\ \A x \in ConnPcb : Fields([w EXCEPT !.pcb = x], c, x, s, e)
         /\ \A x \in EventRec : Fields([w EXCEPT !.sock = x], c, p, s, x)
<1>1. ASSUME NEW r \in ErrCodes, NEW n \in Nat PROVE Fields([w EXCEPT !.res = r, !.sem = n], c, p, n, e)
  BY DEF WorkRec, Fields
<1>2. ASSUME NEW x \in ConnRec PROVE Fields([w EXCEPT !.conn = x], x, p, s, e)
  BY DEF WorkRec, Fields
<1>3. ASSUME NEW x \in ConnPcb PROVE Fields([w EXCEPT !.pcb = x], c, x, s, e)
  BY DEF WorkRec, Fields
<1>4. ASSUME NEW x \in EventRec PROVE Fields([w EXCEPT !.sock = x], c, p, s, x)
  BY DEF WorkRec, Fields
<1> QED
  BY <1>1, <1>2, <1>3, <1>4

\* The words of a result.
LEMMA ErrCodesAre ==
  /\ "OK" \in ErrCodes /\ "MEM" \in ErrCodes /\ "CONN" \in ErrCodes /\ "CLSD" \in ErrCodes
  /\ "ISCONN" \in ErrCodes /\ "VAL" \in ErrCodes /\ "INPROGRESS" \in ErrCodes
  /\ "WOULDBLOCK" \in ErrCodes /\ "RST" \in ErrCodes
BY DEF ErrCodes, Nc!Fatal, Nc!Soft

\* The types of its fields.
LEMMA FieldTypes ==
  ASSUME NEW w, NEW c, NEW p, NEW s, NEW e, Fields(w, c, p, s, e)
  PROVE  /\ w \in WorkRec /\ w.conn = c /\ w.pcb = p /\ w.sem = s /\ w.sock = e
         /\ c \in ConnRec /\ p \in ConnPcb /\ s \in Nat /\ e \in EventRec /\ s + 1 \in Nat
BY WorkFields DEF Fields

\* TCPIP_APIMSG_ACK signals op_completed and leaves the rest.
LEMMA AckIs ==
  ASSUME NEW w, NEW c, NEW p, NEW s, NEW e, Fields(w, c, p, s, e), NEW r \in ErrCodes
  PROVE  Fields(Nc!Ack(w, r), c, p, s + 1, e)
<1> DEFINE n == s + 1
<1>1. Nc!Ack(w, r) = [w EXCEPT !.res = r, !.sem = n]
  BY FieldTypes, Zenon DEF Nc!Ack
<1>2. n \in Nat
  BY FieldTypes, Zenon
<1> HIDE DEF n
<1>3. Fields([w EXCEPT !.res = r, !.sem = n], c, p, n, e)
  BY <1>2, WorkSet, Zenon
<1> QED
  BY <1>1, <1>3, Zenon DEF n

\* What Finish leaves of the netconn.
Done(c) == [c EXCEPT !.cur = FALSE, !.state = "NONE"]

\* The end of a blocking operation.
LEMMA FinishIs ==
  ASSUME NEW w, NEW c, NEW p, NEW s, NEW e, Fields(w, c, p, s, e), NEW r \in ErrCodes
  PROVE  Fields(Nc!Finish(w, r), Done(c), p, s + 1, e)
<1> DEFINE a == Nc!Ack(w, r)
<1>1. Fields(a, c, p, s + 1, e)
  BY AckIs, Zenon
<1>2. Done(c) \in ConnRec
  <2>1. c \in ConnRec
    BY FieldTypes, Zenon
  <2> QED
    BY <2>1 DEF ConnRec, Done
<1>3. Nc!Finish(w, r) = [a EXCEPT !.conn.cur = FALSE, !.conn.state = "NONE"]
  BY DEF Nc!Finish
<1> HIDE DEF a
<1>4. [a EXCEPT !.conn.cur = FALSE, !.conn.state = "NONE"] = [a EXCEPT !.conn = Done(c)]
  <2>1. a \in WorkRec /\ a.conn = c
    BY <1>1, FieldTypes, Zenon
  <2> QED
    BY <2>1 DEF WorkRec, Done
<1>5. Fields([a EXCEPT !.conn = Done(c)], Done(c), p, s + 1, e)
  BY <1>1, <1>2, WorkSet, Zenon
<1> QED
  BY <1>3, <1>4, <1>5, Zenon

\* A non-blocking write that does not fit: the socket is no longer writable and
\* the poll is asked to look.
LEMMA WouldBlockIs ==
  ASSUME NEW w, NEW c, NEW p, NEW s, NEW e, Fields(w, c, p, s, e)
  PROVE  Fields(Nc!WouldBlock(w), [Done(c) EXCEPT !.checkws = TRUE], p, s + 1,
                [e EXCEPT !.send = FALSE])
<1> DEFINE a == Nc!Finish(w, "WOULDBLOCK")
           d == [Done(c) EXCEPT !.checkws = TRUE]
           b == [a EXCEPT !.conn = d]
           h == [e EXCEPT !.send = FALSE]
<1>1. Fields(a, Done(c), p, s + 1, e)
  BY FinishIs, ErrCodesAre, Zenon
<1>2. Nc!WouldBlock(w) = [a EXCEPT !.conn.checkws = TRUE, !.sock.send = FALSE]
  BY DEF Nc!WouldBlock
<1> HIDE DEF a
<1>3. a \in WorkRec /\ a.conn = Done(c) /\ a.sock = e /\ Done(c) \in ConnRec /\ e \in EventRec
  BY <1>1, FieldTypes, Zenon
<1>4. [a EXCEPT !.conn.checkws = TRUE, !.sock.send = FALSE] = [b EXCEPT !.sock = h]
  BY <1>3 DEF WorkRec
<1>5. d \in ConnRec
  BY <1>3 DEF ConnRec
<1>6. h \in EventRec
  BY <1>3 DEF EventRec
<1> HIDE DEF d, h
<1>7. Fields(b, d, p, s + 1, e)
  BY <1>1, <1>5, WorkSet, Zenon
<1> HIDE DEF b
<1>8. Fields([b EXCEPT !.sock = h], d, p, s + 1, h)
  BY <1>6, <1>7, WorkSet, Zenon
<1> QED
  BY <1>2, <1>4, <1>8, Zenon DEF d, h

\* The bytes fit.
LEMMA WrittenIs ==
  ASSUME SndBuf \in Nat, NEW len \in Nat, NEW full \in Nat,
         NEW w, NEW c, NEW p, NEW s, NEW e, Fields(w, c, p, s, e), p.used + len <= SndBuf
  PROVE  LET q == [p EXCEPT !.used = p.used + len]
             h == [e EXCEPT !.send = e.send /\ Nc!Writable(q)]
         IN  \/ /\ c.woff + len = full
                /\ Fields(Nc!Written(w, len, full), Done([c EXCEPT !.woff = 0]), q, s + 1, h)
             \/ /\ c.woff + len # full
                /\ Fields(Nc!Written(w, len, full), [c EXCEPT !.woff = c.woff + len], q, s, h)
<1> DEFINE q == [p EXCEPT !.used = p.used + len]
           h == [e EXCEPT !.send = e.send /\ Nc!Writable(q)]
           n == IF c.woff + len = full THEN 0 ELSE c.woff + len
           d == [c EXCEPT !.woff = n]
           a == [w EXCEPT !.pcb = q]
           b == [a EXCEPT !.sock = h]
           v == [b EXCEPT !.conn = d]
<1>1. w \in WorkRec /\ w.conn = c /\ w.pcb = p /\ w.sock = e
      /\ c \in ConnRec /\ p \in ConnPcb /\ e \in EventRec
  BY FieldTypes
<1>2. p.used + len \in 0 .. SndBuf /\ n \in Nat
  BY <1>1 DEF ConnPcb, ConnRec
<1>3. q \in ConnPcb
  BY <1>1, <1>2 DEF ConnPcb
<1>4. h \in EventRec
  <2>1. (e.send /\ Nc!Writable(q)) \in BOOLEAN
    OBVIOUS
  <2> HIDE DEF q
  <2> QED
    BY <1>1, <2>1 DEF EventRec
<1>5. d \in ConnRec
  <2> HIDE DEF n
  <2> QED
    BY <1>1, <1>2 DEF ConnRec
<1>6. Nc!Written(w, len, full) = IF c.woff + len = full THEN Nc!Finish(v, "OK") ELSE v
  <2> DEFINE g == [w.pcb EXCEPT !.used = @ + len]
             u == [w EXCEPT !.pcb = g, !.sock.send = @ /\ Nc!Writable(g),
                     !.conn.woff = IF w.conn.woff + len = full THEN 0 ELSE @ + len]
  <2>1. Nc!Written(w, len, full) = IF w.conn.woff + len = full THEN Nc!Finish(u, "OK") ELSE u
    BY DEF Nc!Written
  <2>2. g = q
    BY <1>1
  <2> HIDE DEF g, q
  <2>3. u = v
    BY <1>1, <2>2 DEF WorkRec
  <2>4. (w.conn.woff + len = full) <=> (c.woff + len = full)
    BY <1>1, Zenon
  <2> HIDE DEF u, v
  <2> QED
    BY <2>1, <2>3, <2>4, Zenon
<1> HIDE DEF q, h, n, d
<1>7. Fields(a, c, q, s, e)
  BY <1>3, WorkSet, Zenon
<1> HIDE DEF a
<1>8. Fields(b, c, q, s, h)
  BY <1>4, <1>7, WorkSet, Zenon
<1> HIDE DEF b
<1>9. Fields(v, d, q, s, h)
  BY <1>5, <1>8, WorkSet, Zenon
<1> HIDE DEF v
<1>10. Fields(Nc!Finish(v, "OK"), Done(d), q, s + 1, h)
  BY <1>9, FinishIs, ErrCodesAre, Zenon
<1>11. CASE c.woff + len = full
  BY <1>6, <1>10, <1>11, Zenon DEF q, h, d, n
<1>12. CASE c.woff + len # full
  BY <1>6, <1>9, <1>12, Zenon DEF q, h, d, n
<1> QED
  BY <1>11, <1>12, Zenon

-----------------------------------------------------------------------------
\* The block has a connection, or is making one.
Linked(p) == p.st \in {"est", "synsent"}

\* The thread waits exactly while its message is the current one or the
\* semaphore is signalled, never both; and the message is the current one
\* exactly while an operation is under way.
WokenInv(c, s, k) ==
  /\ s \in {0, 1}
  /\ k.at = "wait" <=> (c.cur = TRUE \/ s = 1)
  /\ c.cur = TRUE => s = 0
  /\ c.cur = TRUE <=> c.state \in {"WRITE", "CLOSE"} \/ (c.state = "CONNECT" /\ c.inconn = FALSE)

\* The operation under way is the one the message asks for; a write under way
\* has bytes left, and a close that shuts the receiver has drained the mailboxes.
MessageInv(c, k) ==
  /\ c.state = "WRITE" => k.fn = "write" /\ c.woff < k.len
  /\ c.state = "CLOSE" =>
       /\ k.fn = "delete" \/ (k.fn = "close" /\ k.how \in {"RD", "WR", "RDWR"})
       /\ k.fn = "delete" \/ k.how # "WR" => c.rvalid = FALSE /\ c.avalid = FALSE
  /\ c.state = "CONNECT" /\ c.cur = TRUE => k.fn = "connect"
  /\ k.at = "idle" => k.fn = "none"
  /\ k.fn = "write" => k.len > 0
  /\ k.fn = "close" => k.how \in {"RD", "WR", "RDWR"}

\* What an operation under way needs is set on the block; the block is connecting
\* while the netconn is; and a netconn without block has nothing under way and
\* left no callback behind, except after a half shutdown.
BlockInv(c, p, k, f) ==
  /\ c.cur = TRUE => c.pcb = TRUE /\ Linked(p)
  /\ c.pcb = TRUE /\ Linked(p) => p.arg = TRUE /\ p.sent = TRUE /\ p.poll = TRUE /\ p.errf = TRUE
  /\ p.st = "synsent" <=> c.state = "CONNECT"
  /\ c.state = "CONNECT" => c.pcb = TRUE
  /\ c.pcb = FALSE => c.state = "NONE" /\ (p.st = "none" \/ c.halved = TRUE)
  /\ c.freed = TRUE => c.pcb = FALSE
  /\ k.at = "wait" /\ k.fn = "delete" /\ c.cur = FALSE => c.pcb = FALSE
  /\ c.inconn = TRUE => c.state = "CONNECT" \/ c.pcb = FALSE
  /\ f = TRUE => p.st = "est"

\* While there is no fatal error, rcvevent counts no more than the mailbox holds,
\* and one more between sys_arch_mbox_fetch and the return of the receiver.
CountedInv(c, p, e, k) ==
  /\ c.rvalid = FALSE \/ c.avalid = FALSE
  /\ c.lerr \notin Nc!Fatal =>
       /\ c.rvalid = TRUE /\ k.fn # "recved" => e.rcv <= Len(c.rmbox)
       /\ c.rvalid = TRUE /\ k.fn = "recved" => e.rcv <= Len(c.rmbox) + 1
       /\ c.avalid = TRUE => e.rcv <= Len(c.ambox)
  /\ c.pcb = TRUE /\ p.st = "closed" => e.rcv <= 0 /\ p.refused = FALSE

\* A connected socket that is not writable has something to be acknowledged, or
\* the poll has been asked to look.
DueInv(c, p, e) ==
  c.pcb = TRUE /\ p.st = "est" /\ e.send = FALSE => p.used > 0 \/ c.checkws = TRUE

\* The invariant but for DueInv, which sent_tcp breaks and restores.
CoreInv(c, p, s, e, k, f) ==
  /\ k \in MsgRec /\ f \in BOOLEAN
  /\ c \in ConnRec /\ p \in ConnPcb /\ s \in Nat /\ e \in EventRec
  /\ WokenInv(c, s, k) /\ MessageInv(c, k) /\ BlockInv(c, p, k, f) /\ CountedInv(c, p, e, k)

\* A write under way; do_write does not look whether the block is connected.
Writing(c, p, s, e, k) ==
  /\ c.state = "WRITE" /\ c.cur = TRUE /\ c.pcb = TRUE /\ c.freed = FALSE /\ c.inconn = FALSE
  /\ s = 0 /\ k \in MsgRec /\ k.at = "wait" /\ k.fn = "write" /\ c.woff < k.len
  /\ c \in ConnRec /\ p \in ConnPcb /\ e \in EventRec
  /\ p.st # "synsent"
  /\ p.st = "est" => p.arg = TRUE /\ p.sent = TRUE /\ p.poll = TRUE /\ p.errf = TRUE
  /\ CountedInv(c, p, e, k)

\* A state in which the netconn writes.
LEMMA CoreWrites ==
  ASSUME NEW c, NEW p, NEW s, NEW e, NEW k, CoreInv(c, p, s, e, k, FALSE), c.state = "WRITE"
  PROVE  Writing(c, p, s, e, k)
<1>1. c.cur = TRUE /\ s = 0 /\ k.at = "wait"
  BY DEF CoreInv, WokenInv
<1>2. k.fn = "write" /\ c.woff < k.len
  BY DEF CoreInv, MessageInv
<1>3. /\ c.pcb = TRUE /\ c.freed = FALSE /\ c.inconn = FALSE /\ p.st # "synsent"
      /\ p.st = "est" => p.arg = TRUE /\ p.sent = TRUE /\ p.poll = TRUE /\ p.errf = TRUE
  BY <1>1 DEF CoreInv, BlockInv, Linked, ConnRec
<1> QED
  BY <1>1, <1>2, <1>3 DEF CoreInv, Writing

\* The write goes on.
LEMMA WritesOn ==
  ASSUME NEW c, NEW p, NEW s, NEW e, NEW k, Writing(c, p, s, e, k), p.st = "est"
  PROVE  CoreInv(c, p, s, e, k, FALSE)
<1>1. WokenInv(c, s, k)
  BY DEF Writing, WokenInv
<1>2. MessageInv(c, k)
  BY DEF Writing, MessageInv, ConnRec, MsgRec
<1>3. BlockInv(c, p, k, FALSE)
  BY DEF Writing, BlockInv, Linked
<1> QED
  BY <1>1, <1>2, <1>3 DEF CoreInv, Writing

\* The write is over.
LEMMA WriteOver ==
  ASSUME NEW c, NEW p, NEW s, NEW e, NEW k, Writing(c, p, s, e, k)
  PROVE  CoreInv(Done(c), p, s + 1, e, k, FALSE)
<1> DEFINE d == Done(c)
<1>1. c \in ConnRec /\ p \in ConnPcb /\ s = 0 /\ e \in EventRec /\ k \in MsgRec
  BY DEF Writing
<1>2. d \in ConnRec
  BY <1>1 DEF ConnRec, Done
<1>3. /\ d.cur = FALSE /\ d.state = "NONE" /\ d.inconn = c.inconn /\ d.pcb = c.pcb /\ d.freed = c.freed
      /\ d.halved = c.halved /\ d.rvalid = c.rvalid /\ d.avalid = c.avalid
      /\ d.rmbox = c.rmbox /\ d.ambox = c.ambox /\ d.lerr = c.lerr
  BY <1>1 DEF ConnRec, Done
<1> HIDE DEF d
<1>4. WokenInv(d, s + 1, k)
  BY <1>3 DEF Writing, WokenInv
<1>5. MessageInv(d, k)
  BY <1>1, <1>3 DEF Writing, MessageInv, ConnRec, MsgRec
<1>6. BlockInv(d, p, k, FALSE)
  BY <1>3 DEF Writing, BlockInv, Linked
<1>7. CountedInv(d, p, e, k)
  BY <1>3 DEF Writing, CountedInv
<1>8. s + 1 \in Nat
  BY <1>1
<1> QED
  BY <1>1, <1>2, <1>4, <1>5, <1>6, <1>7, <1>8, Zenon DEF CoreInv, d

\* Fields that the invariant does not speak of.
LEMMA CoreSame ==
  ASSUME NEW c, NEW p, NEW s, NEW e, NEW k, NEW f, CoreInv(c, p, s, e, k, f),
         NEW d \in ConnRec, NEW q \in ConnPcb, NEW h \in EventRec,
         d.state = c.state, d.cur = c.cur, d.pcb = c.pcb, d.inconn = c.inconn, d.freed = c.freed,
         d.halved = c.halved, d.rvalid = c.rvalid, d.avalid = c.avalid, d.rmbox = c.rmbox,
         d.ambox = c.ambox, d.lerr = c.lerr, c.state = "WRITE" => d.woff < k.len,
         q.st = p.st, q.arg = p.arg, q.sent = p.sent, q.poll = p.poll, q.errf = p.errf,
         q.refused = p.refused, h.rcv = e.rcv
  PROVE  CoreInv(d, q, s, h, k, f)
<1>1. WokenInv(d, s, k)
  BY DEF CoreInv, WokenInv
<1>2. MessageInv(d, k)
  BY DEF CoreInv, MessageInv
<1>3. BlockInv(d, q, k, f)
  BY DEF CoreInv, BlockInv, Linked
<1>4. CountedInv(d, q, h, k)
  BY DEF CoreInv, CountedInv
<1> QED
  BY <1>1, <1>2, <1>3, <1>4 DEF CoreInv

\* A result v of a function of tcpip_thread, seen as a state.
Sound(v, k) ==
  v \in WorkRec /\ CoreInv(v.conn, v.pcb, v.sem, v.sock, k, FALSE)

\* DueInv of a result.
Due(v) == DueInv(v.conn, v.pcb, v.sock)

\* By its fields.
LEMMA SoundBy ==
  ASSUME NEW v, NEW c, NEW p, NEW s, NEW e, NEW k, Fields(v, c, p, s, e), CoreInv(c, p, s, e, k, FALSE)
  PROVE  Sound(v, k)
BY DEF Fields, Sound

\* The result in the message is nobody's business before it is answered.
LEMMA ResultFree ==
  ASSUME NEW v, NEW k \in MsgRec, Sound(v, k)
  PROVE  Sound(v, [k EXCEPT !.res = v.res])
<1> DEFINE m == [k EXCEPT !.res = v.res]
           c == v.conn
           p == v.pcb
<1>1. v.res \in ErrCodes
  BY WorkFields DEF Sound
<1>2. m \in MsgRec
  BY <1>1 DEF MsgRec
<1>3. m.at = k.at /\ m.fn = k.fn /\ m.len = k.len /\ m.how = k.how
  BY DEF MsgRec
<1> HIDE DEF m
<1>4. WokenInv(c, v.sem, m)
  BY <1>3 DEF Sound, CoreInv, WokenInv
<1>5. MessageInv(c, m)
  BY <1>3 DEF Sound, CoreInv, MessageInv
<1>6. BlockInv(c, p, m, FALSE)
  BY <1>3 DEF Sound, CoreInv, BlockInv
<1>7. CountedInv(c, p, v.sock, m)
  BY <1>3 DEF Sound, CoreInv, CountedInv
<1> QED
  BY <1>2, <1>4, <1>5, <1>6, <1>7 DEF Sound, CoreInv, m

\* A buffer that is not writable holds something.
LEMMA FullHolds ==
  ASSUME SndBuf \in Nat \ {0}, NEW p \in ConnPcb, ~ Nc!Writable(p)
  PROVE  p.used > 0
BY DEF ConnPcb, Nc!Writable, Nc!Space

\* do_writemore: the write is refused, ends, or goes on with fewer bytes left,
\* and while it leaves no space something is to be acknowledged.
LEMMA WriteMoreKeeps ==
  ASSUME SndBuf \in Nat \ {0},
         NEW w \in WorkRec, NEW k, Writing(w.conn, w.pcb, w.sem, w.sock, k),
         NEW v \in Nc!do_writemore(w, k.len)
  PROVE  Sound(v, k) /\ (Due(w) => Due(v))
<1> DEFINE c == w.conn
           p == w.pcb
           s == w.sem
           e == w.sock
           rest == k.len - c.woff
           len == IF Nc!Space(p) < rest THEN Nc!Space(p) ELSE rest
<1>1. Fields(w, c, p, s, e) /\ Writing(c, p, s, e, k)
  BY DEF Fields
<1>2. c \in ConnRec /\ p \in ConnPcb /\ s \in Nat /\ e \in EventRec /\ w \in WorkRec
  BY <1>1, FieldTypes
<1>3. c.woff \in Nat /\ c.woff < k.len /\ k.len \in Nat /\ p.used \in 0 .. SndBuf
  BY <1>1, <1>2 DEF Writing, MsgRec, ConnRec, ConnPcb
<1>4. len \in Nat /\ p.used + len <= SndBuf /\ c.woff + len <= k.len
  BY <1>3 DEF Nc!Space
<1>5. \/ v = Nc!WouldBlock(w)
      \/ p.st = "est" /\ v = Nc!Written(w, len, k.len)
      \/ p.st = "est" /\ v = [w EXCEPT !.sock.send = @ /\ Nc!Writable(w.pcb)]
      \/ v = Nc!Finish(w, "CONN")
  <2>1. v \in {Nc!WouldBlock(w)} \/ \E x \in Nc!tcp_write(p) :
               v = CASE x = "OK" -> Nc!Written(w, len, k.len)
              [] x = "MEM" /\ w.conn.nb -> Nc!WouldBlock(w)
              [] x = "MEM" -> [w EXCEPT !.sock.send = @ /\ Nc!Writable(w.pcb)]
              [] OTHER -> Nc!Finish(w, x)
    <3> HIDE DEF len
    <3> QED
      BY Zenon DEF Nc!do_writemore, len
  <2> HIDE DEF len
  <2>2. /\ Nc!tcp_write(p) \subseteq {"OK", "MEM", "CONN"}
        /\ p.st # "est" => Nc!tcp_write(p) = {"CONN"}
    BY <1>1 DEF Nc!tcp_write, Writing
  <2> QED
    BY <2>1, <2>2
<1> HIDE DEF len
<1>6. CASE v = Nc!WouldBlock(w)
  <2> DEFINE d == [Done(c) EXCEPT !.checkws = TRUE]
             h == [e EXCEPT !.send = FALSE]
  <2>1. Fields(v, d, p, s + 1, h)
    BY <1>1, <1>6, WouldBlockIs, Zenon
  <2>2. CoreInv(Done(c), p, s + 1, e, k, FALSE)
    BY <1>1, WriteOver
  <2>3. d \in ConnRec /\ h \in EventRec
    <3> HIDE DEF d, h
    <3> QED
      BY <2>1, FieldTypes
  <2>4. CoreInv(d, p, s + 1, h, k, FALSE)
    <3>1. Done(c) \in ConnRec /\ Done(c).state = "NONE"
      BY <1>2 DEF Done, ConnRec
    <3>2. /\ d.state = Done(c).state /\ d.cur = Done(c).cur /\ d.pcb = Done(c).pcb
          /\ d.inconn = Done(c).inconn /\ d.freed = Done(c).freed /\ d.halved = Done(c).halved
          /\ d.rvalid = Done(c).rvalid /\ d.avalid = Done(c).avalid /\ d.rmbox = Done(c).rmbox
          /\ d.ambox = Done(c).ambox /\ d.lerr = Done(c).lerr
      BY <3>1 DEF ConnRec
    <3>3. h.rcv = e.rcv
      BY <1>2 DEF EventRec
    <3> HIDE DEF d, h
    <3> QED
      BY <1>2, <2>2, <2>3, <3>1, <3>2, <3>3, CoreSame
  <2>5. d.checkws = TRUE
    <3>1. Done(c) \in ConnRec
      BY <1>2 DEF Done, ConnRec
    <3> QED
      BY <3>1 DEF ConnRec
  <2> HIDE DEF d, h
  <2>6. Sound(v, k)
    BY <2>1, <2>4, SoundBy, Zenon
  <2>7. Due(v)
    BY <2>1, <2>5 DEF Due, DueInv, Fields
  <2> QED
    BY <2>6, <2>7
<1>7. CASE v = Nc!Finish(w, "CONN")
  <2>1. Fields(v, Done(c), p, s + 1, e)
    BY <1>1, <1>7, FinishIs, ErrCodesAre, Zenon
  <2>2. CoreInv(Done(c), p, s + 1, e, k, FALSE)
    BY <1>1, WriteOver
  <2>3. Done(c).pcb = c.pcb /\ Done(c).checkws = c.checkws
    BY <1>2 DEF Done, ConnRec
  <2>4. Sound(v, k)
    BY <2>1, <2>2, SoundBy, Zenon
  <2>5. Due(w) => Due(v)
    BY <2>1, <2>3 DEF Due, DueInv, Fields
  <2> QED
    BY <2>4, <2>5
<1>8. CASE p.st = "est" /\ v = [w EXCEPT !.sock.send = @ /\ Nc!Writable(w.pcb)]
  <2> DEFINE b == e.send /\ Nc!Writable(p)
             h == [e EXCEPT !.send = b]
  <2>1. v = [w EXCEPT !.sock = h]
    <3> HIDE DEF b
    <3>1. v = [w EXCEPT !.sock.send = b]
      BY <1>8, Zenon DEF b
    <3> QED
      BY <1>2, <3>1 DEF WorkRec
  <2>2. b \in BOOLEAN
    OBVIOUS
  <2>3. h \in EventRec /\ h.rcv = e.rcv /\ h.send = b
    <3> HIDE DEF b
    <3> QED
      BY <1>2, <2>2 DEF EventRec
  <2>4. b = FALSE => e.send = FALSE \/ p.used > 0
    BY <1>2, FullHolds DEF EventRec
  <2> HIDE DEF h, b
  <2>5. Fields(v, c, p, s, h)
    BY <1>1, <2>1, <2>3, WorkSet, Zenon
  <2>6. CoreInv(c, p, s, h, k, FALSE)
    <3>1. CoreInv(c, p, s, e, k, FALSE)
      BY <1>1, <1>8, WritesOn
    <3> QED
      BY <1>2, <1>3, <2>3, <3>1, CoreSame
  <2>7. Sound(v, k)
    BY <2>5, <2>6, SoundBy, Zenon
  <2>8. Due(w) => Due(v)
    BY <2>3, <2>4, <2>5 DEF Due, DueInv, Fields
  <2> QED
    BY <2>7, <2>8
<1>9. CASE p.st = "est" /\ v = Nc!Written(w, len, k.len)
  <2> DEFINE q == [p EXCEPT !.used = p.used + len]
             b == e.send /\ Nc!Writable(q)
             h == [e EXCEPT !.send = b]
             z == [c EXCEPT !.woff = 0]
             d == [c EXCEPT !.woff = c.woff + len]
  <2>1. \/ c.woff + len = k.len /\ Fields(v, Done(z), q, s + 1, h)
        \/ c.woff + len # k.len /\ Fields(v, d, q, s, h)
    BY <1>1, <1>3, <1>4, <1>9, WrittenIs, Zenon
  <2>2. q \in ConnPcb /\ h \in EventRec
    <3> HIDE DEF q, h, z, d
    <3> QED
      BY <2>1, FieldTypes
  <2>3. /\ q.st = p.st /\ q.arg = p.arg /\ q.sent = p.sent /\ q.poll = p.poll /\ q.errf = p.errf
        /\ q.refused = p.refused /\ q.used = p.used + len
    BY <1>2 DEF ConnPcb
  <2>4. h.rcv = e.rcv /\ h.send = b
    <3> HIDE DEF b
    <3> QED
      BY <1>2 DEF EventRec
  <2>5. b = FALSE => e.send = FALSE \/ q.used > 0
    <3> HIDE DEF q
    <3> QED
      BY <1>2, <2>2, FullHolds DEF EventRec
  <2> HIDE DEF q, b, h
  <2>9. CoreInv(c, p, s, e, k, FALSE)
    BY <1>1, <1>9, WritesOn
  <2>6. e.send = FALSE /\ p.used > 0 => q.used > 0
    BY <1>3, <1>4, <2>3
  <2>7. CASE c.woff + len = k.len /\ Fields(v, Done(z), q, s + 1, h)
    <3>1. /\ z \in ConnRec /\ z.state = c.state /\ z.cur = c.cur /\ z.pcb = c.pcb
          /\ z.inconn = c.inconn /\ z.freed = c.freed /\ z.halved = c.halved
          /\ z.rvalid = c.rvalid /\ z.avalid = c.avalid /\ z.rmbox = c.rmbox
          /\ z.ambox = c.ambox /\ z.lerr = c.lerr /\ z.woff = 0 /\ z.checkws = c.checkws
      BY <1>2 DEF ConnRec
    <3> HIDE DEF z
    <3>2. z.woff < k.len
      BY <1>3, <3>1
    <3>3. CoreInv(z, q, s, h, k, FALSE)
      BY <2>2, <2>3, <2>4, <2>9, <3>1, <3>2, CoreSame
    <3>4. CoreInv(Done(z), q, s + 1, h, k, FALSE)
      <4>1. z.state = "WRITE"
        BY <1>1, <3>1 DEF Writing
      <4> QED
        BY <3>3, <4>1, CoreWrites, WriteOver
    <3>5. Done(z).pcb = z.pcb /\ Done(z).checkws = z.checkws
      BY <3>1 DEF Done, ConnRec
    <3>6. Sound(v, k)
      BY <2>7, <3>4, SoundBy, Zenon
    <3>7. Due(w) => Due(v)
      BY <2>3, <2>4, <2>5, <2>6, <2>7, <3>1, <3>5 DEF Due, DueInv, Fields
    <3> QED
      BY <3>6, <3>7
  <2>8. CASE c.woff + len # k.len /\ Fields(v, d, q, s, h)
    <3>1. /\ d.state = c.state /\ d.cur = c.cur /\ d.pcb = c.pcb
          /\ d.inconn = c.inconn /\ d.freed = c.freed /\ d.halved = c.halved
          /\ d.rvalid = c.rvalid /\ d.avalid = c.avalid /\ d.rmbox = c.rmbox
          /\ d.ambox = c.ambox /\ d.lerr = c.lerr /\ d.woff = c.woff + len /\ d.checkws = c.checkws
      BY <1>2 DEF ConnRec
    <3>2. d \in ConnRec
      BY <2>8, FieldTypes, Zenon
    <3> HIDE DEF d
    <3>3. d.woff < k.len
      BY <1>3, <1>4, <2>8, <3>1
    <3>4. CoreInv(d, q, s, h, k, FALSE)
      BY <2>2, <2>3, <2>4, <2>9, <3>1, <3>2, <3>3, CoreSame
    <3>5. Sound(v, k)
      BY <2>8, <3>4, SoundBy, Zenon
    <3>6. Due(w) => Due(v)
      BY <2>3, <2>4, <2>5, <2>6, <2>8, <3>1 DEF Due, DueInv, Fields
    <3> QED
      BY <3>5, <3>6
  <2> QED
    BY <2>1, <2>7, <2>8, Zenon
<1> QED
  BY <1>5, <1>6, <1>7, <1>8, <1>9, Zenon

-----------------------------------------------------------------------------
\* The block that is not there.
LEMMA NoPcbIs ==
  ASSUME SndBuf \in Nat \ {0}
  PROVE  Nc!NoPcb \in ConnPcb /\ Nc!NoPcb.st = "none" /\ Nc!NoPcb.refused = FALSE
<1>1. 0 \in 0 .. SndBuf
  OBVIOUS
<1> QED
  BY <1>1 DEF Nc!NoPcb, ConnPcb

\* A flag of the block changes neither its state nor its buffer.
Kept(p, q) == q \in ConnPcb /\ q.st = p.st /\ q.used = p.used

\* Any of its flags.
LEMMA FlagSet ==
  ASSUME NEW p \in ConnPcb, NEW b \in BOOLEAN
  PROVE  /\ Kept(p, [p EXCEPT !.arg = b])
         /\ Kept(p, [p EXCEPT !.recv = b])
         /\ Kept(p, [p EXCEPT !.sent = b])
         /\ Kept(p, [p EXCEPT !.poll = b])
         /\ Kept(p, [p EXCEPT !.errf = b])
         /\ Kept(p, [p EXCEPT !.rxclosed = b])
         /\ Kept(p, [p EXCEPT !.txclosed = b])
         /\ Kept(p, [p EXCEPT !.refused = b])
<1>1. Kept(p, [p EXCEPT !.arg = b])
  BY DEF ConnPcb, Kept
<1>2. Kept(p, [p EXCEPT !.recv = b])
  BY DEF ConnPcb, Kept
<1>3. Kept(p, [p EXCEPT !.sent = b])
  BY DEF ConnPcb, Kept
<1>4. Kept(p, [p EXCEPT !.poll = b])
  BY DEF ConnPcb, Kept
<1>5. Kept(p, [p EXCEPT !.errf = b])
  BY DEF ConnPcb, Kept
<1>6. Kept(p, [p EXCEPT !.rxclosed = b])
  BY DEF ConnPcb, Kept
<1>7. Kept(p, [p EXCEPT !.txclosed = b])
  BY DEF ConnPcb, Kept
<1>8. Kept(p, [p EXCEPT !.refused = b])
  BY DEF ConnPcb, Kept
<1> QED
  BY <1>1, <1>2, <1>3, <1>4, <1>5, <1>6, <1>7, <1>8

\* What tcp_close and tcp_shutdown leave of the block.
LEMMA ClosedIs ==
  ASSUME SndBuf \in Nat \ {0}, NEW p \in ConnPcb, NEW how \in {"RD", "WR", "RDWR"},
         NEW r \in Nc!tcp_closed(Nc!Unset(p, how), how)
  PROVE  /\ r.pcb \in ConnPcb
         /\ \/ r.ok = TRUE /\ how = "RDWR" /\ r.pcb.st = "none"
            \/ r.ok = TRUE /\ how # "RDWR" /\ r.pcb.st = p.st
            \/ r.ok = FALSE /\ p.st = "est" /\ r.pcb.st = p.st /\ r.pcb.used = p.used
<1> DEFINE u == Nc!Unset(p, how)
           x == u.rxclosed \/ how = "RD"
           y == u.txclosed \/ (how = "WR" /\ Nc!NeedsFin(u))
           z == u.refused /\ how # "RD"
           q == [u EXCEPT !.rxclosed = x, !.txclosed = y, !.refused = z]
           g == IF how = "RDWR" THEN Nc!NoPcb ELSE q
<1>1. u \in ConnPcb /\ u.st = p.st /\ u.used = p.used
  <2> DEFINE b1 == p.arg /\ how # "RDWR"
             b2 == p.recv /\ (p.st = "listen" \/ how = "WR")
             b3 == p.sent /\ (p.st = "listen" \/ how = "RD")
             b4 == p.poll /\ (p.st = "listen" \/ how # "RDWR")
             b5 == p.errf /\ (p.st = "listen" \/ how # "RDWR")
  <2>1. b1 \in BOOLEAN /\ b2 \in BOOLEAN /\ b3 \in BOOLEAN /\ b4 \in BOOLEAN /\ b5 \in BOOLEAN
    OBVIOUS
  <2>2. u = [p EXCEPT !.arg = b1, !.recv = b2, !.sent = b3, !.poll = b4, !.errf = b5]
    BY DEF Nc!Unset
  <2> DEFINE u1 == [p EXCEPT !.arg = b1]
             u2 == [u1 EXCEPT !.recv = b2]
             u3 == [u2 EXCEPT !.sent = b3]
             u4 == [u3 EXCEPT !.poll = b4]
  <2>3. u = [u4 EXCEPT !.errf = b5]
    BY <2>2, Zenon
  <2> HIDE DEF b1, b2, b3, b4, b5, u
  <2>4. Kept(p, u1)
    BY <2>1, FlagSet, Zenon
  <2> HIDE DEF u1
  <2>5. Kept(u1, u2)
    BY <2>1, <2>4, FlagSet, Zenon DEF Kept
  <2> HIDE DEF u2
  <2>6. Kept(u2, u3)
    BY <2>1, <2>5, FlagSet, Zenon DEF Kept
  <2> HIDE DEF u3
  <2>7. Kept(u3, u4)
    BY <2>1, <2>6, FlagSet, Zenon DEF Kept
  <2> HIDE DEF u4
  <2>8. Kept(u4, u)
    BY <2>1, <2>3, <2>7, FlagSet, Zenon DEF Kept
  <2> QED
    BY <2>4, <2>5, <2>6, <2>7, <2>8 DEF Kept
<1> HIDE DEF u
<1>2. x \in BOOLEAN /\ y \in BOOLEAN /\ z \in BOOLEAN
  OBVIOUS
<1>3. r \in {[ok |-> TRUE, pcb |-> g]} \/ (Nc!NeedsFin(u) /\ r \in {[ok |-> FALSE, pcb |-> u]})
  <2>1. Nc!tcp_closed(u, how)
          = {[ok |-> TRUE, pcb |-> g]}
            \cup (IF Nc!NeedsFin(u) /\ how # "RD" THEN {[ok |-> FALSE, pcb |-> u]} ELSE {})
    BY DEF Nc!tcp_closed
  <2>2. r \in Nc!tcp_closed(u, how)
    BY DEF u
  <2> HIDE DEF g
  <2> QED
    BY <2>1, <2>2
<1>4. q \in ConnPcb /\ q.st = p.st
  <2> DEFINE q1 == [u EXCEPT !.rxclosed = x]
             q2 == [q1 EXCEPT !.txclosed = y]
  <2>1. q = [q2 EXCEPT !.refused = z]
    OBVIOUS
  <2> HIDE DEF x, y, z, q
  <2>2. Kept(u, q1)
    BY <1>1, <1>2, FlagSet, Zenon
  <2> HIDE DEF q1
  <2>3. Kept(q1, q2)
    BY <1>2, <2>2, FlagSet, Zenon DEF Kept
  <2> HIDE DEF q2
  <2>4. Kept(q2, q)
    BY <1>2, <2>1, <2>3, FlagSet, Zenon DEF Kept
  <2> QED
    BY <1>1, <2>2, <2>3, <2>4 DEF Kept
<1> HIDE DEF q
<1>5. g \in ConnPcb /\ (how = "RDWR" => g.st = "none") /\ (how # "RDWR" => g.st = p.st)
  BY <1>4, NoPcbIs
<1> HIDE DEF g
<1>6. CASE r = [ok |-> TRUE, pcb |-> g]
  BY <1>5, <1>6
<1>7. CASE Nc!NeedsFin(u) /\ r = [ok |-> FALSE, pcb |-> u]
  BY <1>1, <1>7 DEF Nc!NeedsFin
<1> QED
  BY <1>3, <1>6, <1>7

\* A close under way, by whichever call.
Closing(c, p, s, e, k, how) ==
  /\ c.state = "CLOSE" /\ c.cur = TRUE /\ c.pcb = TRUE /\ c.freed = FALSE /\ s = 0
  /\ k \in MsgRec /\ k.at = "wait"
  /\ (k.fn = "delete" /\ how = "RDWR") \/ (k.fn = "close" /\ how = k.how)
  /\ how # "WR" => c.rvalid = FALSE /\ c.avalid = FALSE
  /\ p.st = "synsent" => how = "RDWR"
  /\ c.inconn = TRUE => p.st = "synsent"
  /\ CountedInv(c, p, e, k)

\* do_close_internal: the close ends, or its callbacks are set again.
LEMMA CloseKeeps ==
  ASSUME SndBuf \in Nat \ {0}, NEW how \in {"RD", "WR", "RDWR"},
         NEW w \in WorkRec, NEW k, Closing(w.conn, w.pcb, w.sem, w.sock, k, how),
         NEW v \in Nc!do_close_internal(w, how)
  PROVE  Sound(v, k) /\ (Due(w) => Due(v))
<1> DEFINE c == w.conn
           p == w.pcb
           s == w.sem
           e == w.sock
           a == Nc!Finish(w, "OK")
<1>1. c \in ConnRec /\ p \in ConnPcb /\ s \in Nat /\ e \in EventRec
  BY WorkFields, Zenon
<1>2. Fields(w, c, p, s, e)
  BY DEF Fields
<1>3. Fields(a, Done(c), p, s + 1, e)
  BY <1>2, FinishIs, ErrCodesAre, Zenon
<1>4. Closing(c, p, s, e, k, how)
  OBVIOUS
<1>5. PICK r \in Nc!tcp_closed(Nc!Unset(p, how), how) :
        v = IF r.ok
            THEN [a EXCEPT
                    !.pcb = r.pcb,
                    !.conn.pcb = FALSE,
                    !.conn.halved = @ \/ how # "RDWR",
                    !.sock = [rcv |-> IF how = "WR" THEN @.rcv ELSE @.rcv + 1,
                              send |-> @.send \/ how # "RD",
                              err |-> @.err \/ how = "RDWR"]]
            ELSE [w EXCEPT !.pcb = [r.pcb EXCEPT !.sent = TRUE, !.poll = TRUE,
                                                 !.errf = TRUE, !.arg = TRUE]]
  BY DEF Nc!do_close_internal
<1> HIDE DEF a
<1>6. /\ r.pcb \in ConnPcb
      /\ \/ r.ok = TRUE /\ how = "RDWR" /\ r.pcb.st = "none"
         \/ r.ok = TRUE /\ how # "RDWR" /\ r.pcb.st = p.st
         \/ r.ok = FALSE /\ p.st = "est" /\ r.pcb.st = p.st /\ r.pcb.used = p.used
  BY <1>1, ClosedIs, Zenon
<1>7. CASE r.ok = TRUE
  <2> DEFINE q == r.pcb
             b == c.halved \/ how # "RDWR"
             d == [Done(c) EXCEPT !.pcb = FALSE, !.halved = b]
             n == IF how = "WR" THEN e.rcv ELSE e.rcv + 1
             b1 == e.send \/ how # "RD"
             b2 == e.err \/ how = "RDWR"
             h == [rcv |-> n, send |-> b1, err |-> b2]
             a1 == [a EXCEPT !.pcb = q]
             a2 == [a1 EXCEPT !.conn = d]
             a3 == [a2 EXCEPT !.sock = h]
  <2>1. a \in WorkRec /\ a.conn = Done(c) /\ a.sock = e /\ Done(c).halved = c.halved
    <3>1. a \in WorkRec /\ a.conn = Done(c) /\ a.sock = e
      BY <1>3 DEF Fields
    <3> QED
      BY <1>1, <3>1 DEF Done, ConnRec
  <2>2. v = a3
    <3>1. v = [a EXCEPT
                    !.pcb = q,
                    !.conn.pcb = FALSE,
                    !.conn.halved = @ \/ how # "RDWR",
                    !.sock = [rcv |-> IF how = "WR" THEN @.rcv ELSE @.rcv + 1,
                              send |-> @.send \/ how # "RD",
                              err |-> @.err \/ how = "RDWR"]]
      BY <1>5, <1>7, Zenon
    <3> QED
      BY <2>1, <3>1 DEF WorkRec
  <2>3. /\ d \in ConnRec /\ d.state = "NONE" /\ d.cur = FALSE /\ d.pcb = FALSE
        /\ d.freed = FALSE /\ d.inconn = c.inconn /\ d.rvalid = c.rvalid /\ d.avalid = c.avalid
        /\ d.rmbox = c.rmbox /\ d.ambox = c.ambox /\ d.lerr = c.lerr
        /\ (how # "RDWR" => d.halved = TRUE)
    <3>1. b \in BOOLEAN /\ (how # "RDWR" => b = TRUE)
      OBVIOUS
    <3> HIDE DEF b
    <3>2. Done(c) \in ConnRec /\ Done(c).state = "NONE" /\ Done(c).cur = FALSE
      BY <1>1 DEF Done, ConnRec
    <3>3. d \in ConnRec
      BY <3>1, <3>2 DEF ConnRec
    <3>4. /\ d.state = "NONE" /\ d.cur = FALSE /\ d.pcb = FALSE /\ d.halved = b
      BY <3>2 DEF ConnRec
    <3>5. /\ d.freed = c.freed /\ d.inconn = c.inconn /\ d.rvalid = c.rvalid
          /\ d.avalid = c.avalid /\ d.rmbox = c.rmbox /\ d.ambox = c.ambox /\ d.lerr = c.lerr
      BY <1>1 DEF ConnRec, Done
    <3> QED
      BY <1>4, <3>1, <3>3, <3>4, <3>5 DEF Closing
  <2>4. h \in EventRec /\ h.rcv = n
    <3>1. b1 \in BOOLEAN /\ b2 \in BOOLEAN
      OBVIOUS
    <3>2. n \in Int
      BY <1>1 DEF EventRec
    <3> HIDE DEF b1, b2, n
    <3> QED
      BY <3>1, <3>2 DEF EventRec
  <2> HIDE DEF d, h, q
  <2>5. Fields(a1, Done(c), q, s + 1, e)
    BY <1>3, <1>6, WorkSet, Zenon DEF q
  <2> HIDE DEF a1
  <2>6. Fields(a2, d, q, s + 1, e)
    BY <2>3, <2>5, WorkSet, Zenon
  <2> HIDE DEF a2
  <2>7. Fields(v, d, q, s + 1, h)
    BY <2>2, <2>4, <2>6, WorkSet, Zenon
  <2>8. WokenInv(d, s + 1, k)
    BY <1>4, <2>3 DEF Closing, WokenInv
  <2>9. MessageInv(d, k)
    BY <1>4, <2>3 DEF Closing, MessageInv
  <2>10. BlockInv(d, q, k, FALSE)
    <3>1. q.st = "none" \/ (how # "RDWR" /\ q.st # "synsent")
      BY <1>4, <1>6, <1>7 DEF q, Closing
    <3> QED
      BY <2>3, <3>1 DEF BlockInv
  <2>11. CountedInv(d, q, h, k)
    BY <1>4, <2>3, <2>4 DEF Closing, CountedInv
  <2>12. q \in ConnPcb /\ s + 1 \in Nat
    BY <1>1, <1>6 DEF q
  <2>13. CoreInv(d, q, s + 1, h, k, FALSE)
    BY <1>4, <2>3, <2>4, <2>8, <2>9, <2>10, <2>11, <2>12 DEF CoreInv, Closing
  <2>14. Sound(v, k)
    BY <2>7, <2>13, SoundBy, Zenon
  <2>15. Due(v)
    BY <2>3, <2>7 DEF Due, DueInv, Fields
  <2> QED
    BY <2>14, <2>15
<1>8. CASE r.ok = FALSE
  <2> DEFINE q == [r.pcb EXCEPT !.sent = TRUE, !.poll = TRUE, !.errf = TRUE, !.arg = TRUE]
  <2>1. v = [w EXCEPT !.pcb = q]
    BY <1>5, <1>8, Zenon
  <2>2. p.st = "est"
    BY <1>6, <1>8
  <2>3. /\ q \in ConnPcb /\ q.st = "est" /\ q.used = p.used
        /\ q.sent = TRUE /\ q.poll = TRUE /\ q.errf = TRUE /\ q.arg = TRUE
    BY <1>6, <1>8 DEF ConnPcb
  <2> HIDE DEF q
  <2>4. Fields(v, c, q, s, e)
    BY <1>2, <2>1, <2>3, WorkSet, Zenon
  <2>5. WokenInv(c, s, k)
    BY <1>4 DEF Closing, WokenInv
  <2>6. MessageInv(c, k)
    BY <1>4 DEF Closing, MessageInv
  <2>7. BlockInv(c, q, k, FALSE)
    BY <1>4, <2>2, <2>3 DEF Closing, BlockInv, Linked
  <2>8. CountedInv(c, q, e, k)
    BY <1>4, <2>3 DEF Closing, CountedInv
  <2>9. CoreInv(c, q, s, e, k, FALSE)
    BY <1>1, <1>4, <2>3, <2>5, <2>6, <2>7, <2>8 DEF CoreInv, Closing
  <2>10. Sound(v, k)
    BY <2>4, <2>9, SoundBy, Zenon
  <2>11. Due(w) => Due(v)
    BY <2>2, <2>3, <2>4 DEF Due, DueInv, Fields
  <2> QED
    BY <2>10, <2>11
<1> QED
  BY <1>6, <1>7, <1>8

-----------------------------------------------------------------------------
\* tcpip_thread has taken the message: k is the message the thread waits for.
InHand(k) ==
  /\ apimsg.at = "queued"
  /\ k \in MsgRec /\ k.at = "wait"
  /\ k.fn = apimsg.fn /\ k.len = apimsg.len /\ k.how = apimsg.how

\* Nothing is under way when it comes.
AtRest(c, p, s, e, k) ==
  /\ c.cur = FALSE /\ s = 0 /\ c.state \in {"NONE", "LISTEN", "CONNECT"}
  /\ c.freed = TRUE => c.pcb = FALSE
  /\ k.fn = "write" => k.len > 0
  /\ k.fn = "close" => k.how \in {"RD", "WR", "RDWR"}
  /\ c.inconn = TRUE => c.state = "CONNECT" \/ c.pcb = FALSE
  /\ CountedInv(c, p, e, k)

\* Why that is so: the thread that waits for this message is the only one.
LEMMA InHandIdle ==
  ASSUME NEW c, NEW p, NEW s, NEW e, CoreInv(c, p, s, e, apimsg, FALSE), NEW k, InHand(k)
  PROVE  AtRest(c, p, s, e, k)
<1>1. c.cur = FALSE /\ s = 0 /\ c.state \in {"NONE", "LISTEN", "CONNECT"}
  BY DEF CoreInv, InHand, WokenInv, ConnRec
<1>2. CountedInv(c, p, e, k)
  BY DEF CoreInv, InHand, CountedInv
<1>3. (k.fn = "write" => k.len > 0) /\ (k.fn = "close" => k.how \in {"RD", "WR", "RDWR"})
  BY DEF CoreInv, InHand, MessageInv
<1>4. /\ c.freed = TRUE => c.pcb = FALSE
      /\ c.inconn = TRUE => c.state = "CONNECT" \/ c.pcb = FALSE
  BY DEF CoreInv, BlockInv
<1> QED
  BY <1>1, <1>2, <1>3, <1>4 DEF AtRest

\* It is answered at once.
LEMMA AnsweredAtOnce ==
  ASSUME NEW w, NEW k, Sound(w, apimsg), InHand(k), NEW r \in ErrCodes,
         k.fn = "delete" => w.conn.pcb = FALSE
  PROVE  Sound(Nc!Ack(w, r), k) /\ (Due(w) => Due(Nc!Ack(w, r)))
<1> DEFINE c == w.conn
           p == w.pcb
           s == w.sem
           e == w.sock
           v == Nc!Ack(w, r)
<1>1. Fields(w, c, p, s, e) /\ CoreInv(c, p, s, e, apimsg, FALSE)
  BY DEF Sound, Fields
<1>2. Fields(v, c, p, s + 1, e)
  BY <1>1, AckIs, Zenon
<1> HIDE DEF v
<1>3. /\ c.cur = FALSE /\ s = 0 /\ c.state \in {"NONE", "LISTEN", "CONNECT"}
      /\ k.fn = "write" => k.len > 0
      /\ k.fn = "close" => k.how \in {"RD", "WR", "RDWR"}
      /\ CountedInv(c, p, e, k)
  BY <1>1, InHandIdle DEF AtRest
<1>4. WokenInv(c, s + 1, k)
  BY <1>1, <1>3 DEF CoreInv, WokenInv, InHand
<1>5. MessageInv(c, k)
  BY <1>3 DEF MessageInv, InHand
<1>6. BlockInv(c, p, k, FALSE)
  BY <1>1, <1>3 DEF CoreInv, BlockInv
<1>7. CoreInv(c, p, s + 1, e, k, FALSE)
  <2>1. s + 1 \in Nat
    BY <1>3
  <2> QED
    BY <1>1, <1>3, <1>4, <1>5, <1>6, <2>1, Zenon DEF CoreInv, InHand
<1>8. Sound(v, k)
  BY <1>2, <1>7, SoundBy, Zenon
<1>9. Due(w) => Due(v)
  BY <1>2 DEF Due, Fields
<1> QED
  BY <1>8, <1>9 DEF v

\* do_write.
LEMMA WriteKeeps ==
  ASSUME SndBuf \in Nat \ {0}, NEW w, NEW k, Sound(w, apimsg), InHand(k), apimsg.fn = "write",
         NEW v \in Nc!do_write(w)
  PROVE  Sound(v, k) /\ (Due(w) => Due(v))
<1> DEFINE c == w.conn
           p == w.pcb
           s == w.sem
           e == w.sock
           u == [w EXCEPT !.conn.state = "WRITE", !.conn.cur = TRUE, !.conn.woff = 0]
           d == [c EXCEPT !.state = "WRITE", !.cur = TRUE, !.woff = 0]
<1>1. Fields(w, c, p, s, e) /\ CoreInv(c, p, s, e, apimsg, FALSE) /\ w \in WorkRec
      /\ c \in ConnRec /\ p \in ConnPcb /\ e \in EventRec
  BY WorkFields DEF Sound, Fields
<1>2. k.fn = "write" /\ k.len = apimsg.len /\ k \in MsgRec /\ k.at = "wait"
  BY DEF InHand
<1>3. \/ \E r \in ErrCodes : v = Nc!Ack(w, r)
      \/ c.state = "NONE" /\ c.pcb = TRUE /\ v \in Nc!do_writemore(u, k.len)
  <2>1. c.lerr \in ErrCodes /\ c.pcb \in BOOLEAN
    BY <1>1 DEF ConnRec
  <2>2. \/ v = Nc!Ack(w, c.lerr) \/ v = Nc!Ack(w, "INPROGRESS") \/ v = Nc!Ack(w, "CONN")
        \/ c.state = "NONE" /\ c.pcb /\ v \in Nc!do_writemore(u, apimsg.len)
    BY Zenon DEF Nc!do_write
  <2> HIDE DEF u
  <2> QED
    BY <1>2, <2>1, <2>2, ErrCodesAre, Zenon
<1>4. CASE \E r \in ErrCodes : v = Nc!Ack(w, r)
  BY <1>2, <1>4, AnsweredAtOnce
<1>5. CASE c.state = "NONE" /\ c.pcb = TRUE /\ v \in Nc!do_writemore(u, k.len)
  <2>1. u = [w EXCEPT !.conn = d]
    BY <1>1 DEF WorkRec
  <2>2. /\ d \in ConnRec /\ d.state = "WRITE" /\ d.cur = TRUE /\ d.woff = 0 /\ d.pcb = c.pcb
        /\ d.freed = c.freed /\ d.inconn = c.inconn /\ d.rvalid = c.rvalid /\ d.avalid = c.avalid
        /\ d.rmbox = c.rmbox /\ d.ambox = c.ambox /\ d.lerr = c.lerr /\ d.checkws = c.checkws
    BY <1>1 DEF ConnRec
  <2> HIDE DEF d, u
  <2>3. Fields(u, d, p, s, e)
    BY <1>1, <2>1, <2>2, WorkSet, Zenon
  <2>4. /\ s = 0 /\ k.len > 0 /\ (c.freed = TRUE => c.pcb = FALSE)
        /\ c.inconn = TRUE => c.state = "CONNECT" \/ c.pcb = FALSE
        /\ CountedInv(c, p, e, k)
    <3>1. AtRest(c, p, s, e, k)
      BY <1>1, InHandIdle, Zenon
    <3> QED
      BY <1>2, <3>1 DEF AtRest
  <2>5. /\ p.st # "synsent"
        /\ p.st = "est" => p.arg = TRUE /\ p.sent = TRUE /\ p.poll = TRUE /\ p.errf = TRUE
    BY <1>1, <1>5 DEF CoreInv, BlockInv, Linked
  <2>6. CountedInv(d, p, e, k)
    BY <2>2, <2>4 DEF CountedInv
  <2>7. d.freed = FALSE /\ d.inconn = FALSE
    BY <1>1, <1>5, <2>2, <2>4 DEF ConnRec
  <2>8. Writing(d, p, s, e, k)
    <3>1. d.woff < k.len
      BY <1>2, <2>2, <2>4 DEF MsgRec
    <3> QED
      BY <1>1, <1>2, <1>5, <2>2, <2>4, <2>5, <2>6, <2>7, <3>1, Zenon DEF Writing
  <2>9. u \in WorkRec /\ u.conn = d /\ u.pcb = p /\ u.sem = s /\ u.sock = e
    BY <2>3 DEF Fields
  <2>10. Sound(v, k) /\ (Due(u) => Due(v))
    BY <1>5, <2>8, <2>9, WriteMoreKeeps
  <2>11. Due(w) => Due(u)
    BY <2>2, <2>9 DEF Due, DueInv
  <2> QED
    BY <2>10, <2>11
<1> QED
  BY <1>3, <1>4, <1>5

\* The mailboxes are emptied and given up.
LEMMA DrainIs ==
  ASSUME NEW c \in ConnRec
  PROVE  LET d == Nc!netconn_drain(c) IN
         /\ d \in ConnRec /\ d.rvalid = FALSE /\ d.avalid = FALSE
         /\ d.state = c.state /\ d.cur = c.cur /\ d.pcb = c.pcb /\ d.freed = c.freed
         /\ d.inconn = c.inconn /\ d.halved = c.halved /\ d.lerr = c.lerr /\ d.checkws = c.checkws
<1> DEFINE d == [c EXCEPT !.rvalid = FALSE, !.rmbox = <<>>, !.avalid = FALSE, !.ambox = <<>>]
<1>1. <<>> \in Seq({"data", "eof"}) /\ <<>> \in Seq({"new", "eof"})
  OBVIOUS
<1>2. d \in ConnRec
  BY <1>1 DEF ConnRec
<1>3. /\ d.rvalid = FALSE /\ d.avalid = FALSE
      /\ d.state = c.state /\ d.cur = c.cur /\ d.pcb = c.pcb /\ d.freed = c.freed
      /\ d.inconn = c.inconn /\ d.halved = c.halved /\ d.lerr = c.lerr /\ d.checkws = c.checkws
  BY DEF ConnRec
<1> HIDE DEF d
<1>4. Nc!netconn_drain(c) = d
  BY DEF Nc!netconn_drain, d
<1> QED
  BY <1>2, <1>3, <1>4

\* do_close and do_delconn begin to close the connection of the netconn x,
\* which is that of w with its mailboxes or without.
LEMMA CloseBegins ==
  ASSUME SndBuf \in Nat \ {0}, NEW how \in {"RD", "WR", "RDWR"},
         NEW w, NEW k, Sound(w, apimsg), InHand(k),
         (k.fn = "delete" /\ how = "RDWR") \/ (k.fn = "close" /\ how = k.how),
         w.conn.pcb = TRUE, w.conn.state = "CONNECT" => how = "RDWR",
         NEW x, (x = w.conn /\ how = "WR") \/ x = Nc!netconn_drain(w.conn),
         NEW v \in Nc!do_close_internal(
                [w EXCEPT !.conn = [x EXCEPT !.state = "CLOSE", !.cur = TRUE]], how)
  PROVE  Sound(v, k) /\ (Due(w) => Due(v))
<1> DEFINE c == w.conn
           p == w.pcb
           s == w.sem
           e == w.sock
           d == [x EXCEPT !.state = "CLOSE", !.cur = TRUE]
           u == [w EXCEPT !.conn = d]
<1>1. Fields(w, c, p, s, e) /\ CoreInv(c, p, s, e, apimsg, FALSE)
      /\ c \in ConnRec /\ p \in ConnPcb /\ e \in EventRec
  BY WorkFields DEF Sound, Fields
<1>2. AtRest(c, p, s, e, k)
  BY <1>1, InHandIdle, Zenon
<1>3. /\ x \in ConnRec /\ x.pcb = TRUE /\ x.freed = c.freed /\ x.inconn = c.inconn
      /\ x.checkws = c.checkws
      /\ (x = c /\ how = "WR") \/ (x.rvalid = FALSE /\ x.avalid = FALSE)
  <2>1. CASE x = c /\ how = "WR"
    BY <1>1, <2>1
  <2>2. CASE x = Nc!netconn_drain(c)
    BY <1>1, <2>2, DrainIs
  <2> QED
    BY <2>1, <2>2
<1>4. d \in ConnRec
  BY <1>3 DEF ConnRec
<1>5. /\ d.state = "CLOSE" /\ d.cur = TRUE /\ d.pcb = TRUE /\ d.freed = x.freed
      /\ d.inconn = x.inconn /\ d.rvalid = x.rvalid /\ d.avalid = x.avalid /\ d.rmbox = x.rmbox
      /\ d.ambox = x.ambox /\ d.lerr = x.lerr /\ d.checkws = x.checkws
  BY <1>3 DEF ConnRec
<1>6. v \in Nc!do_close_internal(u, how)
  OBVIOUS
<1> HIDE DEF d
<1>7. Fields(u, d, p, s, e)
  BY <1>1, <1>4, WorkSet, Zenon
<1> HIDE DEF u
<1>8. u \in WorkRec /\ u.conn = d /\ u.pcb = p /\ u.sem = s /\ u.sock = e
  BY <1>7 DEF Fields
<1>9. CountedInv(d, p, e, k)
  <2>1. CASE x = c
    BY <1>2, <1>5, <2>1 DEF AtRest, CountedInv
  <2>2. CASE x.rvalid = FALSE /\ x.avalid = FALSE
    BY <1>2, <1>3, <1>5, <2>2 DEF AtRest, CountedInv
  <2> QED
    BY <1>3, <2>1, <2>2
<1>10. p.st = "synsent" <=> c.state = "CONNECT"
  BY <1>1 DEF CoreInv, BlockInv
<1>11. d.freed = FALSE /\ (d.inconn = TRUE => p.st = "synsent")
  BY <1>1, <1>2, <1>3, <1>5, <1>10 DEF AtRest, ConnRec
<1>12. how # "WR" => d.rvalid = FALSE /\ d.avalid = FALSE
  BY <1>3, <1>5
<1>13. Closing(d, p, s, e, k, how)
  <2>1. s = 0 /\ k \in MsgRec /\ k.at = "wait"
    BY <1>2 DEF AtRest, InHand
  <2> QED
    BY <1>5, <1>9, <1>10, <1>11, <1>12, <2>1 DEF Closing
<1>14. Sound(v, k) /\ (Due(u) => Due(v))
  BY <1>6, <1>8, <1>13, CloseKeeps
<1>15. Due(w) => Due(u)
  BY <1>3, <1>5, <1>8 DEF Due, DueInv
<1> QED
  BY <1>14, <1>15

\* do_close.
LEMMA DoCloseKeeps ==
  ASSUME SndBuf \in Nat \ {0}, NEW w, NEW k, Sound(w, apimsg), InHand(k), apimsg.fn = "close",
         NEW v \in Nc!do_close(w)
  PROVE  Sound(v, k) /\ (Due(w) => Due(v))
<1> DEFINE c == w.conn
           x == IF apimsg.how = "WR" THEN c ELSE Nc!netconn_drain(c)
           u == [w EXCEPT !.conn = [x EXCEPT !.state = "CLOSE", !.cur = TRUE]]
<1>1. c \in ConnRec
  BY WorkFields DEF Sound
<1>2. k.fn = "close" /\ k.how = apimsg.how
  BY DEF InHand
<1>3. k.how \in {"RD", "WR", "RDWR"}
  <2>1. AtRest(c, w.pcb, w.sem, w.sock, k)
    BY InHandIdle DEF Sound
  <2> QED
    BY <1>2, <2>1 DEF AtRest
<1>4. \/ v = Nc!Ack(w, "INPROGRESS") \/ v = Nc!Ack(w, "VAL") \/ v = Nc!Ack(w, "CONN")
      \/ c.state \in {"NONE", "LISTEN"} /\ c.pcb /\ v \in Nc!do_close_internal(u, apimsg.how)
  BY Zenon DEF Nc!do_close
<1>5. CASE v = Nc!Ack(w, "INPROGRESS") \/ v = Nc!Ack(w, "VAL") \/ v = Nc!Ack(w, "CONN")
  BY <1>2, <1>5, AnsweredAtOnce, ErrCodesAre
<1>6. CASE c.state \in {"NONE", "LISTEN"} /\ c.pcb /\ v \in Nc!do_close_internal(u, apimsg.how)
  <2>1. c.pcb = TRUE /\ c.state # "CONNECT"
    BY <1>1, <1>6 DEF ConnRec
  <2>2. (x = c /\ k.how = "WR") \/ x = Nc!netconn_drain(c)
    BY <1>2, Zenon
  <2>3. v \in Nc!do_close_internal(u, k.how)
    BY <1>2, <1>6
  <2> HIDE DEF x
  <2> QED
    BY <1>2, <1>3, <2>1, <2>2, <2>3, CloseBegins
<1> QED
  BY <1>4, <1>5, <1>6

\* A netconn that is being deleted has nothing to close any more: what is
\* answered is the message.
LEMMA DelconnKeeps ==
  ASSUME SndBuf \in Nat \ {0}, NEW w, NEW k, Sound(w, apimsg), InHand(k), apimsg.fn = "delete",
         NEW v \in Nc!do_delconn(w)
  PROVE  Sound(v, k) /\ (Due(w) => Due(v))
<1> DEFINE c == w.conn
           p == w.pcb
           s == w.sem
           e == w.sock
           d == Nc!netconn_drain(c)
           u == [w EXCEPT !.conn = [d EXCEPT !.state = "CLOSE", !.cur = TRUE]]
           t == [w EXCEPT !.conn = d, !.sock.rcv = @ + 1, !.sock.send = TRUE]
           n == e.rcv + 1
           h == [e EXCEPT !.rcv = n, !.send = TRUE]
           w1 == [w EXCEPT !.conn = d]
<1>1. Fields(w, c, p, s, e) /\ CoreInv(c, p, s, e, apimsg, FALSE) /\ w \in WorkRec
      /\ c \in ConnRec /\ p \in ConnPcb /\ e \in EventRec
  BY WorkFields DEF Sound, Fields
<1>2. k.fn = "delete" /\ k \in MsgRec
  BY DEF InHand
<1>3. c.state \in {"NONE", "LISTEN", "CONNECT"}
  BY <1>1, InHandIdle DEF AtRest
<1>4. /\ d \in ConnRec /\ d.rvalid = FALSE /\ d.avalid = FALSE
      /\ d.state = c.state /\ d.cur = c.cur /\ d.pcb = c.pcb /\ d.freed = c.freed
      /\ d.inconn = c.inconn /\ d.halved = c.halved /\ d.lerr = c.lerr /\ d.checkws = c.checkws
  BY <1>1, DrainIs
<1> HIDE DEF d
<1>5. \/ c.pcb = TRUE /\ v \in Nc!do_close_internal(u, "RDWR")
      \/ c.pcb = FALSE /\ v = Nc!Ack(t, "OK")
  <2>1. \/ d.pcb /\ v \in Nc!do_close_internal(u, "RDWR")
        \/ ~d.pcb /\ v = Nc!Ack(t, "OK")
    BY <1>3, Zenon DEF Nc!do_delconn, d
  <2>2. d.pcb \in BOOLEAN
    BY <1>4 DEF ConnRec
  <2> HIDE DEF u, t
  <2> QED
    BY <1>4, <2>1, <2>2
<1>6. CASE c.pcb = TRUE /\ v \in Nc!do_close_internal(u, "RDWR")
  BY <1>2, <1>6, CloseBegins DEF d
<1>7. CASE c.pcb = FALSE /\ v = Nc!Ack(t, "OK")
  <2>1. n \in Int /\ h \in EventRec
    <3>1. n \in Int
      BY <1>1 DEF EventRec
    <3> HIDE DEF n
    <3> QED
      BY <1>1, <3>1 DEF EventRec
  <2>2. [e EXCEPT !.rcv = @ + 1, !.send = TRUE] = h
    BY Zenon
  <2>3. t = [w1 EXCEPT !.sock = h]
    <3>1. t = [w1 EXCEPT !.sock = [e EXCEPT !.rcv = @ + 1, !.send = TRUE]]
      BY <1>1 DEF WorkRec
    <3> HIDE DEF t, h, w1
    <3> QED
      BY <2>2, <3>1, Zenon
  <2> HIDE DEF h, t
  <2>4. Fields(w1, d, p, s, e)
    BY <1>1, <1>4, WorkSet, Zenon
  <2> HIDE DEF w1
  <2>5. Fields(t, d, p, s, h)
    BY <2>1, <2>3, <2>4, WorkSet, Zenon
  <2>6. WokenInv(d, s, apimsg)
    BY <1>1, <1>4 DEF CoreInv, WokenInv
  <2>7. c.state = "NONE"
    BY <1>1, <1>7 DEF CoreInv, BlockInv
  <2>8. MessageInv(d, apimsg)
    BY <1>1, <1>4, <2>7 DEF CoreInv, MessageInv
  <2>9. BlockInv(d, p, apimsg, FALSE)
    BY <1>1, <1>4 DEF CoreInv, BlockInv
  <2>10. CountedInv(d, p, h, apimsg)
    BY <1>4, <1>7 DEF CountedInv
  <2>11. CoreInv(d, p, s, h, apimsg, FALSE)
    BY <1>1, <1>4, <2>1, <2>6, <2>8, <2>9, <2>10 DEF CoreInv
  <2>12. Sound(t, apimsg)
    BY <2>5, <2>11, SoundBy, Zenon
  <2>13. t.conn.pcb = FALSE
    BY <1>4, <1>7, <2>5 DEF Fields
  <2>14. Due(t)
    BY <2>13 DEF Due, DueInv
  <2> QED
    BY <1>7, <2>12, <2>13, <2>14, AnsweredAtOnce, ErrCodesAre
<1> QED
  BY <1>5, <1>6, <1>7, Zenon

\* setup_tcp sets the callbacks on the block and nothing else.
LEMMA SetupIs ==
  ASSUME NEW p \in ConnPcb
  PROVE  LET q == Nc!setup_tcp(p) IN
         /\ q \in ConnPcb /\ q.st = p.st /\ q.used = p.used /\ q.refused = p.refused
         /\ q.arg = TRUE /\ q.sent = TRUE /\ q.poll = TRUE /\ q.errf = TRUE
<1> DEFINE q == [p EXCEPT !.arg = TRUE, !.recv = TRUE, !.sent = TRUE, !.poll = TRUE, !.errf = TRUE]
<1>1. q \in ConnPcb
  BY DEF ConnPcb
<1>2. /\ q.st = p.st /\ q.used = p.used /\ q.refused = p.refused
      /\ q.arg = TRUE /\ q.sent = TRUE /\ q.poll = TRUE /\ q.errf = TRUE
  BY DEF ConnPcb
<1>3. Nc!setup_tcp(p) = q
  BY DEF Nc!setup_tcp
<1> HIDE DEF q
<1> QED
  BY <1>1, <1>2, <1>3

\* do_connect: a blocking connect is the current message until do_connected or
\* err_tcp, one that does not wait is answered at once.
LEMMA DoConnectKeeps ==
  ASSUME SndBuf \in Nat \ {0}, NEW w, NEW k, Sound(w, apimsg), InHand(k), apimsg.fn = "connect",
         NEW v \in Nc!do_connect(w)
  PROVE  Sound(v, k) /\ (Due(w) => Due(v))
<1> DEFINE c == w.conn
           p == w.pcb
           s == w.sem
           e == w.sock
           q == Nc!setup_tcp(p)
           u == [w EXCEPT !.pcb = q]
           g == [q EXCEPT !.st = "synsent"]
           d == [c EXCEPT !.state = "CONNECT", !.inconn = c.nb]
           y == [w EXCEPT !.pcb = g, !.conn.state = "CONNECT", !.conn.inconn = c.nb]
           z == [y EXCEPT !.conn.cur = TRUE]
<1>1. Fields(w, c, p, s, e) /\ CoreInv(c, p, s, e, apimsg, FALSE) /\ w \in WorkRec
      /\ c \in ConnRec /\ p \in ConnPcb /\ e \in EventRec /\ s \in Nat
  BY WorkFields DEF Sound, Fields
<1>2. k.fn = "connect" /\ k \in MsgRec /\ k.at = "wait"
  BY DEF InHand
<1>3. /\ q \in ConnPcb /\ q.st = p.st /\ q.used = p.used /\ q.refused = p.refused
      /\ q.arg = TRUE /\ q.sent = TRUE /\ q.poll = TRUE /\ q.errf = TRUE
  BY <1>1, SetupIs
<1> HIDE DEF q
<1>4. \/ \E r \in ErrCodes : v = Nc!Ack(w, r)
      \/ c.pcb = TRUE /\ c.state = "NONE" /\ \E r \in ErrCodes : v = Nc!Ack(u, r)
      \/ c.pcb = TRUE /\ c.state = "NONE" /\ c.nb = TRUE /\ v = Nc!Ack(y, "INPROGRESS")
      \/ c.pcb = TRUE /\ c.state = "NONE" /\ c.nb = FALSE /\ v = z
  <2>1. c.pcb \in BOOLEAN /\ c.nb \in BOOLEAN
    BY <1>1 DEF ConnRec
  <2>2. \/ v = Nc!Ack(w, "CLSD") \/ v = Nc!Ack(w, "ISCONN")
        \/ /\ c.pcb /\ c.state = "NONE"
           /\ \/ v = Nc!Ack(u, "ISCONN") \/ v = Nc!Ack(u, "MEM")
              \/ v = IF c.nb THEN Nc!Ack(y, "INPROGRESS") ELSE z
    BY Zenon DEF Nc!do_connect, q
  <2> HIDE DEF u, y, z
  <2>3. c.nb => c.nb = TRUE
    BY <2>1
  <2>4. c.pcb => c.pcb = TRUE
    BY <2>1
  <2>5. ~c.nb => c.nb = FALSE
    BY <2>1
  <2> QED
    BY <2>2, <2>3, <2>4, <2>5, ErrCodesAre, Zenon
<1>5. CASE \E r \in ErrCodes : v = Nc!Ack(w, r)
  BY <1>2, <1>5, AnsweredAtOnce
<1>6. CASE c.pcb = TRUE /\ c.state = "NONE" /\ \E r \in ErrCodes : v = Nc!Ack(u, r)
  <2>1. Fields(u, c, q, s, e)
    BY <1>1, <1>3, WorkSet, Zenon
  <2> HIDE DEF u
  <2>2. WokenInv(c, s, apimsg) /\ MessageInv(c, apimsg)
    BY <1>1 DEF CoreInv
  <2>3. BlockInv(c, q, apimsg, FALSE)
    BY <1>1, <1>3 DEF CoreInv, BlockInv, Linked
  <2>4. CountedInv(c, q, e, apimsg)
    BY <1>1, <1>3 DEF CoreInv, CountedInv
  <2>5. CoreInv(c, q, s, e, apimsg, FALSE)
    BY <1>1, <1>3, <2>2, <2>3, <2>4 DEF CoreInv
  <2>6. Sound(u, apimsg)
    BY <2>1, <2>5, SoundBy, Zenon
  <2>7. Due(w) => Due(u)
    BY <1>3, <2>1 DEF Due, DueInv, Fields
  <2> QED
    BY <1>2, <1>6, <2>6, <2>7, AnsweredAtOnce
<1>7. ASSUME c.pcb = TRUE, c.state = "NONE"
      PROVE  /\ Fields(y, d, g, s, e) /\ d \in ConnRec /\ g \in ConnPcb
             /\ g.st = "synsent" /\ d.state = "CONNECT" /\ d.inconn = c.nb
             /\ g.arg = TRUE /\ g.sent = TRUE /\ g.poll = TRUE /\ g.errf = TRUE
             /\ d.cur = c.cur /\ d.pcb = TRUE /\ d.freed = FALSE
             /\ d.rvalid = c.rvalid /\ d.avalid = c.avalid /\ d.rmbox = c.rmbox
             /\ d.ambox = c.ambox /\ d.lerr = c.lerr
  <2>1. g \in ConnPcb
    BY <1>3 DEF ConnPcb
  <2>2. g.st = "synsent" /\ g.arg = TRUE /\ g.sent = TRUE /\ g.poll = TRUE /\ g.errf = TRUE
    BY <1>3 DEF ConnPcb
  <2>3. d \in ConnRec
    <3>1. c.nb \in BOOLEAN
      BY <1>1 DEF ConnRec
    <3> QED
      BY <1>1, <3>1 DEF ConnRec
  <2>4. /\ d.state = "CONNECT" /\ d.inconn = c.nb
        /\ d.cur = c.cur /\ d.pcb = c.pcb /\ d.freed = c.freed
        /\ d.rvalid = c.rvalid /\ d.avalid = c.avalid /\ d.rmbox = c.rmbox
        /\ d.ambox = c.ambox /\ d.lerr = c.lerr
    BY <1>1 DEF ConnRec
  <2>5. c.freed = FALSE
    BY <1>1, <1>7 DEF CoreInv, BlockInv, ConnRec
  <2> DEFINE w1 == [w EXCEPT !.pcb = g]
  <2> HIDE DEF g
  <2>6. y = [w1 EXCEPT !.conn = d]
    BY <1>1 DEF WorkRec
  <2> HIDE DEF d, y
  <2>7. Fields(w1, c, g, s, e)
    BY <1>1, <2>1, WorkSet, Zenon
  <2> HIDE DEF w1
  <2>8. Fields(y, d, g, s, e)
    BY <2>3, <2>6, <2>7, WorkSet, Zenon
  <2> QED
    BY <1>7, <2>1, <2>2, <2>3, <2>4, <2>5, <2>8
<1> HIDE DEF d, g
<1>8. CASE c.pcb = TRUE /\ c.state = "NONE" /\ c.nb = TRUE /\ v = Nc!Ack(y, "INPROGRESS")
  <2> HIDE DEF y
  <2>1. c.cur = FALSE /\ s = 0
    BY <1>1, InHandIdle DEF AtRest
  <2>2. WokenInv(d, s, apimsg)
    BY <1>1, <1>7, <1>8, <2>1 DEF CoreInv, WokenInv
  <2>3. MessageInv(d, apimsg)
    BY <1>1, <1>7, <1>8, <2>1 DEF CoreInv, MessageInv
  <2>4. BlockInv(d, g, apimsg, FALSE)
    BY <1>2, <1>7, <1>8, <2>1 DEF BlockInv, InHand
  <2>5. CountedInv(d, g, e, apimsg)
    BY <1>1, <1>7, <1>8 DEF CoreInv, CountedInv
  <2>6. CoreInv(d, g, s, e, apimsg, FALSE)
    BY <1>1, <1>7, <1>8, <2>2, <2>3, <2>4, <2>5 DEF CoreInv
  <2>7. Sound(y, apimsg)
    BY <1>7, <1>8, <2>6, SoundBy, Zenon
  <2>8. Due(y)
    BY <1>7, <1>8 DEF Due, DueInv, Fields
  <2> QED
    BY <1>2, <1>8, <2>7, <2>8, AnsweredAtOnce, ErrCodesAre
<1>9. CASE c.pcb = TRUE /\ c.state = "NONE" /\ c.nb = FALSE /\ v = z
  <2> DEFINE f == [d EXCEPT !.cur = TRUE]
  <2>1. f \in ConnRec
    BY <1>7, <1>9 DEF ConnRec
  <2>2. /\ f.state = "CONNECT" /\ f.inconn = FALSE /\ f.cur = TRUE /\ f.pcb = TRUE /\ f.freed = FALSE
        /\ f.rvalid = c.rvalid /\ f.avalid = c.avalid /\ f.rmbox = c.rmbox
        /\ f.ambox = c.ambox /\ f.lerr = c.lerr
    BY <1>7, <1>9 DEF ConnRec
  <2>3. y \in WorkRec /\ y.conn = d
    BY <1>7, <1>9 DEF Fields
  <2> HIDE DEF y
  <2>4. z = [y EXCEPT !.conn = f]
    BY <2>3 DEF WorkRec
  <2> HIDE DEF z, f
  <2>5. Fields(v, f, g, s, e)
    BY <1>7, <1>9, <2>1, <2>4, WorkSet, Zenon
  <2>6. c.cur = FALSE /\ s = 0 /\ CountedInv(c, p, e, k)
    BY <1>1, InHandIdle DEF AtRest
  <2>7. WokenInv(f, s, k)
    BY <1>2, <2>2, <2>6 DEF WokenInv
  <2>8. MessageInv(f, k)
    BY <1>2, <2>2 DEF MessageInv
  <2>9. BlockInv(f, g, k, FALSE)
    BY <1>2, <1>7, <1>9, <2>2 DEF BlockInv, Linked
  <2>10. CountedInv(f, g, e, k)
    BY <1>7, <1>9, <2>2, <2>6 DEF CountedInv
  <2>11. CoreInv(f, g, s, e, k, FALSE)
    BY <1>1, <1>2, <1>7, <1>9, <2>1, <2>7, <2>8, <2>9, <2>10 DEF CoreInv
  <2>12. Sound(v, k)
    BY <2>5, <2>11, SoundBy, Zenon
  <2>13. Due(v)
    BY <1>7, <1>9, <2>5 DEF Due, DueInv, Fields
  <2> QED
    BY <2>12, <2>13
<1> QED
  BY <1>4, <1>5, <1>6, <1>8, <1>9, Zenon

\* do_listen: the mailbox of data is given up, that of connections opened.
LEMMA ListenKeeps ==
  ASSUME SndBuf \in Nat \ {0}, NEW w, NEW k, Sound(w, apimsg), InHand(k), apimsg.fn = "listen",
         NEW v \in Nc!do_listen(w)
  PROVE  Sound(v, k) /\ (Due(w) => Due(v))
<1> DEFINE c == w.conn
           p == w.pcb
           s == w.sem
           e == w.sock
           d == [c EXCEPT !.rvalid = FALSE, !.rmbox = <<>>]
           x == [d EXCEPT !.pcb = FALSE]
           y == [d EXCEPT !.avalid = TRUE, !.state = "LISTEN"]
           g == [Nc!NoPcb EXCEPT !.st = "listen", !.arg = TRUE]
           u == [w EXCEPT !.conn = x, !.pcb = Nc!NoPcb]
           t == [w EXCEPT !.conn = y, !.pcb = g]
<1>1. Fields(w, c, p, s, e) /\ CoreInv(c, p, s, e, apimsg, FALSE) /\ w \in WorkRec
      /\ c \in ConnRec /\ p \in ConnPcb /\ e \in EventRec /\ s \in Nat
  BY WorkFields DEF Sound, Fields
<1>2. k.fn = "listen"
  BY DEF InHand
<1>3. \/ \E r \in ErrCodes : v = Nc!Ack(w, r)
      \/ /\ c.pcb = TRUE /\ c.state = "NONE" /\ p.st = "closed"
         /\ v = Nc!Ack(u, "MEM") \/ v = Nc!Ack(t, "OK")
  <2>1. c.lerr \in ErrCodes /\ c.pcb \in BOOLEAN
    BY <1>1 DEF ConnRec
  <2>2. \/ v = Nc!Ack(w, c.lerr) \/ v = Nc!Ack(w, "CONN") \/ v = Nc!Ack(w, "MEM")
        \/ /\ c.pcb /\ c.state = "NONE" /\ p.st = "closed"
           /\ v = Nc!Ack(u, "MEM") \/ v = Nc!Ack(t, "OK")
    BY Zenon DEF Nc!do_listen
  <2> HIDE DEF u, t
  <2>3. c.pcb => c.pcb = TRUE
    BY <2>1
  <2> QED
    BY <2>1, <2>2, <2>3, ErrCodesAre, Zenon
<1>4. CASE \E r \in ErrCodes : v = Nc!Ack(w, r)
  BY <1>2, <1>4, AnsweredAtOnce
<1>5. d \in ConnRec
  <2>1. <<>> \in Seq({"data", "eof"})
    OBVIOUS
  <2> QED
    BY <1>1, <2>1 DEF ConnRec
<1>6. /\ d.state = c.state /\ d.cur = c.cur /\ d.pcb = c.pcb /\ d.inconn = c.inconn
      /\ d.freed = c.freed /\ d.rvalid = FALSE /\ d.avalid = c.avalid
      /\ d.ambox = c.ambox /\ d.lerr = c.lerr
  BY <1>1 DEF ConnRec
<1> HIDE DEF d
<1>7. CASE c.pcb = TRUE /\ c.state = "NONE" /\ p.st = "closed" /\ v = Nc!Ack(u, "MEM")
  <2>1. x \in ConnRec
    BY <1>5 DEF ConnRec
  <2>2. /\ x.state = c.state /\ x.cur = c.cur /\ x.pcb = FALSE /\ x.inconn = c.inconn
        /\ x.freed = c.freed /\ x.rvalid = FALSE /\ x.avalid = c.avalid
        /\ x.ambox = c.ambox /\ x.lerr = c.lerr
    BY <1>5, <1>6 DEF ConnRec
  <2> DEFINE w1 == [w EXCEPT !.conn = x]
  <2>3. u = [w1 EXCEPT !.pcb = Nc!NoPcb]
    BY Zenon
  <2> HIDE DEF x, u
  <2>4. Fields(w1, x, p, s, e)
    BY <1>1, <2>1, WorkSet, Zenon
  <2> HIDE DEF w1
  <2>5. Fields(u, x, Nc!NoPcb, s, e)
    BY <2>3, <2>4, NoPcbIs, WorkSet, Zenon
  <2>6. WokenInv(x, s, apimsg)
    BY <1>1, <2>2 DEF CoreInv, WokenInv
  <2>7. MessageInv(x, apimsg)
    BY <1>1, <1>7, <2>2 DEF CoreInv, MessageInv
  <2>8. BlockInv(x, Nc!NoPcb, apimsg, FALSE)
    <3>1. c.cur = FALSE
      BY <1>1, InHandIdle DEF AtRest
    <3> QED
      BY <1>7, <2>2, <3>1, NoPcbIs DEF BlockInv
  <2>9. CountedInv(x, Nc!NoPcb, e, apimsg)
    BY <1>1, <2>2 DEF CoreInv, CountedInv
  <2>10. CoreInv(x, Nc!NoPcb, s, e, apimsg, FALSE)
    BY <1>1, <2>1, <2>6, <2>7, <2>8, <2>9, NoPcbIs DEF CoreInv
  <2>11. Sound(u, apimsg)
    BY <2>5, <2>10, SoundBy, Zenon
  <2>12. Due(u)
    BY <2>2, <2>5 DEF Due, DueInv, Fields
  <2> QED
    BY <1>2, <1>7, <2>11, <2>12, AnsweredAtOnce, ErrCodesAre
<1>8. CASE c.pcb = TRUE /\ c.state = "NONE" /\ p.st = "closed" /\ v = Nc!Ack(t, "OK")
  <2>1. y \in ConnRec
    BY <1>5 DEF ConnRec
  <2>2. /\ y.state = "LISTEN" /\ y.cur = c.cur /\ y.pcb = TRUE /\ y.inconn = c.inconn
        /\ y.freed = c.freed /\ y.rvalid = FALSE /\ y.avalid = TRUE
        /\ y.ambox = c.ambox /\ y.lerr = c.lerr
    BY <1>5, <1>6, <1>8 DEF ConnRec
  <2>3. g \in ConnPcb /\ g.st = "listen"
    BY NoPcbIs DEF ConnPcb
  <2> DEFINE w1 == [w EXCEPT !.conn = y]
  <2>4. t = [w1 EXCEPT !.pcb = g]
    BY Zenon
  <2> HIDE DEF y, t, g
  <2>5. Fields(w1, y, p, s, e)
    BY <1>1, <2>1, WorkSet, Zenon
  <2> HIDE DEF w1
  <2>6. Fields(t, y, g, s, e)
    BY <2>3, <2>4, <2>5, WorkSet, Zenon
  <2>7. c.cur = FALSE /\ s = 0 /\ c.freed = FALSE /\ c.inconn = FALSE
    <3>1. AtRest(c, p, s, e, k)
      BY <1>1, InHandIdle, Zenon
    <3>2. c.freed \in BOOLEAN /\ c.inconn \in BOOLEAN
      BY <1>1 DEF ConnRec
    <3> QED
      BY <1>8, <3>1, <3>2 DEF AtRest
  <2>8. WokenInv(y, s, apimsg)
    BY <1>1, <1>8, <2>2, <2>7 DEF CoreInv, WokenInv
  <2>9. MessageInv(y, apimsg)
    BY <1>1, <2>2 DEF CoreInv, MessageInv
  <2>10. BlockInv(y, g, apimsg, FALSE)
    BY <2>2, <2>3, <2>7 DEF BlockInv, Linked, InHand
  <2>11. CountedInv(y, g, e, apimsg)
    <3>1. e.rcv <= 0 /\ e.rcv \in Int
      BY <1>1, <1>8 DEF CoreInv, CountedInv, EventRec
    <3>2. Len(c.ambox) \in Nat
      BY <1>1, LenProperties DEF ConnRec
    <3>3. e.rcv <= Len(c.ambox)
      BY <3>1, <3>2
    <3> QED
      BY <2>2, <2>3, <3>3 DEF CountedInv
  <2>12. CoreInv(y, g, s, e, apimsg, FALSE)
    BY <1>1, <2>1, <2>3, <2>8, <2>9, <2>10, <2>11 DEF CoreInv
  <2>13. Sound(t, apimsg)
    BY <2>6, <2>12, SoundBy, Zenon
  <2>14. Due(t)
    BY <2>3, <2>6 DEF Due, DueInv, Fields
  <2> QED
    BY <1>2, <1>8, <2>13, <2>14, AnsweredAtOnce, ErrCodesAre
<1> QED
  BY <1>3, <1>4, <1>7, <1>8, Zenon

\* Whatever the function of the message.
LEMMA HandledKeeps ==
  ASSUME SndBuf \in Nat \ {0}, NEW w, NEW k, Sound(w, apimsg), InHand(k), apimsg \in MsgRec,
         NEW v \in Nc!Handled(w)
  PROVE  Sound(v, k) /\ (Due(w) => Due(v))
<1>1. k.fn = apimsg.fn
  BY DEF InHand
<1>2. CASE apimsg.fn = "connect"
  BY <1>2, DoConnectKeeps DEF Nc!Handled
<1>3. CASE apimsg.fn = "listen"
  BY <1>3, ListenKeeps DEF Nc!Handled
<1>4. CASE apimsg.fn = "write"
  BY <1>4, WriteKeeps DEF Nc!Handled
<1>5. CASE apimsg.fn = "close"
  BY <1>5, DoCloseKeeps DEF Nc!Handled
<1>6. CASE apimsg.fn = "delete"
  BY <1>6, DelconnKeeps DEF Nc!Handled
<1>7. CASE apimsg.fn \notin {"connect", "listen", "write", "close", "delete"}
  <2>1. v \in Nc!do_recv(w) \/ v \in Nc!do_getaddr(w)
    BY <1>7 DEF Nc!Handled
  <2>2. v = Nc!Ack(w, "OK") \/ v = Nc!Ack(w, "CONN")
    BY <2>1 DEF Nc!do_recv, Nc!do_getaddr
  <2> QED
    BY <1>1, <1>7, <2>2, AnsweredAtOnce, ErrCodesAre
<1> QED
  BY <1>2, <1>3, <1>4, <1>5, <1>6, <1>7

-----------------------------------------------------------------------------
\* The inductive invariant.
NetconnInv ==
  /\ CoreInv(netconn, netpcb, op_completed, sockevents, apimsg, finNext)
  /\ DueInv(netconn, netpcb, sockevents)

\* The state as the functions of tcpip_thread see it.
LEMMA StateIs ==
  ASSUME NetconnInv, ~finNext
  PROVE  /\ Fields(Nc!State, netconn, netpcb, op_completed, sockevents)
         /\ Sound(Nc!State, apimsg) /\ Due(Nc!State) /\ finNext = FALSE /\ apimsg \in MsgRec
<1>1. finNext = FALSE /\ apimsg.res \in ErrCodes /\ apimsg \in MsgRec
  BY DEF NetconnInv, CoreInv, MsgRec
<1>2. /\ netconn \in ConnRec /\ netpcb \in ConnPcb /\ op_completed \in Nat /\ sockevents \in EventRec
  BY DEF NetconnInv, CoreInv
<1>3. Fields(Nc!State, netconn, netpcb, op_completed, sockevents)
  BY <1>1, <1>2 DEF Nc!State, Fields, WorkRec
<1>4. Sound(Nc!State, apimsg)
  BY <1>1, <1>3, SoundBy DEF NetconnInv
<1>5. Due(Nc!State)
  BY <1>3 DEF NetconnInv, Due, Fields
<1> QED
  BY <1>1, <1>3, <1>4, <1>5

\* The invariant of the next state, of its components.
LEMMA InvNext ==
  ASSUME CoreInv(netconn', netpcb', op_completed', sockevents', apimsg', finNext'),
         DueInv(netconn', netpcb', sockevents')
  PROVE  NetconnInv'
<1>1. CoreInv(netconn, netpcb, op_completed, sockevents, apimsg, finNext)'
  BY DEF CoreInv, WokenInv, MessageInv, BlockInv, CountedInv, Linked
<1>2. DueInv(netconn, netpcb, sockevents)'
  BY DEF DueInv
<1> QED
  BY <1>1, <1>2 DEF NetconnInv

\* What tcpip_thread leaves behind is the next state.
LEMMA Lands ==
  ASSUME NEW v, Nc!Becomes(v), Sound(v, apimsg'), Due(v), finNext' = FALSE
  PROVE  NetconnInv'
<1>1. netconn' = v.conn /\ netpcb' = v.pcb /\ op_completed' = v.sem /\ sockevents' = v.sock
  BY DEF Nc!Becomes
<1>2. CoreInv(netconn', netpcb', op_completed', sockevents', apimsg', FALSE)
  BY <1>1 DEF Sound
<1>3. DueInv(netconn', netpcb', sockevents')
  BY <1>1 DEF Due
<1> QED
  BY <1>2, <1>3, InvNext, Zenon

\* tcpip_thread serves a message.
LEMMA ThreadKeeps ==
  ASSUME SndBuf \in Nat \ {0}, NetconnInv, Nc!tcpip_thread
  PROVE  NetconnInv'
<1>1. apimsg.at = "queued" /\ ~finNext /\ finNext' = finNext
  BY DEF Nc!tcpip_thread
<1>2. PICK v \in Nc!Handled(Nc!State) :
         Nc!Becomes(v) /\ apimsg' = [apimsg EXCEPT !.at = "wait", !.res = v.res]
  BY DEF Nc!tcpip_thread
<1>3. Sound(Nc!State, apimsg) /\ Due(Nc!State) /\ finNext = FALSE /\ apimsg \in MsgRec
  BY <1>1, StateIs
<1> DEFINE k == [apimsg EXCEPT !.at = "wait"]
<1>4. InHand(k)
  <2>1. k \in MsgRec
    BY <1>3 DEF MsgRec
  <2>2. k.at = "wait" /\ k.fn = apimsg.fn /\ k.len = apimsg.len /\ k.how = apimsg.how
    BY <1>3 DEF MsgRec
  <2> HIDE DEF k
  <2> QED
    BY <1>1, <2>1, <2>2 DEF InHand
<1>5. apimsg' = [k EXCEPT !.res = v.res]
  BY <1>2
<1> HIDE DEF k
<1>6. Sound(v, k) /\ Due(v)
  BY <1>2, <1>3, <1>4, HandledKeeps
<1>7. Sound(v, apimsg')
  <2>1. k \in MsgRec
    BY <1>4 DEF InHand
  <2> QED
    BY <1>5, <1>6, <2>1, ResultFree, Zenon
<1> QED
  BY <1>1, <1>2, <1>3, <1>6, <1>7, Lands

-----------------------------------------------------------------------------
\* A callback resumes the operation that the message of the netconn is in.
LEMMA CoreCloses ==
  ASSUME NEW c, NEW p, NEW s, NEW e, NEW k, CoreInv(c, p, s, e, k, FALSE), c.state = "CLOSE",
         NEW how, how = IF k.fn = "delete" THEN "RDWR" ELSE k.how
  PROVE  Closing(c, p, s, e, k, how) /\ how \in {"RD", "WR", "RDWR"}
<1>1. c.cur = TRUE /\ s = 0 /\ k.at = "wait"
  BY DEF CoreInv, WokenInv
<1>2. /\ k.fn = "delete" \/ (k.fn = "close" /\ k.how \in {"RD", "WR", "RDWR"})
      /\ k.fn = "delete" \/ k.how # "WR" => c.rvalid = FALSE /\ c.avalid = FALSE
  BY DEF CoreInv, MessageInv
<1>3. c.pcb = TRUE /\ c.freed = FALSE /\ c.inconn = FALSE /\ p.st # "synsent"
  BY <1>1 DEF CoreInv, BlockInv, ConnRec
<1>4. CountedInv(c, p, e, k) /\ k \in MsgRec
  BY DEF CoreInv
<1> QED
  BY <1>1, <1>2, <1>3, <1>4 DEF Closing

\* Whatever the operation.
LEMMA ResumedKeeps ==
  ASSUME SndBuf \in Nat \ {0}, NEW w, Sound(w, apimsg), NEW v \in Nc!Resumed(w)
  PROVE  Sound(v, apimsg) /\ (Due(w) => Due(v))
<1>1. w \in WorkRec /\ CoreInv(w.conn, w.pcb, w.sem, w.sock, apimsg, FALSE)
  BY DEF Sound
<1>2. CASE w.conn.state = "WRITE"
  <2>1. v \in Nc!do_writemore(w, apimsg.len)
    BY <1>2 DEF Nc!Resumed
  <2>2. Writing(w.conn, w.pcb, w.sem, w.sock, apimsg)
    BY <1>1, <1>2, CoreWrites
  <2> QED
    BY <1>1, <2>1, <2>2, WriteMoreKeeps
<1>3. CASE w.conn.state = "CLOSE"
  <2> DEFINE how == IF apimsg.fn = "delete" THEN "RDWR" ELSE apimsg.how
  <2>1. v \in Nc!do_close_internal(w, how)
    BY <1>3 DEF Nc!Resumed
  <2>2. Closing(w.conn, w.pcb, w.sem, w.sock, apimsg, how) /\ how \in {"RD", "WR", "RDWR"}
    BY <1>1, <1>3, CoreCloses
  <2> HIDE DEF how
  <2> QED
    BY <1>1, <2>1, <2>2, CloseKeeps
<1>4. CASE w.conn.state \notin {"WRITE", "CLOSE"}
  BY <1>4 DEF Nc!Resumed
<1> QED
  BY <1>2, <1>3, <1>4

\* The invariant but for the mailboxes and the events carries over when what
\* it speaks of is kept.
LEMMA CoreBut ==
  ASSUME NEW c, NEW p, NEW s, NEW e, NEW k, NEW f, CoreInv(c, p, s, e, k, f),
         NEW d \in ConnRec, NEW q \in ConnPcb, NEW h \in EventRec, CountedInv(d, q, h, k),
         d.state = c.state, d.cur = c.cur, d.pcb = c.pcb, d.inconn = c.inconn, d.freed = c.freed,
         d.halved = c.halved, d.rvalid = c.rvalid, d.avalid = c.avalid, d.woff = c.woff,
         q.st = p.st, q.arg = p.arg, q.sent = p.sent, q.poll = p.poll, q.errf = p.errf
  PROVE  CoreInv(d, q, s, h, k, f)
<1>1. WokenInv(d, s, k)
  BY DEF CoreInv, WokenInv
<1>2. MessageInv(d, k)
  BY DEF CoreInv, MessageInv
<1>3. BlockInv(d, q, k, f)
  BY DEF CoreInv, BlockInv, Linked
<1> QED
  BY <1>1, <1>2, <1>3 DEF CoreInv

\* After a look at the write space the socket is writable, or something is
\* still to be acknowledged.
LEMMA RefreshedKeeps ==
  ASSUME SndBuf \in Nat \ {0}, NEW w, NEW k, Sound(w, k)
  PROVE  Sound(Nc!Refreshed(w), k) /\ Due(Nc!Refreshed(w))
<1> DEFINE c == w.conn
           p == w.pcb
           s == w.sem
           e == w.sock
           v == Nc!Refreshed(w)
<1>1. Fields(w, c, p, s, e) /\ CoreInv(c, p, s, e, k, FALSE) /\ w \in WorkRec
      /\ c \in ConnRec /\ p \in ConnPcb /\ e \in EventRec /\ s \in Nat
  BY WorkFields DEF Sound, Fields
<1>2. CASE c.pcb /\ Nc!Writable(p)
  <2> DEFINE d == [c EXCEPT !.checkws = FALSE]
             h == [e EXCEPT !.send = TRUE]
             w1 == [w EXCEPT !.conn = d]
  <2>1. v = [w1 EXCEPT !.sock = h]
    <3>1. v = [w EXCEPT !.conn.checkws = FALSE, !.sock.send = TRUE]
      BY <1>2, Zenon DEF Nc!Refreshed
    <3> HIDE DEF v
    <3> QED
      BY <1>1, <3>1 DEF WorkRec
  <2>2. d \in ConnRec
    BY <1>1 DEF ConnRec
  <2>3. /\ d.state = c.state /\ d.cur = c.cur /\ d.pcb = c.pcb /\ d.inconn = c.inconn
        /\ d.freed = c.freed /\ d.halved = c.halved /\ d.rvalid = c.rvalid /\ d.avalid = c.avalid
        /\ d.rmbox = c.rmbox /\ d.ambox = c.ambox /\ d.lerr = c.lerr /\ d.woff = c.woff
    BY <1>1 DEF ConnRec
  <2>4. h \in EventRec /\ h.rcv = e.rcv /\ h.send = TRUE
    BY <1>1 DEF EventRec
  <2> HIDE DEF d, h, v
  <2>5. Fields(w1, d, p, s, e)
    BY <1>1, <2>2, WorkSet, Zenon
  <2> HIDE DEF w1
  <2>6. Fields(v, d, p, s, h)
    BY <2>1, <2>4, <2>5, WorkSet, Zenon
  <2>7. CountedInv(d, p, h, k)
    BY <1>1, <2>3, <2>4 DEF CoreInv, CountedInv
  <2>8. CoreInv(d, p, s, h, k, FALSE)
    BY <1>1, <2>2, <2>3, <2>4, <2>7, CoreBut
  <2>9. Sound(v, k)
    BY <2>6, <2>8, SoundBy, Zenon
  <2>10. Due(v)
    BY <2>4, <2>6 DEF Due, DueInv, Fields
  <2> QED
    BY <2>9, <2>10 DEF v
<1>3. CASE ~(c.pcb /\ Nc!Writable(p))
  <2>1. v = w
    BY <1>3, Zenon DEF Nc!Refreshed
  <2>2. c.pcb # TRUE \/ p.used > 0
    BY <1>1, <1>3, FullHolds
  <2>3. Due(w)
    BY <2>2 DEF Due, DueInv
  <2> QED
    BY <2>1, <2>3
<1> QED
  BY <1>2, <1>3

\* The step of a callback.
LEMMA ResultsLand ==
  ASSUME NEW v, apimsg \in MsgRec, Sound(v, apimsg), Due(v), Nc!Becomes(v),
         apimsg' = [apimsg EXCEPT !.res = v.res], finNext' = FALSE
  PROVE  NetconnInv'
<1>1. Sound(v, apimsg')
  BY ResultFree, Zenon
<1> QED
  BY <1>1, Lands

\* poll_tcp.
LEMMA PollKeeps ==
  ASSUME SndBuf \in Nat \ {0}, NetconnInv, Nc!poll_tcp
  PROVE  NetconnInv'
<1>1. ~finNext /\ finNext' = finNext
  BY DEF Nc!poll_tcp
<1>2. Sound(Nc!State, apimsg) /\ Due(Nc!State) /\ finNext = FALSE /\ apimsg \in MsgRec
  BY <1>1, StateIs
<1>3. PICK w \in {IF v.conn.checkws THEN Nc!Refreshed(v) ELSE v : v \in Nc!Resumed(Nc!State)} :
        Nc!Becomes(w) /\ apimsg' = [apimsg EXCEPT !.res = w.res]
  BY DEF Nc!poll_tcp, Nc!Results
<1>4. PICK v \in Nc!Resumed(Nc!State) : w = IF v.conn.checkws THEN Nc!Refreshed(v) ELSE v
  BY <1>3
<1>5. Sound(v, apimsg) /\ Due(v)
  BY <1>2, ResumedKeeps
<1>6. Sound(w, apimsg) /\ Due(w)
  BY <1>4, <1>5, RefreshedKeeps, Zenon
<1> QED
  BY <1>1, <1>2, <1>3, <1>6, ResultsLand, Zenon

\* sent_tcp: bytes are acknowledged, the operation goes on, and the write space
\* is looked at.
LEMMA SentKeeps ==
  ASSUME SndBuf \in Nat \ {0}, NetconnInv, Nc!sent_tcp
  PROVE  NetconnInv'
<1> DEFINE u(n) == [Nc!State EXCEPT !.pcb.used = @ - n]
<1>1. ~finNext /\ finNext' = finNext
  BY DEF Nc!sent_tcp
<1>2. /\ Fields(Nc!State, netconn, netpcb, op_completed, sockevents)
      /\ Sound(Nc!State, apimsg) /\ finNext = FALSE /\ apimsg \in MsgRec
  BY <1>1, StateIs
<1>3. PICK n \in 1 .. netpcb.used :
        IF Nc!Reaches(netpcb.sent) THEN Nc!Results({Nc!Refreshed(v) : v \in Nc!Resumed(u(n))})
                                   ELSE Nc!Results({u(n)})
  BY DEF Nc!sent_tcp
<1> DEFINE w == u(n)
           m == netpcb.used - n
           q == [netpcb EXCEPT !.used = m]
<1>4. netpcb \in ConnPcb /\ netpcb.used \in 0 .. SndBuf
  BY <1>2, FieldTypes DEF ConnPcb
<1>5. m \in 0 .. SndBuf
  BY <1>4
<1>6. /\ q \in ConnPcb /\ q.st = netpcb.st /\ q.arg = netpcb.arg /\ q.sent = netpcb.sent
      /\ q.poll = netpcb.poll /\ q.errf = netpcb.errf /\ q.refused = netpcb.refused
  <2> HIDE DEF m
  <2>1. q \in ConnPcb
    BY <1>4, <1>5 DEF ConnPcb
  <2> QED
    BY <1>4, <2>1 DEF ConnPcb
<1>7. w = [Nc!State EXCEPT !.pcb = q]
  <2>1. Nc!State.pcb = netpcb /\ Nc!State \in WorkRec
    BY <1>2 DEF Fields
  <2>2. w = [Nc!State EXCEPT !.pcb = [Nc!State.pcb EXCEPT !.used = Nc!State.pcb.used - n]]
    BY <2>1 DEF WorkRec
  <2> HIDE DEF w
  <2> QED
    BY <2>1, <2>2, Zenon
<1> HIDE DEF w, q
<1>8. Fields(w, netconn, q, op_completed, sockevents)
  BY <1>2, <1>6, <1>7, WorkSet, Zenon
<1>9. CoreInv(netconn, netpcb, op_completed, sockevents, apimsg, FALSE)
  BY <1>2 DEF NetconnInv
<1>10. netconn \in ConnRec /\ sockevents \in EventRec
  BY <1>9 DEF CoreInv
<1>11. CountedInv(netconn, q, sockevents, apimsg)
  BY <1>6, <1>9 DEF CoreInv, CountedInv
<1>12. CoreInv(netconn, q, op_completed, sockevents, apimsg, FALSE)
  BY <1>6, <1>9, <1>10, <1>11, CoreBut
<1>13. Sound(w, apimsg)
  BY <1>8, <1>12, SoundBy, Zenon
<1>14. CASE Nc!Reaches(netpcb.sent)
  <2>1. PICK x \in {Nc!Refreshed(v) : v \in Nc!Resumed(w)} :
          Nc!Becomes(x) /\ apimsg' = [apimsg EXCEPT !.res = x.res]
    BY <1>3, <1>14 DEF Nc!Results, w
  <2>2. PICK v \in Nc!Resumed(w) : x = Nc!Refreshed(v)
    BY <2>1
  <2>3. Sound(v, apimsg)
    BY <1>13, ResumedKeeps
  <2>4. Sound(x, apimsg) /\ Due(x)
    BY <2>2, <2>3, RefreshedKeeps, Zenon
  <2> QED
    BY <1>1, <1>2, <2>1, <2>4, ResultsLand, Zenon
<1>15. CASE ~Nc!Reaches(netpcb.sent)
  <2>1. Nc!Becomes(w) /\ apimsg' = [apimsg EXCEPT !.res = w.res]
    BY <1>3, <1>15 DEF Nc!Results, w
  <2>2. netconn.pcb # TRUE \/ netpcb.st # "est"
    <3>1. SUFFICES ASSUME netconn.pcb = TRUE, netpcb.st = "est" PROVE FALSE
      OBVIOUS
    <3>2. netpcb.sent = TRUE /\ netpcb.arg = TRUE /\ netconn.freed # TRUE
      BY <1>9, <3>1 DEF CoreInv, BlockInv, Linked
    <3>3. netconn.freed = FALSE
      BY <1>10, <3>2 DEF ConnRec
    <3> QED
      BY <1>15, <3>2, <3>3 DEF Nc!Reaches
  <2>3. Due(w)
    BY <1>6, <1>8, <2>2 DEF Due, DueInv, Fields
  <2> QED
    BY <1>1, <1>2, <1>13, <2>1, <2>3, ResultsLand, Zenon
<1> QED
  BY <1>14, <1>15

-----------------------------------------------------------------------------
\* The connection is established: a blocking connect is answered, one that did
\* not wait is told by the events.
LEMMA ConnectedKeeps ==
  ASSUME SndBuf \in Nat \ {0}, NetconnInv, Nc!do_connected
  PROVE  NetconnInv'
<1> DEFINE c == netconn
           p == netpcb
           s == op_completed
           b == c.inconn = TRUE
           l == IF c.inconn /\ c.lerr = "INPROGRESS" THEN "OK" ELSE c.lerr
           d == [c EXCEPT !.cur = FALSE, !.state = "NONE", !.inconn = FALSE, !.lerr = l]
           q == Nc!setup_tcp([p EXCEPT !.st = "est"])
           h == [sockevents EXCEPT !.send = TRUE]
           r == IF c.cur THEN "OK" ELSE apimsg.res
           k == [apimsg EXCEPT !.res = r]
<1>1. /\ p.st = "synsent" /\ ~finNext /\ finNext' = finNext
      /\ netconn' = d /\ netpcb' = q /\ sockevents' = h /\ apimsg' = k
      /\ op_completed' = IF c.inconn THEN s ELSE s + 1
  BY DEF Nc!do_connected
<1>2. /\ CoreInv(c, p, s, sockevents, apimsg, FALSE) /\ finNext = FALSE
      /\ c \in ConnRec /\ p \in ConnPcb /\ sockevents \in EventRec /\ apimsg \in MsgRec
  BY <1>1 DEF NetconnInv, CoreInv
<1>3. c.state = "CONNECT" /\ c.pcb = TRUE /\ c.freed = FALSE /\ c.inconn \in BOOLEAN
  BY <1>1, <1>2 DEF CoreInv, BlockInv, ConnRec
<1>4. l \in ErrCodes /\ r \in ErrCodes /\ (l \notin Nc!Fatal => c.lerr \notin Nc!Fatal)
  <2>1. c.lerr \in ErrCodes /\ apimsg.res \in ErrCodes /\ "INPROGRESS" \notin Nc!Fatal
    BY <1>2 DEF ConnRec, MsgRec, Nc!Fatal
  <2> QED
    BY <2>1, ErrCodesAre, Zenon
<1> HIDE DEF l, r
<1>5. d \in ConnRec
  BY <1>2, <1>4 DEF ConnRec
<1>6. /\ d.state = "NONE" /\ d.cur = FALSE /\ d.inconn = FALSE /\ d.lerr = l /\ d.pcb = TRUE
      /\ d.freed = FALSE /\ d.rvalid = c.rvalid /\ d.avalid = c.avalid
      /\ d.rmbox = c.rmbox /\ d.ambox = c.ambox
  BY <1>2, <1>3 DEF ConnRec
<1>7. k \in MsgRec
  BY <1>2, <1>4 DEF MsgRec
<1>8. k.at = apimsg.at /\ k.fn = apimsg.fn /\ k.len = apimsg.len /\ k.how = apimsg.how
  BY <1>2 DEF MsgRec
<1>9. h \in EventRec /\ h.rcv = sockevents.rcv /\ h.send = TRUE
  BY <1>2 DEF EventRec
<1>10. /\ q \in ConnPcb /\ q.st = "est"
       /\ q.arg = TRUE /\ q.sent = TRUE /\ q.poll = TRUE /\ q.errf = TRUE
  <2>1. [p EXCEPT !.st = "est"] \in ConnPcb /\ [p EXCEPT !.st = "est"].st = "est"
    BY <1>2 DEF ConnPcb
  <2> QED
    BY <2>1, SetupIs
<1> HIDE DEF d, k, h, q
<1>11. op_completed' \in Nat /\ WokenInv(d, op_completed', k)
  <2>1. CASE c.inconn = TRUE
    BY <1>1, <1>2, <1>3, <1>6, <1>8, <2>1 DEF CoreInv, WokenInv
  <2>2. CASE c.inconn = FALSE
    BY <1>1, <1>2, <1>3, <1>6, <1>8, <2>2 DEF CoreInv, WokenInv
  <2> QED
    BY <1>3, <2>1, <2>2
<1>12. MessageInv(d, k)
  BY <1>2, <1>6, <1>8 DEF CoreInv, MessageInv
<1>13. BlockInv(d, q, k, FALSE)
  <2>1. ~(apimsg.at = "wait" /\ apimsg.fn = "delete")
    <3>1. CASE c.cur = TRUE
      BY <1>2, <1>3, <3>1 DEF CoreInv, MessageInv
    <3>2. CASE c.cur = FALSE
      BY <1>2, <1>3, <3>2 DEF CoreInv, BlockInv
    <3> QED
      BY <1>2, <3>1, <3>2 DEF ConnRec
  <2> QED
    BY <1>6, <1>8, <1>10, <2>1 DEF BlockInv
<1>14. CountedInv(d, q, h, k)
  BY <1>2, <1>4, <1>6, <1>8, <1>9, <1>10 DEF CoreInv, CountedInv
<1>15. CoreInv(d, q, op_completed', h, k, FALSE)
  BY <1>5, <1>7, <1>9, <1>10, <1>11, <1>12, <1>13, <1>14 DEF CoreInv
<1>16. DueInv(d, q, h)
  BY <1>9 DEF DueInv
<1> QED
  BY <1>1, <1>2, <1>15, <1>16, InvNext

\* A message put in a mailbox.
LEMMA PostedIs ==
  ASSUME NEW S, NEW box \in Seq(S), NEW x \in S
  PROVE  Nc!Posted(box, x) \in Seq(S)
BY AppendProperties DEF Nc!Posted

\* The connection breaks: who waits is woken with the error, once.
LEMMA ErrKeeps ==
  ASSUME SndBuf \in Nat \ {0}, NetconnInv, Nc!err_tcp
  PROVE  NetconnInv'
<1> DEFINE c == netconn
           p == netpcb
           s == op_completed
           e == sockevents
           q == [Nc!NoPcb EXCEPT !.arg = FALSE]
<1>1. /\ p.st \in {"est", "synsent"} /\ ~finNext /\ finNext' = finNext /\ netpcb' = q
  BY DEF Nc!err_tcp
<1>2. /\ CoreInv(c, p, s, e, apimsg, FALSE) /\ finNext = FALSE
      /\ c \in ConnRec /\ p \in ConnPcb /\ e \in EventRec /\ apimsg \in MsgRec /\ s \in Nat
  BY <1>1 DEF NetconnInv, CoreInv
<1>3. q \in ConnPcb /\ q.st = "none" /\ q.refused = FALSE
  BY NoPcbIs DEF ConnPcb
<1> HIDE DEF q
<1>4. CASE Nc!Reaches(p.errf)
  <2> DEFINE wakes == c.state \in Nc!Blocking /\ ~c.inconn
             x == IF c.rvalid THEN Nc!Posted(c.rmbox, "eof") ELSE c.rmbox
             y == IF c.avalid THEN Nc!Posted(c.ambox, "eof") ELSE c.ambox
             z == IF c.state \in Nc!Blocking THEN FALSE ELSE c.inconn
             b == c.cur /\ ~wakes
             n == e.rcv + 1
             d == [c EXCEPT !.pcb = FALSE, !.lerr = "RST", !.state = "NONE", !.rmbox = x,
                            !.ambox = y, !.inconn = z, !.cur = b]
             h == [rcv |-> n, send |-> TRUE, err |-> TRUE]
             r == IF wakes THEN "RST" ELSE apimsg.res
             k == [apimsg EXCEPT !.res = r]
  <2>1. /\ netconn' = d /\ sockevents' = h /\ apimsg' = k
        /\ op_completed' = IF wakes THEN s + 1 ELSE s
    BY <1>4, Zenon DEF Nc!err_tcp
  <2>2. wakes <=> c.cur = TRUE
    <3>1. c.inconn \in BOOLEAN
      BY <1>2 DEF ConnRec
    <3>2. c.cur = TRUE => c.pcb = TRUE
      BY <1>2 DEF CoreInv, BlockInv
    <3>3. c.inconn = TRUE => c.state = "CONNECT" \/ c.pcb = FALSE
      BY <1>2 DEF CoreInv, BlockInv
    <3>4. c.cur = TRUE <=> c.state \in {"WRITE", "CLOSE"} \/ (c.state = "CONNECT" /\ c.inconn = FALSE)
      BY <1>2 DEF CoreInv, WokenInv
    <3> QED
      BY <3>1, <3>2, <3>3, <3>4 DEF Nc!Blocking
  <2>3. b = FALSE
    <3>1. c.cur \in BOOLEAN
      BY <1>2 DEF ConnRec
    <3> QED
      BY <2>2, <3>1
  <2>4. x \in Seq({"data", "eof"}) /\ y \in Seq({"new", "eof"}) /\ z \in BOOLEAN
    BY <1>2, PostedIs DEF ConnRec
  <2>5. n \in Int /\ r \in ErrCodes
    BY <1>2, ErrCodesAre DEF EventRec, MsgRec
  <2> HIDE DEF wakes, x, y, z, b, n, r
  <2>6. d \in ConnRec
    BY <1>2, <2>3, <2>4, ErrCodesAre DEF ConnRec
  <2>7. /\ d.pcb = FALSE /\ d.lerr = "RST" /\ d.state = "NONE" /\ d.cur = FALSE
        /\ d.rvalid = c.rvalid /\ d.avalid = c.avalid
    BY <1>2, <2>3 DEF ConnRec
  <2>8. h \in EventRec
    BY <2>5 DEF EventRec
  <2>9. k \in MsgRec
    BY <1>2, <2>5 DEF MsgRec
  <2>10. k.at = apimsg.at /\ k.fn = apimsg.fn /\ k.len = apimsg.len /\ k.how = apimsg.how
    BY <1>2 DEF MsgRec
  <2> HIDE DEF d, h, k
  <2>11. op_completed' \in Nat /\ WokenInv(d, op_completed', k)
    BY <1>2, <2>1, <2>2, <2>7, <2>10 DEF CoreInv, WokenInv
  <2>12. MessageInv(d, k)
    BY <1>2, <2>7, <2>10 DEF CoreInv, MessageInv
  <2>13. BlockInv(d, q, k, FALSE)
    BY <1>3, <2>7 DEF BlockInv
  <2>14. CountedInv(d, q, h, k)
    BY <1>2, <2>7 DEF CoreInv, CountedInv, Nc!Fatal
  <2>15. CoreInv(d, q, op_completed', h, k, FALSE)
    BY <1>3, <2>6, <2>8, <2>9, <2>11, <2>12, <2>13, <2>14 DEF CoreInv
  <2>16. DueInv(d, q, h)
    BY <2>7 DEF DueInv
  <2> QED
    BY <1>1, <1>2, <2>1, <2>15, <2>16, InvNext
<1>5. CASE ~Nc!Reaches(p.errf)
  <2>1. netconn' = c /\ sockevents' = e /\ apimsg' = apimsg /\ op_completed' = s
    BY <1>5 DEF Nc!err_tcp
  <2>2. c.pcb = FALSE
    <3>1. SUFFICES ASSUME c.pcb = TRUE PROVE FALSE
      BY <1>2 DEF ConnRec
    <3>2. p.errf = TRUE /\ p.arg = TRUE /\ c.freed # TRUE
      BY <1>1, <1>2, <3>1 DEF CoreInv, BlockInv, Linked
    <3>3. c.freed = FALSE
      BY <1>2, <3>2 DEF ConnRec
    <3> QED
      BY <1>5, <3>2, <3>3 DEF Nc!Reaches
  <2>3. BlockInv(c, q, apimsg, FALSE)
    BY <1>2, <1>3, <2>2 DEF CoreInv, BlockInv
  <2>4. CountedInv(c, q, e, apimsg)
    BY <1>2, <1>3, <2>2 DEF CoreInv, CountedInv
  <2>5. CoreInv(c, q, s, e, apimsg, FALSE)
    BY <1>2, <1>3, <2>3, <2>4 DEF CoreInv
  <2>6. DueInv(c, q, e)
    BY <2>2 DEF DueInv
  <2> QED
    BY <1>1, <1>2, <2>1, <2>5, <2>6, InvNext
<1> QED
  BY <1>4, <1>5

-----------------------------------------------------------------------------
\* d is the netconn c but for its mailboxes and its error; a fatal error stays.
Same(c, d) ==
  /\ d \in ConnRec
  /\ d.state = c.state /\ d.cur = c.cur /\ d.pcb = c.pcb /\ d.inconn = c.inconn
  /\ d.freed = c.freed /\ d.halved = c.halved /\ d.rvalid = c.rvalid /\ d.avalid = c.avalid
  /\ d.woff = c.woff /\ d.checkws = c.checkws
  /\ d.lerr \notin Nc!Fatal => c.lerr \notin Nc!Fatal

\* NETCONN_SET_SAFE_ERR.
LEMMA SafeErrIs ==
  ASSUME NEW c \in ConnRec, NEW x \in ErrCodes
  PROVE  LET d == Nc!SafeErr(c, x) IN Same(c, d) /\ d.rmbox = c.rmbox /\ d.ambox = c.ambox
<1>1. CASE c.lerr \in Nc!Fatal
  BY <1>1 DEF Nc!SafeErr, Same
<1>2. CASE c.lerr \notin Nc!Fatal
  <2> DEFINE d == [c EXCEPT !.lerr = x]
  <2>1. d \in ConnRec
    BY DEF ConnRec
  <2>2. /\ d.state = c.state /\ d.cur = c.cur /\ d.pcb = c.pcb /\ d.inconn = c.inconn
        /\ d.freed = c.freed /\ d.halved = c.halved /\ d.rvalid = c.rvalid /\ d.avalid = c.avalid
        /\ d.woff = c.woff /\ d.checkws = c.checkws /\ d.rmbox = c.rmbox /\ d.ambox = c.ambox
    BY DEF ConnRec
  <2>3. Nc!SafeErr(c, x) = d
    BY <1>2 DEF Nc!SafeErr
  <2> HIDE DEF d
  <2> QED
    BY <1>2, <2>1, <2>2, <2>3 DEF Same
<1> QED
  BY <1>1, <1>2

\* One change after another.
LEMMA SameOf ==
  ASSUME NEW a, NEW b, NEW c, Same(a, b), Same(b, c)
  PROVE  Same(a, c)
BY DEF Same

\* A mailbox changes.
LEMMA BoxesAre ==
  ASSUME NEW c \in ConnRec
  PROVE  /\ \A x \in Seq({"data", "eof"}) :
              LET d == [c EXCEPT !.rmbox = x] IN Same(c, d) /\ d.rmbox = x /\ d.ambox = c.ambox
         /\ \A x \in Seq({"new", "eof"}) :
              LET d == [c EXCEPT !.ambox = x] IN Same(c, d) /\ d.ambox = x /\ d.rmbox = c.rmbox
<1>1. ASSUME NEW x \in Seq({"data", "eof"})
      PROVE  LET d == [c EXCEPT !.rmbox = x] IN Same(c, d) /\ d.rmbox = x /\ d.ambox = c.ambox
  <2> DEFINE d == [c EXCEPT !.rmbox = x]
  <2>1. d \in ConnRec
    BY DEF ConnRec
  <2>2. /\ d.state = c.state /\ d.cur = c.cur /\ d.pcb = c.pcb /\ d.inconn = c.inconn
        /\ d.freed = c.freed /\ d.halved = c.halved /\ d.rvalid = c.rvalid /\ d.avalid = c.avalid
        /\ d.woff = c.woff /\ d.checkws = c.checkws /\ d.rmbox = x /\ d.ambox = c.ambox
        /\ d.lerr = c.lerr
    BY DEF ConnRec
  <2> HIDE DEF d
  <2>3. Same(c, d) /\ d.rmbox = x /\ d.ambox = c.ambox
    BY <2>1, <2>2 DEF Same
  <2> QED
    BY <2>3 DEF d
<1>2. ASSUME NEW x \in Seq({"new", "eof"})
      PROVE  LET d == [c EXCEPT !.ambox = x] IN Same(c, d) /\ d.ambox = x /\ d.rmbox = c.rmbox
  <2> DEFINE d == [c EXCEPT !.ambox = x]
  <2>1. d \in ConnRec
    BY DEF ConnRec
  <2>2. /\ d.state = c.state /\ d.cur = c.cur /\ d.pcb = c.pcb /\ d.inconn = c.inconn
        /\ d.freed = c.freed /\ d.halved = c.halved /\ d.rvalid = c.rvalid /\ d.avalid = c.avalid
        /\ d.woff = c.woff /\ d.checkws = c.checkws /\ d.ambox = x /\ d.rmbox = c.rmbox
        /\ d.lerr = c.lerr
    BY DEF ConnRec
  <2> HIDE DEF d
  <2>3. Same(c, d) /\ d.ambox = x /\ d.rmbox = c.rmbox
    BY <2>1, <2>2 DEF Same
  <2> QED
    BY <2>3 DEF d
<1> QED
  BY <1>1, <1>2, Zenon

\* rcvevent counts one up or one down and says nothing of the rest.
LEMMA RcvIs ==
  ASSUME NEW e \in EventRec
  PROVE  /\ Nc!RcvPlus(e) \in EventRec /\ Nc!RcvPlus(e).rcv = e.rcv + 1 /\ Nc!RcvPlus(e).send = e.send
         /\ Nc!RcvMinus(e) \in EventRec /\ Nc!RcvMinus(e).rcv = e.rcv - 1 /\ Nc!RcvMinus(e).send = e.send
<1> DEFINE n == e.rcv + 1
           m == e.rcv - 1
<1>1. n \in Int /\ m \in Int
  BY DEF EventRec
<1>2. Nc!RcvPlus(e) = [e EXCEPT !.rcv = n] /\ Nc!RcvMinus(e) = [e EXCEPT !.rcv = m]
  BY Zenon DEF Nc!RcvPlus, Nc!RcvMinus
<1> HIDE DEF n, m
<1>3. /\ [e EXCEPT !.rcv = n] \in EventRec /\ [e EXCEPT !.rcv = n].rcv = n
      /\ [e EXCEPT !.rcv = n].send = e.send
  BY <1>1 DEF EventRec
<1>4. /\ [e EXCEPT !.rcv = m] \in EventRec /\ [e EXCEPT !.rcv = m].rcv = m
      /\ [e EXCEPT !.rcv = m].send = e.send
  BY <1>1 DEF EventRec
<1> QED
  BY <1>2, <1>3, <1>4, Zenon DEF n, m

\* A FIN is about to be reported, of a connection only.
LEMMA CoreFin ==
  ASSUME NEW c, NEW p, NEW s, NEW e, NEW k, NEW f, CoreInv(c, p, s, e, k, f),
         NEW g \in BOOLEAN, g = TRUE => p.st = "est"
  PROVE  CoreInv(c, p, s, e, k, g)
<1>1. BlockInv(c, p, k, g)
  BY DEF CoreInv, BlockInv
<1> QED
  BY <1>1 DEF CoreInv

\* A callback of the TCP layer that hands data to the mailbox: the netconn is
\* the same but for its mailbox, the block but for what it holds back.
LEMMA HandedKeeps ==
  ASSUME NetconnInv, NEW d, Same(netconn, d), NEW q \in ConnPcb, NEW h \in EventRec,
         netconn' = d, netpcb' = q, sockevents' = h, apimsg' = apimsg,
         op_completed' = op_completed, finNext' \in BOOLEAN,
         finNext' = TRUE => netpcb.st = "est", CountedInv(d, q, h, apimsg),
         q.st = netpcb.st, q.arg = netpcb.arg, q.sent = netpcb.sent, q.poll = netpcb.poll,
         q.errf = netpcb.errf, q.used = netpcb.used, h.send = sockevents.send
  PROVE  NetconnInv'
<1>1. CoreInv(netconn, netpcb, op_completed, sockevents, apimsg, finNext)
  BY DEF NetconnInv
<1>2. CoreInv(d, q, op_completed, h, apimsg, finNext)
  BY <1>1, CoreBut DEF Same
<1>3. CoreInv(d, q, op_completed, h, apimsg, finNext')
  BY <1>2, CoreFin
<1>4. DueInv(d, q, h)
  BY DEF NetconnInv, DueInv, Same
<1> QED
  BY <1>3, <1>4, InvNext

\* What the block holds back.
LEMMA RefusedFlag ==
  ASSUME NEW p \in ConnPcb, NEW b \in BOOLEAN
  PROVE  LET q == [p EXCEPT !.refused = b] IN
         /\ q \in ConnPcb /\ q.st = p.st /\ q.arg = p.arg /\ q.sent = p.sent /\ q.poll = p.poll
         /\ q.errf = p.errf /\ q.used = p.used /\ q.refused = b
<1> DEFINE q == [p EXCEPT !.refused = b]
<1>1. q \in ConnPcb
  BY DEF ConnPcb
<1>2. /\ q.st = p.st /\ q.arg = p.arg /\ q.sent = p.sent /\ q.poll = p.poll
      /\ q.errf = p.errf /\ q.used = p.used /\ q.refused = b
  BY DEF ConnPcb
<1> HIDE DEF q
<1>3. /\ q \in ConnPcb /\ q.st = p.st /\ q.arg = p.arg /\ q.sent = p.sent /\ q.poll = p.poll
      /\ q.errf = p.errf /\ q.used = p.used /\ q.refused = b
  BY <1>1, <1>2
<1> QED
  BY <1>3 DEF q

\* recv_tcp with data: posted and counted, or refused, or nobody's.
LEMMA RecvDataKeeps ==
  ASSUME NetconnInv, Nc!recv_data, apimsg' = apimsg, op_completed' = op_completed,
         finNext' \in BOOLEAN, finNext' = TRUE => netpcb.st = "est",
         netpcb.st = "est" \/ netpcb.refused = TRUE
  PROVE  NetconnInv'
<1> DEFINE c == netconn
           p == netpcb
           e == sockevents
<1>1. /\ c \in ConnRec /\ p \in ConnPcb /\ e \in EventRec /\ apimsg \in MsgRec
      /\ CountedInv(c, p, e, apimsg)
  BY DEF NetconnInv, CoreInv
<1>2. c.rmbox \in Seq({"data", "eof"}) /\ Len(c.rmbox) \in Nat /\ e.rcv \in Int /\ c.rvalid \in BOOLEAN
  BY <1>1, LenProperties DEF ConnRec, EventRec
<1>3. c.pcb = TRUE => p.st # "closed"
  BY <1>1 DEF CountedInv
<1>4. CASE Nc!Reaches(p.recv) /\ c.rvalid /\ Nc!Room(c.rmbox)
  <2> DEFINE x == Append(c.rmbox, "data")
             a == [c EXCEPT !.rmbox = x]
             d == Nc!SafeErr(a, "OK")
             q == [p EXCEPT !.refused = FALSE]
             h == Nc!RcvPlus(e)
  <2>1. netconn' = d /\ netpcb' = q /\ sockevents' = h
    BY <1>4, Zenon DEF Nc!recv_data
  <2>2. x \in Seq({"data", "eof"}) /\ Len(x) = Len(c.rmbox) + 1
    BY <1>2, AppendProperties
  <2> HIDE DEF x
  <2>3. Same(c, a) /\ a.rmbox = x /\ a.ambox = c.ambox
    BY <1>1, <2>2, BoxesAre, Zenon
  <2> HIDE DEF a
  <2>4. Same(a, d) /\ d.rmbox = x /\ d.ambox = c.ambox
    BY <2>3, SafeErrIs, ErrCodesAre DEF Same
  <2> HIDE DEF d
  <2>5. Same(c, d)
    BY <2>3, <2>4, SameOf, Zenon
  <2>6. /\ q \in ConnPcb /\ q.st = p.st /\ q.arg = p.arg /\ q.sent = p.sent /\ q.poll = p.poll
        /\ q.errf = p.errf /\ q.used = p.used
    BY <1>1, RefusedFlag
  <2>7. h \in EventRec /\ h.rcv = e.rcv + 1 /\ h.send = e.send
    BY <1>1, RcvIs
  <2> HIDE DEF q, h
  <2>8. CountedInv(d, q, h, apimsg)
    <3>1. c.avalid = FALSE /\ c.rvalid = TRUE
      BY <1>1, <1>2, <1>4 DEF CountedInv
    <3> QED
      BY <1>1, <1>2, <1>3, <2>2, <2>4, <2>5, <2>6, <2>7, <3>1 DEF CountedInv, Same
  <2> QED
    BY <2>1, <2>5, <2>6, <2>7, <2>8, HandedKeeps
<1>5. CASE Nc!Reaches(p.recv) /\ c.rvalid /\ ~Nc!Room(c.rmbox)
  <2> DEFINE d == Nc!SafeErr(c, "OK")
             q == [p EXCEPT !.refused = TRUE]
  <2>1. netconn' = d /\ netpcb' = q /\ sockevents' = e
    BY <1>5, Zenon DEF Nc!recv_data
  <2>2. Same(c, d) /\ d.rmbox = c.rmbox /\ d.ambox = c.ambox
    BY <1>1, SafeErrIs, ErrCodesAre
  <2> HIDE DEF d
  <2>3. /\ q \in ConnPcb /\ q.st = p.st /\ q.arg = p.arg /\ q.sent = p.sent /\ q.poll = p.poll
        /\ q.errf = p.errf /\ q.used = p.used
    BY <1>1, RefusedFlag
  <2> HIDE DEF q
  <2>4. CountedInv(d, q, e, apimsg)
    BY <1>1, <1>3, <2>2, <2>3 DEF CountedInv, Same
  <2> QED
    BY <1>1, <2>1, <2>2, <2>3, <2>4, HandedKeeps
<1>6. CASE ~(Nc!Reaches(p.recv) /\ c.rvalid)
  <2> DEFINE q == [p EXCEPT !.refused = FALSE]
  <2>1. netconn' = c /\ netpcb' = q /\ sockevents' = e
    BY <1>6, Zenon DEF Nc!recv_data
  <2>2. Same(c, c)
    BY <1>1 DEF Same
  <2>3. /\ q \in ConnPcb /\ q.st = p.st /\ q.arg = p.arg /\ q.sent = p.sent /\ q.poll = p.poll
        /\ q.errf = p.errf /\ q.used = p.used /\ q.refused = FALSE
    BY <1>1, RefusedFlag
  <2> HIDE DEF q
  <2>4. CountedInv(c, q, e, apimsg)
    BY <1>1, <2>3 DEF CountedInv
  <2> QED
    BY <1>1, <2>1, <2>2, <2>3, <2>4, HandedKeeps
<1> QED
  BY <1>4, <1>5, <1>6

\* A segment with data, and the data refused before.
LEMMA SegmentKeeps ==
  ASSUME NetconnInv, \/ Nc!SegmentData(TRUE) \/ Nc!SegmentData(FALSE) \/ Nc!Refused
  PROVE  NetconnInv'
<1>1. CASE Nc!SegmentData(TRUE)
  BY <1>1, RecvDataKeeps DEF Nc!SegmentData
<1>2. CASE Nc!SegmentData(FALSE)
  BY <1>2, RecvDataKeeps DEF Nc!SegmentData
<1>3. CASE Nc!Refused
  <2>1. netpcb.refused = TRUE
    BY <1>3 DEF Nc!Refused, NetconnInv, CoreInv, ConnPcb
  <2>2. finNext' = FALSE
    BY <1>3 DEF Nc!Refused, NetconnInv, CoreInv
  <2>3. Nc!recv_data /\ apimsg' = apimsg /\ op_completed' = op_completed
    BY <1>3 DEF Nc!Refused
  <2> QED
    BY <2>1, <2>2, <2>3, RecvDataKeeps
<1> QED
  BY <1>1, <1>2, <1>3

\* A FIN arrives, and recv_tcp is told.
LEMMA FinKeeps ==
  ASSUME NetconnInv, Nc!SegmentFin \/ Nc!recv_fin
  PROVE  NetconnInv'
<1> DEFINE c == netconn
           p == netpcb
           e == sockevents
<1>1. /\ c \in ConnRec /\ p \in ConnPcb /\ e \in EventRec /\ finNext \in BOOLEAN
      /\ CountedInv(c, p, e, apimsg) /\ Same(c, c)
  BY DEF NetconnInv, CoreInv, Same
<1>2. CASE Nc!SegmentFin
  BY <1>1, <1>2, HandedKeeps DEF Nc!SegmentFin
<1>3. CASE Nc!recv_fin
  <2> DEFINE q == [p EXCEPT !.fin = TRUE]
  <2>1. /\ finNext /\ finNext' = FALSE /\ netpcb' = q
        /\ apimsg' = apimsg /\ op_completed' = op_completed
    BY <1>3 DEF Nc!recv_fin
  <2>2. p.st = "est"
    <3>1. finNext = TRUE
      BY <1>1, <2>1
    <3> QED
      BY <3>1 DEF NetconnInv, CoreInv, BlockInv
  <2>3. q \in ConnPcb
    BY <1>1 DEF ConnPcb
  <2>4. /\ q.st = p.st /\ q.arg = p.arg /\ q.sent = p.sent /\ q.poll = p.poll
        /\ q.errf = p.errf /\ q.used = p.used /\ q.refused = p.refused
    BY <1>1 DEF ConnPcb
  <2> HIDE DEF q
  <2>5. CASE Nc!Reaches(p.recv) /\ c.rvalid /\ Nc!Room(c.rmbox)
    <3> DEFINE x == Append(c.rmbox, "eof")
               a == [c EXCEPT !.rmbox = x]
               d == Nc!SafeErr(a, "OK")
               h == Nc!RcvPlus(e)
    <3>1. netconn' = d /\ sockevents' = h
      BY <1>3, <2>5, Zenon DEF Nc!recv_fin
    <3>2. c.rmbox \in Seq({"data", "eof"}) /\ Len(c.rmbox) \in Nat /\ e.rcv \in Int
          /\ c.rvalid \in BOOLEAN
      BY <1>1, LenProperties DEF ConnRec, EventRec
    <3>3. x \in Seq({"data", "eof"}) /\ Len(x) = Len(c.rmbox) + 1
      BY <3>2, AppendProperties
    <3> HIDE DEF x
    <3>4. Same(c, a) /\ a.rmbox = x /\ a.ambox = c.ambox
      BY <1>1, <3>3, BoxesAre, Zenon
    <3> HIDE DEF a
    <3>5. Same(a, d) /\ d.rmbox = x /\ d.ambox = c.ambox
      BY <3>4, SafeErrIs, ErrCodesAre DEF Same
    <3> HIDE DEF d
    <3>6. Same(c, d)
      BY <3>4, <3>5, SameOf, Zenon
    <3>7. h \in EventRec /\ h.rcv = e.rcv + 1 /\ h.send = e.send
      BY <1>1, RcvIs
    <3> HIDE DEF h
    <3>8. CountedInv(d, q, h, apimsg)
      <4>1. c.avalid = FALSE /\ c.rvalid = TRUE
        BY <1>1, <2>5, <3>2 DEF CountedInv
      <4> QED
        BY <1>1, <2>2, <2>4, <3>2, <3>3, <3>5, <3>6, <3>7, <4>1 DEF CountedInv, Same
    <3> QED
      BY <2>1, <2>3, <2>4, <3>1, <3>6, <3>7, <3>8, HandedKeeps
  <2>6. CASE ~(Nc!Reaches(p.recv) /\ c.rvalid /\ Nc!Room(c.rmbox))
    <3>1. netconn' = c /\ sockevents' = e
      BY <1>3, <2>6 DEF Nc!recv_fin
    <3>2. CountedInv(c, q, e, apimsg)
      BY <1>1, <2>4 DEF CountedInv
    <3> QED
      BY <1>1, <2>1, <2>3, <2>4, <3>1, <3>2, HandedKeeps
  <2> QED
    BY <2>5, <2>6
<1> QED
  BY <1>2, <1>3

\* accept_function.
LEMMA AcceptKeeps ==
  ASSUME NetconnInv, Nc!accept_function
  PROVE  NetconnInv'
<1> DEFINE c == netconn
           p == netpcb
           e == sockevents
           x == Append(c.ambox, "new")
           d == [c EXCEPT !.ambox = x]
           h == Nc!RcvPlus(e)
<1>1. /\ c \in ConnRec /\ p \in ConnPcb /\ e \in EventRec /\ finNext \in BOOLEAN
      /\ CountedInv(c, p, e, apimsg) /\ (finNext = TRUE => p.st = "est")
  BY DEF NetconnInv, CoreInv, BlockInv
<1>2. /\ p.st = "listen" /\ c.avalid /\ netconn' = d /\ sockevents' = h /\ netpcb' = p
      /\ apimsg' = apimsg /\ op_completed' = op_completed /\ finNext' = finNext
  BY DEF Nc!accept_function
<1>3. c.ambox \in Seq({"new", "eof"}) /\ Len(c.ambox) \in Nat /\ e.rcv \in Int
      /\ c.avalid \in BOOLEAN
  BY <1>1, LenProperties DEF ConnRec, EventRec
<1>4. x \in Seq({"new", "eof"}) /\ Len(x) = Len(c.ambox) + 1
  BY <1>3, AppendProperties
<1> HIDE DEF x
<1>5. Same(c, d) /\ d.ambox = x
  BY <1>1, <1>4, BoxesAre, Zenon
<1>6. h \in EventRec /\ h.rcv = e.rcv + 1 /\ h.send = e.send
  BY <1>1, RcvIs
<1> HIDE DEF d, h
<1>7. c.rvalid = FALSE /\ c.avalid = TRUE
  BY <1>1, <1>2, <1>3 DEF CountedInv
<1>8. CountedInv(d, p, h, apimsg)
  BY <1>1, <1>2, <1>3, <1>4, <1>5, <1>6, <1>7 DEF CountedInv, Same
<1> QED
  BY <1>1, <1>2, <1>5, <1>6, <1>8, HandedKeeps

-----------------------------------------------------------------------------
\* The application thread has another message, or none, and waits for nothing.
LEMMA CallReplaced ==
  ASSUME NEW c, NEW p, NEW s, NEW e, NEW m, NEW f, CoreInv(c, p, s, e, m, f), c.cur = FALSE,
         NEW k \in MsgRec, k.at # "wait", k.at = "idle" => k.fn = "none",
         k.fn = "write" => k.len > 0, k.fn = "close" => k.how \in {"RD", "WR", "RDWR"},
         CountedInv(c, p, e, k)
  PROVE  CoreInv(c, p, 0, e, k, f)
<1>1. c.state \notin {"WRITE", "CLOSE"}
  BY DEF CoreInv, WokenInv
<1>2. WokenInv(c, 0, k)
  BY DEF CoreInv, WokenInv
<1>3. MessageInv(c, k)
  BY <1>1 DEF MessageInv
<1>4. BlockInv(c, p, k, f)
  BY DEF CoreInv, BlockInv
<1> QED
  BY <1>2, <1>3, <1>4 DEF CoreInv

\* A thread that does not wait has no operation under way.
LEMMA NotWaiting ==
  ASSUME NetconnInv, apimsg.at # "wait"
  PROVE  netconn.cur = FALSE /\ op_completed = 0
BY DEF NetconnInv, CoreInv, WokenInv, ConnRec

\* The thread outside of the API.
LEMMA NoCallIs ==
  Nc!NoCall \in MsgRec /\ Nc!NoCall.at = "idle" /\ Nc!NoCall.fn = "none"
BY ErrCodesAre DEF Nc!NoCall, MsgRec, ApiFunctions

\* A step of the application that only changes its message.
LEMMA CallKeeps ==
  ASSUME NetconnInv, apimsg.at = "idle", apimsg' \in MsgRec, apimsg'.at # "wait",
         apimsg'.at = "idle" => apimsg'.fn = "none",
         apimsg'.fn # "recved", apimsg'.fn = "write" => apimsg'.len > 0,
         apimsg'.fn = "close" => apimsg'.how \in {"RD", "WR", "RDWR"},
         UNCHANGED <<netconn, netpcb, op_completed, sockevents, finNext>>
  PROVE  NetconnInv'
<1>1. netconn.cur = FALSE /\ op_completed = 0
  BY NotWaiting
<1>2. apimsg.fn = "none"
  BY DEF NetconnInv, CoreInv, MessageInv
<1>3. CoreInv(netconn, netpcb, op_completed, sockevents, apimsg, finNext)
  BY DEF NetconnInv
<1>4. CountedInv(netconn, netpcb, sockevents, apimsg')
  BY <1>2, <1>3 DEF CoreInv, CountedInv
<1>5. CoreInv(netconn, netpcb, op_completed, sockevents, apimsg', finNext)
  <2>1. CoreInv(netconn, netpcb, 0, sockevents, apimsg', finNext)
    BY <1>1, <1>3, <1>4, CallReplaced
  <2> QED
    BY <1>1, <2>1
<1>6. DueInv(netconn', netpcb', sockevents')
  BY DEF NetconnInv
<1>7. CoreInv(netconn', netpcb', op_completed', sockevents', apimsg', finNext')
  BY <1>5
<1> QED
  BY <1>6, <1>7, InvNext

\* A message is posted to tcpip_thread.
LEMMA EnterKeeps ==
  ASSUME NetconnInv, NEW fn \in {"connect", "listen", "write", "getaddr", "close", "delete"},
         NEW len \in Nat, NEW how \in {"none", "RD", "WR", "RDWR"}, Nc!Enter(fn, len, how),
         fn = "write" => len > 0, fn = "close" => how # "none"
  PROVE  NetconnInv'
<1> DEFINE k == [Nc!NoCall EXCEPT !.at = "queued", !.fn = fn, !.len = len, !.how = how]
<1>1. /\ apimsg.at = "idle" /\ apimsg' = k
      /\ UNCHANGED <<netconn, netpcb, op_completed, sockevents, finNext>>
  BY DEF Nc!Enter
<1>2. k \in MsgRec
  <2>1. fn \in ApiFunctions
    BY DEF ApiFunctions
  <2> QED
    BY <2>1, NoCallIs DEF MsgRec
<1>3. k.at = "queued" /\ k.fn = fn /\ k.len = len /\ k.how = how
  BY NoCallIs DEF MsgRec
<1> HIDE DEF k
<1> QED
  BY <1>1, <1>2, <1>3, CallKeeps

\* netconn_recv and netconn_accept begin to wait for their mailbox.
LEMMA FetchKeeps ==
  ASSUME NetconnInv, Nc!netconn_recv \/ Nc!netconn_accept
  PROVE  NetconnInv'
<1>1. PICK fn \in {"recv", "accept"} :
        /\ apimsg.at = "idle" /\ apimsg' = [Nc!NoCall EXCEPT !.at = "fetch", !.fn = fn]
        /\ UNCHANGED <<netconn, netpcb, op_completed, sockevents, finNext>>
  BY DEF Nc!netconn_recv, Nc!netconn_accept
<1> DEFINE k == [Nc!NoCall EXCEPT !.at = "fetch", !.fn = fn]
<1>2. k \in MsgRec
  <2>1. fn \in ApiFunctions
    BY DEF ApiFunctions
  <2> QED
    BY <2>1, NoCallIs DEF MsgRec
<1>3. k.at = "fetch" /\ k.fn = fn
  BY NoCallIs DEF MsgRec
<1>4. apimsg' = k
  BY <1>1
<1> HIDE DEF k
<1> QED
  BY <1>1, <1>2, <1>3, <1>4, CallKeeps

\* The socket is made blocking or non-blocking.
LEMMA NonblockingKeeps ==
  ASSUME NetconnInv, Nc!set_nonblocking
  PROVE  NetconnInv'
<1> DEFINE b == ~netconn.nb
           d == [netconn EXCEPT !.nb = b]
<1>1. /\ netconn' = d
      /\ UNCHANGED <<netpcb, apimsg, op_completed, sockevents, finNext>>
  BY DEF Nc!set_nonblocking
<1>2. /\ netconn \in ConnRec /\ netpcb \in ConnPcb /\ sockevents \in EventRec
      /\ finNext \in BOOLEAN /\ (finNext = TRUE => netpcb.st = "est")
      /\ CountedInv(netconn, netpcb, sockevents, apimsg)
  BY DEF NetconnInv, CoreInv, BlockInv
<1>3. b \in BOOLEAN
  OBVIOUS
<1> HIDE DEF b
<1>4. d \in ConnRec
  BY <1>2, <1>3 DEF ConnRec
<1>5. /\ d.state = netconn.state /\ d.cur = netconn.cur /\ d.pcb = netconn.pcb
      /\ d.inconn = netconn.inconn /\ d.freed = netconn.freed /\ d.halved = netconn.halved
      /\ d.rvalid = netconn.rvalid /\ d.avalid = netconn.avalid /\ d.rmbox = netconn.rmbox
      /\ d.ambox = netconn.ambox /\ d.lerr = netconn.lerr /\ d.woff = netconn.woff
      /\ d.checkws = netconn.checkws
  BY <1>2 DEF ConnRec
<1> HIDE DEF d
<1>6. Same(netconn, d)
  BY <1>4, <1>5 DEF Same
<1>7. CountedInv(d, netpcb, sockevents, apimsg)
  BY <1>2, <1>5 DEF CountedInv
<1> QED
  BY <1>1, <1>2, <1>6, <1>7, HandedKeeps

\* A step of the application that takes something from the netconn.
LEMMA TakesKeeps ==
  ASSUME NetconnInv, netconn.cur = FALSE, NEW d \in ConnRec, NEW h \in EventRec, NEW k \in MsgRec,
         d.state = netconn.state, d.cur = netconn.cur, d.pcb = netconn.pcb,
         d.inconn = netconn.inconn, d.halved = netconn.halved, d.checkws = netconn.checkws,
         d.freed = TRUE => d.pcb = FALSE, h.send = sockevents.send,
         k.at # "wait", k.at = "idle" => k.fn = "none", k.fn \notin {"write", "close"},
         CountedInv(d, netpcb, h, k),
         netconn' = d, sockevents' = h, apimsg' = k, op_completed' = 0,
         UNCHANGED <<netpcb, finNext>>
  PROVE  NetconnInv'
<1>1. CoreInv(netconn, netpcb, op_completed, sockevents, apimsg, finNext)
  BY DEF NetconnInv
<1>2. d.state \notin {"WRITE", "CLOSE"}
  BY <1>1 DEF CoreInv, WokenInv
<1>3. WokenInv(d, 0, k)
  BY <1>1 DEF CoreInv, WokenInv
<1>4. MessageInv(d, k)
  BY <1>2 DEF MessageInv
<1>5. BlockInv(d, netpcb, k, finNext)
  BY <1>1 DEF CoreInv, BlockInv
<1>6. CoreInv(d, netpcb, 0, h, k, finNext)
  BY <1>1, <1>3, <1>4, <1>5 DEF CoreInv
<1>7. DueInv(d, netpcb, h)
  BY DEF NetconnInv, DueInv
<1> QED
  BY <1>6, <1>7, InvNext

\* netconn_recv takes from the mailbox before rcvevent is counted down.
LEMMA FetchedKeeps ==
  ASSUME NetconnInv, Nc!Fetched
  PROVE  NetconnInv'
<1> DEFINE c == netconn
           x == Tail(c.rmbox)
           d == [c EXCEPT !.rmbox = x]
           y == Head(c.rmbox)
           k == [apimsg EXCEPT !.at = "queued", !.fn = "recved", !.how = y]
<1>1. /\ apimsg.at = "fetch" /\ apimsg.fn = "recv" /\ c.rmbox # <<>>
      /\ netconn' = d /\ apimsg' = k
      /\ UNCHANGED <<netpcb, op_completed, sockevents, finNext>>
  BY DEF Nc!Fetched
<1>2. /\ c \in ConnRec /\ netpcb \in ConnPcb /\ sockevents \in EventRec /\ apimsg \in MsgRec
      /\ CountedInv(c, netpcb, sockevents, apimsg) /\ (c.freed = TRUE => c.pcb = FALSE)
  BY DEF NetconnInv, CoreInv, BlockInv
<1>3. c.cur = FALSE /\ op_completed = 0
  BY <1>1, NotWaiting
<1>4. c.rmbox \in Seq({"data", "eof"}) /\ sockevents.rcv \in Int
  BY <1>2 DEF ConnRec, EventRec
<1>5. x \in Seq({"data", "eof"}) /\ Len(x) = Len(c.rmbox) - 1 /\ Len(c.rmbox) \in Nat
  BY <1>1, <1>4, HeadTailProperties, LenProperties
<1>6. y \in {"data", "eof"}
  BY <1>1, <1>4, HeadTailProperties
<1> HIDE DEF x, y
<1>7. Same(c, d) /\ d.rmbox = x /\ d.ambox = c.ambox
  BY <1>2, <1>5, BoxesAre, Zenon
<1>8. k \in MsgRec
  BY <1>2, <1>6 DEF MsgRec, ApiFunctions
<1>9. k.at = "queued" /\ k.fn = "recved"
  BY <1>2 DEF MsgRec
<1> HIDE DEF d, k
<1>10. CountedInv(d, netpcb, sockevents, k)
  BY <1>1, <1>2, <1>4, <1>5, <1>7, <1>9 DEF CountedInv, Same
<1>11. /\ d \in ConnRec /\ d.state = c.state /\ d.cur = c.cur /\ d.pcb = c.pcb
       /\ d.inconn = c.inconn /\ d.halved = c.halved /\ d.checkws = c.checkws
       /\ d.freed = TRUE => d.pcb = FALSE
  BY <1>2, <1>7 DEF Same
<1> QED
  BY <1>1, <1>2, <1>3, <1>8, <1>9, <1>10, <1>11, TakesKeeps

\* netconn_accept takes from the mailbox.
LEMMA AcceptedKeeps ==
  ASSUME NetconnInv, Nc!Accepted
  PROVE  NetconnInv'
<1> DEFINE c == netconn
           x == Tail(c.ambox)
           a == [c EXCEPT !.ambox = x]
           r == IF Head(c.ambox) = "eof" THEN "CLSD" ELSE c.lerr
           d == Nc!SafeErr(a, r)
           h == Nc!RcvMinus(sockevents)
<1>1. /\ apimsg.at = "fetch" /\ apimsg.fn = "accept" /\ c.ambox # <<>>
      /\ netconn' = d /\ sockevents' = h /\ apimsg' = Nc!NoCall
      /\ UNCHANGED <<netpcb, op_completed, finNext>>
  BY DEF Nc!Accepted
<1>2. /\ c \in ConnRec /\ netpcb \in ConnPcb /\ sockevents \in EventRec /\ apimsg \in MsgRec
      /\ CountedInv(c, netpcb, sockevents, apimsg) /\ (c.freed = TRUE => c.pcb = FALSE)
  BY DEF NetconnInv, CoreInv, BlockInv
<1>3. c.cur = FALSE /\ op_completed = 0
  BY <1>1, NotWaiting
<1>4. /\ c.ambox \in Seq({"new", "eof"}) /\ c.rmbox \in Seq({"data", "eof"})
      /\ sockevents.rcv \in Int /\ c.lerr \in ErrCodes
  BY <1>2 DEF ConnRec, EventRec
<1>5. /\ x \in Seq({"new", "eof"}) /\ Len(x) = Len(c.ambox) - 1 /\ Len(c.ambox) \in Nat
      /\ Len(c.rmbox) \in Nat
  BY <1>1, <1>4, HeadTailProperties, LenProperties
<1>6. r \in ErrCodes
  BY <1>4, ErrCodesAre, Zenon
<1> HIDE DEF x, r
<1>7. Same(c, a) /\ a.ambox = x /\ a.rmbox = c.rmbox
  BY <1>2, <1>5, BoxesAre, Zenon
<1> HIDE DEF a
<1>8. Same(a, d) /\ d.ambox = x /\ d.rmbox = c.rmbox
  BY <1>6, <1>7, SafeErrIs DEF Same
<1> HIDE DEF d
<1>9. Same(c, d)
  BY <1>7, <1>8, SameOf, Zenon
<1>10. h \in EventRec /\ h.rcv = sockevents.rcv - 1 /\ h.send = sockevents.send
  BY <1>2, RcvIs
<1> HIDE DEF h
<1>11. CountedInv(d, netpcb, h, Nc!NoCall)
  BY <1>1, <1>2, <1>4, <1>5, <1>8, <1>9, <1>10, NoCallIs DEF CountedInv, Same
<1>12. /\ d \in ConnRec /\ d.state = c.state /\ d.cur = c.cur /\ d.pcb = c.pcb
       /\ d.inconn = c.inconn /\ d.halved = c.halved /\ d.checkws = c.checkws
       /\ d.freed = TRUE => d.pcb = FALSE
  BY <1>2, <1>9 DEF Same
<1> QED
  BY <1>1, <1>2, <1>3, <1>10, <1>11, <1>12, NoCallIs, TakesKeeps

\* The thread is woken.
LEMMA ReturnKeeps ==
  ASSUME NetconnInv, Nc!Return
  PROVE  NetconnInv'
<1> DEFINE c == netconn
           e == sockevents
<1>1. /\ apimsg.at = "wait" /\ op_completed > 0 /\ op_completed' = op_completed - 1
      /\ apimsg' = Nc!NoCall /\ UNCHANGED <<netpcb, finNext>>
  BY DEF Nc!Return
<1>2. /\ c \in ConnRec /\ netpcb \in ConnPcb /\ e \in EventRec /\ apimsg \in MsgRec
      /\ CountedInv(c, netpcb, e, apimsg)
  BY DEF NetconnInv, CoreInv
<1>3. c.cur = FALSE /\ op_completed' = 0
  BY <1>1 DEF NetconnInv, CoreInv, WokenInv, ConnRec
<1>4. c.freed = TRUE => c.pcb = FALSE
  BY DEF NetconnInv, CoreInv, BlockInv
<1>5. CASE apimsg.fn = "delete"
  <2> DEFINE d == [c EXCEPT !.freed = TRUE]
  <2>1. netconn' = d /\ sockevents' = e
    BY <1>5 DEF Nc!Return
  <2>2. c.pcb = FALSE
    BY <1>1, <1>3, <1>5 DEF NetconnInv, CoreInv, BlockInv
  <2>3. d \in ConnRec
    BY <1>2 DEF ConnRec
  <2>4. /\ d.state = c.state /\ d.cur = c.cur /\ d.pcb = c.pcb /\ d.inconn = c.inconn
        /\ d.halved = c.halved /\ d.rvalid = c.rvalid /\ d.avalid = c.avalid
        /\ d.rmbox = c.rmbox /\ d.ambox = c.ambox /\ d.lerr = c.lerr /\ d.checkws = c.checkws
    BY <1>2 DEF ConnRec
  <2> HIDE DEF d
  <2>5. CountedInv(d, netpcb, e, Nc!NoCall)
    BY <1>2, <1>5, <2>4, NoCallIs DEF CountedInv
  <2> QED
    BY <1>1, <1>2, <1>3, <2>1, <2>2, <2>3, <2>4, <2>5, NoCallIs, TakesKeeps
<1>6. CASE apimsg.fn = "recved"
  <2> DEFINE d == IF apimsg.how = "eof" THEN Nc!SafeErr(c, "CLSD") ELSE c
             h == Nc!RcvMinus(e)
  <2>1. netconn' = d /\ sockevents' = h
    BY <1>6 DEF Nc!Return
  <2>2. Same(c, d) /\ d.rmbox = c.rmbox /\ d.ambox = c.ambox
    <3>1. CASE apimsg.how = "eof"
      BY <1>2, <3>1, SafeErrIs, ErrCodesAre
    <3>2. CASE apimsg.how # "eof"
      BY <1>2, <3>2 DEF Same
    <3> QED
      BY <3>1, <3>2
  <2> HIDE DEF d
  <2>3. h \in EventRec /\ h.rcv = e.rcv - 1 /\ h.send = e.send /\ e.rcv \in Int
    BY <1>2, RcvIs DEF EventRec
  <2> HIDE DEF h
  <2>4. CountedInv(d, netpcb, h, Nc!NoCall)
    <3>1. Len(c.rmbox) \in Nat /\ Len(c.ambox) \in Nat
      BY <1>2, LenProperties DEF ConnRec
    <3> QED
      BY <1>2, <1>6, <2>2, <2>3, <3>1, NoCallIs DEF CountedInv, Same
  <2>5. /\ d \in ConnRec /\ d.state = c.state /\ d.cur = c.cur /\ d.pcb = c.pcb
        /\ d.inconn = c.inconn /\ d.halved = c.halved /\ d.checkws = c.checkws
        /\ d.freed = TRUE => d.pcb = FALSE
    BY <1>4, <2>2 DEF Same
  <2> QED
    BY <1>1, <1>2, <1>3, <2>1, <2>3, <2>4, <2>5, NoCallIs, TakesKeeps
<1>7. CASE apimsg.fn \notin {"delete", "recved"}
  <2> DEFINE d == Nc!SafeErr(c, apimsg.res)
  <2>1. netconn' = d /\ sockevents' = e
    BY <1>7 DEF Nc!Return
  <2>2. Same(c, d) /\ d.rmbox = c.rmbox /\ d.ambox = c.ambox
    <3>1. apimsg.res \in ErrCodes
      BY <1>2 DEF MsgRec
    <3> QED
      BY <1>2, <3>1, SafeErrIs
  <2> HIDE DEF d
  <2>3. CountedInv(d, netpcb, e, Nc!NoCall)
    BY <1>2, <1>7, <2>2, NoCallIs DEF CountedInv, Same
  <2>4. /\ d \in ConnRec /\ d.state = c.state /\ d.cur = c.cur /\ d.pcb = c.pcb
        /\ d.inconn = c.inconn /\ d.halved = c.halved /\ d.checkws = c.checkws
        /\ d.freed = TRUE => d.pcb = FALSE
    BY <1>4, <2>2 DEF Same
  <2> QED
    BY <1>1, <1>2, <1>3, <2>1, <2>3, <2>4, NoCallIs, TakesKeeps
<1> QED
  BY <1>5, <1>6, <1>7

-----------------------------------------------------------------------------
\* The invariant holds of a new netconn and of an accepted one.
LEMMA NetconnInit ==
  ASSUME SndBuf \in Nat \ {0}, Nc!Init
  PROVE  NetconnInv
<1> DEFINE c == Nc!netconn_alloc
<1>1. netconn = c /\ apimsg = Nc!NoCall /\ op_completed = 0 /\ finNext = FALSE
  BY DEF Nc!Init
<1>2. c \in ConnRec
  <2>1. <<>> \in Seq({"data", "eof"}) /\ <<>> \in Seq({"new", "eof"})
    OBVIOUS
  <2> QED
    BY <2>1, ErrCodesAre DEF Nc!netconn_alloc, ConnRec
<1>3. /\ c.state = "NONE" /\ c.cur = FALSE /\ c.pcb = TRUE /\ c.inconn = FALSE /\ c.freed = FALSE
      /\ c.rvalid = TRUE /\ c.avalid = FALSE /\ Len(c.rmbox) = 0
  BY DEF Nc!netconn_alloc
<1>4. /\ netpcb \in ConnPcb /\ sockevents \in EventRec /\ sockevents.rcv = 0
      /\ \/ netpcb.st = "closed" /\ netpcb.refused = FALSE
         \/ /\ netpcb.st = "est" /\ sockevents.send = TRUE
            /\ netpcb.arg = TRUE /\ netpcb.sent = TRUE /\ netpcb.poll = TRUE /\ netpcb.errf = TRUE
  <2>1. CASE /\ netpcb = [Nc!NoPcb EXCEPT !.st = "closed"]
             /\ sockevents = [rcv |-> 0, send |-> FALSE, err |-> FALSE]
    <3>1. netpcb \in ConnPcb /\ netpcb.st = "closed" /\ netpcb.refused = FALSE
      BY <2>1, NoPcbIs DEF ConnPcb
    <3> QED
      BY <2>1, <3>1 DEF EventRec
  <2>2. CASE /\ netpcb = Nc!setup_tcp([Nc!NoPcb EXCEPT !.st = "est"])
             /\ sockevents = [rcv |-> 0, send |-> TRUE, err |-> FALSE]
    <3>1. [Nc!NoPcb EXCEPT !.st = "est"] \in ConnPcb /\ [Nc!NoPcb EXCEPT !.st = "est"].st = "est"
      BY NoPcbIs DEF ConnPcb
    <3>2. /\ netpcb \in ConnPcb /\ netpcb.st = "est" /\ netpcb.arg = TRUE /\ netpcb.sent = TRUE
          /\ netpcb.poll = TRUE /\ netpcb.errf = TRUE
      BY <2>2, <3>1, SetupIs
    <3> QED
      BY <2>2, <3>2 DEF EventRec
  <2> QED
    BY <2>1, <2>2 DEF Nc!Init
<1> HIDE DEF c
<1>5. WokenInv(c, 0, Nc!NoCall)
  BY <1>3, NoCallIs DEF WokenInv
<1>6. MessageInv(c, Nc!NoCall)
  BY <1>3, NoCallIs DEF MessageInv
<1>7. BlockInv(c, netpcb, Nc!NoCall, FALSE)
  BY <1>3, <1>4, NoCallIs DEF BlockInv, Linked
<1>8. CountedInv(c, netpcb, sockevents, Nc!NoCall)
  BY <1>3, <1>4, NoCallIs DEF CountedInv
<1>9. CoreInv(c, netpcb, 0, sockevents, Nc!NoCall, FALSE)
  BY <1>2, <1>4, <1>5, <1>6, <1>7, <1>8, NoCallIs DEF CoreInv
<1>10. DueInv(c, netpcb, sockevents) \/ netpcb.st = "closed"
  BY <1>4 DEF DueInv
<1>11. DueInv(c, netpcb, sockevents)
  BY <1>10 DEF DueInv
<1> QED
  BY <1>1, <1>9, <1>11 DEF NetconnInv

\* Every step keeps it.
LEMMA NetconnStep ==
  ASSUME Nc!NetconnAssumption, NetconnInv, [Nc!Next]_Nc!netconnVars
  PROVE  NetconnInv'
<1>1. SndBuf \in Nat \ {0} /\ Writes \subseteq Nat \ {0} /\ Hows \subseteq {"RD", "WR", "RDWR"}
  BY DEF Nc!NetconnAssumption
<1>2. CASE \/ Nc!netconn_connect \/ Nc!netconn_listen \/ Nc!netconn_write \/ Nc!netconn_getaddr
           \/ Nc!netconn_close_shutdown \/ Nc!netconn_delete
  <2>1. CASE Nc!netconn_connect
    BY <2>1, EnterKeeps DEF Nc!netconn_connect
  <2>2. CASE Nc!netconn_listen
    BY <2>2, EnterKeeps DEF Nc!netconn_listen
  <2>3. CASE Nc!netconn_write
    <3>1. PICK len \in Writes : Nc!Enter("write", len, "none")
      BY <2>3 DEF Nc!netconn_write
    <3>2. len \in Nat /\ len > 0
      BY <1>1
    <3> QED
      BY <3>1, <3>2, EnterKeeps
  <2>4. CASE Nc!netconn_getaddr
    BY <2>4, EnterKeeps DEF Nc!netconn_getaddr
  <2>5. CASE Nc!netconn_close_shutdown
    <3>1. PICK how \in Hows : Nc!Enter("close", 0, how)
      BY <2>5 DEF Nc!netconn_close_shutdown
    <3>2. how \in {"RD", "WR", "RDWR"}
      BY <1>1
    <3> QED
      BY <3>1, <3>2, EnterKeeps
  <2>6. CASE Nc!netconn_delete
    BY <2>6, EnterKeeps DEF Nc!netconn_delete
  <2> QED
    BY <1>2, <2>1, <2>2, <2>3, <2>4, <2>5, <2>6
<1>3. CASE Nc!set_nonblocking
  BY <1>3, NonblockingKeeps
<1>4. CASE Nc!netconn_recv \/ Nc!netconn_accept
  BY <1>4, FetchKeeps
<1>5. CASE Nc!Fetched
  BY <1>5, FetchedKeeps
<1>6. CASE Nc!Accepted
  BY <1>6, AcceptedKeeps
<1>7. CASE Nc!Return
  BY <1>7, ReturnKeeps
<1>8. CASE Nc!tcpip_thread
  BY <1>1, <1>8, ThreadKeeps
<1>9. CASE Nc!sent_tcp
  BY <1>1, <1>9, SentKeeps
<1>10. CASE Nc!poll_tcp
  BY <1>1, <1>10, PollKeeps
<1>11. CASE Nc!do_connected
  BY <1>1, <1>11, ConnectedKeeps
<1>12. CASE Nc!err_tcp
  BY <1>1, <1>12, ErrKeeps
<1>13. CASE Nc!SegmentData(TRUE) \/ Nc!SegmentData(FALSE) \/ Nc!Refused
  BY <1>13, SegmentKeeps
<1>14. CASE Nc!SegmentFin \/ Nc!recv_fin
  BY <1>14, FinKeeps
<1>15. CASE Nc!accept_function
  BY <1>15, AcceptKeeps
<1>16. CASE UNCHANGED Nc!netconnVars
  <2>1. UNCHANGED <<netconn, netpcb, op_completed, sockevents, apimsg, finNext>>
    BY <1>16 DEF Nc!netconnVars
  <2>2. CoreInv(netconn, netpcb, op_completed, sockevents, apimsg, finNext)
        /\ DueInv(netconn, netpcb, sockevents)
    BY DEF NetconnInv
  <2> QED
    BY <2>1, <2>2, InvNext
<1> QED
  BY <1>2, <1>3, <1>4, <1>5, <1>6, <1>7, <1>8, <1>9, <1>10, <1>11, <1>12, <1>13, <1>14, <1>15,
     <1>16 DEF Nc!Next

\* It implies the property.
LEMMA NetconnInvSound ==
  ASSUME NetconnInv
  PROVE  Nc!NetconnSound
<1> DEFINE c == netconn
           p == netpcb
           s == op_completed
           e == sockevents
<1>1. /\ CoreInv(c, p, s, e, apimsg, finNext) /\ DueInv(c, p, e)
      /\ c \in ConnRec /\ p \in ConnPcb /\ e \in EventRec
  BY DEF NetconnInv, CoreInv
<1>2. /\ c.cur \in BOOLEAN /\ c.pcb \in BOOLEAN /\ c.inconn \in BOOLEAN /\ c.freed \in BOOLEAN
      /\ c.halved \in BOOLEAN /\ c.checkws \in BOOLEAN /\ c.rvalid \in BOOLEAN /\ c.avalid \in BOOLEAN
  BY <1>1 DEF ConnRec
<1>3. /\ p.arg \in BOOLEAN /\ p.errf \in BOOLEAN /\ p.poll \in BOOLEAN /\ p.sent \in BOOLEAN
      /\ e.send \in BOOLEAN
  BY <1>1 DEF ConnPcb, EventRec
<1>4. Nc!WokenOnce
  <2> DEFINE waits == {x \in {1, 2} : \/ x = 1 /\ c.cur
                                      \/ x = 2 /\ s = 1}
  <2>1. waits # {} <=> c.cur \/ s = 1
    BY <1>2
  <2>2. s \in {0, 1} /\ ~(c.cur /\ s = 1) /\ (apimsg.at = "wait" <=> c.cur \/ s = 1)
    BY <1>1, <1>2 DEF CoreInv, WokenInv
  <2>3. c.cur <=> \/ c.state \in {"WRITE", "CLOSE"}
                  \/ c.state = "CONNECT" /\ ~c.inconn
    BY <1>1, <1>2 DEF CoreInv, WokenInv
  <2>4. c.cur => c.pcb /\ p.arg /\ p.errf /\ p.poll
    BY <1>1, <1>2, <1>3 DEF CoreInv, BlockInv
  <2> HIDE DEF waits
  <2> QED
    BY <2>1, <2>2, <2>3, <2>4, Zenon DEF Nc!WokenOnce, waits
<1>5. Nc!SendEventDue
  BY <1>1, <1>2, <1>3 DEF CoreInv, BlockInv, DueInv, Linked, Nc!SendEventDue
<1>6. Nc!NeverBlocks
  <2>1. SUFFICES ASSUME apimsg.at = "idle", c.lerr \notin Nc!Fatal, e.rcv > 0
                 PROVE  /\ c.rvalid => c.rmbox # <<>>
                        /\ c.avalid => c.ambox # <<>>
    BY DEF Nc!NeverBlocks
  <2>2. apimsg.fn = "none"
    BY <1>1, <2>1 DEF CoreInv, MessageInv
  <2>3. /\ c.rvalid = TRUE => e.rcv <= Len(c.rmbox)
        /\ c.avalid = TRUE => e.rcv <= Len(c.ambox)
    BY <1>1, <2>1, <2>2 DEF CoreInv, CountedInv
  <2>4. Len(<<>>) = 0 /\ e.rcv \in Int
    BY <1>1 DEF EventRec
  <2>5. c.rvalid => c.rmbox # <<>>
    BY <1>2, <2>1, <2>3, <2>4
  <2>6. c.avalid => c.ambox # <<>>
    BY <1>2, <2>1, <2>3, <2>4
  <2> QED
    BY <2>5, <2>6
<1>7. Nc!NoDangling
  BY <1>1, <1>2, <1>3 DEF CoreInv, BlockInv, Nc!NoDangling
<1> QED
  BY <1>4, <1>5, <1>6, <1>7 DEF Nc!NetconnSound

\* Whatever the sizes of the mailboxes, of the send buffer and of the writes, and
\* however tcpip_thread, the callbacks of the TCP layer and the application
\* interleave: the thread in tcpip_apimsg is woken exactly once, with what has to
\* finish its operation set on the block; a connected socket that select reports
\* as not writable is going to be reported writable; a non-blocking recv or accept
\* that the socket layer lets through does not block; and a freed netconn leaves
\* no callback behind, except after a half shutdown.
THEOREM NetconnStaysSound ==
  ASSUME Nc!NetconnAssumption
  PROVE  Nc!Spec => []Nc!NetconnSound
<1>1. Nc!Init => NetconnInv
  BY NetconnInit DEF Nc!NetconnAssumption
<1>2. NetconnInv /\ [Nc!Next]_Nc!netconnVars => NetconnInv'
  BY NetconnStep
<1>3. NetconnInv => Nc!NetconnSound
  BY NetconnInvSound
<1> QED
  BY <1>1, <1>2, <1>3, PTL DEF Nc!Spec
=============================================================================
