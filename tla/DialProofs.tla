----------------------------- MODULE DialProofs -----------------------------
(***************************************************************************)
(* The configuration that is in force, its table of nodes and the calls    *)
(* made with it, for any lines of the configuration, any names and any     *)
(* addresses: AcceptedWhole of Config, NodesFound, SessionReaches and      *)
(* AllTried of Dial.                                                       *)
(*                                                                         *)
(* ConfigInv is about every configuration: one under work is well formed   *)
(* whatever lines were read (IsWork), a configuration in force has a table *)
(* that is sorted, holds an address once and a list of hosts for each      *)
(* (Complete).  Each keyword, each option and each lookup keeps it, so the *)
(* loops over lists do (the Steps lemmas, by UpTo).  IsCall is about the   *)
(* call: how far it is in the list of hosts, which addresses are still to  *)
(* be tried, and whom the connection reaches.                              *)
(***************************************************************************)
EXTENDS Dial, FiniteSetTheorems, WellFoundedInduction, TLAPS

-----------------------------------------------------------------------------
(* Numbers and sequences. *)

\* A set of numbers has a least element; a bounded one has a greatest.
LEMMA LeastNumber ==
    ASSUME NEW T \in SUBSET Nat, T # {}
    PROVE  \E n \in T : \A m \in T : n <= m
  <1>1. IsWellFoundedOn(OpToRel(<, Nat), Nat)
    BY NatLessThanWellFounded
  <1>2. PICK n \in T : \A m \in T : ~(<<m, n>> \in OpToRel(<, Nat))
    BY <1>1, WFMin
  <1>3. \A m \in T : ~(m < n)
    BY <1>2 DEF OpToRel
  <1>4. n \in Nat /\ \A m \in T : m \in Nat
    BY <1>2
  <1> QED BY <1>3, <1>4

(* Induction up to N, for a set of numbers. *)
LEMMA UpTo ==
    ASSUME NEW N \in Nat, NEW G, 0 \in G, \A k \in 0..N : k < N /\ k \in G => k + 1 \in G
    PROVE  N \in G
  <1> SUFFICES ASSUME N \notin G PROVE FALSE
    OBVIOUS
  <1> DEFINE Bad == {k \in 0..N : k \notin G}
  <1>1. PICK n \in Bad : \A m \in Bad : n <= m
    <2>1. Bad \in SUBSET Nat /\ Bad # {}
      OBVIOUS
    <2> QED BY <2>1, LeastNumber
  <1>2. n \in 0..N /\ n \notin G /\ n # 0
    BY <1>1
  <1>3. n - 1 \in 0..N /\ n - 1 \notin Bad /\ n - 1 < N
    BY <1>1, <1>2
  <1>4. n - 1 \in G
    BY <1>3
  <1> QED BY <1>2, <1>3, <1>4

LEMMA GreatestNumber ==
    ASSUME NEW N \in Nat, NEW T \in SUBSET (0..N), T # {}
    PROVE  \E n \in T : \A m \in T : m <= n
  <1> DEFINE U == {k \in 0..N : N - k \in T}
  <1>1. U \in SUBSET Nat /\ U # {}
    <2>1. PICK x \in T : TRUE
      OBVIOUS
    <2>2. x \in T /\ x \in 0..N
      BY <2>1
    <2>3. N - x \in 0..N /\ N - (N - x) = x
      BY <2>2
    <2>4. N - x \in U
      BY <2>2, <2>3
    <2>5. U \in SUBSET Nat
      OBVIOUS
    <2> HIDE DEF U
    <2> QED BY <2>4, <2>5
  <1>2. PICK k \in U : \A m \in U : k <= m
    BY <1>1, LeastNumber
  <1>3. N - k \in T
    BY <1>2
  <1>4. ASSUME NEW m \in T PROVE m <= N - k
    <2>1. m \in 0..N /\ N - m \in 0..N /\ N - (N - m) = m
      OBVIOUS
    <2>2. N - m \in U
      BY <2>1
    <2>3. k <= N - m /\ k \in 0..N
      BY <2>2, <1>2
    <2> QED BY <2>1, <2>3
  <1> QED BY <1>3, <1>4

-----------------------------------------------------------------------------
(* Sequences. *)

LEMMA SequenceFacts ==
    ASSUME NEW s, IsSequence(s)
    PROVE  /\ Len(s) \in Nat /\ DOMAIN s = 1..Len(s)
           /\ \A i \in 1..Len(s) : s[i] \in Range(s)
  BY DEF IsSequence, Range

LEMMA SequenceOf ==
    ASSUME NEW S, NEW s \in Seq(S)
    PROVE  IsSequence(s)
  <1>1. Len(s) \in Nat /\ DOMAIN s = 1..Len(s) /\ s = [i \in 1..Len(s) |-> s[i]]
    OBVIOUS
  <1>2. \A i \in 1..Len(s) : s[i] \in Range(s)
    BY <1>1 DEF Range
  <1>3. s \in [1..Len(s) -> Range(s)]
    BY <1>1, <1>2
  <1> QED BY <1>1, <1>3 DEF IsSequence

LEMMA EmptySequence == IsSequence(<<>>) /\ Len(<<>>) = 0
  <1>1. <<>> \in Seq({})
    OBVIOUS
  <1> QED BY <1>1, SequenceOf

LEMMA NonEmpty ==
    ASSUME NEW S, NEW s \in Seq(S), s # <<>>
    PROVE  1 \in 1..Len(s) /\ 1 \in DOMAIN s
  OBVIOUS

LEMMA AppendSequence ==
    ASSUME NEW s, IsSequence(s), NEW x
    PROVE  /\ IsSequence(Append(s, x)) /\ Len(Append(s, x)) = Len(s) + 1
           /\ \A i \in 1..Len(s) : Append(s, x)[i] = s[i]
           /\ Append(s, x)[Len(s) + 1] = x
  <1> DEFINE S == Range(s) \cup {x}
  <1>1. s \in Seq(S)
    BY DEF IsSequence
  <1>2. x \in S
    OBVIOUS
  <1> HIDE DEF S
  <1>3. Append(s, x) \in Seq(S)
    BY <1>1, <1>2
  <1>4. IsSequence(Append(s, x))
    BY <1>3, SequenceOf
  <1>5. /\ Len(Append(s, x)) = Len(s) + 1
        /\ \A i \in 1..Len(s) : Append(s, x)[i] = s[i]
        /\ Append(s, x)[Len(s) + 1] = x
    BY <1>1, <1>2
  <1> QED BY <1>4, <1>5

LEMMA ConcatSequence ==
    ASSUME NEW s, IsSequence(s), NEW t, IsSequence(t)
    PROVE  /\ IsSequence(s \o t) /\ Len(s \o t) = Len(s) + Len(t)
           /\ \A i \in 1..Len(s) : (s \o t)[i] = s[i]
           /\ \A i \in 1..Len(t) : (s \o t)[Len(s) + i] = t[i]
           /\ \A i \in 1..(Len(s) + Len(t)) :
                (s \o t)[i] = IF i <= Len(s) THEN s[i] ELSE t[i - Len(s)]
  <1> DEFINE S == Range(s) \cup Range(t)
  <1>1. s \in Seq(S) /\ t \in Seq(S)
    BY DEF IsSequence
  <1> HIDE DEF S
  <1>2. s \o t \in Seq(S)
    BY <1>1
  <1>3. IsSequence(s \o t)
    BY <1>2, SequenceOf
  <1>4. /\ Len(s \o t) = Len(s) + Len(t)
        /\ \A i \in 1..Len(s) : (s \o t)[i] = s[i]
        /\ \A i \in 1..(Len(s) + Len(t)) :
             (s \o t)[i] = IF i <= Len(s) THEN s[i] ELSE t[i - Len(s)]
    BY <1>1
  <1>5. \A i \in 1..Len(t) : (s \o t)[Len(s) + i] = t[i]
    BY <1>1
  <1> QED BY <1>3, <1>4, <1>5

LEMMA PartSequence ==
    ASSUME NEW s, IsSequence(s), NEW a \in 1..(Len(s) + 1), NEW b \in 0..Len(s)
    PROVE  /\ IsSequence(SubSeq(s, a, b))
           /\ Len(SubSeq(s, a, b)) = IF a <= b THEN b - a + 1 ELSE 0
           /\ \A i \in 1..Len(SubSeq(s, a, b)) : SubSeq(s, a, b)[i] = s[a + i - 1]
  <1>1. s \in Seq(Range(s))
    BY DEF IsSequence
  <1> DEFINE S == Range(s)
  <1> HIDE DEF S
  <1>2. s \in Seq(S) /\ Len(s) \in Nat
    BY <1>1 DEF S
  <1>3. SubSeq(s, a, b) \in Seq(S)
    <2>1. \A i \in a..b : i \in 1..Len(s)
      BY <1>2
    <2>2. \A i \in 1..Len(s) : s[i] \in S
      BY <1>2
    <2> QED BY <2>1, <2>2, <1>2
  <1>4. IsSequence(SubSeq(s, a, b))
    BY <1>3, SequenceOf
  <1>5. Len(SubSeq(s, a, b)) = IF a <= b THEN b - a + 1 ELSE 0
    BY <1>2
  <1>6. \A i \in 1..Len(SubSeq(s, a, b)) : SubSeq(s, a, b)[i] = s[a + i - 1]
    BY <1>2
  <1> QED BY <1>4, <1>5, <1>6

LEMMA InsertSequence ==
    ASSUME NEW s, IsSequence(s), NEW k \in 0..Len(s), NEW e
    PROVE  /\ IsSequence(InsertAt(s, k + 1, e)) /\ Len(InsertAt(s, k + 1, e)) = Len(s) + 1
           /\ \A i \in 1..(Len(s) + 1) :
                InsertAt(s, k + 1, e)[i] = IF i <= k THEN s[i] ELSE IF i = k + 1 THEN e
                  ELSE s[i - 1]
  <1>1. Len(s) \in Nat
    BY SequenceFacts
  <1> DEFINE x == SubSeq(s, 1, k)
             y == <<e>>
             z == SubSeq(s, k + 1, Len(s))
  <1>2. /\ IsSequence(x) /\ Len(x) = k /\ \A i \in 1..k : x[i] = s[i]
    <2>1. IsSequence(x) /\ Len(x) = (IF 1 <= k THEN k - 1 + 1 ELSE 0)
          /\ \A i \in 1..Len(x) : x[i] = s[1 + i - 1]
      BY <1>1, PartSequence
    <2>2. Len(x) = k
      BY <2>1, <1>1
    <2>3. ASSUME NEW i \in 1..k PROVE x[i] = s[i]
      <3>1. i \in 1..Len(x) /\ 1 + i - 1 = i
        BY <2>2
      <3> QED BY <3>1, <2>1
    <2> QED BY <2>1, <2>2, <2>3
  <1>3. IsSequence(y) /\ Len(y) = 1 /\ y[1] = e
    <2>1. y \in Seq({e})
      OBVIOUS
    <2> QED BY <2>1, SequenceOf
  <1>4. /\ IsSequence(z) /\ Len(z) = Len(s) - k /\ \A i \in 1..(Len(s) - k) : z[i] = s[k + i]
    <2>1. IsSequence(z) /\ Len(z) = (IF k + 1 <= Len(s) THEN Len(s) - (k + 1) + 1 ELSE 0)
          /\ \A i \in 1..Len(z) : z[i] = s[(k + 1) + i - 1]
      BY <1>1, PartSequence
    <2>2. Len(z) = Len(s) - k
      BY <2>1, <1>1
    <2>3. ASSUME NEW i \in 1..(Len(s) - k) PROVE z[i] = s[k + i]
      <3>1. i \in 1..Len(z) /\ (k + 1) + i - 1 = k + i
        BY <2>2, <1>1
      <3> QED BY <3>1, <2>1
    <2> QED BY <2>1, <2>2, <2>3
  <1>5. InsertAt(s, k + 1, e) = x \o y \o z
    <2>1. (k + 1) - 1 = k
      BY <1>1
    <2> QED BY <2>1 DEF InsertAt
  <1> HIDE DEF x, y, z
  <1> DEFINE w == x \o y
  <1>6. IsSequence(w) /\ Len(w) = k + 1 /\ (\A i \in 1..k : w[i] = s[i]) /\ w[k + 1] = e
    <2>1. /\ IsSequence(w) /\ Len(w) = Len(x) + Len(y)
          /\ \A i \in 1..Len(x) : w[i] = x[i]
          /\ \A i \in 1..Len(y) : w[Len(x) + i] = y[i]
      <3>1. IsSequence(x) /\ IsSequence(y)
        BY <1>2, <1>3
      <3> QED BY <3>1, ConcatSequence
    <2>2. 1 \in 1..Len(y) /\ Len(x) + 1 = k + 1
      BY <1>3, <1>2
    <2>3. w[k + 1] = y[1]
      BY <2>1, <2>2
    <2> QED BY <2>1, <2>3, <1>2, <1>3
  <1> HIDE DEF w
  <1>7. /\ IsSequence(w \o z) /\ Len(w \o z) = Len(w) + Len(z)
        /\ \A i \in 1..(Len(w) + Len(z)) :
             (w \o z)[i] = IF i <= Len(w) THEN w[i] ELSE z[i - Len(w)]
    <2>1. IsSequence(w) /\ IsSequence(z)
      BY <1>4, <1>6
    <2> QED BY <2>1, ConcatSequence
  <1>8. ASSUME NEW i \in 1..(Len(s) + 1)
        PROVE  (w \o z)[i] = IF i <= k THEN s[i] ELSE IF i = k + 1 THEN e ELSE s[i - 1]
    <2>1. Len(w) + Len(z) = Len(s) + 1
      BY <1>4, <1>6, <1>1
    <2>2. (w \o z)[i] = IF i <= k + 1 THEN w[i] ELSE z[i - (k + 1)]
      BY <2>1, <1>6, <1>7
    <2>3. CASE i <= k
      BY <2>2, <2>3, <1>6, <1>1
    <2>4. CASE i = k + 1
      BY <2>2, <2>4, <1>6, <1>1
    <2>5. CASE i > k + 1
      <3>1. i - (k + 1) \in 1..(Len(s) - k) /\ k + (i - (k + 1)) = i - 1
        BY <2>5, <1>1
      <3>2. z[i - (k + 1)] = s[i - 1]
        BY <3>1, <1>4
      <3> QED BY <3>2, <2>2, <2>5
    <2>6. i <= k \/ i = k + 1 \/ i > k + 1
      BY <1>1
    <2> QED BY <2>3, <2>4, <2>5, <2>6
  <1>9. InsertAt(s, k + 1, e) = w \o z
    BY <1>5 DEF w
  <1>10. Len(w) + Len(z) = Len(s) + 1
    BY <1>1, <1>4, <1>6
  <1> QED BY <1>7, <1>8, <1>9, <1>10

-----------------------------------------------------------------------------
(* The order of addresses, and the table. *)

(* An address with all its parts. *)
Address == [z : Nat, net : Nat, node : Nat, p : Nat, domain : DOMAIN Rank]

(* Before compares the five parts in turn. *)
Lower(a, b) ==
  LET r == Rank[a.domain]
      s == Rank[b.domain] IN
  \/ r < s
  \/ r = s /\ a.z < b.z
  \/ r = s /\ a.z = b.z /\ a.net < b.net
  \/ r = s /\ a.z = b.z /\ a.net = b.net /\ a.node < b.node
  \/ r = s /\ a.z = b.z /\ a.net = b.net /\ a.node = b.node /\ a.p < b.p

LEMMA AddressFacts ==
    ASSUME NEW a \in Address
    PROVE  /\ a.z \in Nat /\ a.net \in Nat /\ a.node \in Nat /\ a.p \in Nat
           /\ a.domain \in DOMAIN Rank /\ Rank[a.domain] \in Int
           /\ a = [z |-> a.z, net |-> a.net, node |-> a.node, p |-> a.p, domain |-> a.domain]
  BY RankAssumption DEF Address

LEMMA BeforeIsLower ==
    ASSUME NEW a \in Address, NEW b \in Address
    PROVE  Before(a, b) <=> Lower(a, b)
  <1> DEFINE K(x) == <<Rank[x.domain], x.z, x.net, x.node, x.p>>
             ka == K(a)
             kb == K(b)
             Less(i) == ka[i] < kb[i] /\ \A j \in 1..(i - 1) : ka[j] = kb[j]
  <1>1. Before(a, b) <=> \E i \in 1..5 : Less(i)
    BY DEF Before
  <1>2. /\ ka[1] = Rank[a.domain] /\ kb[1] = Rank[b.domain]
        /\ ka[2] = a.z /\ kb[2] = b.z /\ ka[3] = a.net /\ kb[3] = b.net
        /\ ka[4] = a.node /\ kb[4] = b.node /\ ka[5] = a.p /\ kb[5] = b.p
    OBVIOUS
  <1>3. \A i \in 1..5 : i = 1 \/ i = 2 \/ i = 3 \/ i = 4 \/ i = 5
    OBVIOUS
  <1> HIDE DEF ka, kb
  <1>4. ASSUME NEW i \in 1..5, Less(i) PROVE Lower(a, b)
    <2>1. \A j \in 1..5 : j < i => ka[j] = kb[j]
      BY <1>4
    <2>2. CASE i = 1
      BY <2>1, <2>2, <1>4, <1>2, AddressFacts DEF Lower
    <2>3. CASE i = 2
      BY <2>1, <2>3, <1>4, <1>2, AddressFacts DEF Lower
    <2>4. CASE i = 3
      BY <2>1, <2>4, <1>4, <1>2, AddressFacts DEF Lower
    <2>5. CASE i = 4
      BY <2>1, <2>5, <1>4, <1>2, AddressFacts DEF Lower
    <2>6. CASE i = 5
      BY <2>1, <2>6, <1>4, <1>2, AddressFacts DEF Lower
    <2> QED BY <1>3, <2>2, <2>3, <2>4, <2>5, <2>6
  <1>5. ASSUME Lower(a, b) PROVE \E i \in 1..5 : Less(i)
    <2>1. Less(1) \/ Less(2) \/ Less(3) \/ Less(4) \/ Less(5)
      <3>1. CASE ka[1] < kb[1]
        BY <3>1
      <3>2. CASE ka[1] = kb[1] /\ ka[2] < kb[2]
        BY <3>2
      <3>3. CASE ka[1] = kb[1] /\ ka[2] = kb[2] /\ ka[3] < kb[3]
        BY <3>3
      <3>4. CASE ka[1] = kb[1] /\ ka[2] = kb[2] /\ ka[3] = kb[3] /\ ka[4] < kb[4]
        BY <3>4
      <3>5. CASE ka[1] = kb[1] /\ ka[2] = kb[2] /\ ka[3] = kb[3] /\ ka[4] = kb[4] /\ ka[5] < kb[5]
        BY <3>5
      <3> HIDE DEF Less
      <3> QED BY <3>1, <3>2, <3>3, <3>4, <3>5, <1>5, <1>2 DEF Lower
    <2> QED BY <2>1
  <1> QED BY <1>1, <1>4, <1>5

(* The order of addresses is total and strict. *)
LEMMA TotalOrder ==
    ASSUME NEW a \in Address, NEW b \in Address
    PROVE  /\ a = b \/ Before(a, b) \/ Before(b, a)
           /\ ~(Before(a, b) /\ Before(b, a))
           /\ ~Before(a, a)
           /\ \A c \in Address : Before(a, b) /\ Before(b, c) => Before(a, c)
  <1>1. a = b \/ Lower(a, b) \/ Lower(b, a)
    <2>1. /\ Rank[a.domain] = Rank[b.domain] /\ a.z = b.z /\ a.net = b.net
          /\ a.node = b.node /\ a.p = b.p
          => a = b
      BY RankAssumption, AddressFacts
    <2> QED BY <2>1, AddressFacts DEF Lower
  <1>2. ~(Lower(a, b) /\ Lower(b, a)) /\ ~Lower(a, a)
    BY AddressFacts DEF Lower
  <1>3. ASSUME NEW c \in Address, Lower(a, b), Lower(b, c) PROVE Lower(a, c)
    BY <1>3, AddressFacts DEF Lower
  <1> QED BY <1>1, <1>2, <1>3, BeforeIsLower

-----------------------------------------------------------------------------
(* The table. *)

NodeFields == {"fa", "hosts", "pwd", "pkt_pwd", "out_pwd", "obox_flvr", "obox", "ibox", "pipe",
               "AFF", "flags", "listed", "due"}
IsNode(n) == DOMAIN n = NodeFields /\ n.fa \in Address /\ IsSequence(n.hosts)

Nodes(s) == IsSequence(s) /\ \A i \in 1..Len(s) : IsNode(s[i])
Distinct(s) == \A i, j \in 1..Len(s) : s[i].fa = s[j].fa => i = j
Ascending(s) == \A i, j \in 1..Len(s) : i < j => Before(s[i].fa, s[j].fa)

Absent(s, fa) == \A i \in 1..Len(s) : s[i].fa # fa

IsTable(t) ==
  /\ DOMAIN t = {"nodes", "sorted"}
  /\ Nodes(t.nodes) /\ Distinct(t.nodes)
  /\ t.sorted => Ascending(t.nodes)

LEMMA AscendingDistinct ==
    ASSUME NEW s, Nodes(s), Ascending(s)
    PROVE  Distinct(s)
  <1> SUFFICES ASSUME NEW i \in 1..Len(s), NEW j \in 1..Len(s), s[i].fa = s[j].fa, i # j
               PROVE  FALSE
    BY DEF Distinct
  <1>1. Len(s) \in Nat /\ s[i].fa \in Address
    BY SequenceFacts DEF Nodes, IsNode
  <1>2. i < j \/ j < i
    BY <1>1
  <1>3. Before(s[i].fa, s[i].fa)
    BY <1>2 DEF Ascending
  <1> QED BY <1>1, <1>3, TotalOrder

(* p is s with n in its place. *)
Enlarged(p, s, n) ==
  /\ Nodes(p) /\ Ascending(p) /\ Len(p) = Len(s) + 1
  /\ \A i \in 1..(Len(s) + 1) : p[i] \in Range(s) \cup {n}
  /\ \A x \in Range(s) \cup {n} : \E i \in 1..(Len(s) + 1) : p[i] = x

(* A new address is put in its place. *)
LEMMA PlacedAscends ==
    ASSUME NEW s, Nodes(s), Ascending(s), NEW n, IsNode(n), Absent(s, n.fa)
    PROVE  Enlarged(Placed(s, n), s, n)
  <1>1. IsSequence(s) /\ Len(s) \in Nat /\ DOMAIN s = 1..Len(s)
    BY SequenceFacts DEF Nodes
  <1> DEFINE B == {i \in DOMAIN s : Before(s[i].fa, n.fa)}
             place == CHOOSE x \in 1..(Len(s) + 1) : B = 1..(x - 1)
             k == place - 1
             p == InsertAt(s, place, n)
  <1>2. Placed(s, n) = p
    BY DEF Placed
  <1>3. \A i \in 1..Len(s) : s[i].fa \in Address /\ IsNode(s[i])
    BY DEF Nodes, IsNode
  <1>4. n.fa \in Address
    BY DEF IsNode
  <1>5. place \in 1..(Len(s) + 1) /\ B = 1..k
    <2>1. CASE B = {}
      <3>1. 1 \in 1..(Len(s) + 1) /\ B = 1..(1 - 1)
        BY <2>1, <1>1
      <3> HIDE DEF B
      <3> QED BY <3>1
    <2>2. CASE B # {}
      <3>1. B \in SUBSET (0..Len(s))
        BY <1>1
      <3>2. PICK top \in B : \A j \in B : j <= top
        <4> HIDE DEF B
        <4> QED BY <3>1, <2>2, <1>1, GreatestNumber
      <3>3. top \in 1..Len(s) /\ Before(s[top].fa, n.fa)
        BY <3>2, <1>1
      <3>4. ASSUME NEW i \in 1..Len(s), i <= top PROVE i \in B
        <4>1. i = top \/ i < top
          BY <3>3, <3>4
        <4>2. i < top => Before(s[i].fa, s[top].fa)
          BY <3>3 DEF Ascending
        <4> QED BY <4>1, <4>2, <3>3, <1>1, <1>3, <1>4, TotalOrder
      <3>5. top + 1 \in 1..(Len(s) + 1) /\ top + 1 - 1 = top /\ B = 1..top
        BY <3>2, <3>3, <3>4, <1>1
      <3> HIDE DEF B
      <3>6. \E x \in 1..(Len(s) + 1) : B = 1..(x - 1)
        BY <3>5
      <3> QED BY <3>6
    <2> QED BY <2>1, <2>2
  <1>6. k \in 0..Len(s) /\ place = k + 1
    BY <1>1, <1>5
  <1> HIDE DEF k, place
  <1>7. /\ IsSequence(p) /\ Len(p) = Len(s) + 1
        /\ \A i \in 1..(Len(s) + 1) :
             p[i] = IF i <= k THEN s[i] ELSE IF i = k + 1 THEN n ELSE s[i - 1]
    BY <1>1, <1>6, InsertSequence
  <1> HIDE DEF p
  <1>8. \A i \in 1..Len(s) : i <= k => Before(s[i].fa, n.fa)
    BY <1>1, <1>5, <1>6
  <1>9. \A i \in 1..Len(s) : i > k => Before(n.fa, s[i].fa)
    <2>1. ASSUME NEW i \in 1..Len(s), i > k PROVE Before(n.fa, s[i].fa)
      <3>1. i \notin B
        BY <2>1, <1>5, <1>6
      <3>2. ~Before(s[i].fa, n.fa)
        BY <3>1, <1>1
      <3>3. s[i].fa # n.fa
        BY DEF Absent
      <3> QED BY <3>2, <3>3, <1>3, <1>4, TotalOrder
    <2> QED BY <2>1
  <1>10. Nodes(p)
    <2>1. ASSUME NEW i \in 1..Len(p) PROVE IsNode(p[i])
      <3>1. i \in 1..(Len(s) + 1)
        BY <1>7
      <3>2. CASE i <= k
        BY <3>1, <3>2, <1>1, <1>6, <1>7, <1>3
      <3>3. CASE i = k + 1
        BY <3>1, <3>3, <1>1, <1>6, <1>7
      <3>4. CASE i > k + 1
        <4>1. i - 1 \in 1..Len(s) /\ p[i] = s[i - 1]
          BY <3>1, <3>4, <1>1, <1>6, <1>7
        <4> QED BY <4>1, <1>3
      <3> QED BY <3>1, <3>2, <3>3, <3>4, <1>1, <1>6
    <2> QED BY <2>1, <1>7 DEF Nodes
  <1>11. ASSUME NEW i \in 1..Len(p), NEW j \in 1..Len(p), i < j PROVE Before(p[i].fa, p[j].fa)
    <2>1. i \in 1..(Len(s) + 1) /\ j \in 1..(Len(s) + 1) /\ k \in 0..Len(s) /\ Len(s) \in Nat
      BY <1>1, <1>6, <1>7
    <2>2. CASE j <= k
      <3>1. p[i] = s[i] /\ p[j] = s[j] /\ i \in 1..Len(s) /\ j \in 1..Len(s)
        BY <2>1, <2>2, <1>11, <1>7
      <3> QED BY <3>1, <1>11 DEF Ascending
    <2>3. CASE j = k + 1
      <3>1. p[i] = s[i] /\ p[j] = n /\ i \in 1..Len(s) /\ i <= k
        BY <2>1, <2>3, <1>11, <1>7
      <3> QED BY <3>1, <1>8
    <2>4. CASE j > k + 1 /\ i <= k
      <3>1. p[i] = s[i] /\ p[j] = s[j - 1] /\ i \in 1..Len(s) /\ j - 1 \in 1..Len(s) /\ i < j - 1
        BY <2>1, <2>4, <1>11, <1>7
      <3> QED BY <3>1 DEF Ascending
    <2>5. CASE j > k + 1 /\ i = k + 1
      <3>1. p[i] = n /\ p[j] = s[j - 1] /\ j - 1 \in 1..Len(s) /\ j - 1 > k
        BY <2>1, <2>5, <1>11, <1>7
      <3> QED BY <3>1, <1>9
    <2>6. CASE j > k + 1 /\ i > k + 1
      <3>1. p[i] = s[i - 1] /\ p[j] = s[j - 1] /\ i - 1 \in 1..Len(s) /\ j - 1 \in 1..Len(s)
            /\ i - 1 < j - 1
        BY <2>1, <2>6, <1>11, <1>7
      <3> QED BY <3>1 DEF Ascending
    <2> QED BY <2>1, <2>2, <2>3, <2>4, <2>5, <2>6
  <1>12. Ascending(p)
    BY <1>11 DEF Ascending
  <1>13. \A i \in 1..(Len(s) + 1) : p[i] \in Range(s) \cup {n}
    <2>1. ASSUME NEW i \in 1..(Len(s) + 1) PROVE p[i] \in Range(s) \cup {n}
      <3>1. CASE i <= k
        BY <3>1, <1>1, <1>6, <1>7, SequenceFacts
      <3>2. CASE i = k + 1
        BY <3>2, <1>1, <1>6, <1>7
      <3>3. CASE i > k + 1
        <4>1. i - 1 \in 1..Len(s) /\ p[i] = s[i - 1]
          BY <3>3, <1>1, <1>6, <1>7
        <4> QED BY <4>1, <1>1, SequenceFacts
      <3> QED BY <3>1, <3>2, <3>3, <1>1, <1>6
    <2> QED BY <2>1
  <1>14. ASSUME NEW x \in Range(s) \cup {n} PROVE \E i \in 1..(Len(s) + 1) : p[i] = x
    <2>1. CASE x = n
      <3>1. k + 1 \in 1..(Len(s) + 1) /\ p[k + 1] = n
        BY <1>1, <1>6, <1>7
      <3> QED BY <3>1, <2>1
    <2>2. CASE x \in Range(s)
      <3>1. PICK j \in 1..Len(s) : x = s[j]
        BY <2>2, <1>1 DEF Range
      <3>2. CASE j <= k
        <4>1. j \in 1..(Len(s) + 1) /\ p[j] = s[j]
          BY <3>2, <1>1, <1>6, <1>7
        <4> QED BY <4>1, <3>1
      <3>3. CASE j > k
        <4>1. j + 1 \in 1..(Len(s) + 1) /\ p[j + 1] = s[j]
          <5>1. j + 1 \in 1..(Len(s) + 1) /\ ~(j + 1 <= k) /\ j + 1 # k + 1 /\ j + 1 - 1 = j
            BY <3>3, <1>1, <1>6
          <5> QED BY <5>1, <1>7
        <4> QED BY <4>1, <3>1
      <3> QED BY <3>2, <3>3, <1>1, <1>6
    <2> QED BY <2>1, <2>2
  <1>15. Enlarged(p, s, n)
    BY <1>7, <1>10, <1>12, <1>13, <1>14 DEF Enlarged
  <1> QED BY <1>2, <1>15

-----------------------------------------------------------------------------
(* Sorting by insertion. *)

(* Sorting: the table of the recursion exists. *)
LEMMA SortTable ==
    ASSUME NEW s, IsSequence(s)
    PROVE  \E g : g = [i \in 0..Len(s) |-> IF i = 0 THEN <<>> ELSE Placed(g[i - 1], s[i])]
  <1> DEFINE Step(x, i) == Placed(x, s[i])
             Table(g, k) == g = [i \in 0..k |-> IF i = 0 THEN <<>> ELSE Step(g[i - 1], i)]
             Good == {k \in 0..Len(s) : \E g : Table(g, k)}
  <1>1. Len(s) \in Nat
    BY SequenceFacts
  <1> HIDE DEF Step
  <1>2. 0 \in Good
    <2> DEFINE g == [i \in 0..0 |-> <<>>]
    <2>1. Table(g, 0)
      OBVIOUS
    <2>2. 0 \in 0..Len(s)
      BY <1>1
    <2> HIDE DEF g, Table
    <2> QED BY <2>1, <2>2
  <1>3. ASSUME NEW k \in 0..Len(s), k < Len(s), k \in Good PROVE k + 1 \in Good
    <2>1. PICK g : Table(g, k)
      BY <1>3
    <2> DEFINE h == [i \in 0..(k + 1) |-> IF i = k + 1 THEN Step(g[k], k + 1) ELSE g[i]]
    <2>2. ASSUME NEW i \in 0..(k + 1)
          PROVE  h[i] = IF i = 0 THEN <<>> ELSE Step(h[i - 1], i)
      <3>1. CASE i = k + 1
        BY <3>1, <1>3
      <3>2. CASE i \in 0..k
        <4>1. h[i] = g[i] /\ g[i] = IF i = 0 THEN <<>> ELSE Step(g[i - 1], i)
          BY <3>2, <2>1, <1>3
        <4>2. i # 0 => h[i - 1] = g[i - 1]
          BY <3>2, <1>3
        <4> HIDE DEF h
        <4> QED BY <4>1, <4>2
      <3> QED BY <3>1, <3>2, <1>3
    <2>3. h = [i \in 0..(k + 1) |-> h[i]]
      OBVIOUS
    <2> HIDE DEF h
    <2>4. Table(h, k + 1)
      BY <2>2, <2>3
    <2>5. k + 1 \in 0..Len(s)
      BY <1>3, <1>1
    <2> HIDE DEF Table
    <2> QED BY <2>4, <2>5
  <1>4. Len(s) \in Good
    <2> HIDE DEF Good
    <2> QED BY <1>1, <1>2, <1>3, UpTo
  <1>5. \E g : Table(g, Len(s))
    BY <1>4
  <1> QED BY <1>5 DEF Step

LEMMA SortSteps ==
    ASSUME NEW t, IsSequence(t.nodes)
    PROVE  \E g : /\ sort_nodes(t) = [nodes |-> g[Len(t.nodes)], sorted |-> TRUE]
                  /\ g[0] = <<>>
                  /\ \A i \in 1..Len(t.nodes) : g[i] = Placed(g[i - 1], t.nodes[i])
  <1> DEFINE Body(f) == [i \in 0..Len(t.nodes) |->
                           IF i = 0 THEN <<>> ELSE Placed(f[i - 1], t.nodes[i])]
             after == CHOOSE f : f = Body(f)
  <1>1. \E f : f = Body(f)
    BY SortTable
  <1>2. after = Body(after)
    <2> HIDE DEF Body
    <2> QED BY <1>1
  <1>3. sort_nodes(t) = [nodes |-> after[Len(t.nodes)], sorted |-> TRUE]
    BY DEF sort_nodes
  <1> HIDE DEF after
  <1>4. Len(t.nodes) \in Nat
    BY SequenceFacts
  <1>5. after[0] = <<>> /\ \A i \in 1..Len(t.nodes) : after[i] = Placed(after[i - 1], t.nodes[i])
    <2>1. ASSUME NEW i \in 0..Len(t.nodes)
          PROVE after[i] = IF i = 0 THEN <<>> ELSE Placed(after[i - 1], t.nodes[i])
      <3>1. Body(after)[i] = IF i = 0 THEN <<>> ELSE Placed(after[i - 1], t.nodes[i])
        OBVIOUS
      <3> HIDE DEF Body
      <3> QED BY <3>1, <1>2
    <2> HIDE DEF Body
    <2> QED BY <2>1, <1>4
  <1> QED BY <1>3, <1>5

(* Sorting keeps the nodes of a table and puts them in order. *)
LEMMA SortSorts ==
    ASSUME NEW t, IsTable(t)
    PROVE  /\ IsTable(sort_nodes(t)) /\ sort_nodes(t).sorted
           /\ Range(sort_nodes(t).nodes) = Range(t.nodes)
  <1> DEFINE s == t.nodes
  <1>1. IsSequence(s) /\ Len(s) \in Nat /\ DOMAIN s = 1..Len(s)
    BY SequenceFacts DEF IsTable, Nodes
  <1>2. PICK g : /\ sort_nodes(t) = [nodes |-> g[Len(t.nodes)], sorted |-> TRUE]
                 /\ g[0] = <<>>
                 /\ \A i \in 1..Len(t.nodes) : g[i] = Placed(g[i - 1], t.nodes[i])
    BY <1>1, SortSteps
  <1> DEFINE First(k) == {s[i] : i \in 1..k}
             Fine(k) == Nodes(g[k]) /\ Ascending(g[k]) /\ Range(g[k]) = First(k)
             Good == {k \in 0..Len(s) : Fine(k)}
  <1>3. 0 \in Good
    <2>1. Nodes(<<>>) /\ Ascending(<<>>)
      BY EmptySequence DEF Nodes, Ascending
    <2>2. Range(<<>>) = {} /\ First(0) = {}
      BY DEF Range
    <2> QED BY <2>1, <2>2, <1>1, <1>2
  <1>4. ASSUME NEW k \in 0..Len(s), k < Len(s), k \in Good PROVE k + 1 \in Good
    <2> DEFINE a == g[k]
               n == s[k + 1]
               b == g[k + 1]
    <2>1. Nodes(a) /\ Ascending(a) /\ Range(a) = First(k)
      BY <1>4
    <2>2. k + 1 \in 1..Len(s) /\ k + 1 - 1 = k /\ k + 1 \in 0..Len(s)
      BY <1>1, <1>4
    <2>3. b = Placed(a, n)
      BY <2>2, <1>2
    <2>4. IsNode(n)
      BY <2>2 DEF IsTable, Nodes
    <2>5. IsSequence(a) /\ Len(a) \in Nat /\ DOMAIN a = 1..Len(a)
      BY <2>1, SequenceFacts DEF Nodes
    <2>6. ASSUME NEW i \in 1..Len(a) PROVE a[i].fa # n.fa
      <3>1. a[i] \in First(k)
        BY <2>1, <2>5, SequenceFacts
      <3>2. PICK j \in 1..k : a[i] = s[j]
        BY <3>1
      <3>3. j \in 1..Len(s) /\ j # k + 1
        BY <1>1, <1>4
      <3> QED BY <3>2, <3>3, <2>2 DEF IsTable, Distinct
    <2>11. Absent(a, n.fa)
      BY <2>6 DEF Absent
    <2> HIDE DEF a, b, n, First
    <2>7. /\ Nodes(b) /\ Ascending(b) /\ Len(b) = Len(a) + 1
          /\ \A i \in 1..(Len(a) + 1) : b[i] \in Range(a) \cup {n}
          /\ \A x \in Range(a) \cup {n} : \E i \in 1..(Len(a) + 1) : b[i] = x
      <3>1. Enlarged(b, a, n)
        BY <2>1, <2>3, <2>4, <2>11, PlacedAscends
      <3> QED BY <3>1 DEF Enlarged
    <2>8. Range(b) = Range(a) \cup {n}
      <3>1. DOMAIN b = 1..(Len(a) + 1)
        BY <2>7, SequenceFacts DEF Nodes
      <3> QED BY <3>1, <2>7 DEF Range
    <2>9. First(k + 1) = First(k) \cup {n}
      <3>1. 1..(k + 1) = 1..k \cup {k + 1}
        BY <1>1, <1>4
      <3> QED BY <3>1 DEF First, n
    <2>10. Range(b) = First(k + 1)
      BY <2>1, <2>8, <2>9
    <2> QED BY <2>2, <2>7, <2>10 DEF b
  <1>5. Len(s) \in Good
    <2> HIDE DEF Good
    <2> QED BY <1>1, <1>3, <1>4, UpTo
  <1>6. Fine(Len(s))
    BY <1>5
  <1>7. First(Len(s)) = Range(s)
    BY <1>1 DEF Range
  <1> DEFINE r == sort_nodes(t)
  <1>8. r.nodes = g[Len(s)] /\ r.sorted = TRUE /\ DOMAIN r = {"nodes", "sorted"}
    BY <1>2
  <1>9. Nodes(r.nodes) /\ Ascending(r.nodes) /\ Range(r.nodes) = Range(s)
    BY <1>6, <1>7, <1>8
  <1> HIDE DEF r
  <1>10. Distinct(r.nodes)
    BY <1>9, AscendingDistinct
  <1> QED BY <1>8, <1>9, <1>10 DEF IsTable, r

-----------------------------------------------------------------------------
(* The binary search. *)

(* One step of the binary search, f being the search of smaller intervals. *)
Probe(f, s, fa, part) ==
  LET l == part[1]
      u == part[2]
      m == (l + u) \div 2
  IN  IF l >= u THEN 0
      ELSE IF s[m + 1].fa = fa THEN m + 1
      ELSE IF Before(fa, s[m + 1].fa) THEN f[<<l, m>>] ELSE f[<<m + 1, u>>]

Parts(N) == (0..N) \X (0..N)

LEMMA PartsFacts ==
    ASSUME NEW N
    PROVE  /\ \A l, u \in 0..N : <<l, u>> \in Parts(N)
           /\ \A part \in Parts(N) : \E l, u \in 0..N : part = <<l, u>>
  BY DEF Parts

LEMMA Middle ==
    ASSUME NEW N \in Nat, NEW l \in 0..N, NEW u \in 0..N, l < u
    PROVE  /\ (l + u) \div 2 \in 0..N /\ (l + u) \div 2 + 1 \in 0..N
           /\ l <= (l + u) \div 2 /\ (l + u) \div 2 < u
  OBVIOUS

LEMMA SearchTable ==
    ASSUME NEW s, IsSequence(s), NEW fa
    PROVE  \E f : f = [part \in Parts(Len(s)) |-> Probe(f, s, fa, part)]
  <1> DEFINE N == Len(s)
             Table(f, k) == /\ f = [part \in Parts(N) |-> f[part]]
                            /\ \A l, u \in 0..N : u - l <= k => f[<<l, u>>] = Probe(f, s, fa, <<l, u>>)
             Good == {k \in 0..N : \E f : Table(f, k)}
  <1>1. N \in Nat
    BY SequenceFacts
  <1> HIDE DEF N
  <1>2. 0 \in Good
    <2> DEFINE f == [part \in Parts(N) |-> 0]
    <2>1. f = [part \in Parts(N) |-> f[part]]
      OBVIOUS
    <2>5. \A l, u \in 0..N : f[<<l, u>>] = 0
      BY PartsFacts
    <2>2. ASSUME NEW l \in 0..N, NEW u \in 0..N, u - l <= 0
          PROVE f[<<l, u>>] = Probe(f, s, fa, <<l, u>>)
      <3>1. l >= u
        BY <2>2, <1>1
      <3>2. f[<<l, u>>] = 0
        BY <2>5
      <3>3. Probe(f, s, fa, <<l, u>>) = 0
        BY <3>1 DEF Probe
      <3> QED BY <3>2, <3>3
    <2>3. Table(f, 0)
      <3> HIDE DEF f
      <3> QED BY <2>1, <2>2
    <2>4. 0 \in 0..N
      BY <1>1
    <2> HIDE DEF f, Table
    <2> QED BY <2>3, <2>4
  <1>3. ASSUME NEW k \in 0..N, k < N, k \in Good PROVE k + 1 \in Good
    <2>1. PICK f : Table(f, k)
      BY <1>3
    <2> DEFINE h == [part \in Parts(N) |-> Probe(f, s, fa, part)]
    <2>2. h = [part \in Parts(N) |-> h[part]]
      OBVIOUS
    <2>3. \A l, u \in 0..N : h[<<l, u>>] = Probe(f, s, fa, <<l, u>>)
      BY PartsFacts
    <2>4. \A l, u \in 0..N : u - l <= k => h[<<l, u>>] = f[<<l, u>>]
      BY <2>1, <2>3
    <2> HIDE DEF h
    <2>5. ASSUME NEW l \in 0..N, NEW u \in 0..N, u - l <= k + 1
          PROVE  h[<<l, u>>] = Probe(h, s, fa, <<l, u>>)
      <3>1. CASE l >= u
        BY <3>1, <2>3 DEF Probe
      <3>2. CASE ~(l >= u)
        <4> DEFINE m == (l + u) \div 2
        <4>1. l < u
          BY <3>2, <1>1
        <4>2. m \in 0..N /\ m + 1 \in 0..N /\ l <= m /\ m < u
          BY <4>1, <1>1, Middle
        <4>3. Probe(f, s, fa, <<l, u>>) = IF s[m + 1].fa = fa THEN m + 1
                ELSE IF Before(fa, s[m + 1].fa) THEN f[<<l, m>>] ELSE f[<<m + 1, u>>]
          BY <3>2 DEF Probe
        <4>4. Probe(h, s, fa, <<l, u>>) = IF s[m + 1].fa = fa THEN m + 1
                ELSE IF Before(fa, s[m + 1].fa) THEN h[<<l, m>>] ELSE h[<<m + 1, u>>]
          BY <3>2 DEF Probe
        <4> HIDE DEF m
        <4>5. m - l <= k /\ u - (m + 1) <= k
          BY <4>2, <2>5, <1>1
        <4>6. h[<<l, m>>] = f[<<l, m>>] /\ h[<<m + 1, u>>] = f[<<m + 1, u>>]
          BY <4>2, <4>5, <2>4
        <4> QED BY <4>3, <4>4, <4>6, <2>3
      <3> QED BY <3>1, <3>2
    <2>6. Table(h, k + 1)
      BY <2>2, <2>5
    <2>7. k + 1 \in 0..N
      BY <1>3, <1>1
    <2> HIDE DEF Table
    <2> QED BY <2>6, <2>7
  <1>4. N \in Good
    <2> HIDE DEF Good
    <2> QED BY <1>1, <1>2, <1>3, UpTo
  <1>5. PICK f : Table(f, N)
    BY <1>4
  <1>6. \A l, u \in 0..N : f[<<l, u>>] = Probe(f, s, fa, <<l, u>>)
    <2>1. \A l, u \in 0..N : u - l <= N
      BY <1>1
    <2> QED BY <2>1, <1>5
  <1>7. f = [part \in Parts(N) |-> Probe(f, s, fa, part)]
    <2>1. f = [part \in Parts(N) |-> f[part]]
      BY <1>5
    <2>2. [part \in Parts(N) |-> f[part]] = [part \in Parts(N) |-> Probe(f, s, fa, part)]
      <3>1. ASSUME NEW part \in Parts(N) PROVE f[part] = Probe(f, s, fa, part)
        <4>1. PICK l \in 0..N, u \in 0..N : part = <<l, u>>
          BY PartsFacts
        <4> QED BY <4>1, <1>6
      <3> QED BY <3>1
    <2> QED BY <2>1, <2>2
  <1> QED BY <1>7 DEF N

LEMMA SearchSteps ==
    ASSUME NEW t, IsSequence(t.nodes), NEW fa
    PROVE  \E f : /\ search_for_node(t, fa) = f[<<0, Len(t.nodes)>>]
                  /\ \A l, u \in 0..Len(t.nodes) : f[<<l, u>>] = Probe(f, t.nodes, fa, <<l, u>>)
  <1> DEFINE N == Len(t.nodes)
             Body(f) == [part \in Parts(N) |-> Probe(f, t.nodes, fa, part)]
             f == CHOOSE g : g = Body(g)
  <1>1. search_for_node(t, fa) = f[<<0, N>>]
    BY DEF search_for_node, Probe, Parts
  <1>2. \E g : g = Body(g)
    BY SearchTable
  <1>3. f = Body(f)
    <2> HIDE DEF Body
    <2> QED BY <1>2
  <1> HIDE DEF f
  <1>4. \A l, u \in 0..N : Body(f)[<<l, u>>] = Probe(f, t.nodes, fa, <<l, u>>)
    BY PartsFacts
  <1>5. \A l, u \in 0..N : f[<<l, u>>] = Probe(f, t.nodes, fa, <<l, u>>)
    <2> HIDE DEF Body
    <2> QED BY <1>3, <1>4
  <1> QED BY <1>1, <1>5

(* The search of an ordered table finds the node there is, and nothing else. *)
LEMMA SearchFinds ==
    ASSUME NEW t, IsTable(t), Ascending(t.nodes), NEW fa \in Address
    PROVE  /\ search_for_node(t, fa) \in 0..Len(t.nodes)
           /\ search_for_node(t, fa) # 0 => t.nodes[search_for_node(t, fa)].fa = fa
           /\ \A i \in 1..Len(t.nodes) : t.nodes[i].fa = fa => search_for_node(t, fa) = i
  <1> DEFINE s == t.nodes
             N == Len(s)
  <1>1. IsSequence(s) /\ N \in Nat
    BY SequenceFacts DEF IsTable, Nodes
  <1>2. \A i \in 1..N : s[i].fa \in Address
    BY DEF IsTable, Nodes, IsNode
  <1>3. PICK f : /\ search_for_node(t, fa) = f[<<0, N>>]
                 /\ \A l, u \in 0..N : f[<<l, u>>] = Probe(f, s, fa, <<l, u>>)
    BY <1>1, SearchSteps
  <1> DEFINE Right(l, u) == /\ f[<<l, u>>] \in 0..N
                            /\ f[<<l, u>>] # 0 => s[f[<<l, u>>]].fa = fa
                            /\ \A i \in 1..N : l < i /\ i <= u /\ s[i].fa = fa => f[<<l, u>>] = i
             Good == {k \in 0..N : \A l, u \in 0..N : u - l <= k => Right(l, u)}
  <1>4. ASSUME NEW l \in 0..N, NEW u \in 0..N, l >= u PROVE Right(l, u)
    <2>1. f[<<l, u>>] = 0
      BY <1>3, <1>4 DEF Probe
    <2>2. \A i \in 1..N : ~(l < i /\ i <= u)
      BY <1>1, <1>4
    <2> QED BY <2>1, <2>2, <1>1
  <1>5. 0 \in Good
    <2>1. \A l, u \in 0..N : u - l <= 0 => l >= u
      BY <1>1
    <2> HIDE DEF Right, N
    <2> QED BY <2>1, <1>4, <1>1
  <1>6. ASSUME NEW k \in 0..N, k < N, k \in Good PROVE k + 1 \in Good
    <2>1. ASSUME NEW l \in 0..N, NEW u \in 0..N, u - l <= k + 1 PROVE Right(l, u)
      <3>1. CASE l >= u
        BY <3>1, <1>4
      <3>2. CASE ~(l >= u)
        <4> DEFINE m == (l + u) \div 2
        <4>1. l < u
          BY <3>2, <1>1
        <4>2. m \in 0..N /\ m + 1 \in 0..N /\ l <= m /\ m < u
          BY <4>1, <1>1, Middle
        <4>3. f[<<l, u>>] = IF s[m + 1].fa = fa THEN m + 1
                ELSE IF Before(fa, s[m + 1].fa) THEN f[<<l, m>>] ELSE f[<<m + 1, u>>]
          BY <3>2, <1>3 DEF Probe
        <4> HIDE DEF m
        <4>4. m - l <= k /\ u - (m + 1) <= k /\ m + 1 \in 1..N
          BY <4>2, <2>1, <1>1
        <4>5. Right(l, m) /\ Right(m + 1, u)
          <5> HIDE DEF Right
          <5> QED BY <4>2, <4>4, <1>6
        <4>6. CASE s[m + 1].fa = fa
          <5>1. f[<<l, u>>] = m + 1
            BY <4>3, <4>6
          <5>2. \A i \in 1..N : s[i].fa = fa => i = m + 1
            BY <4>4, <4>6 DEF IsTable, Distinct
          <5> QED BY <5>1, <5>2, <4>2, <4>6
        <4>7. CASE s[m + 1].fa # fa /\ Before(fa, s[m + 1].fa)
          <5>1. f[<<l, u>>] = f[<<l, m>>]
            BY <4>3, <4>7
          <5>2. ASSUME NEW i \in 1..N, s[i].fa = fa PROVE i <= m
            <6>1. CASE i = m + 1
              BY <6>1, <5>2, <4>7
            <6>2. CASE i > m + 1
              <7>1. Before(s[m + 1].fa, fa)
                BY <6>2, <5>2, <4>4 DEF Ascending
              <7> QED BY <7>1, <4>4, <4>7, <1>2, TotalOrder
            <6> QED BY <6>1, <6>2, <4>2, <1>1
          <5>3. \A i \in 1..N : l < i /\ i <= u /\ s[i].fa = fa => f[<<l, u>>] = i
            BY <5>1, <5>2, <4>5
          <5> QED BY <5>1, <5>3, <4>5
        <4>8. CASE s[m + 1].fa # fa /\ ~Before(fa, s[m + 1].fa)
          <5>1. f[<<l, u>>] = f[<<m + 1, u>>]
            BY <4>3, <4>8
          <5>2. ASSUME NEW i \in 1..N, s[i].fa = fa PROVE i > m + 1
            <6>1. CASE i = m + 1
              BY <6>1, <5>2, <4>8
            <6>2. CASE i < m + 1
              <7>1. Before(fa, s[m + 1].fa)
                BY <6>2, <5>2, <4>4 DEF Ascending
              <7> QED BY <7>1, <4>8
            <6> QED BY <6>1, <6>2, <4>2, <1>1
          <5>3. \A i \in 1..N : l < i /\ i <= u /\ s[i].fa = fa => f[<<l, u>>] = i
            BY <5>1, <5>2, <4>5
          <5> QED BY <5>1, <5>3, <4>5
        <4> QED BY <4>6, <4>7, <4>8
      <3> QED BY <3>1, <3>2
    <2>2. k + 1 \in 0..N
      BY <1>1, <1>6
    <2> HIDE DEF Right, N
    <2> QED BY <2>1, <2>2
  <1>7. N \in Good
    <2> HIDE DEF Good
    <2> QED BY <1>1, <1>5, <1>6, UpTo
  <1>8. Right(0, N)
    <2>1. 0 \in 0..N /\ N \in 0..N /\ N - 0 <= N
      BY <1>1
    <2> HIDE DEF Right
    <2> QED BY <2>1, <1>7
  <1>9. \A i \in 1..N : 0 < i /\ i <= N
    BY <1>1
  <1> QED BY <1>3, <1>8, <1>9

-----------------------------------------------------------------------------
(* One entry of the table is changed or made. *)

LEMMA EditNode ==
    ASSUME NEW n, IsNode(n), NEW e, IsSequence(e.hosts)
    PROVE  /\ IsNode(Edit(n, e)) /\ Edit(n, e).fa = n.fa
           /\ Edit(n, e).hosts = IF e.hosts = <<>> THEN n.hosts ELSE e.hosts
  <1> DEFINE p == Passwords(n, e)
  <1>1. DOMAIN p = NodeFields /\ p.fa = n.fa /\ p.hosts = n.hosts
    <2>1. DOMAIN n = NodeFields
      BY DEF IsNode
    <2> QED BY <2>1 DEF Passwords, NodeFields
  <1> HIDE DEF p
  <1> DEFINE m == Edit(n, e)
  <1>2. DOMAIN m = NodeFields
    BY <1>1 DEF Edit, p
  <1>3. m.fa = p.fa
    BY <1>1 DEF Edit, p, NodeFields
  <1>4. m.hosts = IF e.hosts = <<>> THEN p.hosts ELSE e.hosts
    BY <1>1 DEF Edit, p, NodeFields
  <1> HIDE DEF m
  <1>5. IsNode(m)
    BY <1>1, <1>2, <1>3, <1>4 DEF IsNode
  <1> QED BY <1>1, <1>3, <1>4, <1>5 DEF m

LEMMA FreshNode ==
    ASSUME NEW fa \in Address, NEW e
    PROVE  IsNode(NewNode(fa, e)) /\ NewNode(fa, e).fa = fa /\ NewNode(fa, e).hosts = <<>>
  <1> DEFINE n == NewNode(fa, e)
  <1>1. n.fa = fa /\ n.hosts = <<>>
    BY DEF NewNode
  <1>2. DOMAIN n = NodeFields
    BY DEF NewNode, NodeFields
  <1> QED BY <1>1, <1>2, EmptySequence DEF IsNode

(* One entry of a table is changed, but for its address. *)
LEMMA ChangeNode ==
    ASSUME NEW t, IsTable(t), NEW i \in 1..Len(t.nodes), NEW m, IsNode(m), m.fa = t.nodes[i].fa
    PROVE  LET r == [t EXCEPT !.nodes[i] = m] IN
           /\ IsTable(r) /\ Len(r.nodes) = Len(t.nodes) /\ r.sorted = t.sorted
           /\ \A j \in 1..Len(t.nodes) : r.nodes[j] = IF j = i THEN m ELSE t.nodes[j]
  <1> DEFINE s == t.nodes
             q == [s EXCEPT ![i] = m]
             r == [t EXCEPT !.nodes = q]
  <1>1. IsSequence(s) /\ Len(s) \in Nat /\ DOMAIN s = 1..Len(s)
    BY SequenceFacts DEF IsTable, Nodes
  <1>2. IsSequence(q) /\ Len(q) = Len(s)
    <2> DEFINE S == Range(s) \cup {m}
    <2>1. s \in Seq(S) /\ m \in S
      BY <1>1 DEF IsSequence
    <2> HIDE DEF S
    <2>2. q \in Seq(S) /\ Len(q) = Len(s)
      BY <2>1
    <2> QED BY <2>2, SequenceOf
  <1>3. \A j \in 1..Len(s) : q[j] = IF j = i THEN m ELSE s[j]
    BY <1>1
  <1> HIDE DEF q
  <1>4. r.nodes = q /\ r.sorted = t.sorted /\ DOMAIN r = {"nodes", "sorted"}
    BY DEF IsTable
  <1> HIDE DEF r
  <1>5. \A j \in 1..Len(s) : q[j].fa = s[j].fa /\ IsNode(q[j])
    BY <1>3 DEF IsTable, Nodes
  <1>6. Nodes(q)
    BY <1>2, <1>5 DEF Nodes
  <1>7. Distinct(q)
    BY <1>2, <1>5 DEF IsTable, Distinct
  <1>8. Ascending(s) => Ascending(q)
    BY <1>2, <1>5 DEF Ascending
  <1>9. IsTable(r)
    BY <1>4, <1>6, <1>7, <1>8 DEF IsTable
  <1> QED BY <1>2, <1>3, <1>4, <1>9 DEF r, q

LEMMA TableFacts ==
    ASSUME NEW t, IsTable(t)
    PROVE  /\ IsSequence(t.nodes) /\ Len(t.nodes) \in Nat /\ DOMAIN t.nodes = 1..Len(t.nodes)
           /\ \A i \in 1..Len(t.nodes) : IsNode(t.nodes[i]) /\ t.nodes[i] \in Range(t.nodes)
           /\ \A n \in Range(t.nodes) : \E i \in 1..Len(t.nodes) : n = t.nodes[i]
           /\ \A n \in Range(t.nodes) : IsNode(n) /\ n.fa \in Address /\ IsSequence(n.hosts)
           /\ \A m, n \in Range(t.nodes) : m.fa = n.fa => m = n
  <1>1. IsSequence(t.nodes) /\ Len(t.nodes) \in Nat /\ DOMAIN t.nodes = 1..Len(t.nodes)
    BY SequenceFacts DEF IsTable, Nodes
  <1>2. /\ \A i \in 1..Len(t.nodes) : IsNode(t.nodes[i]) /\ t.nodes[i] \in Range(t.nodes)
        /\ \A n \in Range(t.nodes) : \E i \in 1..Len(t.nodes) : n = t.nodes[i]
    BY <1>1 DEF IsTable, Nodes, Range
  <1>3. \A n \in Range(t.nodes) : IsNode(n) /\ n.fa \in Address /\ IsSequence(n.hosts)
    BY <1>2 DEF IsNode
  <1>4. \A m, n \in Range(t.nodes) : m.fa = n.fa => m = n
    BY <1>2 DEF IsTable, Distinct
  <1> QED BY <1>1, <1>2, <1>3, <1>4

(* Nothing but the entry of fa is new in t. *)
OnlyOf(t, old, fa) == \A n \in Range(t.nodes) : n.fa = fa \/ n \in Range(old.nodes)

LEMMA ChangeOnly ==
    ASSUME NEW t, IsTable(t), NEW i \in 1..Len(t.nodes), NEW m, IsNode(m), m.fa = t.nodes[i].fa
    PROVE  LET r == [t EXCEPT !.nodes[i] = m] IN
           /\ IsTable(r) /\ (t.sorted => r.sorted)
           /\ \A n \in Range(r.nodes) : n = m \/ (n \in Range(t.nodes) /\ n.fa # m.fa)
           /\ m \in Range(r.nodes)
  <1> DEFINE r == [t EXCEPT !.nodes[i] = m]
  <1>1. /\ IsTable(r) /\ Len(r.nodes) = Len(t.nodes) /\ r.sorted = t.sorted
        /\ \A j \in 1..Len(t.nodes) : r.nodes[j] = IF j = i THEN m ELSE t.nodes[j]
    BY ChangeNode
  <1> HIDE DEF r
  <1>2. ASSUME NEW n \in Range(r.nodes) PROVE n = m \/ (n \in Range(t.nodes) /\ n.fa # m.fa)
    <2>1. PICK j \in 1..Len(t.nodes) : n = r.nodes[j]
      BY <1>1, TableFacts
    <2>2. CASE j = i
      BY <2>1, <2>2, <1>1
    <2>3. CASE j # i
      <3>1. n = t.nodes[j] /\ n \in Range(t.nodes)
        BY <2>1, <2>3, <1>1, TableFacts
      <3> QED BY <3>1, <2>3 DEF IsTable, Distinct
    <2> QED BY <2>2, <2>3
  <1>3. r.nodes[i] = m
    BY <1>1
  <1>4. m \in Range(r.nodes)
    BY <1>1, <1>3, TableFacts
  <1> QED BY <1>1, <1>2, <1>4 DEF r

(* A line about a node: its entry is changed, or one is made. *)
LEMMA AddNode ==
    ASSUME NEW t, IsTable(t), NEW fa \in Address, NEW e, IsSequence(e.hosts)
    PROVE  LET r == add_node(t, fa, e) IN
           /\ IsTable(r) /\ OnlyOf(r, t, fa)
           /\ \E n \in Range(r.nodes) : n.fa = fa
  <1> DEFINE s == t.nodes
             at == {i \in DOMAIN s : s[i].fa = fa}
             r == add_node(t, fa, e)
  <1>1. IsSequence(s) /\ Len(s) \in Nat /\ DOMAIN s = 1..Len(s)
    BY TableFacts
  <1>2. CASE at = {}
    <2> DEFINE n == Edit(NewNode(fa, e), e)
               q == Append(s, n)
    <2>1. r = [nodes |-> q, sorted |-> FALSE]
      BY <1>2 DEF add_node
    <2>2. IsNode(n) /\ n.fa = fa
      BY FreshNode, EditNode
    <2> HIDE DEF n
    <2>3. /\ IsSequence(q) /\ Len(q) = Len(s) + 1 /\ q[Len(s) + 1] = n
          /\ \A i \in 1..Len(s) : q[i] = s[i]
      BY <1>1, AppendSequence
    <2>4. \A i \in 1..Len(s) : s[i].fa # fa /\ IsNode(s[i])
      BY <1>1, <1>2 DEF IsTable, Nodes
    <2> HIDE DEF q
    <2>5. \A i \in 1..Len(q) : i \in 1..Len(s) \/ i = Len(s) + 1
      BY <2>3, <1>1
    <2>6. Nodes(q)
      BY <2>2, <2>3, <2>4, <2>5 DEF Nodes
    <2>7. Distinct(q)
      <3>1. \A i, j \in 1..Len(s) : s[i].fa = s[j].fa => i = j
        BY DEF IsTable, Distinct
      <3> QED BY <2>2, <2>3, <2>4, <2>5, <3>1 DEF Distinct
    <2>8. r.nodes = q /\ r.sorted = FALSE /\ DOMAIN r = {"nodes", "sorted"}
      BY <2>1
    <2> HIDE DEF r
    <2>9. IsTable(r)
      BY <2>6, <2>7, <2>8 DEF IsTable
    <2>10. OnlyOf(r, t, fa)
      <3>1. ASSUME NEW m \in Range(r.nodes) PROVE m.fa = fa \/ m \in Range(s)
        <4>1. PICK i \in 1..Len(q) : m = q[i]
          BY <2>8, <2>9, TableFacts
        <4>2. CASE i \in 1..Len(s)
          BY <4>1, <4>2, <2>3, TableFacts
        <4>3. CASE i = Len(s) + 1
          BY <4>1, <4>3, <2>2, <2>3
        <4> QED BY <4>2, <4>3, <2>5
      <3> QED BY <3>1 DEF OnlyOf
    <2>11. \E m \in Range(r.nodes) : m.fa = fa
      <3>1. Len(s) + 1 \in 1..Len(q)
        BY <2>3, <1>1
      <3>2. q[Len(s) + 1] \in Range(r.nodes)
        BY <3>1, <2>8, <2>9, TableFacts
      <3> QED BY <3>2, <2>2, <2>3
    <2> QED BY <2>9, <2>10, <2>11 DEF r
  <1>3. CASE at # {}
    <2> DEFINE i == CHOOSE i \in at : TRUE
               m == Edit(s[i], e)
    <2>1. r = [t EXCEPT !.nodes[i] = m]
      BY <1>3 DEF add_node
    <2>2. i \in at
      BY <1>3
    <2> HIDE DEF i
    <2>3. i \in 1..Len(t.nodes) /\ s[i].fa = fa
      BY <2>2, <1>1
    <2>4. IsNode(s[i])
      BY <2>3, TableFacts
    <2>5. IsNode(m) /\ m.fa = t.nodes[i].fa
      BY <2>4, EditNode
    <2> HIDE DEF m
    <2>6. /\ IsTable([t EXCEPT !.nodes[i] = m])
          /\ \A n \in Range([t EXCEPT !.nodes[i] = m].nodes) :
               n = m \/ (n \in Range(t.nodes) /\ n.fa # m.fa)
          /\ m \in Range([t EXCEPT !.nodes[i] = m].nodes)
      BY <2>3, <2>5, ChangeOnly
    <2> QED BY <2>1, <2>3, <2>5, <2>6 DEF OnlyOf
  <1> QED BY <1>2, <1>3

-----------------------------------------------------------------------------
(* Lookups: the entry is made of defnode when there is none. *)

LEMMA DefNodeAddress == DefNode \in Address
  BY RankAssumption DEF DefNode, Address

(* What the settings of defnode are given to is the entry of fa. *)
LEMMA DefNodeInfo ==
    ASSUME NEW t, IsTable(t), t.sorted, NEW fa \in Address, NEW i \in 0..Len(t.nodes),
           i # 0 => t.nodes[i].fa = fa
    PROVE  LET r == get_defnode_info(t, fa, i) IN
           IsTable(r) /\ r.sorted /\ OnlyOf(r, t, fa)
  <1> DEFINE d == search_for_node(t, DefNode)
             n == t.nodes[d]
             r == get_defnode_info(t, fa, i)
  <1>1. d \in 0..Len(t.nodes) /\ Len(t.nodes) \in Nat
    BY DefNodeAddress, SearchFinds, TableFacts DEF IsTable
  <1>2. CASE d = 0
    <2>1. r = t
      BY <1>2 DEF get_defnode_info
    <2> QED BY <2>1 DEF OnlyOf
  <1>3. CASE d # 0 /\ i > 0
    <2> DEFINE m == [t.nodes[i] EXCEPT !.hosts = n.hosts, !.flags = n.flags,
                                       !.pipe = n.pipe, !.AFF = n.AFF]
    <2>1. r = [t EXCEPT !.nodes[i] = m]
      BY <1>3 DEF get_defnode_info
    <2>2. i \in 1..Len(t.nodes) /\ d \in 1..Len(t.nodes)
      BY <1>1, <1>3
    <2>3. IsNode(t.nodes[i]) /\ IsNode(n)
      BY <2>2, TableFacts
    <2>4. IsNode(m) /\ m.fa = t.nodes[i].fa
      <3> HIDE DEF n
      <3>1. DOMAIN m = NodeFields
        BY <2>3 DEF IsNode
      <3>2. m.fa = t.nodes[i].fa /\ m.hosts = n.hosts
        BY <2>3 DEF IsNode, NodeFields
      <3> HIDE DEF m
      <3> QED BY <3>1, <3>2, <2>3 DEF IsNode
    <2> HIDE DEF m
    <2>5. /\ IsTable([t EXCEPT !.nodes[i] = m])
          /\ (t.sorted => [t EXCEPT !.nodes[i] = m].sorted)
          /\ \A k \in Range([t EXCEPT !.nodes[i] = m].nodes) :
               k = m \/ (k \in Range(t.nodes) /\ k.fa # m.fa)
      BY <2>2, <2>4, ChangeOnly
    <2>6. m.fa = fa
      BY <2>2, <2>4
    <2> QED BY <2>1, <2>5, <2>6 DEF OnlyOf
  <1>4. CASE d # 0 /\ ~(i > 0)
    <2> DEFINE e == [NoEdit EXCEPT !.hosts = n.hosts, !.obox_flvr = n.obox_flvr,
              !.obox = n.obox, !.ibox = n.ibox, !.flags = n.flags, !.pipe = n.pipe, !.AFF = n.AFF]
               a == add_node(t, fa, e)
    <2>1. r = sort_nodes(a)
      BY <1>4 DEF get_defnode_info
    <2>2. IsSequence(e.hosts)
      <3>1. e.hosts = n.hosts
        BY DEF NoEdit
      <3>2. d \in 1..Len(t.nodes)
        BY <1>1, <1>4
      <3> QED BY <3>1, <3>2, TableFacts DEF IsNode
    <2> HIDE DEF e
    <2>3. IsTable(a) /\ OnlyOf(a, t, fa)
      BY <2>2, AddNode
    <2> HIDE DEF a
    <2>4. IsTable(sort_nodes(a)) /\ sort_nodes(a).sorted
          /\ Range(sort_nodes(a).nodes) = Range(a.nodes)
      BY <2>3, SortSorts
    <2> QED BY <2>1, <2>3, <2>4 DEF OnlyOf
  <1> QED BY <1>2, <1>3, <1>4

(* A lookup leaves the table in order, and its entry with hosts. *)
LookedUp(r, t, fa) ==
  /\ IsTable(r) /\ r.sorted
  /\ \A n \in Range(r.nodes) : \/ n.fa = fa /\ n.hosts # <<>>
                               \/ n.fa # fa /\ n \in Range(t.nodes)

LEMMA Lookup ==
    ASSUME NEW t, IsTable(t), NEW fa \in Address, NEW h
    PROVE  LookedUp(get_node_info(t, fa, h), t, fa)
  <1> DEFINE t1 == IF t.sorted THEN t ELSE sort_nodes(t)
             i == search_for_node(t1, fa)
             ask == i = 0 \/ (t1.nodes[i].listed # "node" /\ t1.nodes[i].due)
             t2 == IF ask /\ h THEN get_defnode_info(t1, fa, i) ELSE t1
             j == search_for_node(t2, fa)
             r == get_node_info(t, fa, h)
  <1>1. IsTable(t1) /\ t1.sorted /\ Range(t1.nodes) = Range(t.nodes)
    BY SortSorts
  <1> DEFINE nohost == <<[name |-> "-", port |-> ""]>>
  <1>2. r = IF j > 0 /\ t2.nodes[j].hosts = <<>> THEN [t2 EXCEPT !.nodes[j].hosts = nohost] ELSE t2
    BY DEF get_node_info
  <1> HIDE DEF t1
  <1>3. i \in 0..Len(t1.nodes) /\ (i # 0 => t1.nodes[i].fa = fa)
    BY <1>1, SearchFinds DEF IsTable
  <1> HIDE DEF i
  <1>4. IsTable(t2) /\ t2.sorted /\ OnlyOf(t2, t1, fa)
    <2>1. CASE ask /\ h
      <3>1. t2 = get_defnode_info(t1, fa, i)
        BY <2>1
      <3>2. IsTable(get_defnode_info(t1, fa, i)) /\ get_defnode_info(t1, fa, i).sorted
            /\ OnlyOf(get_defnode_info(t1, fa, i), t1, fa)
        BY <1>1, <1>3, DefNodeInfo
      <3> HIDE DEF t2
      <3> QED BY <3>1, <3>2
    <2>2. CASE ~(ask /\ h)
      <3>1. t2 = t1
        BY <2>2
      <3> HIDE DEF t2
      <3> QED BY <3>1, <1>1 DEF OnlyOf
    <2> QED BY <2>1, <2>2
  <1> HIDE DEF t2
  <1>5. /\ j \in 0..Len(t2.nodes)
        /\ j # 0 => t2.nodes[j].fa = fa
        /\ \A k \in 1..Len(t2.nodes) : t2.nodes[k].fa = fa => j = k
    BY <1>4, SearchFinds DEF IsTable
  <1> HIDE DEF j, r
  <1>6. Len(t2.nodes) \in Nat
    BY <1>4, TableFacts
  <1>7. CASE j > 0 /\ t2.nodes[j].hosts = <<>>
    <2> DEFINE m == [t2.nodes[j] EXCEPT !.hosts = nohost]
    <2>1. r = [t2 EXCEPT !.nodes[j] = m]
      BY <1>2, <1>7
    <2>2. j \in 1..Len(t2.nodes)
      BY <1>5, <1>6, <1>7
    <2>3. IsNode(t2.nodes[j])
      BY <2>2, <1>4, TableFacts
    <2>4. IsSequence(nohost) /\ nohost # <<>>
      <3>1. nohost \in Seq({[name |-> "-", port |-> ""]}) /\ nohost # <<>>
        OBVIOUS
      <3> HIDE DEF nohost
      <3> QED BY <3>1, SequenceOf
    <2> HIDE DEF nohost
    <2>5. IsNode(m) /\ m.fa = t2.nodes[j].fa /\ m.hosts # <<>>
      <3>1. DOMAIN m = NodeFields /\ m.fa = t2.nodes[j].fa /\ m.hosts = nohost
        BY <2>3 DEF IsNode, NodeFields
      <3> HIDE DEF m
      <3> QED BY <3>1, <2>3, <2>4 DEF IsNode
    <2> HIDE DEF m
    <2>6. /\ IsTable([t2 EXCEPT !.nodes[j] = m])
          /\ (t2.sorted => [t2 EXCEPT !.nodes[j] = m].sorted)
          /\ \A k \in Range([t2 EXCEPT !.nodes[j] = m].nodes) :
               k = m \/ (k \in Range(t2.nodes) /\ k.fa # m.fa)
      BY <1>4, <2>2, <2>5, ChangeOnly
    <2>7. m.fa = fa
      BY <2>2, <2>5, <1>5
    <2>8. IsTable(r) /\ r.sorted
      BY <2>1, <2>6, <1>4
    <2>9. ASSUME NEW k \in Range(r.nodes)
          PROVE  (k.fa = fa /\ k.hosts # <<>>) \/ (k.fa # fa /\ k \in Range(t.nodes))
      <3>1. k = m \/ (k \in Range(t2.nodes) /\ k.fa # m.fa)
        BY <2>1, <2>6
      <3>2. CASE k = m
        BY <3>2, <2>5, <2>7
      <3>3. CASE k \in Range(t2.nodes) /\ k.fa # m.fa
        BY <3>3, <2>7, <1>1, <1>4 DEF OnlyOf
      <3> QED BY <3>1, <3>2, <3>3
    <2>10. LookedUp(r, t, fa)
      BY <2>8, <2>9 DEF LookedUp
    <2> QED BY <2>10 DEF r
  <1>8. CASE ~(j > 0 /\ t2.nodes[j].hosts = <<>>)
    <2>1. r = t2
      BY <1>2, <1>8
    <2>2. ASSUME NEW k \in Range(t2.nodes)
          PROVE  (k.fa = fa /\ k.hosts # <<>>) \/ (k.fa # fa /\ k \in Range(t.nodes))
      <3>1. CASE k.fa = fa
        <4>1. PICK l \in 1..Len(t2.nodes) : k = t2.nodes[l]
          BY <1>4, TableFacts
        <4>2. j = l /\ j > 0
          BY <4>1, <3>1, <1>5, <1>6
        <4> QED BY <4>1, <4>2, <3>1, <1>8
      <3>2. CASE k.fa # fa
        BY <3>2, <1>1, <1>4 DEF OnlyOf
      <3> QED BY <3>1, <3>2
    <2>3. LookedUp(r, t, fa)
      BY <2>1, <2>2, <1>4 DEF LookedUp
    <2> QED BY <2>3 DEF r
  <1> QED BY <1>7, <1>8

(* foreach_node: one lookup after the other. *)
LEMMA ForeachSteps ==
    ASSUME NEW t, IsSequence(t.nodes), t.sorted, NEW havedefnode
    PROVE  \E g : /\ foreach_node(t, havedefnode) = g[Len(t.nodes)]
                  /\ g[0] = t
                  /\ \A i \in 1..Len(t.nodes) : g[i] =
                       IF t.nodes[i].hosts = <<>> THEN get_node_info(g[i - 1], t.nodes[i].fa, havedefnode)
                         ELSE g[i - 1]
  <1> DEFINE Body(f) == [i \in 0..Len(t.nodes) |-> IF i = 0 THEN t
                        ELSE IF t.nodes[i].hosts = <<>> THEN get_node_info(f[i - 1], t.nodes[i].fa, havedefnode) ELSE f[i - 1]]
             after == CHOOSE f : f = Body(f)
  <1>1. \E f : f = Body(f)
    <2> DEFINE Step(x, i) == IF t.nodes[i].hosts = <<>> THEN get_node_info(x, t.nodes[i].fa, havedefnode)
                             ELSE x
               Table(g, k) == g = [i \in 0..k |-> IF i = 0 THEN t ELSE Step(g[i - 1], i)]
               Good == {k \in 0..Len(t.nodes) : \E g : Table(g, k)}
    <2>1. Len(t.nodes) \in Nat
      BY SequenceFacts
    <2> HIDE DEF Step
    <2>2. 0 \in Good
      <3> DEFINE g == [i \in 0..0 |-> t]
      <3>1. Table(g, 0)
        OBVIOUS
      <3>2. 0 \in 0..Len(t.nodes)
        BY <2>1
      <3> HIDE DEF g, Table
      <3> QED BY <3>1, <3>2
    <2>3. ASSUME NEW k \in 0..Len(t.nodes), k < Len(t.nodes), k \in Good PROVE k + 1 \in Good
      <3>1. PICK g : Table(g, k)
        BY <2>3
      <3> DEFINE h == [i \in 0..(k + 1) |-> IF i = k + 1 THEN Step(g[k], k + 1) ELSE g[i]]
      <3>2. ASSUME NEW i \in 0..(k + 1)
            PROVE  h[i] = IF i = 0 THEN t ELSE Step(h[i - 1], i)
        <4>1. CASE i = k + 1
          BY <4>1, <2>3
        <4>2. CASE i \in 0..k
          <5>1. h[i] = g[i] /\ g[i] = IF i = 0 THEN t ELSE Step(g[i - 1], i)
            BY <4>2, <3>1, <2>3
          <5>2. i # 0 => h[i - 1] = g[i - 1]
            BY <4>2, <2>3
          <5> HIDE DEF h
          <5> QED BY <5>1, <5>2
        <4> QED BY <4>1, <4>2, <2>3
      <3>3. h = [i \in 0..(k + 1) |-> h[i]]
        OBVIOUS
      <3> HIDE DEF h
      <3>4. Table(h, k + 1)
        BY <3>2, <3>3
      <3>5. k + 1 \in 0..Len(t.nodes)
        BY <2>3, <2>1
      <3> HIDE DEF Table
      <3> QED BY <3>4, <3>5
    <2>4. Len(t.nodes) \in Good
      <3> HIDE DEF Good
      <3> QED BY <2>1, <2>2, <2>3, UpTo
    <2>5. \E g : Table(g, Len(t.nodes))
      BY <2>4
    <2> QED BY <2>5 DEF Step
  <1>2. after = Body(after)
    <2> HIDE DEF Body
    <2> QED BY <1>1
  <1>3. foreach_node(t, havedefnode) = after[Len(t.nodes)]
    BY DEF foreach_node
  <1> HIDE DEF after
  <1>4. Len(t.nodes) \in Nat
    BY SequenceFacts
  <1>5. ASSUME NEW i \in 0..Len(t.nodes)
        PROVE  after[i] = IF i = 0 THEN t ELSE IF t.nodes[i].hosts = <<>>
                 THEN get_node_info(after[i - 1], t.nodes[i].fa, havedefnode) ELSE after[i - 1]
    <2>1. Body(after)[i] = IF i = 0 THEN t ELSE IF t.nodes[i].hosts = <<>>
          THEN get_node_info(after[i - 1], t.nodes[i].fa, havedefnode) ELSE after[i - 1]
      OBVIOUS
    <2> HIDE DEF Body
    <2> QED BY <2>1, <1>2
  <1>6. after[0] = t /\ \A i \in 1..Len(t.nodes) : after[i] =
        IF t.nodes[i].hosts = <<>> THEN get_node_info(after[i - 1], t.nodes[i].fa, havedefnode) ELSE after[i - 1]
    <2> HIDE DEF Body
    <2> QED BY <1>4, <1>5
  <1> QED BY <1>3, <1>6

LEMMA ForeachUnsorted ==
    ASSUME NEW t, IsTable(t), ~t.sorted, NEW h
    PROVE  foreach_node(t, h) = foreach_node(sort_nodes(t), h)
  <1> DEFINE s == sort_nodes(t)
  <1>1. s.sorted
    BY SortSorts
  <1>2. foreach_node(t, h) = foreach_node(s, h)
    <2> HIDE DEF s
    <2> DEFINE F(u) == LET after[n \in 0..Len(u.nodes)] ==
                             IF n = 0 THEN u
                             ELSE IF u.nodes[n].hosts = <<>>
                             THEN get_node_info(after[n - 1], u.nodes[n].fa, h)
                             ELSE after[n - 1]
                       IN  after[Len(u.nodes)]
    <2>1. foreach_node(t, h) = F(s)
      BY DEF foreach_node, s
    <2>2. foreach_node(s, h) = F(s)
      BY <1>1 DEF foreach_node
    <2> HIDE DEF F
    <2> QED BY <2>1, <2>2
  <1> QED BY <1>2

(* After foreach_node the table is in order and every entry has hosts. *)
Complete(t) == IsTable(t) /\ t.sorted /\ \A n \in Range(t.nodes) : n.hosts # <<>>

LEMMA ForeachSorted ==
    ASSUME NEW t, IsTable(t), t.sorted, NEW h
    PROVE  Complete(foreach_node(t, h))
  <1> DEFINE s == t.nodes
  <1>1. IsSequence(s) /\ Len(s) \in Nat
    BY TableFacts
  <1>2. PICK g : /\ foreach_node(t, h) = g[Len(t.nodes)]
                 /\ g[0] = t
                 /\ \A i \in 1..Len(t.nodes) :
                      g[i] = IF t.nodes[i].hosts = <<>>
                             THEN get_node_info(g[i - 1], t.nodes[i].fa, h) ELSE g[i - 1]
    BY <1>1, ForeachSteps
  <1> DEFINE Left(n, k) == \E i \in 1..Len(s) : i > k /\ s[i].fa = n.fa /\ s[i].hosts = <<>>
             Fine(k) == /\ IsTable(g[k]) /\ g[k].sorted
                        /\ \A n \in Range(g[k].nodes) : n.hosts # <<>> \/ Left(n, k)
             Good == {k \in 0..Len(s) : Fine(k)}
  <1>3. 0 \in Good
    <2>1. ASSUME NEW n \in Range(s) PROVE n.hosts # <<>> \/ Left(n, 0)
      <3>1. PICK i \in 1..Len(s) : n = s[i]
        BY TableFacts
      <3> QED BY <3>1, <1>1
    <2>2. 0 \in 0..Len(s)
      BY <1>1
    <2>3. Fine(0)
      <3> HIDE DEF Left
      <3> QED BY <2>1, <1>2
    <2> HIDE DEF Fine
    <2> QED BY <2>2, <2>3
  <1>4. ASSUME NEW k \in 0..Len(s), k < Len(s), k \in Good PROVE k + 1 \in Good
    <2>1. k + 1 \in 1..Len(s) /\ k + 1 - 1 = k /\ k + 1 \in 0..Len(s)
      BY <1>1, <1>4
    <2>2. IsTable(g[k]) /\ g[k].sorted /\ \A n \in Range(g[k].nodes) : n.hosts # <<>> \/ Left(n, k)
      BY <1>4
    <2> DEFINE fa == s[k + 1].fa
    <2>3. fa \in Address
      BY <2>1, TableFacts DEF IsNode
    <2>4. g[k + 1] = IF s[k + 1].hosts = <<>> THEN get_node_info(g[k], fa, h) ELSE g[k]
      BY <1>2, <2>1
    <2>5. ASSUME NEW n, Left(n, k), n.fa # fa \/ s[k + 1].hosts # <<>> PROVE Left(n, k + 1)
      <3>1. PICK i \in 1..Len(s) : i > k /\ s[i].fa = n.fa /\ s[i].hosts = <<>>
        BY <2>5
      <3>2. i # k + 1
        BY <3>1, <2>5
      <3>3. i > k + 1
        BY <3>1, <3>2, <1>1, <1>4
      <3> QED BY <3>1, <3>3
    <2> HIDE DEF Left
    <2>6. CASE s[k + 1].hosts = <<>>
      <3>1. LookedUp(g[k + 1], g[k], fa)
        <4> HIDE DEF fa
        <4> QED BY <2>2, <2>3, <2>4, <2>6, Lookup
      <3> HIDE DEF fa
      <3>2. ASSUME NEW n \in Range(g[k + 1].nodes) PROVE n.hosts # <<>> \/ Left(n, k + 1)
        BY <3>1, <2>2, <2>5 DEF LookedUp
      <3> QED BY <3>1, <3>2, <2>1 DEF LookedUp
    <2>7. CASE s[k + 1].hosts # <<>>
      BY <2>1, <2>2, <2>4, <2>5, <2>7
    <2> QED BY <2>6, <2>7
  <1>5. Len(s) \in Good
    <2> HIDE DEF Good
    <2> QED BY <1>1, <1>3, <1>4, UpTo
  <1>6. Fine(Len(s))
    BY <1>5
  <1>7. ASSUME NEW n PROVE ~Left(n, Len(s))
    BY <1>1
  <1> HIDE DEF Left
  <1> QED BY <1>2, <1>6, <1>7 DEF Complete

LEMMA Foreach ==
    ASSUME NEW t, IsTable(t), NEW h
    PROVE  Complete(foreach_node(t, h))
  <1>1. CASE t.sorted
    BY <1>1, ForeachSorted
  <1>2. CASE ~t.sorted
    <2> DEFINE s == sort_nodes(t)
    <2>1. IsTable(s) /\ s.sorted
      BY SortSorts
    <2>2. foreach_node(t, h) = foreach_node(s, h)
      BY <1>2, ForeachUnsorted
    <2> HIDE DEF s
    <2>3. Complete(foreach_node(s, h))
      BY <2>1, ForeachSorted
    <2> QED BY <2>2, <2>3
  <1> QED BY <1>1, <1>2

-----------------------------------------------------------------------------
(* Configurations under work: variables, lists, domains. *)

(* A domain has a name; an alias has the name it stands for. *)
IsDomain(d) == d.name \in DOMAIN Rank /\ d.alias4 \in {""} \cup DOMAIN Rank /\ d.z \in Nat
Domains(s) == IsSequence(s) /\ \A i \in 1..Len(s) : IsDomain(s[i])

ListenAddress == [addr : {""} \cup STRING, port : STRING]
WorkFields == {"vars", "lists", "domains", "akas", "table", "havedefnode"}

InLimits(vs) == \A v \in DOMAIN vs \cap DOMAIN Limits : Within(v, vs[v])
HasPort(vs) == "iport" \in DOMAIN vs /\ vs["iport"] # ""
Listens(lists) == "listen" \in DOMAIN lists => lists["listen"] \in Seq(ListenAddress)

(* What a configuration under work is, whatever lines were read. *)
IsWork(c) ==
  /\ DOMAIN c = WorkFields
  /\ InLimits(c.vars) /\ HasPort(c.vars) /\ Listens(c.lists)
  /\ Domains(c.domains) /\ c.akas \in Seq(Address) /\ IsTable(c.table)

LEMMA SetVars ==
    ASSUME NEW vs, InLimits(vs), HasPort(vs), NEW var, NEW val,
           var \in DOMAIN Limits => Within(var, val), var = "iport" => val # ""
    PROVE  InLimits(Put(vs, var, val)) /\ HasPort(Put(vs, var, val))
  <1> DEFINE w == Put(vs, var, val)
  <1>1. /\ DOMAIN w = DOMAIN vs \cup {var} /\ w[var] = val
        /\ \A y \in DOMAIN vs : y # var => w[y] = vs[y]
    BY DEF Put
  <1> HIDE DEF w
  <1>2. ASSUME NEW v \in DOMAIN w \cap DOMAIN Limits PROVE Within(v, w[v])
    <2>1. CASE v = var
      BY <2>1, <1>1, <1>2
    <2>2. CASE v # var
      <3>1. v \in DOMAIN vs \cap DOMAIN Limits /\ w[v] = vs[v]
        BY <2>2, <1>1, <1>2
      <3> QED BY <3>1 DEF InLimits
    <2> QED BY <2>1, <2>2
  <1>3. HasPort(w)
    BY <1>1 DEF HasPort
  <1> QED BY <1>2, <1>3 DEF InLimits, w

LEMMA SetWork ==
    ASSUME NEW c, IsWork(c), NEW var, NEW val,
           var \in DOMAIN Limits => Within(var, val), var = "iport" => val # ""
    PROVE  IsWork(Set(c, var, val))
  <1> DEFINE d == Set(c, var, val)
             w == Put(c.vars, var, val)
  <1>1. InLimits(w) /\ HasPort(w)
    BY SetVars DEF IsWork
  <1> HIDE DEF w
  <1>2. DOMAIN d = WorkFields /\ d.vars = w /\ d.lists = c.lists /\ d.domains = c.domains
        /\ d.akas = c.akas /\ d.table = c.table
    BY DEF Set, w, IsWork, WorkFields
  <1> HIDE DEF d
  <1>3. IsWork(d)
    BY <1>1, <1>2 DEF IsWork
  <1> QED BY <1>3 DEF d

LEMMA AddWork ==
    ASSUME NEW c, IsWork(c), NEW var, NEW s, var = "listen" => s \in Seq(ListenAddress)
    PROVE  IsWork(Add(c, var, s))
  <1> DEFINE d == Add(c, var, s)
             old == IF var \in DOMAIN c.lists THEN c.lists[var] ELSE <<>>
             w == Put(c.lists, var, old \o s)
  <1>1. Listens(w)
    <2>1. DOMAIN w = DOMAIN c.lists \cup {var} /\ w[var] = old \o s
          /\ \A y \in DOMAIN c.lists : y # var => w[y] = c.lists[y]
      BY DEF Put
    <2> HIDE DEF w
    <2>2. CASE var = "listen"
      <3>1. old \in Seq(ListenAddress)
        BY <2>2 DEF IsWork, Listens
      <3> HIDE DEF old
      <3>2. old \o s \in Seq(ListenAddress)
        BY <3>1, <2>2
      <3> QED BY <3>2, <2>1, <2>2 DEF Listens
    <2>3. CASE var # "listen"
      <3> HIDE DEF old
      <3> QED BY <2>1, <2>3 DEF Listens, IsWork
    <2> QED BY <2>2, <2>3
  <1>2. d = [c EXCEPT !.lists = w]
    BY DEF Add
  <1> HIDE DEF w
  <1>3. DOMAIN d = WorkFields /\ d.vars = c.vars /\ d.lists = w /\ d.domains = c.domains
        /\ d.akas = c.akas /\ d.table = c.table
    <2> HIDE DEF d
    <2> QED BY <1>2 DEF IsWork, WorkFields
  <1> HIDE DEF d
  <1>4. IsWork(d)
    BY <1>1, <1>3 DEF IsWork
  <1> QED BY <1>4 DEF d

LEMMA TableWork ==
    ASSUME NEW c, IsWork(c), NEW t, IsTable(t), NEW h
    PROVE  IsWork([c EXCEPT !.table = t]) /\ IsWork([c EXCEPT !.table = t, !.havedefnode = h])
  <1>1. ASSUME NEW d, DOMAIN d = WorkFields, d.vars = c.vars, d.lists = c.lists,
               d.domains = c.domains, d.akas = c.akas, d.table = t
        PROVE  IsWork(d)
    BY <1>1 DEF IsWork
  <1> DEFINE d == [c EXCEPT !.table = t]
             e == [c EXCEPT !.table = t, !.havedefnode = h]
  <1>2. DOMAIN d = WorkFields /\ d.vars = c.vars /\ d.lists = c.lists
        /\ d.domains = c.domains /\ d.akas = c.akas /\ d.table = t
    BY DEF IsWork, WorkFields
  <1>3. DOMAIN e = WorkFields /\ e.vars = c.vars /\ e.lists = c.lists
        /\ e.domains = c.domains /\ e.akas = c.akas /\ e.table = t
    BY DEF IsWork, WorkFields
  <1> HIDE DEF d, e
  <1> QED BY <1>1, <1>2, <1>3 DEF d, e

LEMMA ResultFacts ==
    ASSUME NEW c
    PROVE  /\ Ok(c).c = c /\ Ok(c).res = "ok"
           /\ ConfigError(c).c = c /\ ConfigError(c).res = "error"
           /\ Log0(c).c = c /\ Log0(c).res = "exit"
  BY DEF Ok, ConfigError, Log0

Results == {"ok", "error", "exit"}
IsResult(r) == IsWork(r.c) /\ r.res \in Results

LEMMA ResultOf == ASSUME NEW c, IsWork(c) PROVE IsResult(Ok(c)) /\ IsResult(ConfigError(c)) /\ IsResult(Log0(c))
  BY ResultFacts DEF IsResult, Results

-----------------------------------------------------------------------------
(* The simple keywords. *)

LEMMA LineVar ==
    ASSUME NEW l \in Lines
    PROVE  /\ l.k \in {"int", "time"} => l.var \in DOMAIN Limits
           /\ l.k \in {"string", "bool", "word", "port"} => l.var \notin DOMAIN Limits
           /\ l.k \in {"string", "bool", "word"} => l.var # "iport"
  BY LinesAssumption

-----------------------------------------------------------------------------
(* The keywords. *)

LEMMA SimpleLines ==
    ASSUME NEW l \in Lines, NEW c, IsWork(c)
    PROVE  /\ l.k = "string" => IsResult(read_string(l, c))
           /\ l.k = "int"    => IsResult(read_int(l, c))
           /\ l.k = "time"   => IsResult(read_time(l, c))
           /\ l.k = "bool"   => IsResult(read_bool(l, c))
           /\ l.k = "word"   => IsResult(read_word(l, c))
           /\ l.k = "port"   => IsResult(read_port(l, c))
           /\ l.k = "pkthdr" => IsResult(read_check_pkthdr(l, c))
  <1>1. CASE l.k = "string"
    <2>1. l.var \notin DOMAIN Limits /\ l.var # "iport"
      BY <1>1, LineVar
    <2>2. IsWork(Set(c, l.var, l.text))
      BY <2>1, SetWork
    <2> QED BY <2>2, <1>1, ResultOf DEF read_string
  <1>2. CASE l.k = "int"
    <2>1. l.var # "iport"
      BY <1>2, LineVar DEF Limits
    <2>2. ASSUME Within(l.var, l.val) PROVE IsWork(Set(c, l.var, l.val))
      BY <2>1, <2>2, SetWork
    <2> QED BY <2>2, <1>2, ResultOf DEF read_int
  <1>3. CASE l.k = "time"
    <2>1. l.var # "iport"
      BY <1>3, LineVar DEF Limits
    <2> DEFINE t == IF l.negative THEN - Seconds(l.parts) ELSE Seconds(l.parts)
    <2>2. read_time(l, c) = IF ~isArgCount(l, 1) \/ ~l.wellformed \/ ~Within(l.var, t)
                            THEN ConfigError(c) ELSE Ok(Set(c, l.var, t))
      BY DEF read_time
    <2> HIDE DEF t
    <2>3. ASSUME Within(l.var, t) PROVE IsWork(Set(c, l.var, t))
      BY <2>1, <2>3, SetWork
    <2> QED BY <2>2, <2>3, <1>3, ResultOf
  <1>4. CASE l.k = "bool"
    <2>1. l.var \notin DOMAIN Limits /\ l.var # "iport"
      BY <1>4, LineVar
    <2>2. IsWork(Set(c, l.var, 1))
      BY <2>1, SetWork
    <2> QED BY <2>2, <1>4, ResultOf DEF read_bool
  <1>5. CASE l.k = "word"
    <2>1. l.var \notin DOMAIN Limits /\ l.var # "iport"
      BY <1>5, LineVar
    <2>2. IsWork(Set(c, l.var, l.text))
      BY <2>1, SetWork
    <2> QED BY <2>2, <1>5, ResultOf DEF read_word
  <1>6. CASE l.k = "port"
    <2> DEFINE v == IF l.text = "" THEN "binkp" ELSE l.text
    <2>1. l.var \notin DOMAIN Limits
      BY <1>6, LineVar
    <2>2. v # ""
      OBVIOUS
    <2>3. read_port(l, c) = IF ~isArgCount(l, 1) \/ ~find_port(l.text) THEN ConfigError(c)
                            ELSE Ok(Set(c, l.var, v))
      BY DEF read_port
    <2> HIDE DEF v
    <2>4. IsWork(Set(c, l.var, v))
      BY <2>1, <2>2, SetWork
    <2> QED BY <2>3, <2>4, <1>6, ResultOf
  <1>7. CASE l.k = "pkthdr"
    <2> DEFINE v == IF l.n > 0 /\ l.first \in addrtypes THEN l.first ELSE "all"
    <2>1. "pkthdr_type" \notin DOMAIN Limits
      BY DEF Limits
    <2>2. \/ read_check_pkthdr(l, c) = ConfigError(c)
          \/ read_check_pkthdr(l, c) = Ok(Set(c, "pkthdr_type", v))
      BY DEF read_check_pkthdr
    <2> HIDE DEF v
    <2>3. IsWork(Set(c, "pkthdr_type", v))
      BY <2>1, SetWork
    <2> QED BY <2>2, <2>3, <1>7, ResultOf
  <1> QED BY <1>1, <1>2, <1>3, <1>4, <1>5, <1>6, <1>7

LEMMA ListLines ==
    ASSUME NEW l \in Lines, NEW c, IsWork(c)
    PROVE  /\ l.k = "listen"  => IsResult(read_listen(l, c))
           /\ l.k = "masks"   => IsResult(read_mask(l, c))
           /\ l.k = "zrules"  => IsResult(read_zrule(l, c))
           /\ l.k = "ftrans"  => IsResult(read_rfrule(l, c))
           /\ l.k = "perlvar" => IsResult(read_perlvar(l, c))
           /\ l.k = "flag"    => IsResult(read_flag_exec_info(l, c))
           /\ l.k = "skip"    => IsResult(read_skip(l, c))
           /\ l.k = "rate"    => IsResult(read_rate(l, c))
  <1>1. CASE l.k = "listen"
    <2> DEFINE s == [i \in DOMAIN l.list |-> [l.list[i] EXCEPT !.addr = IF @ = "*" THEN "" ELSE @]]
    <2>1. l.list \in Seq([addr : STRING, port : STRING])
      BY <1>1, LinesAssumption
    <2>2. \A i \in DOMAIN l.list : s[i] \in ListenAddress
      <3> DEFINE S == [addr : STRING, port : STRING]
      <3>2. l.list \in Seq(S)
        BY <2>1
      <3>3. \A i \in DOMAIN l.list : l.list[i] \in S
        <4> HIDE DEF S
        <4> QED BY <3>2
      <3>1. \A i \in DOMAIN l.list : l.list[i] \in [addr : STRING, port : STRING]
        BY <3>3
      <3> QED BY <3>1 DEF ListenAddress
    <2>3. Len(l.list) \in Nat /\ DOMAIN l.list = 1..Len(l.list)
      BY <2>1
    <2>4. s \in Seq(ListenAddress)
      <3>1. s \in [1..Len(l.list) -> ListenAddress]
        BY <2>2, <2>3
      <3> HIDE DEF s
      <3> QED BY <3>1, <2>3
    <2>5. \/ read_listen(l, c) = ConfigError(c)
          \/ read_listen(l, c) = Ok(Add(c, "listen", s))
      BY DEF read_listen
    <2> HIDE DEF s
    <2>6. IsWork(Add(c, "listen", s))
      BY <2>4, AddWork
    <2> QED BY <2>5, <2>6, <1>1, ResultOf
  <1>2. ASSUME NEW var, NEW s, var # "listen" PROVE IsResult(Ok(Add(c, var, s)))
    BY <1>2, AddWork, ResultOf
  <1>3. CASE l.k = "masks"
    <2>1. l.var # "listen"
      BY <1>3, LinesAssumption
    <2>2. \/ read_mask(l, c) = ConfigError(c)
          \/ read_mask(l, c) = Ok(Add(c, l.var, [i \in DOMAIN l.list |-> <<l.type, l.list[i]>>]))
      BY DEF read_mask
    <2> QED BY <2>1, <2>2, <1>2, <1>3, ResultOf
  <1>4. CASE l.k = "zrules"
    <2>1. \/ read_zrule(l, c) = ConfigError(c)
          \/ read_zrule(l, c) = Ok(Add(c, "zrules", [i \in DOMAIN l.list |-> <<l.type, l.list[i]>>]))
      BY DEF read_zrule
    <2> QED BY <2>1, <1>2, <1>4, ResultOf
  <1>5. CASE l.k = "ftrans"
    BY <1>2, <1>5, ResultOf DEF read_rfrule
  <1>6. CASE l.k = "perlvar"
    BY <1>2, <1>6, ResultOf DEF read_perlvar
  <1>7. CASE l.k = "flag"
    <2> DEFINE s == [i \in 1..(l.n - 1) |-> <<l.var, IF l.imm THEN "!" ELSE "">>]
    <2>1. \/ read_flag_exec_info(l, c) = ConfigError(c)
          \/ read_flag_exec_info(l, c) = Ok(Add(c, "evt_flags", s))
      BY DEF read_flag_exec_info
    <2> HIDE DEF s
    <2> QED BY <2>1, <1>2, <1>7, ResultOf
  <1>8. CASE l.k = "skip"
    <2>1. \/ read_skip(l, c) = ConfigError(c)
          \/ read_skip(l, c) = Ok(Add(c, "skipmask", Masked(l, "none").list))
      BY DEF read_skip
    <2> QED BY <2>1, <1>2, <1>8, ResultOf
  <1>9. CASE l.k = "rate"
    <2>1. \/ read_rate(l, c) = ConfigError(c)
          \/ read_rate(l, c) = Ok(Add(c, "rates", Masked(l, "size").list))
      BY DEF read_rate
    <2> QED BY <2>1, <1>2, <1>9, ResultOf
  <1> QED BY <1>1, <1>3, <1>4, <1>5, <1>6, <1>7, <1>8, <1>9

-----------------------------------------------------------------------------
(* Domains and addresses. *)

LEMMA DomainInfo ==
    ASSUME NEW s, Domains(s), NEW name
    PROVE  \/ get_domain_info(name, s) = NoDomain
           \/ IsDomain(get_domain_info(name, s)) /\ name \in DOMAIN Rank
  <1> DEFINE known == {i \in DOMAIN s : s[i].name = name}
  <1>1. CASE known = {}
    BY <1>1 DEF get_domain_info
  <1>2. CASE known # {}
    <2> DEFINE i == CHOOSE i \in known : TRUE
    <2>1. get_domain_info(name, s) = s[i]
      BY <1>2 DEF get_domain_info
    <2>2. i \in known
      BY <1>2
    <2> HIDE DEF i
    <2>3. DOMAIN s = 1..Len(s)
      BY SequenceFacts DEF Domains
    <2>4. IsDomain(s[i]) /\ s[i].name = name
      BY <2>2, <2>3 DEF Domains
    <2> QED BY <2>1, <2>4 DEF IsDomain
  <1> QED BY <1>1, <1>2

LEMMA NoDomainFacts == NoDomain.name = "" /\ NoDomain.z = 0 /\ NoDomain.alias4 = "" /\ "" \notin DOMAIN Rank
  BY RankAssumption DEF NoDomain

LEMMA DomainLine ==
    ASSUME NEW l \in Lines, l.k = "domain", NEW c, IsWork(c)
    PROVE  IsResult(read_domain_info(l, c))
  <1> DEFINE d == [name |-> l.name, alias4 |-> l.alias, z |-> l.zone, idomain |-> l.suffix,
                   path |-> l.path]
             w == [c EXCEPT !.domains = Append(@, d)]
             s == Append(c.domains, d)
  <1>1. read_domain_info(l, c) = ConfigError(c) \/ read_domain_info(l, c) = Ok(w)
    BY DEF read_domain_info
  <1>2. IsDomain(d)
    BY LinesAssumption DEF IsDomain
  <1> HIDE DEF d
  <1>3. Domains(s)
    <2>1. Domains(c.domains) /\ IsSequence(c.domains) /\ Len(c.domains) \in Nat
      BY SequenceFacts DEF IsWork, Domains
    <2>2. /\ IsSequence(s) /\ Len(s) = Len(c.domains) + 1
          /\ \A i \in 1..Len(c.domains) : s[i] = c.domains[i]
          /\ s[Len(c.domains) + 1] = d
      BY <2>1, AppendSequence
    <2> HIDE DEF s
    <2>3. \A i \in 1..Len(s) : i \in 1..Len(c.domains) \/ i = Len(c.domains) + 1
      BY <2>1, <2>2
    <2> QED BY <2>1, <2>2, <2>3, <1>2 DEF Domains
  <1>4. w = [c EXCEPT !.domains = s]
    OBVIOUS
  <1> HIDE DEF s
  <1>5. DOMAIN w = WorkFields /\ w.vars = c.vars /\ w.lists = c.lists /\ w.domains = s
        /\ w.akas = c.akas /\ w.table = c.table
    <2> HIDE DEF w
    <2> QED BY <1>4 DEF IsWork, WorkFields
  <1> HIDE DEF w
  <1>6. IsWork(w)
    BY <1>3, <1>5 DEF IsWork
  <1> QED BY <1>1, <1>6, ResultOf

(* An address as it is read: a point, and no alias for a domain. *)
LEMMA ParsedAddress ==
    ASSUME NEW w \in Written, NEW s, Domains(s)
    PROVE  LET a == parse_ftnaddress(w, s) IN
           /\ a.z = w.z /\ a.net = w.net /\ a.node = w.node /\ a.p \in Nat
           /\ a.domain \in {""} \cup DOMAIN Rank
           /\ a = [z |-> a.z, net |-> a.net, node |-> a.node, p |-> a.p, domain |-> a.domain]
  <1> DEFINE d == get_domain_info(w.domain, s)
             a == parse_ftnaddress(w, s)
             dom == IF w.domain = "" \/ d = NoDomain THEN w.domain
                    ELSE IF d.alias4 # "" THEN d.alias4 ELSE d.name
             point == IF w.p = -1 THEN 0 ELSE w.p
  <1>1. w.p \in Nat \cup {-1} /\ w.domain \in {""} \cup DOMAIN Rank
    BY DEF Written, Part
  <1>2. dom \in {""} \cup DOMAIN Rank
    BY <1>1, DomainInfo DEF IsDomain
  <1>3. point \in Nat
    BY <1>1
  <1>4. a = [w EXCEPT !.p = point, !.domain = dom]
    BY DEF parse_ftnaddress
  <1> HIDE DEF dom, point, a
  <1>5. a = [z |-> w.z, net |-> w.net, node |-> w.node, p |-> point, domain |-> dom]
    BY <1>4 DEF Written
  <1>6. /\ a.z = w.z /\ a.net = w.net /\ a.node = w.node /\ a.p \in Nat
        /\ a.domain \in {""} \cup DOMAIN Rank
    BY <1>2, <1>3, <1>5
  <1>7. a = [z |-> a.z, net |-> a.net, node |-> a.node, p |-> a.p, domain |-> a.domain]
    BY <1>5
  <1> QED BY <1>6, <1>7 DEF a

LEMMA MatchedDomain ==
    ASSUME NEW z, NEW akas \in Seq(Address), NEW s, Domains(s), akas # <<>> \/ s # <<>>
    PROVE  get_matched_domain(z, akas, s) \in DOMAIN Rank
  <1> DEFINE main == {i \in DOMAIN s : s[i].alias4 = "" /\ s[i].z = z}
             aka  == {i \in DOMAIN akas : akas[i].z = z}
             First(S) == CHOOSE i \in S : \A j \in S : i <= j
  <1>1. /\ Len(s) \in Nat /\ DOMAIN s = 1..Len(s)
        /\ \A i \in DOMAIN s : s[i].name \in DOMAIN Rank
    BY SequenceFacts DEF Domains, IsDomain
  <1>2. \A i \in DOMAIN akas : akas[i].domain \in DOMAIN Rank
    <2>1. \A i \in DOMAIN akas : akas[i] \in Address
      OBVIOUS
    <2> QED BY <2>1, AddressFacts
  <1>3. ASSUME NEW S \in SUBSET Nat, S # {} PROVE First(S) \in S
    <2>1. \E i \in S : \A j \in S : i <= j
      BY <1>3, LeastNumber
    <2> QED BY <2>1
  <1>4. CASE main # {}
    <2>1. First(main) \in main
      <3>2. \A i \in main : i \in DOMAIN s
        OBVIOUS
      <3> HIDE DEF main, First
      <3>3. \A i \in DOMAIN s : i \in Nat
        BY <1>1
      <3>1. main \in SUBSET Nat
        BY <3>2, <3>3
      <3> QED BY <3>1, <1>3, <1>4
    <2>2. get_matched_domain(z, akas, s) = s[First(main)].name
      BY <1>4 DEF get_matched_domain
    <2> HIDE DEF First
    <2> QED BY <2>1, <2>2, <1>1
  <1>5. CASE main = {} /\ aka # {}
    <2>1. First(aka) \in aka
      <3>1. aka \in SUBSET Nat
        OBVIOUS
      <3> HIDE DEF aka, First
      <3> QED BY <3>1, <1>3, <1>5
    <2>2. get_matched_domain(z, akas, s) = akas[First(aka)].domain
      BY <1>5 DEF get_matched_domain
    <2> HIDE DEF First
    <2> QED BY <2>1, <2>2, <1>2
  <1>6. CASE main = {} /\ aka = {} /\ akas # <<>>
    <2>1. get_matched_domain(z, akas, s) = akas[1].domain
      BY <1>6 DEF get_matched_domain
    <2>2. 1 \in DOMAIN akas
      BY <1>6, NonEmpty
    <2> QED BY <2>1, <2>2, <1>2
  <1>7. CASE main = {} /\ aka = {} /\ akas = <<>>
    <2>1. get_matched_domain(z, akas, s) = s[1].name
      BY <1>7 DEF get_matched_domain
    <2>2. 1 \in DOMAIN s
      BY <1>7, NonEmpty DEF Domains, IsSequence
    <2> QED BY <2>1, <2>2, <1>1
  <1> QED BY <1>4, <1>5, <1>6, <1>7

-----------------------------------------------------------------------------
(* Addresses of our own, and nodes. *)

LEMMA AddressParts ==
    ASSUME NEW z \in Nat, NEW net \in Nat, NEW node \in Nat, NEW p \in Nat, NEW dom \in DOMAIN Rank
    PROVE  [z |-> z, net |-> net, node |-> node, p |-> p, domain |-> dom] \in Address
  BY DEF Address

LEMMA OtherDomain ==
    ASSUME NEW z, NEW net, NEW node, NEW p, NEW old, NEW a, NEW dom,
           a = [z |-> z, net |-> net, node |-> node, p |-> p, domain |-> old]
    PROVE  [a EXCEPT !.domain = dom] = [z |-> z, net |-> net, node |-> node, p |-> p, domain |-> dom]
  OBVIOUS

LEMMA FullIsAddress ==
    ASSUME NEW w \in Written, NEW c, Domains(c.domains), c.akas \in Seq(Address), c.akas # <<>>
    PROVE  FullAddress(w, c) \in Address
  <1> DEFINE a == parse_ftnaddress(w, c.domains)
             d == get_domain_info(a.domain, c.domains)
             z == IF a.z # -1 THEN a.z
                  ELSE IF d = NoDomain THEN c.akas[1].z
                  ELSE IF d.alias4 # "" THEN get_domain_info(d.alias4, c.domains).z ELSE d.z
             net == IF a.net = -1 THEN c.akas[1].net ELSE a.net
             node == IF a.node = -1 THEN c.akas[1].node ELSE a.node
             dom == IF a.domain # "" THEN a.domain ELSE get_matched_domain(z, c.akas, c.domains)
  <1>1. FullAddress(w, c) = [z |-> z, net |-> net, node |-> node, p |-> a.p, domain |-> dom]
    BY DEF FullAddress, exp_ftnaddress
  <1>2. Domains(c.domains) /\ c.akas \in Seq(Address)
    OBVIOUS
  <1>3. c.akas[1] \in Address
    <2>1. 1 \in DOMAIN c.akas
      BY <1>2, NonEmpty
    <2> QED BY <2>1, <1>2
  <1>4. c.akas[1].z \in Nat /\ c.akas[1].net \in Nat /\ c.akas[1].node \in Nat
    BY <1>3, AddressFacts
  <1>5. /\ a.z \in Nat \cup {-1} /\ a.net \in Nat \cup {-1} /\ a.node \in Nat \cup {-1}
        /\ a.p \in Nat /\ a.domain \in {""} \cup DOMAIN Rank
    <2>1. a.z = w.z /\ a.net = w.net /\ a.node = w.node /\ a.p \in Nat
          /\ a.domain \in {""} \cup DOMAIN Rank
      BY <1>2, ParsedAddress
    <2> HIDE DEF a
    <2> QED BY <2>1 DEF Written, Part
  <1> HIDE DEF a
  <1>6. z \in Nat
    <2>1. ASSUME NEW name PROVE get_domain_info(name, c.domains).z \in Nat
      <3> DEFINE g == get_domain_info(name, c.domains)
      <3>1. g = NoDomain \/ IsDomain(g)
        BY <1>2, DomainInfo
      <3>2. CASE g = NoDomain
        <4>1. NoDomain.z = 0
          BY NoDomainFacts
        <4> HIDE DEF g, z, net, node, dom, d
        <4>2. g.z \in Nat
          BY <4>1, <3>2
        <4> QED BY <4>2 DEF g
      <3>3. CASE IsDomain(g)
        BY <3>3 DEF IsDomain
      <3> QED BY <3>1, <3>2, <3>3
    <2>2. d.z \in Nat
      BY <2>1
    <2>3. get_domain_info(d.alias4, c.domains).z \in Nat
      BY <2>1
    <2> HIDE DEF d
    <2> QED BY <2>2, <2>3, <1>4, <1>5
  <1>7. net \in Nat /\ node \in Nat
    BY <1>4, <1>5
  <1> HIDE DEF z
  <1>8. dom \in DOMAIN Rank
    BY <1>2, <1>5, MatchedDomain
  <1> HIDE DEF net, node, dom
  <1>9. [z |-> z, net |-> net, node |-> node, p |-> a.p, domain |-> dom] \in Address
    BY <1>5, <1>6, <1>7, <1>8, AddressParts
  <1> QED BY <1>1, <1>9

(* One AKA more. *)
LEMMA OneAka ==
    ASSUME NEW r, IsResult(r), NEW w \in Written
    PROVE  IsResult(read_aka(r, w))
  <1> DEFINE c == r.c
             a == parse_ftnaddress(w, c.domains)
             dom == IF a.domain # "" THEN a.domain ELSE get_matched_domain(a.z, c.akas, c.domains)
             b == [a EXCEPT !.domain = dom]
             d == [c EXCEPT !.akas = Append(@, b)]
  <1>1. \/ read_aka(r, w) = r
        \/ read_aka(r, w) = ConfigError(c)
        \/ is4D(a) /\ (a.domain # "" \/ c.domains # <<>>) /\ read_aka(r, w) = Ok(d)
    BY DEF read_aka
  <1>2. IsWork(c) /\ Domains(c.domains) /\ c.akas \in Seq(Address)
    BY DEF IsResult, IsWork
  <1>3. CASE is4D(a) /\ (a.domain # "" \/ c.domains # <<>>) /\ read_aka(r, w) = Ok(d)
    <2>1. /\ a.z \in Nat /\ a.net \in Nat /\ a.node \in Nat /\ a.p \in Nat
          /\ a.domain \in {""} \cup DOMAIN Rank
          /\ a = [z |-> a.z, net |-> a.net, node |-> a.node, p |-> a.p, domain |-> a.domain]
      <3>1. /\ a.z = w.z /\ a.net = w.net /\ a.node = w.node /\ a.p \in Nat
            /\ a.domain \in {""} \cup DOMAIN Rank
            /\ a = [z |-> a.z, net |-> a.net, node |-> a.node, p |-> a.p, domain |-> a.domain]
        BY <1>2, ParsedAddress
      <3> HIDE DEF a
      <3>2. a.z # -1 /\ a.net # -1 /\ a.node # -1
        BY <1>3 DEF is4D
      <3> QED BY <3>1, <3>2 DEF Written, Part
    <2> HIDE DEF a
    <2>2. dom \in DOMAIN Rank
      BY <1>2, <1>3, <2>1, MatchedDomain
    <2> HIDE DEF dom
    <2>3. b = [z |-> a.z, net |-> a.net, node |-> a.node, p |-> a.p, domain |-> dom]
      <3> DEFINE z == a.z
                 net == a.net
                 node == a.node
                 p == a.p
                 old == a.domain
      <3>1. a = [z |-> z, net |-> net, node |-> node, p |-> p, domain |-> old]
        BY <2>1
      <3>2. b = [z |-> z, net |-> net, node |-> node, p |-> p, domain |-> dom]
        <4> HIDE DEF z, net, node, p, old
        <4> QED BY <3>1, OtherDomain
      <3> QED BY <3>2
    <2>4. b \in Address
      <3>1. [z |-> a.z, net |-> a.net, node |-> a.node, p |-> a.p, domain |-> dom] \in Address
        BY <2>1, <2>2, AddressParts
      <3> QED BY <2>3, <3>1
    <2> HIDE DEF b
    <2> DEFINE s == Append(c.akas, b)
    <2>5. s \in Seq(Address)
      BY <2>4, <1>2
    <2>6. d = [c EXCEPT !.akas = s]
      OBVIOUS
    <2> HIDE DEF s
    <2>7. DOMAIN d = WorkFields /\ d.vars = c.vars /\ d.lists = c.lists /\ d.domains = c.domains
          /\ d.akas = s /\ d.table = c.table
      <3> HIDE DEF c, d
      <3> QED BY <2>6, <1>2 DEF IsWork, WorkFields
    <2> HIDE DEF d, c
    <2>8. IsWork(d)
      BY <2>5, <2>7, <1>2 DEF IsWork
    <2> QED BY <2>8, <1>3, ResultOf
  <1> QED BY <1>1, <1>2, <1>3, ResultOf

LEMMA AkaSteps ==
    ASSUME NEW l, l.list # <<>>, IsSequence(l.list), NEW c
    PROVE  \E g : /\ read_aka_list(l, c) = g[Len(l.list)]
                  /\ g[0] = Ok(c)
                  /\ \A i \in 1..Len(l.list) : g[i] = read_aka(g[i - 1], l.list[i])
  <1> DEFINE Body(f) == [i \in 0..Len(l.list) |-> IF i = 0 THEN Ok(c)
                        ELSE read_aka(f[i - 1], l.list[i])]
             after == CHOOSE f : f = Body(f)
  <1>1. \E f : f = Body(f)
    <2> DEFINE Step(x, i) == read_aka(x, l.list[i])
               Table(g, k) == g = [i \in 0..k |-> IF i = 0 THEN Ok(c) ELSE Step(g[i - 1], i)]
               Good == {k \in 0..Len(l.list) : \E g : Table(g, k)}
    <2>1. Len(l.list) \in Nat
      BY SequenceFacts
    <2> HIDE DEF Step
    <2>2. 0 \in Good
      <3> DEFINE g == [i \in 0..0 |-> Ok(c)]
      <3>1. Table(g, 0)
        OBVIOUS
      <3>2. 0 \in 0..Len(l.list)
        BY <2>1
      <3> HIDE DEF g, Table
      <3> QED BY <3>1, <3>2
    <2>3. ASSUME NEW k \in 0..Len(l.list), k < Len(l.list), k \in Good PROVE k + 1 \in Good
      <3>1. PICK g : Table(g, k)
        BY <2>3
      <3> DEFINE h == [i \in 0..(k + 1) |-> IF i = k + 1 THEN Step(g[k], k + 1) ELSE g[i]]
      <3>2. ASSUME NEW i \in 0..(k + 1)
            PROVE  h[i] = IF i = 0 THEN Ok(c) ELSE Step(h[i - 1], i)
        <4>1. CASE i = k + 1
          BY <4>1, <2>3
        <4>2. CASE i \in 0..k
          <5>1. h[i] = g[i] /\ g[i] = IF i = 0 THEN Ok(c) ELSE Step(g[i - 1], i)
            BY <4>2, <3>1, <2>3
          <5>2. i # 0 => h[i - 1] = g[i - 1]
            BY <4>2, <2>3
          <5> HIDE DEF h
          <5> QED BY <5>1, <5>2
        <4> QED BY <4>1, <4>2, <2>3
      <3>3. h = [i \in 0..(k + 1) |-> h[i]]
        OBVIOUS
      <3> HIDE DEF h
      <3>4. Table(h, k + 1)
        BY <3>2, <3>3
      <3>5. k + 1 \in 0..Len(l.list)
        BY <2>3, <2>1
      <3> HIDE DEF Table
      <3> QED BY <3>4, <3>5
    <2>4. Len(l.list) \in Good
      <3> HIDE DEF Good
      <3> QED BY <2>1, <2>2, <2>3, UpTo
    <2>5. \E g : Table(g, Len(l.list))
      BY <2>4
    <2> QED BY <2>5 DEF Step
  <1>2. after = Body(after)
    <2> HIDE DEF Body
    <2> QED BY <1>1
  <1>3. read_aka_list(l, c) = after[Len(l.list)]
    BY DEF read_aka_list
  <1> HIDE DEF after
  <1>4. Len(l.list) \in Nat
    BY SequenceFacts
  <1>5. ASSUME NEW i \in 0..Len(l.list)
        PROVE  after[i] = IF i = 0 THEN Ok(c) ELSE read_aka(after[i - 1], l.list[i])
    <2>1. Body(after)[i] = IF i = 0 THEN Ok(c) ELSE read_aka(after[i - 1], l.list[i])
      OBVIOUS
    <2> HIDE DEF Body
    <2> QED BY <2>1, <1>2
  <1>6. after[0] = Ok(c) /\ \A i \in 1..Len(l.list) : after[i] = read_aka(after[i - 1], l.list[i])
    <2> HIDE DEF Body
    <2> QED BY <1>4, <1>5
  <1> QED BY <1>3, <1>6

LEMMA AddressLine ==
    ASSUME NEW l \in Lines, l.k = "address", NEW c, IsWork(c)
    PROVE  IsResult(read_aka_list(l, c))
  <1>1. l.list \in Seq(Written)
    BY LinesAssumption
  <1>2. IsSequence(l.list) /\ Len(l.list) \in Nat /\ \A i \in 1..Len(l.list) : l.list[i] \in Written
    BY <1>1, SequenceOf
  <1>3. CASE l.list = <<>>
    BY <1>3, ResultOf DEF read_aka_list
  <1>4. CASE l.list # <<>>
    <2>1. PICK g : /\ read_aka_list(l, c) = g[Len(l.list)]
                   /\ g[0] = Ok(c)
                   /\ \A i \in 1..Len(l.list) : g[i] = read_aka(g[i - 1], l.list[i])
      BY <1>2, <1>4, AkaSteps
    <2> DEFINE Good == {k \in 0..Len(l.list) : IsResult(g[k])}
    <2>2. 0 \in Good
      BY <2>1, <1>2, ResultOf
    <2>3. ASSUME NEW k \in 0..Len(l.list), k < Len(l.list), k \in Good PROVE k + 1 \in Good
      <3>1. k + 1 \in 1..Len(l.list) /\ k + 1 - 1 = k
        BY <2>3, <1>2
      <3>2. IsResult(g[k]) /\ l.list[k + 1] \in Written
        BY <2>3, <3>1, <1>2
      <3>3. g[k + 1] = read_aka(g[k], l.list[k + 1])
        BY <3>1, <2>1
      <3>4. IsResult(g[k + 1])
        BY <3>2, <3>3, OneAka
      <3> QED BY <3>1, <3>4, <1>2
    <2>4. Len(l.list) \in Good
      <3> HIDE DEF Good
      <3> QED BY <1>2, <2>2, <2>3, UpTo
    <2> QED BY <2>1, <2>4
  <1> QED BY <1>3, <1>4

-----------------------------------------------------------------------------
(* Nodes. *)

EditFields == {"hosts", "pwd", "pkt_pwd", "out_pwd", "obox_flvr", "obox", "ibox", "pipe", "AFF", "flags"}

LEMMA OneOption ==
    ASSUME NEW e, DOMAIN e = EditFields, NEW o \in KnownOptions
    PROVE  DOMAIN Option(e, o) = EditFields /\ Option(e, o).hosts = e.hosts
  <1>1. ASSUME NEW x PROVE LET d == [e EXCEPT !.flags = x] IN
                           DOMAIN d = EditFields /\ d.hosts = e.hosts
    BY DEF EditFields
  <1>2. ASSUME NEW x PROVE LET d == [e EXCEPT !.AFF = x] IN
                           DOMAIN d = EditFields /\ d.hosts = e.hosts
    BY DEF EditFields
  <1>3. \/ Option(e, o) = e
        \/ \E x : Option(e, o) = [e EXCEPT !.flags = x]
        \/ \E x : Option(e, o) = [e EXCEPT !.AFF = x]
    <2>1. CASE o \in {"-md", "-nomd"}
      BY <2>1 DEF Option
    <2>2. CASE o = "-nr"
      BY <2>2 DEF Option
    <2>3. CASE o = "-nd"
      <3> DEFINE x == [e.flags EXCEPT !["NR"] = "on"]
                 y == [x EXCEPT !["ND"] = "on"]
      <3>1. Option(e, o) = [[e EXCEPT !.flags = x] EXCEPT !.flags["ND"] = "on"]
        BY <2>3 DEF Option
      <3>2. [e EXCEPT !.flags = x].flags = x
        BY DEF EditFields
      <3>3. Option(e, o) = [[e EXCEPT !.flags = x] EXCEPT !.flags = y]
        BY <3>1, <3>2
      <3> HIDE DEF x, y
      <3>4. [[e EXCEPT !.flags = x] EXCEPT !.flags = y] = [e EXCEPT !.flags = y]
        BY DEF EditFields
      <3> QED BY <3>3, <3>4
    <2>4. CASE o \in {"-ip", "-sip"}
      BY <2>4 DEF Option
    <2>5. CASE o \in {"-hc", "-nohc"}
      BY <2>5 DEF Option
    <2>6. CASE o = "-noproxy"
      BY <2>6 DEF Option
    <2>7. CASE o = "-nc"
      BY <2>7 DEF Option
    <2>8. CASE o \in {"-4", "-6"}
      BY <2>8 DEF Option
    <2>9. CASE o \in {"-46", "-64"}
      BY <2>9 DEF Option
    <2>10. CASE o = "-crypt"
      BY <2>10 DEF Option
    <2> QED BY <2>1, <2>2, <2>3, <2>4, <2>5, <2>6, <2>7, <2>8, <2>9, <2>10 DEF KnownOptions
  <1> QED BY <1>1, <1>2, <1>3

LEMMA OptionSteps ==
    ASSUME NEW e, NEW opts, IsSequence(opts)
    PROVE  \E g : /\ Options(e, opts) = g[Len(opts)]
                  /\ g[0] = e
                  /\ \A i \in 1..Len(opts) : g[i] = Option(g[i - 1], opts[i])
  <1> DEFINE Body(f) == [i \in 0..Len(opts) |-> IF i = 0 THEN e ELSE Option(f[i - 1], opts[i])]
             after == CHOOSE f : f = Body(f)
  <1>1. \E f : f = Body(f)
    <2> DEFINE Step(x, i) == Option(x, opts[i])
               Table(g, k) == g = [i \in 0..k |-> IF i = 0 THEN e ELSE Step(g[i - 1], i)]
               Good == {k \in 0..Len(opts) : \E g : Table(g, k)}
    <2>1. Len(opts) \in Nat
      BY SequenceFacts
    <2> HIDE DEF Step
    <2>2. 0 \in Good
      <3> DEFINE g == [i \in 0..0 |-> e]
      <3>1. Table(g, 0)
        OBVIOUS
      <3>2. 0 \in 0..Len(opts)
        BY <2>1
      <3> HIDE DEF g, Table
      <3> QED BY <3>1, <3>2
    <2>3. ASSUME NEW k \in 0..Len(opts), k < Len(opts), k \in Good PROVE k + 1 \in Good
      <3>1. PICK g : Table(g, k)
        BY <2>3
      <3> DEFINE h == [i \in 0..(k + 1) |-> IF i = k + 1 THEN Step(g[k], k + 1) ELSE g[i]]
      <3>2. ASSUME NEW i \in 0..(k + 1)
            PROVE  h[i] = IF i = 0 THEN e ELSE Step(h[i - 1], i)
        <4>1. CASE i = k + 1
          BY <4>1, <2>3
        <4>2. CASE i \in 0..k
          <5>1. h[i] = g[i] /\ g[i] = IF i = 0 THEN e ELSE Step(g[i - 1], i)
            BY <4>2, <3>1, <2>3
          <5>2. i # 0 => h[i - 1] = g[i - 1]
            BY <4>2, <2>3
          <5> HIDE DEF h
          <5> QED BY <5>1, <5>2
        <4> QED BY <4>1, <4>2, <2>3
      <3>3. h = [i \in 0..(k + 1) |-> h[i]]
        OBVIOUS
      <3> HIDE DEF h
      <3>4. Table(h, k + 1)
        BY <3>2, <3>3
      <3>5. k + 1 \in 0..Len(opts)
        BY <2>3, <2>1
      <3> HIDE DEF Table
      <3> QED BY <3>4, <3>5
    <2>4. Len(opts) \in Good
      <3> HIDE DEF Good
      <3> QED BY <2>1, <2>2, <2>3, UpTo
    <2>5. \E g : Table(g, Len(opts))
      BY <2>4
    <2> QED BY <2>5 DEF Step
  <1>2. after = Body(after)
    <2> HIDE DEF Body
    <2> QED BY <1>1
  <1>3. Options(e, opts) = after[Len(opts)]
    BY DEF Options
  <1> HIDE DEF after
  <1>4. Len(opts) \in Nat
    BY SequenceFacts
  <1>5. ASSUME NEW i \in 0..Len(opts)
        PROVE  after[i] = IF i = 0 THEN e ELSE Option(after[i - 1], opts[i])
    <2>1. Body(after)[i] = IF i = 0 THEN e ELSE Option(after[i - 1], opts[i])
      OBVIOUS
    <2> HIDE DEF Body
    <2> QED BY <2>1, <1>2
  <1>6. after[0] = e /\ \A i \in 1..Len(opts) : after[i] = Option(after[i - 1], opts[i])
    <2> HIDE DEF Body
    <2> QED BY <1>4, <1>5
  <1> QED BY <1>3, <1>6

LEMMA AllOptions ==
    ASSUME NEW e, DOMAIN e = EditFields, NEW opts, IsSequence(opts),
           \A i \in DOMAIN opts : opts[i] \in KnownOptions
    PROVE  Options(e, opts).hosts = e.hosts
  <1>1. Len(opts) \in Nat /\ DOMAIN opts = 1..Len(opts)
    BY SequenceFacts
  <1>2. PICK g : /\ Options(e, opts) = g[Len(opts)]
                 /\ g[0] = e
                 /\ \A i \in 1..Len(opts) : g[i] = Option(g[i - 1], opts[i])
    BY OptionSteps
  <1> DEFINE Good == {k \in 0..Len(opts) : DOMAIN g[k] = EditFields /\ g[k].hosts = e.hosts}
  <1>3. 0 \in Good
    BY <1>1, <1>2
  <1>4. ASSUME NEW k \in 0..Len(opts), k < Len(opts), k \in Good PROVE k + 1 \in Good
    <2>1. k + 1 \in 1..Len(opts) /\ k + 1 - 1 = k /\ k + 1 \in 0..Len(opts)
      BY <1>1, <1>4
    <2>2. g[k + 1] = Option(g[k], opts[k + 1]) /\ opts[k + 1] \in KnownOptions
      BY <1>1, <1>2, <2>1
    <2>3. DOMAIN g[k] = EditFields /\ g[k].hosts = e.hosts
      BY <1>4
    <2>4. DOMAIN g[k + 1] = EditFields /\ g[k + 1].hosts = g[k].hosts
      BY <2>2, <2>3, OneOption
    <2> QED BY <2>1, <2>3, <2>4
  <1>5. Len(opts) \in Good
    <2> HIDE DEF Good
    <2> QED BY <1>1, <1>3, <1>4, UpTo
  <1> QED BY <1>2, <1>5

(* An entry is there, and its field listed is set. *)
LEMMA MarkListed ==
    ASSUME NEW t, IsTable(t), NEW fa, \E n \in Range(t.nodes) : n.fa = fa, NEW x
    PROVE  LET i == CHOOSE i \in DOMAIN t.nodes : t.nodes[i].fa = fa IN
           IsTable([t EXCEPT !.nodes[i].listed = x])
  <1> DEFINE i == CHOOSE i \in DOMAIN t.nodes : t.nodes[i].fa = fa
             m == [t.nodes[i] EXCEPT !.listed = x]
  <1>1. \E j \in DOMAIN t.nodes : t.nodes[j].fa = fa
    BY TableFacts
  <1>2. i \in DOMAIN t.nodes
    BY <1>1
  <1> HIDE DEF i
  <1>3. i \in 1..Len(t.nodes) /\ IsNode(t.nodes[i])
    BY <1>2, TableFacts
  <1>4. DOMAIN m = NodeFields /\ m.fa = t.nodes[i].fa /\ m.hosts = t.nodes[i].hosts
    BY <1>3 DEF IsNode, NodeFields
  <1>5. [t EXCEPT !.nodes[i].listed = x] = [t EXCEPT !.nodes[i] = m]
    OBVIOUS
  <1> HIDE DEF m
  <1>6. IsNode(m)
    BY <1>3, <1>4 DEF IsNode
  <1>7. IsTable([t EXCEPT !.nodes[i] = m])
    BY <1>3, <1>4, <1>6, ChangeOnly
  <1> QED BY <1>5, <1>7 DEF i

LEMMA NodeLine ==
    ASSUME NEW l, IsSequence(l.hosts), IsSequence(l.opts), l.def \/ l.a \in Written,
           NEW c, IsWork(c)
    PROVE  IsResult(read_node_info(l, c))
  <1> DEFINE s == split_passwords(l)
             e0 == [NoEdit EXCEPT !.hosts = l.hosts, !.pwd = s.pwd,
                     !.pkt_pwd = s.pkt_pwd, !.out_pwd = s.out_pwd,
                     !.obox_flvr = l.flvr, !.obox = l.obox, !.ibox = l.ibox,
                     !.pipe = l.pipe]
             e == Options(e0, l.opts)
             w == IF l.def THEN DefNode ELSE l.a
             fa == FullAddress(w, c)
             r == Config_ParseAddress(w, c)
             t == add_node(c.table, fa, e)
             i == CHOOSE i \in DOMAIN t.nodes : t.nodes[i].fa = fa
             u == [t EXCEPT !.nodes[i].listed = "node"]
             d == [c EXCEPT !.table = u, !.havedefnode = c.havedefnode \/ l.def]
  <1>1. \/ read_node_info(l, c) = ConfigError(c)
        \/ read_node_info(l, c) = r
        \/ /\ ~(\E j \in DOMAIN l.opts : l.opts[j] \notin KnownOptions)
           /\ ~(r.res # "ok")
           /\ read_node_info(l, c) = Ok(d)
    BY DEF read_node_info
  <1>2. IsResult(r) /\ (r.res = "ok" => c.akas # <<>>)
    BY ResultOf, ResultFacts DEF Config_ParseAddress
  <1>3. CASE /\ ~(\E j \in DOMAIN l.opts : l.opts[j] \notin KnownOptions)
             /\ ~(r.res # "ok")
             /\ read_node_info(l, c) = Ok(d)
    <2>1. w \in Written
      <3>1. DefNode \in Written
        BY RankAssumption DEF DefNode, Written, Part
      <3> QED BY <3>1
    <2> HIDE DEF w
    <2>2. fa \in Address
      BY <2>1, <1>2, <1>3, FullIsAddress DEF IsWork
    <2>3. DOMAIN e0 = EditFields /\ e0.hosts = l.hosts
      BY DEF NoEdit, EditFields
    <2> HIDE DEF e0
    <2>4. e.hosts = l.hosts
      BY <2>3, <1>3, AllOptions
    <2>5. IsSequence(e.hosts)
      BY <2>4
    <2> HIDE DEF e, fa
    <2>6. IsTable(c.table)
      BY DEF IsWork
    <2>7. IsTable(t) /\ \E n \in Range(t.nodes) : n.fa = fa
      BY <2>2, <2>5, <2>6, AddNode
    <2> HIDE DEF t
    <2>8. IsTable(u)
      BY <2>7, MarkListed
    <2> HIDE DEF u
    <2>9. IsWork(d)
      BY <2>8, TableWork
    <2> QED BY <2>9, <1>3, ResultOf
  <1> QED BY <1>1, <1>2, <1>3, ResultOf

LEMMA ShareLine ==
    ASSUME NEW l \in Lines, l.k = "share", NEW c, IsWork(c)
    PROVE  IsResult(read_shares(l, c))
  <1> DEFINE line == [k |-> "node", def |-> FALSE, n |-> 1, a |-> l.list[1], hosts |-> <<>>,
                      pwd |-> <<Null>>, opts |-> <<>>, pipe |-> "", flvr |-> "-",
                      obox |-> Null, ibox |-> Null]
             r == read_node_info(line, c)
             s == <<[i \in DOMAIN l.list |-> FullAddress(l.list[i], c)]>>
  <1>1. \/ read_shares(l, c) = ConfigError(c)
        \/ /\ ~(Len(l.list) < 2)
           /\ read_shares(l, c) \in {r, ConfigError(c), Ok(Add(r.c, "shares", s))}
    BY DEF read_shares
  <1> HIDE DEF s
  <1>2. CASE ~(Len(l.list) < 2)
    <2>1. l.list \in Seq(Written)
      BY LinesAssumption
    <2>2. l.list[1] \in Written
      BY <2>1, <1>2
    <2>3. line.hosts = <<>> /\ line.opts = <<>> /\ line.a = l.list[1]
      OBVIOUS
    <2> HIDE DEF line
    <2>4. IsResult(r)
      BY <2>2, <2>3, EmptySequence, NodeLine
    <2> HIDE DEF r
    <2>5. IsWork(Add(r.c, "shares", s))
      BY <2>4, AddWork DEF IsResult
    <2> QED BY <1>1, <2>4, <2>5, ResultOf
  <1> HIDE DEF r
  <1> QED BY <1>1, <1>2, ResultOf

LEMMA AkaLine ==
    ASSUME NEW l, NEW c, IsWork(c)
    PROVE  IsResult(read_akachain(l, c))
  <1> DEFINE r == Config_ParseAddress(l.a, c)
             s == <<<<l.act, l.neg, FullAddress(l.a, c)>>>>
  <1>1. read_akachain(l, c) \in {ConfigError(c), r, Ok(Add(c, "akamask", s))}
    BY DEF read_akachain
  <1>2. IsResult(r)
    BY ResultOf DEF Config_ParseAddress
  <1> HIDE DEF s, r
  <1>3. IsWork(Add(c, "akamask", s))
    BY AddWork
  <1> QED BY <1>1, <1>2, <1>3, ResultOf

LEMMA EveryLine ==
    ASSUME NEW l \in Lines, NEW c, IsWork(c)
    PROVE  IsResult(callback(l, c))
  <1> DEFINE r == callback(l, c)
  <1>1. l.k = "node" => IsResult(read_node_info(l, c))
    BY LinesAssumption, NodeLine
  <1>2. CASE l.k \in {"string", "int", "time", "bool", "word", "port", "pkthdr"}
    BY <1>2, SimpleLines DEF callback
  <1>3. CASE l.k \in {"listen", "masks", "zrules", "ftrans", "perlvar", "flag", "skip", "rate"}
    BY <1>3, ListLines DEF callback
  <1>4. CASE l.k \in {"domain", "address", "node", "share", "aka"}
    BY <1>1, <1>4, DomainLine, AddressLine, ShareLine, AkaLine DEF callback
  <1>5. CASE l.k \notin {"string", "int", "time", "bool", "word", "port", "pkthdr"} \cup
             {"listen", "masks", "zrules", "ftrans", "perlvar", "flag", "skip", "rate"} \cup
             {"domain", "address", "node", "share", "aka"}
    <2>1. callback(l, c) = ConfigError(c)
      BY <1>5 DEF callback
    <2> QED BY <2>1, ResultOf
  <1> QED BY <1>2, <1>3, <1>4, <1>5

-----------------------------------------------------------------------------
(* The passwords file, and a configuration that is accepted. *)

(* One line of the passwords file. *)
LEMMA OnePassword ==
    ASSUME NEW t, IsTable(t), NEW l, l.a \in Written,
           NEW c, Domains(c.domains), c.akas \in Seq(Address), c.akas # <<>>
    PROVE  IsTable(read_password(t, l, c))
  <1> DEFINE fa == FullAddress(l.a, c)
             s  == split_passwords(l)
             e  == [NoEdit EXCEPT !.pwd = s.pwd, !.pkt_pwd = s.pkt_pwd, !.out_pwd = s.out_pwd]
             t1 == add_node(t, fa, e)
             i  == CHOOSE i \in DOMAIN t1.nodes : t1.nodes[i].fa = fa
             x  == IF t1.nodes[i].listed = "unlisted" THEN "passwords" ELSE t1.nodes[i].listed
  <1>1. \/ read_password(t, l, c) = t
        \/ read_password(t, l, c) = [t1 EXCEPT !.nodes[i].listed = x]
    BY DEF read_password
  <1>2. fa \in Address
    BY FullIsAddress
  <1>3. IsSequence(e.hosts)
    BY EmptySequence DEF NoEdit
  <1> HIDE DEF fa, e
  <1>4. IsTable(t1) /\ \E n \in Range(t1.nodes) : n.fa = fa
    BY <1>2, <1>3, AddNode
  <1> HIDE DEF t1, x
  <1>5. IsTable([t1 EXCEPT !.nodes[i].listed = x])
    BY <1>4, MarkListed
  <1> QED BY <1>1, <1>5


PasswordLines(c) == PasswordFiles[Var(c, "passwords", "")]

LEMMA PasswordSteps ==
    ASSUME NEW c, IsSequence(PasswordLines(c))
    PROVE  \E g : /\ read_passwords(c) = [c EXCEPT !.table = g[Len(PasswordLines(c))]]
                  /\ g[0] = c.table
                  /\ \A i \in 1..Len(PasswordLines(c)) :
                       g[i] = read_password(g[i - 1], PasswordLines(c)[i], c)
  <1> DEFINE Body(f) == [i \in 0..Len(PasswordLines(c)) |-> IF i = 0 THEN c.table
                        ELSE read_password(f[i - 1], PasswordLines(c)[i], c)]
             after == CHOOSE f : f = Body(f)
  <1>1. \E f : f = Body(f)
    <2> DEFINE Step(x, i) == read_password(x, PasswordLines(c)[i], c)
               Table(g, k) == g = [i \in 0..k |-> IF i = 0 THEN c.table ELSE Step(g[i - 1], i)]
               Good == {k \in 0..Len(PasswordLines(c)) : \E g : Table(g, k)}
    <2>1. Len(PasswordLines(c)) \in Nat
      BY SequenceFacts
    <2> HIDE DEF Step
    <2>2. 0 \in Good
      <3> DEFINE g == [i \in 0..0 |-> c.table]
      <3>1. Table(g, 0)
        OBVIOUS
      <3>2. 0 \in 0..Len(PasswordLines(c))
        BY <2>1
      <3> HIDE DEF g, Table
      <3> QED BY <3>1, <3>2
    <2>3. ASSUME NEW k \in 0..Len(PasswordLines(c)), k < Len(PasswordLines(c)), k \in Good
          PROVE k + 1 \in Good
      <3>1. PICK g : Table(g, k)
        BY <2>3
      <3> DEFINE h == [i \in 0..(k + 1) |-> IF i = k + 1 THEN Step(g[k], k + 1) ELSE g[i]]
      <3>2. ASSUME NEW i \in 0..(k + 1)
            PROVE  h[i] = IF i = 0 THEN c.table ELSE Step(h[i - 1], i)
        <4>1. CASE i = k + 1
          BY <4>1, <2>3
        <4>2. CASE i \in 0..k
          <5>1. h[i] = g[i] /\ g[i] = IF i = 0 THEN c.table ELSE Step(g[i - 1], i)
            BY <4>2, <3>1, <2>3
          <5>2. i # 0 => h[i - 1] = g[i - 1]
            BY <4>2, <2>3
          <5> HIDE DEF h
          <5> QED BY <5>1, <5>2
        <4> QED BY <4>1, <4>2, <2>3
      <3>3. h = [i \in 0..(k + 1) |-> h[i]]
        OBVIOUS
      <3> HIDE DEF h
      <3>4. Table(h, k + 1)
        BY <3>2, <3>3
      <3>5. k + 1 \in 0..Len(PasswordLines(c))
        BY <2>3, <2>1
      <3> HIDE DEF Table
      <3> QED BY <3>4, <3>5
    <2>4. Len(PasswordLines(c)) \in Good
      <3> HIDE DEF Good
      <3> QED BY <2>1, <2>2, <2>3, UpTo
    <2>5. \E g : Table(g, Len(PasswordLines(c)))
      BY <2>4
    <2> QED BY <2>5 DEF Step
  <1>2. after = Body(after)
    <2> HIDE DEF Body
    <2> QED BY <1>1
  <1>3. read_passwords(c) = [c EXCEPT !.table = after[Len(PasswordLines(c))]]
    BY DEF read_passwords, PasswordLines
  <1> HIDE DEF after
  <1>4. Len(PasswordLines(c)) \in Nat
    BY SequenceFacts
  <1>5. ASSUME NEW i \in 0..Len(PasswordLines(c))
        PROVE  after[i] = IF i = 0 THEN c.table ELSE read_password(after[i - 1], PasswordLines(c)[i], c)
    <2>1. Body(after)[i] = IF i = 0 THEN c.table ELSE read_password(after[i - 1], PasswordLines(c)[i], c)
      OBVIOUS
    <2> HIDE DEF Body
    <2> QED BY <2>1, <1>2
  <1>6. after[0] = c.table /\ \A i \in 1..Len(PasswordLines(c)) :
        after[i] = read_password(after[i - 1], PasswordLines(c)[i], c)
    <2> HIDE DEF Body
    <2> QED BY <1>4, <1>5
  <1> QED BY <1>3, <1>6



WorkRecord(c) == DOMAIN c = WorkFields
HasPasswords(c) == Var(c, "passwords", "") \in DOMAIN PasswordFiles

LEMMA AllPasswords ==
    ASSUME NEW c, WorkRecord(c), IsTable(c.table),
           Domains(c.domains), c.akas \in Seq(Address), c.akas # <<>>,
           HasPasswords(c)
    PROVE  LET d == read_passwords(c) IN
           /\ DOMAIN d = WorkFields /\ d.vars = c.vars /\ d.lists = c.lists
           /\ d.havedefnode = c.havedefnode /\ IsTable(d.table)
  <1> DEFINE lines == PasswordLines(c)
  <1>1. IsSequence(lines) /\ \A i \in DOMAIN lines : lines[i].a \in Written
    BY LinesAssumption DEF PasswordLines, HasPasswords
  <1>2. Len(lines) \in Nat /\ DOMAIN lines = 1..Len(lines)
    BY <1>1, SequenceFacts
  <1>3. PICK g : /\ read_passwords(c) = [c EXCEPT !.table = g[Len(lines)]]
                 /\ g[0] = c.table
                 /\ \A i \in 1..Len(lines) : g[i] = read_password(g[i - 1], lines[i], c)
    BY <1>1, PasswordSteps
  <1> HIDE DEF lines
  <1> DEFINE Good == {k \in 0..Len(lines) : IsTable(g[k])}
  <1>4. 0 \in Good
    BY <1>2, <1>3
  <1>5. ASSUME NEW k \in 0..Len(lines), k < Len(lines), k \in Good PROVE k + 1 \in Good
    <2>1. k + 1 \in 1..Len(lines) /\ k + 1 - 1 = k /\ k + 1 \in 0..Len(lines)
      BY <1>2, <1>5
    <2>2. lines[k + 1].a \in Written
      BY <2>1, <1>1, <1>2
    <2>3. g[k + 1] = read_password(g[k], lines[k + 1], c)
      BY <2>1, <1>3
    <2> DEFINE l == lines[k + 1]
    <2>4. l.a \in Written
      BY <2>2
    <2> HIDE DEF l
    <2>5. IsTable(g[k])
      BY <1>5
    <2>6. IsTable(read_password(g[k], l, c))
      BY <2>4, <2>5, OnePassword
    <2> QED BY <2>1, <2>3, <2>6 DEF l
  <1>6. Len(lines) \in Good
    <2> HIDE DEF Good
    <2> QED BY <1>2, <1>4, <1>5, UpTo
  <1>7. IsTable(g[Len(lines)])
    BY <1>6
  <1> DEFINE d == read_passwords(c)
             t == g[Len(lines)]
  <1>8. d = [c EXCEPT !.table = t]
    BY <1>3
  <1> HIDE DEF t, d, lines
  <1>9. DOMAIN d = WorkFields /\ d.vars = c.vars /\ d.lists = c.lists
        /\ d.havedefnode = c.havedefnode /\ d.table = t
    BY <1>8 DEF WorkFields, WorkRecord
  <1> QED BY <1>7, <1>9 DEF t, d

LEMMA SingleElement == ASSUME NEW x PROVE \A i \in DOMAIN <<x>> : <<x>>[i] = x
  OBVIOUS

LEMMA AnyAddress ==
    ASSUME NEW list, list = <<[addr |-> "", port |-> ""]>>
    PROVE  \A i \in DOMAIN list : "port" \in DOMAIN list[i]
  <1> DEFINE x == [addr |-> "", port |-> ""]
  <1>1. "port" \in DOMAIN x
    OBVIOUS
  <1>2. list = <<x>>
    OBVIOUS
  <1> HIDE DEF x
  <1>3. \A i \in DOMAIN <<x>> : <<x>>[i] = x
    BY SingleElement
  <1> QED BY <1>1, <1>2, <1>3

LEMMA ListenPorts ==
    ASSUME NEW c, HasPort(c.vars), Listens(c.lists)
    PROVE  \A i \in DOMAIN listen_ports(c) : listen_ports(c)[i].port # ""
  <1>1. c.vars["iport"] # ""
    BY DEF HasPort
  <1> DEFINE list == IF "listen" \in DOMAIN c.lists THEN c.lists["listen"]
                     ELSE <<[addr |-> "", port |-> ""]>>
             r == [i \in DOMAIN list |-> IF list[i].port # "" THEN list[i]
                                         ELSE [list[i] EXCEPT !.port = c.vars["iport"]]]
  <1>2. listen_ports(c) = r
    BY DEF listen_ports
  <1>3. \A i \in DOMAIN list : "port" \in DOMAIN list[i]
    <2>1. CASE "listen" \in DOMAIN c.lists
      <3>1. c.lists["listen"] \in Seq(ListenAddress)
        BY <2>1 DEF Listens
      <3>2. list = c.lists["listen"]
        BY <2>1
      <3> HIDE DEF list
      <3>3. \A i \in DOMAIN list : list[i] \in ListenAddress
        BY <3>1, <3>2
      <3> QED BY <3>3 DEF ListenAddress
    <2>2. CASE "listen" \notin DOMAIN c.lists
      <3> HIDE DEF r
      <3>1. list = <<[addr |-> "", port |-> ""]>>
        BY <2>2
      <3> HIDE DEF list
      <3> QED BY <3>1, AnyAddress
    <2> QED BY <2>1, <2>2
  <1> HIDE DEF list
  <1>4. ASSUME NEW i \in DOMAIN r PROVE r[i].port # ""
    <2> DEFINE x == list[i]
               p == c.vars["iport"]
    <2>1. "port" \in DOMAIN x
      BY <1>3
    <2>2. r[i] = IF x.port # "" THEN x ELSE [x EXCEPT !.port = p]
      OBVIOUS
    <2> HIDE DEF x, p, r
    <2>3. [x EXCEPT !.port = p].port = p
      BY <2>1
    <2> QED BY <2>2, <2>3, <1>1 DEF p
  <1> HIDE DEF r
  <1> QED BY <1>2, <1>4

(* What a configuration is when it is accepted. *)
IsAccepted(d) ==
  /\ DOMAIN d = WorkFields /\ InLimits(d.vars) /\ Complete(d.table)
  /\ \A i \in DOMAIN d.lists["listen"] : d.lists["listen"][i].port # ""

LEMMA NoLimits == "inbound_nonsecure" \notin DOMAIN Limits
  BY DEF Limits

LEMMA CompletedWork ==
    ASSUME NEW c, IsWork(c), c.akas # <<>>,
           Var(c, "passwords", "") \in {""} \cup DOMAIN PasswordFiles
    PROVE  IsAccepted(Completed(c))
  <1> DEFINE ls == Put(c.lists, "listen", listen_ports(c))
             vs == Put(c.vars, "inbound_nonsecure", Var(c, "inbound_nonsecure", c.vars["inbound"]))
             c1 == [c EXCEPT !.lists = ls, !.vars = vs]
             c2 == IF Var(c, "passwords", "") = "" THEN c1 ELSE read_passwords(c1)
             d  == [c2 EXCEPT !.table = foreach_node(c2.table, c2.havedefnode)]
  <1>1. Completed(c) = d
    BY DEF Completed
  <1>2. InLimits(vs)
    <2>1. "inbound_nonsecure" \notin DOMAIN Limits
      BY NoLimits
    <2> DEFINE x == Var(c, "inbound_nonsecure", c.vars["inbound"])
    <2> HIDE DEF x
    <2>2. InLimits(Put(c.vars, "inbound_nonsecure", x))
      BY <2>1, SetVars DEF IsWork
    <2> QED BY <2>2 DEF x
  <1>3. \A i \in DOMAIN ls["listen"] : ls["listen"][i].port # ""
    <2>1. ls["listen"] = listen_ports(c)
      BY DEF Put
    <2> HIDE DEF ls
    <2> QED BY <2>1, ListenPorts DEF IsWork
  <1>4. Var(c1, "passwords", "") = Var(c, "passwords", "")
    <2>1. c1.vars = vs
      BY DEF IsWork, WorkFields
    <2> HIDE DEF c1
    <2> QED BY <2>1 DEF Var, Put
  <1> HIDE DEF ls, vs
  <1>5. /\ DOMAIN c1 = WorkFields /\ c1.vars = vs /\ c1.lists = ls /\ c1.domains = c.domains
        /\ c1.akas = c.akas /\ c1.table = c.table
    BY DEF IsWork, WorkFields
  <1> HIDE DEF c1
  <1>6. DOMAIN c2 = WorkFields /\ c2.vars = vs /\ c2.lists = ls /\ IsTable(c2.table)
    <2>1. CASE Var(c, "passwords", "") = ""
      BY <2>1, <1>5 DEF IsWork
    <2>2. CASE Var(c, "passwords", "") # ""
      <3>1. Var(c1, "passwords", "") \in DOMAIN PasswordFiles
        BY <2>2, <1>4
      <3>2. IsTable(c1.table) /\ Domains(c1.domains) /\ c1.akas \in Seq(Address) /\ c1.akas # <<>>
        BY <1>5 DEF IsWork
      <3>3. LET e == read_passwords(c1) IN
            /\ DOMAIN e = WorkFields /\ e.vars = c1.vars /\ e.lists = c1.lists /\ IsTable(e.table)
        BY <3>1, <3>2, <1>5, AllPasswords DEF WorkRecord, HasPasswords
      <3>4. c2 = read_passwords(c1)
        BY <2>2
      <3> QED BY <3>3, <3>4, <1>5
    <2> QED BY <2>1, <2>2
  <1> HIDE DEF c2
  <1> DEFINE t == foreach_node(c2.table, c2.havedefnode)
  <1>7. Complete(t)
    BY <1>6, Foreach
  <1> HIDE DEF t
  <1>8. DOMAIN d = WorkFields /\ d.vars = vs /\ d.lists = ls /\ d.table = t
    <2>1. d = [c2 EXCEPT !.table = t]
      BY DEF t
    <2> HIDE DEF d
    <2> QED BY <2>1, <1>6 DEF WorkFields
  <1> HIDE DEF d
  <1>9. IsAccepted(d)
    BY <1>2, <1>3, <1>7, <1>8 DEF IsAccepted
  <1> QED BY <1>1, <1>9

LEMMA NewIsWork == IsWork(NewWork)
  <1>1. DOMAIN NewWork = WorkFields
    BY DEF NewWork, WorkFields
  <1>2. /\ NewWork.vars = Defaults /\ NewWork.lists = <<>> /\ NewWork.domains = <<>>
        /\ NewWork.akas = <<>> /\ NewWork.table = EmptyTable
    BY DEF NewWork
  <1>3. HasPort(Defaults)
    BY DEF Defaults, HasPort
  <1>4. InLimits(Defaults)
    <2>1. DOMAIN Defaults \cap DOMAIN Limits =
            {"call_delay", "timeout", "oblksize", "maxservers", "loglevel", "tzoff"}
      BY DEF Defaults, Limits
    <2>2. /\ Within("call_delay", Defaults["call_delay"]) /\ Within("timeout", Defaults["timeout"])
          /\ Within("oblksize", Defaults["oblksize"])
      BY DEF Defaults, Limits, Within, DONT_CHECK
    <2>3. /\ Within("maxservers", Defaults["maxservers"])
          /\ Within("loglevel", Defaults["loglevel"])
          /\ Within("tzoff", Defaults["tzoff"])
      BY DEF Defaults, Limits, Within, DONT_CHECK
    <2> QED BY <2>1, <2>2, <2>3 DEF InLimits
  <1>5. Listens(<<>>)
    BY DEF Listens
  <1>6. Domains(<<>>)
    BY EmptySequence DEF Domains
  <1>7. IsTable(EmptyTable)
    <2>1. EmptyTable.nodes = <<>> /\ EmptyTable.sorted = FALSE
          /\ DOMAIN EmptyTable = {"nodes", "sorted"}
      BY DEF EmptyTable
    <2>2. Nodes(<<>>) /\ Distinct(<<>>)
      BY EmptySequence DEF Nodes, Distinct
    <2> QED BY <2>1, <2>2 DEF IsTable
  <1>8. <<>> \in Seq(Address)
    OBVIOUS
  <1> QED BY <1>1, <1>2, <1>3, <1>4, <1>5, <1>6, <1>7, <1>8 DEF IsWork

-----------------------------------------------------------------------------
(* The reading of the configuration, and the two theorems about it. *)

RdFields == {"st", "level", "head", "missing", "core", "other", "refused"}
ConfigFields == {"ready", "table", "havedefnode", "domains", "root", "oport", "proxy", "socks",
                 "bindaddr"}

Reads ==
  /\ DOMAIN rd = RdFields /\ rd.head \in Nat \ {0}
  /\ rd.st = "reading" => IsWork(work) /\ ~rd.refused
  /\ rd.st = "accepted" => IsAccepted(work) /\ ~rd.refused

InForce == cfg.ready => DOMAIN cfg = ConfigFields /\ Complete(cfg.table)

ConfigInv == Reads /\ InForce

LEMMA InitConfig == Init => ConfigInv
  <1> SUFFICES ASSUME Init PROVE ConfigInv
    OBVIOUS
  <1>1. DOMAIN rd = RdFields /\ rd.head = 1 /\ rd.st = "reading" /\ rd.refused = FALSE
    BY DEF Init, NotReading, RdFields
  <1>2. IsWork(work)
    BY NewIsWork DEF Init
  <1>3. cfg.ready = FALSE
    BY DEF Init, NoConfig
  <1> QED BY <1>1, <1>2, <1>3 DEF ConfigInv, Reads, InForce

LEMMA LinesRead ==
    ASSUME Reads, NEW l \in NextLines
    PROVE  l \in Lines
  <1>1. CASE rd.head <= Len(HeadLines)
    <2>1. l = HeadLines[rd.head]
      BY <1>1 DEF NextLines
    <2>2. Len(HeadLines) \in Nat /\ \A i \in 1..Len(HeadLines) : HeadLines[i] \in Range(HeadLines)
      BY LinesAssumption, SequenceFacts
    <2>3. rd.head \in 1..Len(HeadLines)
      BY <1>1, <2>2 DEF Reads
    <2> QED BY <2>1, <2>2, <2>3 DEF Lines
  <1>2. CASE ~(rd.head <= Len(HeadLines))
    BY <1>2 DEF NextLines, Lines
  <1> QED BY <1>1, <1>2

LEMMA LineRead ==
    ASSUME Reads, NEW l \in NextLines, ReadLine(l)
    PROVE  Reads'
  <1> DEFINE r == callback(l, work)
             st == CASE r.res = "ok" -> "reading" [] r.res = "error" -> "failed"
                     [] r.res = "exit" -> "exit"
             refused == rd.refused \/ r.res # "ok"
             head == IF rd.head <= Len(HeadLines) THEN rd.head + 1 ELSE rd.head
  <1>1. rd.st = "reading" /\ IsWork(work) /\ ~rd.refused /\ DOMAIN rd = RdFields
        /\ rd.head \in Nat \ {0}
    BY DEF Reads, ReadLine
  <1>2. IsResult(r)
    BY <1>1, LinesRead, EveryLine
  <1>3. work' = r.c
    BY DEF ReadLine
  <1>4. DOMAIN rd' = RdFields /\ rd'.st = st /\ rd'.refused = refused /\ rd'.head = head
    BY <1>1 DEF ReadLine, RdFields
  <1>5. head \in Nat \ {0}
    BY <1>1
  <1>6. r.res \in {"ok", "error", "exit"} /\ IsWork(r.c)
    BY <1>2 DEF IsResult, Results
  <1> HIDE DEF r, head
  <1>7. /\ st \in {"reading", "failed", "exit"}
        /\ st = "reading" => r.res = "ok"
    BY <1>6
  <1> HIDE DEF st
  <1>8. st = "reading" => ~refused
    BY <1>1, <1>7
  <1> HIDE DEF refused
  <1> QED BY <1>3, <1>4, <1>5, <1>6, <1>7, <1>8 DEF Reads

LEMMA IncludeRead ==
    ASSUME Reads, NEW l, include(l)
    PROVE  Reads'
  <1>1. rd.st = "reading" /\ IsWork(work) /\ ~rd.refused /\ DOMAIN rd = RdFields
        /\ rd.head \in Nat \ {0} /\ work' = work
    BY DEF Reads, include
  <1>2. \/ rd' = [rd EXCEPT !.level = @ + 1, !.other = @ + 1]
        \/ rd' = [rd EXCEPT !.st = "failed", !.refused = TRUE]
    BY DEF include
  <1>3. CASE rd' = [rd EXCEPT !.level = @ + 1, !.other = @ + 1]
    <2>1. DOMAIN rd' = RdFields /\ rd'.st = rd.st /\ rd'.refused = rd.refused /\ rd'.head = rd.head
      BY <1>1, <1>3 DEF RdFields
    <2> QED BY <1>1, <2>1 DEF Reads
  <1>4. CASE rd' = [rd EXCEPT !.st = "failed", !.refused = TRUE]
    <2>1. DOMAIN rd' = RdFields /\ rd'.st = "failed" /\ rd'.head = rd.head
      BY <1>1, <1>4 DEF RdFields
    <2> QED BY <1>1, <2>1 DEF Reads
  <1> QED BY <1>2, <1>3, <1>4

LEMMA EndRead ==
    ASSUME Reads, EndInclude \/ LeaveOut
    PROVE  Reads'
  <1>1. rd.st = "reading" /\ IsWork(work) /\ ~rd.refused /\ DOMAIN rd = RdFields
        /\ rd.head \in Nat \ {0} /\ work' = work
    BY DEF Reads, EndInclude, LeaveOut
  <1>2. CASE EndInclude
    <2>1. DOMAIN rd' = RdFields /\ rd'.st = rd.st /\ rd'.refused = rd.refused /\ rd'.head = rd.head
      BY <1>1, <1>2 DEF EndInclude, RdFields
    <2> QED BY <1>1, <2>1 DEF Reads
  <1>3. CASE LeaveOut
    <2>1. DOMAIN rd' = RdFields /\ rd'.st = rd.st /\ rd'.refused = rd.refused
          /\ rd'.head = rd.head + 1
      BY <1>1, <1>3 DEF LeaveOut, RdFields
    <2>2. rd'.head \in Nat \ {0}
      BY <1>1, <2>1
    <2> QED BY <1>1, <2>1, <2>2 DEF Reads
  <1> QED BY <1>2, <1>3

LEMMA FileRead ==
    ASSUME Reads, readcfg
    PROVE  Reads'
  <1>1. rd.st = "reading" /\ IsWork(work) /\ ~rd.refused /\ DOMAIN rd = RdFields
        /\ rd.head \in Nat \ {0}
    BY DEF Reads, readcfg
  <1>2. \/ /\ work.akas # <<>>
           /\ Var(work, "passwords", "") \in {""} \cup DOMAIN PasswordFiles
           /\ work' = Completed(work)
           /\ rd' = [rd EXCEPT !.st = "accepted"]
        \/ rd' = [rd EXCEPT !.st = "failed"]
    BY DEF readcfg
  <1>3. CASE /\ work.akas # <<>>
             /\ Var(work, "passwords", "") \in {""} \cup DOMAIN PasswordFiles
             /\ work' = Completed(work)
             /\ rd' = [rd EXCEPT !.st = "accepted"]
    <2>1. IsAccepted(work')
      BY <1>1, <1>3, CompletedWork
    <2>2. DOMAIN rd' = RdFields /\ rd'.st = "accepted" /\ rd'.refused = rd.refused
          /\ rd'.head = rd.head
      BY <1>1, <1>3 DEF RdFields
    <2> QED BY <1>1, <2>1, <2>2 DEF Reads
  <1>4. CASE rd' = [rd EXCEPT !.st = "failed"]
    <2>1. DOMAIN rd' = RdFields /\ rd'.st = "failed" /\ rd'.head = rd.head
      BY <1>1, <1>4 DEF RdFields
    <2> QED BY <1>1, <2>1 DEF Reads
  <1> QED BY <1>2, <1>3, <1>4

LEMMA ReadingConfig ==
    ASSUME ConfigInv, Reading
    PROVE  ConfigInv'
  <1>1. cfg' = cfg
    BY DEF Reading, ReadLine, include, EndInclude, LeaveOut, readcfg
  <1>2. \/ \E l \in NextLines : ReadLine(l) \/ include(l)
        \/ EndInclude \/ LeaveOut \/ readcfg
    BY DEF Reading
  <1>3. Reads
    BY DEF ConfigInv
  <1>4. Reads'
    BY <1>2, <1>3, LineRead, IncludeRead, EndRead, FileRead
  <1> QED BY <1>1, <1>4 DEF ConfigInv, InForce

LEMMA TakenConfig ==
    ASSUME ConfigInv, TakeConfig
    PROVE  ConfigInv'
  <1>1. IsAccepted(work)
    BY DEF ConfigInv, Reads, TakeConfig
  <1>2. DOMAIN cfg' = ConfigFields /\ cfg'.table = work.table
    BY DEF TakeConfig, ConfigFields
  <1>3. rd' = NotReading
    BY DEF TakeConfig
  <1>4. DOMAIN rd' = RdFields /\ rd'.head = 1 /\ rd'.st = "idle"
    BY <1>3 DEF NotReading, RdFields
  <1>5. Reads'
    BY <1>4 DEF Reads
  <1>6. Complete(cfg'.table)
    BY <1>1, <1>2 DEF IsAccepted
  <1>7. InForce'
    BY <1>2, <1>6 DEF InForce
  <1> QED BY <1>5, <1>7 DEF ConfigInv

(* The table after a lookup, in force. *)
LEMMA StartTable ==
    ASSUME ConfigInv, NEW a \in Links, StartCall(a)
    PROVE  LET t == get_node_info(cfg.table, a, cfg.havedefnode) IN
           /\ Complete(t) /\ ConfigInv' /\ search_for_node(t, a) \in 0..Len(t.nodes)
  <1> DEFINE t == get_node_info(cfg.table, a, cfg.havedefnode)
  <1>1. a \in Address
    BY NamesAssumption DEF Address
  <1>2. cfg.ready /\ DOMAIN cfg = ConfigFields /\ Complete(cfg.table)
    BY DEF StartCall, ConfigInv, InForce
  <1>3. cfg' = [cfg EXCEPT !.table = t] /\ rd' = rd /\ work' = work
    BY DEF StartCall
  <1>4. LookedUp(t, cfg.table, a)
    BY <1>1, <1>2, Lookup DEF Complete
  <1> HIDE DEF t
  <1>5. Complete(t)
    BY <1>2, <1>4 DEF LookedUp, Complete
  <1>6. DOMAIN cfg' = ConfigFields /\ cfg'.table = t
    BY <1>2, <1>3 DEF ConfigFields
  <1>7. ConfigInv'
    BY <1>3, <1>5, <1>6 DEF ConfigInv, Reads, InForce
  <1>8. search_for_node(t, a) \in 0..Len(t.nodes)
    BY <1>1, <1>5, SearchFinds DEF Complete, IsTable
  <1> QED BY <1>5, <1>7, <1>8 DEF t

LEMMA RecheckConfig ==
    ASSUME ConfigInv, Recheck
    PROVE  ConfigInv'
  <1> DEFINE t == cfg.table
             q == [i \in DOMAIN t.nodes |-> [t.nodes[i] EXCEPT !.due = TRUE]]
             u == [t EXCEPT !.nodes = q]
  <1>1. cfg.ready /\ DOMAIN cfg = ConfigFields /\ IsTable(t) /\ t.sorted
        /\ \A n \in Range(t.nodes) : n.hosts # <<>>
    BY DEF Recheck, ConfigInv, InForce, Complete
  <1>2. cfg' = [cfg EXCEPT !.table = u] /\ rd' = rd /\ work' = work
    BY DEF Recheck
  <1>3. /\ Len(t.nodes) \in Nat /\ DOMAIN t.nodes = 1..Len(t.nodes)
        /\ \A i \in 1..Len(t.nodes) : IsNode(t.nodes[i]) /\ t.nodes[i].hosts # <<>>
    BY <1>1, TableFacts
  <1>4. ASSUME NEW i \in 1..Len(t.nodes)
        PROVE  IsNode(q[i]) /\ q[i].fa = t.nodes[i].fa /\ q[i].hosts # <<>>
    <2> DEFINE n == t.nodes[i]
               m == [n EXCEPT !.due = TRUE]
    <2>1. q[i] = m
      BY <1>3
    <2>2. IsNode(n) /\ n.hosts # <<>>
      BY <1>3
    <2> HIDE DEF n
    <2>3. DOMAIN m = NodeFields /\ m.fa = n.fa /\ m.hosts = n.hosts
      BY <2>2 DEF IsNode, NodeFields
    <2> HIDE DEF m
    <2>4. IsNode(m)
      BY <2>2, <2>3 DEF IsNode
    <2> QED BY <2>1, <2>2, <2>3, <2>4 DEF n
  <1>5. IsSequence(q) /\ Len(q) = Len(t.nodes)
    <2> DEFINE S == Range(q)
    <2>1. q = [i \in 1..Len(t.nodes) |-> q[i]]
      BY <1>3
    <2>2. DOMAIN q = 1..Len(t.nodes)
      BY <1>3
    <2> HIDE DEF q
    <2>3. \A i \in 1..Len(t.nodes) : q[i] \in S
      BY <2>2 DEF Range
    <2> HIDE DEF S
    <2>4. q \in Seq(S) /\ Len(q) = Len(t.nodes)
      BY <2>1, <2>3, <1>3
    <2> QED BY <2>4, SequenceOf
  <1> HIDE DEF q
  <1>6. Nodes(q) /\ Distinct(q) /\ Ascending(q)
    <2>1. Distinct(t.nodes) /\ Ascending(t.nodes)
      BY <1>1 DEF IsTable
    <2> QED BY <2>1, <1>4, <1>5 DEF Nodes, Distinct, Ascending
  <1>7. DOMAIN u = {"nodes", "sorted"} /\ u.nodes = q /\ (t.sorted => u.sorted)
    BY <1>1 DEF IsTable
  <1> HIDE DEF u
  <1>8. IsTable(u)
    BY <1>6, <1>7 DEF IsTable
  <1>9. \A n \in Range(u.nodes) : n.hosts # <<>>
    <2>1. \A n \in Range(u.nodes) : \E i \in 1..Len(u.nodes) : n = u.nodes[i]
      BY <1>8, TableFacts
    <2> QED BY <2>1, <1>4, <1>5, <1>7
  <1>10. Complete(u)
    BY <1>1, <1>7, <1>8, <1>9 DEF Complete
  <1>11. DOMAIN cfg' = ConfigFields /\ cfg'.table = u
    BY <1>1, <1>2 DEF ConfigFields
  <1> QED BY <1>2, <1>10, <1>11 DEF ConfigInv, Reads, InForce

LEMMA KeepsConfig ==
    ASSUME ConfigInv, UNCHANGED config
    PROVE  ConfigInv'
  BY DEF ConfigInv, Reads, InForce, config

LEMMA DiallingConfig == Dialling => UNCHANGED config
  BY DEF Dialling, perl_on_call, ResolveProxy, NextHost, run3, Resolve, NextAddress, Bind, Connect,
         HTTP, Socks, Method, Password, Socks5, Socks4, Hangup, Go, Failed

LEMMA ConfigStep ==
    ASSUME ConfigInv, [Next]_vars
    PROVE  ConfigInv'
  <1>1. CASE Reading
    BY <1>1, ReadingConfig
  <1>2. CASE TakeConfig
    BY <1>2, TakenConfig
  <1>3. CASE Dialling
    BY <1>3, DiallingConfig, KeepsConfig
  <1>4. CASE Exit
    BY <1>4, KeepsConfig DEF Exit
  <1>5. CASE Recheck
    BY <1>5, RecheckConfig
  <1>6. CASE \E a \in Links : StartCall(a)
    BY <1>6, StartTable
  <1>7. CASE UNCHANGED vars
    BY <1>7, KeepsConfig DEF vars, config
  <1> QED BY <1>1, <1>2, <1>3, <1>4, <1>5, <1>6, <1>7 DEF Next

LEMMA ConfigAlways == Spec => []ConfigInv
  BY InitConfig, ConfigStep, PTL DEF Spec

LEMMA CompleteNodes ==
    ASSUME NEW t, Complete(t)
    PROVE  \A i \in 1..Len(t.nodes) : t.nodes[i].fa \in Address /\ t.nodes[i].hosts # <<>>
  BY TableFacts DEF Complete, IsNode

(* A configuration is in force only if every line was taken and it is usable:
   numbers within the limits of their keywords, a port for every address
   listened on, every node with a complete address of its own and a list of
   hosts (readconfig, config_finalize and foreach_node). *)
THEOREM AcceptedIsWhole == Spec => []AcceptedWhole
  <1>1. ASSUME ConfigInv PROVE AcceptedWhole
    <2> SUFFICES ASSUME rd.st = "accepted"
                 PROVE  /\ ~rd.refused
                        /\ \A v \in DOMAIN work.vars \cap DOMAIN Limits : Within(v, work.vars[v])
                        /\ \A i \in DOMAIN work.lists["listen"] : work.lists["listen"][i].port # ""
                        /\ \A i \in DOMAIN work.table.nodes :
                             /\ is4D(work.table.nodes[i].fa) /\ work.table.nodes[i].fa.domain # ""
                             /\ work.table.nodes[i].hosts # <<>>
                             /\ \A j \in DOMAIN work.table.nodes :
                                  work.table.nodes[i].fa = work.table.nodes[j].fa => i = j
      BY DEF AcceptedWhole
    <2>1. IsAccepted(work) /\ ~rd.refused
      BY <1>1 DEF ConfigInv, Reads
    <2> DEFINE t == work.table
    <2>2. Complete(t) /\ IsTable(t)
      BY <2>1 DEF IsAccepted, Complete
    <2> HIDE DEF t
    <2>3. DOMAIN t.nodes = 1..Len(t.nodes) /\ Distinct(t.nodes)
      BY <2>2, TableFacts DEF IsTable
    <2>4. ASSUME NEW a \in Address PROVE is4D(a) /\ a.domain # ""
      <3>1. a.z \in Nat /\ a.net \in Nat /\ a.node \in Nat /\ a.p \in Nat
            /\ a.domain \in DOMAIN Rank
        BY AddressFacts
      <3>2. "" \notin DOMAIN Rank
        BY RankAssumption
      <3>3. is4D(a)
        BY <3>1 DEF is4D
      <3> QED BY <3>1, <3>2, <3>3
    <2>5. \A i \in DOMAIN t.nodes :
            /\ is4D(t.nodes[i].fa) /\ t.nodes[i].fa.domain # ""
            /\ t.nodes[i].hosts # <<>>
      BY <2>2, <2>3, <2>4, CompleteNodes
    <2>6. \A i, j \in DOMAIN t.nodes : t.nodes[i].fa = t.nodes[j].fa => i = j
      BY <2>3 DEF Distinct
    <2> QED BY <2>1, <2>5, <2>6 DEF IsAccepted, InLimits, t
  <1> QED BY <1>1, ConfigAlways, PTL

(* The binary search finds every node of the table in force at its own place,
   whatever the order it was filled in and however many lookups made entries
   of defnode since (search_for_node, add_node, get_node_info). *)
THEOREM NodesAreFound == Spec => []NodesFound
  <1>1. ASSUME ConfigInv PROVE NodesFound
    <2> SUFFICES ASSUME cfg.ready, NEW i \in DOMAIN cfg.table.nodes
                 PROVE  search_for_node(cfg.table, cfg.table.nodes[i].fa) = i
      BY DEF NodesFound
    <2>1. Complete(cfg.table)
      BY <1>1 DEF ConfigInv, InForce
    <2> DEFINE t == cfg.table
               fa == t.nodes[i].fa
    <2>2. IsTable(t) /\ Ascending(t.nodes) /\ i \in 1..Len(t.nodes) /\ fa \in Address
      BY <2>1, TableFacts, CompleteNodes DEF Complete, IsTable
    <2>3. t.nodes[i].fa = fa
      OBVIOUS
    <2> HIDE DEF t, fa
    <2>4. search_for_node(t, fa) = i
      BY <2>2, <2>3, SearchFinds
    <2> QED BY <2>4 DEF t, fa
  <1> QED BY <1>1, ConfigAlways, PTL

-----------------------------------------------------------------------------
-----------------------------------------------------------------------------
(* Names. *)

(* An address of the family asked for. *)
Fits(a, f) == f \in {"old", "unspec", a.family}
AllFit(s, f) == IsSequence(s) /\ \A a \in Range(s) : Fits(a, f)

LEMMA FitFacts ==
    ASSUME NEW s, NEW f
    PROVE  AllFit(s, f) <=> IsSequence(s) /\ \A i \in 1..Len(s) : Fits(s[i], f)
  <1>1. ASSUME IsSequence(s) PROVE (\A a \in Range(s) : Fits(a, f)) <=> \A i \in 1..Len(s) :
               Fits(s[i], f)
    <2>1. DOMAIN s = 1..Len(s)
      BY <1>1, SequenceFacts
    <2> QED BY <2>1 DEF Range
  <1> QED BY <1>1 DEF AllFit

LEMMA EmptyFits == ASSUME NEW f PROVE AllFit(<<>>, f)
  BY EmptySequence, FitFacts

LEMMA AppendFits ==
    ASSUME NEW s, NEW f, AllFit(s, f), NEW a, Fits(a, f)
    PROVE  AllFit(Append(s, a), f)
  <1> DEFINE r == Append(s, a)
  <1>1. IsSequence(s) /\ \A i \in 1..Len(s) : Fits(s[i], f)
    BY FitFacts
  <1>2. Len(s) \in Nat
    BY <1>1, SequenceFacts
  <1>3. /\ IsSequence(r) /\ Len(r) = Len(s) + 1 /\ r[Len(s) + 1] = a
        /\ \A i \in 1..Len(s) : r[i] = s[i]
    BY <1>1, AppendSequence
  <1> HIDE DEF r
  <1>4. \A i \in 1..Len(r) : i \in 1..Len(s) \/ i = Len(s) + 1
    BY <1>2, <1>3
  <1>5. AllFit(r, f)
    BY <1>1, <1>3, <1>4, FitFacts
  <1> QED BY <1>5 DEF r

LEMMA ConcatFits ==
    ASSUME NEW f, NEW s, AllFit(s, f), NEW t, AllFit(t, f)
    PROVE  AllFit(s \o t, f)
  <1> DEFINE r == s \o t
  <1>1. /\ IsSequence(s) /\ \A i \in 1..Len(s) : Fits(s[i], f)
        /\ IsSequence(t) /\ \A i \in 1..Len(t) : Fits(t[i], f)
    BY FitFacts
  <1>2. Len(s) \in Nat /\ Len(t) \in Nat
    BY <1>1, SequenceFacts
  <1>3. /\ IsSequence(r) /\ Len(r) = Len(s) + Len(t)
        /\ \A i \in 1..(Len(s) + Len(t)) : r[i] = IF i <= Len(s) THEN s[i] ELSE t[i - Len(s)]
    BY <1>1, ConcatSequence
  <1> HIDE DEF r
  <1>4. ASSUME NEW i \in 1..Len(r) PROVE Fits(r[i], f)
    <2>1. CASE i <= Len(s)
      <3>1. i \in 1..Len(s) /\ r[i] = s[i]
        BY <2>1, <1>2, <1>3, <1>4
      <3> QED BY <3>1, <1>1
    <2>2. CASE ~(i <= Len(s))
      <3>1. i - Len(s) \in 1..Len(t) /\ r[i] = t[i - Len(s)]
        BY <2>2, <1>2, <1>3, <1>4
      <3> QED BY <3>1, <1>1
    <2> QED BY <2>1, <2>2
  <1>5. AllFit(r, f)
    BY <1>3, <1>4, FitFacts
  <1> QED BY <1>5 DEF r

Known(name) == IF name \in DOMAIN DNS THEN DNS[name] ELSE <<>>

LEMMA KnownSequence == ASSUME NEW name PROVE IsSequence(Known(name))
  BY NamesAssumption, EmptySequence DEF Known

LEMMA InfoSteps ==
    ASSUME NEW name, NEW fam
    PROVE  \E g : /\ getaddrinfo(name, fam) = g[Len(Known(name))]
                  /\ g[0] = <<>>
                  /\ \A i \in 1..Len(Known(name)) : g[i] =
                       IF fam \in {"old", "unspec", Known(name)[i].family}
                         THEN Append(g[i - 1], Known(name)[i]) ELSE g[i - 1]
  <1> DEFINE Body(f) == [i \in 0..Len(Known(name)) |-> IF i = 0 THEN <<>>
                        ELSE IF fam \in {"old", "unspec", Known(name)[i].family}
                          THEN Append(f[i - 1], Known(name)[i]) ELSE f[i - 1]]
             after == CHOOSE f : f = Body(f)
  <1>1. \E f : f = Body(f)
    <2> DEFINE Step(x, i) == IF fam \in {"old", "unspec", Known(name)[i].family}
                             THEN Append(x, Known(name)[i]) ELSE x
               Table(g, k) == g = [i \in 0..k |-> IF i = 0 THEN <<>> ELSE Step(g[i - 1], i)]
               Good == {k \in 0..Len(Known(name)) : \E g : Table(g, k)}
    <2>1. Len(Known(name)) \in Nat
      BY KnownSequence, SequenceFacts
    <2> HIDE DEF Step
    <2>2. 0 \in Good
      <3> DEFINE g == [i \in 0..0 |-> <<>>]
      <3>1. Table(g, 0)
        OBVIOUS
      <3>2. 0 \in 0..Len(Known(name))
        BY <2>1
      <3> HIDE DEF g, Table
      <3> QED BY <3>1, <3>2
    <2>3. ASSUME NEW k \in 0..Len(Known(name)), k < Len(Known(name)), k \in Good
          PROVE k + 1 \in Good
      <3>1. PICK g : Table(g, k)
        BY <2>3
      <3> DEFINE h == [i \in 0..(k + 1) |-> IF i = k + 1 THEN Step(g[k], k + 1) ELSE g[i]]
      <3>2. ASSUME NEW i \in 0..(k + 1)
            PROVE  h[i] = IF i = 0 THEN <<>> ELSE Step(h[i - 1], i)
        <4>1. CASE i = k + 1
          BY <4>1, <2>3
        <4>2. CASE i \in 0..k
          <5>1. h[i] = g[i] /\ g[i] = IF i = 0 THEN <<>> ELSE Step(g[i - 1], i)
            BY <4>2, <3>1, <2>3
          <5>2. i # 0 => h[i - 1] = g[i - 1]
            BY <4>2, <2>3
          <5> HIDE DEF h
          <5> QED BY <5>1, <5>2
        <4> QED BY <4>1, <4>2, <2>3
      <3>3. h = [i \in 0..(k + 1) |-> h[i]]
        OBVIOUS
      <3> HIDE DEF h
      <3>4. Table(h, k + 1)
        BY <3>2, <3>3
      <3>5. k + 1 \in 0..Len(Known(name))
        BY <2>3, <2>1
      <3> HIDE DEF Table
      <3> QED BY <3>4, <3>5
    <2>4. Len(Known(name)) \in Good
      <3> HIDE DEF Good
      <3> QED BY <2>1, <2>2, <2>3, UpTo
    <2>5. \E g : Table(g, Len(Known(name)))
      BY <2>4
    <2> QED BY <2>5 DEF Step
  <1>2. after = Body(after)
    <2> HIDE DEF Body
    <2> QED BY <1>1
  <1>3. getaddrinfo(name, fam) = after[Len(Known(name))]
    BY DEF getaddrinfo, Known
  <1> HIDE DEF after
  <1>4. Len(Known(name)) \in Nat
    BY KnownSequence, SequenceFacts
  <1>5. ASSUME NEW i \in 0..Len(Known(name))
        PROVE  after[i] = IF i = 0 THEN <<>> ELSE IF fam \in {"old", "unspec", Known(name)[i].family}
                 THEN Append(after[i - 1], Known(name)[i]) ELSE after[i - 1]
    <2>1. Body(after)[i] = IF i = 0 THEN <<>>
          ELSE IF fam \in {"old", "unspec", Known(name)[i].family}
            THEN Append(after[i - 1], Known(name)[i]) ELSE after[i - 1]
      OBVIOUS
    <2> HIDE DEF Body
    <2> QED BY <2>1, <1>2
  <1>6. after[0] = <<>> /\ \A i \in 1..Len(Known(name)) : after[i] =
        IF fam \in {"old", "unspec", Known(name)[i].family} THEN Append(after[i - 1], Known(name)[i])
          ELSE after[i - 1]
    <2> HIDE DEF Body
    <2> QED BY <1>4, <1>5
  <1> QED BY <1>3, <1>6


LEMMA InfoFits ==
    ASSUME NEW name, NEW f
    PROVE  AllFit(getaddrinfo(name, f), f)
  <1> DEFINE s == Known(name)
  <1>1. PICK g : /\ getaddrinfo(name, f) = g[Len(s)]
                 /\ g[0] = <<>>
                 /\ \A i \in 1..Len(s) :
                      g[i] = IF f \in {"old", "unspec", s[i].family} THEN Append(g[i - 1], s[i])
                        ELSE g[i - 1]
    BY InfoSteps
  <1>2. Len(s) \in Nat
    BY KnownSequence, SequenceFacts
  <1> HIDE DEF s
  <1> DEFINE Good == {k \in 0..Len(s) : AllFit(g[k], f)}
  <1>3. 0 \in Good
    BY <1>1, <1>2, EmptyFits
  <1>4. ASSUME NEW k \in 0..Len(s), k < Len(s), k \in Good PROVE k + 1 \in Good
    <2>1. k + 1 \in 1..Len(s) /\ k + 1 - 1 = k /\ k + 1 \in 0..Len(s)
      BY <1>2, <1>4
    <2> DEFINE a == s[k + 1]
    <2>2. g[k + 1] = IF f \in {"old", "unspec", a.family} THEN Append(g[k], a) ELSE g[k]
      BY <2>1, <1>1
    <2> HIDE DEF a
    <2>3. AllFit(g[k], f)
      BY <1>4
    <2>4. CASE f \in {"old", "unspec", a.family}
      <3>1. AllFit(Append(g[k], a), f)
        BY <2>3, <2>4, AppendFits DEF Fits
      <3> QED BY <3>1, <2>1, <2>2, <2>4
    <2>5. CASE ~(f \in {"old", "unspec", a.family})
      BY <2>1, <2>2, <2>3, <2>5
    <2> QED BY <2>4, <2>5
  <1>5. Len(s) \in Good
    <2> HIDE DEF Good
    <2> QED BY <1>2, <1>3, <1>4, UpTo
  <1> QED BY <1>1, <1>5

Targets(host, port) ==
  LET name == IF host.name = "*" THEN host.suffix ELSE host.name
  IN  IF host.name \in Literals \/ port \notin NamedServices \/ name \notin DOMAIN SRV
      THEN <<>> ELSE SRV[name]

WithTarget(list, target, f) == list \o getaddrinfo(target, f)

(* The addresses of the targets of an SRV record, in their order. *)
OfTargets(host, port, f) ==
  LET list[n \in 0..Len(Targets(host, port))] ==
        IF n = 0 THEN <<>> ELSE list[n - 1] \o getaddrinfo(Targets(host, port)[n], f)
  IN  list[Len(Targets(host, port))]

LEMMA TargetsSequence == ASSUME NEW host, NEW port PROVE IsSequence(Targets(host, port))
  BY NamesAssumption, EmptySequence DEF Targets

LEMMA TargetSteps ==
    ASSUME NEW host, NEW port, NEW fam
    PROVE  \E g : /\ OfTargets(host, port, fam) = g[Len(Targets(host, port))]
                  /\ g[0] = <<>>
                  /\ \A i \in 1..Len(Targets(host, port)) :
                       g[i] = WithTarget(g[i - 1], Targets(host, port)[i], fam)
  <1> DEFINE Body(f) == [i \in 0..Len(Targets(host, port)) |-> IF i = 0 THEN <<>>
                        ELSE WithTarget(f[i - 1], Targets(host, port)[i], fam)]
             after == CHOOSE f : f = Body(f)
  <1>1. \E f : f = Body(f)
    <2> DEFINE Step(x, i) == WithTarget(x, Targets(host, port)[i], fam)
               Table(g, k) == g = [i \in 0..k |-> IF i = 0 THEN <<>> ELSE Step(g[i - 1], i)]
               Good == {k \in 0..Len(Targets(host, port)) : \E g : Table(g, k)}
    <2>1. Len(Targets(host, port)) \in Nat
      BY TargetsSequence, SequenceFacts
    <2> HIDE DEF Step
    <2>2. 0 \in Good
      <3> DEFINE g == [i \in 0..0 |-> <<>>]
      <3>1. Table(g, 0)
        OBVIOUS
      <3>2. 0 \in 0..Len(Targets(host, port))
        BY <2>1
      <3> HIDE DEF g, Table
      <3> QED BY <3>1, <3>2
    <2>3. ASSUME NEW k \in 0..Len(Targets(host, port)), k < Len(Targets(host, port)), k \in Good
          PROVE k + 1 \in Good
      <3>1. PICK g : Table(g, k)
        BY <2>3
      <3> DEFINE h == [i \in 0..(k + 1) |-> IF i = k + 1 THEN Step(g[k], k + 1) ELSE g[i]]
      <3>2. ASSUME NEW i \in 0..(k + 1)
            PROVE  h[i] = IF i = 0 THEN <<>> ELSE Step(h[i - 1], i)
        <4>1. CASE i = k + 1
          BY <4>1, <2>3
        <4>2. CASE i \in 0..k
          <5>1. h[i] = g[i] /\ g[i] = IF i = 0 THEN <<>> ELSE Step(g[i - 1], i)
            BY <4>2, <3>1, <2>3
          <5>2. i # 0 => h[i - 1] = g[i - 1]
            BY <4>2, <2>3
          <5> HIDE DEF h
          <5> QED BY <5>1, <5>2
        <4> QED BY <4>1, <4>2, <2>3
      <3>3. h = [i \in 0..(k + 1) |-> h[i]]
        OBVIOUS
      <3> HIDE DEF h
      <3>4. Table(h, k + 1)
        BY <3>2, <3>3
      <3>5. k + 1 \in 0..Len(Targets(host, port))
        BY <2>3, <2>1
      <3> HIDE DEF Table
      <3> QED BY <3>4, <3>5
    <2>4. Len(Targets(host, port)) \in Good
      <3> HIDE DEF Good
      <3> QED BY <2>1, <2>2, <2>3, UpTo
    <2>5. \E g : Table(g, Len(Targets(host, port)))
      BY <2>4
    <2> QED BY <2>5 DEF Step
  <1>2. after = Body(after)
    <2> HIDE DEF Body
    <2> QED BY <1>1
  <1>3. OfTargets(host, port, fam) = after[Len(Targets(host, port))]
    BY DEF OfTargets, WithTarget
  <1> HIDE DEF after
  <1>4. Len(Targets(host, port)) \in Nat
    BY TargetsSequence, SequenceFacts
  <1>5. ASSUME NEW i \in 0..Len(Targets(host, port))
        PROVE  after[i] = IF i = 0 THEN <<>> ELSE WithTarget(after[i - 1], Targets(host, port)[i], fam)
    <2>1. Body(after)[i] = IF i = 0 THEN <<>> ELSE WithTarget(after[i - 1], Targets(host, port)[i], fam)
      OBVIOUS
    <2> HIDE DEF Body
    <2> QED BY <2>1, <1>2
  <1>6. after[0] = <<>> /\ \A i \in 1..Len(Targets(host, port)) :
        after[i] = WithTarget(after[i - 1], Targets(host, port)[i], fam)
    <2> HIDE DEF Body
    <2> QED BY <1>4, <1>5
  <1> QED BY <1>3, <1>6


LEMMA TargetsFit ==
    ASSUME NEW host, NEW port, NEW f
    PROVE  AllFit(OfTargets(host, port, f), f)
  <1> DEFINE s == Targets(host, port)
  <1>1. PICK g : /\ OfTargets(host, port, f) = g[Len(s)]
                 /\ g[0] = <<>>
                 /\ \A i \in 1..Len(s) : g[i] = WithTarget(g[i - 1], s[i], f)
    BY TargetSteps
  <1>2. Len(s) \in Nat
    BY TargetsSequence, SequenceFacts
  <1> HIDE DEF s
  <1> DEFINE Good == {k \in 0..Len(s) : AllFit(g[k], f)}
  <1>3. 0 \in Good
    BY <1>1, <1>2, EmptyFits
  <1>4. ASSUME NEW k \in 0..Len(s), k < Len(s), k \in Good PROVE k + 1 \in Good
    <2>1. k + 1 \in 1..Len(s) /\ k + 1 - 1 = k /\ k + 1 \in 0..Len(s)
      BY <1>2, <1>4
    <2>2. g[k + 1] = WithTarget(g[k], s[k + 1], f)
      BY <2>1, <1>1
    <2>3. AllFit(g[k], f) /\ AllFit(getaddrinfo(s[k + 1], f), f)
      BY <1>4, InfoFits
    <2>4. AllFit(WithTarget(g[k], s[k + 1], f), f)
      BY <2>3, ConcatFits DEF WithTarget
    <2> QED BY <2>1, <2>2, <2>4
  <1>5. Len(s) \in Good
    <2> HIDE DEF Good
    <2> QED BY <1>2, <1>3, <1>4, UpTo
  <1> QED BY <1>1, <1>5

LEMMA ResolvedFits ==
    ASSUME NEW host, NEW port, NEW f
    PROVE  AllFit(srv_getaddrinfo(host, port, f), f)
  <1> DEFINE name == IF host.name = "*" THEN host.suffix ELSE host.name
  <1>1. srv_getaddrinfo(host, port, f) =
          IF OfTargets(host, port, f) # <<>> THEN OfTargets(host, port, f) ELSE getaddrinfo(name, f)
    BY DEF srv_getaddrinfo, OfTargets, Targets
  <1> HIDE DEF name
  <1>2. AllFit(OfTargets(host, port, f), f) /\ AllFit(getaddrinfo(name, f), f)
    BY TargetsFit, InfoFits
  <1> QED BY <1>1, <1>2

LEMMA MovedWithin ==
    ASSUME NEW s, IsSequence(s), NEW AFF
    PROVE  Moved(s, AFF) \in 0..Len(s)
  <1> DEFINE want == IF AFF = 6 THEN "v6" ELSE "v4"
             at == {i \in 2..Len(s) : s[i].family = want /\ s[i - 1].family # want}
             k == CHOOSE i \in at : \A j \in at : i <= j
  <1>1. Len(s) \in Nat
    BY SequenceFacts
  <1>2. Moved(s, AFF) = IF AFF = 0 \/ s = <<>> THEN 0
                        ELSE IF s[1].family = want \/ at = {} THEN 0 ELSE k
    BY DEF Moved
  <1>3. at # {} => k \in at
    <2>1. at \in SUBSET Nat
      <3>1. \A i \in 2..Len(s) : i \in Nat
        BY <1>1
      <3>2. \A i \in at : i \in 2..Len(s)
        OBVIOUS
      <3> HIDE DEF at
      <3> QED BY <3>1, <3>2
    <2> HIDE DEF at
    <2>2. at # {} => \E i \in at : \A j \in at : i <= j
      BY <2>1, LeastNumber
    <2> QED BY <2>2
  <1>4. \A i \in at : i \in 0..Len(s)
    <2>1. \A i \in at : i \in 2..Len(s)
      OBVIOUS
    <2> HIDE DEF at
    <2> QED BY <2>1, <1>1
  <1> HIDE DEF k, at
  <1> QED BY <1>1, <1>2, <1>3, <1>4

(* One of s taken out. *)
LEMMA Removed ==
    ASSUME NEW s, IsSequence(s), NEW k \in 1..Len(s)
    PROVE  /\ IsSequence(RemoveAt(s, k))
           /\ \A i \in 1..Len(RemoveAt(s, k)) : \E j \in 1..Len(s) : RemoveAt(s, k)[i] = s[j]
           /\ \A j \in 1..Len(s) : j # k => \E i \in 1..Len(RemoveAt(s, k)) :
                RemoveAt(s, k)[i] = s[j]
  <1> DEFINE a == SubSeq(s, 1, k - 1)
             b == SubSeq(s, k + 1, Len(s))
             r == a \o b
  <1>1. Len(s) \in Nat
    BY SequenceFacts
  <1>2. k - 1 \in 0..Len(s) /\ k + 1 \in 1..(Len(s) + 1) /\ 1 \in 1..(Len(s) + 1)
        /\ Len(s) \in 0..Len(s)
    BY <1>1
  <1>3. /\ IsSequence(a) /\ Len(a) = k - 1
        /\ \A i \in 1..Len(a) : a[i] = s[1 + i - 1]
    <2>1. /\ IsSequence(a) /\ Len(a) = IF 1 <= k - 1 THEN k - 1 - 1 + 1 ELSE 0
          /\ \A i \in 1..Len(a) : a[i] = s[1 + i - 1]
      BY <1>2, PartSequence
    <2> HIDE DEF a
    <2> QED BY <2>1, <1>1
  <1>4. /\ IsSequence(b) /\ Len(b) = Len(s) - k
        /\ \A i \in 1..Len(b) : b[i] = s[k + 1 + i - 1]
    <2>1. /\ IsSequence(b) /\ Len(b) = IF k + 1 <= Len(s) THEN Len(s) - (k + 1) + 1 ELSE 0
          /\ \A i \in 1..Len(b) : b[i] = s[k + 1 + i - 1]
      BY <1>2, PartSequence
    <2> HIDE DEF b
    <2> QED BY <2>1, <1>1
  <1>5. RemoveAt(s, k) = r
    BY DEF RemoveAt
  <1> HIDE DEF a, b
  <1>6. /\ IsSequence(r) /\ Len(r) = Len(a) + Len(b)
        /\ \A i \in 1..(Len(a) + Len(b)) : r[i] = IF i <= Len(a) THEN a[i] ELSE b[i - Len(a)]
    BY <1>3, <1>4, ConcatSequence
  <1> HIDE DEF r
  <1>7. Len(r) = Len(s) - 1
    BY <1>1, <1>3, <1>4, <1>6
  <1>8. ASSUME NEW i \in 1..Len(r)
        PROVE  r[i] = IF i <= k - 1 THEN s[i] ELSE s[i + 1]
    <2>1. CASE i <= k - 1
      <3>1. i \in 1..Len(a) /\ r[i] = a[i] /\ 1 + i - 1 = i
        BY <2>1, <1>1, <1>3, <1>6, <1>7, <1>8, <1>4
      <3> QED BY <3>1, <2>1, <1>3
    <2>2. CASE ~(i <= k - 1)
      <3>1. i - Len(a) \in 1..Len(b) /\ r[i] = b[i - Len(a)]
        BY <2>2, <1>1, <1>3, <1>4, <1>6, <1>7, <1>8
      <3>2. k + 1 + (i - Len(a)) - 1 = i + 1
        BY <1>1, <1>3, <1>7, <1>8
      <3> QED BY <3>1, <3>2, <2>2, <1>4
    <2> QED BY <2>1, <2>2
  <1>9. ASSUME NEW i \in 1..Len(r) PROVE \E j \in 1..Len(s) : r[i] = s[j]
    <2>1. i \in 1..Len(s) /\ i + 1 \in 1..Len(s)
      BY <1>1, <1>7, <1>9
    <2> QED BY <2>1, <1>8
  <1>10. ASSUME NEW j \in 1..Len(s), j # k PROVE \E i \in 1..Len(r) : r[i] = s[j]
    <2>1. CASE j < k
      <3>1. j \in 1..Len(r) /\ j <= k - 1
        BY <2>1, <1>1, <1>7
      <3> QED BY <3>1, <1>8
    <2>2. CASE ~(j < k)
      <3>1. j - 1 \in 1..Len(r) /\ ~(j - 1 <= k - 1) /\ j - 1 + 1 = j
        BY <2>2, <1>10, <1>1, <1>7
      <3>2. r[j - 1] = s[j]
        BY <3>1, <1>8
      <3> QED BY <3>1, <3>2
    <2> QED BY <2>1, <2>2
  <1> QED BY <1>5, <1>6, <1>9, <1>10

-----------------------------------------------------------------------------
(* Addresses: reordered, and taken one by one. *)

LEMMA RemovedFits ==
    ASSUME NEW s, NEW f, AllFit(s, f), NEW k \in 1..Len(s)
    PROVE  AllFit(RemoveAt(s, k), f)
  <1>1. IsSequence(s) /\ \A i \in 1..Len(s) : Fits(s[i], f)
    BY FitFacts
  <1>2. /\ IsSequence(RemoveAt(s, k))
        /\ \A i \in 1..Len(RemoveAt(s, k)) : \E j \in 1..Len(s) : RemoveAt(s, k)[i] = s[j]
    BY <1>1, Removed
  <1> QED BY <1>1, <1>2, FitFacts

LEMMA InFront ==
    ASSUME NEW s, IsSequence(s), NEW x
    PROVE  IsSequence(<<x>> \o s) /\ Range(<<x>> \o s) = {x} \cup Range(s)
  <1> DEFINE r == <<x>> \o s
             h == <<x>>
  <1>1. IsSequence(h) /\ Len(h) = 1 /\ h[1] = x
    <2>1. h \in Seq({x}) /\ Len(h) = 1 /\ h[1] = x
      OBVIOUS
    <2> HIDE DEF h
    <2> QED BY <2>1, SequenceOf
  <1>2. Len(s) \in Nat /\ DOMAIN s = 1..Len(s)
    BY SequenceFacts
  <1>3. r = h \o s
    OBVIOUS
  <1> HIDE DEF h, r
  <1>4. /\ IsSequence(r) /\ Len(r) = 1 + Len(s)
        /\ \A i \in 1..(1 + Len(s)) : r[i] = IF i <= 1 THEN h[i] ELSE s[i - 1]
    <2>1. /\ IsSequence(h \o s) /\ Len(h \o s) = Len(h) + Len(s)
          /\ \A i \in 1..(Len(h) + Len(s)) :
               (h \o s)[i] = IF i <= Len(h) THEN h[i] ELSE s[i - Len(h)]
      BY <1>1, ConcatSequence
    <2> DEFINE n == Len(h)
               q == h \o s
    <2>2. /\ IsSequence(q) /\ Len(q) = n + Len(s) /\ n = 1
          /\ \A i \in 1..(n + Len(s)) : q[i] = IF i <= n THEN h[i] ELSE s[i - n]
      BY <2>1, <1>1
    <2> HIDE DEF n, q
    <2>3. /\ IsSequence(q) /\ Len(q) = 1 + Len(s)
          /\ \A i \in 1..(1 + Len(s)) : q[i] = IF i <= 1 THEN h[i] ELSE s[i - 1]
      BY <2>2
    <2>4. q = r
      BY <1>3 DEF q
    <2> QED BY <2>3, <2>4
  <1>5. DOMAIN r = 1..Len(r)
    BY <1>4, SequenceFacts
  <1>6. ASSUME NEW y \in Range(r) PROVE y \in {x} \cup Range(s)
    <2>1. PICK i \in 1..(1 + Len(s)) : y = r[i]
      BY <1>4, <1>5, <1>6 DEF Range
    <2>2. CASE i = 1
      BY <2>1, <2>2, <1>1, <1>4
    <2>3. CASE i # 1
      <3>1. i - 1 \in 1..Len(s) /\ r[i] = s[i - 1]
        BY <2>1, <2>3, <1>2, <1>4
      <3> QED BY <3>1, <2>1, <1>2 DEF Range
    <2> QED BY <2>2, <2>3
  <1>7. ASSUME NEW y \in {x} \cup Range(s) PROVE y \in Range(r)
    <2>1. CASE y = x
      <3>1. 1 \in 1..(1 + Len(s)) /\ r[1] = x
        BY <1>1, <1>2, <1>4
      <3> QED BY <3>1, <2>1, <1>4, <1>5 DEF Range
    <2>2. CASE y \in Range(s)
      <3>1. PICK i \in 1..Len(s) : y = s[i]
        BY <2>2, <1>2 DEF Range
      <3>2. i + 1 \in 1..(1 + Len(s)) /\ ~(i + 1 <= 1) /\ i + 1 - 1 = i
        BY <1>2
      <3>3. r[i + 1] = y
        BY <3>1, <3>2, <1>4
      <3> QED BY <3>2, <3>3, <1>4, <1>5 DEF Range
    <2> QED BY <1>7, <2>1, <2>2
  <1>8. Range(r) = {x} \cup Range(s)
    BY <1>6, <1>7
  <1> QED BY <1>4, <1>8 DEF r

(* Reordering loses no address and brings none in. *)
LEMMA ReorderedSame ==
    ASSUME NEW s, IsSequence(s), NEW k \in 0..Len(s)
    PROVE  IsSequence(Reordered(s, k)) /\ Range(Reordered(s, k)) = Range(s)
  <1>1. CASE k = 0
    BY <1>1 DEF Reordered
  <1>2. CASE k # 0
    <2> DEFINE q == RemoveAt(s, k)
    <2>1. Len(s) \in Nat /\ DOMAIN s = 1..Len(s) /\ k \in 1..Len(s)
      BY <1>2, SequenceFacts
    <2>2. /\ IsSequence(q)
          /\ \A i \in 1..Len(q) : \E j \in 1..Len(s) : q[i] = s[j]
          /\ \A j \in 1..Len(s) : j # k => \E i \in 1..Len(q) : q[i] = s[j]
      BY <2>1, Removed
    <2>3. Reordered(s, k) = <<s[k]>> \o q
      BY <1>2 DEF Reordered
    <2> HIDE DEF q
    <2>4. IsSequence(<<s[k]>> \o q) /\ Range(<<s[k]>> \o q) = {s[k]} \cup Range(q)
      BY <2>2, InFront
    <2>5. DOMAIN q = 1..Len(q)
      BY <2>2, SequenceFacts
    <2>6. ASSUME NEW y \in {s[k]} \cup Range(q) PROVE y \in Range(s)
      <3>1. CASE y = s[k]
        BY <3>1, <2>1 DEF Range
      <3>2. CASE y \in Range(q)
        <4>1. PICK i \in 1..Len(q) : y = q[i]
          BY <3>2, <2>5 DEF Range
        <4>2. PICK j \in 1..Len(s) : q[i] = s[j]
          BY <2>2
        <4> QED BY <4>1, <4>2, <2>1 DEF Range
      <3> QED BY <2>6, <3>1, <3>2
    <2>7. ASSUME NEW y \in Range(s) PROVE y \in {s[k]} \cup Range(q)
      <3>1. PICK j \in 1..Len(s) : y = s[j]
        BY <2>1, <2>7 DEF Range
      <3>2. j # k => \E i \in 1..Len(q) : q[i] = y
        BY <3>1, <2>2
      <3> QED BY <3>1, <3>2, <2>5 DEF Range
    <2>8. {s[k]} \cup Range(q) = Range(s)
      BY <2>6, <2>7
    <2> QED BY <2>3, <2>4, <2>8
  <1> QED BY <1>1, <1>2

LEMMA SameFits ==
    ASSUME NEW s, NEW r, NEW f, AllFit(s, f), IsSequence(r), Range(r) = Range(s)
    PROVE  AllFit(r, f) /\ Valid(r) = Valid(s)
  <1>1. AllFit(r, f)
    BY DEF AllFit
  <1>2. Valid(r) = Valid(s)
    BY DEF Valid
  <1> QED BY <1>1, <1>2

(* The first address, and the others. *)
LEMMA FirstAddress ==
    ASSUME NEW s, NEW f, AllFit(s, f), s # <<>>
    PROVE  /\ AllFit(Tail(s), f) /\ Fits(Head(s), f)
           /\ Valid(s) \subseteq Valid(Tail(s)) \cup {Head(s).ip}
           /\ InvalidAddress(Head(s)) => Valid(s) \subseteq Valid(Tail(s))
  <1> DEFINE t == Tail(s)
             h == Head(s)
  <1>1. IsSequence(s) /\ \A i \in 1..Len(s) : Fits(s[i], f)
    BY FitFacts
  <1>2. Len(s) \in Nat /\ DOMAIN s = 1..Len(s) /\ 1 \in 1..Len(s)
    BY <1>1, SequenceFacts, NonEmpty DEF IsSequence
  <1>3. /\ t \in Seq(Range(s)) /\ Len(t) = Len(s) - 1 /\ h = s[1]
        /\ \A i \in 1..(Len(s) - 1) : t[i] = s[i + 1]
    BY <1>1 DEF IsSequence
  <1> HIDE DEF t, h
  <1>4. IsSequence(t)
    BY <1>3, SequenceOf
  <1>5. \A i \in 1..Len(t) : i + 1 \in 1..Len(s) /\ t[i] = s[i + 1]
    BY <1>2, <1>3
  <1>6. AllFit(t, f) /\ Fits(h, f)
    BY <1>1, <1>2, <1>3, <1>4, <1>5, FitFacts
  <1>7. DOMAIN t = 1..Len(t)
    BY <1>4, SequenceFacts
  <1>8. ASSUME NEW y \in Range(s) PROVE y = h \/ y \in Range(t)
    <2>1. PICK i \in 1..Len(s) : y = s[i]
      BY <1>2, <1>8 DEF Range
    <2>2. CASE i = 1
      BY <2>1, <2>2, <1>3
    <2>3. CASE i # 1
      <3>1. i - 1 \in 1..Len(t) /\ i - 1 + 1 = i
        BY <2>3, <1>2, <1>3
      <3>2. t[i - 1] = y
        BY <3>1, <2>1, <1>5
      <3> QED BY <3>1, <3>2, <1>7 DEF Range
    <2> QED BY <2>2, <2>3
  <1>9. Valid(s) \subseteq Valid(t) \cup {h.ip}
    BY <1>8 DEF Valid
  <1>10. InvalidAddress(h) => Valid(s) \subseteq Valid(t)
    BY <1>8 DEF Valid
  <1> QED BY <1>6, <1>9, <1>10 DEF t, h

LEMMA WordCounts ==
    ASSUME NEW s, IsSequence(s)
    PROVE  WordCount(s) \in Nat
  <1>1. Len(s) \in Nat /\ (s # <<>> => Len(s) # 0)
    BY SequenceFacts, NonEmpty DEF IsSequence
  <1>2. CASE s = <<>>
    <2>1. WordCount(s) = Len(s)
      BY <1>2 DEF WordCount
    <2> QED BY <1>1, <2>1
  <1>3. CASE s # <<>>
    <2>1. Len(s) - 1 \in Nat
      BY <1>1, <1>3
    <2>2. WordCount(s) = Len(s) - 1 \/ WordCount(s) = Len(s)
      BY DEF WordCount
    <2> QED BY <1>1, <2>1, <2>2
  <1> QED BY <1>2, <1>3

-----------------------------------------------------------------------------
(* The call: its invariant, start and hook. *)

CallFields == {"pc", "node", "hosts", "proxy", "socks", "i", "host", "port", "plist", "ai", "sock",
               "via", "family", "reach", "ntlm", "proxies", "due", "tried", "odd", "ret"}

Early      == {"hook", "proxy", "hosts", "pipe", "resolve"}
Addressing == {"address", "bind", "connect"}
InProxy    == {"http", "socks", "method", "password", "socks5", "socks4"}

Family(c)  == c.node.flags["family"]
NoPipe(c)  == c.node.pipe \in {Null, ""}
FamilyOk(c) == Family(c) \in {"old", "unspec", c.family}

(* What SessionReaches says of the call c. *)
Reached(c) ==
  /\ c.reach = "node"
  /\ c.via = "direct" => c.node.flags["NP"] = "on" \/ (c.proxy = "" /\ c.socks = "")
  /\ c.via \in {"proxy", "socks"} => c.node.flags["NP"] # "on"
  /\ c.via # "pipe" => FamilyOk(c)

(* The hosts: how far the call is in the list. *)
Hosts(c) ==
  /\ IsSequence(c.hosts) /\ c.i \in 0..WordCount(c.hosts)
  /\ c.pc \in {"hook", "proxy"} => c.i = 0
  /\ c.pc # "idle" => c.ret = ""
  /\ c.ret = "failed" => c.i = WordCount(c.hosts)

(* The addresses: those still to be tried, and those that the reordering has
   taken out of the list of the proxy's.  The last of these is in front of
   the addresses of the present host until it is tried. *)
Foremost(s) == IF s = <<>> THEN {} ELSE IF InvalidAddress(Head(s)) THEN {} ELSE {Head(s).ip}

TakenOut(c) == IF use_proxy(c) /\ c.node.AFF # 0 /\ c.pc = "address" THEN Foremost(c.ai) ELSE {}

Addresses(c) ==
  /\ AllFit(c.plist, Family(c))
  /\ c.pc \in {"hook", "proxy"} => c.due = {} /\ c.proxies = {}
  /\ c.pc \in Early => c.due \subseteq MayMiss(c)
  /\ c.pc \in Addressing => AllFit(c.ai, Family(c)) /\ c.due \subseteq Valid(c.ai) \cup MayMiss(c)
  /\ c.pc # "idle" => c.proxies \subseteq Valid(c.plist) \cup MayMiss(c) \cup TakenOut(c)

(* The connection: who it goes to, and whether it may. *)
Connection(c) ==
  /\ c.pc \in Early \cup {"address"} => c.sock = FALSE
  /\ c.pc \in {"bind", "connect"} => c.sock = TRUE /\ FamilyOk(c)
  /\ c.pc \in {"resolve"} \cup Addressing => NoPipe(c)
  /\ c.pc \in InProxy => use_proxy(c)
  /\ c.pc = "http" => c.proxy # ""
  /\ c.pc \in InProxy /\ c.odd = "" => c.via \in {"proxy", "socks"} /\ FamilyOk(c)
  /\ c.pc = "session" /\ c.odd = "" => Reached(c)

IsCall(c) ==
  /\ DOMAIN c = CallFields
  /\ c.pc \in {"idle", "session"} \cup Early \cup Addressing \cup InProxy
  /\ Hosts(c) /\ Addresses(c) /\ Connection(c)

LEMMA ZeroWithin == ASSUME NEW n \in Nat PROVE 0 \in 0..n
  OBVIOUS

LEMMA NoCallIsCall == IsCall(NoCall)
  <1>1. DOMAIN NoCall = CallFields
    BY DEF NoCall, CallFields
  <1>2. /\ NoCall.pc = "idle" /\ NoCall.hosts = <<>> /\ NoCall.i = 0 /\ NoCall.plist = <<>>
        /\ NoCall.ret = "" /\ NoCall.due = {} /\ NoCall.proxies = {}
    BY DEF NoCall
  <1>3. Hosts(NoCall)
    <2>1. IsSequence(NoCall.hosts) /\ WordCount(NoCall.hosts) \in Nat
      BY <1>2, EmptySequence, WordCounts
    <2>2. NoCall.i \in 0..WordCount(NoCall.hosts)
      BY <1>2, <2>1, ZeroWithin
    <2> QED BY <1>2, <2>1, <2>2 DEF Hosts
  <1>4. Addresses(NoCall)
    BY <1>2, EmptyFits DEF Addresses, Early, Addressing
  <1>5. Connection(NoCall)
    BY <1>2 DEF Connection, Early, Addressing, InProxy
  <1> QED BY <1>1, <1>2, <1>3, <1>4, <1>5 DEF IsCall

(* The fields an update leaves alone, by what the invariant needs. *)
SameHosts(c, d) == d.hosts = c.hosts /\ d.i = c.i /\ d.ret = c.ret
SamePlan(c, d)  == /\ d.node = c.node /\ d.proxy = c.proxy /\ d.socks = c.socks
                   /\ d.plist = c.plist /\ d.proxies = c.proxies /\ d.tried = c.tried
SameLink(c, d)  == /\ d.via = c.via /\ d.reach = c.reach /\ d.family = c.family
                   /\ d.odd = c.odd /\ d.sock = c.sock

LEMMA SameProxy ==
    ASSUME NEW c, NEW d, SamePlan(c, d)
    PROVE  /\ use_proxy(d) = use_proxy(c) /\ Family(d) = Family(c)
           /\ NoPipe(d) = NoPipe(c) /\ MayMiss(d) = MayMiss(c)
  BY DEF SamePlan, use_proxy, Family, NoPipe, MayMiss

(* What is due is still to be tried, or was given up for a later host. *)
LEMMA AddressesKept ==
    ASSUME NEW c, Addresses(c), c.pc # "idle", NEW d, SamePlan(c, d),
           d.pc \notin {"hook", "proxy"},
           d.pc \in Early => d.due \subseteq MayMiss(c),
           d.pc \in Addressing => /\ AllFit(d.ai, Family(c))
                                  /\ d.due \subseteq Valid(d.ai) \cup MayMiss(c),
           c.pc = "address" => c.ai = <<>>
    PROVE  Addresses(d)
  <1>1. Family(d) = Family(c) /\ MayMiss(d) = MayMiss(c)
    BY SameProxy
  <1>2. TakenOut(c) = {}
    BY DEF TakenOut, Foremost
  <1>3. d.proxies \subseteq Valid(d.plist) \cup MayMiss(d)
    BY <1>1, <1>2 DEF Addresses, SamePlan
  <1> QED BY <1>1, <1>3 DEF Addresses, SamePlan

LEMMA HostsKept ==
    ASSUME NEW c, Hosts(c), c.pc # "idle", NEW d, SameHosts(c, d),
           d.pc \in {"hook", "proxy"} => c.pc \in {"hook", "proxy"}
    PROVE  Hosts(d)
  BY DEF Hosts, SameHosts

(* A call is made. *)
LEMMA Started ==
    ASSUME NEW n, IsNode(n), NEW proxy, NEW socks
    PROVE  IsCall([NoCall EXCEPT !.pc = "hook", !.node = n, !.hosts = n.hosts,
                                 !.proxy = proxy, !.socks = socks])
  <1> DEFINE hosts == n.hosts
             d == [NoCall EXCEPT !.pc = "hook", !.node = n, !.hosts = hosts,
                                 !.proxy = proxy, !.socks = socks]
  <1>1. IsSequence(hosts)
    BY DEF IsNode
  <1> HIDE DEF hosts
  <1>2. /\ DOMAIN d = CallFields /\ d.pc = "hook" /\ d.hosts = hosts /\ d.i = 0 /\ d.plist = <<>>
        /\ d.ret = "" /\ d.due = {} /\ d.proxies = {} /\ d.sock = FALSE
    BY DEF NoCall, CallFields
  <1> HIDE DEF d
  <1>3. Hosts(d)
    <2>1. WordCount(hosts) \in Nat
      BY <1>1, WordCounts
    <2>2. d.i \in 0..WordCount(d.hosts)
      BY <1>2, <2>1, ZeroWithin
    <2> QED BY <1>1, <1>2, <2>2 DEF Hosts
  <1>4. Addresses(d)
    BY <1>2, EmptyFits DEF Addresses, Early, Addressing
  <1>5. Connection(d)
    BY <1>2 DEF Connection, Early, Addressing, InProxy
  <1>6. IsCall(d)
    BY <1>2, <1>3, <1>4, <1>5 DEF IsCall, Early
  <1> QED BY <1>6 DEF d, hosts

(* A call ends before it has got anywhere. *)
LEMMA Aborted ==
    ASSUME NEW c, IsCall(c), NEW ret, ret # "failed" \/ c.i = WordCount(c.hosts)
    PROVE  IsCall(Return(c, ret))
  <1> DEFINE d == Return(c, ret)
  <1>1. DOMAIN d = CallFields /\ d.pc = "idle" /\ d.ret = ret /\ d.hosts = c.hosts /\ d.i = c.i
        /\ d.plist = c.plist /\ d.node = c.node
    BY DEF IsCall, Return, CallFields
  <1> HIDE DEF d
  <1>2. Hosts(d)
    BY <1>1 DEF IsCall, Hosts
  <1>3. Addresses(d)
    BY <1>1 DEF IsCall, Addresses, Early, Addressing, Family
  <1>4. Connection(d)
    BY <1>1 DEF Connection, Early, Addressing, InProxy
  <1>5. IsCall(d)
    BY <1>1, <1>2, <1>3, <1>4 DEF IsCall
  <1> QED BY <1>5 DEF d

(* The hook has let the call go on, to the proxy or the hosts. *)
LEMMA HookDone ==
    ASSUME NEW c, DOMAIN c = CallFields, Hosts(c), Addresses(c), Connection(c), c.pc = "hook"
    PROVE  IsCall([c EXCEPT !.pc = IF use_proxy(c) THEN "proxy" ELSE "hosts"])
  <1> DEFINE pc == IF use_proxy(c) THEN "proxy" ELSE "hosts"
             d == [c EXCEPT !.pc = pc]
  <1>1. pc \in {"proxy", "hosts"}
    OBVIOUS
  <1> HIDE DEF pc
  <1>2. /\ DOMAIN d = CallFields /\ d.pc = pc /\ SameHosts(c, d)
        /\ d.plist = c.plist /\ d.node = c.node /\ d.due = c.due /\ d.sock = c.sock
        /\ d.proxies = c.proxies
    BY DEF CallFields, SameHosts
  <1> HIDE DEF d
  <1>3. Hosts(d)
    BY <1>1, <1>2, HostsKept
  <1>4. Addresses(d)
    BY <1>1, <1>2 DEF Addresses, Early, Addressing, Family
  <1>5. Connection(d)
    BY <1>1, <1>2 DEF Connection, Early, Addressing, InProxy
  <1>6. IsCall(d)
    BY <1>1, <1>2, <1>3, <1>4, <1>5 DEF IsCall, Early
  <1> QED BY <1>6 DEF d, pc

LEMMA Direct ==
    ASSUME NEW c, IsCall(c), c.pc = "hook"
    PROVE  LET d == [c EXCEPT !.proxy = "", !.socks = ""] IN
           DOMAIN d = CallFields /\ Hosts(d) /\ Addresses(d) /\ Connection(d) /\ d.pc = "hook"
  <1> DEFINE d == [c EXCEPT !.proxy = "", !.socks = ""]
  <1>1. /\ DOMAIN d = CallFields /\ d.pc = "hook" /\ SameHosts(c, d)
        /\ d.plist = c.plist /\ d.node = c.node /\ d.due = c.due /\ d.sock = c.sock
        /\ d.proxies = c.proxies
    BY DEF IsCall, CallFields, SameHosts
  <1> HIDE DEF d
  <1>2. Hosts(d)
    BY <1>1, HostsKept DEF IsCall
  <1>3. Addresses(d)
    BY <1>1 DEF IsCall, Addresses, Early, Addressing, Family
  <1>4. Connection(d)
    BY <1>1 DEF IsCall, Connection, Early, Addressing, InProxy
  <1> QED BY <1>1, <1>2, <1>3, <1>4 DEF d

LEMMA OtherHosts ==
    ASSUME NEW c, IsCall(c), c.pc = "hook"
    PROVE  LET d == [c EXCEPT !.hosts = HookHosts] IN
           DOMAIN d = CallFields /\ Hosts(d) /\ Addresses(d) /\ Connection(d) /\ d.pc = "hook"
  <1> DEFINE d == [c EXCEPT !.hosts = HookHosts]
  <1>1. /\ DOMAIN d = CallFields /\ d.pc = "hook" /\ d.hosts = HookHosts /\ d.i = c.i
        /\ d.ret = c.ret
        /\ d.plist = c.plist /\ d.node = c.node /\ d.due = c.due /\ d.sock = c.sock
        /\ d.proxies = c.proxies
    BY DEF IsCall, CallFields
  <1> HIDE DEF d
  <1>2. Hosts(d)
    <2>1. IsSequence(HookHosts) /\ WordCount(HookHosts) \in Nat
      BY NamesAssumption, WordCounts
    <2>2. c.i = 0 /\ c.ret = ""
      BY DEF IsCall, Hosts
    <2>3. d.i \in 0..WordCount(d.hosts)
      BY <1>1, <2>1, <2>2, ZeroWithin
    <2> QED BY <1>1, <2>1, <2>2, <2>3 DEF Hosts
  <1>3. Addresses(d)
    BY <1>1 DEF IsCall, Addresses, Early, Addressing, Family
  <1>4. Connection(d)
    BY <1>1 DEF IsCall, Connection, Early, Addressing, InProxy
  <1> QED BY <1>1, <1>2, <1>3, <1>4 DEF d

LEMMA HookStep ==
    ASSUME IsCall(call), perl_on_call
    PROVE  IsCall(call')
  <1> DEFINE Next2(c) == [c EXCEPT !.pc = IF use_proxy(c) THEN "proxy" ELSE "hosts"]
             d == [call EXCEPT !.proxy = "", !.socks = ""]
             e == [call EXCEPT !.hosts = HookHosts]
  <1>1. call.pc = "hook"
    BY DEF perl_on_call, At
  <1>2. call' \in {Next2(call), Return(call, "aborted"), Next2(d), Next2(e)}
    <2>1. PICK h \in Hooks : call' = CASE h = "keep"   -> Next2(call)
                                       [] h = "abort"  -> Return(call, "aborted")
                                       [] h = "direct" -> Next2(d)
                                       [] h = "hosts"  -> Next2(e)
      BY DEF perl_on_call, Go
    <2>2. h \in {"keep", "abort", "direct", "hosts"}
      BY DialAssumption
    <2> HIDE DEF Next2, d, e
    <2> QED BY <2>1, <2>2
  <1>3. IsCall(Next2(call))
    BY <1>1, HookDone DEF IsCall
  <1>4. IsCall(Return(call, "aborted"))
    BY Aborted
  <1>5. DOMAIN d = CallFields /\ Hosts(d) /\ Addresses(d) /\ Connection(d) /\ d.pc = "hook"
    BY <1>1, Direct
  <1>6. DOMAIN e = CallFields /\ Hosts(e) /\ Addresses(e) /\ Connection(e) /\ e.pc = "hook"
    BY <1>1, OtherHosts
  <1> HIDE DEF d, e
  <1>7. IsCall(Next2(d)) /\ IsCall(Next2(e))
    BY <1>5, <1>6, HookDone
  <1> HIDE DEF Next2
  <1> QED BY <1>2, <1>3, <1>4, <1>7

-----------------------------------------------------------------------------
(* The hosts: proxy, pipe, resolver. *)

LEMMA ToHosts ==
    ASSUME NEW c, IsCall(c), c.pc # "idle", NEW d, DOMAIN d = CallFields, d.pc = "hosts",
           SameHosts(c, d), SamePlan(c, d), d.due \subseteq MayMiss(c), d.sock = FALSE,
           c.pc = "address" => c.ai = <<>>
    PROVE  IsCall(d)
  <1>1. Hosts(d)
    BY HostsKept DEF IsCall
  <1>2. Addresses(d)
    BY AddressesKept DEF IsCall, Addressing
  <1>3. Connection(d)
    BY DEF Connection, Early, Addressing, InProxy
  <1> QED BY <1>1, <1>2, <1>3 DEF IsCall, Early

LEMMA ProxyStep ==
    ASSUME IsCall(call), ResolveProxy
    PROVE  IsCall(call')
  <1> DEFINE name == IF call.proxy # "" THEN call.proxy ELSE call.socks
             service == IF call.proxy # "" THEN "squid" ELSE "socks"
             list == srv_getaddrinfo([name |-> name, suffix |-> ""], service, Family(call))
             d == [call EXCEPT !.pc = "hosts", !.plist = list, !.proxies = Valid(list)]
  <1>1. call.pc = "proxy" /\ (call' = d \/ call' = Return(call, "aborted"))
    BY DEF ResolveProxy, At, Go, Family
  <1>2. AllFit(list, Family(call))
    BY ResolvedFits
  <1> HIDE DEF list
  <1>3. /\ DOMAIN d = CallFields /\ d.pc = "hosts" /\ SameHosts(call, d) /\ d.node = call.node
        /\ d.plist = list /\ d.due = call.due /\ d.sock = call.sock /\ d.proxies = Valid(list)
    BY DEF IsCall, CallFields, SameHosts
  <1> HIDE DEF d
  <1>4. Hosts(d)
    BY <1>1, <1>3, HostsKept DEF IsCall
  <1>5. Addresses(d)
    BY <1>1, <1>2, <1>3 DEF IsCall, Addresses, Early, Addressing, Family
  <1>6. Connection(d)
    BY <1>1, <1>3 DEF IsCall, Connection, Early, Addressing, InProxy
  <1>7. IsCall(d)
    BY <1>3, <1>4, <1>5, <1>6 DEF IsCall, Early
  <1> QED BY <1>1, <1>7, Aborted

(* The address that is put in front is the only one that is taken out. *)
LEMMA OneOut ==
    ASSUME NEW s, NEW f, AllFit(s, f), NEW k \in 1..Len(s)
    PROVE  Valid(s) \subseteq Valid(RemoveAt(s, k)) \cup Foremost(Reordered(s, k))
  <1> DEFINE r == RemoveAt(s, k)
             a == Reordered(s, k)
  <1>1. IsSequence(s) /\ IsSequence(r)
    BY RemovedFits DEF AllFit
  <1>2. /\ IsSequence(s) /\ Len(s) \in Nat /\ DOMAIN s = 1..Len(s) /\ s \in Seq(Range(s))
    BY <1>1, SequenceFacts DEF IsSequence
  <1>3. \A j \in 1..Len(s) : j # k => \E i \in 1..Len(r) : r[i] = s[j]
    BY <1>1, Removed
  <1>4. DOMAIN r = 1..Len(r)
    BY <1>1, SequenceFacts
  <1>5. k # 0 /\ a = <<s[k]>> \o r
    BY DEF Reordered
  <1>6. a # <<>> /\ Head(a) = s[k]
    <2>1. r \in Seq(Range(r))
      BY <1>1, SequenceFacts DEF IsSequence
    <2> HIDE DEF r
    <2>2. Len(a) = 1 + Len(r) /\ Len(r) \in Nat /\ a[1] = s[k]
      BY <2>1, <1>5
    <2>3. a # <<>> /\ Head(a) = a[1]
      BY <2>1, <2>2, <1>5
    <2> QED BY <2>2, <2>3
  <1> HIDE DEF r, a
  <1>7. ASSUME NEW y \in Range(s) PROVE y = s[k] \/ y \in Range(r)
    <2>1. PICK i \in 1..Len(s) : y = s[i]
      BY <1>2 DEF Range
    <2>2. CASE i = k
      BY <2>1, <2>2
    <2>3. CASE i # k
      <3>1. PICK m \in 1..Len(r) : r[m] = s[i]
        BY <2>3, <1>3
      <3> QED BY <3>1, <2>1, <1>4 DEF Range
    <2> QED BY <2>2, <2>3
  <1>8. Foremost(a) = IF InvalidAddress(s[k]) THEN {} ELSE {s[k].ip}
    BY <1>6 DEF Foremost
  <1>9. Valid(s) \subseteq Valid(r) \cup Foremost(a)
    BY <1>7, <1>8 DEF Valid
  <1> QED BY <1>9 DEF r, a

(* The addresses of the proxy, for the next host. *)
LEMMA ProxyAddresses ==
    ASSUME NEW s, NEW f, AllFit(s, f), NEW AFF
    PROVE  LET k == Moved(s, AFF) IN
           /\ AllFit(Reordered(s, k), f) /\ Valid(Reordered(s, k)) = Valid(s)
           /\ AllFit(IF k = 0 THEN s ELSE RemoveAt(s, k), f)
           /\ k # 0 => Valid(s) \subseteq Valid(RemoveAt(s, k)) \cup Foremost(Reordered(s, k))
           /\ AFF = 0 => k = 0
  <1> DEFINE k == Moved(s, AFF)
  <1>1. IsSequence(s) /\ Len(s) \in Nat
    BY SequenceFacts DEF AllFit
  <1>2. k \in 0..Len(s)
    BY <1>1, MovedWithin
  <1> HIDE DEF k
  <1>3. IsSequence(Reordered(s, k)) /\ Range(Reordered(s, k)) = Range(s)
    BY <1>1, <1>2, ReorderedSame
  <1>4. AllFit(Reordered(s, k), f) /\ Valid(Reordered(s, k)) = Valid(s)
    BY <1>3, SameFits
  <1>5. k # 0 => k \in 1..Len(s)
    BY <1>1, <1>2
  <1>6. AllFit(IF k = 0 THEN s ELSE RemoveAt(s, k), f)
    BY <1>5, RemovedFits
  <1>7. k # 0 => Valid(s) \subseteq Valid(RemoveAt(s, k)) \cup Foremost(Reordered(s, k))
    BY <1>5, OneOut
  <1>8. AFF = 0 => k = 0
    BY DEF k, Moved
  <1> QED BY <1>4, <1>6, <1>7, <1>8 DEF k

(* A host is taken: it goes through a pipe, to the resolver, or to the
   addresses of the proxy. *)
LEMMA HostTaken ==
    ASSUME NEW c, IsCall(c), c.pc = "hosts", NEW e, DOMAIN e = CallFields,
           e.i \in 0..WordCount(c.hosts), e.hosts = c.hosts, e.ret = c.ret,
           e.pc = "hosts", SamePlan(c, e), e.due = c.due, e.sock = c.sock
    PROVE  /\ IsCall(e) /\ IsCall([e EXCEPT !.pc = "pipe"])
           /\ NoPipe(e) => IsCall([e EXCEPT !.pc = "resolve"])
           /\ LET k == Moved(e.plist, e.node.AFF) IN
              use_proxy(e) =>
                IsCall([e EXCEPT !.pc = "address", !.ai = Reordered(e.plist, k),
                                 !.plist = IF k = 0 THEN e.plist ELSE RemoveAt(e.plist, k),
                                 !.due = e.proxies])
  <1>1. e.ret = "" /\ e.sock = FALSE /\ IsSequence(e.hosts) /\ e.node = c.node
        /\ e.plist = c.plist /\ AllFit(e.plist, Family(e))
    BY DEF IsCall, Hosts, Addresses, Connection, SamePlan, Early, Family
  <1>2. ASSUME NEW d, DOMAIN d = CallFields, d.i = e.i, d.hosts = e.hosts, d.ret = e.ret,
               d.pc \in {"hosts", "pipe", "resolve"}, SamePlan(e, d),
               d.due = e.due, d.sock = FALSE, d.pc = "resolve" => NoPipe(e)
        PROVE  IsCall(d)
    <2>1. Hosts(d)
      BY <1>1, <1>2 DEF Hosts
    <2>2. Addresses(d)
      <3>1. SamePlan(c, d)
        BY <1>2 DEF SamePlan
      <3>2. d.due \subseteq MayMiss(c) /\ Addresses(c)
        BY <1>2 DEF IsCall, Addresses, Early
      <3> QED BY <1>2, <3>1, <3>2, AddressesKept DEF Addressing
    <2>3. Connection(d)
      BY <1>1, <1>2 DEF Connection, Early, Addressing, InProxy, NoPipe, SamePlan
    <2> QED BY <1>2, <2>1, <2>2, <2>3 DEF IsCall, Early
  <1>3. IsCall(e)
    <2>1. SamePlan(e, e)
      BY DEF SamePlan
    <2> QED BY <1>1, <1>2, <2>1
  <1>4. IsCall([e EXCEPT !.pc = "pipe"])
    <2> DEFINE d == [e EXCEPT !.pc = "pipe"]
    <2>1. /\ DOMAIN d = CallFields /\ d.i = e.i /\ d.hosts = e.hosts /\ d.ret = e.ret
          /\ d.pc = "pipe" /\ SamePlan(e, d) /\ d.due = e.due /\ d.sock = e.sock
      BY DEF CallFields, SamePlan
    <2> HIDE DEF d
    <2>2. IsCall(d)
      BY <1>1, <1>2, <2>1
    <2> QED BY <2>2 DEF d
  <1>5. NoPipe(e) => IsCall([e EXCEPT !.pc = "resolve"])
    <2> DEFINE d == [e EXCEPT !.pc = "resolve"]
    <2>1. /\ DOMAIN d = CallFields /\ d.i = e.i /\ d.hosts = e.hosts /\ d.ret = e.ret
          /\ d.pc = "resolve" /\ SamePlan(e, d) /\ d.due = e.due /\ d.sock = e.sock
      BY DEF CallFields, SamePlan
    <2> HIDE DEF d
    <2>2. NoPipe(e) => IsCall(d)
      BY <1>1, <1>2, <2>1
    <2> QED BY <2>2 DEF d
  <1> DEFINE k == Moved(e.plist, e.node.AFF)
             ai == Reordered(e.plist, k)
             rest == IF k = 0 THEN e.plist ELSE RemoveAt(e.plist, k)
             due == e.proxies
  <1>6. /\ AllFit(ai, Family(e)) /\ Valid(ai) = Valid(e.plist) /\ AllFit(rest, Family(e))
        /\ Valid(e.plist) \subseteq Valid(rest) \cup Foremost(ai)
        /\ e.node.AFF = 0 => rest = e.plist
    BY <1>1, ProxyAddresses
  <1>8. due \subseteq Valid(e.plist) \cup MayMiss(e)
    <2>1. Addresses(c) /\ TakenOut(c) = {} /\ MayMiss(e) = MayMiss(c)
      BY SameProxy DEF IsCall, TakenOut
    <2> QED BY <2>1 DEF Addresses, SamePlan
  <1> HIDE DEF ai, rest, due
  <1>7. use_proxy(e) => IsCall([e EXCEPT !.pc = "address", !.ai = ai, !.plist = rest, !.due = due])
    <2> DEFINE d == [e EXCEPT !.pc = "address", !.ai = ai, !.plist = rest, !.due = due]
    <2>1. /\ DOMAIN d = CallFields /\ d.i = e.i /\ d.hosts = e.hosts /\ d.ret = e.ret
          /\ d.pc = "address" /\ d.node = e.node /\ d.plist = rest /\ d.due = due
          /\ d.ai = ai /\ d.sock = e.sock
          /\ d.proxy = e.proxy /\ d.socks = e.socks /\ d.tried = e.tried /\ d.proxies = due
      BY DEF CallFields, due
    <2> HIDE DEF d
    <2>2. Hosts(d)
      BY <1>1, <2>1 DEF Hosts
    <2>3. use_proxy(e) => Addresses(d)
      <3> SUFFICES ASSUME use_proxy(e) PROVE Addresses(d)
        OBVIOUS
      <3>1. use_proxy(d) /\ MayMiss(d) = MayMiss(e) /\ Family(d) = Family(e)
        BY <2>1 DEF use_proxy, MayMiss, Family
      <3>2. due \subseteq Valid(rest) \cup MayMiss(d) \cup TakenOut(d)
        BY <1>6, <1>8, <2>1, <3>1 DEF TakenOut
      <3> QED BY <1>6, <1>8, <2>1, <3>1, <3>2 DEF Addresses, Early, Addressing
    <2>4. use_proxy(e) => Connection(d)
      BY <1>1, <2>1 DEF Connection, Early, Addressing, InProxy, NoPipe, use_proxy
    <2>5. use_proxy(e) => IsCall(d)
      BY <2>1, <2>2, <2>3, <2>4 DEF IsCall, Addressing
    <2> QED BY <2>5 DEF d
  <1> QED BY <1>3, <1>4, <1>5, <1>7 DEF k, ai, rest, due

LEMMA HostStep ==
    ASSUME IsCall(call), NextHost
    PROVE  IsCall(call')
  <1> DEFINE n == call.i + 1
             rc == get_host_and_port(n)
             w == call.hosts[n]
             host == IF w.name = "*" THEN ftnaddress_to_domain(call.node.fa, cfg.domains, cfg.root)
                     ELSE [name |-> w.name, suffix |-> ""]
             port == IF w.port = "" THEN cfg.oport ELSE w.port
             c == [call EXCEPT !.i = n, !.host = host, !.port = port]
             k == Moved(call.plist, call.node.AFF)
             p == [c EXCEPT !.pc = "pipe"]
             r == [c EXCEPT !.pc = "resolve"]
             a == [c EXCEPT !.pc = "address", !.ai = Reordered(c.plist, k),
                            !.plist = IF k = 0 THEN c.plist ELSE RemoveAt(c.plist, k),
                            !.due = c.proxies]
             f == [call EXCEPT !.i = n]
  <1>1. call.pc = "hosts"
    BY DEF NextHost, At
  <1>2. \/ rc = -1 /\ call' = Return(call, "failed")
        \/ rc = 0 /\ call' = f
        \/ /\ rc = 1
           /\ call' = IF c.node.pipe \notin {Null, ""} THEN p ELSE IF ~use_proxy(c) THEN r ELSE a
    BY DEF NextHost, Go
  <1>3. call.i \in 0..WordCount(call.hosts) /\ WordCount(call.hosts) \in Nat
    BY WordCounts DEF IsCall, Hosts
  <1>4. rc = -1 <=> n > WordCount(call.hosts)
    BY DEF get_host_and_port
  <1> HIDE DEF rc
  <1>5. CASE rc = -1
    <2>1. call.i = WordCount(call.hosts)
      BY <1>3, <1>4, <1>5
    <2>2. call' = Return(call, "failed")
      BY <1>2, <1>5
    <2> QED BY <2>1, <2>2, Aborted
  <1>6. CASE rc # -1
    <2>1. n \in 0..WordCount(call.hosts)
      BY <1>3, <1>4, <1>6
    <2> HIDE DEF n, host, port, k
    <2>2. /\ DOMAIN c = CallFields /\ c.i = n /\ c.hosts = call.hosts /\ c.ret = call.ret
          /\ c.pc = call.pc /\ SamePlan(call, c) /\ c.due = call.due /\ c.sock = call.sock
      BY DEF IsCall, CallFields, SamePlan
    <2>3. /\ DOMAIN f = CallFields /\ f.i = n /\ f.hosts = call.hosts /\ f.ret = call.ret
          /\ f.pc = call.pc /\ SamePlan(call, f) /\ f.due = call.due /\ f.sock = call.sock
      BY DEF IsCall, CallFields, SamePlan
    <2>4. k = Moved(c.plist, c.node.AFF)
      BY <2>2 DEF k, SamePlan
    <2> HIDE DEF c, f
    <2>5. IsCall(f)
      BY <1>1, <2>1, <2>3, HostTaken
    <2>6. IsCall(p) /\ (NoPipe(c) => IsCall(r)) /\ (use_proxy(c) => IsCall(a))
      <3>1. IsCall([c EXCEPT !.pc = "pipe"]) /\ (NoPipe(c) => IsCall([c EXCEPT !.pc = "resolve"]))
        BY <1>1, <2>1, <2>2, HostTaken
      <3>2. LET kk == Moved(c.plist, c.node.AFF) IN
            use_proxy(c) =>
              IsCall([c EXCEPT !.pc = "address", !.ai = Reordered(c.plist, kk),
                               !.plist = IF kk = 0 THEN c.plist ELSE RemoveAt(c.plist, kk),
                               !.due = c.proxies])
        BY <1>1, <2>1, <2>2, HostTaken
      <3> QED BY <3>1, <3>2, <2>4
    <2> HIDE DEF p, r, a
    <2> QED BY <1>2, <1>6, <2>5, <2>6 DEF NoPipe
  <1> QED BY <1>5, <1>6

LEMMA PipeStep ==
    ASSUME IsCall(call), run3
    PROVE  IsCall(call')
  <1> DEFINE d == [call EXCEPT !.pc = "session", !.sock = TRUE, !.via = "pipe", !.reach = "node"]
             e == [call EXCEPT !.pc = "hosts"]
  <1>1. call.pc = "pipe" /\ (call' = d \/ call' = e)
    BY DEF run3, At, Go
  <1>2. IsCall(e)
    <2>1. /\ DOMAIN e = CallFields /\ e.pc = "hosts" /\ SameHosts(call, e) /\ SamePlan(call, e)
          /\ e.due = call.due /\ e.sock = call.sock
      BY DEF IsCall, CallFields, SameHosts, SamePlan
    <2> HIDE DEF e
    <2>2. e.due \subseteq MayMiss(call) /\ e.sock = FALSE
      BY <1>1, <2>1 DEF IsCall, Addresses, Connection, Early
    <2> QED BY <1>1, <2>1, <2>2, ToHosts
  <1>3. IsCall(d)
    <2>1. /\ DOMAIN d = CallFields /\ d.pc = "session" /\ SameHosts(call, d) /\ SamePlan(call, d)
          /\ d.via = "pipe" /\ d.reach = "node"
      BY DEF IsCall, CallFields, SameHosts, SamePlan
    <2> HIDE DEF d
    <2>2. Hosts(d)
      BY <1>1, <2>1, HostsKept DEF IsCall
    <2>3. Addresses(d)
      BY <1>1, <2>1, AddressesKept DEF IsCall, Early, Addressing
    <2>4. Reached(d)
      BY <2>1 DEF Reached
    <2>5. Connection(d)
      BY <2>1, <2>4 DEF Connection, Early, Addressing, InProxy
    <2> QED BY <2>1, <2>2, <2>3, <2>5 DEF IsCall
  <1> QED BY <1>1, <1>2, <1>3

LEMMA ResolveStep ==
    ASSUME IsCall(call), Resolve
    PROVE  IsCall(call')
  <1> DEFINE list == srv_getaddrinfo(call.host, call.port, Family(call))
             k == Moved(list, call.node.AFF)
             ai == Reordered(list, k)
             due == Valid(list)
             d == [call EXCEPT !.pc = "address", !.ai = ai, !.due = due]
             e == [call EXCEPT !.pc = "hosts"]
  <1>1. call.pc = "resolve" /\ (call' = d \/ call' = e)
    BY DEF Resolve, At, Go, Family, Valid
  <1>2. AllFit(list, Family(call))
    BY ResolvedFits
  <1> HIDE DEF list
  <1>3. AllFit(ai, Family(call)) /\ Valid(ai) = due
    BY <1>2, ProxyAddresses
  <1> HIDE DEF ai, due
  <1>4. IsCall(e)
    <2>1. /\ DOMAIN e = CallFields /\ e.pc = "hosts" /\ SameHosts(call, e) /\ SamePlan(call, e)
          /\ e.due = call.due /\ e.sock = call.sock
      BY DEF IsCall, CallFields, SameHosts, SamePlan
    <2> HIDE DEF e
    <2>2. e.due \subseteq MayMiss(call) /\ e.sock = FALSE
      BY <1>1, <2>1 DEF IsCall, Addresses, Connection, Early
    <2> QED BY <1>1, <2>1, <2>2, ToHosts
  <1>5. IsCall(d)
    <2>1. /\ DOMAIN d = CallFields /\ d.pc = "address" /\ SameHosts(call, d) /\ SamePlan(call, d)
          /\ d.ai = ai /\ d.due = due /\ d.sock = call.sock
      BY DEF IsCall, CallFields, SameHosts, SamePlan
    <2> HIDE DEF d
    <2>2. Hosts(d)
      BY <1>1, <2>1, HostsKept DEF IsCall
    <2>3. Addresses(d)
      BY <1>1, <1>3, <2>1, AddressesKept DEF IsCall, Early, Addressing
    <2>4. Connection(d)
      BY <1>1, <2>1 DEF IsCall, Connection, Early, Addressing, InProxy, NoPipe, SamePlan
    <2> QED BY <2>1, <2>2, <2>3, <2>4 DEF IsCall, Addressing
  <1> QED BY <1>1, <1>4, <1>5

-----------------------------------------------------------------------------
(* The addresses: socket, connection, proxies. *)

(* The loop over the addresses is left: without a socket to the next host,
   with one to the proxy or the session. *)
LEMMA Left ==
    ASSUME NEW c, IsCall(c), c.pc \in Addressing, c.pc = "address" => c.ai = <<>>,
           NEW d, DOMAIN d = CallFields, SameHosts(c, d), SamePlan(c, d), d.due = c.due,
           \/ d.sock = FALSE /\ d.due \subseteq MayMiss(c)
           \/ /\ d.sock = TRUE
              /\ d.odd = "" => /\ FamilyOk(d)
                               /\ ~use_proxy(d) => d.reach = "node" /\ d.via = "direct"
                               /\ use_proxy(d) => d.via \in {"proxy", "socks"}
    PROVE  IsCall(Leave(d))
  <1> DEFINE pc == IF ~d.sock THEN "hosts" ELSE IF ~use_proxy(d) THEN "session"
                   ELSE IF d.proxy # "" THEN "http" ELSE "socks"
             e == Leave(d)
  <1>1. /\ DOMAIN e = CallFields /\ e.pc = pc /\ SameHosts(d, e) /\ SamePlan(d, e)
        /\ e.due = d.due /\ SameLink(d, e)
    BY DEF Leave, CallFields, SameHosts, SamePlan, SameLink
  <1> SUFFICES IsCall(e)
    OBVIOUS
  <1> HIDE DEF e
  <1>2. SameHosts(c, e) /\ SamePlan(c, e) /\ c.pc # "idle"
    BY <1>1 DEF SameHosts, SamePlan, Addressing
  <1>3. NoPipe(c)
    BY DEF IsCall, Connection
  <1>4. CASE d.sock = FALSE /\ d.due \subseteq MayMiss(c)
    BY <1>1, <1>2, <1>4, ToHosts DEF SameLink, SamePlan
  <1>5. CASE /\ d.sock = TRUE
             /\ d.odd = "" => /\ FamilyOk(d)
                              /\ ~use_proxy(d) => d.reach = "node" /\ d.via = "direct"
                              /\ use_proxy(d) => d.via \in {"proxy", "socks"}
    <2>1. /\ pc \in {"session", "http", "socks"}
          /\ pc = "session" <=> ~use_proxy(d)
          /\ pc = "http" => d.proxy # ""
      BY <1>5
    <2> HIDE DEF pc
    <2>2. /\ use_proxy(e) = use_proxy(d) /\ NoPipe(e) = NoPipe(c) /\ FamilyOk(e) = FamilyOk(d)
      BY <1>1, <1>2 DEF SamePlan, SameLink, use_proxy, NoPipe, FamilyOk, Family
    <2>3. Hosts(e)
      BY <1>1, <1>2, <2>1, HostsKept DEF IsCall
    <2>4. Addresses(e)
      BY <1>1, <1>2, <2>1, AddressesKept DEF IsCall, Early, Addressing
    <2>5. ASSUME pc = "session", e.odd = "" PROVE Reached(e)
      <3>1. e.reach = "node" /\ e.via = "direct" /\ FamilyOk(e) /\ ~use_proxy(e) /\ NoPipe(e)
        BY <1>1, <1>3, <1>5, <2>1, <2>2, <2>5 DEF SameLink
      <3> QED BY <3>1 DEF Reached, use_proxy, NoPipe
    <2>6. ASSUME pc # "session" PROVE /\ use_proxy(e)
                                      /\ e.odd = "" => e.via \in {"proxy", "socks"} /\ FamilyOk(e)
      BY <1>1, <1>5, <2>1, <2>2, <2>6 DEF SameLink
    <2>7. pc = "http" => e.proxy # ""
      BY <1>1, <2>1 DEF SamePlan
    <2>8. Connection(e)
      BY <1>1, <2>1, <2>5, <2>6, <2>7 DEF Connection, Early, Addressing, InProxy
    <2> QED BY <1>1, <2>1, <2>3, <2>4, <2>8 DEF IsCall, InProxy
  <1> QED BY <1>4, <1>5

(* The socket is closed: on to the next address, or the next host. *)
LEMMA ClosedFields ==
    ASSUME NEW c, DOMAIN c = CallFields
    PROVE  LET d == Close(c) IN
           /\ DOMAIN d = CallFields /\ d.pc = c.pc /\ SameHosts(c, d) /\ SamePlan(c, d)
           /\ d.ai = c.ai /\ d.due = c.due /\ d.sock = FALSE
  BY DEF Close, CallFields, SameHosts, SamePlan

LEMMA AddressStep ==
    ASSUME IsCall(call), NextAddress
    PROVE  IsCall(call')
  <1> DEFINE a == Head(call.ai)
             t == Tail(call.ai)
             due == call.due \ {a.ip}
             rest == [call EXCEPT !.ai = t]
             tried == call.tried \cup {a.ip}
             done == [rest EXCEPT !.due = due, !.tried = tried]
             x == [done EXCEPT !.sock = TRUE]
             b == [done EXCEPT !.pc = "bind", !.sock = TRUE, !.family = a.family]
  <1>1. call.pc = "address" /\ call.sock = FALSE /\ NoPipe(call) /\ DOMAIN call = CallFields
        /\ AllFit(call.ai, Family(call)) /\ call.due \subseteq Valid(call.ai) \cup MayMiss(call)
        /\ Hosts(call) /\ AllFit(call.plist, Family(call)) /\ call.ret = ""
        /\ call.proxies \subseteq Valid(call.plist) \cup MayMiss(call) \cup TakenOut(call)
    BY DEF NextAddress, At, IsCall, Connection, Addresses, Addressing, Hosts
  <1>2. CASE call.ai = <<>>
    <2>1. call' = Leave(call)
      BY <1>2 DEF NextAddress, Go
    <2>2. call.due \subseteq MayMiss(call)
      <3>1. Valid(<<>>) = {}
        BY EmptySequence DEF Valid, Range
      <3> QED BY <3>1, <1>1, <1>2
    <2>3. SameHosts(call, call) /\ SamePlan(call, call)
      BY DEF SameHosts, SamePlan
    <2>4. IsCall(Leave(call))
      BY <1>1, <1>2, <2>2, <2>3, Left DEF Addressing
    <2> QED BY <2>1, <2>4
  <1>3. CASE call.ai # <<>>
    <2>1. \/ InvalidAddress(a) /\ call' = rest
          \/ ~InvalidAddress(a) /\ call' \in {done, Return(x, "exit"), b}
      BY <1>3 DEF NextAddress, Go
    <2>2. /\ AllFit(t, Family(call)) /\ Fits(a, Family(call))
          /\ Valid(call.ai) \subseteq Valid(t) \cup {a.ip}
          /\ InvalidAddress(a) => Valid(call.ai) \subseteq Valid(t)
      BY <1>1, <1>3, FirstAddress
    <2>11. TakenOut(call) \subseteq IF InvalidAddress(a) THEN {} ELSE {a.ip}
      BY <1>3 DEF TakenOut, Foremost
    <2>12. TakenOut(call) # {} => use_proxy(call) /\ call.node.AFF # 0
      BY DEF TakenOut
    <2> HIDE DEF t, a
    <2>3. /\ due \subseteq Valid(t) \cup MayMiss(call)
          /\ InvalidAddress(a) => call.due \subseteq Valid(t) \cup MayMiss(call)
      BY <1>1, <2>2
    <2> HIDE DEF due
    <2>13. ASSUME NEW d, d.node = call.node, d.proxy = call.proxy, d.socks = call.socks,
                  \/ InvalidAddress(a) /\ d.tried = call.tried
                  \/ d.tried = tried
           PROVE  /\ MayMiss(call) \subseteq MayMiss(d)
                  /\ call.proxies \subseteq Valid(call.plist) \cup MayMiss(d)
      <3>1. use_proxy(d) = use_proxy(call)
        BY <2>13 DEF use_proxy
      <3>2. MayMiss(call) \cup TakenOut(call) \subseteq MayMiss(d)
        BY <2>11, <2>12, <2>13, <3>1 DEF MayMiss
      <3> QED BY <1>1, <3>2
    <2> HIDE DEF tried
    <2>4. ASSUME NEW d, DOMAIN d = CallFields, d.pc \in {"address", "bind", "idle"},
                 d.hosts = call.hosts, d.i = call.i,
                 d.node = call.node, d.plist = call.plist, d.ai = t, d.proxies = call.proxies,
                 d.proxy = call.proxy, d.socks = call.socks,
                 \/ InvalidAddress(a) /\ d.tried = call.tried
                 \/ d.tried = tried,
                 d.due \subseteq Valid(t) \cup MayMiss(call), d.pc = "address" => d.sock = FALSE,
                 d.pc = "bind" => d.sock = TRUE /\ d.family = a.family,
                 d.ret = IF d.pc = "idle" THEN "exit" ELSE ""
          PROVE  IsCall(d)
      <3>1. Hosts(d)
        BY <1>1, <2>4 DEF Hosts
      <3>2. Addresses(d)
        <4>1. /\ MayMiss(call) \subseteq MayMiss(d)
              /\ call.proxies \subseteq Valid(call.plist) \cup MayMiss(d)
          BY <2>4, <2>13
        <4>2. d.due \subseteq Valid(d.ai) \cup MayMiss(d)
          BY <2>4, <4>1
        <4>3. d.proxies \subseteq Valid(d.plist) \cup MayMiss(d) \cup TakenOut(d)
          BY <2>4, <4>1
        <4> QED BY <1>1, <2>2, <2>4, <4>2, <4>3 DEF Addresses, Early, Addressing, Family
      <3>3. d.pc = "bind" => FamilyOk(d)
        BY <2>2, <2>4 DEF FamilyOk, Family, Fits
      <3>4. Connection(d)
        BY <1>1, <2>4, <3>3 DEF Connection, Early, Addressing, InProxy, NoPipe
      <3> QED BY <2>4, <3>1, <3>2, <3>4 DEF IsCall, Addressing
    <2>5. /\ DOMAIN rest = CallFields /\ rest.pc = "address" /\ SameHosts(call, rest)
          /\ rest.node = call.node /\ rest.plist = call.plist /\ rest.ai = t
          /\ rest.due = call.due /\ rest.sock = call.sock
          /\ rest.proxies = call.proxies /\ rest.proxy = call.proxy /\ rest.socks = call.socks
          /\ rest.tried = call.tried
      BY <1>1 DEF CallFields, SameHosts
    <2> HIDE DEF rest
    <2>6. CASE InvalidAddress(a) /\ call' = rest
      <3>1. IsCall(rest)
        BY <1>1, <2>3, <2>4, <2>5, <2>6 DEF SameHosts
      <3> QED BY <2>6, <3>1
    <2>7. /\ DOMAIN done = CallFields /\ done.pc = "address" /\ SameHosts(call, done)
          /\ done.node = call.node /\ done.plist = call.plist /\ done.ai = t
          /\ done.due = due /\ done.sock = call.sock
          /\ done.proxies = call.proxies /\ done.proxy = call.proxy /\ done.socks = call.socks
          /\ done.tried = tried
      BY <2>5 DEF CallFields, SameHosts
    <2> HIDE DEF done
    <2>8. IsCall(done)
      BY <1>1, <2>3, <2>4, <2>7 DEF SameHosts
    <2>9. IsCall(b)
      <3>1. /\ DOMAIN b = CallFields /\ b.pc = "bind" /\ SameHosts(call, b)
            /\ b.node = call.node /\ b.plist = call.plist /\ b.ai = t
            /\ b.due = due /\ b.sock = TRUE /\ b.family = a.family
            /\ b.proxies = call.proxies /\ b.proxy = call.proxy /\ b.socks = call.socks
            /\ b.tried = tried
        BY <2>7 DEF CallFields, SameHosts
      <3> HIDE DEF b
      <3> QED BY <1>1, <2>3, <2>4, <3>1 DEF SameHosts
    <2>10. IsCall(Return(x, "exit"))
      <3> DEFINE r == Return(x, "exit")
      <3>1. /\ DOMAIN x = CallFields /\ SameHosts(call, x)
            /\ x.node = call.node /\ x.plist = call.plist /\ x.ai = t /\ x.due = due
            /\ x.proxies = call.proxies /\ x.proxy = call.proxy /\ x.socks = call.socks
            /\ x.tried = tried
        BY <2>7 DEF CallFields, SameHosts
      <3> HIDE DEF x
      <3>2. /\ DOMAIN r = CallFields /\ r.pc = "idle" /\ r.hosts = call.hosts /\ r.i = call.i
            /\ r.node = call.node /\ r.plist = call.plist /\ r.ai = t /\ r.due = due
            /\ r.proxies = call.proxies /\ r.proxy = call.proxy /\ r.socks = call.socks
            /\ r.tried = tried /\ r.ret = "exit"
        BY <3>1 DEF Return, CallFields, SameHosts
      <3> HIDE DEF r
      <3>3. IsCall(r)
        BY <2>3, <2>4, <3>2
      <3> QED BY <3>3 DEF r
    <2> HIDE DEF b, x
    <2> QED BY <2>1, <2>6, <2>8, <2>9, <2>10
  <1> QED BY <1>2, <1>3

LEMMA BindStep ==
    ASSUME IsCall(call), Bind
    PROVE  IsCall(call')
  <1> DEFINE d == [call EXCEPT !.pc = "connect"]
             e == [call EXCEPT !.odd = "bind"]
  <1>1. call.pc = "bind" /\ call' \in {d, Leave(e)}
    BY DEF Bind, At, Go
  <1>2. DOMAIN call = CallFields /\ call.sock = TRUE /\ FamilyOk(call) /\ NoPipe(call)
    BY <1>1 DEF IsCall, Connection, Addressing
  <1>3. IsCall(d)
    <2>1. /\ DOMAIN d = CallFields /\ d.pc = "connect" /\ SameHosts(call, d) /\ SamePlan(call, d)
          /\ d.ai = call.ai /\ d.due = call.due /\ SameLink(call, d)
      BY <1>2 DEF CallFields, SameHosts, SamePlan, SameLink
    <2> HIDE DEF d
    <2>2. Hosts(d)
      BY <1>1, <2>1, HostsKept DEF IsCall
    <2>3. Addresses(d)
      <3>1. AllFit(call.ai, Family(call)) /\ call.due \subseteq Valid(call.ai) \cup MayMiss(call)
        BY <1>1 DEF IsCall, Addresses, Addressing
      <3> QED BY <1>1, <2>1, <3>1, AddressesKept DEF IsCall, Early
    <2>4. FamilyOk(d) /\ NoPipe(d)
      BY <1>2, <2>1 DEF FamilyOk, NoPipe, Family, SamePlan, SameLink
    <2>5. Connection(d)
      BY <1>2, <2>1, <2>4 DEF Connection, Early, Addressing, InProxy, SameLink
    <2> QED BY <2>1, <2>2, <2>3, <2>5 DEF IsCall, Addressing
  <1>4. IsCall(Leave(e))
    <2>1. /\ DOMAIN e = CallFields /\ SameHosts(call, e) /\ SamePlan(call, e)
          /\ e.due = call.due /\ e.sock = TRUE /\ e.odd = "bind"
      BY <1>2 DEF CallFields, SameHosts, SamePlan
    <2> HIDE DEF e
    <2>2. call.pc \in Addressing /\ call.pc # "address" /\ e.odd # ""
      BY <1>1, <2>1 DEF Addressing
    <2> QED BY <2>1, <2>2, Left
  <1> HIDE DEF d, e
  <1> QED BY <1>1, <1>3, <1>4

LEMMA ConnectStep ==
    ASSUME IsCall(call), Connect
    PROVE  IsCall(call')
  <1> DEFINE via == IF ~use_proxy(call) THEN "direct" ELSE IF call.proxy # "" THEN "proxy"
                    ELSE "socks"
             reach == IF via = "direct" THEN "node" ELSE via
             d == [call EXCEPT !.via = via, !.reach = reach]
             e == [call EXCEPT !.pc = "address"]
  <1>1. call.pc = "connect" /\ call' \in {Leave(d), Close(e)}
    BY DEF Connect, At, Go
  <1>2. DOMAIN call = CallFields /\ call.sock = TRUE /\ FamilyOk(call) /\ NoPipe(call)
    BY <1>1 DEF IsCall, Connection, Addressing
  <1>3. /\ ~use_proxy(call) => via = "direct" /\ reach = "node"
        /\ use_proxy(call) => via \in {"proxy", "socks"}
    OBVIOUS
  <1> HIDE DEF via, reach
  <1>4. IsCall(Leave(d))
    <2>1. /\ DOMAIN d = CallFields /\ SameHosts(call, d) /\ SamePlan(call, d)
          /\ d.due = call.due /\ d.sock = TRUE /\ d.family = call.family
          /\ d.via = via /\ d.reach = reach
      BY <1>2 DEF CallFields, SameHosts, SamePlan
    <2> HIDE DEF d
    <2>2. FamilyOk(d) /\ use_proxy(d) = use_proxy(call)
      BY <1>2, <2>1 DEF FamilyOk, use_proxy, Family, SamePlan
    <2>3. call.pc \in Addressing /\ call.pc # "address"
      BY <1>1 DEF Addressing
    <2> QED BY <1>3, <2>1, <2>2, <2>3, Left
  <1>5. IsCall(Close(e))
    <2>1. /\ DOMAIN e = CallFields /\ e.pc = "address" /\ SameHosts(call, e) /\ SamePlan(call, e)
          /\ e.ai = call.ai /\ e.due = call.due
      BY <1>2 DEF CallFields, SameHosts, SamePlan
    <2> HIDE DEF e
    <2> DEFINE f == Close(e)
    <2>2. /\ DOMAIN f = CallFields /\ f.pc = "address" /\ SameHosts(e, f) /\ SamePlan(e, f)
          /\ f.ai = e.ai /\ f.due = e.due /\ f.sock = FALSE
      BY <2>1, ClosedFields
    <2> HIDE DEF f
    <2>3. /\ SameHosts(call, f) /\ SamePlan(call, f) /\ f.ai = call.ai /\ f.due = call.due
      BY <2>1, <2>2 DEF SameHosts, SamePlan
    <2>4. Hosts(f)
      BY <1>1, <2>2, <2>3, HostsKept DEF IsCall
    <2>5. Addresses(f)
      <3>1. AllFit(call.ai, Family(call)) /\ call.due \subseteq Valid(call.ai) \cup MayMiss(call)
        BY <1>1 DEF IsCall, Addresses, Addressing
      <3> QED BY <1>1, <2>2, <2>3, <3>1, AddressesKept DEF IsCall, Early
    <2>6. NoPipe(f)
      BY <1>2, <2>3 DEF NoPipe, SamePlan
    <2>7. Connection(f)
      BY <2>2, <2>6 DEF Connection, Early, Addressing, InProxy
    <2>8. IsCall(f)
      BY <2>2, <2>4, <2>5, <2>7 DEF IsCall, Addressing
    <2> QED BY <2>8 DEF f
  <1> HIDE DEF d, e
  <1> QED BY <1>1, <1>4, <1>5

-----------------------------------------------------------------------------
(* h_connect. *)

LEMMA GivenUp ==
    ASSUME IsCall(call), call.pc \in InProxy, Failed
    PROVE  IsCall(call')
  <1> DEFINE d == [call EXCEPT !.pc = "hosts", !.odd = "", !.due = {}]
             e == Close(d)
  <1>1. call' = e
    BY DEF Failed, Go
  <1>2. /\ DOMAIN d = CallFields /\ d.pc = "hosts" /\ SameHosts(call, d) /\ SamePlan(call, d)
        /\ d.due = {}
    BY DEF IsCall, CallFields, SameHosts, SamePlan
  <1> HIDE DEF d
  <1>3. /\ DOMAIN e = CallFields /\ e.pc = "hosts" /\ SameHosts(d, e) /\ SamePlan(d, e)
        /\ e.due = {} /\ e.sock = FALSE
    BY <1>2, ClosedFields
  <1> HIDE DEF e
  <1>4. SameHosts(call, e) /\ SamePlan(call, e)
    BY <1>2, <1>3 DEF SameHosts, SamePlan
  <1>5. call.pc # "idle" /\ call.pc # "address"
    BY DEF InProxy
  <1> QED BY <1>1, <1>3, <1>4, <1>5, ToHosts

(* A step within the proxies, or from them to the session. *)
LEMMA Proceeds ==
    ASSUME NEW c, IsCall(c), c.pc \in InProxy, NEW d, DOMAIN d = CallFields,
           SameHosts(c, d), SamePlan(c, d), d.via = c.via, d.family = c.family,
           d.pc \in InProxy \cup {"session"}, d.pc = "http" => c.pc = "http",
           d.odd = "" => c.odd = "", d.pc = "session" /\ d.odd = "" => d.reach = "node"
    PROVE  IsCall(d)
  <1>1. /\ use_proxy(c)
        /\ c.odd = "" => c.via \in {"proxy", "socks"} /\ FamilyOk(c)
        /\ c.pc = "http" => c.proxy # ""
    BY DEF IsCall, Connection
  <1>2. use_proxy(d) = use_proxy(c) /\ FamilyOk(d) = FamilyOk(c) /\ d.proxy = c.proxy
    BY DEF use_proxy, FamilyOk, Family, SamePlan
  <1>3. c.pc # "idle" /\ d.pc \notin {"hook", "proxy"}
    BY DEF InProxy
  <1>4. Hosts(d)
    BY <1>3, HostsKept DEF IsCall
  <1>5. d.pc \notin Early \cup Addressing \cup {"idle"}
    BY DEF Early, Addressing, InProxy
  <1>6. Addresses(d)
    <2>1. c.pc # "address"
      BY DEF InProxy
    <2> QED BY <1>3, <1>5, <2>1, AddressesKept DEF IsCall
  <1>7. d.pc = "session" /\ d.odd = "" => Reached(d)
    <2> SUFFICES ASSUME d.pc = "session", d.odd = "" PROVE Reached(d)
      OBVIOUS
    <2>1. d.via \in {"proxy", "socks"} /\ FamilyOk(d) /\ use_proxy(d) /\ d.reach = "node"
      BY <1>1, <1>2
    <2> QED BY <2>1 DEF Reached, use_proxy
  <1>8. d.pc \in InProxy => d.pc # "session"
    BY DEF InProxy
  <1>9. Connection(d)
    <2>1. d.pc \notin Early \cup {"address"} /\ d.pc \notin {"bind", "connect"}
          /\ d.pc \notin {"resolve"} \cup Addressing
      BY <1>5 DEF Early, Addressing
    <2>2. d.odd = "" => d.via \in {"proxy", "socks"} /\ FamilyOk(d)
      BY <1>1, <1>2
    <2> QED BY <1>1, <1>2, <1>7, <2>1, <2>2 DEF Connection
  <1> QED BY <1>4, <1>6, <1>9 DEF IsCall

LEMMA HTTPStep ==
    ASSUME IsCall(call), HTTP
    PROVE  IsCall(call')
  <1> DEFINE to == IF call.socks # "" /\ (call.proxy # "ntlm" \/ call.ntlm) THEN "socks" ELSE "node"
             pc == IF call.socks # "" THEN "socks" ELSE "session"
             d == [call EXCEPT !.ntlm = FALSE]
             e == [call EXCEPT !.pc = pc, !.reach = to]
  <1>1. call.pc = "http" /\ (Failed \/ call' = d \/ call' = e)
    BY DEF HTTP, At, Go
  <1>2. call.pc \in InProxy /\ DOMAIN call = CallFields
    BY <1>1 DEF InProxy, IsCall
  <1>3. IsCall(d)
    <2>1. /\ DOMAIN d = CallFields /\ SameHosts(call, d) /\ SamePlan(call, d) /\ SameLink(call, d)
          /\ d.pc = "http"
      BY <1>1, <1>2 DEF CallFields, SameHosts, SamePlan, SameLink
    <2> HIDE DEF d
    <2> QED BY <1>1, <1>2, <2>1, Proceeds DEF SameLink
  <1>4. IsCall(e)
    <2>1. pc \in InProxy \cup {"session"} /\ pc # "http" /\ (pc = "session" => to = "node")
      BY DEF InProxy
    <2> HIDE DEF pc, to
    <2>2. /\ DOMAIN e = CallFields /\ SameHosts(call, e) /\ SamePlan(call, e) /\ e.via = call.via
          /\ e.family = call.family /\ e.odd = call.odd /\ e.reach = to /\ e.pc = pc
      BY <1>2 DEF CallFields, SameHosts, SamePlan
    <2> HIDE DEF e
    <2> QED BY <1>2, <2>1, <2>2, Proceeds
  <1> QED BY <1>1, <1>2, <1>3, <1>4, GivenUp

(* The steps that change nothing but where the dialogue with the proxy is. *)
LEMMA Dialogue ==
    ASSUME NEW c, IsCall(c), c.pc \in InProxy, NEW pc \in {"method", "password", "socks5", "socks4"}, NEW ai
    PROVE  /\ IsCall([c EXCEPT !.pc = pc]) /\ IsCall([c EXCEPT !.pc = pc, !.ai = ai])
           /\ IsCall([c EXCEPT !.pc = "session", !.reach = "node"])
           /\ IsCall([c EXCEPT !.pc = "session", !.odd = "socks4"])
           /\ c.pc = "socks4" => IsCall([c EXCEPT !.ai = ai])
  <1>1. DOMAIN c = CallFields
    BY DEF IsCall
  <1>2. pc \in InProxy /\ pc # "http"
    BY DEF InProxy
  <1>3. ASSUME NEW d, DOMAIN d = CallFields, SameHosts(c, d), SamePlan(c, d), SameLink(c, d), d.pc = pc
        PROVE  IsCall(d)
    <2>1. d.via = c.via /\ d.family = c.family /\ d.odd = c.odd
      BY <1>3 DEF SameLink
    <2>2. d.pc \in InProxy \cup {"session"} /\ d.pc # "http" /\ d.pc # "session"
      BY <1>2, <1>3
    <2> QED BY <1>3, <2>1, <2>2, Proceeds
  <1>4. IsCall([c EXCEPT !.pc = pc])
    <2> DEFINE d == [c EXCEPT !.pc = pc]
    <2>1. DOMAIN d = CallFields /\ SameHosts(c, d) /\ SamePlan(c, d) /\ SameLink(c, d) /\ d.pc = pc
      BY <1>1 DEF CallFields, SameHosts, SamePlan, SameLink
    <2> HIDE DEF d
    <2>2. IsCall(d)
      BY <2>1, <1>3
    <2> QED BY <2>2 DEF d
  <1>5. IsCall([c EXCEPT !.pc = pc, !.ai = ai])
    <2> DEFINE d == [c EXCEPT !.pc = pc, !.ai = ai]
    <2>1. DOMAIN d = CallFields /\ SameHosts(c, d) /\ SamePlan(c, d) /\ SameLink(c, d) /\ d.pc = pc
      BY <1>1 DEF CallFields, SameHosts, SamePlan, SameLink
    <2> HIDE DEF d
    <2>2. IsCall(d)
      BY <2>1, <1>3
    <2> QED BY <2>2 DEF d
  <1>6. IsCall([c EXCEPT !.pc = "session", !.reach = "node"])
    <2> DEFINE d == [c EXCEPT !.pc = "session", !.reach = "node"]
    <2>1. DOMAIN d = CallFields /\ SameHosts(c, d) /\ SamePlan(c, d) /\ d.via = c.via
          /\ d.family = c.family /\ d.odd = c.odd /\ d.pc = "session" /\ d.reach = "node"
      BY <1>1 DEF CallFields, SameHosts, SamePlan
    <2> HIDE DEF d
    <2>2. IsCall(d)
      BY <2>1, Proceeds
    <2> QED BY <2>2 DEF d
  <1>7. IsCall([c EXCEPT !.pc = "session", !.odd = "socks4"])
    <2> DEFINE d == [c EXCEPT !.pc = "session", !.odd = "socks4"]
    <2>1. DOMAIN d = CallFields /\ SameHosts(c, d) /\ SamePlan(c, d) /\ d.via = c.via
          /\ d.family = c.family /\ d.odd = "socks4" /\ d.pc = "session"
      BY <1>1 DEF CallFields, SameHosts, SamePlan
    <2> HIDE DEF d
    <2>2. IsCall(d)
      BY <2>1, Proceeds
    <2> QED BY <2>2 DEF d
  <1>8. c.pc = "socks4" => IsCall([c EXCEPT !.ai = ai])
    <2> DEFINE d == [c EXCEPT !.ai = ai]
    <2>1. DOMAIN d = CallFields /\ SameHosts(c, d) /\ SamePlan(c, d) /\ d.via = c.via
          /\ d.family = c.family /\ d.odd = c.odd /\ d.pc = c.pc
      BY <1>1 DEF CallFields, SameHosts, SamePlan
    <2> HIDE DEF d
    <2>2. c.pc = "socks4" => IsCall(d)
      BY <2>1, Proceeds
    <2> QED BY <2>2 DEF d
  <1> QED BY <1>4, <1>5, <1>6, <1>7, <1>8

LEMMA ProxyDialogue ==
    ASSUME IsCall(call), Socks \/ Method \/ Password \/ Socks5 \/ Socks4
    PROVE  IsCall(call')
  <1>1. call.pc \in InProxy
    BY DEF Socks, Method, Password, Socks5, Socks4, At, InProxy
  <1>2. \/ Failed
        \/ \E pc \in {"method", "password", "socks5"} : call' = [call EXCEPT !.pc = pc]
        \/ \E list : call' = [call EXCEPT !.pc = "socks4", !.ai = list]
        \/ call' = [call EXCEPT !.pc = "session", !.reach = "node"]
        \/ call' = [call EXCEPT !.pc = "session", !.odd = "socks4"]
        \/ call.pc = "socks4" /\ \E list : call' = [call EXCEPT !.ai = list]
    <2>1. CASE Socks
      BY <2>1 DEF Socks, Go
    <2>2. CASE Method
      BY <2>2 DEF Method, Go
    <2>3. CASE Password
      BY <2>3 DEF Password, Go
    <2>4. CASE Socks5
      BY <2>4 DEF Socks5, Go
    <2>5. CASE Socks4
      BY <2>5 DEF Socks4, Go, At
    <2> QED BY <2>1, <2>2, <2>3, <2>4, <2>5
  <1>3. ASSUME NEW pc \in {"method", "password", "socks5", "socks4"}, NEW list
        PROVE  /\ IsCall([call EXCEPT !.pc = pc]) /\ IsCall([call EXCEPT !.pc = pc, !.ai = list])
               /\ call.pc = "socks4" => IsCall([call EXCEPT !.ai = list])
    BY <1>1, Dialogue
  <1>4. IsCall([call EXCEPT !.pc = "session", !.reach = "node"])
        /\ IsCall([call EXCEPT !.pc = "session", !.odd = "socks4"])
    BY <1>1, Dialogue
  <1>5. CASE Failed
    BY <1>1, <1>5, GivenUp
  <1>6. CASE \E pc \in {"method", "password", "socks5"} : call' = [call EXCEPT !.pc = pc]
    BY <1>3, <1>6
  <1>7. CASE \E list : call' = [call EXCEPT !.pc = "socks4", !.ai = list]
    BY <1>3, <1>7
  <1>8. CASE call.pc = "socks4" /\ \E list : call' = [call EXCEPT !.ai = list]
    BY <1>3, <1>8
  <1> QED BY <1>2, <1>4, <1>5, <1>6, <1>7, <1>8

LEMMA HangupStep ==
    ASSUME IsCall(call), Hangup
    PROVE  IsCall(call')
  <1> DEFINE r == Return(call, "done")
             e == Close(r)
  <1>1. call' = e /\ call.pc = "session"
    BY DEF Hangup, Go, At
  <1>2. /\ DOMAIN r = CallFields /\ r.pc = "idle" /\ r.ret = "done" /\ r.hosts = call.hosts
        /\ r.i = call.i /\ r.plist = call.plist /\ r.node = call.node
    BY DEF IsCall, Return, CallFields
  <1> HIDE DEF r
  <1>3. /\ DOMAIN e = CallFields /\ e.pc = "idle" /\ SameHosts(r, e) /\ SamePlan(r, e)
    BY <1>2, ClosedFields
  <1> HIDE DEF e
  <1>4. Hosts(e)
    BY <1>2, <1>3 DEF IsCall, Hosts, SameHosts
  <1>5. Addresses(e)
    BY <1>2, <1>3 DEF IsCall, Addresses, Early, Addressing, Family, SamePlan
  <1>6. Connection(e)
    BY <1>3 DEF Connection, Early, Addressing, InProxy
  <1> QED BY <1>1, <1>3, <1>4, <1>5, <1>6 DEF IsCall

-----------------------------------------------------------------------------
(* Every step of the call, and the two theorems about it. *)

LEMMA StartStep ==
    ASSUME ConfigInv, NEW a \in Links, StartCall(a)
    PROVE  IsCall(call')
  <1> DEFINE t == get_node_info(cfg.table, a, cfg.havedefnode)
             i == search_for_node(t, a)
             n == t.nodes[i]
             d == [NoCall EXCEPT !.pc = "hook", !.node = n, !.hosts = n.hosts,
                                 !.proxy = cfg.proxy, !.socks = cfg.socks]
  <1>1. Complete(t) /\ i \in 0..Len(t.nodes)
    BY StartTable
  <1>2. call' = NoCall \/ (i # 0 /\ call' = d)
    BY DEF StartCall
  <1> HIDE DEF t, i
  <1>3. CASE i # 0
    <2>1. IsTable(t) /\ Len(t.nodes) \in Nat
      BY <1>1, TableFacts DEF Complete
    <2>2. i \in 1..Len(t.nodes)
      BY <1>1, <1>3, <2>1
    <2>3. IsNode(n)
      BY <2>1, <2>2, TableFacts
    <2> HIDE DEF n
    <2>4. IsCall(d)
      BY <2>3, Started
    <2> QED BY <1>2, <2>4, NoCallIsCall
  <1> QED BY <1>2, <1>3, NoCallIsCall

LEMMA DiallingStep ==
    ASSUME IsCall(call), Dialling
    PROVE  IsCall(call')
  BY HookStep, ProxyStep, HostStep, PipeStep, ResolveStep, AddressStep, BindStep, ConnectStep,
     HTTPStep, ProxyDialogue, HangupStep DEF Dialling

CallInv == IsCall(call)

LEMMA CallStep ==
    ASSUME ConfigInv, CallInv, [Next]_vars
    PROVE  CallInv'
  <1>1. CASE Reading \/ TakeConfig \/ Exit \/ Recheck \/ UNCHANGED vars
    BY <1>1 DEF CallInv, Reading, TakeConfig, Exit, Recheck, vars
  <1>2. CASE Dialling
    BY <1>2, DiallingStep DEF CallInv
  <1>3. CASE \E a \in Links : StartCall(a)
    BY <1>3, StartStep DEF CallInv
  <1> QED BY <1>1, <1>2, <1>3 DEF Next

LEMMA CallAlways == Spec => []CallInv
  <1>1. Init => CallInv
    BY NoCallIsCall DEF Init, CallInv
  <1> QED BY <1>1, CallStep, ConfigAlways, PTL DEF Spec

(* A session runs over a connection that reaches the node the way the
   configuration says: through the proxies it asks for, none with -noproxy,
   and an address of the family asked for (call0 and h_connect). *)
THEOREM SessionIsReached == Spec => []SessionReaches
  <1>1. CallInv => SessionReaches
    <2> SUFFICES ASSUME CallInv, call.pc = "session", call.odd = "" PROVE Reached(call)
      BY DEF SessionReaches, At, Reached, FamilyOk, Family
    <2> QED BY DEF CallInv, IsCall, Connection
  <1> QED BY <1>1, CallAlways, PTL

(* A call that has failed went through all the hosts, and when it goes on to
   the next one, every valid address of the last was tried; for the addresses
   of a proxy that -46 or -64 reorder, for this host or for one before it in
   the same call (the two loops of call0, which share the proxy's list). *)
THEOREM AllAreTried == Spec => []AllTried
  <1>1. CallInv => AllTried
    BY DEF CallInv, IsCall, Hosts, Addresses, Early, AllTried, At
  <1> QED BY <1>1, CallAlways, PTL
=============================================================================
