-------------------------- MODULE DataPathProofs --------------------------
(***************************************************************************)
(* The proof that the bytes of a session are a queue of whole frames       *)
(* (FramesInOrder: Framing implements FrameStream), for files of any       *)
(* sizes, any sizes of the buffers, and sockets that take and give any     *)
(* number of bytes.                                                        *)
(*                                                                         *)
(* The bytes on the wire, in obuf and in the message queue, one after the  *)
(* other, are the way. The invariant says of it: what was read of the      *)
(* first frame, the way, and the bytes lost when the sender ended, are     *)
(* together the encoded frames that are underway (Carries); and byte i of  *)
(* the way was encrypted where the receiver will be in its key stream      *)
(* after i bytes, up to where the sender is now (KeysMatch). So a header   *)
(* that is read is the header of the first frame, and as many bytes as it  *)
(* tells are the body of it, however they came. DataInv adds what the      *)
(* session must know of the files for its blocks to fit: the codec never   *)
(* gives more than oblksize, and an offset that is asked for is one that   *)
(* the remote has.                                                         *)
(*                                                                         *)
(* The first parts are about FlattenSeq, a table filled step by step (a    *)
(* recursive function; that it exists is FoldExists, from the well-        *)
(* ordering of Nat), about bytes and the key stream, and about headers.    *)
(***************************************************************************)
EXTENDS DataPath, SequenceTheorems, WellFoundedInduction, TLAPS

(* A set of numbers that is not empty has a least one.                     *)
LEMMA Least ==
    ASSUME NEW T \in SUBSET Nat, T # {}
    PROVE  \E n \in T : \A m \in T : n <= m
  <1>1. IsWellFoundedOn(OpToRel(<, Nat), Nat)
    BY NatLessThanWellFounded
  <1>2. PICK n \in T : \A m \in T : ~(<<m, n>> \in OpToRel(<, Nat))
    BY <1>1, WFMin
  <1>3. \A m \in T : ~(m < n)
    BY <1>2 DEF OpToRel
  <1>4. n \in Nat /\ \A m \in T : m \in Nat
    BY <1>2
  <1> QED BY <1>3, <1>4

(* Induction up to a bound.                                                *)
LEMMA UpTo ==
    ASSUME NEW n \in Nat, NEW T, 0 \in T, \A m \in 1..n : m - 1 \in T => m \in T
    PROVE  \A m \in 0..n : m \in T
  <1> DEFINE Bad == {k \in 0..n : k \notin T}
  <1>1. SUFFICES ASSUME Bad # {} PROVE FALSE
    OBVIOUS
  <1>2. PICK k \in Bad : \A m \in Bad : k <= m
    <2>1. Bad \in SUBSET Nat
      OBVIOUS
    <2> QED
      <3> HIDE DEF Bad
      <3> QED BY <2>1, <1>1, Least
  <1>3. k \in 1..n /\ k - 1 \in 0..n /\ k - 1 \notin Bad
    <2>1. k # 0 /\ k \in Nat /\ k <= n
      BY <1>2
    <2>2. k - 1 \in Nat /\ ~(k <= k - 1)
      BY <2>1
    <2> QED BY <2>1, <2>2, <1>2
  <1> QED BY <1>2, <1>3

(* g is the table that starts with b and is filled by the operations op. *)
Follows(g, n, b, op) == g[0] = b /\ \A i \in 1..n : g[i] = op[i][g[i - 1]]

(* A table that is filled step by step exists.                             *)
LEMMA FoldExists ==
    ASSUME NEW n \in Nat, NEW T, NEW b \in T, NEW op \in [1..n -> [T -> T]]
    PROVE  \E g \in [0..n -> T] : Follows(g, n, b, op)
  <1> DEFINE Good == {k \in 0..n : \E g \in [0..k -> T] : Follows(g, k, b, op)}
  <1>1. 0 \in Good
    <2> DEFINE g == [i \in 0..0 |-> b]
    <2>1. g \in [0..0 -> T] /\ Follows(g, 0, b, op)
      BY DEF Follows
    <2> QED BY <2>1
  <1>2. ASSUME NEW k \in 1..n, k - 1 \in Good PROVE k \in Good
    <2>1. PICK g \in [0..(k - 1) -> T] : Follows(g, k - 1, b, op)
      BY <1>2
    <2> DEFINE h == [i \in 0..k |-> IF i < k THEN g[i] ELSE op[k][g[k - 1]]]
    <2>2. h \in [0..k -> T]
      BY <2>1
    <2>3. h[0] = b
      BY <2>1 DEF Follows
    <2>4. ASSUME NEW i \in 1..k PROVE h[i] = op[i][h[i - 1]]
      <3>1. CASE i = k
        BY <3>1, <2>1
      <3>2. CASE i < k
        <4>1. i \in 1..(k - 1) /\ i - 1 \in 0..k /\ i - 1 < k
          BY <3>2
        <4>2. g[i] = op[i][g[i - 1]]
          BY <4>1, <2>1 DEF Follows
        <4> QED BY <4>1, <4>2, <3>2
      <3> QED BY <3>1, <3>2
    <2>5. Follows(h, k, b, op)
      <3> HIDE DEF h
      <3> QED BY <2>3, <2>4 DEF Follows
    <2> HIDE DEF h
    <2> QED BY <2>2, <2>5
  <1> HIDE DEF Good
  <1>3. \A m \in 0..n : m \in Good
    BY <1>1, <1>2, UpTo
  <1>4. n \in Good
    BY <1>3
  <1> QED BY <1>4 DEF Good
-----------------------------------------------------------------------------
(* FlattenSeq as a table: entry i holds the first i sequences.             *)
Flattens(g, s) ==
    /\ g[1] = s[1]
    /\ \A i \in 2..Len(s) : g[i] = g[i - 1] \o s[i]

(* What FlattenSeq makes of nothing, of one sequence more and of two lists of sequences. *)
LEMMA FlatEmpty == FlattenSeq(<<>>) = <<>>
  BY DEF FlattenSeq

(* FlattenSeq reads its result from such a table.                          *)
LEMMA FlatTable ==
    ASSUME NEW S, NEW s \in Seq(Seq(S)), s # <<>>
    PROVE  \E g : Flattens(g, s) /\ FlattenSeq(s) = g[Len(s)]
  <1> DEFINE n == Len(s)
             T == Seq(S)
             Body(f) == [i \in 1..Len(s) |-> IF i = 1 THEN s[i] ELSE f[i-1] \o s[i]]
             flat == CHOOSE f : f = Body(f)
             op == [i \in 1..n |-> [t \in T |-> t \o s[i]]]
  <1>1. n \in Nat /\ n # 0 /\ <<>> \in T /\ op \in [1..n -> [T -> T]]
    OBVIOUS
  <1>2. PICK g \in [0..n -> T] : Follows(g, n, <<>>, op)
    <2> HIDE DEF op, T, n
    <2> QED BY <1>1, FoldExists
  <1>d. DEFINE h == [i \in 1..n |-> g[i]]
  <1>3. h = Body(h)
    <2>1. ASSUME NEW m \in 1..n PROVE h[m] = Body(h)[m]
      <3>0. g[m] = op[m][g[m - 1]] /\ g[m - 1] \in T /\ s[m] \in Seq(S)
        <4>1. m - 1 \in 0..n /\ n \in Nat
          BY <1>1
        <4>2. g[m] = op[m][g[m - 1]]
          <5> HIDE DEF op, T
          <5> QED BY <1>2 DEF Follows
        <4>3. g[m - 1] \in T
          BY <4>1, <1>2
        <4> QED BY <4>2, <4>3
      <3>1. CASE m = 1
        <4>1. g[0] = <<>>
          BY <1>2 DEF Follows
        <4>2. g[1] = op[1][<<>>]
          <5> HIDE DEF op, T
          <5> QED BY <4>1, <3>0, <3>1
        <4>3. op[1][<<>>] = <<>> \o s[1] /\ <<>> \o s[1] = s[1]
          BY <3>1, <3>0
        <4> QED BY <4>2, <4>3, <3>1
      <3>2. CASE m # 1
        <4>1. m - 1 \in 1..n
          BY <3>2
        <4> QED BY <4>1, <3>0, <3>2
      <3> QED BY <3>1, <3>2
    <2>2. Body(h) = [m \in 1..n |-> Body(h)[m]]
      OBVIOUS
    <2>3. h = [m \in 1..n |-> h[m]]
      OBVIOUS
    <2> HIDE DEF Body, h
    <2> QED BY <2>1, <2>2, <2>3
  <1>4. flat = Body(flat)
    <2> HIDE DEF Body, h
    <2> QED BY <1>3
  <1>5. FlattenSeq(s) = flat[n]
    BY <1>1 DEF FlattenSeq
  <1> HIDE DEF flat
  <1>6. flat[1] = s[1]
    BY <1>4, <1>1
  <1>7. ASSUME NEW i \in 2..n PROVE flat[i] = flat[i - 1] \o s[i]
    <2>1. i \in 1..n /\ i # 1
      OBVIOUS
    <2>2. flat[i] = Body(flat)[i]
      <3> HIDE DEF Body
      <3> QED BY <1>4
    <2>3. Body(flat)[i] = flat[i - 1] \o s[i]
      BY <2>1
    <2> QED BY <2>2, <2>3
  <1>8. Flattens(flat, s)
    BY <1>6, <1>7 DEF Flattens
  <1> QED BY <1>8, <1>5

LEMMA FlatTyped ==
    ASSUME NEW S, NEW s \in Seq(Seq(S)), NEW g, Flattens(g, s)
    PROVE  \A i \in 1..Len(s) : g[i] \in Seq(S)
  <1> DEFINE T == {i \in 0..Len(s) : i = 0 \/ g[i] \in Seq(S)}
  <1>1. ASSUME NEW m \in 1..Len(s), m - 1 \in T PROVE m \in T
    <2>1. CASE m = 1
      <3>1. g[1] = s[1] /\ s[1] \in Seq(S) /\ m \in 0..Len(s)
        BY <2>1 DEF Flattens
      <3>2. g[m] \in Seq(S) /\ m \in 0..Len(s)
        BY <3>1, <2>1
      <3> QED BY <3>2
    <2>2. CASE m # 1
      <3>1. m \in 2..Len(s) /\ g[m - 1] \in Seq(S) /\ s[m] \in Seq(S)
        BY <2>2, <1>1
      <3>2. g[m] = g[m - 1] \o s[m]
        BY <3>1 DEF Flattens
      <3>3. g[m] \in Seq(S) /\ m \in 0..Len(s)
        BY <3>1, <3>2
      <3> QED BY <3>3
    <2> QED BY <2>1, <2>2
  <1>2. 0 \in T /\ Len(s) \in Nat
    OBVIOUS
  <1>3. \A m \in 0..Len(s) : m \in T
    <2> HIDE DEF T
    <2> QED BY <1>1, <1>2, UpTo
  <1> QED BY <1>3

LEMMA FlatType ==
    ASSUME NEW S, NEW s \in Seq(Seq(S))
    PROVE  FlattenSeq(s) \in Seq(S)
  <1>1. CASE s = <<>>
    <2>1. FlattenSeq(s) = <<>> /\ <<>> \in Seq(S)
      BY <1>1, FlatEmpty
    <2> QED BY <2>1
  <1>2. CASE s # <<>>
    <2>1. PICK g : Flattens(g, s) /\ FlattenSeq(s) = g[Len(s)]
      BY <1>2, FlatTable
    <2>2. Len(s) \in 1..Len(s)
      BY <1>2
    <2>3. g[Len(s)] \in Seq(S)
      BY <2>1, <2>2, FlatTyped
    <2> QED BY <2>1, <2>3
  <1> QED BY <1>1, <1>2

LEMMA FlatAppend ==
    ASSUME NEW S, NEW s \in Seq(Seq(S)), NEW e \in Seq(S)
    PROVE  FlattenSeq(Append(s, e)) = FlattenSeq(s) \o e
  <1> DEFINE a == Append(s, e)
             n == Len(s)
  <1>1. /\ a \in Seq(Seq(S)) /\ a # <<>> /\ Len(a) = n + 1 /\ n \in Nat
        /\ a[n + 1] = e /\ \A i \in 1..n : a[i] = s[i]
    BY AppendProperties
  <1> HIDE DEF a
  <1>2. PICK g : Flattens(g, a) /\ FlattenSeq(a) = g[n + 1]
    BY <1>1, FlatTable
  <1>3. CASE s = <<>>
    <2>1. n = 0 /\ g[1] = e
      BY <1>1, <1>2, <1>3 DEF Flattens
    <2>2. <<>> \o e = e
      OBVIOUS
    <2> QED BY <2>1, <2>2, <1>2, <1>3, FlatEmpty DEF a
  <1>4. CASE s # <<>>
    <2>1. PICK h : Flattens(h, s) /\ FlattenSeq(s) = h[n]
      BY <1>4, FlatTable
    <2> DEFINE T == {i \in 0..n : i = 0 \/ g[i] = h[i]}
    <2>2. ASSUME NEW m \in 1..n, m - 1 \in T PROVE m \in T
      <3>1. CASE m = 1
        <4>1. g[1] = a[1] /\ h[1] = s[1] /\ a[1] = s[1]
          BY <3>1, <2>1, <1>2, <1>1 DEF Flattens
        <4>2. 1 \in 0..n
          BY <3>1
        <4>3. g[m] = h[m] /\ m \in 0..n
          BY <4>1, <4>2, <3>1
        <4> QED BY <4>3
      <3>2. CASE m # 1
        <4>1. m \in 2..n /\ m \in 2..Len(a) /\ g[m - 1] = h[m - 1] /\ a[m] = s[m]
          BY <3>2, <2>2, <1>1
        <4>2. g[m] = g[m - 1] \o a[m] /\ h[m] = h[m - 1] \o s[m]
          BY <4>1, <2>1, <1>2 DEF Flattens
        <4>3. g[m] = h[m] /\ m \in 0..n
          BY <4>1, <4>2
        <4> QED BY <4>3
      <3> QED BY <3>1, <3>2
    <2>3. 0 \in T
      OBVIOUS
    <2>4. \A m \in 0..n : m \in T
      <3> HIDE DEF T
      <3> QED BY <2>2, <2>3, <1>1, UpTo
    <2>5. n # 0 /\ g[n] = h[n]
      BY <2>4, <1>1, <1>4
    <2>6. g[n + 1] = g[n] \o a[n + 1]
      <3>1. n + 1 \in 2..Len(a) /\ (n + 1) - 1 = n
        BY <2>5, <1>1
      <3> QED BY <3>1, <1>2 DEF Flattens
    <2> QED BY <2>1, <2>5, <2>6, <1>1, <1>2 DEF a
  <1> QED BY <1>3, <1>4

LEMMA FlatConcat ==
    ASSUME NEW S, NEW s \in Seq(Seq(S)), NEW t \in Seq(Seq(S))
    PROVE  FlattenSeq(s \o t) = FlattenSeq(s) \o FlattenSeq(t)
  <1> DEFINE n == Len(t)
             F(k) == SubSeq(t, 1, k)
             T == {k \in 0..n : FlattenSeq(s \o F(k)) = FlattenSeq(s) \o FlattenSeq(F(k))}
  <1>0. n \in Nat
    OBVIOUS
  <1>1. 0 \in T
    <2>1. F(0) = <<>> /\ s \o <<>> = s
      OBVIOUS
    <2> DEFINE u == FlattenSeq(s)
    <2>2. u \in Seq(S)
      BY FlatType
    <2> HIDE DEF u
    <2>3. u \o <<>> = u
      BY <2>2
    <2>4. FlattenSeq(s) \o <<>> = FlattenSeq(s)
      BY <2>3 DEF u
    <2>5. FlattenSeq(s \o F(0)) = FlattenSeq(s) \o FlattenSeq(F(0))
      BY <2>1, <2>4, FlatEmpty
    <2> QED BY <2>5, <1>0
  <1>2. ASSUME NEW m \in 1..n, m - 1 \in T PROVE m \in T
    <2> DEFINE p == F(m - 1)
               e == t[m]
    <2>1. p \in Seq(Seq(S)) /\ e \in Seq(S) /\ F(m) = Append(p, e)
      OBVIOUS
    <2>2. FlattenSeq(s \o p) = FlattenSeq(s) \o FlattenSeq(p)
      BY <1>2
    <2> HIDE DEF p, e
    <2>3. s \o Append(p, e) = Append(s \o p, e) /\ s \o p \in Seq(Seq(S))
      BY <2>1
    <2>4. FlattenSeq(Append(s \o p, e)) = FlattenSeq(s \o p) \o e
      BY <2>1, <2>3, FlatAppend
    <2>5. FlattenSeq(Append(p, e)) = FlattenSeq(p) \o e
      BY <2>1, FlatAppend
    <2>6. FlattenSeq(s) \in Seq(S) /\ FlattenSeq(p) \in Seq(S)
      BY <2>1, FlatType
    <2>7. (FlattenSeq(s) \o FlattenSeq(p)) \o e = FlattenSeq(s) \o (FlattenSeq(p) \o e)
      <3>1. e \in Seq(S)
        BY <2>1
      <3> DEFINE u == FlattenSeq(s)
                 v == FlattenSeq(p)
      <3>2. u \in Seq(S) /\ v \in Seq(S)
        BY <2>6
      <3> HIDE DEF u, v, T, F, n
      <3>3. (u \o v) \o e = u \o (v \o e)
        BY <3>1, <3>2, ConcatAssociative
      <3> QED BY <3>3 DEF u, v
    <2>8. FlattenSeq(s \o F(m)) = FlattenSeq(s) \o FlattenSeq(F(m))
      BY <2>1, <2>2, <2>3, <2>4, <2>5, <2>7
    <2> QED BY <2>8
  <1>3. \A m \in 0..n : m \in T
    <2> HIDE DEF T, n
    <2> QED BY <1>0, <1>1, <1>2, UpTo
  <1>4. n \in T /\ F(n) = t
    BY <1>3, <1>0
  <1> QED BY <1>4
-----------------------------------------------------------------------------
(* Bytes under way, what they say and whether a reader whose key stream    *)
(* stands at key reads it                                                  *)
Bytes == [v : Octets, k : Int]
Keys == Nat \cup {Off}
Values(b) == [i \in DOMAIN b |-> b[i].v]
Keyed(b, key) == \A i \in 1..Len(b) : b[i].k = IF key = Off THEN Off ELSE key + i

(* Steps of the key stream add up.                                         *)
LEMMA StepKeys ==
    ASSUME NEW key \in Keys, NEW n \in Nat, NEW m \in Nat
    PROVE  /\ step_keys(key, n) \in Keys
           /\ step_keys(key, 0) = key
           /\ step_keys(step_keys(key, n), m) = step_keys(key, n + m)
  BY DEF step_keys, Keys, Off

(* What bytes say is as long as they are, and is strung like them.         *)
LEMMA ValuesType ==
    ASSUME NEW b \in Seq(Bytes)
    PROVE  Values(b) \in Seq(Octets) /\ Len(Values(b)) = Len(b)
  <1>1. DOMAIN b = 1..Len(b) /\ Len(b) \in Nat
    OBVIOUS
  <1>2. \A i \in 1..Len(b) : b[i].v \in Octets
    <2>1. \A x \in Bytes : x.v \in Octets
      BY DEF Bytes
    <2>2. \A i \in 1..Len(b) : b[i] \in Bytes
      OBVIOUS
    <2> QED BY <2>1, <2>2
  <1>3. Values(b) = [i \in 1..Len(b) |-> b[i].v]
    BY <1>1 DEF Values
  <1> QED BY <1>1, <1>2, <1>3

LEMMA ValuesConcat ==
    ASSUME NEW a \in Seq(Bytes), NEW b \in Seq(Bytes)
    PROVE  Values(a \o b) = Values(a) \o Values(b)
  <1>1. /\ Values(a) \in Seq(Octets) /\ Len(Values(a)) = Len(a)
        /\ Values(b) \in Seq(Octets) /\ Len(Values(b)) = Len(b)
    BY ValuesType
  <1>2. /\ a \o b \in Seq(Bytes) /\ Len(a \o b) = Len(a) + Len(b)
        /\ \A i \in 1..(Len(a) + Len(b)) :
              (a \o b)[i] = IF i <= Len(a) THEN a[i] ELSE b[i - Len(a)]
    BY ConcatProperties
  <1> DEFINE c == a \o b
             x == Values(a)
             y == Values(b)
  <1>3. Values(c) \in Seq(Octets) /\ Len(Values(c)) = Len(a) + Len(b)
    BY <1>2, ValuesType
  <1>4. x \in Seq(Octets) /\ y \in Seq(Octets) /\ Len(x) = Len(a) /\ Len(y) = Len(b)
    BY <1>1
  <1>5. /\ \A i \in 1..Len(a) : x[i] = a[i].v
        /\ \A i \in 1..Len(b) : y[i] = b[i].v
        /\ \A i \in 1..Len(c) : Values(c)[i] = c[i].v
    BY <1>2 DEF Values
  <1> HIDE DEF c, x, y
  <1>6. /\ x \o y \in Seq(Octets) /\ Len(x \o y) = Len(a) + Len(b)
        /\ \A i \in 1..(Len(a) + Len(b)) :
              (x \o y)[i] = IF i <= Len(a) THEN x[i] ELSE y[i - Len(a)]
    <2>1. /\ x \o y \in Seq(Octets) /\ Len(x \o y) = Len(x) + Len(y)
          /\ \A i \in 1..(Len(x) + Len(y)) :
                (x \o y)[i] = IF i <= Len(x) THEN x[i] ELSE y[i - Len(x)]
      BY <1>4, ConcatProperties
    <2> QED BY <2>1, <1>4
  <1>7. ASSUME NEW i \in 1..(Len(a) + Len(b)) PROVE Values(c)[i] = (x \o y)[i]
    <2>1. Values(c)[i] = c[i].v /\ Len(a) \in Nat /\ Len(b) \in Nat
      BY <1>2, <1>5 DEF c
    <2>2. CASE i <= Len(a)
      BY <2>1, <2>2, <1>2, <1>5, <1>6 DEF c
    <2>3. CASE ~(i <= Len(a))
      <3>1. i - Len(a) \in 1..Len(b)
        BY <2>3, <2>1
      <3> QED BY <2>1, <2>3, <3>1, <1>2, <1>5, <1>6 DEF c
    <2> QED BY <2>2, <2>3
  <1>8. Values(c) = x \o y
    BY <1>3, <1>6, <1>7, SeqEqual
  <1> QED BY <1>8 DEF c, x, y

(* Two stretches of bytes are read one after the other, each at its place. *)
LEMMA KeyedConcat ==
    ASSUME NEW a \in Seq(Bytes), NEW b \in Seq(Bytes), NEW key \in Keys
    PROVE  Keyed(a \o b, key) <=> Keyed(a, key) /\ Keyed(b, step_keys(key, Len(a)))
  <1>1. /\ a \o b \in Seq(Bytes) /\ Len(a \o b) = Len(a) + Len(b)
        /\ Len(a) \in Nat /\ Len(b) \in Nat
        /\ \A i \in 1..(Len(a) + Len(b)) :
              (a \o b)[i] = IF i <= Len(a) THEN a[i] ELSE b[i - Len(a)]
    BY ConcatProperties
  <1> DEFINE c == a \o b
  <1>2. /\ Len(c) = Len(a) + Len(b)
        /\ \A i \in 1..Len(a) : c[i] = a[i] /\ i \in 1..Len(c)
        /\ \A i \in 1..Len(b) : c[Len(a) + i] = b[i] /\ Len(a) + i \in 1..Len(c)
    BY <1>1
  <1> HIDE DEF c
  <1>3. \A i \in 1..Len(c) : i \in 1..Len(a) \/ \E j \in 1..Len(b) : i = Len(a) + j
    <2>1. SUFFICES ASSUME NEW i \in 1..Len(c), i \notin 1..Len(a)
                   PROVE  \E j \in 1..Len(b) : i = Len(a) + j
      OBVIOUS
    <2>2. i - Len(a) \in 1..Len(b) /\ i = Len(a) + (i - Len(a))
      BY <2>1, <1>1, <1>2
    <2> QED BY <2>2
  <1>4. CASE key = Off
    <2>1. step_keys(key, Len(a)) = Off
      BY <1>4 DEF step_keys
    <2>2. ASSUME Keyed(c, key) PROVE Keyed(a, key) /\ Keyed(b, Off)
      BY <2>2, <1>2, <1>4 DEF Keyed
    <2>3. ASSUME Keyed(a, key), Keyed(b, Off) PROVE Keyed(c, key)
      <3>1. ASSUME NEW i \in 1..Len(c) PROVE c[i].k = Off
        <4>1. CASE i \in 1..Len(a)
          BY <4>1, <2>3, <1>2, <1>4 DEF Keyed
        <4>2. CASE i \notin 1..Len(a)
          <5>1. PICK j \in 1..Len(b) : i = Len(a) + j
            BY <4>2, <1>3
          <5>2. b[j].k = Off
            BY <2>3 DEF Keyed
          <5> QED BY <5>1, <5>2, <1>2
        <4> QED BY <4>1, <4>2
      <3> QED BY <3>1, <1>4 DEF Keyed
    <2> QED BY <2>1, <2>2, <2>3 DEF c
  <1>5. CASE key # Off
    <2>1. step_keys(key, Len(a)) = key + Len(a) /\ key \in Nat /\ key + Len(a) # Off
      BY <1>5, <1>1 DEF step_keys, Keys, Off
    <2>2. ASSUME Keyed(c, key) PROVE Keyed(a, key) /\ Keyed(b, key + Len(a))
      <3>1. Keyed(a, key)
        BY <2>2, <1>2, <1>5 DEF Keyed
      <3>2. ASSUME NEW i \in 1..Len(b) PROVE b[i].k = (key + Len(a)) + i
        <4>1. c[Len(a) + i].k = key + (Len(a) + i)
          BY <2>2, <1>2, <1>5 DEF Keyed
        <4> QED BY <4>1, <1>2, <2>1, <1>1
      <3> QED BY <3>1, <3>2, <2>1 DEF Keyed
    <2>3. ASSUME Keyed(a, key), Keyed(b, key + Len(a)) PROVE Keyed(c, key)
      <3>1. ASSUME NEW i \in 1..Len(c) PROVE c[i].k = key + i
        <4>1. CASE i \in 1..Len(a)
          BY <4>1, <2>3, <1>2, <1>5 DEF Keyed
        <4>2. CASE i \notin 1..Len(a)
          <5>1. PICK j \in 1..Len(b) : i = Len(a) + j
            BY <4>2, <1>3
          <5>2. b[j].k = (key + Len(a)) + j
            BY <2>3, <2>1 DEF Keyed
          <5> QED BY <5>1, <5>2, <1>2, <2>1, <1>1
        <4> QED BY <4>1, <4>2
      <3> QED BY <3>1, <1>5 DEF Keyed
    <2> QED BY <2>1, <2>2, <2>3 DEF c
  <1> QED BY <1>4, <1>5

(* What is decrypted at the place where it was encrypted is what was sent. *)
LEMMA Encrypted ==
    ASSUME NEW m \in Seq(Octets), NEW key \in Keys
    PROVE  /\ encrypt_buf(m, key) \in Seq(Bytes) /\ Len(encrypt_buf(m, key)) = Len(m)
           /\ Values(encrypt_buf(m, key)) = m
           /\ Keyed(encrypt_buf(m, key), key)
  <1> DEFINE b == [i \in 1..Len(m) |-> [v |-> m[i], k |-> IF key = Off THEN Off ELSE key + i]]
  <1>1. DOMAIN m = 1..Len(m) /\ Len(m) \in Nat /\ encrypt_buf(m, key) = b
    BY DEF encrypt_buf
  <1>2. ASSUME NEW i \in 1..Len(m)
        PROVE  [v |-> m[i], k |-> IF key = Off THEN Off ELSE key + i] \in Bytes
    BY DEF Bytes, Off, Keys
  <1>3. b \in Seq(Bytes) /\ Len(b) = Len(m)
    BY <1>1, <1>2
  <1>4. \A i \in 1..Len(m) : b[i].v = m[i] /\ b[i].k = IF key = Off THEN Off ELSE key + i
    OBVIOUS
  <1> HIDE DEF b
  <1>5. Values(b) = m
    <2>1. Values(b) \in Seq(Octets) /\ Len(Values(b)) = Len(m)
      BY <1>3, ValuesType
    <2>2. DOMAIN b = 1..Len(m)
      BY <1>3
    <2>3. \A i \in 1..Len(m) : Values(b)[i] = m[i]
      BY <1>4, <2>2 DEF Values
    <2> QED BY <2>1, <2>3, SeqEqual
  <1>6. Keyed(b, key)
    BY <1>3, <1>4 DEF Keyed
  <1> QED BY <1>1, <1>3, <1>5, <1>6

(* A reader at the right place reads what was sent.                        *)
LEMMA Decrypted ==
    ASSUME NEW b \in Seq(Bytes), NEW key \in Keys, Keyed(b, key)
    PROVE  decrypt_buf(b, key) = Values(b)
  <1>1. DOMAIN b = 1..Len(b)
    OBVIOUS
  <1>2. \A i \in 1..Len(b) : b[i].k = IF key = Off THEN Off ELSE key + i
    BY DEF Keyed
  <1> QED BY <1>1, <1>2 DEF decrypt_buf, Values
-----------------------------------------------------------------------------
(* The two bytes of a header hold a length and the message bit.            *)
LEMMA NumbersOf ==
    ASSUME NEW n \in Nat, n < 32768
    PROVE  /\ (n \div 256) \div 128 # 1
           /\ ((n \div 256) % 128) * 256 + (n % 256) = n
           /\ ((n + 32768) \div 256) \div 128 = 1
           /\ (((n + 32768) \div 256) % 128) * 256 + ((n + 32768) % 256) = n
  <1>1. (n \div 256) \div 128 # 1
    OBVIOUS
  <1>2. ((n \div 256) % 128) * 256 + (n % 256) = n
    OBVIOUS
  <1>3. ((n + 32768) \div 256) \div 128 = 1
    <2> DEFINE u == n + 32768
    <2>1. u \in Nat /\ 32768 <= u /\ u < 65536
      OBVIOUS
    <2> HIDE DEF u
    <2>2. u \div 256 \in Nat /\ 128 <= u \div 256 /\ u \div 256 < 256
      BY <2>1
    <2>3. (u \div 256) \div 128 = 1
      BY <2>2
    <2> QED BY <2>3 DEF u
  <1>4. (((n + 32768) \div 256) % 128) * 256 + ((n + 32768) % 256) = n
    <2> DEFINE u == n + 32768
    <2>1. u \in Nat /\ u = n + 32768
      OBVIOUS
    <2> HIDE DEF u
    <2>2. ((u \div 256) % 128) * 256 + (u % 256) = n
      BY <2>1
    <2> QED BY <2>2 DEF u
  <1> QED BY <1>1, <1>2, <1>3, <1>4

LEMMA Numbers ==
    ASSUME NEW n \in Nat, n < MsgBit
    PROVE  /\ (n \div 256) \div 128 # 1
           /\ ((n \div 256) % 128) * 256 + (n % 256) = n
           /\ ((n + MsgBit) \div 256) \div 128 = 1
           /\ (((n + MsgBit) \div 256) % 128) * 256 + ((n + MsgBit) % 256) = n
  BY NumbersOf DEF MsgBit

LEMMA MsgBitType == MsgBit \in Nat
  BY DEF MsgBit

(* A header is two bytes.                                                  *)
LEMMA Pair ==
    ASSUME NEW a \in Nat, NEW b \in Nat, NEW h, h = <<a, b>>
    PROVE  h \in Seq(Octets) /\ Len(h) = 2 /\ h[1] = a /\ h[2] = b
  BY DEF Octets

(* h is the header of a frame of n bytes. *)
Heads(h, msg, n) ==
    /\ h \in Seq(Octets) /\ Len(h) = 2
    /\ hdr_imsg(h) = msg /\ hdr_isize(h) = n

LEMMA HeaderMsg ==
    ASSUME NEW n \in Nat, n < MsgBit
    PROVE  Heads(mkhdr(n + MsgBit), TRUE, n)
  <1> DEFINE a == (n + MsgBit) \div 256
             b == (n + MsgBit) % 256
             h == mkhdr(n + MsgBit)
  <1>1. h = <<a, b>>
    BY DEF mkhdr
  <1>2. a \in Nat /\ b \in Nat
    BY MsgBitType
  <1>3. a \div 128 = 1 /\ (a % 128) * 256 + b = n
    BY Numbers
  <1> HIDE DEF a, b, h
  <1>4. h \in Seq(Octets) /\ Len(h) = 2 /\ h[1] = a /\ h[2] = b
    BY <1>1, <1>2, Pair
  <1>5. hdr_isize(h) = n
    BY <1>2, <1>3, <1>4 DEF hdr_isize
  <1>6. hdr_imsg(h) <=> a \div 128 = 1
    BY <1>2, <1>4 DEF hdr_imsg
  <1>7. hdr_imsg(h) \in BOOLEAN
    BY DEF hdr_imsg
  <1> QED BY <1>3, <1>4, <1>5, <1>6, <1>7 DEF Heads, h

LEMMA HeaderData ==
    ASSUME NEW n \in Nat, n < MsgBit
    PROVE  Heads(mkhdr(n), FALSE, n)
  <1> DEFINE a == n \div 256
             b == n % 256
             h == mkhdr(n)
  <1>1. h = <<a, b>>
    BY DEF mkhdr
  <1>2. a \in Nat /\ b \in Nat
    OBVIOUS
  <1>3. a \div 128 # 1 /\ (a % 128) * 256 + b = n
    BY Numbers
  <1> HIDE DEF a, b, h
  <1>4. h \in Seq(Octets) /\ Len(h) = 2 /\ h[1] = a /\ h[2] = b
    BY <1>1, <1>2, Pair
  <1>5. hdr_isize(h) = n
    BY <1>2, <1>3, <1>4 DEF hdr_isize
  <1>6. hdr_imsg(h) <=> a \div 128 = 1
    BY <1>2, <1>4 DEF hdr_imsg
  <1>7. hdr_imsg(h) \in BOOLEAN
    BY DEF hdr_imsg
  <1> QED BY <1>3, <1>4, <1>5, <1>6, <1>7 DEF Heads, h

(* The parts of a frame.                                                   *)
LEMMA FrameParts ==
    ASSUME NEW f \in Frames
    PROVE  /\ f.msg \in BOOLEAN /\ f.body \in Seq(Octets)
           /\ Len(f.body) \in 0..MAX_BLKSIZE /\ Len(f.body) < MsgBit
           /\ f = Frame(f.msg, f.body)
  <1>1. f \in [msg : BOOLEAN, body : Seq(Octets)] /\ Len(f.body) <= MAX_BLKSIZE
    BY DEF Frames
  <1> DEFINE B == Seq(Octets)
  <1>2. f \in [msg : BOOLEAN, body : B]
    BY <1>1
  <1> HIDE DEF B
  <1>3. f.body \in B /\ f.msg \in BOOLEAN /\ f = [msg |-> f.msg, body |-> f.body]
    BY <1>2
  <1>4. f.body \in Seq(Octets)
    BY <1>3 DEF B
  <1>5. Len(f.body) \in Nat
    BY <1>4
  <1>6. Len(f.body) \in 0..MAX_BLKSIZE /\ Len(f.body) < MsgBit
    <2> DEFINE n == Len(f.body)
    <2>1. n \in Nat /\ n <= MAX_BLKSIZE /\ MAX_BLKSIZE \in Nat /\ MAX_BLKSIZE < MsgBit
      <3>1. n \in Nat
        BY <1>5
      <3>2. n <= MAX_BLKSIZE
        BY <1>1
      <3> HIDE DEF n
      <3> QED BY <3>1, <3>2, FramingAssumption, MsgBitType
    <2> HIDE DEF n
    <2>2. n \in 0..MAX_BLKSIZE /\ n \in Nat /\ n < MsgBit
      BY <2>1, MsgBitType
    <2> QED BY <2>2 DEF n
  <1>7. f = Frame(f.msg, f.body)
    BY <1>3 DEF Frame
  <1> QED BY <1>3, <1>4, <1>6, <1>7

Header(f) == mkhdr(Len(f.body) + (IF f.msg THEN MsgBit ELSE 0))

LEMMA Marked ==
    ASSUME NEW n \in Nat, NEW msg \in BOOLEAN
    PROVE  /\ msg = TRUE => n + (IF msg THEN MsgBit ELSE 0) = n + MsgBit
           /\ msg = FALSE => n + (IF msg THEN MsgBit ELSE 0) = n
  BY MsgBitType

(* recv_block makes of a header what mkhdr was given.                      *)
LEMMA HeaderIs ==
    ASSUME NEW f \in Frames
    PROVE  Heads(Header(f), f.msg, Len(f.body))
  <1> DEFINE n == Len(f.body)
             m == f.msg
             u == n + (IF m THEN MsgBit ELSE 0)
             h == Header(f)
  <1>1. n \in Nat /\ n < MsgBit
    BY FrameParts
  <1>2. m \in BOOLEAN
    BY FrameParts
  <1>3. h = mkhdr(u)
    BY DEF Header
  <1> HIDE DEF n, m
  <1>4. (m = TRUE => u = n + MsgBit) /\ (m = FALSE => u = n)
    BY <1>1, <1>2, Marked
  <1> HIDE DEF h, u
  <1>5. CASE m = TRUE
    <2>1. u = n + MsgBit
      BY <1>4, <1>5
    <2>2. h = mkhdr(n + MsgBit)
      BY <2>1, <1>3
    <2>3. Heads(h, TRUE, n)
      <3>1. Heads(mkhdr(n + MsgBit), TRUE, n)
        BY <1>1, HeaderMsg
      <3> QED BY <3>1, <2>2
    <2> QED BY <2>3, <1>5 DEF n, m, h
  <1>6. CASE m = FALSE
    <2>1. u = n
      BY <1>4, <1>6
    <2>2. h = mkhdr(n)
      BY <2>1, <1>3
    <2>3. Heads(h, FALSE, n)
      <3>1. Heads(mkhdr(n), FALSE, n)
        BY <1>1, HeaderData
      <3> QED BY <3>1, <2>2
    <2> QED BY <2>3, <1>6 DEF n, m, h
  <1>7. m = TRUE \/ m = FALSE
    BY <1>2
  <1> QED BY <1>5, <1>6, <1>7

(* A frame is encoded as its header and its body.                          *)
LEMMA Encodes ==
    ASSUME NEW f \in Frames
    PROVE  /\ Encode(f) = Header(f) \o f.body
           /\ Encode(f) \in Seq(Octets) /\ Len(Encode(f)) = 2 + Len(f.body)
  <1> DEFINE h == Header(f)
             b == f.body
  <1>0. Len(h) = 2
    BY HeaderIs DEF Heads
  <1>1. h \in Seq(Octets)
    BY HeaderIs DEF Heads
  <1>2. b \in Seq(Octets)
    BY FrameParts
  <1>3. Encode(f) = h \o b
    BY DEF Encode, Header
  <1> HIDE DEF h, b
  <1>4. h \o b \in Seq(Octets) /\ Len(h \o b) = Len(h) + Len(b)
    BY <1>1, <1>2
  <1> QED BY <1>0, <1>3, <1>4 DEF h, b

(* The bytes of a sequence of frames *)
Encodings(u) == [i \in DOMAIN u |-> Encode(u[i])]
Encoded(u) == FlattenSeq(Encodings(u))

LEMMA EncodingsType ==
    ASSUME NEW u \in Seq(Frames)
    PROVE  /\ Encodings(u) \in Seq(Seq(Octets)) /\ Len(Encodings(u)) = Len(u)
           /\ \A i \in 1..Len(u) : Encodings(u)[i] = Encode(u[i])
           /\ Encoded(u) \in Seq(Octets)
  <1>1. DOMAIN u = 1..Len(u) /\ Len(u) \in Nat
    OBVIOUS
  <1>2. \A i \in 1..Len(u) : Encode(u[i]) \in Seq(Octets)
    <2>1. SUFFICES ASSUME NEW i \in 1..Len(u) PROVE Encode(u[i]) \in Seq(Octets)
      OBVIOUS
    <2>2. u[i] \in Frames
      OBVIOUS
    <2> QED BY <2>2, Encodes
  <1>3. Encodings(u) = [i \in 1..Len(u) |-> Encode(u[i])]
    BY <1>1 DEF Encodings
  <1>4. Encodings(u) \in Seq(Seq(Octets)) /\ Len(Encodings(u)) = Len(u)
    BY <1>1, <1>2, <1>3
  <1>5. Encoded(u) \in Seq(Octets)
    BY <1>4, FlatType DEF Encoded
  <1> QED BY <1>3, <1>4, <1>5

LEMMA EncodedEmpty == Encoded(<<>>) = <<>>
  <1>1. Encodings(<<>>) = <<>>
    BY DEF Encodings
  <1> QED BY <1>1, FlatEmpty DEF Encoded

(* A frame more is encoded at the end, and the first frame at the beginning. *)
LEMMA EncodedAppend ==
    ASSUME NEW u \in Seq(Frames), NEW f \in Frames
    PROVE  Encoded(Append(u, f)) = Encoded(u) \o Encode(f)
  <1> DEFINE a == Append(u, f)
             e == Encodings(u)
             x == Encode(f)
  <1>1. /\ a \in Seq(Frames) /\ Len(a) = Len(u) + 1 /\ a[Len(u) + 1] = f
        /\ \A i \in 1..Len(u) : a[i] = u[i]
    BY AppendProperties
  <1>2. /\ e \in Seq(Seq(Octets)) /\ Len(e) = Len(u) /\ \A i \in 1..Len(u) : e[i] = Encode(u[i])
        /\ x \in Seq(Octets)
    BY EncodingsType, Encodes
  <1> HIDE DEF a, e, x
  <1>3. /\ Encodings(a) \in Seq(Seq(Octets)) /\ Len(Encodings(a)) = Len(u) + 1
        /\ \A i \in 1..(Len(u) + 1) : Encodings(a)[i] = Encode(a[i])
    BY <1>1, EncodingsType
  <1>4. /\ Append(e, x) \in Seq(Seq(Octets)) /\ Len(Append(e, x)) = Len(u) + 1
        /\ \A i \in 1..Len(u) : Append(e, x)[i] = e[i]
        /\ Append(e, x)[Len(u) + 1] = x
    BY <1>2, AppendProperties
  <1>5. ASSUME NEW i \in 1..(Len(u) + 1) PROVE Encodings(a)[i] = Append(e, x)[i]
    <2>1. Encodings(a)[i] = Encode(a[i])
      BY <1>3
    <2>2. CASE i = Len(u) + 1
      BY <2>1, <2>2, <1>1, <1>4 DEF x
    <2>3. CASE i # Len(u) + 1
      <3>1. i \in 1..Len(u)
        BY <2>3
      <3> QED BY <2>1, <3>1, <1>1, <1>2, <1>4
    <2> QED BY <2>2, <2>3
  <1>6. Encodings(a) = Append(e, x)
    BY <1>3, <1>4, <1>5, SeqEqual
  <1>7. FlattenSeq(Append(e, x)) = FlattenSeq(e) \o x
    BY <1>2, FlatAppend
  <1> QED BY <1>6, <1>7 DEF Encoded, a, e, x

LEMMA OneMore ==
    ASSUME NEW S, NEW a \in Seq(S), NEW b \in Seq(S), Len(a) = 1, NEW n \in Int, Len(b) = n
    PROVE  /\ a \o b \in Seq(S) /\ Len(a \o b) = 1 + n
           /\ \A i \in 1..(1 + n) : (a \o b)[i] = IF i <= 1 THEN a[i] ELSE b[i - 1]
  <1>1. /\ a \o b \in Seq(S) /\ Len(a \o b) = Len(a) + Len(b)
        /\ \A i \in 1..(Len(a) + Len(b)) :
              (a \o b)[i] = IF i <= Len(a) THEN a[i] ELSE b[i - Len(a)]
    BY ConcatProperties
  <1> QED BY <1>1

LEMMA EncodedHead ==
    ASSUME NEW u \in Seq(Frames), u # <<>>
    PROVE  Encoded(u) = Encode(Head(u)) \o Encoded(Tail(u))
  <1> DEFINE w == Tail(u)
             x == Encode(Head(u))
             e == Encodings(w)
             one == <<x>>
  <1>1. /\ w \in Seq(Frames) /\ Len(w) = Len(u) - 1 /\ Head(u) \in Frames /\ Head(u) = u[1]
        /\ \A i \in 1..Len(w) : w[i] = u[i + 1]
        /\ Len(u) \in Nat /\ Len(u) > 0
    BY HeadTailProperties
  <1>2. x \in Seq(Octets) /\ x = Encode(u[1])
    BY <1>1, Encodes
  <1> HIDE DEF w, x
  <1>3. e \in Seq(Seq(Octets)) /\ Len(e) = Len(u) - 1 /\ \A i \in 1..Len(w) : e[i] = Encode(w[i])
    BY <1>1, EncodingsType
  <1>4. one \in Seq(Seq(Octets)) /\ Len(one) = 1 /\ one[1] = x
    BY <1>2
  <1> HIDE DEF e, one
  <1>5. /\ Encodings(u) \in Seq(Seq(Octets)) /\ Len(Encodings(u)) = Len(u)
        /\ \A i \in 1..Len(u) : Encodings(u)[i] = Encode(u[i])
    BY EncodingsType
  <1>6. /\ one \o e \in Seq(Seq(Octets)) /\ Len(one \o e) = 1 + (Len(u) - 1)
        /\ \A i \in 1..(1 + (Len(u) - 1)) : (one \o e)[i] = IF i <= 1 THEN one[i] ELSE e[i - 1]
    <2>1. Len(u) - 1 \in Int
      BY <1>1
    <2> QED BY <2>1, <1>3, <1>4, OneMore
  <1>7. ASSUME NEW i \in 1..Len(u) PROVE Encodings(u)[i] = (one \o e)[i]
    <2>1. Encodings(u)[i] = Encode(u[i])
      BY <1>5
    <2>2. CASE i = 1
      BY <2>1, <2>2, <1>1, <1>2, <1>4, <1>6
    <2>3. CASE i # 1
      <3>1. i - 1 \in 1..Len(w) /\ (i - 1) + 1 = i
        BY <2>3, <1>1
      <3>2. w[i - 1] = u[i]
        BY <3>1, <1>1
      <3>3. (one \o e)[i] = e[i - 1]
        <4>1. i \in 1..(1 + (Len(u) - 1)) /\ ~(i <= 1)
          BY <2>3, <1>1
        <4> QED BY <4>1, <1>6
      <3> QED BY <2>1, <3>1, <3>2, <3>3, <1>3
    <2> QED BY <2>2, <2>3
  <1>8. Encodings(u) = one \o e
    <2>1. 1 + (Len(u) - 1) = Len(u)
      BY <1>1
    <2> QED BY <2>1, <1>5, <1>6, <1>7, SeqEqual
  <1>9. FlattenSeq(one \o e) = FlattenSeq(one) \o FlattenSeq(e)
    BY <1>3, <1>4, FlatConcat
  <1>10. FlattenSeq(one) = x
    <2>1. one = Append(<<>>, x) /\ <<>> \in Seq(Seq(Octets)) /\ <<>> \o x = x
      BY <1>2 DEF one
    <2>2. FlattenSeq(Append(<<>>, x)) = FlattenSeq(<<>>) \o x
      BY <2>1, <1>2, FlatAppend
    <2> QED BY <2>1, <2>2, FlatEmpty
  <1> QED BY <1>8, <1>9, <1>10 DEF Encoded, e, x, w
-----------------------------------------------------------------------------
(* c has been read, v is under way and r was lost: together the frames u.  *)
Carries(c, v, r, u) == (c \o v) \o r = Encoded(u)

(* Prefixes of the same length of one sequence are equal.                  *)
LEMMA SamePrefix ==
    ASSUME NEW S, NEW a \in Seq(S), NEW b \in Seq(S), NEW c \in Seq(S), NEW d \in Seq(S),
           a \o b = c \o d, Len(a) = Len(c)
    PROVE  a = c /\ b = d
  <1>1. /\ Len(a \o b) = Len(a) + Len(b)
        /\ \A i \in 1..(Len(a) + Len(b)) :
              (a \o b)[i] = IF i <= Len(a) THEN a[i] ELSE b[i - Len(a)]
    BY ConcatProperties
  <1>2. /\ Len(c \o d) = Len(c) + Len(d)
        /\ \A i \in 1..(Len(c) + Len(d)) :
              (c \o d)[i] = IF i <= Len(c) THEN c[i] ELSE d[i - Len(c)]
    BY ConcatProperties
  <1>3. /\ Len(a) \in Nat /\ Len(b) \in Nat /\ Len(c) \in Nat /\ Len(d) \in Nat
        /\ Len(b) = Len(d)
    BY <1>1, <1>2
  <1>4. ASSUME NEW i \in 1..Len(a) PROVE a[i] = c[i]
    <2>1. i \in 1..(Len(a) + Len(b)) /\ i <= Len(a)
      BY <1>3
    <2> QED BY <2>1, <1>1, <1>2, <1>3
  <1>5. ASSUME NEW i \in 1..Len(b) PROVE b[i] = d[i]
    <2>1. Len(a) + i \in 1..(Len(a) + Len(b)) /\ ~(Len(a) + i <= Len(a)) /\ (Len(a) + i) - Len(a) = i
      BY <1>3
    <2> QED BY <2>1, <1>1, <1>2, <1>3
  <1>6. a = c
    BY <1>3, <1>4, SeqEqual
  <1>7. b = d
    BY <1>3, <1>5, SeqEqual
  <1> QED BY <1>6, <1>7

LEMMA Join ==
    ASSUME NEW S, NEW a \in Seq(S), NEW b \in Seq(S)
    PROVE  a \o b \in Seq(S) /\ Len(a \o b) = Len(a) + Len(b)
  BY ConcatProperties

(* Three sequences strung together.                                        *)
LEMMA Three ==
    ASSUME NEW S, NEW a \in Seq(S), NEW b \in Seq(S), NEW c \in Seq(S)
    PROVE  /\ (a \o b) \o c = a \o (b \o c)
           /\ a \o b \in Seq(S) /\ b \o c \in Seq(S) /\ a \o (b \o c) \in Seq(S)
  <1>1. (a \o b) \o c = a \o (b \o c)
    BY ConcatAssociative
  <1>2. a \o b \in Seq(S) /\ b \o c \in Seq(S)
    BY Join
  <1>3. a \o (b \o c) \in Seq(S)
    BY <1>2, Join
  <1> QED BY <1>1, <1>2, <1>3

LEMMA Strung ==
    \A p, q, s \in Seq(Octets) :
        /\ (p \o q) \o s = p \o (q \o s)
        /\ p \o q \in Seq(Octets) /\ q \o s \in Seq(Octets) /\ p \o (q \o s) \in Seq(Octets)
  BY Three

LEMMA Nothing ==
    ASSUME NEW S, NEW a \in Seq(S)
    PROVE  a \o <<>> = a /\ <<>> \o a = a /\ <<>> \in Seq(S)
  OBVIOUS

(* Bytes that are read stay what they say.                                 *)
LEMMA CarriesRead ==
    ASSUME NEW c \in Seq(Octets), NEW a \in Seq(Octets), NEW v \in Seq(Octets),
           NEW r \in Seq(Octets), NEW u \in Seq(Frames), Carries(c, a \o v, r, u)
    PROVE  Carries(c \o a, v, r, u)
  <1>1. (c \o a) \o v = c \o (a \o v)
    BY ConcatAssociative
  <1> QED BY <1>1 DEF Carries

(* A frame put at the end is carried too.                                  *)
LEMMA CarriesPut ==
    ASSUME NEW c \in Seq(Octets), NEW v \in Seq(Octets), NEW u \in Seq(Frames),
           NEW f \in Frames, Carries(c, v, <<>>, u)
    PROVE  Carries(c, v \o Encode(f), <<>>, Append(u, f))
  <1> DEFINE x == Encode(f)
             y == Encoded(u)
  <1>1. x \in Seq(Octets) /\ y \in Seq(Octets)
    BY Encodes, EncodingsType
  <1>2. Encoded(Append(u, f)) = y \o x
    BY EncodedAppend
  <1>3. (c \o v) \o <<>> = y
    BY DEF Carries
  <1> HIDE DEF x, y
  <1>4. c \o v \in Seq(Octets) /\ c \o (v \o x) = (c \o v) \o x /\ v \o x \in Seq(Octets)
    BY <1>1, Three
  <1>5. c \o v = y
    BY <1>3, <1>4, Nothing
  <1>6. c \o (v \o x) = y \o x /\ y \o x \in Seq(Octets)
    BY <1>1, <1>4, <1>5, Join
  <1>7. (c \o (v \o x)) \o <<>> = y \o x
    BY <1>6, Nothing
  <1> QED BY <1>2, <1>7 DEF Carries, x

(* What is not written any more is lost from the end.                      *)
LEMMA CarriesCut ==
    ASSUME NEW c \in Seq(Octets), NEW v \in Seq(Octets), NEW w \in Seq(Octets),
           NEW r \in Seq(Octets), NEW u, Carries(c, v \o w, r, u)
    PROVE  Carries(c, v, w \o r, u)
  <1>1. c \o (v \o w) = (c \o v) \o w /\ c \o v \in Seq(Octets)
    BY Join, ConcatAssociative
  <1>2. ((c \o v) \o w) \o r = (c \o v) \o (w \o r)
    BY <1>1, ConcatAssociative
  <1> QED BY <1>1, <1>2 DEF Carries

(* The bytes of the first frame of a queue.                                *)
LEMMA FirstFrame ==
    ASSUME NEW u \in Seq(Frames), u # <<>>
    PROVE  /\ Head(u) \in Frames /\ Tail(u) \in Seq(Frames)
           /\ Header(Head(u)) \in Seq(Octets) /\ Head(u).body \in Seq(Octets)
           /\ Encoded(Tail(u)) \in Seq(Octets)
           /\ Head(u).body \o Encoded(Tail(u)) \in Seq(Octets)
           /\ Encoded(u) = Header(Head(u)) \o (Head(u).body \o Encoded(Tail(u)))
  <1>1. Head(u) \in Frames /\ Tail(u) \in Seq(Frames)
    BY HeadTailProperties
  <1> DEFINE f == Head(u)
             h == Header(f)
             d == f.body
             t == Encoded(Tail(u))
  <1>2. f \in Frames
    BY <1>1
  <1>3. t \in Seq(Octets)
    BY <1>1, EncodingsType
  <1>4. Encoded(u) = Encode(f) \o t
    BY EncodedHead
  <1>5. h \in Seq(Octets) /\ d \in Seq(Octets)
    BY <1>2, HeaderIs, FrameParts DEF Heads
  <1>6. Encode(f) = h \o d
    BY <1>2, Encodes
  <1> HIDE DEF h, d, t
  <1>7. (h \o d) \o t = h \o (d \o t) /\ d \o t \in Seq(Octets)
    BY <1>3, <1>5, Strung
  <1> QED BY <1>1, <1>3, <1>4, <1>5, <1>6, <1>7 DEF h, d, t

(* The two bytes of a header are the header of the first frame. *)
LEMMA CarriesHeader ==
    ASSUME NEW g \in Seq(Octets), Len(g) = BLK_HDR_SIZE, NEW v \in Seq(Octets),
           NEW r \in Seq(Octets), NEW u \in Seq(Frames), Carries(g, v, r, u)
    PROVE  u # <<>> /\ Head(u) \in Frames /\ g = Header(Head(u))
  <1>0. g # <<>>
    <2>1. Len(<<>>) # BLK_HDR_SIZE
      BY EmptySeq DEF BLK_HDR_SIZE
    <2> QED BY <2>1
  <1> DEFINE x == v \o r
  <1>1. x \in Seq(Octets)
    BY Join
  <1>2. (g \o v) \o r = g \o x
    BY Three
  <1>3. g \o x = Encoded(u)
    BY <1>2 DEF Carries
  <1> HIDE DEF x
  <1>4. u # <<>>
    <2>1. SUFFICES ASSUME u = <<>> PROVE FALSE
      OBVIOUS
    <2>2. g \o x = <<>>
      BY <1>3, <2>1, EncodedEmpty
    <2>3. g = <<>>
      BY <1>1, <2>2, ConcatEqualIffEmpty
    <2> QED BY <1>0, <2>3
  <1> DEFINE f == Head(u)
             h == Header(f)
             y == f.body \o Encoded(Tail(u))
  <1>5. h \in Seq(Octets) /\ y \in Seq(Octets) /\ Encoded(u) = h \o y /\ f \in Frames
    BY <1>4, FirstFrame
  <1>6. Len(h) = BLK_HDR_SIZE
    BY <1>5, HeaderIs DEF Heads, BLK_HDR_SIZE
  <1> HIDE DEF h, y
  <1>7. g \o x = h \o y /\ Len(g) = Len(h)
    BY <1>3, <1>5, <1>6
  <1>8. g = h
    BY <1>1, <1>5, <1>7, SamePrefix
  <1> QED BY <1>4, <1>5, <1>8 DEF h

(* A header and as many bytes as it tells are the first frame. *)
LEMMA CarriesBody ==
    ASSUME NEW u \in Seq(Frames), u # <<>>, NEW g \in Seq(Octets), NEW v \in Seq(Octets),
           NEW r \in Seq(Octets), Len(g) = Len(Head(u).body),
           Carries(Header(Head(u)) \o g, v, r, u)
    PROVE  /\ Head(u) = Frame(Head(u).msg, g) /\ Tail(u) \in Seq(Frames)
           /\ Carries(<<>>, v, r, Tail(u))
  <1> DEFINE f == Head(u)
             h == Header(f)
             d == f.body
             t == Encoded(Tail(u))
             y == d \o t
             w == v \o r
             x == g \o w
  <1>1. /\ f \in Frames /\ Tail(u) \in Seq(Frames)
        /\ h \in Seq(Octets) /\ d \in Seq(Octets) /\ t \in Seq(Octets) /\ y \in Seq(Octets)
        /\ Encoded(u) = h \o y
    BY FirstFrame
  <1>2. w \in Seq(Octets)
    BY Join
  <1> HIDE DEF h, w
  <1>3. x \in Seq(Octets)
    BY <1>2, Join
  <1>4. ((h \o g) \o v) \o r = h \o x
    <2> DEFINE e == h \o g
    <2>1. e \in Seq(Octets)
      BY <1>1, Join
    <2> HIDE DEF e
    <2>2. (e \o v) \o r = e \o w
      BY <2>1, Three DEF w
    <2>3. e \o w = h \o x
      <3>1. h \in Seq(Octets) /\ w \in Seq(Octets)
        BY <1>1, <1>2
      <3>2. (h \o g) \o w = h \o (g \o w)
        BY <3>1, Strung
      <3> QED BY <3>2 DEF e
    <2> QED BY <2>2, <2>3 DEF e
  <1>5. h \o x = h \o y
    BY <1>1, <1>4 DEF Carries, h
  <1>6. x = y
    <2> HIDE DEF x, y
    <2> QED BY <1>1, <1>3, <1>5, SamePrefix
  <1>7. g \o w = d \o t /\ Len(g) = Len(d)
    BY <1>6
  <1> HIDE DEF d, t
  <1>8. g = d /\ w = t
    BY <1>1, <1>2, <1>7, SamePrefix
  <1>9. <<>> \o v = v
    BY Nothing
  <1>10. Carries(<<>>, v, r, Tail(u))
    BY <1>8, <1>9 DEF Carries, t, w
  <1>11. f = Frame(f.msg, g)
    BY <1>1, <1>8, FrameParts DEF d
  <1> QED BY <1>1, <1>10, <1>11
-----------------------------------------------------------------------------
(* A sequence is what is before a place and what is after it.              *)
LEMMA SplitAt ==
    ASSUME NEW S, NEW s \in Seq(S), NEW n \in 0..Len(s)
    PROVE  /\ SubSeq(s, 1, n) \in Seq(S) /\ SubSeq(s, n + 1, Len(s)) \in Seq(S)
           /\ Len(SubSeq(s, 1, n)) = n
           /\ s = SubSeq(s, 1, n) \o SubSeq(s, n + 1, Len(s))
  <1>1. Len(s) \in Nat /\ n \in Nat
    OBVIOUS
  <1>2. \A i \in 1..Len(s) : s[i] \in S
    OBVIOUS
  <1>3. SubSeq(s, 1, n) \in Seq(S) /\ Len(SubSeq(s, 1, n)) = n
    <2>1. \A i \in 1..n : s[i] \in S
      BY <1>1, <1>2
    <2>2. /\ SubSeq(s, 1, n) \in Seq(S)
          /\ Len(SubSeq(s, 1, n)) = IF 1 <= n THEN n - 1 + 1 ELSE 0
      BY <1>1, <2>1, SubSeqProperties
    <2> QED BY <2>2, <1>1
  <1>4. SubSeq(s, n + 1, Len(s)) \in Seq(S)
    <2>1. \A i \in (n + 1)..Len(s) : s[i] \in S
      BY <1>1, <1>2
    <2> QED BY <1>1, <2>1, SubSeqProperties
  <1>5. SubSeq(s, 1, n) \o SubSeq(s, n + 1, Len(s)) = SubSeq(s, 1, Len(s))
    <2>1. 1 \in 1..(Len(s) + 1) /\ n \in (1 - 1)..Len(s) /\ Len(s) \in n..Len(s)
      BY <1>1
    <2> QED BY <2>1, ConcatAdjacentSubSeq
  <1>6. SubSeq(s, 1, Len(s)) = s
    BY SubSeqFull
  <1> QED BY <1>3, <1>4, <1>5, <1>6

(* Some number of messages is the one that fits. *)
LEMMA FittingIs ==
    ASSUME msgs \in Seq(Seq(Bytes))
    PROVE  Fitting \in 0..Len(msgs)
  <1> DEFINE n == Len(msgs)
             L(j) == Len(FlattenSeq(SubSeq(msgs, 1, j)))
             Full == {j \in 0..n : j = n \/ L(j + 1) > MAX_BLKSIZE}
  <1>1. n \in Nat /\ n \in Full /\ Full \in SUBSET Nat
    OBVIOUS
  <1>2. PICK j \in Full : \A i \in Full : j <= i
    <2> HIDE DEF Full
    <2> QED BY <1>1, Least
  <1>3. L(j) <= MAX_BLKSIZE
    <2>1. CASE j = 0
      <3>1. SubSeq(msgs, 1, 0) = <<>>
        BY SubSeqEmpty
      <3>2. L(0) = 0
        BY <3>1, FlatEmpty, EmptySeq
      <3>3. 0 <= MAX_BLKSIZE
        BY FramingAssumption
      <3> QED BY <2>1, <3>2, <3>3
    <2>2. CASE j # 0
      <3>1. j \in 1..n /\ j - 1 \in 0..n /\ (j - 1) + 1 = j /\ ~(j <= j - 1) /\ j - 1 # n
        BY <2>2, <1>1, <1>2
      <3>2. j - 1 \notin Full
        <4> HIDE DEF Full
        <4> QED BY <3>1, <1>2
      <3>3. ~(L(j) > MAX_BLKSIZE)
        <4> HIDE DEF L
        <4> QED BY <3>1, <3>2
      <3>4. L(j) \in Nat
        <4>1. SubSeq(msgs, 1, j) \in Seq(Seq(Bytes))
          <5>1. j \in 0..Len(msgs)
            BY <3>1
          <5> DEFINE T == Seq(Bytes)
          <5>2. msgs \in Seq(T)
            OBVIOUS
          <5> HIDE DEF T
          <5>3. SubSeq(msgs, 1, j) \in Seq(T)
            BY <5>1, <5>2, SplitAt
          <5> QED BY <5>3 DEF T
        <4>2. FlattenSeq(SubSeq(msgs, 1, j)) \in Seq(Bytes)
          BY <4>1, FlatType
        <4> QED BY <4>2
      <3>5. MAX_BLKSIZE \in Nat
        BY FramingAssumption
      <3> HIDE DEF L
      <3> QED BY <3>3, <3>4, <3>5
    <2> QED BY <2>1, <2>2
  <1>4. j \in 0..n /\ (j < n => L(j + 1) > MAX_BLKSIZE)
    <2>1. j \in 0..n /\ (j = n \/ L(j + 1) > MAX_BLKSIZE)
      BY <1>2
    <2> HIDE DEF L
    <2> QED BY <2>1, <1>1
  <1>5. \E i \in 0..n : L(i) <= MAX_BLKSIZE /\ (i < n => L(i + 1) > MAX_BLKSIZE)
    <2> HIDE DEF L
    <2> QED BY <1>3, <1>4
  <1>6. Fitting = CHOOSE i \in 0..n : L(i) <= MAX_BLKSIZE /\ (i < n => L(i + 1) > MAX_BLKSIZE)
    BY DEF Fitting
  <1> HIDE DEF L, n
  <1>7. Fitting \in 0..n
    BY <1>5, <1>6
  <1> QED BY <1>7 DEF n

(* The place in the key stream after one frame more.                       *)
LEMMA GrowsKeys ==
    ASSUME NEW w \in Seq(Bytes), NEW f \in Frames, NEW key \in Keys,
           NEW e, e = encrypt_buf(Encode(f), step_keys(key, Len(w)))
    PROVE  step_keys(step_keys(key, Len(w)), Len(Encode(f))) = step_keys(key, Len(w \o e))
  <1> DEFINE m == Encode(f)
             kout == step_keys(key, Len(w))
  <1>1. m \in Seq(Octets)
    BY Encodes
  <1>2. Len(w) \in Nat /\ kout \in Keys
    BY StepKeys
  <1>3. e \in Seq(Bytes) /\ Len(e) = Len(m)
    <2> HIDE DEF m
    <2>1. e = encrypt_buf(m, kout)
      BY DEF m
    <2> QED BY <1>1, <1>2, <2>1, Encrypted
  <1>4. Len(w \o e) = Len(w) + Len(e)
    BY <1>3, Join
  <1>5. Len(m) \in Nat
    BY <1>1
  <1>6. step_keys(kout, Len(m)) = step_keys(key, Len(w) + Len(m))
    <2> HIDE DEF m
    <2> QED BY <1>2, <1>5, StepKeys
  <1> QED BY <1>3, <1>4, <1>6

(* A frame more at the end of what is under way *)
LEMMA Grows ==
    ASSUME NEW c \in Seq(Octets), NEW w \in Seq(Bytes), NEW u \in Seq(Frames), NEW f \in Frames,
           NEW key \in Keys, Keyed(w, key), Carries(c, Values(w), <<>>, u),
           NEW e, e = encrypt_buf(Encode(f), step_keys(key, Len(w)))
    PROVE  /\ Keyed(w \o e, key)
           /\ Carries(c, Values(w \o e), <<>>, Append(u, f))
  <1> DEFINE m == Encode(f)
             kout == step_keys(key, Len(w))
  <1>1. m \in Seq(Octets)
    BY Encodes
  <1>2. Len(w) \in Nat /\ kout \in Keys
    BY StepKeys
  <1>3. e \in Seq(Bytes) /\ Len(e) = Len(m) /\ Values(e) = m /\ Keyed(e, kout)
    <2> HIDE DEF m
    <2>1. e = encrypt_buf(m, kout)
      BY DEF m
    <2> QED BY <1>1, <1>2, <2>1, Encrypted
  <1>4. w \o e \in Seq(Bytes) /\ Len(w \o e) = Len(w) + Len(e)
    BY <1>3, Join
  <1>5. Keyed(w \o e, key)
    BY <1>3, KeyedConcat
  <1>8. Values(w) \in Seq(Octets)
    BY ValuesType
  <1>9. Carries(c, Values(w) \o m, <<>>, Append(u, f))
    BY <1>8, CarriesPut
  <1>10. Values(w \o e) = Values(w) \o m
    BY <1>3, ValuesConcat
  <1> QED BY <1>5, <1>9, <1>10
-----------------------------------------------------------------------------
(* What is between the ends, and what was read of the first frame of it    *)
Way == (wire \o obuf) \o FlattenSeq(msgs)
Consumed == IF isize = -1 THEN ibuf ELSE Header(Head(underway)) \o ibuf

FrameType ==
    /\ msgs \in Seq(Seq(Bytes)) /\ obuf \in Seq(Bytes) /\ wire \in Seq(Bytes)
    /\ ibuf \in Seq(Octets) /\ isize \in Int /\ imsg \in BOOLEAN
    /\ keys_out \in Keys /\ keys_in \in Keys
    /\ s_up \in BOOLEAN /\ r_up \in BOOLEAN
    /\ underway \in Seq(Frames)

(* A body is read: it is that of the first frame, which is not empty. *)
InBody ==
    r_up /\ isize # -1 =>
        /\ underway # <<>> /\ imsg = Head(underway).msg
        /\ isize = Len(Head(underway).body) /\ Len(ibuf) < isize

InHeader == r_up /\ isize = -1 => Len(ibuf) < BLK_HDR_SIZE

KeysMatch ==
    r_up => /\ Keyed(Way, keys_in)
            /\ s_up => keys_out = step_keys(keys_in, Len(Way))

BytesMatch ==
    r_up => \E r \in Seq(Octets) :
               /\ Carries(Consumed, Values(Way), r, underway)
               /\ s_up => r = <<>>

Ended == (~s_up => msgs = <<>> /\ obuf = <<>>) /\ (~r_up => underway = <<>>)

FrameInv ==
    FrameType /\ InBody /\ InHeader /\ KeysMatch /\ BytesMatch /\ Ended

StreamStep == [Stream!Next]_(Stream!vars)

(* The way and what was read of it are bytes.                              *)
LEMMA WayType ==
    ASSUME FrameType
    PROVE  /\ FlattenSeq(msgs) \in Seq(Bytes) /\ wire \o obuf \in Seq(Bytes)
           /\ Way \in Seq(Bytes)
  <1>1. FlattenSeq(msgs) \in Seq(Bytes)
    BY FlatType DEF FrameType
  <1>2. wire \o obuf \in Seq(Bytes)
    BY Join DEF FrameType
  <1>3. (wire \o obuf) \o FlattenSeq(msgs) \in Seq(Bytes)
    BY <1>1, <1>2, Join
  <1> QED BY <1>1, <1>2, <1>3 DEF Way

LEMMA ConsumedType ==
    ASSUME FrameType, InBody, r_up
    PROVE  Consumed \in Seq(Octets)
  <1>1. CASE isize = -1
    BY <1>1 DEF Consumed, FrameType
  <1>2. CASE isize # -1
    <2> DEFINE h == Header(Head(underway))
    <2>1. Head(underway) \in Frames
      BY <1>2, HeadTailProperties DEF InBody, FrameType
    <2>2. h \in Seq(Octets)
      BY <2>1, HeaderIs DEF Heads
    <2>3. ibuf \in Seq(Octets)
      BY DEF FrameType
    <2> HIDE DEF h
    <2>4. h \o ibuf \in Seq(Octets)
      BY <2>2, <2>3, Join
    <2> QED BY <1>2, <2>4 DEF Consumed, h
  <1> QED BY <1>1, <1>2

(* At the start nothing is under way.                                      *)
LEMMA FrameInitInv ==
    ASSUME FramingInit
    PROVE  FrameInv /\ Stream!Init
  <1>1. FrameType
    <2>1. \A S : <<>> \in Seq(S)
      OBVIOUS
    <2>2. msgs \in Seq(Seq(Bytes)) /\ obuf \in Seq(Bytes) /\ wire \in Seq(Bytes)
      BY <2>1 DEF FramingInit
    <2>3. ibuf \in Seq(Octets) /\ underway \in Seq(Frames)
      BY <2>1 DEF FramingInit
    <2>4. keys_out \in Keys /\ keys_in \in Keys /\ isize \in Int
      BY DEF FramingInit, Keys, Off
    <2>5. imsg \in BOOLEAN /\ s_up \in BOOLEAN /\ r_up \in BOOLEAN
      BY DEF FramingInit
    <2> QED BY <2>2, <2>3, <2>4, <2>5 DEF FrameType
  <1>2. Way = <<>>
    <2>1. wire = <<>> /\ obuf = <<>> /\ FlattenSeq(msgs) = <<>>
      BY FlatEmpty DEF FramingInit
    <2>2. (<<>> \o <<>>) \o <<>> = <<>>
      OBVIOUS
    <2> QED BY <2>1, <2>2 DEF Way
  <1>3. Consumed = <<>> /\ isize = -1 /\ ibuf = <<>>
    BY DEF FramingInit, Consumed
  <1>4. InBody /\ InHeader
    BY <1>3, EmptySeq DEF InBody, InHeader, BLK_HDR_SIZE
  <1>5. KeysMatch
    <2>1. Keyed(<<>>, keys_in) /\ Len(<<>>) = 0
      BY EmptySeq DEF Keyed
    <2>2. step_keys(keys_in, 0) = keys_in
      BY <1>1, StepKeys DEF FrameType
    <2>3. keys_out = keys_in
      BY DEF FramingInit
    <2> QED BY <1>2, <2>1, <2>2, <2>3 DEF KeysMatch
  <1>6. BytesMatch
    <2>1. Values(<<>>) = <<>>
      BY DEF Values
    <2>2. (<<>> \o <<>>) \o <<>> = <<>> /\ <<>> \in Seq(Octets)
      OBVIOUS
    <2>3. Carries(<<>>, <<>>, <<>>, <<>>)
      BY <2>2, EncodedEmpty DEF Carries
    <2>4. underway = <<>>
      BY DEF FramingInit
    <2> QED BY <1>2, <1>3, <2>1, <2>2, <2>3, <2>4 DEF BytesMatch
  <1>7. Ended
    BY DEF Ended, FramingInit
  <1>8. Stream!Init
    BY DEF Stream!Init, FramingInit
  <1> QED BY <1>1, <1>4, <1>5, <1>6, <1>7, <1>8 DEF FrameInv

(* While both ends are up nothing of what was sent is missing. *)
LEMMA Intact ==
    ASSUME FrameInv, s_up, r_up
    PROVE  /\ Carries(Consumed, Values(Way), <<>>, underway)
           /\ Keyed(Way, keys_in) /\ keys_out = step_keys(keys_in, Len(Way))
  BY DEF FrameInv, BytesMatch, KeysMatch

(* A frame is put: the new bytes are the last ones of the way.             *)
Puts(f, e) ==
    /\ e = encrypt_buf(Encode(f), keys_out)
    /\ msgs' \in Seq(Seq(Bytes)) /\ obuf' \in Seq(Bytes)
    /\ Way' = Way \o e
    /\ keys_out' = step_keys(keys_out, Len(Encode(f)))
    /\ Depart(f) /\ UNCHANGED <<s_up, wire, in_vars>>

(* A frame that is put keeps the invariant and is a Put of the stream.     *)
LEMMA PutStep ==
    ASSUME FrameInv, s_up, NEW f \in Frames, NEW e, Puts(f, e)
    PROVE  FrameInv' /\ StreamStep
  <1> DEFINE len == Len(Encode(f))
  <1>0. /\ keys_out' = step_keys(keys_out, len)
        /\ msgs' \in Seq(Seq(Bytes)) /\ obuf' \in Seq(Bytes)
    BY DEF Puts
  <1>1. FrameType
    BY DEF FrameInv
  <1>2. UNCHANGED <<wire, ibuf, isize, imsg, keys_in, s_up, r_up, heard>>
    BY DEF in_vars, Puts
  <1>3. len \in Nat
    <2> DEFINE m == Encode(f)
    <2>1. m \in Seq(Octets)
      BY Encodes
    <2> HIDE DEF m
    <2>2. Len(m) \in Nat
      BY <2>1
    <2> QED BY <2>2 DEF m
  <1>4. keys_out' \in Keys
    <2> HIDE DEF len
    <2>1. step_keys(keys_out, len) \in Keys
      BY <1>1, <1>3, StepKeys DEF FrameType
    <2> QED BY <2>1, <1>0
  <1>5. CASE ~r_up
    <2>1. underway = <<>> /\ underway' = <<>>
      BY <1>5 DEF FrameInv, Ended, Depart, Puts
    <2>2. FrameType'
      BY <1>0, <1>1, <1>2, <1>4, <2>1 DEF FrameType
    <2>3. (InBody /\ InHeader /\ KeysMatch /\ BytesMatch)'
      BY <1>2, <1>5 DEF InBody, InHeader, KeysMatch, BytesMatch
    <2>4. Ended'
      BY <1>2, <2>1 DEF Ended
    <2>5. StreamStep
      BY <1>2, <2>1 DEF StreamStep, Stream!vars
    <2> QED BY <2>2, <2>3, <2>4, <2>5 DEF FrameInv
  <1>6. CASE r_up
    <2>1. underway' = Append(underway, f) /\ underway \in Seq(Frames)
      BY <1>1, <1>6 DEF Depart, FrameType, Puts
    <2>2. underway' \in Seq(Frames) /\ underway' # <<>>
      BY <2>1, AppendProperties
    <2>3. FrameType'
      BY <1>0, <1>1, <1>2, <1>4, <2>2 DEF FrameType
    <2>4. underway # <<>> => Head(underway') = Head(underway)
      BY <2>1, HeadTailAppend
    <2>5. InBody' /\ InHeader'
      BY <1>2, <2>2, <2>4 DEF InBody, InHeader, FrameInv
    <2>6. Consumed' = Consumed
      BY <1>2, <1>6, <2>4 DEF Consumed, InBody, FrameInv
    <2>7. Consumed \in Seq(Octets)
      BY <1>1, <1>6, ConsumedType DEF FrameInv
    <2>8. /\ Carries(Consumed, Values(Way), <<>>, underway)
          /\ Keyed(Way, keys_in) /\ keys_out = step_keys(keys_in, Len(Way))
      BY <1>6, Intact
    <2>9. Way \in Seq(Bytes) /\ keys_in \in Keys
      BY <1>1, WayType DEF FrameType
    <2>10. /\ Keyed(Way \o e, keys_in)
           /\ keys_out' = step_keys(keys_in, Len(Way \o e))
           /\ Carries(Consumed, Values(Way \o e), <<>>, underway')
      <3>1. underway \in Seq(Frames)
        BY <2>1
      <3>2. /\ Keyed(Way \o e, keys_in)
            /\ step_keys(keys_out, Len(Encode(f))) = step_keys(keys_in, Len(Way \o e))
            /\ Carries(Consumed, Values(Way \o e), <<>>, Append(underway, f))
        <4> DEFINE w == Way
                   c == Consumed
                   u == underway
                   key == keys_in
        <4>1. /\ c \in Seq(Octets) /\ w \in Seq(Bytes) /\ u \in Seq(Frames) /\ key \in Keys
              /\ Keyed(w, key) /\ Carries(c, Values(w), <<>>, u)
              /\ e = encrypt_buf(Encode(f), step_keys(key, Len(w)))
              /\ keys_out = step_keys(key, Len(w))
          BY <3>1, <2>7, <2>8, <2>9 DEF Puts
        <4> HIDE DEF w, c, u, key
        <4>2. /\ Keyed(w \o e, key)
              /\ step_keys(step_keys(key, Len(w)), Len(Encode(f))) = step_keys(key, Len(w \o e))
              /\ Carries(c, Values(w \o e), <<>>, Append(u, f))
          <5>1. Keyed(w \o e, key)
            BY <4>1, Grows
          <5>2. step_keys(step_keys(key, Len(w)), Len(Encode(f))) = step_keys(key, Len(w \o e))
            BY <4>1, GrowsKeys
          <5>3. Carries(c, Values(w \o e), <<>>, Append(u, f))
            BY <4>1, Grows
          <5> QED BY <5>1, <5>2, <5>3
        <4> QED BY <4>1, <4>2 DEF w, c, u, key
      <3> QED BY <3>2, <2>1, <1>0
    <2>11. Way' = Way \o e
      BY DEF Puts
    <2>12. KeysMatch'
      BY <1>2, <2>10, <2>11 DEF KeysMatch
    <2>13. BytesMatch'
      <3>1. Carries(Consumed', Values(Way'), <<>>, underway')
        BY <2>6, <2>10, <2>11
      <3>2. <<>> \in Seq(Octets)
        OBVIOUS
      <3> QED BY <3>1, <3>2 DEF BytesMatch
    <2>14. Ended'
      BY <1>2, <1>6 DEF Ended
    <2>15. StreamStep
      <3>1. underway'[Len(underway')] = f
        BY <2>1, AppendProperties
      <3>2. s_up /\ r_up
        BY <1>6
      <3>3. UNCHANGED <<heard, s_up /\ r_up>>
        BY <1>2
      <3>4. Stream!Put
        BY <2>1, <2>2, <3>1, <3>2, <3>3 DEF Stream!Put, Stream!Last
      <3> QED BY <3>4 DEF StreamStep, Stream!Next
    <2> QED BY <2>3, <2>5, <2>12, <2>13, <2>14, <2>15 DEF FrameInv
  <1> QED BY <1>5, <1>6

(* msg_send2 puts a message: it is encrypted when it is queued, so no block may pass it. *)
LEMMA MsgStep ==
    ASSUME FrameInv, s_up, NEW body, Frame(TRUE, body) \in Frames, msg_send2(body)
    PROVE  FrameInv' /\ StreamStep
  <1> DEFINE f == Frame(TRUE, body)
             m == Encode(f)
             e == encrypt_buf(m, keys_out)
  <1>1. FrameType /\ f \in Frames
    BY DEF FrameInv
  <1>2. /\ msgs' = Append(msgs, e) /\ keys_out' = step_keys(keys_out, Len(m))
        /\ Depart(f) /\ UNCHANGED <<obuf, s_up, wire, in_vars>>
    BY DEF msg_send2
  <1>3. m \in Seq(Octets) /\ keys_out \in Keys
    BY <1>1, Encodes DEF FrameType
  <1>4. e \in Seq(Bytes)
    <2> HIDE DEF m
    <2> QED BY <1>3, Encrypted
  <1>5. msgs \in Seq(Seq(Bytes)) /\ obuf \in Seq(Bytes)
    BY <1>1 DEF FrameType
  <1> HIDE DEF m, f
  <1>e. e = encrypt_buf(m, keys_out)
    OBVIOUS
  <1> HIDE DEF e
  <1>6. msgs' \in Seq(Seq(Bytes))
    <2> DEFINE T == Seq(Bytes)
    <2>1. e \in T /\ msgs \in Seq(T)
      BY <1>4, <1>5
    <2> HIDE DEF T
    <2>2. Append(msgs, e) \in Seq(T)
      BY <2>1, AppendProperties
    <2> QED BY <1>2, <2>2 DEF T
  <1>7. FlattenSeq(msgs') = FlattenSeq(msgs) \o e
    BY <1>2, <1>4, <1>5, FlatAppend
  <1>8. Way' = Way \o e
    <2> DEFINE p == wire \o obuf
               q == FlattenSeq(msgs)
    <2>1. p \in Seq(Bytes) /\ q \in Seq(Bytes)
      BY <1>1, WayType
    <2>2. Way' = p \o (q \o e) /\ Way = p \o q
      BY <1>2, <1>7 DEF Way
    <2> HIDE DEF p, q
    <2>3. (p \o q) \o e = p \o (q \o e)
      BY <2>1, <1>4, Three
    <2> QED BY <2>2, <2>3
  <1>9. obuf' \in Seq(Bytes)
    BY <1>2, <1>5
  <1>10. f \in Frames
    BY <1>1
  <1>11. Puts(f, e)
    BY <1>2, <1>6, <1>8, <1>9, <1>e DEF Puts, m
  <1> QED BY <1>10, <1>11, PutStep

(* send_block puts a data block only when no message waits.                *)
LEMMA BlockStep ==
    ASSUME FrameInv, NEW body, Frame(FALSE, body) \in Frames, StartBlock(body)
    PROVE  FrameInv' /\ StreamStep
  <1> DEFINE f == Frame(FALSE, body)
             m == Encode(f)
             e == encrypt_buf(m, keys_out)
  <1>1. FrameType /\ f \in Frames
    BY DEF FrameInv
  <1>2. /\ s_up /\ obuf = <<>> /\ msgs = <<>>
        /\ obuf' = e /\ keys_out' = step_keys(keys_out, Len(m))
        /\ Depart(f) /\ UNCHANGED <<msgs, s_up, wire, in_vars>>
    BY DEF StartBlock
  <1>3. m \in Seq(Octets) /\ keys_out \in Keys
    BY <1>1, Encodes DEF FrameType
  <1>4. e \in Seq(Bytes)
    <2> HIDE DEF m
    <2> QED BY <1>3, Encrypted
  <1>5. msgs \in Seq(Seq(Bytes)) /\ wire \in Seq(Bytes)
    BY <1>1 DEF FrameType
  <1> HIDE DEF m, f
  <1>e. e = encrypt_buf(m, keys_out)
    OBVIOUS
  <1> HIDE DEF e
  <1>6. msgs' \in Seq(Seq(Bytes)) /\ obuf' \in Seq(Bytes)
    BY <1>2, <1>4, <1>5
  <1>7. Way' = Way \o e
    <2>1. FlattenSeq(msgs) = <<>> /\ FlattenSeq(msgs') = <<>>
      BY <1>2, FlatEmpty
    <2>2. Way = (wire \o <<>>) \o <<>> /\ Way' = (wire \o e) \o <<>>
      BY <1>2, <2>1 DEF Way
    <2>3. wire \o e \in Seq(Bytes)
      BY <1>4, <1>5, Join
    <2>4. Way = wire
      BY <1>5, <2>2, Nothing
    <2>5. Way' = wire \o e
      BY <2>2, <2>3, Nothing
    <2> QED BY <2>4, <2>5
  <1>8. f \in Frames
    BY <1>1
  <1>9. Puts(f, e)
    BY <1>2, <1>6, <1>7, <1>e DEF Puts, m
  <1>10. s_up
    BY <1>2
  <1> QED BY <1>8, <1>9, <1>10, PutStep

(* Bytes move along the way.                                               *)
LEMMA MoveStep ==
    ASSUME FrameInv, FrameType', Ended', r_up => Way' = Way,
           UNCHANGED <<keys_out, s_up, in_vars, underway>>
    PROVE  FrameInv' /\ StreamStep
  <1>1. UNCHANGED <<keys_out, s_up, ibuf, isize, imsg, keys_in, r_up, heard, underway>>
    BY DEF in_vars
  <1>2. InBody' /\ InHeader'
    BY <1>1 DEF FrameInv, InBody, InHeader
  <1>3. Consumed' = Consumed
    BY <1>1 DEF Consumed
  <1>4. CASE ~r_up
    BY <1>1, <1>2, <1>4 DEF FrameInv, KeysMatch, BytesMatch, StreamStep, Stream!vars
  <1>5. CASE r_up
    <2>1. Way' = Way
      BY <1>5
    <2>2. KeysMatch'
      BY <1>1, <2>1 DEF FrameInv, KeysMatch
    <2>3. BytesMatch'
      BY <1>1, <1>3, <2>1 DEF FrameInv, BytesMatch
    <2>4. StreamStep
      BY <1>1 DEF StreamStep, Stream!vars
    <2> QED BY <1>2, <2>2, <2>3, <2>4 DEF FrameInv
  <1> QED BY <1>4, <1>5

(* send takes any part of obuf.                                            *)
LEMMA SendStep ==
    ASSUME FrameInv, SendBytes
    PROVE  FrameInv' /\ StreamStep
  <1> USE DEF FrameInv
  <1>1. PICK n \in 1..Len(obuf) :
            /\ wire' = IF r_up THEN wire \o SubSeq(obuf, 1, n) ELSE wire
            /\ obuf' = SubSeq(obuf, n + 1, Len(obuf))
    BY DEF SendBytes
  <1>2. s_up /\ UNCHANGED <<msgs, keys_out, s_up, in_vars, underway>>
    BY DEF SendBytes
  <1> DEFINE a == SubSeq(obuf, 1, n)
             b == SubSeq(obuf, n + 1, Len(obuf))
  <1>3. obuf \in Seq(Bytes) /\ wire \in Seq(Bytes)
    BY DEF FrameType
  <1>4. n \in 0..Len(obuf)
    BY <1>1
  <1>5. a \in Seq(Bytes) /\ b \in Seq(Bytes) /\ obuf = a \o b
    BY <1>3, <1>4, SplitAt
  <1> HIDE DEF a, b
  <1>6. wire \o a \in Seq(Bytes) /\ (wire \o a) \o b = wire \o (a \o b)
    BY <1>3, <1>5, Three
  <1>7. obuf' = b /\ wire' = IF r_up THEN wire \o a ELSE wire
    BY <1>1 DEF a, b
  <1>8. wire' \in Seq(Bytes) /\ obuf' \in Seq(Bytes)
    BY <1>3, <1>5, <1>6, <1>7
  <1>9. FrameType'
    BY <1>2, <1>8 DEF FrameType, in_vars
  <1>10. r_up => Way' = Way
    <2>1. SUFFICES ASSUME r_up PROVE Way' = Way
      OBVIOUS
    <2>2. wire' \o obuf' = wire \o obuf
      BY <2>1, <1>5, <1>6, <1>7
    <2> QED BY <2>2, <1>2 DEF Way
  <1>11. Ended'
    BY <1>2 DEF Ended, in_vars
  <1>12. UNCHANGED <<keys_out, s_up, in_vars, underway>>
    BY <1>2
  <1> QED BY <1>9, <1>10, <1>11, <1>12, MoveStep

(* Messages move into obuf in their order.                                 *)
LEMMA FillStep ==
    ASSUME FrameInv, FillMsgs
    PROVE  FrameInv' /\ StreamStep
  <1> USE DEF FrameInv
  <1>1. /\ s_up /\ obuf = <<>>
        /\ obuf' = FlattenSeq(SubSeq(msgs, 1, Fitting))
        /\ msgs' = SubSeq(msgs, Fitting + 1, Len(msgs))
        /\ UNCHANGED <<keys_out, s_up, wire, in_vars, underway>>
    BY DEF FillMsgs
  <1> DEFINE a == SubSeq(msgs, 1, Fitting)
             b == SubSeq(msgs, Fitting + 1, Len(msgs))
             T == Seq(Bytes)
  <1>2. msgs \in Seq(T) /\ wire \in Seq(Bytes)
    BY DEF FrameType
  <1>3. Fitting \in 0..Len(msgs)
    BY <1>2, FittingIs
  <1>4. a \in Seq(T) /\ b \in Seq(T) /\ msgs = a \o b
    <2> HIDE DEF T
    <2> QED BY <1>2, <1>3, SplitAt
  <1> HIDE DEF a, b
  <1>5. FlattenSeq(msgs) = FlattenSeq(a) \o FlattenSeq(b)
    BY <1>4, FlatConcat
  <1> DEFINE x == FlattenSeq(a)
             y == FlattenSeq(b)
  <1>6. x \in Seq(Bytes) /\ y \in Seq(Bytes)
    BY <1>4, FlatType
  <1>7. obuf' = x /\ FlattenSeq(msgs') = y /\ msgs' = b
    BY <1>1 DEF a, b
  <1>8. FlattenSeq(msgs) = x \o y
    BY <1>5
  <1> HIDE DEF x, y
  <1>9. (wire \o x) \o y = wire \o (x \o y)
    BY <1>2, <1>6, Three
  <1>10. wire \o <<>> = wire
    BY <1>2, Nothing
  <1>11. Way' = Way
    BY <1>1, <1>7, <1>8, <1>9, <1>10 DEF Way
  <1>12. FrameType'
    BY <1>1, <1>4, <1>6, <1>7 DEF FrameType, in_vars
  <1>13. Ended'
    BY <1>1 DEF Ended, in_vars
  <1>14. UNCHANGED <<keys_out, s_up, in_vars, underway>>
    BY <1>1
  <1> QED BY <1>11, <1>12, <1>13, <1>14, MoveStep

(* The end of the sender loses what is not written, a suffix of the way.   *)
LEMMA SenderEndsStep ==
    ASSUME FrameInv, SenderEnds
    PROVE  FrameInv' /\ StreamStep
  <1> USE DEF FrameInv
  <1>1. /\ s_up /\ s_up' = FALSE /\ msgs' = <<>> /\ obuf' = <<>>
        /\ UNCHANGED <<keys_out, wire, underway>>
        /\ UNCHANGED <<ibuf, isize, imsg, keys_in, r_up, heard>>
    BY DEF SenderEnds, in_vars
  <1>2. FrameType'
    <2>1. <<>> \in Seq(Seq(Bytes)) /\ <<>> \in Seq(Bytes)
      OBVIOUS
    <2> QED BY <1>1, <2>1 DEF FrameType
  <1>3. InBody' /\ InHeader' /\ Ended'
    BY <1>1 DEF InBody, InHeader, Ended
  <1>4. Consumed' = Consumed
    BY <1>1 DEF Consumed
  <1> DEFINE rest == obuf \o FlattenSeq(msgs)
  <1>5. wire \in Seq(Bytes) /\ obuf \in Seq(Bytes) /\ FlattenSeq(msgs) \in Seq(Bytes)
    BY WayType DEF FrameType
  <1>6. rest \in Seq(Bytes)
    BY <1>5, Join
  <1>7. Way = wire \o rest
    <2> DEFINE q == FlattenSeq(msgs)
    <2>1. q \in Seq(Bytes)
      BY <1>5
    <2> HIDE DEF q
    <2>2. (wire \o obuf) \o q = wire \o (obuf \o q)
      BY <1>5, <2>1, Three
    <2> QED BY <2>2 DEF q, Way
  <1>8. Way' = wire
    <2>1. FlattenSeq(msgs') = <<>>
      BY <1>1, FlatEmpty
    <2>2. (wire \o <<>>) \o <<>> = wire
      BY <1>5, Nothing
    <2> QED BY <1>1, <2>1, <2>2 DEF Way
  <1> HIDE DEF rest
  <1>9. CASE ~r_up
    <2>1. KeysMatch' /\ BytesMatch'
      BY <1>1, <1>9 DEF KeysMatch, BytesMatch
    <2>2. StreamStep
      BY <1>1, <1>9 DEF StreamStep, Stream!vars
    <2> QED BY <1>2, <1>3, <2>1, <2>2
  <1>10. CASE r_up
    <2>1. Keyed(wire, keys_in)
      <3>1. Keyed(wire \o rest, keys_in) /\ keys_in \in Keys
        BY <1>7, <1>10 DEF KeysMatch, FrameType
      <3> QED BY <3>1, <1>5, <1>6, KeyedConcat
    <2>2. KeysMatch'
      BY <1>1, <1>8, <2>1 DEF KeysMatch
    <2>3. Carries(Consumed, Values(wire), Values(rest) \o <<>>, underway)
      <3>1. Carries(Consumed, Values(Way), <<>>, underway)
        BY <1>1, <1>10, Intact
      <3>2. Values(Way) = Values(wire) \o Values(rest)
        BY <1>5, <1>6, <1>7, ValuesConcat
      <3> DEFINE p == Values(wire)
                 q == Values(rest)
                 c == Consumed
      <3>3. p \in Seq(Octets) /\ q \in Seq(Octets) /\ c \in Seq(Octets)
        BY <1>5, <1>6, <1>10, ValuesType, ConsumedType
      <3>4. Carries(c, p \o q, <<>>, underway) /\ <<>> \in Seq(Octets)
        BY <3>1, <3>2
      <3> HIDE DEF p, q, c
      <3>5. Carries(c, p, q \o <<>>, underway)
        BY <3>3, <3>4, CarriesCut
      <3> QED BY <3>5 DEF p, q, c
    <2>4. Values(rest) \o <<>> \in Seq(Octets)
      BY <1>6, ValuesType, Nothing
    <2>5. BytesMatch'
      BY <1>1, <1>4, <1>8, <2>3, <2>4 DEF BytesMatch
    <2>6. StreamStep
      <3>1. underway \in Seq(Frames)
        BY DEF FrameType
      <3>2. SubSeq(underway, 1, Len(underway)) = underway /\ Len(underway) \in 0..Len(underway)
        BY <3>1, SubSeqFull
      <3>3. ~(s_up /\ r_up)'
        BY <1>1
      <3>4. Stream!Break
        BY <1>1, <3>2, <3>3 DEF Stream!Break
      <3> QED BY <3>4 DEF StreamStep, Stream!Next
    <2> QED BY <1>2, <1>3, <2>2, <2>5, <2>6
  <1> QED BY <1>9, <1>10

(* The receiver's end is closed, by itself or because the other is.        *)
LEMMA DownStep ==
    ASSUME FrameInv, SeesEnd \/ ReceiverEnds
    PROVE  FrameInv' /\ StreamStep
  <1> USE DEF FrameInv
  <1>1. /\ r_up' = FALSE /\ underway' = <<>>
        /\ wire' = <<>> \/ wire' = wire
        /\ UNCHANGED <<out_vars, ibuf, isize, imsg, keys_in, heard>>
    BY DEF SeesEnd, ReceiverEnds
  <1>2. UNCHANGED <<msgs, obuf, keys_out, s_up>>
    BY <1>1 DEF out_vars
  <1>3. <<>> \in Seq(Bytes) /\ <<>> \in Seq(Frames)
    OBVIOUS
  <1>4. FrameType'
    BY <1>1, <1>2, <1>3 DEF FrameType
  <1>5. (InBody /\ InHeader /\ KeysMatch /\ BytesMatch)'
    BY <1>1 DEF InBody, InHeader, KeysMatch, BytesMatch
  <1>6. Ended'
    BY <1>1, <1>2 DEF Ended
  <1>7. StreamStep
    <2>1. underway \in Seq(Frames)
      BY DEF FrameType
    <2>2. SubSeq(underway, 1, 0) = <<>> /\ 0 \in 0..Len(underway)
      BY <2>1, SubSeqEmpty
    <2>3. ~(s_up /\ r_up)'
      BY <1>1
    <2>4. Stream!Break
      BY <1>1, <2>2, <2>3 DEF Stream!Break
    <2> QED BY <2>4 DEF StreamStep, Stream!Next
  <1> QED BY <1>4, <1>5, <1>6, <1>7

(* What of the first frame has been read after n more bytes                *)
Seen(n) == IF isize = -1 THEN Got(n) ELSE Header(Head(underway)) \o Got(n)

(* n bytes leave the wire.                                                 *)
Leave(n) ==
    /\ wire' = SubSeq(wire, n + 1, Len(wire)) /\ keys_in' = step_keys(keys_in, n)
    /\ UNCHANGED <<out_vars, r_up>>

(* What recv returns was sent and was asked for.                           *)
LEMMA ReadableIs ==
    ASSUME FrameInv, r_up, NEW n \in Readable
    PROVE  n \in Nat \ {0} /\ n \in 0..Len(wire) /\ n <= Want
  <1>1. Len(wire) \in Nat /\ Len(ibuf) \in Nat /\ isize \in Int
    BY DEF FrameInv, FrameType
  <1>2. Want \in Int
    BY <1>1 DEF Want, BLK_HDR_SIZE
  <1> QED BY <1>1, <1>2 DEF Readable

(* The bytes that leave the wire are decrypted at the place where they were encrypted. *)
LEMMA LeaveKeys ==
    ASSUME FrameInv, r_up, NEW n \in Readable, Leave(n)
    PROVE  /\ wire' \in Seq(Bytes) /\ keys_in' \in Keys /\ Way' \in Seq(Bytes)
           /\ \E a \in Seq(Bytes) :
                 /\ a = SubSeq(wire, 1, n) /\ Len(a) = n
                 /\ Way = a \o Way' /\ Keyed(a, keys_in) /\ Keyed(Way', keys_in')
           /\ KeysMatch'
  <1> DEFINE a == SubSeq(wire, 1, n)
             b == SubSeq(wire, n + 1, Len(wire))
             q == FlattenSeq(msgs)
             v == (b \o obuf) \o q
  <1>1. n \in 0..Len(wire) /\ n \in Nat
    BY ReadableIs
  <1>2. FrameType
    BY DEF FrameInv
  <1>3. wire \in Seq(Bytes) /\ obuf \in Seq(Bytes) /\ q \in Seq(Bytes) /\ keys_in \in Keys
    BY <1>2, WayType DEF FrameType
  <1>4. a \in Seq(Bytes) /\ b \in Seq(Bytes) /\ Len(a) = n /\ wire = a \o b
    BY <1>1, <1>3, SplitAt
  <1>5. wire' = b /\ UNCHANGED <<msgs, obuf, keys_out, s_up, r_up>> /\ keys_in' = step_keys(keys_in, n)
    BY DEF Leave, out_vars
  <1>6. Way' = v
    BY <1>5 DEF Way
  <1>w. Way = (wire \o obuf) \o q
    BY DEF Way
  <1> HIDE DEF a, b, q
  <1>7. v \in Seq(Bytes) /\ b \o obuf \in Seq(Bytes)
    <2>1. b \o obuf \in Seq(Bytes)
      BY <1>3, <1>4, Join
    <2> QED BY <1>3, <2>1, Join
  <1>8. Way = a \o v
    <2> DEFINE t == b \o obuf
    <2>1. (a \o b) \o obuf = a \o t
      BY <1>3, <1>4, Three
    <2>2. t \in Seq(Bytes)
      BY <1>7
    <2> HIDE DEF t
    <2>t. a \in Seq(Bytes) /\ q \in Seq(Bytes)
      BY <1>3, <1>4
    <2>3. (a \o t) \o q = a \o (t \o q)
      BY <2>t, <2>2, Three
    <2>4. Way = (a \o t) \o q
      BY <1>w, <1>4, <2>1
    <2> QED BY <2>3, <2>4 DEF t
  <1> HIDE DEF v
  <1>9. Keyed(a, keys_in) /\ Keyed(v, step_keys(keys_in, n))
    <2>1. Keyed(a \o v, keys_in)
      BY <1>8 DEF FrameInv, KeysMatch
    <2> QED BY <1>3, <1>4, <1>7, <2>1, KeyedConcat
  <1>10. keys_in' \in Keys
    BY <1>1, <1>3, <1>5, StepKeys
  <1>11. s_up => keys_out = step_keys(step_keys(keys_in, n), Len(v))
    <2>1. SUFFICES ASSUME s_up PROVE keys_out = step_keys(step_keys(keys_in, n), Len(v))
      OBVIOUS
    <2>2. keys_out = step_keys(keys_in, Len(a \o v))
      BY <1>8, <2>1 DEF FrameInv, KeysMatch
    <2>3. Len(a \o v) = n + Len(v)
      BY <1>4, <1>7, Join
    <2>4. Len(v) \in Nat
      BY <1>7
    <2> QED BY <1>1, <1>3, <2>2, <2>3, <2>4, StepKeys
  <1>12. KeysMatch'
    BY <1>5, <1>6, <1>9, <1>11 DEF KeysMatch
  <1>13. a = SubSeq(wire, 1, n)
    BY DEF a
  <1>14. wire' \in Seq(Bytes) /\ Way' \in Seq(Bytes)
    BY <1>4, <1>5, <1>6, <1>7
  <1>15. Way = a \o Way' /\ Keyed(a, keys_in) /\ Keyed(Way', keys_in')
    BY <1>5, <1>6, <1>8, <1>9
  <1>16. \E x \in Seq(Bytes) :
            /\ x = SubSeq(wire, 1, n) /\ Len(x) = n
            /\ Way = x \o Way' /\ Keyed(x, keys_in) /\ Keyed(Way', keys_in')
    BY <1>4, <1>13, <1>15
  <1> QED BY <1>10, <1>12, <1>14, <1>16

(* They continue what was read of the first frame.                         *)
LEMMA LeaveBytes ==
    ASSUME FrameInv, r_up, NEW n \in Readable, Leave(n)
    PROVE  /\ Got(n) \in Seq(Octets) /\ Len(Got(n)) = Len(ibuf) + n
           /\ \E r \in Seq(Octets) :
                 /\ Carries(Seen(n), Values(Way'), r, underway)
                 /\ s_up => r = <<>>
  <1>1. PICK a \in Seq(Bytes) :
            /\ a = SubSeq(wire, 1, n) /\ Len(a) = n
            /\ Way = a \o Way' /\ Keyed(a, keys_in)
    BY LeaveKeys
  <1>2. Way' \in Seq(Bytes)
    BY LeaveKeys
  <1>3. keys_in \in Keys /\ ibuf \in Seq(Octets) /\ underway \in Seq(Frames) /\ FrameType /\ InBody
    BY DEF FrameInv, FrameType
  <1>4. decrypt_buf(a, keys_in) = Values(a)
    BY <1>1, <1>3, Decrypted
  <1> DEFINE x == Values(a)
             v == Values(Way')
             c == Consumed
  <1>5. x \in Seq(Octets) /\ Len(x) = n /\ v \in Seq(Octets) /\ c \in Seq(Octets)
    BY <1>1, <1>2, <1>3, ValuesType, ConsumedType
  <1>6. Got(n) = ibuf \o x
    BY <1>1, <1>4 DEF Got
  <1>7. Values(Way) = x \o v
    BY <1>1, <1>2, ValuesConcat
  <1>8. PICK r \in Seq(Octets) : Carries(c, Values(Way), r, underway) /\ (s_up => r = <<>>)
    BY DEF FrameInv, BytesMatch
  <1> HIDE DEF x, v
  <1>9. Got(n) \in Seq(Octets) /\ Len(Got(n)) = Len(ibuf) + n
    BY <1>3, <1>5, <1>6, Join
  <1>10. c \o x = Seen(n)
    <2>1. CASE isize = -1
      BY <1>6, <2>1 DEF Consumed, Seen
    <2>2. CASE isize # -1
      <3> DEFINE h == Header(Head(underway))
      <3>1. Head(underway) \in Frames
        BY <1>3, <2>2, HeadTailProperties DEF InBody
      <3>2. h \in Seq(Octets)
        BY <3>1, HeaderIs DEF Heads
      <3>3. c = h \o ibuf /\ Seen(n) = h \o (ibuf \o x)
        BY <1>6, <2>2 DEF Consumed, Seen
      <3> HIDE DEF h, c
      <3>4. (h \o ibuf) \o x = h \o (ibuf \o x)
        BY <1>3, <1>5, <3>2, Strung
      <3> QED BY <3>3, <3>4
    <2> QED BY <2>1, <2>2
  <1>11. Carries(c, x \o v, r, underway)
    BY <1>7, <1>8
  <1> HIDE DEF c
  <1>12. Carries(c \o x, v, r, underway)
    BY <1>3, <1>5, <1>11, CarriesRead
  <1>13. Carries(Seen(n), v, r, underway)
    BY <1>10, <1>12
  <1> QED BY <1>8, <1>9, <1>13 DEF v

(* A part of a header or of a body *)
LEMMA PartRead ==
    ASSUME FrameInv, NEW n \in Readable, recv_block(n), n # Want
    PROVE  FrameInv' /\ StreamStep
  <1>1. /\ r_up /\ Leave(n) /\ UNCHANGED <<msgs, obuf, keys_out, s_up, r_up>>
        /\ ibuf' = Got(n)
        /\ UNCHANGED <<isize, imsg, heard, underway>>
    BY DEF recv_block, Leave, Completes, out_vars
  <1>2. n \in Nat \ {0} /\ n <= Want
    BY <1>1, ReadableIs
  <1>3. wire' \in Seq(Bytes) /\ keys_in' \in Keys /\ KeysMatch'
    BY <1>1, LeaveKeys
  <1>4. Got(n) \in Seq(Octets) /\ Len(Got(n)) = Len(ibuf) + n
    BY <1>1, LeaveBytes
  <1>5. FrameType'
    BY <1>1, <1>3, <1>4 DEF FrameInv, FrameType
  <1>6. Len(ibuf) \in Nat /\ isize \in Int
    BY DEF FrameInv, FrameType
  <1>7. Len(ibuf') < IF isize = -1 THEN BLK_HDR_SIZE ELSE isize
    <2> DEFINE g == Got(n)
               b == BLK_HDR_SIZE
    <2>1. b \in Nat
      BY DEF BLK_HDR_SIZE
    <2>2. Want = (IF isize = -1 THEN b ELSE isize) - Len(ibuf)
      BY DEF Want
    <2>3. Len(g) = Len(ibuf) + n
      BY <1>4
    <2> HIDE DEF g, b
    <2>4. Len(g) < IF isize = -1 THEN b ELSE isize
      BY <1>2, <1>6, <2>1, <2>2, <2>3
    <2> QED BY <1>1, <2>4 DEF g, b
  <1>8. InBody' /\ InHeader'
    BY <1>1, <1>7 DEF FrameInv, InBody, InHeader
  <1>9. BytesMatch'
    <2>1. Consumed' = Seen(n)
      BY <1>1 DEF Consumed, Seen
    <2>2. PICK r \in Seq(Octets) :
              Carries(Seen(n), Values(Way'), r, underway) /\ (s_up => r = <<>>)
      BY <1>1, LeaveBytes
    <2> QED BY <1>1, <2>1, <2>2 DEF BytesMatch
  <1>10. Ended'
    BY <1>1 DEF FrameInv, Ended
  <1>11. StreamStep
    BY <1>1 DEF StreamStep, Stream!vars
  <1> QED BY <1>3, <1>5, <1>8, <1>9, <1>10, <1>11 DEF FrameInv

(* The first frame has come whole: it is taken.                            *)
LEMMA TakeStep ==
    ASSUME FrameInv, r_up, NEW n \in Readable, Leave(n),
           underway # <<>>, underway' = Tail(underway), heard' = Head(underway),
           isize' = -1, ibuf' = <<>>, imsg' \in BOOLEAN,
           \E r \in Seq(Octets) :
               Carries(<<>>, Values(Way'), r, Tail(underway)) /\ (s_up => r = <<>>)
    PROVE  FrameInv' /\ StreamStep
  <1>1. UNCHANGED <<msgs, obuf, keys_out, s_up, r_up>>
    BY DEF Leave, out_vars
  <1>2. wire' \in Seq(Bytes) /\ keys_in' \in Keys /\ KeysMatch'
    BY LeaveKeys
  <1>3. underway' \in Seq(Frames)
    BY HeadTailProperties DEF FrameInv, FrameType
  <1>4. FrameType'
    <2>1. <<>> \in Seq(Octets)
      OBVIOUS
    <2> QED BY <1>1, <1>2, <1>3, <2>1 DEF FrameInv, FrameType
  <1>5. InBody' /\ InHeader'
    <2>1. Len(ibuf') < BLK_HDR_SIZE
      BY EmptySeq DEF BLK_HDR_SIZE
    <2> QED BY <2>1 DEF InBody, InHeader
  <1>6. BytesMatch'
    <2>1. Consumed' = <<>>
      BY DEF Consumed
    <2> QED BY <1>1, <2>1 DEF BytesMatch
  <1>7. Ended'
    BY <1>1 DEF FrameInv, Ended
  <1>8. StreamStep
    <2>1. Stream!Take
      BY <1>1 DEF Stream!Take
    <2> QED BY <2>1 DEF StreamStep, Stream!Next
  <1> QED BY <1>2, <1>4, <1>5, <1>6, <1>7, <1>8 DEF FrameInv

(* The rest of a body: the first frame is whole.                           *)
LEMMA BodyRead ==
    ASSUME FrameInv, NEW n \in Readable, recv_block(n), n = Want, isize # -1
    PROVE  /\ FrameInv' /\ StreamStep
           /\ underway # <<>> /\ Completed(n) = Head(underway)
  <1>0. r_up /\ Leave(n)
    BY DEF recv_block, Leave
  <1>1. underway # <<>> /\ imsg = Head(underway).msg /\ isize = Len(Head(underway).body)
    BY <1>0 DEF FrameInv, InBody
  <1>2. Completes(n) /\ Completed(n) = Frame(imsg, Got(n))
    BY DEF Completes, Completed
  <1>3. /\ ibuf' = <<>> /\ isize' = -1 /\ imsg' = imsg
        /\ heard' = Frame(imsg, Got(n)) /\ underway' = Tail(underway)
    BY <1>1, <1>2 DEF recv_block
  <1>4. Got(n) \in Seq(Octets) /\ Len(Got(n)) = Len(ibuf) + n
    BY <1>0, LeaveBytes
  <1>5. Len(Got(n)) = Len(Head(underway).body)
    <2>1. Want = isize - Len(ibuf)
      BY DEF Want
    <2>2. Len(ibuf) \in Nat /\ isize \in Int
      BY DEF FrameInv, FrameType
    <2> QED BY <1>1, <1>4, <2>1, <2>2
  <1>6. PICK r \in Seq(Octets) :
            Carries(Seen(n), Values(Way'), r, underway) /\ (s_up => r = <<>>)
    BY <1>0, LeaveBytes
  <1>7. Seen(n) = Header(Head(underway)) \o Got(n)
    BY DEF Seen
  <1>8. Values(Way') \in Seq(Octets)
    BY <1>0, LeaveKeys, ValuesType
  <1>9. /\ Head(underway) = Frame(Head(underway).msg, Got(n))
        /\ Carries(<<>>, Values(Way'), r, Tail(underway))
    <2> DEFINE v == Values(Way')
               g == Got(n)
               u == underway
    <2>1. /\ u \in Seq(Frames) /\ u # <<>> /\ g \in Seq(Octets) /\ v \in Seq(Octets)
          /\ Len(g) = Len(Head(u).body) /\ Carries(Header(Head(u)) \o g, v, r, u)
      BY <1>1, <1>4, <1>5, <1>6, <1>7, <1>8 DEF FrameInv, FrameType
    <2> HIDE DEF v, g, u
    <2>2. Head(u) = Frame(Head(u).msg, g) /\ Carries(<<>>, v, r, Tail(u))
      BY <2>1, CarriesBody
    <2> QED BY <2>2 DEF v, g, u
  <1>10. heard' = Head(underway)
    BY <1>1, <1>3, <1>9
  <1>11. imsg' \in BOOLEAN
    BY <1>3 DEF FrameInv, FrameType
  <1>12. FrameInv' /\ StreamStep
    BY <1>0, <1>1, <1>3, <1>6, <1>9, <1>10, <1>11, TakeStep
  <1> QED BY <1>1, <1>2, <1>9, <1>12

(* The rest of a header: of an empty frame, or of one whose body follows.  *)
LEMMA HeaderRead ==
    ASSUME FrameInv, NEW n \in Readable, recv_block(n), n = Want, isize = -1
    PROVE  /\ FrameInv' /\ StreamStep
           /\ Completes(n) => underway # <<>> /\ Completed(n) = Head(underway)
  <1>0. r_up /\ Leave(n)
    BY DEF recv_block, Leave
  <1>1. Got(n) \in Seq(Octets) /\ Len(Got(n)) = BLK_HDR_SIZE
    <2>1. Got(n) \in Seq(Octets) /\ Len(Got(n)) = Len(ibuf) + n
      BY <1>0, LeaveBytes
    <2> DEFINE b == BLK_HDR_SIZE
    <2>2. Len(ibuf) \in Nat /\ b \in Nat
      BY DEF FrameInv, FrameType, BLK_HDR_SIZE
    <2>3. n = b - Len(ibuf)
      BY DEF Want
    <2> HIDE DEF b
    <2>4. Len(ibuf) + n = b
      BY <2>2, <2>3
    <2> QED BY <2>1, <2>4 DEF b
  <1>2. PICK r \in Seq(Octets) :
            Carries(Got(n), Values(Way'), r, underway) /\ (s_up => r = <<>>)
    BY <1>0, LeaveBytes DEF Seen
  <1>3. Values(Way') \in Seq(Octets) /\ underway \in Seq(Frames)
    BY <1>0, LeaveKeys, ValuesType DEF FrameInv, FrameType
  <1> DEFINE f == Head(underway)
  <1>4. underway # <<>> /\ f \in Frames /\ Got(n) = Header(f)
    <2> DEFINE v == Values(Way')
               g == Got(n)
    <2>1. g \in Seq(Octets) /\ Len(g) = BLK_HDR_SIZE /\ v \in Seq(Octets) /\ Carries(g, v, r, underway)
      BY <1>1, <1>2, <1>3
    <2> HIDE DEF v, g
    <2>2. underway # <<>> /\ f \in Frames /\ g = Header(f)
      BY <1>3, <2>1, CarriesHeader
    <2> QED BY <2>2 DEF g
  <1>5. hdr_imsg(Got(n)) = f.msg /\ hdr_isize(Got(n)) = Len(f.body)
    BY <1>4, HeaderIs DEF Heads
  <1>6. f.msg \in BOOLEAN /\ f.body \in Seq(Octets) /\ Len(f.body) \in Nat
    BY <1>4, FrameParts
  <1>e. Got(n) \o <<>> = Got(n) /\ <<>> \in Seq(Octets)
    BY <1>1, Nothing
  <1>7. CASE Len(f.body) = 0
    <2>1. Completes(n) /\ Completed(n) = Frame(f.msg, <<>>)
      BY <1>5, <1>7 DEF Completes, Completed
    <2>2. /\ ibuf' = <<>> /\ isize' = -1 /\ imsg' = f.msg
          /\ heard' = Frame(f.msg, <<>>) /\ underway' = Tail(underway)
      BY <1>4, <1>5, <2>1 DEF recv_block
    <2>3. f = Frame(f.msg, <<>>) /\ Carries(<<>>, Values(Way'), r, Tail(underway))
      <3> DEFINE v == Values(Way')
                 u == underway
                 g == <<>>
      <3>1. Len(g) = Len(Head(u).body)
        BY <1>7, EmptySeq
      <3>2. Carries(Header(Head(u)) \o g, v, r, u)
        BY <1>2, <1>4, <1>e
      <3>3. u \in Seq(Frames) /\ u # <<>> /\ g \in Seq(Octets) /\ v \in Seq(Octets)
        BY <1>3, <1>4, <1>e
      <3> HIDE DEF v, u, g
      <3>4. Head(u) = Frame(Head(u).msg, g) /\ Carries(<<>>, v, r, Tail(u))
        BY <3>1, <3>2, <3>3, CarriesBody
      <3> QED BY <3>4 DEF v, u, g
    <2>4. heard' = f /\ imsg' \in BOOLEAN
      BY <2>2, <2>3, <1>6
    <2> HIDE DEF f
    <2>5. heard' = Head(underway) /\ Completed(n) = Head(underway)
      BY <2>1, <2>3, <2>4 DEF f
    <2>6. FrameInv' /\ StreamStep
      BY <1>0, <1>2, <1>4, <2>2, <2>3, <2>4, <2>5, TakeStep
    <2> QED BY <1>4, <2>5, <2>6
  <1>8. CASE Len(f.body) # 0
    <2>1. ~Completes(n)
      BY <1>5, <1>8 DEF Completes
    <2>2. /\ ibuf' = <<>> /\ isize' = Len(f.body) /\ imsg' = f.msg
          /\ UNCHANGED <<heard, underway, msgs, obuf, keys_out, s_up, r_up>>
      BY <1>5, <2>1 DEF recv_block, out_vars
    <2>3. wire' \in Seq(Bytes) /\ keys_in' \in Keys /\ KeysMatch'
      BY <1>0, LeaveKeys
    <2>4. FrameType'
      BY <1>6, <1>e, <2>2, <2>3 DEF FrameInv, FrameType
    <2>5. isize' # -1
      BY <1>6, <2>2
    <2>6. InBody' /\ InHeader'
      <3>1. Len(ibuf') < isize'
        BY <1>6, <1>8, <2>2, EmptySeq
      <3> QED BY <1>4, <2>2, <2>5, <3>1 DEF InBody, InHeader
    <2>7. BytesMatch'
      <3>1. Consumed' = Header(Head(underway)) \o <<>>
        BY <2>2, <2>5 DEF Consumed
      <3>2. Consumed' = Got(n)
        BY <3>1, <1>4, <1>e
      <3> QED BY <1>2, <2>2, <3>2 DEF BytesMatch
    <2>8. Ended'
      BY <2>2 DEF FrameInv, Ended
    <2>9. StreamStep
      BY <2>2 DEF StreamStep, Stream!vars
    <2> QED BY <2>1, <2>3, <2>4, <2>6, <2>7, <2>8, <2>9 DEF FrameInv
  <1> QED BY <1>6, <1>7, <1>8

(* Whatever recv returns, what recv_block hands on is the first frame under way. *)
LEMMA RecvStep ==
    ASSUME FrameInv, NEW n \in Readable, recv_block(n)
    PROVE  /\ FrameInv' /\ StreamStep
           /\ Completes(n) => underway # <<>> /\ Completed(n) = Head(underway)
  <1>1. CASE n # Want
    <2>1. ~Completes(n)
      BY <1>1 DEF Completes
    <2> QED BY <1>1, <2>1, PartRead
  <1>2. CASE n = Want /\ isize # -1
    BY <1>2, BodyRead
  <1>3. CASE n = Want /\ isize = -1
    BY <1>3, HeaderRead
  <1> QED BY <1>1, <1>2, <1>3
-----------------------------------------------------------------------------
(* Files have sizes.                                                       *)
LEMMA Counts == N \in Nat /\ \A f \in Files : Size[f] \in Nat
  BY DataPathAssumption DEF N, Files

(* The bytes of a file and pieces of it.                                   *)
LEMMA ByteType == \A f \in Files : \A i \in Nat \ {0} : Byte(f, i) \in Octets
  <1>1. SUFFICES ASSUME NEW f \in Files, NEW i \in Nat \ {0} PROVE Byte(f, i) \in Octets
    OBVIOUS
  <1> DEFINE a == i - 1
             p == a * N
  <1>2. a \in Nat /\ N \in Nat /\ f \in Nat
    BY Counts DEF Files
  <1> HIDE DEF a
  <1>3. p \in Nat
    BY <1>2
  <1>4. Byte(f, i) = p + f
    BY DEF Byte, a
  <1> HIDE DEF p
  <1> QED BY <1>2, <1>3, <1>4 DEF Octets

LEMMA PieceType ==
    ASSUME NEW f \in Files, NEW from \in Nat, NEW n \in Int, from + n <= Size[f]
    PROVE  Piece(f, from, n) \in Seq(Octets) /\ Len(Piece(f, from, n)) = IF 0 < n THEN n ELSE 0
  <1> DEFINE d == Data(f)
             a == from + 1
             b == from + n
  <1>1. Size[f] \in Nat
    BY Counts
  <1>2. a \in Int /\ b \in Int /\ (b - a) + 1 = n /\ (a <= b <=> 0 < n)
    OBVIOUS
  <1>3. \A i \in a..b : d[i] \in Octets
    <2>1. SUFFICES ASSUME NEW i \in a..b PROVE d[i] \in Octets
      OBVIOUS
    <2>2. i \in 1..Size[f] /\ i \in Nat \ {0}
      BY <1>1
    <2>3. d[i] = Byte(f, i)
      BY <2>2 DEF Data
    <2> QED BY <2>2, <2>3, ByteType
  <1> HIDE DEF d, a, b
  <1>4. SubSeq(d, a, b) \in Seq(Octets) /\ Len(SubSeq(d, a, b)) = IF a <= b THEN (b - a) + 1 ELSE 0
    BY <1>2, <1>3, SubSeqProperties
  <1>5. Piece(f, from, n) = SubSeq(d, a, b)
    BY DEF Piece, d, a, b
  <1> QED BY <1>2, <1>4, <1>5

(* The two ways to pack bytes give bytes. *)
LEMMA PacksType ==
    ASSUME NEW b \in Seq(Octets)
    PROVE  Singles(b) \in Seq(Octets) /\ Pairs(b) \in Seq(Octets)
  <1>1. Len(b) \in Nat /\ DOMAIN b = 1..Len(b) /\ \A i \in 1..Len(b) : b[i] \in Nat
    BY DEF Octets
  <1>2. \A x \in Nat : Chunk(<<x>>) \in Octets
    BY DEF Chunk, Octets
  <1>3. Singles(b) \in Seq(Octets)
    <2>1. \A i \in 1..Len(b) : Chunk(<<b[i]>>) \in Octets
      BY <1>1, <1>2
    <2>2. Singles(b) = [i \in 1..Len(b) |-> Chunk(<<b[i]>>)]
      BY <1>1 DEF Singles
    <2> QED BY <1>1, <2>1, <2>2
  <1>4. Pairs(b) \in Seq(Octets)
    <2> DEFINE m == (Len(b) + 1) \div 2
               last(i) == IF 2 * i <= Len(b) THEN 2 * i ELSE Len(b)
               part(i) == SubSeq(b, 2 * i - 1, last(i))
    <2>1. m \in Nat
      BY <1>1
    <2>2. ASSUME NEW i \in 1..m PROVE Chunk(part(i)) \in Octets
      <3>1. /\ 2 * i - 1 \in 1..Len(b) /\ last(i) \in 1..Len(b)
            /\ last(i) = 2 * i \/ last(i) = 2 * i - 1
        BY <1>1
      <3> DEFINE lo == 2 * i - 1
                 hi == last(i)
                 c == part(i)
      <3>2. lo \in Int /\ hi \in Int /\ lo \in 1..Len(b) /\ hi \in 1..Len(b)
            /\ (hi = lo + 1 \/ hi = lo)
        BY <3>1, <1>1
      <3>3. c = SubSeq(b, lo, hi)
        OBVIOUS
      <3> HIDE DEF lo, hi, c, last, part
      <3>4. \A k \in lo..hi : b[k] \in Octets
        BY <1>1, <3>2 DEF Octets
      <3>5. c \in Seq(Octets) /\ Len(c) = IF lo <= hi THEN (hi - lo) + 1 ELSE 0
        BY <3>2, <3>3, <3>4, SubSeqProperties
      <3>6. Len(c) = 1 \/ Len(c) = 2
        BY <3>2, <3>5
      <3>7. c[1] \in Nat /\ (Len(c) = 2 => c[2] \in Nat)
        BY <3>5, <3>6 DEF Octets
      <3>8. Chunk(c) \in Octets
        BY <3>7 DEF Chunk, Octets
      <3> QED BY <3>8 DEF c
    <2>3. Pairs(b) = [i \in 1..m |-> Chunk(part(i))]
      BY DEF Pairs
    <2> HIDE DEF m, part
    <2> QED BY <2>1, <2>2, <2>3
  <1> QED BY <1>3, <1>4

(* The state of the loop around the codec                                  *)
Lefts == {l \in Seq(Octets) : Len(l) <= ZBLKSIZE}
Coding == [left : Lefts, keep : Seq(Octets), begun : BOOLEAN, pos : Nat,
           body : Seq(Octets), end : BOOLEAN]
Blocks == {o \in Coding : Len(o.body) <= oblksize}

(* What is left of a sequence is as long as what was not taken.            *)
LEMMA TailOf ==
    ASSUME NEW S, NEW s \in Seq(S), NEW n \in 0..Len(s)
    PROVE  /\ SubSeq(s, 1, n) \in Seq(S) /\ Len(SubSeq(s, 1, n)) = n
           /\ SubSeq(s, n + 1, Len(s)) \in Seq(S) /\ Len(SubSeq(s, n + 1, Len(s))) = Len(s) - n
  <1> DEFINE a == SubSeq(s, 1, n)
             b == SubSeq(s, n + 1, Len(s))
  <1>1. a \in Seq(S) /\ b \in Seq(S) /\ Len(a) = n /\ s = a \o b
    BY SplitAt
  <1> HIDE DEF a, b
  <1>2. Len(a \o b) = Len(a) + Len(b)
    BY <1>1, Join
  <1>3. Len(b) = Len(s) - n
    <2>1. Len(s) = n + Len(b)
      BY <1>1, <1>2
    <2>2. Len(b) \in Nat /\ n \in Nat
      BY <1>1
    <2> QED BY <2>1, <2>2
  <1> QED BY <1>1, <1>3 DEF a, b

(* The codec gives bytes, and never more than fits into a block.           *)
LEMMA AfterType ==
    ASSUME NEW s \in Coding, NEW taken \in 0..Len(s.left), NEW n \in 0..(Len(s.keep) + taken),
           NEW end \in BOOLEAN, NEW pairs \in BOOLEAN
    PROVE  After(s, taken, n, end, pairs) \in Coding
  <1>1. /\ s.left \in Seq(Octets) /\ Len(s.left) <= ZBLKSIZE /\ s.keep \in Seq(Octets)
        /\ s.pos \in Nat /\ s.body \in Seq(Octets)
    BY DEF Coding, Lefts
  <1> DEFINE l == s.left
             x == SubSeq(l, 1, taken)
             y == SubSeq(l, taken + 1, Len(l))
             k == s.keep
             all == k \o x
             b == SubSeq(all, 1, n)
             e == SubSeq(all, n + 1, Len(all))
             h == IF s.begun THEN <<>> ELSE <<ZHead>>
             p == IF pairs THEN Pairs(b) ELSE Singles(b)
             q == IF end THEN <<ZEnd>> ELSE <<>>
             d == s.body
  <1>2. /\ x \in Seq(Octets) /\ Len(x) = taken
        /\ y \in Seq(Octets) /\ Len(y) = Len(l) - taken
    BY <1>1, TailOf
  <1>3. y \in Lefts
    <2>1. Len(l) \in Nat /\ taken \in Nat /\ ZBLKSIZE \in Nat
      BY <1>1, DataPathAssumption
    <2>2. Len(y) <= ZBLKSIZE
      BY <1>1, <1>2, <2>1
    <2> QED BY <1>2, <2>2 DEF Lefts
  <1>4. k \in Seq(Octets) /\ d \in Seq(Octets) /\ n \in 0..(Len(k) + taken) /\ taken \in Nat
    BY <1>1
  <1>5. h \in Seq(Octets) /\ q \in Seq(Octets)
    <2>1. ZHead \in Octets /\ ZEnd \in Octets
      BY DEF ZHead, ZEnd, Octets
    <2>2. \A t \in Octets : <<t>> \in Seq(Octets)
      OBVIOUS
    <2>3. <<>> \in Seq(Octets)
      OBVIOUS
    <2> QED BY <2>1, <2>2, <2>3
  <1>r. After(s, taken, n, end, pairs) =
            [left |-> y, keep |-> e, begun |-> TRUE, pos |-> s.pos,
             body |-> ((d \o h) \o p) \o q, end |-> end]
    BY DEF After
  <1> HIDE DEF x, y, h, q, l, k, d
  <1>6. all \in Seq(Octets) /\ Len(all) = Len(k) + Len(x)
    BY <1>2, <1>4, Join
  <1> HIDE DEF all
  <1>7. b \in Seq(Octets) /\ e \in Seq(Octets)
    <2>1. n \in 0..Len(all)
      BY <1>2, <1>4, <1>6
    <2> QED BY <1>6, <2>1, TailOf
  <1> HIDE DEF b, e
  <1>8. p \in Seq(Octets)
    BY <1>7, PacksType
  <1> HIDE DEF p
  <1>9. ((d \o h) \o p) \o q \in Seq(Octets)
    <2>1. d \o h \in Seq(Octets)
      BY <1>4, <1>5, Join
    <2> DEFINE f == d \o h
    <2> HIDE DEF f
    <2>2. f \o p \in Seq(Octets)
      BY <1>8, <2>1, Join DEF f
    <2> DEFINE g == f \o p
    <2> HIDE DEF g
    <2>3. g \o q \in Seq(Octets)
      BY <1>5, <2>2, Join DEF g
    <2> QED BY <2>3 DEF g, f
  <1> DEFINE w == ((d \o h) \o p) \o q
             m == s.pos
  <1>10. w \in Seq(Octets) /\ m \in Nat
    BY <1>1, <1>9
  <1>11. After(s, taken, n, end, pairs) =
            [left |-> y, keep |-> e, begun |-> TRUE, pos |-> m, body |-> w, end |-> end]
    BY <1>r
  <1> HIDE DEF w, m
  <1> QED BY <1>3, <1>7, <1>10, <1>11 DEF Coding

LEMMA CompressType ==
    ASSUME NEW s \in Coding, NEW finish
    PROVE  do_compress(s, finish) \subseteq Blocks
  <1>1. SUFFICES ASSUME NEW o \in do_compress(s, finish) PROVE o \in Blocks
    OBVIOUS
  <1>2. PICK taken \in 0..Len(s.left) :
            \E n \in 0..(Len(s.keep) + taken), end \in BOOLEAN, pairs \in BOOLEAN :
                o = After(s, taken, n, end, pairs)
    BY DEF do_compress
  <1>3. o \in Coding
    BY <1>2, AfterType
  <1>4. Len(o.body) <= oblksize
    BY DEF do_compress, Room
  <1> QED BY <1>3, <1>4 DEF Blocks

(* The loop around it.                                                     *)
LEMMA RefillType ==
    ASSUME NEW o \in Coding, NEW f \in Files
    PROVE  Refill(o, f) \in Coding
  <1> DEFINE p == o.pos
             n == IF Size[f] - p < ZBLKSIZE THEN Size[f] - p ELSE ZBLKSIZE
             l == Piece(f, p, n)
  <1>1. p \in Nat /\ Size[f] \in Nat /\ ZBLKSIZE \in Nat
    BY Counts, DataPathAssumption DEF Coding
  <1> HIDE DEF p
  <1>2. n \in Int /\ p + n \in Nat /\ p + n <= Size[f] /\ n <= ZBLKSIZE
    BY <1>1
  <1>3. Refill(o, f) = [o EXCEPT !.left = l, !.pos = p + n]
    BY DEF Refill, p
  <1> HIDE DEF n
  <1>4. l \in Seq(Octets) /\ Len(l) = IF 0 < n THEN n ELSE 0
    BY <1>1, <1>2, PieceType
  <1> HIDE DEF l
  <1>5. l \in Lefts
    BY <1>1, <1>2, <1>4 DEF Lefts
  <1> DEFINE m == p + n
  <1>6. m \in Nat
    BY <1>2
  <1> HIDE DEF m
  <1>7. Refill(o, f) = [o EXCEPT !.left = l, !.pos = m]
    BY <1>3 DEF m
  <1> QED BY <1>5, <1>6, <1>7 DEF Coding

LEMMA RoundType ==
    ASSUME NEW o \in Blocks, NEW f \in Files
    PROVE  Round(o, f) \subseteq Blocks
  <1>1. o \in Coding
    BY DEF Blocks
  <1>2. Refill(o, f) \in Coding
    BY <1>1, RefillType
  <1>3. do_compress(Refill(o, f), Refill(o, f).pos = Size[f]) \subseteq Blocks
    BY <1>2, CompressType
  <1> QED BY <1>3 DEF Round

LEMMA ZBlocksType ==
    ASSUME NEW s \in Coding, NEW f \in Files
    PROVE  ZBlocks(s, f) \subseteq Blocks
  <1> DEFINE n == Size[f]
             b == do_compress(s, s.pos = Size[f])
             T == SUBSET Blocks
             More(t) == UNION {Round(o, f) : o \in t}
             op == [i \in 1..n |-> [t \in T |-> More(t)]]
             Body(a) == [k \in 0..n |-> IF k = 0 THEN b ELSE More(a[k - 1])]
             after == CHOOSE a : a = Body(a)
  <1>1. n \in Nat
    BY Counts
  <1>2. b \in T
    BY CompressType
  <1>3. \A t \in T : More(t) \in T
    BY RoundType
  <1>4. op \in [1..n -> [T -> T]]
    <2> HIDE DEF More, T
    <2> QED BY <1>3
  <1>5. \A i \in 1..n : \A t \in T : op[i][t] = More(t)
    <2> HIDE DEF More, T
    <2> QED OBVIOUS
  <1>6. ZBlocks(s, f) = after[n]
    BY DEF ZBlocks
  <1> HIDE DEF n, b, T, More, op
  <1>7. PICK g \in [0..n -> T] : Follows(g, n, b, op)
    BY <1>1, <1>2, <1>4, FoldExists
  <1>8. g = Body(g)
    <2>1. ASSUME NEW k \in 0..n PROVE g[k] = Body(g)[k]
      <3>1. CASE k = 0
        BY <1>7, <3>1 DEF Follows
      <3>2. CASE k # 0
        <4>1. k \in 1..n /\ k - 1 \in 0..n
          BY <1>1, <3>2
        <4>2. g[k] = op[k][g[k - 1]]
          BY <1>7, <4>1 DEF Follows
        <4>3. g[k - 1] \in T
          BY <1>7, <4>1
        <4>4. g[k] = More(g[k - 1])
          BY <1>5, <4>1, <4>2, <4>3
        <4> QED BY <3>2, <4>4
      <3> QED BY <3>1, <3>2
    <2>2. Body(g) = [k \in 0..n |-> Body(g)[k]]
      OBVIOUS
    <2>3. g = [k \in 0..n |-> g[k]]
      BY <1>7
    <2> HIDE DEF Body
    <2> QED BY <2>1, <2>2, <2>3
  <1>9. after = Body(after)
    <2> HIDE DEF Body
    <2> QED BY <1>8
  <1> HIDE DEF after
  <1>10. after[0] = b
    BY <1>1, <1>9
  <1>11. ASSUME NEW k \in 1..n PROVE after[k] = More(after[k - 1])
    <2>1. k \in 0..n /\ k # 0
      BY <1>1
    <2>2. after[k] = Body(after)[k]
      <3> HIDE DEF Body
      <3> QED BY <1>9
    <2> QED BY <2>1, <2>2
  <1> DEFINE Good == {k \in 0..n : after[k] \in T}
  <1>12. 0 \in Good
    BY <1>1, <1>2, <1>10
  <1>13. ASSUME NEW k \in 1..n, k - 1 \in Good PROVE k \in Good
    BY <1>1, <1>3, <1>11, <1>13
  <1> HIDE DEF Good
  <1>14. \A k \in 0..n : k \in Good
    BY <1>1, <1>12, <1>13, UpTo
  <1>15. after[n] \in T
    BY <1>1, <1>14 DEF Good
  <1> QED BY <1>6, <1>15 DEF T

(* The decoder gives bytes.                                                *)
LEMMA DecompressType ==
    ASSUME NEW on, NEW body \in Seq(Octets)
    PROVE  do_decompress(on, body).data \in Seq(Octets)
  <1> DEFINE e == [i \in DOMAIN body |-> IF body[i] >= 16 THEN Unchunk(body[i]) ELSE <<>>]
  <1>1. do_decompress(on, body).data = FlattenSeq(e)
    BY DEF do_decompress
  <1>2. DOMAIN body = 1..Len(body) /\ Len(body) \in Nat /\ \A i \in 1..Len(body) : body[i] \in Nat
    BY DEF Octets
  <1>3. ASSUME NEW v \in Nat, v >= 16 PROVE Unchunk(v) \in Seq(Octets)
    <2> DEFINE a == (v - 16) \div 8
               c == (v - 16) % 8
    <2>1. a \in Octets /\ c \in Octets
      BY <1>3 DEF Octets
    <2>2. Unchunk(v) = <<a>> \o (IF c = 0 THEN <<>> ELSE <<c>>)
      BY DEF Unchunk
    <2> HIDE DEF a, c
    <2>3. <<a>> \in Seq(Octets) /\ <<c>> \in Seq(Octets) /\ <<>> \in Seq(Octets)
      BY <2>1
    <2> QED BY <2>2, <2>3, Join
  <1>4. ASSUME NEW i \in 1..Len(body) PROVE e[i] \in Seq(Octets)
    <2>1. <<>> \in Seq(Octets)
      OBVIOUS
    <2> QED BY <1>2, <1>3, <2>1
  <1>5. e = [i \in 1..Len(body) |-> e[i]]
    BY <1>2
  <1>6. e \in Seq(Seq(Octets))
    <2> DEFINE B == Seq(Octets)
    <2> HIDE DEF B, e
    <2>1. \A i \in 1..Len(body) : e[i] \in B
      BY <1>4 DEF B
    <2>2. e \in Seq(B)
      BY <1>2, <1>5, <2>1
    <2> QED BY <2>2 DEF B
  <1> HIDE DEF e
  <1> QED BY <1>1, <1>6, FlatType
-----------------------------------------------------------------------------
(* What the two ends of a session hold beside the bytes                    *)
Holding == [left : Lefts, keep : Seq(Octets), begun : BOOLEAN]
Answers == [f : Files, offset : Int]
KnownFrames == {fr \in Frames : fr.msg /\ fr.body # M_NUL => FileOf(fr.body) \in Files}

DataType ==
    /\ next \in Nat \ {0} /\ out \in 0..N /\ pos \in Nat /\ z \in Holding
    /\ infile \in 0..N /\ held \in [Files -> Seq(Octets)]
    /\ r2s \in Seq(Answers)

DataInv == FrameInv /\ DataType /\ underway \in Seq(KnownFrames)

(* What the session sends is frames, and a message about a file names one. *)
LEMMA InFrames ==
    ASSUME NEW m \in BOOLEAN, NEW b \in Seq(Octets), Len(b) <= MAX_BLKSIZE
    PROVE  Frame(m, b) \in Frames /\ Frame(m, b).msg = m /\ Frame(m, b).body = b
  BY DEF Frame, Frames

LEMMA FrameM_FILE ==
    ASSUME NEW f \in Files, NEW offset \in Int, offset >= -1, NEW gz
    PROVE  Frame(TRUE, M_FILE(f, offset, gz)) \in KnownFrames
  <1> DEFINE bit == IF gz THEN 1 ELSE 0
             a == 2 * f + bit
             c == offset + 1
             b == M_FILE(f, offset, gz)
  <1>1. bit \in {0, 1} /\ f \in Nat
    BY Counts DEF Files
  <1>2. b = <<a, c>>
    BY DEF M_FILE
  <1> HIDE DEF bit, b
  <1>3. a \in Nat /\ a \div 2 = f
    BY <1>1
  <1>4. c \in Nat
    OBVIOUS
  <1> HIDE DEF a, c
  <1>5. b \in Seq(Octets) /\ Len(b) = 2 /\ b[1] = a
    BY <1>2, <1>3, <1>4 DEF Octets
  <1>6. Len(b) <= MAX_BLKSIZE
    BY <1>5, FramingAssumption
  <1>7. Frame(TRUE, b) \in Frames /\ Frame(TRUE, b).body = b
    BY <1>5, <1>6, InFrames
  <1>8. FileOf(b) = f
    BY <1>3, <1>5 DEF FileOf
  <1> QED BY <1>7, <1>8 DEF KnownFrames, b

LEMMA FrameM_NUL == Frame(TRUE, M_NUL) \in KnownFrames
  <1>1. M_NUL \in Seq(Octets) /\ Len(M_NUL) = 1
    BY DEF M_NUL, Octets
  <1>2. Len(M_NUL) <= MAX_BLKSIZE
    BY <1>1, FramingAssumption
  <1>3. Frame(TRUE, M_NUL) \in Frames /\ Frame(TRUE, M_NUL).body = M_NUL
    BY <1>1, <1>2, InFrames
  <1> QED BY <1>3 DEF KnownFrames

LEMMA FrameData ==
    ASSUME NEW b \in Seq(Octets), Len(b) <= oblksize
    PROVE  Frame(FALSE, b) \in KnownFrames
  <1>1. Len(b) <= MAX_BLKSIZE
    <2>1. Len(b) \in Nat /\ oblksize \in Nat /\ MAX_BLKSIZE \in Nat /\ oblksize <= MAX_BLKSIZE
      BY DataPathAssumption, FramingAssumption
    <2> QED BY <2>1
  <1>2. Frame(FALSE, b) \in Frames /\ Frame(FALSE, b).msg = FALSE
    BY <1>1, InFrames
  <1> QED BY <1>2 DEF KnownFrames

(* A frame more under way is a known one. *)
LEMMA DepartKnown ==
    ASSUME DataInv, NEW f \in KnownFrames, Depart(f)
    PROVE  underway' \in Seq(KnownFrames)
  <1>1. underway \in Seq(KnownFrames)
    BY DEF DataInv
  <1>2. Append(underway, f) \in Seq(KnownFrames) /\ <<>> \in Seq(KnownFrames)
    BY <1>1, AppendProperties
  <1> QED BY <1>2 DEF Depart

(* Such a frame put.                                                       *)
LEMMA MessagePut ==
    ASSUME DataInv, s_up, NEW b, Frame(TRUE, b) \in KnownFrames, msg_send2(b)
    PROVE  FrameInv' /\ StreamStep /\ underway' \in Seq(KnownFrames)
  <1>1. Frame(TRUE, b) \in Frames
    BY DEF KnownFrames
  <1>2. FrameInv' /\ StreamStep
    BY <1>1, MsgStep DEF DataInv
  <1>3. underway' \in Seq(KnownFrames)
    BY DepartKnown DEF msg_send2
  <1> QED BY <1>2, <1>3

LEMMA BlockPut ==
    ASSUME DataInv, NEW b \in Seq(Octets), Len(b) <= oblksize, StartBlock(b)
    PROVE  FrameInv' /\ StreamStep /\ underway' \in Seq(KnownFrames)
  <1>0. Frame(FALSE, b) \in KnownFrames
    BY FrameData
  <1>1. Frame(FALSE, b) \in Frames
    BY <1>0 DEF KnownFrames
  <1>2. FrameInv' /\ StreamStep
    BY <1>1, BlockStep DEF DataInv
  <1>3. underway' \in Seq(KnownFrames)
    BY <1>0, DepartKnown DEF StartBlock
  <1> QED BY <1>2, <1>3

(* Compression begins and stops with bytes in the buffer or none.          *)
LEMMA FreshType == \A l \in Lefts : Fresh(l) \in Holding
  <1>1. <<>> \in Seq(Octets)
    OBVIOUS
  <1> QED BY <1>1 DEF Fresh, Holding

LEMMA NoLeft == <<>> \in Lefts
  <1>1. <<>> \in Seq(Octets) /\ Len(<<>>) = 0
    OBVIOUS
  <1>2. 0 <= ZBLKSIZE
    BY DataPathAssumption
  <1> QED BY <1>1, <1>2 DEF Lefts

LEMMA InitType ==
    ASSUME NEW on, NEW codec \in Holding, NEW f
    PROVE  /\ \A i \in z_send_init(on, codec, f) : i.z \in Holding
           /\ z_send_stop(on, codec) \in Holding
  <1>1. codec.left \in Lefts
    BY DEF Holding
  <1>2. Fresh(codec.left) \in Holding /\ Fresh(<<>>) \in Holding
    BY <1>1, FreshType, NoLeft
  <1>3. ASSUME NEW i \in z_send_init(on, codec, f) PROVE i.z \in Holding
    BY <1>2 DEF z_send_init
  <1>4. z_send_stop(on, codec) \in Holding
    BY <1>2 DEF z_send_stop, compress_deinit
  <1> QED BY <1>3, <1>4

(* Every step of the session keeps DataInv and is a step of the stream.    *)
LEMMA start_file_transferStep ==
    ASSUME DataInv, start_file_transfer
    PROVE  DataInv' /\ StreamStep
  <1>1. /\ s_up /\ next <= N /\ out' = next /\ next' = next + 1 /\ pos' = 0
        /\ UNCHANGED <<r2s, infile, held>>
    BY DEF start_file_transfer, recv_vars
  <1>2. PICK i \in z_send_init(z_send, z, next) :
            z' = i.z /\ msg_send2(M_FILE(next, IF NR THEN -1 ELSE 0, i.gz))
    BY DEF start_file_transfer
  <1>3. DataType
    BY DEF DataInv
  <1>4. next \in Files /\ next \in 0..N /\ next + 1 \in Nat \ {0}
    BY <1>1, <1>3, Counts DEF DataType, Files
  <1>5. z' \in Holding
    BY <1>2, <1>3, InitType DEF DataType
  <1> DEFINE o == IF NR THEN -1 ELSE 0
             g == i.gz
  <1>6. o \in Int /\ o >= -1
    OBVIOUS
  <1>7. msg_send2(M_FILE(next, o, g))
    BY <1>2
  <1> HIDE DEF o, g
  <1>8. Frame(TRUE, M_FILE(next, o, g)) \in KnownFrames
    BY <1>4, <1>6, FrameM_FILE
  <1>9. FrameInv' /\ StreamStep /\ underway' \in Seq(KnownFrames)
    BY <1>1, <1>7, <1>8, MessagePut
  <1>10. DataType'
    BY <1>1, <1>3, <1>4, <1>5 DEF DataType
  <1> QED BY <1>9, <1>10 DEF DataInv

LEMMA OtherMessageStep ==
    ASSUME DataInv, OtherMessage
    PROVE  DataInv' /\ StreamStep
  <1>1. /\ s_up /\ msg_send2(M_NUL)
        /\ UNCHANGED <<next, out, pos, z, r2s, infile, held>>
    BY DEF OtherMessage, recv_vars
  <1>2. FrameInv' /\ StreamStep /\ underway' \in Seq(KnownFrames)
    BY <1>1, FrameM_NUL, MessagePut
  <1>3. DataType'
    BY <1>1 DEF DataInv, DataType
  <1> QED BY <1>2, <1>3 DEF DataInv

LEMMA send_block_plainStep ==
    ASSUME DataInv, send_block_plain
    PROVE  DataInv' /\ StreamStep
  <1> DEFINE n == IF Size[out] - pos < oblksize THEN Size[out] - pos ELSE oblksize
             b == Piece(out, pos, n)
  <1>1. /\ out # 0 /\ StartBlock(b) /\ pos' = pos + n
        /\ out' = 0 \/ out' = out
        /\ UNCHANGED <<next, z, r2s, infile, held>>
    BY DEF send_block_plain, WasSent, recv_vars
  <1>2. DataType
    BY DEF DataInv
  <1>3. out \in Files /\ pos \in Nat /\ oblksize \in Nat
    BY <1>1, <1>2, Counts, FramingAssumption, DataPathAssumption DEF DataType, Files
  <1>4. Size[out] \in Nat
    BY <1>3, Counts
  <1>5. n \in Int /\ pos + n \in Nat /\ pos + n <= Size[out] /\ n <= oblksize
    BY <1>3, <1>4
  <1> HIDE DEF n
  <1>6. b \in Seq(Octets) /\ Len(b) = IF 0 < n THEN n ELSE 0
    BY <1>3, <1>5, PieceType
  <1>7. Len(b) <= oblksize
    BY <1>3, <1>5, <1>6
  <1> HIDE DEF b
  <1>8. FrameInv' /\ StreamStep /\ underway' \in Seq(KnownFrames)
    BY <1>1, <1>6, <1>7, BlockPut
  <1>9. DataType'
    <2>1. out' \in 0..N
      BY <1>1, <1>2, Counts DEF DataType
    <2> QED BY <1>1, <1>2, <1>5, <2>1 DEF DataType
  <1> QED BY <1>8, <1>9 DEF DataInv

LEMMA send_block_zStep ==
    ASSUME DataInv, send_block_z
    PROVE  DataInv' /\ StreamStep
  <1> DEFINE l == z.left
             room == ZBLKSIZE - Len(l)
             n == IF Size[out] - pos < room THEN Size[out] - pos ELSE room
             p == Piece(out, pos, n)
             at == pos + n
             s == [left |-> l \o p, keep |-> z.keep, begun |-> z.begun, pos |-> at,
                   body |-> <<>>, end |-> FALSE]
  <1>1. PICK o \in ZBlocks(s, out) :
            /\ StartBlock(o.body) /\ pos' = o.pos
            /\ z' = IF o.end THEN compress_deinit(o)
                    ELSE [left |-> o.left, keep |-> o.keep, begun |-> o.begun]
    BY DEF send_block_z
  <1>2. /\ out # 0 /\ (out' = 0 \/ out' = out)
        /\ UNCHANGED <<next, r2s, infile, held>>
    BY DEF send_block_z, WasSent, recv_vars
  <1>3. DataType
    BY DEF DataInv
  <1>4. out \in Files /\ pos \in Nat /\ ZBLKSIZE \in Nat
    BY <1>2, <1>3, Counts, DataPathAssumption DEF DataType, Files
  <1>5. Size[out] \in Nat
    BY <1>4, Counts
  <1>6. /\ l \in Seq(Octets) /\ Len(l) <= ZBLKSIZE /\ Len(l) \in Nat
        /\ z.keep \in Seq(Octets) /\ z.begun \in BOOLEAN
    BY <1>3 DEF DataType, Holding, Lefts
  <1> HIDE DEF l
  <1>7. /\ n \in Int /\ pos + n \in Nat /\ pos + n <= Size[out] /\ room \in Nat
        /\ n <= room /\ Len(l) + room = ZBLKSIZE
    BY <1>4, <1>5, <1>6
  <1> HIDE DEF n, room
  <1>8. p \in Seq(Octets) /\ Len(p) = IF 0 < n THEN n ELSE 0
    BY <1>4, <1>7, PieceType
  <1> HIDE DEF p
  <1>9. Len(p) \in Nat /\ Len(p) <= room
    BY <1>7, <1>8
  <1> DEFINE lp == l \o p
  <1>10. lp \in Lefts
    <2>1. l \o p \in Seq(Octets) /\ Len(l \o p) = Len(l) + Len(p)
      BY <1>6, <1>8, Join
    <2>2. Len(l \o p) <= ZBLKSIZE
      BY <1>4, <1>6, <1>7, <1>9, <2>1
    <2> QED BY <2>1, <2>2 DEF Lefts
  <1>11. at \in Nat
    BY <1>7
  <1>12. s = [left |-> lp, keep |-> z.keep, begun |-> z.begun, pos |-> at,
              body |-> <<>>, end |-> FALSE]
    OBVIOUS
  <1> HIDE DEF lp, at, s
  <1>13. s \in Coding
    <2>1. <<>> \in Seq(Octets)
      OBVIOUS
    <2> QED BY <1>6, <1>10, <1>11, <1>12, <2>1 DEF Coding
  <1>14. o \in Blocks
    BY <1>1, <1>4, <1>13, ZBlocksType
  <1>15. /\ o.body \in Seq(Octets) /\ Len(o.body) <= oblksize /\ o.pos \in Nat
         /\ o.left \in Lefts /\ o.keep \in Seq(Octets) /\ o.begun \in BOOLEAN
    BY <1>14 DEF Blocks, Coding
  <1>16. FrameInv' /\ StreamStep /\ underway' \in Seq(KnownFrames)
    <2> DEFINE b == o.body
    <2>1. b \in Seq(Octets) /\ Len(b) <= oblksize /\ StartBlock(b)
      BY <1>1, <1>15
    <2> HIDE DEF b
    <2> QED BY <2>1, BlockPut
  <1>17. z' \in Holding
    <2>1. Fresh(o.left) \in Holding
      BY <1>15, FreshType
    <2>2. [left |-> o.left, keep |-> o.keep, begun |-> o.begun] \in Holding
      BY <1>15 DEF Holding
    <2> QED BY <1>1, <2>1, <2>2 DEF compress_deinit
  <1>18. DataType'
    <2>1. out' \in 0..N
      BY <1>2, <1>3, Counts DEF DataType
    <2> QED BY <1>1, <1>2, <1>3, <1>15, <1>17, <2>1 DEF DataType
  <1> QED BY <1>16, <1>18 DEF DataInv

(* Nothing moves.                                                          *)
LEMMA FrameSame ==
    ASSUME FrameInv, UNCHANGED frame_vars
    PROVE  FrameInv' /\ StreamStep
  <1>1. UNCHANGED <<msgs, obuf, keys_out, s_up, wire, ibuf, isize, imsg, keys_in, r_up,
                    heard, underway>>
    BY DEF frame_vars, out_vars, in_vars
  <1>2. Way' = Way /\ Consumed' = Consumed
    BY <1>1 DEF Way, Consumed
  <1>3. FrameType' /\ InBody' /\ InHeader' /\ Ended'
    BY <1>1 DEF FrameInv, FrameType, InBody, InHeader, Ended
  <1>4. KeysMatch' /\ BytesMatch'
    BY <1>1, <1>2 DEF FrameInv, KeysMatch, BytesMatch
  <1>5. StreamStep
    BY <1>1 DEF StreamStep, Stream!vars
  <1> QED BY <1>3, <1>4, <1>5 DEF FrameInv

(* An answer is read: M_GET sends an M_FILE.                               *)
LEMMA HearAnswerStep ==
    ASSUME DataInv, HearAnswer
    PROVE  DataInv' /\ StreamStep
  <1> DEFINE a == Head(r2s)
  <1>1. /\ s_up /\ r2s # <<>> /\ r2s' = Tail(r2s) /\ UNCHANGED <<infile, held>>
        /\ (a.offset >= 0 /\ GET(a.f, a.offset)) \/ (a.offset = -1 /\ GOT_SKIP(a.f))
    BY DEF HearAnswer, recv_vars
  <1>2. DataType
    BY DEF DataInv
  <1>3. a \in Answers /\ r2s' \in Seq(Answers)
    BY <1>1, <1>2, HeadTailProperties DEF DataType
  <1>4. a.f \in Files /\ a.offset \in Int
    BY <1>3 DEF Answers
  <1> DEFINE f == a.f
             offset == a.offset
  <1>5. CASE a.offset >= 0 /\ GET(a.f, a.offset)
    <2>0. f \in Files /\ offset \in Nat /\ GET(f, offset)
      BY <1>4, <1>5
    <2> HIDE DEF f, offset
    <2>1. PICK i \in z_send_init(FALSE, z_send_stop(z_send, z), f) :
              z' = i.z /\ msg_send2(M_FILE(f, offset, i.gz))
      BY <2>0 DEF GET
    <2>2. out' = f /\ pos' = offset /\ UNCHANGED next
      BY <2>0 DEF GET
    <2>3. z' \in Holding
      <3>1. z_send_stop(z_send, z) \in Holding
        BY <1>2, InitType DEF DataType
      <3> DEFINE c == z_send_stop(z_send, z)
      <3>2. c \in Holding /\ i \in z_send_init(FALSE, c, f)
        BY <3>1
      <3> HIDE DEF c
      <3>3. i.z \in Holding
        BY <3>2, InitType
      <3> QED BY <2>1, <3>3
    <2> DEFINE g == i.gz
    <2>4. msg_send2(M_FILE(f, offset, g))
      BY <2>1
    <2> HIDE DEF g
    <2>5. Frame(TRUE, M_FILE(f, offset, g)) \in KnownFrames
      <3>1. offset \in Int /\ offset >= -1
        BY <2>0
      <3> QED BY <2>0, <3>1, FrameM_FILE
    <2>6. FrameInv' /\ StreamStep /\ underway' \in Seq(KnownFrames)
      BY <1>1, <2>4, <2>5, MessagePut
    <2>7. out' \in 0..N /\ pos' \in Nat
      BY <2>0, <2>2, Counts DEF Files
    <2>8. DataType'
      BY <1>1, <1>2, <1>3, <2>2, <2>3, <2>7 DEF DataType
    <2> QED BY <2>6, <2>8 DEF DataInv
  <1>6. CASE a.offset = -1 /\ GOT_SKIP(a.f)
    <2>1. (out' = 0 \/ out' = out) /\ UNCHANGED <<next, pos, z>> /\ UNCHANGED frame_vars
      BY <1>6 DEF GOT_SKIP
    <2>2. FrameInv' /\ StreamStep
      BY <2>1, FrameSame DEF DataInv
    <2>3. underway' \in Seq(KnownFrames)
      BY <2>1 DEF DataInv, frame_vars
    <2>4. out' \in 0..N
      BY <1>2, <2>1, Counts DEF DataType
    <2>5. DataType'
      BY <1>1, <1>2, <1>3, <2>1, <2>4 DEF DataType
    <2> QED BY <2>2, <2>3, <2>5 DEF DataInv
  <1> QED BY <1>1, <1>5, <1>6

(* An answer is sent.                                                      *)
LEMMA ReplyType ==
    ASSUME r2s \in Seq(Answers), NEW f \in Files, NEW offset \in Int, Reply(f, offset)
    PROVE  r2s' \in Seq(Answers)
  <1> DEFINE a == [f |-> f, offset |-> offset]
  <1>1. a \in Answers
    BY DEF Answers
  <1>2. r2s' = Append(r2s, a)
    BY DEF Reply
  <1> HIDE DEF a
  <1> QED BY <1>1, <1>2, AppendProperties

(* What the receiver keeps of a session                                    *)
Kept == infile \in 0..N /\ held \in [Files -> Seq(Octets)] /\ r2s \in Seq(Answers)

(* A frame is handled.                                                     *)
LEMMA FILEStep ==
    ASSUME Kept, NEW f \in Files, NEW offset, NEW gz, FILE(f, offset, gz)
    PROVE  Kept'
  <1>1. UNCHANGED held /\ (infile' = 0 \/ infile' = f)
    BY DEF FILE
  <1>2. infile' \in 0..N
    BY <1>1, Counts DEF Files
  <1>3. Len(held[f]) \in Nat
    <2> DEFINE d == held[f]
    <2>1. d \in Seq(Octets)
      BY DEF Kept
    <2> HIDE DEF d
    <2>2. Len(d) \in Nat
      BY <2>1
    <2> QED BY <2>2 DEF d
  <1> DEFINE n == Len(held[f])
  <1>4. Reply(f, -1) \/ Reply(f, n) \/ UNCHANGED r2s
    BY DEF FILE
  <1>5. n \in Int
    BY <1>3
  <1> HIDE DEF n
  <1>6. r2s' \in Seq(Answers)
    BY <1>4, <1>5, ReplyType DEF Kept
  <1> QED BY <1>1, <1>2, <1>6 DEF Kept

LEMMA DataBlockStep ==
    ASSUME Kept, NEW body \in Seq(Octets), DataBlock(body)
    PROVE  Kept'
  <1>1. CASE infile = 0
    BY <1>1 DEF DataBlock, Kept, recv_vars
  <1>2. CASE infile # 0
    <2> DEFINE d == IF z_recv THEN do_decompress(z_idata, body)
                    ELSE [on |-> FALSE, data |-> body, bad |-> FALSE]
               data == d.data
               now == held[infile] \o data
    <2>1. infile \in Files
      BY <1>2, Counts DEF Kept, Files
    <2>2. /\ held' = held \/ held' = [held EXCEPT ![infile] = now]
          /\ infile' = 0 \/ infile' = infile
          /\ Reply(infile, -1) \/ UNCHANGED r2s
      BY <1>2 DEF DataBlock
    <2>3. data \in Seq(Octets)
      <3>1. CASE z_recv
        <4>1. do_decompress(z_idata, body).data \in Seq(Octets)
          BY DecompressType
        <4> QED BY <3>1, <4>1
      <3>2. CASE ~z_recv
        BY <3>2
      <3> QED BY <3>1, <3>2
    <2> HIDE DEF data
    <2>4. now \in Seq(Octets)
      <3> DEFINE p == held[infile]
      <3>1. p \in Seq(Octets)
        BY <2>1 DEF Kept
      <3> HIDE DEF p
      <3>2. p \o data \in Seq(Octets)
        BY <2>3, <3>1, Join
      <3> QED BY <3>2 DEF p
    <2> HIDE DEF now
    <2>5. held' \in [Files -> Seq(Octets)]
      BY <2>2, <2>4 DEF Kept
    <2>6. r2s' \in Seq(Answers)
      BY <2>1, <2>2, ReplyType DEF Kept
    <2>7. infile' \in 0..N
      BY <2>2, Counts DEF Kept
    <2> QED BY <2>5, <2>6, <2>7 DEF Kept
  <1> QED BY <1>1, <1>2

LEMMA HandleStep ==
    ASSUME Kept, NEW fr \in KnownFrames, Handle(fr)
    PROVE  Kept'
  <1>0. fr \in Frames /\ (fr.msg /\ fr.body # M_NUL => FileOf(fr.body) \in Files)
    BY DEF KnownFrames
  <1>1. fr.body \in Seq(Octets)
    BY <1>0, FrameParts
  <1> DEFINE b == fr.body
             f == FileOf(b)
             o == OffsetOf(b)
             g == GZOf(b)
  <1>2. \/ DataBlock(b)
        \/ fr.msg /\ b # M_NUL /\ FILE(f, o, g)
        \/ UNCHANGED <<r2s, recv_vars>>
    BY DEF Handle
  <1>3. CASE DataBlock(b)
    BY <1>1, <1>3, DataBlockStep
  <1>4. CASE fr.msg /\ b # M_NUL /\ FILE(f, o, g)
    <2>1. f \in Files
      BY <1>0, <1>4
    <2> HIDE DEF f, o, g
    <2> QED BY <1>4, <2>1, FILEStep
  <1>5. CASE UNCHANGED <<r2s, recv_vars>>
    BY <1>5 DEF Kept, recv_vars
  <1> QED BY <1>2, <1>3, <1>4, <1>5

(* recv_block and what is done with the frame.                             *)
LEMMA ReceiveStep ==
    ASSUME DataInv, Receive
    PROVE  DataInv' /\ StreamStep
  <1>1. PICK n \in Readable :
            /\ recv_block(n)
            /\ \/ Completes(n) /\ Handle(Completed(n))
               \/ ~Completes(n) /\ UNCHANGED <<r2s, recv_vars>>
    BY DEF Receive
  <1>2. UNCHANGED <<next, out, pos, z>>
    BY DEF Receive, send_vars
  <1>3. /\ FrameInv' /\ StreamStep
        /\ Completes(n) => underway # <<>> /\ Completed(n) = Head(underway)
    BY <1>1, RecvStep DEF DataInv
  <1>4. underway \in Seq(KnownFrames)
    BY DEF DataInv
  <1>5. underway' \in Seq(KnownFrames)
    <2>1. underway' = underway \/ (underway # <<>> /\ underway' = Tail(underway))
      BY <1>1 DEF recv_block
    <2> QED BY <1>4, <2>1, HeadTailProperties
  <1>6. Kept
    BY DEF DataInv, DataType, Kept
  <1>7. Kept'
    <2>1. CASE Completes(n) /\ Handle(Completed(n))
      <3>1. Head(underway) \in KnownFrames
        BY <1>3, <1>4, <2>1, HeadTailProperties
      <3>2. Handle(Head(underway))
        BY <1>3, <2>1
      <3> QED BY <1>6, <3>1, <3>2, HandleStep
    <2>2. CASE ~Completes(n) /\ UNCHANGED <<r2s, recv_vars>>
      BY <1>6, <2>2 DEF Kept, recv_vars
    <2> QED BY <1>1, <2>1, <2>2
  <1>8. DataType'
    BY <1>2, <1>7 DEF DataInv, DataType, Kept
  <1> QED BY <1>3, <1>5, <1>8 DEF DataInv

(* Bytes move, or an end breaks off.                                       *)
LEMMA BytesStep ==
    ASSUME DataInv, Flush \/ Ends
    PROVE  DataInv' /\ StreamStep
  <1>1. /\ SendBytes \/ FillMsgs \/ SenderEnds \/ SeesEnd \/ ReceiverEnds
        /\ UNCHANGED <<next, out, pos, z, r2s, infile, held>>
    BY DEF Flush, Ends, send_vars, recv_vars
  <1>2. FrameInv' /\ StreamStep
    BY <1>1, SendStep, FillStep, SenderEndsStep, DownStep DEF DataInv
  <1>3. underway' \in Seq(KnownFrames)
    <2>1. underway' = underway \/ underway' = <<>>
      BY <1>1 DEF SendBytes, FillMsgs, SenderEnds, SeesEnd, ReceiverEnds
    <2>2. <<>> \in Seq(KnownFrames)
      OBVIOUS
    <2> QED BY <2>1, <2>2 DEF DataInv
  <1>4. DataType'
    BY <1>1 DEF DataInv, DataType
  <1> QED BY <1>2, <1>3, <1>4 DEF DataInv

LEMMA IdleStep ==
    ASSUME DataInv, UNCHANGED vars
    PROVE  DataInv' /\ StreamStep
  <1>1. UNCHANGED frame_vars /\ UNCHANGED <<next, out, pos, z, r2s, infile, held>>
    BY DEF vars, send_vars, recv_vars
  <1>2. FrameInv' /\ StreamStep
    BY <1>1, FrameSame DEF DataInv
  <1>3. underway' = underway
    BY <1>1 DEF frame_vars
  <1>4. DataType' /\ underway' \in Seq(KnownFrames)
    BY <1>1, <1>3 DEF DataInv, DataType
  <1> QED BY <1>2, <1>4 DEF DataInv

(* The invariant holds at the start.                                       *)
LEMMA DataInit ==
    ASSUME Init
    PROVE  DataInv /\ Stream!Init
  <1>1. FramingInit
    BY DEF Init
  <1>2. FrameInv /\ Stream!Init
    BY <1>1, FrameInitInv
  <1>3. underway \in Seq(KnownFrames)
    <2>1. underway = <<>>
      BY <1>1 DEF FramingInit
    <2> QED BY <2>1
  <1>4. next = 1 /\ out = 0 /\ pos = 0 /\ z = Fresh(<<>>) /\ infile = 0 /\ r2s = <<>>
    BY DEF Init
  <1>5. held \in [Files -> Seq(Octets)]
    <2>1. PICK n \in Partial : held = [f \in Files |-> IF f = 1 THEN Piece(1, 0, n) ELSE <<>>]
      BY DEF Init
    <2>2. ASSUME NEW f \in Files PROVE held[f] \in Seq(Octets)
      <3>1. CASE f = 1
        <4>1. 1 \in Files /\ n \in 0..Size[1]
          BY <3>1, DataPathAssumption
        <4>2. n \in Int /\ 0 + n <= Size[1] /\ 0 \in Nat
          BY <4>1, Counts
        <4>3. Piece(1, 0, n) \in Seq(Octets)
          BY <4>1, <4>2, PieceType
        <4> QED BY <2>1, <3>1, <4>3
      <3>2. CASE f # 1
        <4>1. <<>> \in Seq(Octets)
          OBVIOUS
        <4> QED BY <2>1, <3>2, <4>1
      <3> QED BY <3>1, <3>2
    <2> QED BY <2>1, <2>2
  <1>6. z \in Holding
    BY <1>4, FreshType, NoLeft
  <1>7. DataType
    <2>1. <<>> \in Seq(Answers) /\ 0 \in 0..N
      BY Counts
    <2> QED BY <1>4, <1>5, <1>6, <2>1 DEF DataType
  <1> QED BY <1>2, <1>3, <1>7 DEF DataInv

(* The bytes of a session, cut by the socket and encrypted, with data      *)
(* blocks between the messages, are a queue of whole frames: recv_block    *)
(* hands on what msg_send2 and send_block were given, in that order, and   *)
(* the end of a session loses only the last ones.                          *)
THEOREM FramesArrive == Spec => FramesInOrder
  <1>1. Init => DataInv /\ Stream!Init
    BY DataInit
  <1>2. DataInv /\ [Next]_vars => DataInv' /\ [Stream!Next]_(Stream!vars)
    <2>1. SUFFICES ASSUME DataInv, [Next]_vars PROVE DataInv' /\ StreamStep
      BY DEF StreamStep
    <2>2. CASE start_file_transfer
      BY <2>1, <2>2, start_file_transferStep
    <2>3. CASE OtherMessage
      BY <2>1, <2>3, OtherMessageStep
    <2>4. CASE send_block_plain
      BY <2>1, <2>4, send_block_plainStep
    <2>5. CASE send_block_z
      BY <2>1, <2>5, send_block_zStep
    <2>6. CASE HearAnswer
      BY <2>1, <2>6, HearAnswerStep
    <2>7. CASE Receive
      BY <2>1, <2>7, ReceiveStep
    <2>8. CASE Flush \/ Ends
      BY <2>1, <2>8, BytesStep
    <2>9. CASE Done \/ UNCHANGED vars
      <3>1. UNCHANGED vars
        BY <2>9 DEF Done
      <3> QED BY <2>1, <3>1, IdleStep
    <2> QED BY <2>1, <2>2, <2>3, <2>4, <2>5, <2>6, <2>7, <2>8, <2>9 DEF Next
  <1> QED BY <1>1, <1>2, PTL DEF Spec, FramesInOrder, Stream!Spec
=============================================================================
