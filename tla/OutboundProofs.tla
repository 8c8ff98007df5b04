--------------------------- MODULE OutboundProofs ---------------------------
(***************************************************************************)
(* The proof that no mail is lost on its way out (Kept of Outbound), and   *)
(* that a file the remote has answered is not sent again in the session    *)
(* (AnsweredOnce), for any files, any lines of a .?lo, any number of       *)
(* faults.                                                                 *)
(*                                                                         *)
(* A removal is several writes and the process may be killed between any   *)
(* two, so the first invariant is about what is still to be written: a     *)
(* pending write that hides or removes a file is of one that is no longer  *)
(* due. A request is due until a whole session has succeeded; what the     *)
(* session knows of it must therefore never ask for its removal before     *)
(* (Kind).                                                                 *)
(*                                                                         *)
(* The second is about all the ways by which a file can come up again: a   *)
(* file is in transfer, sent or answered and in one of these only (Apart), *)
(* no line of the .?lo and no entry of the queue that is still ahead names *)
(* it (NotAgain), and the next scan of the filebox does not find it, for   *)
(* it is gone or its removal is pending (Going).                           *)
(*                                                                         *)
(* The first part shows what sorting and filtering a queue give. Both are  *)
(* tables filled step by step (recursive functions); that such a table     *)
(* exists and what it holds is FoldExists and LastTyped, from the          *)
(* well-ordering of Nat.                                                   *)
(***************************************************************************)
EXTENDS Outbound, FiniteSetTheorems, WellFoundedInduction, TLAPS

LEMMA Least ==
    ASSUME NEW T \in SUBSET Nat, T # {}
    PROVE  \E n \in T : \A m \in T : n <= m
  <1>1. IsWellFoundedOn(OpToRel(<, Nat), Nat)
    BY NatLessThanWellFounded
  <1>2. PICK n \in T : \A m \in T : ~(<<m, n>> \in OpToRel(<, Nat))
    BY <1>1, WFMin
  <1>3. \A m \in T : ~(m < n)
    BY <1>2 DEF OpToRel
  <1>4. n \in Nat /\ \A m \in T : m \in Nat
    BY <1>2
  <1> QED BY <1>3, <1>4

(* g is the table that starts with b and is filled by the operations op. *)
Follows(g, n, b, op) == g[0] = b /\ \A i \in 1..n : g[i] = op[i][g[i - 1]]

LEMMA FoldExists ==
    ASSUME NEW n \in Nat, NEW T, NEW b \in T, NEW op \in [1..n -> [T -> T]]
    PROVE  \E g \in [0..n -> T] : Follows(g, n, b, op)
  <1> DEFINE Good == {k \in 0..n : \E g \in [0..k -> T] : Follows(g, k, b, op)}
  <1>1. 0 \in Good
    <2> DEFINE g == [i \in 0..0 |-> b]
    <2>1. g \in [0..0 -> T] /\ Follows(g, 0, b, op)
      BY DEF Follows
    <2> QED BY <2>1
  <1>2. ASSUME NEW k \in 1..n, k - 1 \in Good PROVE k \in Good
    <2>1. PICK g \in [0..(k - 1) -> T] : Follows(g, k - 1, b, op)
      BY <1>2
    <2> DEFINE h == [i \in 0..k |-> IF i < k THEN g[i] ELSE op[k][g[k - 1]]]
    <2>2. h \in [0..k -> T]
      BY <2>1
    <2>3. h[0] = b
      BY <2>1 DEF Follows
    <2>4. ASSUME NEW i \in 1..k PROVE h[i] = op[i][h[i - 1]]
      <3>1. CASE i = k
        BY <3>1, <2>1
      <3>2. CASE i < k
        <4>1. i \in 1..(k - 1) /\ i - 1 \in 0..k /\ i - 1 < k
          BY <3>2
        <4>2. g[i] = op[i][g[i - 1]]
          BY <4>1, <2>1 DEF Follows
        <4> QED BY <4>1, <4>2, <3>2
      <3> QED BY <3>1, <3>2
    <2>5. Follows(h, k, b, op)
      BY <2>3, <2>4 DEF Follows
    <2> QED BY <2>2, <2>5
  <1>3. SUFFICES ASSUME n \notin Good PROVE FALSE
    OBVIOUS
  <1> DEFINE Bad == (0..n) \ Good
  <1>4. PICK k \in Bad : \A m \in Bad : k <= m
    <2>1. Bad # {} /\ Bad \in SUBSET Nat
      BY <1>3
    <2> QED BY <2>1, Least
  <1>5. k \in 1..n
    <2>1. k \in 0..n /\ k # 0
      <3> HIDE DEF Good
      <3> QED BY <1>4, <1>1
    <2> QED BY <2>1
  <1>6. k - 1 \in Good
    BY <1>4, <1>5
  <1> QED BY <1>2, <1>4, <1>5, <1>6

(* What every step of a table keeps, its last entry has. *)
LEMMA LastTyped ==
    ASSUME NEW n \in Nat, NEW T, NEW f, f[0] \in T,
           \A m \in 1..n : f[m - 1] \in T => f[m] \in T
    PROVE  f[n] \in T
  <1> DEFINE Bad == {k \in 0..n : f[k] \notin T}
  <1>1. SUFFICES ASSUME Bad # {} PROVE FALSE
    OBVIOUS
  <1>2. PICK k \in Bad : \A m \in Bad : k <= m
    <2>1. Bad \in SUBSET Nat
      OBVIOUS
    <2> QED
      <3> HIDE DEF Bad
      <3> QED BY <2>1, <1>1, Least
  <1>3. k \in 1..n /\ k - 1 \in 0..n /\ k - 1 \notin Bad
    <2>1. k # 0 /\ k \in Nat /\ k <= n
      BY <1>2
    <2>2. k - 1 \in Nat /\ ~(k <= k - 1)
      BY <2>1
    <2> QED BY <2>1, <2>2, <1>2
  <1>4. f[k] \in T
    BY <1>3
  <1> QED BY <1>2, <1>4

(* Induction up to a bound.                                                *)
LEMMA UpTo ==
    ASSUME NEW n \in Nat, NEW T, 0 \in T, \A m \in 1..n : m - 1 \in T => m \in T
    PROVE  n \in T
  <1> DEFINE f == [i \in 0..n |-> i]
  <1>1. f[0] \in T /\ \A m \in 1..n : f[m - 1] \in T => f[m] \in T
    OBVIOUS
  <1>2. f[n] = n
    OBVIOUS
  <1> HIDE DEF f
  <1>3. f[n] \in T
    BY <1>1, LastTyped
  <1> QED BY <1>2, <1>3

(* The table of a filter. *)
LEMMA OnlyTable ==
    ASSUME NEW S, NEW s \in Seq(S), NEW K
    PROVE  \E g : /\ Only(s, K) = g[Len(s)] /\ g[0] = <<>>
                  /\ \A m \in 1..Len(s) :
                       g[m] = IF s[m] \in K THEN Append(g[m - 1], s[m]) ELSE g[m - 1]
  <1> DEFINE n == Len(s)
             T == Seq(S)
             Body(f) == [m \in 0..Len(s) |->
                IF m = 0 THEN <<>>
                ELSE IF s[m] \in K THEN Append(f[m - 1], s[m]) ELSE f[m - 1]]
             kept == CHOOSE f : f = Body(f)
             op == [i \in 1..n |-> [t \in T |-> IF s[i] \in K THEN Append(t, s[i]) ELSE t]]
  <1>1. op \in [1..n -> [T -> T]] /\ <<>> \in T /\ n \in Nat
    OBVIOUS
  <1>2. PICK g \in [0..n -> T] : Follows(g, n, <<>>, op)
    <2> HIDE DEF op, T, n
    <2> QED BY <1>1, FoldExists
  <1>3. g = Body(g)
    <2>1. ASSUME NEW m \in 0..n PROVE g[m] = Body(g)[m]
      <3>1. CASE m = 0
        BY <3>1, <1>2 DEF Follows
      <3>2. CASE m # 0
        <4>1. m \in 1..n /\ m - 1 \in 0..n
          BY <3>2
        <4>2. g[m] = op[m][g[m - 1]] /\ g[m - 1] \in T
          BY <4>1, <1>2 DEF Follows
        <4> QED BY <4>1, <4>2
      <3> QED BY <3>1, <3>2
    <2>2. Body(g) = [m \in 0..n |-> Body(g)[m]]
      OBVIOUS
    <2>3. g = [m \in 0..n |-> g[m]]
      BY <1>2
    <2> HIDE DEF Body
    <2> QED BY <2>1, <2>2, <2>3
  <1>4. kept = Body(kept)
    <2> HIDE DEF Body
    <2> QED BY <1>3
  <1>5. Only(s, K) = kept[n]
    BY DEF Only
  <1> HIDE DEF kept
  <1>6. kept[0] = <<>>
    BY <1>4, <1>1
  <1>7. ASSUME NEW m \in 1..n
        PROVE  kept[m] = IF s[m] \in K THEN Append(kept[m - 1], s[m]) ELSE kept[m - 1]
    <2>1. m \in 0..Len(s) /\ m # 0
      BY <1>1
    <2>2. kept[m] = Body(kept)[m]
      <3> HIDE DEF Body
      <3> QED BY <1>4
    <2> QED BY <2>1, <2>2
  <1> QED BY <1>5, <1>6, <1>7

LEMMA OnlyTyped ==
    ASSUME NEW S, NEW s \in Seq(S), NEW K
    PROVE  Only(s, K) \in Seq(S)
  <1>1. PICK g : /\ Only(s, K) = g[Len(s)] /\ g[0] = <<>>
                 /\ \A m \in 1..Len(s) :
                      g[m] = IF s[m] \in K THEN Append(g[m - 1], s[m]) ELSE g[m - 1]
    BY OnlyTable
  <1> DEFINE T == Seq(S)
  <1>2. ASSUME NEW m \in 1..Len(s), g[m - 1] \in T PROVE g[m] \in T
    <2>1. \A t \in T : Append(t, s[m]) \in T
      OBVIOUS
    <2>2. g[m] = g[m - 1] \/ g[m] = Append(g[m - 1], s[m])
      BY <1>1
    <2> HIDE DEF T
    <2> QED BY <1>2, <2>1, <2>2
  <1>3. g[0] \in T /\ Len(s) \in Nat
    BY <1>1
  <1> HIDE DEF T
  <1>4. g[Len(s)] \in T
    BY <1>2, <1>3, LastTyped
  <1> QED BY <1>1, <1>4 DEF T

LEMMA InsertedTyped ==
    ASSUME NEW S, NEW s \in Seq(S), NEW e \in S
    PROVE  Inserted(s, e) \in Seq(S)
  <1> DEFINE later == {i \in DOMAIN s : q_cmp(s[i], e) > 0}
             first == CHOOSE i \in later : \A j \in later : i <= j
  <1>1. CASE later = {}
    BY <1>1 DEF Inserted
  <1>2. CASE later # {}
    <2>1. later \in SUBSET Nat /\ later \subseteq 1..Len(s)
      OBVIOUS
    <2>2. \E i \in later : \A j \in later : i <= j
      <3> HIDE DEF later
      <3> QED BY <2>1, <1>2, Least
    <2>3. first \in 1..Len(s)
      <3> HIDE DEF later
      <3> QED BY <2>1, <2>2
    <2>4. InsertAt(s, first, e) \in Seq(S)
      <3> HIDE DEF first
      <3> QED BY <2>3 DEF InsertAt
    <2>5. Inserted(s, e) = InsertAt(s, first, e)
      BY <1>2 DEF Inserted
    <2> QED BY <2>4, <2>5
  <1> QED BY <1>1, <1>2

(* The table of the sort. *)
LEMMA SortTable ==
    ASSUME NEW S, NEW q \in Seq(S)
    PROVE  \E g : /\ q_sort(q) = g[Len(q)] /\ g[0] = <<>>
                  /\ \A m \in 1..Len(q) : g[m] = Inserted(g[m - 1], q[m])
  <1> DEFINE n == Len(q)
             T == Seq(S)
             Body(f) == [m \in 0..Len(q) |-> IF m = 0 THEN <<>> ELSE Inserted(f[m - 1], q[m])]
             sorted == CHOOSE f : f = Body(f)
             op == [i \in 1..n |-> [t \in T |-> Inserted(t, q[i])]]
  <1>0. ASSUME NEW i \in 1..n, NEW t \in T PROVE Inserted(t, q[i]) \in T
    <2>1. q[i] \in S
      OBVIOUS
    <2> QED BY <2>1, InsertedTyped
  <1>1. op \in [1..n -> [T -> T]] /\ <<>> \in T /\ n \in Nat
    BY <1>0
  <1>2. PICK g \in [0..n -> T] : Follows(g, n, <<>>, op)
    <2> HIDE DEF op, T, n
    <2> QED BY <1>1, FoldExists
  <1>3. g = Body(g)
    <2>1. ASSUME NEW m \in 0..n PROVE g[m] = Body(g)[m]
      <3>1. CASE m = 0
        BY <3>1, <1>2 DEF Follows
      <3>2. CASE m # 0
        <4>1. m \in 1..n /\ m - 1 \in 0..n
          BY <3>2
        <4>2. g[m] = op[m][g[m - 1]] /\ g[m - 1] \in T
          BY <4>1, <1>2 DEF Follows
        <4> QED BY <4>1, <4>2
      <3> QED BY <3>1, <3>2
    <2>2. Body(g) = [m \in 0..n |-> Body(g)[m]]
      OBVIOUS
    <2>3. g = [m \in 0..n |-> g[m]]
      BY <1>2
    <2> HIDE DEF Body
    <2> QED BY <2>1, <2>2, <2>3
  <1>4. sorted = Body(sorted)
    <2> HIDE DEF Body
    <2> QED BY <1>3
  <1>5. q_sort(q) = sorted[n]
    BY DEF q_sort
  <1> HIDE DEF sorted
  <1>6. sorted[0] = <<>>
    BY <1>4, <1>1
  <1>7. ASSUME NEW m \in 1..n PROVE sorted[m] = Inserted(sorted[m - 1], q[m])
    <2>1. m \in 0..Len(q) /\ m # 0
      BY <1>1
    <2>2. sorted[m] = Body(sorted)[m]
      <3> HIDE DEF Body
      <3> QED BY <1>4
    <2> QED BY <2>1, <2>2
  <1> QED BY <1>5, <1>6, <1>7

LEMMA SortTyped ==
    ASSUME NEW S, NEW q \in Seq(S)
    PROVE  q_sort(q) \in Seq(S)
  <1>1. PICK g : /\ q_sort(q) = g[Len(q)] /\ g[0] = <<>>
                 /\ \A m \in 1..Len(q) : g[m] = Inserted(g[m - 1], q[m])
    BY SortTable
  <1> DEFINE T == Seq(S)
  <1>2. ASSUME NEW m \in 1..Len(q), g[m - 1] \in T PROVE g[m] \in T
    <2>1. q[m] \in S
      OBVIOUS
    <2> QED BY <1>1, <1>2, <2>1, InsertedTyped
  <1>3. g[0] \in T /\ Len(q) \in Nat
    BY <1>1
  <1> HIDE DEF T
  <1>4. g[Len(q)] \in T
    BY <1>2, <1>3, LastTyped
  <1> QED BY <1>1, <1>4 DEF T

LEMMA AllTyped ==
    ASSUME NEW S, IsFiniteSet(S), NEW s \in SetToSeqs(S)
    PROVE  s \in Seq(S)
  BY FS_CardinalityType DEF SetToSeqs

LEMMA RemoveTyped ==
    ASSUME NEW S, NEW s \in Seq(S), NEW n \in 1..Len(s)
    PROVE  RemoveAt(s, n) \in Seq(S)
  BY DEF RemoveAt

-----------------------------------------------------------------------------
(*                              The invariant                              *)

(* What a file in the hands of the session may be: the action 's', which   *)
(* leaves the file to the end of the session, is of requests only, and     *)
(* these have no other that removes them; 'a' is of responses only.        *)
Actions == {"d", "t", "0", "s", "a"}
Kind(f, action) ==
    /\ f \in Requests => action \in {"s", "0"}
    /\ action = "s" => f \in Requests
    /\ action = "a" => f \in Responses

(* An entry of the queue: what is not a .?lo is a file. *)
Entries ==
    {e \in [path : Files \cup {FLO}, type : {"m", "r", "l", ""}, action : Actions,
            aka : {1, 2}, sent : BOOLEAN] :
        Kind(e.path, e.action) /\ (e.type # "l" => e.path \in Files)}

(* A file in transfer, or sent: a line of the .?lo is an attachment. *)
Transfers ==
    {t \in [path : Files, flo : BOOLEAN, action : Actions, type : {"m", "r", ""}] :
        Kind(t.path, t.action) /\ (t.flo => t.path \in Attached)}

Lines == [file : Attached, act : {"d", "t", "0"}, done : BOOLEAN]
Sizes == {"none", "small", "full"}
Writes == [op : {"mark", "unlink", "act"}, file : Files \cup {FLO}, action : Actions]

(* A pending write that hides or removes a file is of one that is not due, *)
(* and only a request is put off to the end of the session.                *)
Harmless(w, d) ==
    /\ w.op = "mark" => w.file \notin d
    /\ w.op = "act" => /\ w.file \in Files
                       /\ w.action \in {"d", "t"} => w.file \notin d
                       /\ w.action = "s" => w.file \in Requests
Pending(ws, d) == ws \in Seq(Writes) /\ \A i \in DOMAIN ws : Harmless(ws[i], d)

Fields == {"q", "pos", "out", "sent", "killlist", "nosendlist", "named", "rcvdlist",
           "rcvd", "r_skipped", "local_EOB", "remote_EOB", "busy", "v10", "delay_EOB"}

Held(s) ==
    /\ DOMAIN s = Fields
    /\ s.q \in Seq(Entries) /\ s.pos \in Nat
    /\ s.out \in Transfers \cup {NoFile}
    /\ s.sent \in Seq(Transfers)
    /\ s.killlist \subseteq (Responses \X {"any"}) \cup (Requests \X {"s"})

(* Mail that is due is there, whether or not the remote has it already. *)
Present(d, dk, lines) ==
    \A f \in d :
        /\ dk[f] = "full"
        /\ f \in Attached =>
              dk[FLO] # "none" /\ \E i \in DOMAIN lines : lines[i].file = f /\ ~lines[i].done

Typed ==
    /\ disk \in [Files \cup {FLO} -> Sizes]
    /\ flo \in Seq(Lines)
    /\ due \subseteq Files \ Responses

(* An attachment this session could not delete had been acknowledged. *)
KeptInv ==
    /\ Typed /\ Held(sess)
    /\ Present(due, disk, flo)
    /\ Pending(todo, due)
    /\ sess.nosendlist \cap due \cap Attached = {}
    /\ ph = "none" => todo = <<>> /\ sess.nosendlist = {}

-----------------------------------------------------------------------------
(*                               The queue                                 *)

LEMMA EntryTyped ==
    ASSUME NEW f \in Files \cup {FLO}, NEW type \in {"m", "r", "l", ""},
           NEW action \in Actions, NEW aka \in {1, 2},
           Kind(f, action), type # "l" => f \in Files
    PROVE  Entry(f, type, action, aka) \in Entries
  BY DEF Entry, Entries

(* T are the entries of the names S. *)
Named(T, S, type, action, aka) == T = {Entry(f, type, action, aka) : f \in S}

LEMMA NamedFinite ==
    ASSUME NEW S, S \subseteq Files \cup {FLO}, NEW type, NEW action, NEW aka,
           NEW T, Named(T, S, type, action, aka)
    PROVE  IsFiniteSet(T)
  <1> DEFINE g == [f \in S |-> Entry(f, type, action, aka)]
  <1>1. IsFiniteSet(S)
    <2>1. IsFiniteSet(Files \cup {FLO})
      BY KindsAssumption, FS_Singleton, FS_Union
    <2> QED BY <2>1, FS_Subset
  <1>2. g \in Surjection(S, T)
    BY DEF Surjection, Named
  <1> HIDE DEF g
  <1> QED BY <1>1, <1>2, FS_Surjection

LEMMA BoxesTyped ==
    ASSUME NEW d
    PROVE  q_scan_boxes(d) \subseteq Entries /\ IsFiniteSet(q_scan_boxes(d))
  <1>1. ASSUME NEW f \in Boxed PROVE Entry(f, "", "d", 2) \in Entries
    <2>1. f \in Files /\ Kind(f, "d")
      BY KindsAssumption DEF Files, Kind
    <2> QED BY <2>1, EntryTyped DEF Actions
  <1> DEFINE S == {p \in Boxed : d[p] # "none"}
  <1>2. S \subseteq Files \cup {FLO}
    BY DEF Files
  <1>3. Named(q_scan_boxes(d), S, "", "d", 2)
    BY DEF q_scan_boxes, Named
  <1>4. q_scan_boxes(d) \subseteq Entries
    BY <1>1 DEF q_scan_boxes
  <1> HIDE DEF S
  <1> QED BY <1>2, <1>3, <1>4, NamedFinite

LEMMA DirTyped ==
    ASSUME NEW d
    PROVE  q_add_dir(d) \subseteq Entries /\ IsFiniteSet(q_add_dir(d))
  <1> DEFINE M == {Entry(f, "m", "d", 1) : f \in {p \in Packets : d[p] # "none"}}
             R == {Entry(f, "r", "s", 1) : f \in {p \in Requests : d[p] # "none"}}
             N == {Entry(f, "l", "d", 1) : f \in {p \in {FLO} : d[p] # "none"}}
  <1>1. M \subseteq Entries /\ IsFiniteSet(M)
    <2>1. ASSUME NEW f \in Packets PROVE Entry(f, "m", "d", 1) \in Entries
      <3>1. f \in Files /\ Kind(f, "d")
        BY KindsAssumption DEF Files, Kind
      <3> QED BY <3>1, EntryTyped DEF Actions
    <2> DEFINE S == {p \in Packets : d[p] # "none"}
    <2>2. S \subseteq Files \cup {FLO}
      BY DEF Files
    <2>3. Named(M, S, "m", "d", 1)
      BY DEF Named
    <2>4. M \subseteq Entries
      BY <2>1
    <2> HIDE DEF S, M
    <2> QED BY <2>2, <2>3, <2>4, NamedFinite
  <1>2. R \subseteq Entries /\ IsFiniteSet(R)
    <2>1. ASSUME NEW f \in Requests PROVE Entry(f, "r", "s", 1) \in Entries
      <3>1. f \in Files /\ Kind(f, "s")
        BY KindsAssumption DEF Files, Kind
      <3> QED BY <3>1, EntryTyped DEF Actions
    <2> DEFINE S == {p \in Requests : d[p] # "none"}
    <2>2. S \subseteq Files \cup {FLO}
      BY DEF Files
    <2>3. Named(R, S, "r", "s", 1)
      BY DEF Named
    <2>4. R \subseteq Entries
      BY <2>1
    <2> HIDE DEF S, R
    <2> QED BY <2>2, <2>3, <2>4, NamedFinite
  <1>3. N \subseteq Entries /\ IsFiniteSet(N)
    <2>1. Entry(FLO, "l", "d", 1) \in Entries
      <3>1. Kind(FLO, "d")
        BY OutboundAssumption DEF Files, Kind
      <3> QED BY <3>1, EntryTyped DEF Actions
    <2> DEFINE S == {p \in {FLO} : d[p] # "none"}
    <2>2. S \subseteq Files \cup {FLO}
      OBVIOUS
    <2>3. Named(N, S, "l", "d", 1)
      BY DEF Named
    <2>4. N \subseteq Entries
      BY <2>1
    <2> HIDE DEF S, N
    <2> QED BY <2>2, <2>3, <2>4, NamedFinite
  <1>4. q_add_dir(d) = M \cup R \cup N
    BY DEF q_add_dir
  <1> HIDE DEF M, R, N
  <1> QED BY <1>1, <1>2, <1>3, <1>4, FS_Union

LEMMA ScansTyped ==
    ASSUME NEW set, set \subseteq Entries, IsFiniteSet(set),
           NEW old \in Seq(Entries), NEW q \in Scans(set, old)
    PROVE  q \in Seq(Entries)
  <1>1. PICK s \in SetToSeqs(set) : q = q_sort(s \o old)
    BY DEF Scans
  <1>2. s \in Seq(set)
    BY AllTyped
  <1>3. s \o old \in Seq(Entries)
    BY <1>2
  <1> QED BY <1>1, <1>3, SortTyped

LEMMA RefreshTyped ==
    ASSUME NEW old \in Seq(Entries), NEW q \in refresh_queue(old)
    PROVE  q \in Seq(Entries)
  BY OnlyTyped DEF refresh_queue

-----------------------------------------------------------------------------
(*                        Removal from the spool                           *)

LEMMA FewerDue ==
    ASSUME NEW ws, NEW d, Pending(ws, d), NEW d2, d2 \subseteq d
    PROVE  Pending(ws, d2)
  BY DEF Pending, Harmless

LEMMA NothingPending == \A d : Pending(<<>>, d)
  BY DEF Pending

LEMMA TailPending ==
    ASSUME NEW ws, NEW d, Pending(ws, d), ws # <<>>
    PROVE  /\ Head(ws) \in Writes /\ Harmless(Head(ws), d)
           /\ Pending(Tail(ws), d)
  <1>1. ws \in Seq(Writes) /\ Len(ws) > 0 /\ Head(ws) = ws[1]
    BY DEF Pending
  <1>2. Head(ws) \in Writes /\ Harmless(Head(ws), d)
    BY <1>1 DEF Pending
  <1>3. Tail(ws) \in Seq(Writes) /\ Len(Tail(ws)) = Len(ws) - 1
    BY <1>1
  <1>4. ASSUME NEW i \in 1..Len(Tail(ws)) PROVE Harmless(Tail(ws)[i], d)
    <2>1. i + 1 \in 1..Len(ws) /\ Tail(ws)[i] = ws[i + 1]
      BY <1>1, <1>3
    <2> QED BY <2>1, <1>1 DEF Pending
  <1>5. Pending(Tail(ws), d)
    BY <1>3, <1>4 DEF Pending
  <1> QED BY <1>2, <1>5

LEMMA WriteHarmless ==
    ASSUME NEW t \in Transfers, NEW d,
           t.flo \/ t.action \in {"d", "t"} => t.path \notin d
    PROVE  /\ Mark(t.path) \in Writes /\ Act(t.path, t.action) \in Writes
           /\ t.flo => Harmless(Mark(t.path), d)
           /\ Harmless(Act(t.path, t.action), d)
  BY DEF Transfers, Kind, Writes, Actions, Mark, Act, Harmless

LEMMA UnlinkHarmless == Unlink \in Writes /\ \A d : Harmless(Unlink, d)
  BY DEF Unlink, Writes, Harmless, Actions

LEMMA OneWrite ==
    ASSUME NEW w \in Writes, NEW d, Harmless(w, d)
    PROVE  Pending(<<w>>, d)
  BY DEF Pending

LEMMA MoreWrites ==
    ASSUME NEW ws, NEW ws2, NEW d, Pending(ws, d), Pending(ws2, d)
    PROVE  Pending(ws \o ws2, d)
  <1>1. ws \o ws2 \in Seq(Writes)
    BY DEF Pending
  <1>2. ASSUME NEW i \in 1..Len(ws \o ws2) PROVE Harmless((ws \o ws2)[i], d)
    <2>1. ws \in Seq(Writes) /\ ws2 \in Seq(Writes) /\ Len(ws \o ws2) = Len(ws) + Len(ws2)
      BY DEF Pending
    <2>2. CASE i <= Len(ws)
      <3>1. i \in 1..Len(ws) /\ (ws \o ws2)[i] = ws[i]
        BY <2>1, <2>2
      <3> QED BY <3>1, <2>1 DEF Pending
    <2>3. CASE i > Len(ws)
      <3>1. i - Len(ws) \in 1..Len(ws2) /\ (ws \o ws2)[i] = ws2[i - Len(ws)]
        BY <2>1, <2>3
      <3> QED BY <3>1, <2>1 DEF Pending
    <2> QED BY <2>1, <2>2, <2>3
  <1> QED BY <1>1, <1>2 DEF Pending

LEMMA RemovalHarmless ==
    ASSUME NEW t \in Transfers, NEW d,
           t.flo \/ t.action \in {"d", "t"} => t.path \notin d
    PROVE  Pending(remove_from_spool(t), d)
  <1> DEFINE mark == Mark(t.path)  act == Act(t.path, t.action)
             last == IF sess.pos = 0 THEN <<Unlink>> ELSE <<>>
  <1>1. Pending(<<act>>, d) /\ (t.flo => Pending(<<mark>>, d))
    BY WriteHarmless, OneWrite
  <1>2. Pending(last, d)
    BY UnlinkHarmless, OneWrite, NothingPending
  <1>3. CASE ~t.flo
    BY <1>1, <1>3 DEF remove_from_spool
  <1>4. CASE t.flo
    <2>1. t.flo \in BOOLEAN
      BY DEF Transfers
    <2> HIDE DEF mark, act, last
    <2>2. Pending(<<mark>> \o last \o <<act>>, d)
      BY <1>1, <1>2, <1>4, MoreWrites
    <2>3. remove_from_spool(t) \in {<<>>, <<mark>> \o last \o <<act>>}
      BY <1>4 DEF remove_from_spool, mark, act, last
    <2> QED BY <2>2, <2>3, NothingPending
  <1> QED BY <1>3, <1>4

-----------------------------------------------------------------------------
(*                              The writes                                 *)

LEMMA DueThere ==
    ASSUME Typed, Present(due, disk, flo), NEW f \in due
    PROVE  disk[f] = "full" /\ There(f) /\ f \in Files /\ f # FLO /\ f \notin Responses
  BY OutboundAssumption DEF Typed, Present, There

LEMMA MarkKept ==
    ASSUME KeptInv, NEW f, f \notin due,
           flo' = [i \in DOMAIN flo |-> IF i \in Unmarked(f)
                                        THEN [flo[i] EXCEPT !.done = TRUE] ELSE flo[i]],
           UNCHANGED <<disk, due>>
    PROVE  Typed' /\ Present(due, disk, flo)'
  <1>1. flo \in Seq(Lines) /\ DOMAIN flo = 1..Len(flo)
    BY DEF KeptInv, Typed
  <1>2. ASSUME NEW i \in DOMAIN flo
        PROVE  /\ flo'[i] \in Lines /\ flo'[i].file = flo[i].file
               /\ flo[i].file # f => flo'[i] = flo[i]
    <2>1. flo[i] \in Lines
      BY <1>1
    <2>2. CASE i \in Unmarked(f)
      <3>1. flo'[i] = [flo[i] EXCEPT !.done = TRUE] /\ flo[i].file = f
        BY <2>2 DEF Unmarked
      <3> QED BY <2>1, <3>1 DEF Lines
    <2>3. CASE i \notin Unmarked(f)
      BY <2>1, <2>3
    <2> QED BY <2>2, <2>3
  <1>3. flo' \in Seq(Lines) /\ DOMAIN flo' = DOMAIN flo
    BY <1>1, <1>2
  <1>4. Typed'
    BY <1>3 DEF KeptInv, Typed
  <1>5. ASSUME NEW g \in due, g \in Attached
        PROVE  \E i \in DOMAIN flo' : flo'[i].file = g /\ ~flo'[i].done
    <2>1. PICK i \in DOMAIN flo : flo[i].file = g /\ ~flo[i].done
      BY <1>5 DEF KeptInv, Present
    <2> QED BY <2>1, <1>2, <1>3
  <1>6. Present(due, disk, flo')
    BY <1>5 DEF KeptInv, Present
  <1> QED BY <1>4, <1>6

LEMMA UnlinkKept ==
    ASSUME KeptInv, \A i \in DOMAIN flo : flo[i].done,
           disk' = [disk EXCEPT ![FLO] = "none"], flo' = <<>>, due' = due
    PROVE  Typed' /\ Present(due, disk, flo)'
  <1>1. due \cap Attached = {}
    BY DEF KeptInv, Present
  <1>2. Typed'
    BY DEF KeptInv, Typed, Sizes
  <1>3. \A f \in due : disk'[f] = disk[f] /\ disk[f] = "full"
    BY DueThere DEF KeptInv, Typed
  <1> QED BY <1>1, <1>2, <1>3 DEF Present

LEMMA ActKept ==
    ASSUME KeptInv, NEW f \in Files, NEW action,
           action \in {"d", "t"} => f \notin due,
           disk' = perform_action(f, action, disk), UNCHANGED <<flo, due>>
    PROVE  Typed' /\ Present(due, disk, flo)'
  <1>1. disk' \in [Files \cup {FLO} -> Sizes]
    BY DEF perform_action, KeptInv, Typed, Sizes
  <1>2. f # FLO
    BY OutboundAssumption
  <1>3. disk'[FLO] = disk[FLO] /\ \A g \in due : disk'[g] = disk[g]
    <2>1. CASE action \in {"d", "t"}
      BY <1>2, <2>1, DueThere DEF perform_action, KeptInv, Typed
    <2>2. CASE action \notin {"d", "t"}
      BY <2>2 DEF perform_action
    <2> QED BY <2>1, <2>2
  <1>4. Typed'
    BY <1>1 DEF KeptInv, Typed
  <1> QED BY <1>3, <1>4 DEF KeptInv, Present

LEMMA WriteNextKept == ASSUME KeptInv, WriteNext PROVE KeptInv'
  <1> DEFINE s == Head(todo)
  <1>1. /\ todo # <<>> /\ todo' = Tail(todo)
        /\ UNCHANGED <<ph, due>>
    BY DEF WriteNext, world
  <1>2. s \in Writes /\ Harmless(s, due) /\ Pending(Tail(todo), due)
    BY <1>1, TailPending DEF KeptInv
  <1>3. Pending(todo, due)'
    BY <1>1, <1>2
  <1>4. ph # "none"
    BY <1>1 DEF KeptInv
  <1>5. CASE s.op = "mark"
    <2>1. /\ flo' = [i \in DOMAIN flo |-> IF i \in Unmarked(s.file)
                        THEN [flo[i] EXCEPT !.done = TRUE] ELSE flo[i]]
          /\ UNCHANGED <<disk, sess>>
      BY <1>5 DEF WriteNext
    <2>2. s.file \notin due
      BY <1>2, <1>5 DEF Harmless
    <2>3. Typed' /\ Present(due, disk, flo)'
      BY <2>1, <2>2, <1>1, MarkKept
    <2> QED BY <2>1, <2>3, <1>1, <1>3, <1>4 DEF KeptInv
  <1>6. CASE s.op = "unlink"
    <2>1. IF \A i \in DOMAIN flo : flo[i].done
          THEN disk' = [disk EXCEPT ![FLO] = "none"] /\ flo' = <<>>
          ELSE UNCHANGED <<disk, flo>>
      BY <1>6 DEF WriteNext
    <2>2. UNCHANGED sess
      BY <1>6 DEF WriteNext
    <2>3. Typed' /\ Present(due, disk, flo)'
      <3>1. CASE \A i \in DOMAIN flo : flo[i].done
        BY <3>1, <2>1, <1>1, UnlinkKept
      <3>2. CASE ~(\A i \in DOMAIN flo : flo[i].done)
        BY <3>2, <2>1, <1>1 DEF KeptInv, Typed
      <3> QED BY <3>1, <3>2
    <2> QED BY <2>2, <2>3, <1>1, <1>3, <1>4 DEF KeptInv
  <1>7. CASE s.op = "act"
    <2>1. /\ s.file \in Files /\ s.action \in Actions
          /\ s.action \in {"d", "t"} => s.file \notin due
          /\ s.action = "s" => s.file \in Requests
      BY <1>2, <1>7 DEF Harmless, Writes
    <2>2. flo' = flo
      BY <1>7 DEF WriteNext
    <2>3. \/ /\ disk' = perform_action(s.file, s.action, disk)
             /\ sess' = IF s.action = "s"
                        THEN [sess EXCEPT !.killlist = @ \cup {<<s.file, "s">>}]
                        ELSE sess
          \/ /\ s.action = "d" /\ sess' = Remember(sess, s.file)
             /\ disk' = disk
      BY <1>7 DEF WriteNext
    <2>4. CASE /\ disk' = perform_action(s.file, s.action, disk)
               /\ sess' = IF s.action = "s"
                          THEN [sess EXCEPT !.killlist = @ \cup {<<s.file, "s">>}]
                          ELSE sess
      <3>1. Typed' /\ Present(due, disk, flo)'
        BY <2>1, <2>2, <2>4, <1>1, ActKept
      <3>2. Held(sess') /\ sess'.nosendlist = sess.nosendlist
        <4>1. CASE s.action = "s"
          <5>1. sess' = [sess EXCEPT !.killlist = @ \cup {<<s.file, "s">>}]
            BY <4>1, <2>4
          <5>2. <<s.file, "s">> \in Requests \X {"s"}
            BY <4>1, <2>1
          <5> QED BY <5>1, <5>2 DEF KeptInv, Held, Fields
        <4>2. CASE s.action # "s"
          BY <4>2, <2>4 DEF KeptInv
        <4> QED BY <4>1, <4>2
      <3> QED BY <3>1, <3>2, <1>1, <1>3, <1>4 DEF KeptInv
    <2>5. CASE s.action = "d" /\ sess' = Remember(sess, s.file) /\ disk' = disk
      <3>1. Held(sess') /\ sess'.nosendlist = sess.nosendlist \cup {s.file}
        BY <2>5 DEF KeptInv, Held, Fields, Remember
      <3>2. s.file \notin due
        BY <2>1, <2>5
      <3>3. Typed' /\ Present(due, disk, flo)'
        BY <2>2, <2>5, <1>1 DEF KeptInv, Typed
      <3> QED BY <3>1, <3>2, <3>3, <1>1, <1>3, <1>4 DEF KeptInv
    <2> QED BY <2>3, <2>4, <2>5
  <1> QED BY <1>2, <1>5, <1>6, <1>7 DEF Writes

-----------------------------------------------------------------------------
(*                              The session                                *)

(* What the handlers leave alone. *)
LEMMA SessionKept ==
    ASSUME KeptInv, UNCHANGED <<disk, flo>>, due' \subseteq due,
           Held(sess'), sess'.nosendlist = sess.nosendlist,
           Pending(todo', due'),
           ph' = "none" => ph = "none" /\ todo' = todo
    PROVE  KeptInv'
  <1>1. Typed' /\ Present(due, disk, flo)'
    BY DEF KeptInv, Typed, Present
  <1> QED BY <1>1 DEF KeptInv

LEMMA NewHeld == Held(NewSession) /\ NewSession.nosendlist = {}
  <1>1. NewSession.out = NoFile /\ DOMAIN NewSession = Fields
    BY DEF NewSession, Fields
  <1>2. NewSession.q = <<>> /\ NewSession.pos = 0 /\ NewSession.sent = <<>> /\ NewSession.killlist = {}
    BY DEF NewSession
  <1> QED BY <1>1, <1>2 DEF Held, NewSession

LEMMA LoginKept == ASSUME KeptInv, complete_login PROVE KeptInv'
  <1>1. PICK q \in Scans(q_scan_addrs(disk), <<>>), v10 \in BOOLEAN :
          \E perl \in perl_after_handshake(q) :
            sess' = [NewSession EXCEPT !.q = perl.q, !.v10 = v10, !.delay_EOB = v10]
    BY DEF complete_login
  <1>2. PICK perl \in perl_after_handshake(q) :
            sess' = [NewSession EXCEPT !.q = perl.q, !.v10 = v10, !.delay_EOB = v10]
    BY <1>1
  <1>3. q \in Seq(Entries)
    <2>1. q_scan_addrs(disk) \subseteq Entries /\ IsFiniteSet(q_scan_addrs(disk))
      BY DirTyped, BoxesTyped, FS_Union DEF q_scan_addrs
    <2>2. <<>> \in Seq(Entries)
      OBVIOUS
    <2> QED BY <2>1, <2>2, ScansTyped
  <1>4. perl.q \in Seq(Entries)
    <2>1. perl.q = q \/ perl.q \in refresh_queue(q)
      BY <1>2 DEF perl_after_handshake
    <2> QED BY <2>1, <1>3, RefreshTyped
  <1>5. Held(sess') /\ sess'.nosendlist = {}
    BY <1>2, <1>4, NewHeld DEF Held, Fields
  <1>6. /\ UNCHANGED <<disk, flo, todo, due>> /\ ph = "none" /\ todo = <<>>
    BY DEF complete_login, world, KeptInv
  <1>7. Typed' /\ Present(due, disk, flo)' /\ Pending(todo, due)'
    BY <1>6 DEF KeptInv, Typed
  <1> QED BY <1>5, <1>6, <1>7 DEF KeptInv

(* A file is opened, or removed without being sent. *)
LEMMA StartKept ==
    ASSUME KeptInv, NEW t \in Transfers, NEW s,
           Held(s), s.nosendlist = sess.nosendlist, Start(t.path, t, s),
           ph = "up", UNCHANGED <<disk, flo, ph>>
    PROVE  KeptInv'
  <1>1. s.q \in Seq(Entries)
    BY DEF Held
  <1>2. CASE /\ t.type = "m" /\ disk[t.path] = "small"
             /\ todo' = remove_from_spool(t) /\ sess' = s /\ UNCHANGED <<due, faults>>
    <2>1. t.path \notin due
      BY <1>2 DEF KeptInv, Present
    <2>2. Pending(todo', due')
      BY <1>2, <2>1, RemovalHarmless
    <2> QED BY <1>2, <2>2, SessionKept
  <1>3. ASSUME NEW q \in perl_before_send(s.q), todo' = remove_from_spool(t),
               sess' = [s EXCEPT !.q = q],
               due' = IF t.action = "s" THEN due ELSE due \ {t.path}
        PROVE  KeptInv'
    <2>1. q \in Seq(Entries)
      <3>1. q \in refresh_queue(s.q)
        BY <1>3 DEF perl_before_send
      <3> QED BY <3>1, <1>1, RefreshTyped
    <2>2. Held(sess') /\ sess'.nosendlist = sess.nosendlist
      BY <1>3, <2>1 DEF Held, Fields
    <2>3. t.flo \/ t.action \in {"d", "t"} => t.path \notin due'
      <3>1. t.flo \/ t.action \in {"d", "t"} => t.action # "s"
        BY KindsAssumption DEF Transfers, Kind
      <3> QED BY <3>1, <1>3
    <2>4. Pending(todo', due')
      BY <1>3, <2>3, RemovalHarmless
    <2>5. due' \subseteq due
      BY <1>3
    <2> QED BY <2>2, <2>4, <2>5, SessionKept
  <1>4. CASE /\ sess' = [s EXCEPT !.out = t, !.busy = TRUE]
             /\ UNCHANGED <<todo, due, faults>>
    <2>1. Held(sess') /\ sess'.nosendlist = sess.nosendlist
      BY <1>4 DEF Held, Fields
    <2>2. Pending(todo', due')
      BY <1>4 DEF KeptInv
    <2> QED BY <2>1, <2>2, <1>4, SessionKept
  <1> QED BY <1>2, <1>3, <1>4 DEF Start

LEMMA NextFileKept == ASSUME KeptInv, NextFile PROVE KeptInv'
  <1> DEFINE i == select_next_file(sess.q)
             e == sess.q[i]
             s == [sess EXCEPT !.q[i].sent = TRUE]
             t == [path |-> e.path, flo |-> FALSE, action |-> e.action, type |-> e.type]
  <1>1. ph = "up" /\ UNCHANGED <<disk, flo, ph>> /\ Unsent(sess.q) # {}
    BY DEF NextFile, Idle
  <1>2. sess.q \in Seq(Entries) /\ DOMAIN sess = Fields
    BY DEF KeptInv, Held
  <1>3. i \in DOMAIN sess.q
    <2>1. Unsent(sess.q) \in SUBSET Nat /\ Unsent(sess.q) \subseteq DOMAIN sess.q
      BY <1>2 DEF Unsent
    <2>2. \E j \in Unsent(sess.q) : \A k \in Unsent(sess.q) : j <= k
      BY <2>1, <1>1, Least
    <2> QED BY <2>1, <2>2 DEF select_next_file
  <1>4. e \in Entries
    BY <1>2, <1>3
  <1>5. s = [sess EXCEPT !.q = [sess.q EXCEPT ![i] = [e EXCEPT !.sent = TRUE]]]
    BY <1>2, <1>3 DEF Fields
  <1>6. Held(s) /\ s.nosendlist = sess.nosendlist
    <2>1. [e EXCEPT !.sent = TRUE] \in Entries
      BY <1>4 DEF Entries
    <2> DEFINE q2 == [sess.q EXCEPT ![i] = [e EXCEPT !.sent = TRUE]]
    <2>2. q2 \in Seq(Entries)
      <3> HIDE DEF e
      <3> QED BY <1>2, <1>3, <2>1
    <2>3. s = [sess EXCEPT !.q = q2]
      BY <1>5
    <2> HIDE DEF s, q2
    <2> QED BY <2>2, <2>3 DEF KeptInv, Held, Fields
  <1>7. \/ sess' = s /\ UNCHANGED <<todo, due, faults>>
        \/ \E n \in compared_by : /\ sess' = [s EXCEPT !.pos = 1, !.named = n]
                                  /\ UNCHANGED <<todo, due, faults>>
        \/ e.type # "l" /\ Start(e.path, t, s)
    BY DEF NextFile
  <1> HIDE DEF s
  <1>8. CASE sess' = s /\ UNCHANGED <<todo, due, faults>>
    <2>1. Pending(todo', due')
      BY <1>8 DEF KeptInv
    <2> QED BY <1>1, <1>6, <1>8, <2>1, SessionKept
  <1>9. ASSUME NEW n \in compared_by, sess' = [s EXCEPT !.pos = 1, !.named = n],
               UNCHANGED <<todo, due, faults>>
        PROVE  KeptInv'
    <2>1. Pending(todo', due')
      BY <1>9 DEF KeptInv
    <2>2. Held(sess') /\ sess'.nosendlist = sess.nosendlist
      BY <1>6, <1>9 DEF Held, Fields
    <2> QED BY <1>1, <1>9, <2>1, <2>2, SessionKept
  <1>10. CASE e.type # "l" /\ Start(e.path, t, s)
    <2>1. t \in Transfers /\ t.path = e.path
      <3> HIDE DEF e
      <3> QED BY <1>4, <1>10 DEF Entries, Transfers, Kind
    <2> HIDE DEF t, e
    <2> QED BY <1>1, <1>6, <1>10, <2>1, StartKept
  <1> QED BY <1>7, <1>8, <1>9, <1>10

LEMMA NextLineKept == ASSUME KeptInv, NextLine PROVE KeptInv'
  <1> DEFINE i == read_flo_line(sess.pos)
             f == flo[i].file
             t == [path |-> f, flo |-> TRUE, action |-> flo[i].act, type |-> ""]
             s == IF NotToSend(f) \/ ~There(f) THEN [sess EXCEPT !.pos = i + 1]
                  ELSE Later([sess EXCEPT !.pos = i + 1])
  <1>1. ph = "up" /\ UNCHANGED <<disk, flo, ph>>
    BY DEF NextLine, Idle
  <1>2. CASE i = 0
    <2>1. /\ sess' = [sess EXCEPT !.pos = 0, !.named = "line"]
          /\ todo' = <<Unlink>> /\ UNCHANGED due
      BY <1>2 DEF NextLine
    <2>2. Held(sess') /\ sess'.nosendlist = sess.nosendlist
      BY <2>1 DEF KeptInv, Held, Fields
    <2>3. Pending(todo', due')
      BY <2>1, UnlinkHarmless, OneWrite
    <2> QED BY <1>1, <2>1, <2>2, <2>3, SessionKept
  <1>3. CASE i # 0
    <2>1. IF NotToSend(f) \/ ~There(f)
          THEN sess' = s /\ todo' = <<Mark(f)>> /\ UNCHANGED <<due, faults>>
          ELSE Start(f, t, s)
      BY <1>3 DEF NextLine
    <2>2. i \in DOMAIN flo
      <3> DEFINE rest == {j \in sess.pos..Len(flo) : ~flo[j].done}
      <3>1. sess.pos > 0
        BY DEF NextLine
      <3>2. rest # {} /\ i = CHOOSE j \in rest : \A k \in rest : j <= k
        BY <1>3 DEF read_flo_line
      <3>3. rest \in SUBSET Nat /\ rest \subseteq DOMAIN flo
        <4>1. sess.pos \in Nat /\ flo \in Seq(Lines)
          BY DEF KeptInv, Typed, Held
        <4> QED BY <3>1, <4>1
      <3>4. \E j \in rest : \A k \in rest : j <= k
        <4> HIDE DEF rest
        <4> QED BY <3>2, <3>3, Least
      <3>5. (CHOOSE j \in rest : \A k \in rest : j <= k) \in rest
        <4> HIDE DEF rest
        <4> QED BY <3>4
      <3> HIDE DEF rest, i
      <3> QED BY <3>2, <3>3, <3>5
    <2>3. flo[i] \in Lines
      BY <2>2 DEF KeptInv, Typed
    <2>4. f \in Attached /\ flo[i].act \in {"d", "t", "0"}
      BY <2>3 DEF Lines
    <2>5. t \in Transfers /\ t.path = f
      <3>1. Kind(f, flo[i].act)
        BY <2>4, KindsAssumption, OutboundAssumption DEF Kind
      <3>2. f \in Files /\ flo[i].act \in Actions
        BY <2>4, OutboundAssumption DEF Files, Actions
      <3> HIDE DEF f
      <3> QED BY <2>4, <3>1, <3>2 DEF Transfers
    <2> HIDE DEF i
    <2>6. Held(s) /\ s.nosendlist = sess.nosendlist
      <3>1. i + 1 \in Nat
        BY <2>2 DEF KeptInv, Typed
      <3>2. CASE NotToSend(f) \/ ~There(f)
        BY <3>1, <3>2 DEF KeptInv, Held, Fields
      <3>3. CASE ~(NotToSend(f) \/ ~There(f))
        BY <3>1, <3>3 DEF KeptInv, Held, Fields, Later
      <3> QED BY <3>2, <3>3
    <2>7. CASE NotToSend(f) \/ ~There(f)
      <3>1. sess' = s /\ todo' = <<Mark(f)>> /\ UNCHANGED <<due, faults>>
        BY <2>1, <2>7
      <3>2. f \notin due
        BY <2>4, <2>7, DueThere DEF KeptInv, NotToSend
      <3>3. Mark(f) \in Writes /\ Harmless(Mark(f), due')
        BY <3>1, <3>2, <2>4 DEF Mark, Writes, Harmless, Actions, Files
      <3>4. Pending(todo', due')
        BY <3>1, <3>3, OneWrite
      <3> HIDE DEF s
      <3> QED BY <1>1, <2>6, <3>1, <3>4, SessionKept
    <2>8. CASE ~(NotToSend(f) \/ ~There(f))
      <3>1. Start(t.path, t, s)
        BY <2>1, <2>5, <2>8
      <3> HIDE DEF s, t
      <3> QED BY <1>1, <2>5, <2>6, <3>1, StartKept
    <2> QED BY <2>7, <2>8
  <1> QED BY <1>2, <1>3

LEMMA SendFileKept == ASSUME KeptInv, SendFile PROVE KeptInv'
  <1>1. /\ sess.out # NoFile
        /\ sess' = [sess EXCEPT !.sent = Append(@, sess.out), !.out = NoFile]
        /\ UNCHANGED <<disk, flo, ph, todo, due>>
    BY DEF SendFile, world
  <1>2. Append(sess.sent, sess.out) \in Seq(Transfers)
    BY <1>1 DEF KeptInv, Held
  <1>3. Held(sess') /\ sess'.nosendlist = sess.nosendlist
    BY <1>1, <1>2 DEF KeptInv, Held, Fields
  <1> QED BY <1>1, <1>3, SessionKept DEF KeptInv

(* M_GOT: from here on the file is not due, and may be removed. *)
LEMMA GOTKept == ASSUME KeptInv, NEW f \in Files, GOT(f) PROVE KeptInv'
  <1>1. /\ ph = "up" /\ UNCHANGED <<disk, flo, ph>>
        /\ due' = IF f \in Requests THEN due ELSE due \ {f}
    BY DEF GOT, Idle
  <1>2. ASSUME NEW t \in Transfers, t.path = f PROVE Pending(remove_from_spool(t), due')
    <2>1. t.flo \/ t.action \in {"d", "t"} => f \notin Requests
      BY <1>2, KindsAssumption DEF Transfers, Kind
    <2>2. t.flo \/ t.action \in {"d", "t"} => t.path \notin due'
      BY <1>1, <1>2, <2>1
    <2> QED BY <2>2, RemovalHarmless
  <1>3. CASE /\ sess.out # NoFile /\ sess.out.path = f
             /\ todo' = remove_from_spool(sess.out)
             /\ sess' = [sess EXCEPT !.out = NoFile, !.busy = TRUE]
    <2>1. sess.out \in Transfers
      BY <1>3 DEF KeptInv, Held
    <2>2. Held(sess') /\ sess'.nosendlist = sess.nosendlist
      BY <1>3 DEF KeptInv, Held, Fields
    <2>3. Pending(todo', due')
      BY <1>2, <1>3, <2>1
    <2> QED BY <1>1, <2>2, <2>3, SessionKept
  <1>4. CASE /\ Offered(f)
             /\ LET n == CHOOSE i \in DOMAIN sess.sent : sess.sent[i].path = f IN
                 /\ \E t \in perl_after_sent(sess.sent[n]) : todo' = remove_from_spool(t)
                 /\ sess' = [sess EXCEPT !.sent = remove_from_sent_files_queue(@, n), !.busy = TRUE]
    <2> DEFINE n == CHOOSE i \in DOMAIN sess.sent : sess.sent[i].path = f
    <2>1. n \in DOMAIN sess.sent /\ sess.sent[n].path = f
      BY <1>4 DEF Offered
    <2>2. PICK t \in perl_after_sent(sess.sent[n]) : todo' = remove_from_spool(t)
      BY <1>4
    <2>3. sess' = [sess EXCEPT !.sent = remove_from_sent_files_queue(@, n), !.busy = TRUE]
      BY <1>4
    <2> HIDE DEF n
    <2>4. sess.sent \in Seq(Transfers)
      BY DEF KeptInv, Held
    <2>5. sess.sent[n] \in Transfers /\ n \in 1..Len(sess.sent)
      BY <2>1, <2>4
    <2>6. t \in Transfers /\ t.path = f
      <3>1. t = sess.sent[n] \/ t = [sess.sent[n] EXCEPT !.action = "0"]
        BY <2>2 DEF perl_after_sent
      <3>2. [sess.sent[n] EXCEPT !.action = "0"] \in Transfers
        BY <2>5 DEF Transfers, Kind, Actions
      <3>3. [sess.sent[n] EXCEPT !.action = "0"].path = f
        BY <2>1, <2>5 DEF Transfers
      <3> QED BY <2>1, <2>5, <3>1, <3>2, <3>3
    <2>7. Pending(todo', due')
      BY <1>2, <2>2, <2>6
    <2>8. remove_from_sent_files_queue(sess.sent, n) \in Seq(Transfers)
      BY <2>4, <2>5, RemoveTyped DEF remove_from_sent_files_queue
    <2>9. Held(sess') /\ sess'.nosendlist = sess.nosendlist
      BY <2>3, <2>8 DEF KeptInv, Held, Fields
    <2>10. due' \subseteq due
      BY <1>1
    <2> QED BY <1>1, <2>7, <2>9, <2>10, SessionKept
  <1> QED BY <1>3, <1>4 DEF GOT

LEMMA SKIPKept == ASSUME KeptInv, NEW f, SKIP(f) PROVE KeptInv'
  <1> DEFINE sent == Only(sess.sent, {t \in Range(sess.sent) : t.path # f})
             out == IF sess.out.path = f THEN NoFile ELSE sess.out
  <1>1. /\ sess' = [sess EXCEPT !.sent = sent, !.busy = TRUE, !.out = out, !.r_skipped = TRUE]
        /\ UNCHANGED <<disk, flo, ph, todo, due>>
    BY DEF SKIP, world
  <1>2. sent \in Seq(Transfers)
    BY OnlyTyped DEF KeptInv, Held
  <1>3. out \in Transfers \cup {NoFile}
    BY DEF KeptInv, Held
  <1> HIDE DEF sent, out
  <1>4. Held(sess') /\ sess'.nosendlist = sess.nosendlist
    BY <1>1, <1>2, <1>3 DEF KeptInv, Held, Fields
  <1> QED BY <1>1, <1>4, SessionKept DEF KeptInv

(* An answer of the request processor is a file that is never due. *)
LEMMA SRIFKept ==
    ASSUME KeptInv, NEW s, Held(s), s.nosendlist = sess.nosendlist, RunSRIF(s),
           ph = "up", UNCHANGED <<flo, ph, todo, due>>
    PROVE  KeptInv'
  <1>1. CASE sess' = s /\ UNCHANGED disk
    BY <1>1, SessionKept DEF KeptInv
  <1>2. ASSUME NEW written \in BOOLEAN, NEW answer \in run_args(written), answer # <<>>,
               sess' = [s EXCEPT !.q = parse_response(@, answer[1], answer[2])],
               disk' = [disk EXCEPT ![answer[1]] = "full"]
        PROVE  KeptInv'
    <2>1. PICK r \in Responses, p \in Predictors : answer = <<r, p>>
      BY <1>2 DEF run_args
    <2> DEFINE act == CASE p = "=" -> "d" [] p = "+" -> "0" [] p = "-" -> "a"
    <2>2. act \in {"d", "0", "a"}
      BY OutboundAssumption
    <2>3. r \in Files /\ Kind(r, act)
      BY <2>2, KindsAssumption DEF Files, Kind
    <2>4. Entry(r, "", act, 1) \in Entries
      BY <2>2, <2>3, EntryTyped DEF Actions
    <2>5. parse_response(s.q, r, p) = Append(s.q, Entry(r, "", act, 1))
      BY DEF parse_response, q_add_last_file
    <2>6. parse_response(s.q, r, p) \in Seq(Entries)
      <3> DEFINE e == Entry(r, "", act, 1)
      <3>1. s.q \in Seq(Entries) /\ e \in Entries
        BY <2>4 DEF Held
      <3> HIDE DEF e
      <3>2. Append(s.q, e) \in Seq(Entries)
        BY <3>1
      <3> QED BY <2>5, <3>2 DEF e
    <2>7. sess' = [s EXCEPT !.q = parse_response(s.q, r, p)] /\ disk' = [disk EXCEPT ![r] = "full"]
      BY <1>2, <2>1
    <2>8. Held(sess') /\ sess'.nosendlist = sess.nosendlist
      BY <2>6, <2>7 DEF Held, Fields
    <2>9. r # FLO /\ r \notin due
      BY <2>3, OutboundAssumption DEF KeptInv, Typed
    <2>10. Typed'
      BY <2>3, <2>7 DEF KeptInv, Typed, Sizes
    <2>11. disk'[FLO] = disk[FLO] /\ \A f \in due : disk'[f] = disk[f]
      BY <2>7, <2>9 DEF KeptInv, Typed
    <2>12. Present(due, disk, flo)'
      BY <2>11 DEF KeptInv, Present
    <2>13. Pending(todo, due)'
      BY DEF KeptInv
    <2> QED BY <2>8, <2>10, <2>12, <2>13 DEF KeptInv
  <1> QED BY <1>1, <1>2 DEF RunSRIF, srif_fill

LEMMA RequestKept == ASSUME KeptInv, ReceiveRequest PROVE KeptInv'
  <1> DEFINE s == [sess EXCEPT !.rcvd = @ + 1, !.busy = TRUE, !.delay_EOB = FALSE]
  <1>1. ph = "up" /\ UNCHANGED <<flo, ph, todo, due>>
    BY DEF ReceiveRequest, Idle
  <1>2. Held(s) /\ s.nosendlist = sess.nosendlist
    BY DEF KeptInv, Held, Fields
  <1>3. RunSRIF(s) \/ (sess' = [s EXCEPT !.rcvdlist = @ + 1] /\ UNCHANGED disk)
    BY DEF ReceiveRequest
  <1> HIDE DEF s
  <1>4. CASE RunSRIF(s)
    BY <1>1, <1>2, <1>4, SRIFKept
  <1>5. CASE sess' = [s EXCEPT !.rcvdlist = @ + 1] /\ UNCHANGED disk
    <2>1. Held(sess') /\ sess'.nosendlist = sess.nosendlist
      BY <1>2, <1>5 DEF Held, Fields
    <2> QED BY <1>1, <1>5, <2>1, SessionKept DEF KeptInv
  <1> QED BY <1>3, <1>4, <1>5

LEMMA RcvdlistKept == ASSUME KeptInv, ProcessRcvdlist PROVE KeptInv'
  <1> DEFINE s == [sess EXCEPT !.rcvdlist = @ - 1]
  <1>1. ph = "up" /\ UNCHANGED <<flo, ph, todo, due>> /\ RunSRIF(s)
    BY DEF ProcessRcvdlist, BatchOver, Idle
  <1>2. Held(s) /\ s.nosendlist = sess.nosendlist
    BY DEF KeptInv, Held, Fields
  <1> HIDE DEF s
  <1> QED BY <1>1, <1>2, SRIFKept

LEMMA EndBatchKept == ASSUME KeptInv, EndBatch PROVE KeptInv'
  <1> DEFINE s == [sess EXCEPT !.killlist = @ \cup q_to_killlist(sess.q), !.q = Cleared(@)]
  <1>1. ph = "up" /\ UNCHANGED <<disk, flo, todo, due>>
    BY DEF EndBatch, BatchOver, Idle, world
  <1>2. sess.q \in Seq(Entries)
    BY DEF KeptInv, Held
  <1>3. Cleared(sess.q) \in Seq(Entries)
    <2>1. ASSUME NEW i \in DOMAIN sess.q PROVE Cleared(sess.q)[i] \in Entries
      <3>1. sess.q[i] \in Entries
        BY <1>2
      <3>2. [sess.q[i] EXCEPT !.action = "0"] \in Entries
        BY <3>1 DEF Entries, Kind, Actions
      <3> QED BY <3>1, <3>2 DEF Cleared
    <2>2. DOMAIN sess.q = 1..Len(sess.q) /\ Cleared(sess.q) = [i \in DOMAIN sess.q |-> Cleared(sess.q)[i]]
      BY <1>2 DEF Cleared
    <2> DEFINE c == Cleared(sess.q)
    <2>3. c = [i \in 1..Len(sess.q) |-> c[i]] /\ \A i \in 1..Len(sess.q) : c[i] \in Entries
      BY <2>1, <2>2
    <2>4. Len(sess.q) \in Nat
      BY <1>2
    <2> HIDE DEF c
    <2>5. c \in Seq(Entries)
      BY <2>3, <2>4
    <2> QED BY <2>5 DEF c
  <1>4. q_to_killlist(sess.q) \subseteq Responses \X {"any"}
    <2>1. ASSUME NEW i \in DOMAIN sess.q, sess.q[i].action = "a"
          PROVE  sess.q[i].path \in Responses
      <3>1. sess.q[i] \in Entries
        BY <1>2
      <3> QED BY <2>1, <3>1 DEF Entries, Kind
    <2> QED BY <2>1 DEF q_to_killlist
  <1>5. Held(s) /\ s.nosendlist = sess.nosendlist
    <2> DEFINE c == Cleared(sess.q)  k == q_to_killlist(sess.q)
    <2> HIDE DEF c, k
    <2>1. s = [sess EXCEPT !.killlist = @ \cup k, !.q = c]
      BY DEF c, k
    <2>2. c \in Seq(Entries) /\ k \subseteq Responses \X {"any"}
      BY <1>3, <1>4 DEF c, k
    <2> HIDE DEF s
    <2> QED BY <2>1, <2>2 DEF KeptInv, Held, Fields
  <1>6. \/ sess' = s /\ ph' = "ok"
        \/ /\ ph' = ph
           /\ \E q \in Scans(IF s.r_skipped THEN {} ELSE q_scan_boxes(disk), s.q) :
                sess' = [s EXCEPT !.q = IF s.r_skipped THEN s.q ELSE q, !.busy = FALSE,
                                  !.local_EOB = FALSE, !.remote_EOB = FALSE]
    BY DEF EndBatch
  <1> HIDE DEF s
  <1>7. CASE sess' = s /\ ph' = "ok"
    BY <1>1, <1>5, <1>7, SessionKept DEF KeptInv
  <1>8. ASSUME NEW q \in Scans(IF s.r_skipped THEN {} ELSE q_scan_boxes(disk), s.q), ph' = ph,
               sess' = [s EXCEPT !.q = IF s.r_skipped THEN s.q ELSE q, !.busy = FALSE,
                                 !.local_EOB = FALSE, !.remote_EOB = FALSE]
        PROVE  KeptInv'
    <2> DEFINE set == IF s.r_skipped THEN {} ELSE q_scan_boxes(disk)
    <2>1. set \subseteq Entries /\ IsFiniteSet(set)
      BY BoxesTyped, FS_EmptySet
    <2>2. s.q \in Seq(Entries)
      BY <1>5 DEF Held
    <2>3. q \in Seq(Entries)
      <3>1. q \in Scans(set, s.q)
        BY <1>8
      <3> HIDE DEF set
      <3> QED BY <2>1, <2>2, <3>1, ScansTyped
    <2> DEFINE q2 == IF s.r_skipped THEN s.q ELSE q
    <2>4. q2 \in Seq(Entries)
      BY <2>2, <2>3
    <2>5. sess' = [s EXCEPT !.q = q2, !.busy = FALSE, !.local_EOB = FALSE, !.remote_EOB = FALSE]
      BY <1>8
    <2> HIDE DEF q2
    <2>6. Held(sess') /\ sess'.nosendlist = sess.nosendlist
      BY <1>5, <2>4, <2>5 DEF Held, Fields
    <2> QED BY <1>1, <1>8, <2>6, SessionKept DEF KeptInv
  <1> QED BY <1>6, <1>7, <1>8

(* The end of the session: what goes is requests of a session that         *)
(* succeeded, which are then no longer due, and responses.                 *)
LEMMA EndSessionKept == ASSUME KeptInv, EndSession PROVE KeptInv'
  <1>1. /\ ph \in {"ok", "fail"} /\ todo = <<>>
        /\ due' = IF ph = "ok" THEN due \ (Killed(TRUE) \cap Requests) ELSE due
        /\ ph' = "none" /\ sess' = NewSession /\ UNCHANGED <<flo, todo>>
    BY DEF EndSession
  <1>2. PICK to \in BOOLEAN :
          disk' = [f \in DOMAIN disk |->
                     IF f \in Killed(ph = "ok") THEN "none"
                     ELSE IF f = FLO /\ ph = "fail" /\ to THEN "full" ELSE disk[f]]
    BY DEF EndSession
  <1>3. DOMAIN disk = Files \cup {FLO} /\ disk \in [Files \cup {FLO} -> Sizes] /\ FLO \notin Files
    BY OutboundAssumption DEF KeptInv, Typed
  <1>4. Killed(ph = "ok") \subseteq Files \cap (Responses \cup Requests)
    BY DEF Killed, KeptInv, Held
  <1>5. Killed(FALSE) \subseteq Responses
    BY DEF Killed, KeptInv, Held
  <1>6. disk' \in [Files \cup {FLO} -> Sizes] /\ (disk[FLO] # "none" => disk'[FLO] # "none")
    <2>1. FLO \notin Killed(ph = "ok")
      BY <1>3, <1>4
    <2> HIDE DEF Killed
    <2> QED BY <1>2, <1>3, <2>1 DEF Sizes
  <1>7. ASSUME NEW f \in due' PROVE f \in due /\ f \notin Killed(ph = "ok")
    <2>1. f \in due /\ f \notin Responses
      BY <1>1 DEF KeptInv, Typed
    <2>2. CASE ph = "ok"
      <3>1. Killed(ph = "ok") = Killed(TRUE)
        BY <2>2
      <3> QED BY <1>1, <1>4, <2>1, <2>2, <3>1
    <2>3. CASE ph # "ok"
      <3>1. Killed(ph = "ok") = Killed(FALSE)
        BY <2>3
      <3> QED BY <1>5, <2>1, <3>1
    <2> QED BY <2>2, <2>3
  <1>8. ASSUME NEW f \in due' PROVE disk'[f] = "full"
    <2>1. f \in due /\ f \notin Killed(ph = "ok") /\ disk[f] = "full" /\ f \in Files /\ f # FLO
      BY <1>7, DueThere DEF KeptInv
    <2> HIDE DEF Killed
    <2> QED BY <1>2, <1>3, <2>1
  <1>9. Typed'
    BY <1>1, <1>6 DEF KeptInv, Typed
  <1>10. Present(due, disk, flo)'
    BY <1>1, <1>6, <1>7, <1>8 DEF KeptInv, Present
  <1>11. Held(sess') /\ sess'.nosendlist = {}
    BY <1>1, NewHeld
  <1>12. Pending(todo', due')
    BY <1>1, NothingPending
  <1> QED BY <1>1, <1>9, <1>10, <1>11, <1>12 DEF KeptInv

LEMMA CrashKept == ASSUME KeptInv, NullLine \/ Crash PROVE KeptInv'
  <1>1. UNCHANGED <<disk, flo, due>> /\ sess' = NewSession /\ todo' = <<>>
    BY DEF NullLine, Crash, Killing, world
  <1>2. Typed' /\ Present(due, disk, flo)' /\ Pending(todo', due')
    BY <1>1, NothingPending DEF KeptInv, Typed
  <1> QED BY <1>1, <1>2, NewHeld DEF KeptInv

LEMMA QuietKept ==
    ASSUME KeptInv, RemoteEOB \/ LocalEOB \/ Drop \/ (\E f \in Files : RemoteTakes(f))
    PROVE  KeptInv'
  <1>1. UNCHANGED <<disk, flo, todo, due>> /\ (ph' = "none" => ph = "none")
    BY DEF RemoteEOB, LocalEOB, Drop, RemoteTakes, world
  <1>2. Held(sess') /\ sess'.nosendlist = sess.nosendlist
    <2>1. CASE RemoteEOB
      BY <2>1 DEF RemoteEOB, KeptInv, Held, Fields
    <2>2. CASE LocalEOB
      <3>1. sess' = [sess EXCEPT !.q = <<>>, !.local_EOB = TRUE]
        BY <2>2 DEF LocalEOB
      <3> QED BY <3>1 DEF KeptInv, Held, Fields
    <2>3. CASE Drop \/ (\E f \in Files : RemoteTakes(f))
      BY <2>3 DEF Drop, RemoteTakes, KeptInv
    <2> QED BY <2>1, <2>2, <2>3
  <1> QED BY <1>1, <1>2, SessionKept DEF KeptInv

(* New mail: there was no file of the name, nor an unmarked line.          *)
LEMMA TossKept == ASSUME KeptInv, NEW f \in Files, Toss(f) PROVE KeptInv'
  <1>1. /\ f \in Boxed \/ ph = "none"
        /\ f \notin Responses /\ ~There(f) /\ todo = <<>>
        /\ UNCHANGED <<ph, sess, todo>>
    BY DEF Toss
  <1>2. PICK what \in {"full", "none", "small"} :
          /\ disk' = [disk EXCEPT ![f] = what, ![FLO] = IF f \in Attached THEN "full" ELSE @]
          /\ \E act \in IF what = "full" THEN LineActs ELSE {"d"} :
               flo' = IF f \in Attached
                      THEN Append(flo, [file |-> f, act |-> act, done |-> FALSE]) ELSE flo
          /\ due' = IF what = "full" THEN due \cup {f} ELSE due
    BY DEF Toss
  <1>3. f # FLO /\ disk \in [Files \cup {FLO} -> Sizes]
    BY OutboundAssumption DEF KeptInv, Typed
  <1>4. /\ disk' \in [Files \cup {FLO} -> Sizes] /\ disk'[f] = what
        /\ \A g \in Files : g # f => disk'[g] = disk[g]
        /\ IF f \in Attached THEN disk'[FLO] = "full" ELSE disk'[FLO] = disk[FLO]
    <2> DEFINE box == IF f \in Attached THEN "full" ELSE disk[FLO]
    <2>1. disk' = [disk EXCEPT ![f] = what, ![FLO] = box]
      BY <1>2, <1>3
    <2>2. box \in Sizes /\ what \in Sizes /\ FLO \notin Files
      BY <1>3, OutboundAssumption DEF Sizes
    <2>3. /\ disk' \in [Files \cup {FLO} -> Sizes] /\ disk'[f] = what /\ disk'[FLO] = box
          /\ \A g \in Files : g # f => disk'[g] = disk[g]
      <3> HIDE DEF box
      <3> QED BY <1>3, <2>1, <2>2
    <2> QED BY <2>3
  <1>5. PICK act \in {"d", "t", "0"} :
          flo' = IF f \in Attached
                 THEN Append(flo, [file |-> f, act |-> act, done |-> FALSE]) ELSE flo
    BY <1>2, OutboundAssumption
  <1>6. /\ flo' \in Seq(Lines)
        /\ \A i \in DOMAIN flo : i \in DOMAIN flo' /\ flo'[i] = flo[i]
        /\ f \in Attached => \E i \in DOMAIN flo' : flo'[i].file = f /\ ~flo'[i].done
    <2>1. flo \in Seq(Lines)
      BY DEF KeptInv, Typed
    <2>2. CASE f \in Attached
      <3> DEFINE l == [file |-> f, act |-> act, done |-> FALSE]
      <3>1. l \in Lines /\ l.file = f /\ ~l.done
        BY <2>2 DEF Lines
      <3>2. flo' = Append(flo, l)
        BY <1>5, <2>2
      <3> HIDE DEF l
      <3>3. /\ flo' \in Seq(Lines) /\ Len(flo') = Len(flo) + 1 /\ flo'[Len(flo) + 1] = l
            /\ \A i \in 1..Len(flo) : flo'[i] = flo[i]
        BY <2>1, <3>1, <3>2
      <3>4. Len(flo) + 1 \in DOMAIN flo' /\ \A i \in DOMAIN flo : i \in 1..Len(flo) /\ i \in DOMAIN flo'
        BY <2>1, <3>3
      <3> QED BY <3>1, <3>3, <3>4
    <2>3. CASE f \notin Attached
      BY <1>5, <2>1, <2>3
    <2> QED BY <2>2, <2>3
  <1>7. due' \subseteq due \cup {f} /\ (f \in due' => what = "full")
    <2>1. f \notin due
      BY <1>1, DueThere DEF KeptInv
    <2> QED BY <1>2, <2>1
  <1>8. Typed'
    BY <1>1, <1>4, <1>6, <1>7 DEF KeptInv, Typed
  <1>9. ASSUME NEW g \in due'
        PROVE  /\ disk'[g] = "full"
               /\ g \in Attached =>
                     disk'[FLO] # "none" /\ \E i \in DOMAIN flo' : flo'[i].file = g /\ ~flo'[i].done
    <2>1. CASE g = f
      BY <2>1, <1>4, <1>6, <1>7
    <2>2. CASE g # f
      <3>1. g \in due
        BY <2>2, <1>7
      <3>2. disk'[g] = "full"
        BY <2>2, <3>1, <1>4, DueThere DEF KeptInv
      <3>3. ASSUME g \in Attached
            PROVE  disk'[FLO] # "none" /\ \E i \in DOMAIN flo' : flo'[i].file = g /\ ~flo'[i].done
        <4>1. disk[FLO] # "none"
          BY <3>1, <3>3 DEF KeptInv, Present
        <4>2. PICK i \in DOMAIN flo : flo[i].file = g /\ ~flo[i].done
          BY <3>1, <3>3 DEF KeptInv, Present
        <4> QED BY <4>1, <4>2, <1>4, <1>6
      <3> QED BY <3>2, <3>3
    <2> QED BY <2>1, <2>2
  <1>10. Present(due, disk, flo)'
    BY <1>9 DEF Present
  <1>11. Pending(todo, due)'
    BY <1>1, NothingPending
  <1>12. sess'.nosendlist \cap due' \cap Attached = {}
    <2>1. f \in Attached => sess.nosendlist = {}
      BY <1>1, KindsAssumption DEF KeptInv
    <2> QED BY <2>1, <1>1, <1>7 DEF KeptInv
  <1> QED BY <1>1, <1>8, <1>10, <1>11, <1>12 DEF KeptInv

-----------------------------------------------------------------------------
(*                              The theorem                                *)

LEMMA InitKept == Init => KeptInv
  <1> SUFFICES ASSUME Init PROVE KeptInv
    OBVIOUS
  <1>1. /\ disk = [f \in Files \cup {FLO} |-> "none"] /\ flo = <<>> /\ due = {}
        /\ sess = NewSession /\ todo = <<>>
    BY DEF Init
  <1>2. Typed /\ Present(due, disk, flo)
    BY <1>1 DEF Typed, Present, Sizes
  <1> QED BY <1>1, <1>2, NewHeld, NothingPending DEF KeptInv

LEMMA NextKept == KeptInv /\ [Next]_vars => KeptInv'
  <1> SUFFICES ASSUME KeptInv, [Next]_vars PROVE KeptInv'
    OBVIOUS
  <1>1. CASE Session
    BY <1>1, LoginKept, NextFileKept, NextLineKept, SendFileKept, QuietKept, RcvdlistKept,
       EndBatchKept, EndSessionKept, WriteNextKept, GOTKept, CrashKept DEF Session
  <1>2. CASE ReceiveRequest
    BY <1>2, RequestKept
  <1>3. CASE RemoteEOB \/ Drop \/ Crash
    BY <1>3, QuietKept, CrashKept
  <1>4. CASE \E f \in Files : Toss(f) \/ RemoteTakes(f) \/ SKIP(f)
    BY <1>4, TossKept, QuietKept, SKIPKept
  <1>5. CASE UNCHANGED vars
    <2>1. UNCHANGED <<disk, flo, ph, sess, todo, due>>
      BY <1>5 DEF vars
    <2> QED BY <2>1 DEF KeptInv, Typed
  <1> QED BY <1>1, <1>2, <1>3, <1>4, <1>5 DEF Next

LEMMA InvKept == KeptInv => Kept
  BY DEF KeptInv, Present, Kept, There, Unmarked

(* Mail handed to a link is on the disk until the remote has acknowledged  *)
(* it, an attachment with an unmarked line in a .?lo, however the writes   *)
(* of removals are cut short, whatever the remote skips or a hook does     *)
(* (remove_from_spool, perform_action, GOT, SKIP, process_killlist).       *)
THEOREM MailKept == Spec => []Kept
  <1>1. KeptInv /\ [Next]_vars => KeptInv'
    BY NextKept
  <1> QED BY <1>1, InitKept, InvKept, PTL DEF Spec

-----------------------------------------------------------------------------
(*                 What is answered is not sent again                      *)

(* The names of which a session has one file at most. Two requests of the  *)
(* remote may be answered with the same file, which is then queued twice.  *)
Once == {f \in Files \cup {FLO} : MaxRcvd <= 1 \/ f \notin Responses}

(* An entry of the queue: only the .?lo is one, a file from the filebox is *)
(* removed when it was sent, and an attachment is not in the queue.        *)
Plain ==
    {e \in Entries : /\ e.path \notin Attached
                     /\ e.path \in Boxed => e.action = "d"
                     /\ e.type = "l" => e.path = FLO}
Handed == {t \in Transfers : t.path \in Boxed => t.action = "d" /\ ~t.flo}

Unlike(s) == \A i, j \in 1..Len(s) : s[i].path \in Once /\ s[i].path = s[j].path => i = j
Has(s, f) == \E i \in 1..Len(s) : s[i].path = f
Queued(q, f) == \E i \in 1..Len(q) : ~q[i].sent /\ q[i].path = f

(* A request that was run, or one that waits: an answer only to the former. *)
Requested(s) ==
    /\ s.rcvd \in 0..1 /\ s.rcvdlist \in 0..s.rcvd
    /\ (\E i \in 1..Len(s.q) : s.q[i].path \in Responses) => s.rcvd = 1 /\ s.rcvdlist = 0

Shape(s) ==
    /\ s.q \in Seq(Plain) /\ Unlike(s.q)
    /\ s.out \in Handed \cup {NoFile}
    /\ s.sent \in Seq(Handed) /\ Unlike(s.sent)
    /\ s.local_EOB = TRUE => \A i \in 1..Len(s.q) : s.q[i].path \in Responses
    /\ s.pos > 0 => ~Queued(s.q, FLO)

(* A file is in transfer, sent or answered, and in one of these only. *)
Open(s, f) == s.out # NoFile /\ s.out.path = f
Used(f, s, ans) == f \in ans \/ Open(s, f) \/ Has(s.sent, f)
Apart(s, ans) ==
    \A f \in Once : /\ Open(s, f) => f \notin ans /\ ~Has(s.sent, f)
                    /\ Has(s.sent, f) => f \notin ans

(* A line of the file is still to be read. *)
Ahead(f, s, lines) ==
    \E i \in 1..Len(lines) : /\ lines[i].file = f /\ ~lines[i].done
                             /\ IF s.pos > 0 THEN i >= s.pos ELSE Queued(s.q, FLO)

(* What was sent is not met again: no line of the .?lo is ahead, and it is *)
(* not in the queue, but for a file the session will not send.             *)
NotAgain(s, ans, lines) ==
    \A f \in Once : Used(f, s, ans) =>
        /\ ~Ahead(f, s, lines)
        /\ Queued(s.q, f) => f \in s.nosendlist

(* The tosser writes a second line for a file when the first is marked. *)
OneLine(lines) ==
    \A i, j \in 1..Len(lines) :
        ~lines[i].done /\ ~lines[j].done /\ lines[i].file = lines[j].file => i = j

(* The next scan of the filebox does not find what was answered: it is     *)
(* gone, or will be (ws are the writes to come).                           *)
Goes(ws, f) == \E i \in 1..Len(ws) : ws[i] = Act(f, "d")
Going(s, ans, d, ws) ==
    \A f \in ans \cap Boxed :
        s.r_skipped = TRUE \/ f \in s.nosendlist \/ d[f] = "none" \/ Goes(ws, f)
Removals(ws) ==
    \A i \in 1..Len(ws) : ws[i].op = "act" /\ ws[i].file \in Boxed => ws[i].action = "d"

Fits(s, ans, lines, d, ws) ==
    /\ Shape(s) /\ Apart(s, ans) /\ NotAgain(s, ans, lines) /\ OneLine(lines)
    /\ Going(s, ans, d, ws) /\ Removals(ws)
    /\ MaxRcvd <= 1 => Requested(s)

AnswerInv ==
    /\ Fits(sess, answered, flo, disk, todo)
    /\ ph = "none" => sess = NewSession /\ answered = {}

LEMMA Joined ==
    ASSUME NEW S, NEW x \in Seq(S), NEW z \in Seq(S)
    PROVE  /\ Len(x \o z) = Len(x) + Len(z)
           /\ \A i \in 1..Len(x) : (x \o z)[i] = x[i]
           /\ \A i \in (Len(x) + 1)..(Len(x) + Len(z)) : (x \o z)[i] = z[i - Len(x)]
  OBVIOUS

LEMMA AppendUnlike ==
    ASSUME NEW S, NEW p \in Seq(S), NEW x \in S, Unlike(p), x.path \in Once => ~Has(p, x.path)
    PROVE  Unlike(Append(p, x))
  <1> DEFINE a == Append(p, x)
  <1>1. /\ Len(p) \in Nat /\ Len(a) = Len(p) + 1 /\ a[Len(p) + 1] = x
        /\ \A i \in 1..Len(p) : a[i] = p[i]
    OBVIOUS
  <1> HIDE DEF a
  <1>2. ASSUME NEW i \in 1..Len(a), NEW j \in 1..Len(a), a[i].path \in Once,
               a[i].path = a[j].path
        PROVE  i = j
    <2>1. (i \in 1..Len(p) \/ i = Len(p) + 1) /\ (j \in 1..Len(p) \/ j = Len(p) + 1)
      BY <1>1
    <2>2. CASE i \in 1..Len(p) /\ j \in 1..Len(p)
      BY <2>2, <1>1, <1>2 DEF Unlike
    <2>3. CASE i \in 1..Len(p) /\ j = Len(p) + 1
      BY <2>3, <1>1, <1>2 DEF Has
    <2>4. CASE i = Len(p) + 1 /\ j \in 1..Len(p)
      BY <2>4, <1>1, <1>2 DEF Has
    <2>5. CASE i = Len(p) + 1 /\ j = Len(p) + 1
      BY <2>5
    <2> QED BY <2>1, <2>2, <2>3, <2>4, <2>5
  <1>3. Unlike(a)
    BY <1>2 DEF Unlike
  <1> QED BY <1>3 DEF a

(* The elements of p are among the first m of s. *)
Among(p, s, m) == \A i \in 1..Len(p) : \E j \in 1..m : p[i] = s[j]

LEMMA AmongFresh ==
    ASSUME NEW p, NEW s, NEW m \in 1..Len(s), Among(p, s, m - 1), Len(s) \in Nat,
           Unlike(s), s[m].path \in Once
    PROVE  ~Has(p, s[m].path)
  <1> SUFFICES ASSUME NEW i \in 1..Len(p), p[i].path = s[m].path PROVE FALSE
    BY DEF Has
  <1>1. PICK j \in 1..(m - 1) : p[i] = s[j]
    BY DEF Among
  <1>2. j \in 1..Len(s) /\ j # m /\ s[j].path = s[m].path
    BY <1>1
  <1> QED BY <1>2 DEF Unlike

LEMMA OnlyList ==
    ASSUME NEW S, NEW s \in Seq(S), NEW K
    PROVE  /\ Among(Only(s, K), s, Len(s)) /\ \A i \in 1..Len(Only(s, K)) : Only(s, K)[i] \in K
           /\ Unlike(s) => Unlike(Only(s, K))
  <1>1. PICK g : /\ Only(s, K) = g[Len(s)] /\ g[0] = <<>>
                 /\ \A m \in 1..Len(s) :
                      g[m] = IF s[m] \in K THEN Append(g[m - 1], s[m]) ELSE g[m - 1]
    BY OnlyTable
  <1> DEFINE Good(m) == /\ g[m] \in Seq(S) /\ Among(g[m], s, m)
                        /\ \A i \in 1..Len(g[m]) : g[m][i] \in K
                        /\ Unlike(s) => Unlike(g[m])
             T == {m \in 0..Len(s) : Good(m)}
  <1>2. Len(s) \in Nat
    OBVIOUS
  <1>3. 0 \in T
    <2>1. g[0] \in Seq(S) /\ Len(g[0]) = 0 /\ 1..0 = {}
      BY <1>1
    <2>2. Good(0)
      BY <2>1 DEF Among, Unlike
    <2> QED BY <2>2, <1>2
  <1>4. ASSUME NEW m \in 1..Len(s), m - 1 \in T PROVE m \in T
    <2> DEFINE p == g[m - 1]  x == s[m]  r == g[m]
    <2>1. p \in Seq(S) /\ Among(p, s, m - 1) /\ (\A i \in 1..Len(p) : p[i] \in K)
          /\ (Unlike(s) => Unlike(p)) /\ x \in S
      BY <1>4
    <2>2. r = IF x \in K THEN Append(p, x) ELSE p
      BY <1>1
    <2>3. x = s[m]
      OBVIOUS
    <2> HIDE DEF p, x, r
    <2>4. Among(p, s, m)
      BY <2>1, <1>2 DEF Among
    <2>5. CASE x \notin K
      <3>1. r = p
        BY <2>2, <2>5
      <3>2. r \in Seq(S) /\ Among(r, s, m) /\ (\A i \in 1..Len(r) : r[i] \in K)
            /\ (Unlike(s) => Unlike(r))
        BY <3>1, <2>1, <2>4
      <3> QED BY <3>2 DEF r
    <2>6. CASE x \in K
      <3>1. r = Append(p, x)
        BY <2>2, <2>6
      <3>2. /\ r \in Seq(S) /\ Len(r) = Len(p) + 1 /\ r[Len(p) + 1] = x /\ Len(p) \in Nat
            /\ \A i \in 1..Len(p) : r[i] = p[i]
        BY <3>1, <2>1
      <3>3. ASSUME NEW i \in 1..Len(r) PROVE r[i] \in K /\ \E j \in 1..m : r[i] = s[j]
        <4>1. CASE i \in 1..Len(p)
          BY <4>1, <3>2, <2>1, <2>4 DEF Among
        <4>2. CASE i = Len(p) + 1
          BY <4>2, <3>2, <2>3, <2>6
        <4> QED BY <4>1, <4>2, <3>2
      <3>4. ASSUME Unlike(s) PROVE Unlike(r)
        <4>1. x.path \in Once => ~Has(p, x.path)
          BY <3>4, <2>1, <2>3, <1>2, AmongFresh
        <4> QED BY <3>1, <3>4, <4>1, <2>1, AppendUnlike
      <3>5. Among(r, s, m) /\ \A i \in 1..Len(r) : r[i] \in K
        BY <3>3 DEF Among
      <3> QED BY <3>2, <3>4, <3>5 DEF r
    <2> QED BY <2>5, <2>6
  <1> HIDE DEF T
  <1>5. Len(s) \in T
    BY <1>2, <1>3, <1>4, UpTo
  <1> QED BY <1>1, <1>5 DEF T

(* p is s with e at k: what stood there and behind has moved. *)
Inserts(p, s, e, k) ==
  /\ Len(p) = Len(s) + 1
  /\ \A i \in 1..(Len(s) + 1) : p[i] = IF i < k THEN s[i] ELSE IF i = k THEN e ELSE s[i - 1]

LEMMA InsertedForm ==
    ASSUME NEW S, NEW s \in Seq(S), NEW e \in S
    PROVE  \E k \in 1..(Len(s) + 1) : Inserts(Inserted(s, e), s, e, k)
  <1> DEFINE later == {i \in DOMAIN s : q_cmp(s[i], e) > 0}
             first == CHOOSE i \in later : \A j \in later : i <= j
  <1>0. Len(s) \in Nat
    OBVIOUS
  <1>1. CASE later = {}
    <2> DEFINE a == Append(s, e)
    <2>1. Inserted(s, e) = a
      BY <1>1 DEF Inserted
    <2>2. Len(a) = Len(s) + 1 /\ a[Len(s) + 1] = e /\ \A i \in 1..Len(s) : a[i] = s[i]
      OBVIOUS
    <2> HIDE DEF a
    <2>3. \A i \in 1..(Len(s) + 1) :
             a[i] = IF i < Len(s) + 1 THEN s[i] ELSE IF i = Len(s) + 1 THEN e ELSE s[i - 1]
      BY <2>2, <1>0
    <2>4. Len(s) + 1 \in 1..(Len(s) + 1)
      BY <1>0
    <2>5. Inserts(a, s, e, Len(s) + 1)
      BY <2>2, <2>3 DEF Inserts
    <2> QED BY <2>1, <2>4, <2>5
  <1>2. CASE later # {}
    <2>1. later \in SUBSET Nat /\ later \subseteq 1..Len(s)
      OBVIOUS
    <2>2. \E i \in later : \A j \in later : i <= j
      <3> HIDE DEF later
      <3> QED BY <2>1, <1>2, Least
    <2>3. first \in 1..Len(s)
      <3> HIDE DEF later
      <3> QED BY <2>1, <2>2
    <2>4. Inserted(s, e) = InsertAt(s, first, e)
      BY <1>2 DEF Inserted
    <2> HIDE DEF first
    <2> DEFINE x == SubSeq(s, 1, first - 1)
               z == SubSeq(s, first, Len(s))
               a == InsertAt(s, first, e)
    <2>5. a = x \o <<e>> \o z
      BY DEF InsertAt
    <2>6. /\ x \in Seq(S) /\ Len(x) = first - 1 /\ \A i \in 1..(first - 1) : x[i] = s[i]
          /\ z \in Seq(S) /\ Len(z) = Len(s) - first + 1
          /\ \A i \in 1..(Len(s) - first + 1) : z[i] = s[first + i - 1]
      BY <2>3
    <2> HIDE DEF x, z, a
    <2> DEFINE y == x \o <<e>>
    <2>7. y \in Seq(S) /\ Len(y) = first /\ y[first] = e /\ \A i \in 1..(first - 1) : y[i] = x[i]
      BY <2>6, <2>3
    <2>8. a = y \o z
      BY <2>5
    <2> HIDE DEF y
    <2>9. /\ Len(a) = Len(s) + 1
          /\ \A i \in 1..first : a[i] = y[i]
          /\ \A i \in (first + 1)..(Len(s) + 1) : a[i] = z[i - first]
      <3>1. /\ Len(y \o z) = Len(y) + Len(z)
            /\ \A i \in 1..Len(y) : (y \o z)[i] = y[i]
            /\ \A i \in (Len(y) + 1)..(Len(y) + Len(z)) : (y \o z)[i] = z[i - Len(y)]
        BY <2>6, <2>7, Joined
      <3>2. Len(y) + Len(z) = Len(s) + 1
        BY <2>6, <2>7, <2>3, <1>0
      <3> QED BY <3>1, <3>2, <2>7, <2>8
    <2>10. ASSUME NEW i \in 1..(Len(s) + 1)
           PROVE  a[i] = IF i < first THEN s[i] ELSE IF i = first THEN e ELSE s[i - 1]
      <3>1. CASE i < first
        <4>1. i \in 1..(first - 1) /\ i \in 1..first
          BY <3>1, <2>3
        <4> QED BY <4>1, <3>1, <2>9, <2>7, <2>6
      <3>2. CASE i = first
        BY <3>2, <2>9, <2>7, <2>3
      <3>3. CASE i > first
        <4>1. i \in (first + 1)..(Len(s) + 1) /\ i - first \in 1..(Len(s) - first + 1)
              /\ first + (i - first) - 1 = i - 1
          BY <3>3, <2>3, <1>0
        <4>2. a[i] = z[i - first] /\ z[i - first] = s[first + (i - first) - 1]
          BY <4>1, <2>9, <2>6
        <4> QED BY <4>1, <4>2, <3>3, <2>3
      <3> QED BY <3>1, <3>2, <3>3, <2>3
    <2>11. first \in 1..(Len(s) + 1)
      BY <2>3
    <2>12. Inserts(a, s, e, first)
      BY <2>9, <2>10 DEF Inserts
    <2> QED BY <2>4, <2>11, <2>12 DEF a
  <1> QED BY <1>1, <1>2

LEMMA InsertedUnlike ==
    ASSUME NEW S, NEW s \in Seq(S), NEW e \in S, Unlike(s), e.path \in Once => ~Has(s, e.path)
    PROVE  Unlike(Inserted(s, e))
  <1> DEFINE p == Inserted(s, e)
  <1>0. PICK k \in 1..(Len(s) + 1) : Inserts(p, s, e, k)
    BY InsertedForm
  <1>1. /\ Len(p) = Len(s) + 1
        /\ \A i \in 1..(Len(s) + 1) : p[i] = IF i < k THEN s[i] ELSE IF i = k THEN e ELSE s[i - 1]
    BY <1>0 DEF Inserts
  <1>2. Len(s) \in Nat
    OBVIOUS
  <1> HIDE DEF p
  <1> DEFINE at == [i \in 1..Len(p) |-> IF i < k THEN i ELSE i - 1]
  <1>3. ASSUME NEW i \in 1..Len(p), i # k PROVE at[i] \in 1..Len(s) /\ p[i] = s[at[i]]
    BY <1>1, <1>2, <1>3
  <1>4. ASSUME NEW i \in 1..Len(p), NEW j \in 1..Len(p), i # k, j # k, at[i] = at[j] PROVE i = j
    <2>1. at[i] = (IF i < k THEN i ELSE i - 1) /\ at[j] = (IF j < k THEN j ELSE j - 1)
      OBVIOUS
    <2>2. i \in Nat /\ j \in Nat /\ k \in Nat
      BY <1>1, <1>2
    <2>3. (IF i < k THEN i ELSE i - 1) = (IF j < k THEN j ELSE j - 1)
      BY <2>1, <1>4
    <2> HIDE DEF at
    <2>4. CASE i < k /\ j < k
      BY <2>3, <2>4
    <2>5. CASE i < k /\ j > k
      BY <2>2, <2>3, <2>5
    <2>6. CASE i > k /\ j < k
      BY <2>2, <2>3, <2>6
    <2>7. CASE i > k /\ j > k
      BY <2>2, <2>3, <2>7
    <2>8. (i < k \/ i > k) /\ (j < k \/ j > k)
      BY <2>2, <1>4
    <2> QED BY <2>4, <2>5, <2>6, <2>7, <2>8
  <1>5. p[k] = e
    BY <1>1
  <1> HIDE DEF at
  <1>6. ASSUME NEW i \in 1..Len(p), NEW j \in 1..Len(p), p[i].path \in Once, p[i].path = p[j].path
        PROVE  i = j
    <2>1. CASE i # k /\ j # k
      <3>1. /\ at[i] \in 1..Len(s) /\ p[i] = s[at[i]]
            /\ at[j] \in 1..Len(s) /\ p[j] = s[at[j]]
        BY <2>1, <1>3
      <3>2. at[i] = at[j]
        BY <3>1, <1>6 DEF Unlike
      <3> QED BY <2>1, <3>2, <1>4
    <2>2. CASE i = k /\ j # k
      BY <2>2, <1>3, <1>5, <1>6 DEF Has
    <2>3. CASE i # k /\ j = k
      BY <2>3, <1>3, <1>5, <1>6 DEF Has
    <2> QED BY <2>1, <2>2, <2>3
  <1>7. Unlike(p)
    BY <1>6 DEF Unlike
  <1> QED BY <1>7 DEF p

LEMMA SortList ==
    ASSUME NEW S, NEW q \in Seq(S)
    PROVE  Among(q_sort(q), q, Len(q)) /\ (Unlike(q) => Unlike(q_sort(q)))
  <1>1. PICK g : /\ q_sort(q) = g[Len(q)] /\ g[0] = <<>>
                 /\ \A m \in 1..Len(q) : g[m] = Inserted(g[m - 1], q[m])
    BY SortTable
  <1> DEFINE Good(m) == /\ g[m] \in Seq(S) /\ Among(g[m], q, m)
                        /\ Unlike(q) => Unlike(g[m])
             T == {m \in 0..Len(q) : Good(m)}
  <1>2. Len(q) \in Nat
    OBVIOUS
  <1>3. 0 \in T
    <2>1. g[0] \in Seq(S) /\ Len(g[0]) = 0 /\ 1..0 = {}
      BY <1>1
    <2>2. Good(0)
      BY <2>1 DEF Among, Unlike
    <2> QED BY <2>2, <1>2
  <1>4. ASSUME NEW m \in 1..Len(q), m - 1 \in T PROVE m \in T
    <2> DEFINE p == g[m - 1]  x == q[m]  r == g[m]
    <2>1. p \in Seq(S) /\ Among(p, q, m - 1) /\ (Unlike(q) => Unlike(p)) /\ x \in S
      BY <1>4
    <2>2. r = Inserted(p, x) /\ x = q[m]
      BY <1>1
    <2> HIDE DEF p, x, r
    <2>3. r \in Seq(S)
      BY <2>1, <2>2, InsertedTyped
    <2>8. PICK k \in 1..(Len(p) + 1) : Inserts(r, p, x, k)
      BY <2>1, <2>2, InsertedForm
    <2>4. /\ Len(r) = Len(p) + 1
          /\ \A i \in 1..(Len(p) + 1) : r[i] = IF i < k THEN p[i] ELSE IF i = k THEN x ELSE p[i - 1]
      BY <2>8 DEF Inserts
    <2>5. ASSUME NEW i \in 1..Len(r) PROVE \E j \in 1..m : r[i] = q[j]
      <3>1. r[i] = x \/ \E l \in 1..Len(p) : r[i] = p[l]
        <4>1. Len(p) \in Nat
          BY <2>1
        <4>2. CASE i < k
          BY <4>1, <4>2, <2>4
        <4>3. CASE i = k
          BY <4>3, <2>4
        <4>4. CASE i > k
          <5>1. i - 1 \in 1..Len(p) /\ r[i] = p[i - 1]
            BY <4>1, <4>4, <2>4
          <5> QED BY <5>1
        <4> QED BY <4>2, <4>3, <4>4, <4>1, <2>4
      <3>2. \A l \in 1..Len(p) : \E j \in 1..m : p[l] = q[j]
        BY <2>1, <1>2 DEF Among
      <3> QED BY <3>1, <3>2, <2>2
    <2>6. Among(r, q, m)
      BY <2>5 DEF Among
    <2>7. ASSUME Unlike(q) PROVE Unlike(r)
      <3>1. x.path \in Once => ~Has(p, x.path)
        BY <2>7, <2>1, <2>2, <1>2, AmongFresh
      <3> QED BY <2>1, <2>2, <2>7, <3>1, InsertedUnlike
    <2> QED BY <2>3, <2>6, <2>7 DEF r
  <1> HIDE DEF T
  <1>5. Len(q) \in T
    BY <1>2, <1>3, <1>4, UpTo
  <1> QED BY <1>1, <1>5 DEF T

(* The elements of p are elements of s other than the one at n. *)
Others(p, s, n) == \A i \in 1..Len(p) : \E j \in 1..Len(s) : j # n /\ p[i] = s[j]

LEMMA RemoveList ==
    ASSUME NEW S, NEW s \in Seq(S), NEW n \in 1..Len(s)
    PROVE  Others(RemoveAt(s, n), s, n) /\ (Unlike(s) => Unlike(RemoveAt(s, n)))
  <1> DEFINE x == SubSeq(s, 1, n - 1)
             z == SubSeq(s, n + 1, Len(s))
             p == RemoveAt(s, n)
  <1>1. Len(s) \in Nat /\ p = x \o z
    BY DEF RemoveAt
  <1>2. /\ x \in Seq(S) /\ Len(x) = n - 1 /\ \A i \in 1..(n - 1) : x[i] = s[i]
        /\ z \in Seq(S) /\ Len(z) = Len(s) - n
        /\ \A i \in 1..(Len(s) - n) : z[i] = s[n + i]
    OBVIOUS
  <1> HIDE DEF x, z, p
  <1>3. /\ Len(p) = Len(s) - 1
        /\ \A i \in 1..(n - 1) : p[i] = x[i]
        /\ \A i \in n..(Len(s) - 1) : p[i] = z[i - n + 1]
    <2>1. /\ Len(x \o z) = Len(x) + Len(z)
          /\ \A i \in 1..Len(x) : (x \o z)[i] = x[i]
          /\ \A i \in (Len(x) + 1)..(Len(x) + Len(z)) : (x \o z)[i] = z[i - Len(x)]
      BY <1>2, Joined
    <2>2. Len(x) + Len(z) = Len(s) - 1 /\ Len(x) + 1 = n
      BY <1>1, <1>2
    <2>3. ASSUME NEW i \in n..(Len(s) - 1) PROVE p[i] = z[i - n + 1]
      <3>1. i \in (Len(x) + 1)..(Len(x) + Len(z)) /\ i - Len(x) = i - n + 1
        BY <2>2, <1>1, <1>2
      <3> QED BY <3>1, <2>1, <1>1
    <2> QED BY <2>1, <2>2, <2>3, <1>1, <1>2
  <1> DEFINE at == [i \in 1..Len(p) |-> IF i < n THEN i ELSE i + 1]
  <1>4. ASSUME NEW i \in 1..Len(p)
        PROVE  at[i] \in 1..Len(s) /\ at[i] # n /\ p[i] = s[at[i]]
    <2>1. CASE i < n
      BY <2>1, <1>1, <1>2, <1>3
    <2>2. CASE i >= n
      <3>1. i \in n..(Len(s) - 1) /\ i - n + 1 \in 1..(Len(s) - n) /\ n + (i - n + 1) = i + 1
            /\ at[i] = i + 1
        BY <2>2, <1>1, <1>3
      <3>2. p[i] = z[i - n + 1] /\ z[i - n + 1] = s[n + (i - n + 1)]
        BY <3>1, <1>2, <1>3
      <3> QED BY <3>1, <3>2, <2>2, <1>1, <1>3
    <2> QED BY <2>1, <2>2, <1>1, <1>3
  <1>5. ASSUME NEW i \in 1..Len(p), NEW j \in 1..Len(p), at[i] = at[j] PROVE i = j
    BY <1>1, <1>3, <1>5
  <1> HIDE DEF at
  <1>6. ASSUME Unlike(s) PROVE Unlike(p)
    BY <1>4, <1>5, <1>6 DEF Unlike
  <1>7. Others(p, s, n)
    BY <1>4 DEF Others
  <1> QED BY <1>6, <1>7 DEF p

(* The paths of a set of entries are different. *)
Parted(set) == \A a, b \in set : a.path = b.path => a = b
Strange(set, old) == \A a \in set : ~Has(old, a.path)
Drawn(q, set, old) == \A i \in 1..Len(q) : q[i] \in set \/ \E j \in 1..Len(old) : q[i] = old[j]

LEMMA ScanList ==
    ASSUME NEW set, set \subseteq Entries, IsFiniteSet(set), Parted(set),
           NEW old \in Seq(Entries), Unlike(old), Strange(set, old), NEW q \in Scans(set, old)
    PROVE  Unlike(q) /\ Drawn(q, set, old)
  <1>1. PICK s \in SetToSeqs(set) : q = q_sort(s \o old)
    BY DEF Scans
  <1>2. s \in Seq(set) /\ s \in Seq(Entries)
    BY AllTyped
  <1>3. \A i, j \in 1..Len(s) : i # j => s[i] # s[j]
    BY FS_CardinalityType DEF SetToSeqs
  <1> DEFINE t == s \o old
  <1>4. /\ t \in Seq(Entries) /\ Len(t) = Len(s) + Len(old)
        /\ \A i \in 1..Len(s) : t[i] = s[i]
        /\ \A i \in (Len(s) + 1)..(Len(s) + Len(old)) : t[i] = old[i - Len(s)]
    BY <1>2, Joined
  <1>5. Len(s) \in Nat /\ Len(old) \in Nat
    BY <1>2
  <1>6. q = q_sort(t)
    BY <1>1
  <1> HIDE DEF t
  <1>7. ASSUME NEW i \in 1..Len(t)
        PROVE  \/ i \in 1..Len(s) /\ t[i] = s[i] /\ s[i] \in set
               \/ i - Len(s) \in 1..Len(old) /\ t[i] = old[i - Len(s)]
    BY <1>2, <1>4, <1>5
  <1>8. ASSUME NEW i \in 1..Len(t), NEW j \in 1..Len(t), t[i].path \in Once, t[i].path = t[j].path
        PROVE  i = j
    <2>1. CASE i \in 1..Len(s) /\ t[i] \in set /\ j \in 1..Len(s) /\ t[j] \in set
      <3>1. t[i] = t[j] /\ t[i] = s[i] /\ t[j] = s[j]
        BY <2>1, <1>4, <1>8 DEF Parted
      <3> QED BY <3>1, <2>1, <1>3
    <2>2. CASE t[i] \in set /\ j - Len(s) \in 1..Len(old) /\ t[j] = old[j - Len(s)]
      BY <2>2, <1>8 DEF Strange, Has
    <2>3. CASE t[j] \in set /\ i - Len(s) \in 1..Len(old) /\ t[i] = old[i - Len(s)]
      BY <2>3, <1>8 DEF Strange, Has
    <2>4. CASE /\ i - Len(s) \in 1..Len(old) /\ t[i] = old[i - Len(s)]
               /\ j - Len(s) \in 1..Len(old) /\ t[j] = old[j - Len(s)]
      <3>1. i - Len(s) = j - Len(s)
        BY <2>4, <1>8 DEF Unlike
      <3> QED BY <3>1, <1>4, <1>5
    <2> QED BY <1>7, <2>1, <2>2, <2>3, <2>4
  <1>9. Unlike(t)
    BY <1>8 DEF Unlike
  <1>10. Unlike(q) /\ Among(q, t, Len(t))
    BY <1>4, <1>6, <1>9, SortList
  <1>11. ASSUME NEW i \in 1..Len(q) PROVE q[i] \in set \/ \E j \in 1..Len(old) : q[i] = old[j]
    <2>1. PICK j \in 1..Len(t) : q[i] = t[j]
      BY <1>10 DEF Among
    <2>2. t[j] \in set \/ (j - Len(s) \in 1..Len(old) /\ t[j] = old[j - Len(s)])
      BY <1>7
    <2> QED BY <2>1, <2>2
  <1> QED BY <1>10, <1>11 DEF Drawn

LEMMA BoxesPlain ==
    ASSUME NEW d
    PROVE  /\ \A e \in q_scan_boxes(d) : e \in Plain /\ e.path \in Boxed /\ d[e.path] # "none"
           /\ Parted(q_scan_boxes(d))
  <1>1. ASSUME NEW e \in q_scan_boxes(d)
        PROVE  e \in Plain /\ e.path \in Boxed /\ d[e.path] # "none" /\ e = Entry(e.path, "", "d", 2)
    <2>1. PICK f \in Boxed : d[f] # "none" /\ e = Entry(f, "", "d", 2)
      BY <1>1 DEF q_scan_boxes
    <2>2. e.path = f /\ e.action = "d" /\ e.type = ""
      BY <2>1 DEF Entry
    <2>3. e \in Entries
      BY <1>1, BoxesTyped
    <2>4. f \notin Attached
      BY KindsAssumption
    <2> QED BY <2>1, <2>2, <2>3, <2>4 DEF Plain
  <1>2. Parted(q_scan_boxes(d))
    BY <1>1 DEF Parted
  <1> QED BY <1>1, <1>2

LEMMA AddrsPlain ==
    ASSUME NEW d
    PROVE  /\ \A e \in q_scan_addrs(d) : e \in Plain /\ e.path \notin Responses
           /\ Parted(q_scan_addrs(d)) /\ IsFiniteSet(q_scan_addrs(d))
  <1>1. q_scan_addrs(d) = q_add_dir(d) \cup q_scan_boxes(d)
    BY DEF q_scan_addrs
  <1>2. ASSUME NEW e \in q_add_dir(d)
        PROVE  /\ e \in Plain
               /\ \/ e.path \in Packets /\ e = Entry(e.path, "m", "d", 1)
                  \/ e.path \in Requests /\ e = Entry(e.path, "r", "s", 1)
                  \/ e.path = FLO /\ e = Entry(FLO, "l", "d", 1)
    <2>1. e \in Entries
      BY <1>2, DirTyped
    <2>2. CASE \E f \in Packets : e = Entry(f, "m", "d", 1)
      <3>1. PICK f \in Packets : e = Entry(f, "m", "d", 1)
        BY <2>2
      <3>2. e.path = f /\ e.type = "m" /\ e.action = "d"
        BY <3>1 DEF Entry
      <3> QED BY <2>1, <3>1, <3>2, KindsAssumption DEF Plain
    <2>3. CASE \E f \in Requests : e = Entry(f, "r", "s", 1)
      <3>1. PICK f \in Requests : e = Entry(f, "r", "s", 1)
        BY <2>3
      <3>2. e.path = f /\ e.type = "r"
        BY <3>1 DEF Entry
      <3>3. f \notin Attached /\ f \notin Boxed
        BY KindsAssumption
      <3> QED BY <2>1, <3>1, <3>2, <3>3 DEF Plain
    <2>4. CASE e = Entry(FLO, "l", "d", 1)
      <3>1. e.path = FLO /\ e.type = "l" /\ e.action = "d" /\ FLO \notin Attached
        BY <2>4, OutboundAssumption DEF Entry, Files
      <3> QED BY <2>1, <2>4, <3>1 DEF Plain
    <2> QED BY <1>2, <2>2, <2>3, <2>4 DEF q_add_dir
  <1>3. ASSUME NEW e \in q_scan_boxes(d)
        PROVE  e \in Plain /\ e.path \in Boxed /\ e = Entry(e.path, "", "d", 2)
    <2>1. PICK f \in Boxed : e = Entry(f, "", "d", 2)
      BY <1>3 DEF q_scan_boxes
    <2>2. e.path = f
      BY <2>1 DEF Entry
    <2> QED BY <1>3, <2>1, <2>2, BoxesPlain
  <1>4. FLO \notin Packets \cup Requests \cup Boxed \cup Responses
    BY OutboundAssumption DEF Files
  <1>5. \A e \in q_scan_addrs(d) : e \in Plain /\ e.path \notin Responses
    BY <1>1, <1>2, <1>3, <1>4, KindsAssumption
  <1>6. ASSUME NEW a \in q_scan_addrs(d), NEW b \in q_scan_addrs(d), a.path = b.path PROVE a = b
    <2>1. CASE a \in q_scan_boxes(d)
      <3>1. a.path \in Boxed /\ a = Entry(a.path, "", "d", 2)
        BY <2>1, <1>3
      <3>2. b \in q_scan_boxes(d)
        BY <3>1, <1>1, <1>2, <1>4, <1>6, KindsAssumption
      <3> QED BY <3>1, <3>2, <1>3, <1>6
    <2>2. CASE a \notin q_scan_boxes(d)
      <3>1. a \in q_add_dir(d)
        BY <2>2, <1>1
      <3>2. a.path \notin Boxed
        BY <3>1, <1>2, <1>4, KindsAssumption
      <3>3. b \in q_add_dir(d)
        BY <3>2, <1>1, <1>3, <1>6
      <3>4. (a.path \in Packets \/ a.path \in Requests \/ a.path = FLO) /\ a.path = b.path
        BY <3>1, <1>2, <1>6
      <3>5. /\ a.path \in Packets => a.path \notin Requests /\ a.path # FLO
            /\ a.path \in Requests => a.path \notin Packets /\ a.path # FLO
        BY <1>4, KindsAssumption
      <3> QED BY <3>1, <3>3, <3>4, <3>5, <1>2
    <2> QED BY <2>1, <2>2
  <1>7. Parted(q_scan_addrs(d))
    BY <1>6 DEF Parted
  <1>8. IsFiniteSet(q_scan_addrs(d))
    BY <1>1, BoxesTyped, DirTyped, FS_Union
  <1> QED BY <1>5, <1>7, <1>8

-----------------------------------------------------------------------------
(* What steps have in common. *)

Less(q2, q) ==
    \A i \in 1..Len(q2) : \E j \in 1..Len(q) :
        q2[i].path = q[j].path /\ (~q2[i].sent => ~q[j].sent)

LEMMA LessQueued ==
    ASSUME NEW q2, NEW q, Less(q2, q), NEW f, Queued(q2, f)
    PROVE  Queued(q, f)
  BY DEF Less, Queued

(* s2 is s with fewer files, or other marks, in the queue. *)
Like(s2, s) ==
    /\ s2.pos = s.pos /\ s2.out = s.out /\ s2.sent = s.sent
    /\ s2.nosendlist = s.nosendlist /\ s2.r_skipped = s.r_skipped
    /\ s2.rcvd = s.rcvd /\ s2.rcvdlist = s.rcvdlist
    /\ s2.q \in Seq(Plain) /\ Unlike(s2.q) /\ Less(s2.q, s.q)
    /\ s2.local_EOB = TRUE => s.local_EOB = TRUE \/ s2.q = <<>>

LEMMA LikeFits ==
    ASSUME NEW s, NEW s2, NEW ans, NEW lines, NEW d, NEW ws, Fits(s, ans, lines, d, ws), Like(s2, s)
    PROVE  Fits(s2, ans, lines, d, ws)
  <1>1. \A f : Queued(s2.q, f) => Queued(s.q, f)
    BY LessQueued DEF Like
  <1>2. Shape(s2)
    <2>1. ASSUME s2.local_EOB = TRUE, NEW i \in 1..Len(s2.q) PROVE s2.q[i].path \in Responses
      <3>1. CASE s2.q = <<>>
        <4>1. Len(s2.q) = 0
          BY <3>1
        <4> QED BY <4>1
      <3>2. CASE s2.q # <<>>
        <4>1. s.local_EOB = TRUE
          BY <2>1, <3>2 DEF Like
        <4>2. PICK j \in 1..Len(s.q) : s2.q[i].path = s.q[j].path
          BY DEF Like, Less
        <4> QED BY <4>1, <4>2 DEF Fits, Shape
      <3> QED BY <3>1, <3>2
    <2> QED BY <2>1, <1>1 DEF Fits, Shape, Like
  <1>3. \A f : /\ Used(f, s2, ans) <=> Used(f, s, ans)
               /\ Open(s2, f) <=> Open(s, f)
               /\ Ahead(f, s2, lines) => Ahead(f, s, lines)
    BY <1>1 DEF Used, Open, Ahead, Like
  <1>4. Apart(s2, ans)
    BY <1>3 DEF Fits, Apart, Like
  <1>5. NotAgain(s2, ans, lines)
    BY <1>1, <1>3 DEF Fits, NotAgain, Like
  <1>6. Going(s2, ans, d, ws)
    BY DEF Fits, Going, Like
  <1>7. ASSUME Requested(s) PROVE Requested(s2)
    <2>1. ASSUME NEW i \in 1..Len(s2.q), s2.q[i].path \in Responses
          PROVE  s2.rcvd = 1 /\ s2.rcvdlist = 0
      <3>1. PICK j \in 1..Len(s.q) : s2.q[i].path = s.q[j].path
        BY DEF Like, Less
      <3> QED BY <1>7, <2>1, <3>1 DEF Requested, Like
    <2> QED BY <1>7, <2>1 DEF Requested, Like
  <1> QED BY <1>2, <1>4, <1>5, <1>6, <1>7 DEF Fits

(* A hook leaves some entries of the queue. *)
LEMMA RefreshLess ==
    ASSUME NEW old \in Seq(Plain), Unlike(old), NEW q \in refresh_queue(old)
    PROVE  q \in Seq(Plain) /\ Unlike(q) /\ Less(q, old) /\ Among(q, old, Len(old))
  <1>1. PICK S \in SUBSET Range(old) : q = Only(old, S)
    BY DEF refresh_queue
  <1>2. q \in Seq(Plain)
    BY <1>1, OnlyTyped
  <1>3. Among(q, old, Len(old)) /\ Unlike(q)
    BY <1>1, OnlyList
  <1>4. Less(q, old)
    BY <1>3 DEF Less, Among
  <1> QED BY <1>2, <1>3, <1>4

LEMMA SameLess ==
    ASSUME NEW q
    PROVE  Less(q, q)
  BY DEF Less

(* While no write is pending, what does not go by one is gone already. *)
LEMMA GoingOn ==
    ASSUME NEW s, NEW ans, NEW d, NEW ws, Going(s, ans, d, <<>>)
    PROVE  Going(s, ans, d, ws)
  <1>1. \A f : ~Goes(<<>>, f)
    <2>1. Len(<<>>) = 0
      OBVIOUS
    <2> QED BY <2>1 DEF Goes
  <1> QED BY <1>1 DEF Going

LEMMA WritesFit ==
    ASSUME NEW s, NEW ans, NEW lines, NEW d, NEW ws,
           Fits(s, ans, lines, d, <<>>), Removals(ws)
    PROVE  Fits(s, ans, lines, d, ws)
  BY GoingOn DEF Fits

(* The removal of a file. *)
LEMMA Sequence ==
    ASSUME NEW T, NEW x \in T
    PROVE  <<>> \in Seq(T) /\ <<x>> \in Seq(T)
  OBVIOUS

LEMMA RemovalFits ==
    ASSUME NEW t \in Handed
    PROVE  /\ Removals(remove_from_spool(t))
           /\ t.path \in Boxed => Goes(remove_from_spool(t), t.path)
  <1> DEFINE mark == Mark(t.path)  act == Act(t.path, t.action)
             T == {mark, Unlink, act}
             last == IF sess.pos = 0 THEN <<Unlink>> ELSE <<>>
             ws == remove_from_spool(t)
  <1>1. t \in Transfers /\ (t.path \in Boxed => t.action = "d" /\ ~t.flo) /\ t.flo \in BOOLEAN
    BY DEF Handed, Transfers
  <1>2. /\ mark.op = "mark" /\ Unlink.op = "unlink" /\ act.op = "act"
        /\ act.file = t.path /\ act.action = t.action
    BY DEF Mark, Unlink, Act
  <1>3. ~t.flo => ws = <<act>>
    BY DEF remove_from_spool
  <1>4. ws \in Seq(T)
    <2>1. CASE ~t.flo
      BY <2>1, <1>3
    <2>2. CASE t.flo
      <3>1. ws = <<>> \/ ws = <<mark>> \o last \o <<act>>
        BY <2>2 DEF remove_from_spool
      <3>2. mark \in T /\ Unlink \in T /\ act \in T
        OBVIOUS
      <3>3. last = <<>> \/ last = <<Unlink>>
        OBVIOUS
      <3> HIDE DEF last, mark, act, ws, T
      <3>4. last \in Seq(T) /\ <<mark>> \in Seq(T) /\ <<act>> \in Seq(T) /\ <<>> \in Seq(T)
        BY <3>2, <3>3, Sequence
      <3>5. <<mark>> \o last \in Seq(T)
        BY <3>4
      <3>6. <<mark>> \o last \o <<act>> \in Seq(T)
        BY <3>4, <3>5
      <3> QED BY <3>1, <3>4, <3>6
    <2> QED BY <2>1, <2>2, <1>1
  <1>5. ASSUME NEW i \in 1..Len(ws), ws[i].op = "act", ws[i].file \in Boxed PROVE ws[i].action = "d"
    <2> HIDE DEF mark, act, ws
    <2>1. ws[i] \in T
      <3> HIDE DEF T
      <3> QED BY <1>4
    <2>2. ws[i] = act
      BY <2>1, <1>2, <1>5
    <2> QED BY <2>2, <1>1, <1>2, <1>5
  <1>6. Removals(ws)
    BY <1>5 DEF Removals
  <1>7. ASSUME t.path \in Boxed PROVE Goes(ws, t.path)
    <2>1. ws = <<Act(t.path, "d")>>
      BY <1>1, <1>3, <1>7
    <2> HIDE DEF ws
    <2>2. 1 \in 1..Len(ws) /\ ws[1] = Act(t.path, "d")
      BY <2>1
    <2> QED BY <2>2 DEF Goes
  <1> QED BY <1>6, <1>7

LEMMA OneFits ==
    ASSUME NEW w, w.op # "act"
    PROVE  Removals(<<w>>)
  BY DEF Removals

LEMMA NoneFits == Removals(<<>>)
  <1>1. Len(<<>>) = 0
    OBVIOUS
  <1> QED BY <1>1 DEF Removals

LEMMA NewFits ==
    ASSUME NEW lines, NEW d, OneLine(lines)
    PROVE  Fits(NewSession, {}, lines, d, <<>>)
  <1> DEFINE s == NewSession
  <1>1. /\ s.q = <<>> /\ s.pos = 0 /\ s.out = NoFile /\ s.sent = <<>> /\ s.rcvd = 0 /\ s.rcvdlist = 0
        /\ Len(s.q) = 0 /\ Len(s.sent) = 0
    BY DEF NewSession
  <1>2. s.q \in Seq(Plain) /\ s.sent \in Seq(Handed)
    BY <1>1
  <1> HIDE DEF s
  <1>3. Shape(s)
    BY <1>1, <1>2 DEF Shape, Unlike
  <1>4. Apart(s, {}) /\ NotAgain(s, {}, lines)
    BY <1>1 DEF Apart, NotAgain, Used, Open, Has
  <1>5. Requested(s)
    BY <1>1 DEF Requested
  <1> QED BY <1>3, <1>4, <1>5, NoneFits DEF Fits, Going, s

(* What the invariant of the mail says. *)
LEMMA SessionTyped ==
    ASSUME KeptInv
    PROVE  /\ DOMAIN sess = Fields /\ sess.pos \in Nat /\ sess.q \in Seq(Entries)
           /\ flo \in Seq(Lines) /\ Len(flo) \in Nat /\ DOMAIN flo = 1..Len(flo)
           /\ \A i \in 1..Len(flo) : flo[i].file \in Attached
           /\ todo \in Seq(Writes) /\ disk \in [Files \cup {FLO} -> Sizes]
           /\ ph = "none" => todo = <<>>
  <1>1. flo \in Seq(Lines)
    BY DEF KeptInv, Typed
  <1>2. \A i \in 1..Len(flo) : flo[i] \in Lines
    BY <1>1
  <1>3. \A i \in 1..Len(flo) : flo[i].file \in Attached
    BY <1>2 DEF Lines
  <1>4. DOMAIN flo = 1..Len(flo) /\ Len(flo) \in Nat
    BY <1>1
  <1> QED BY <1>1, <1>3, <1>4 DEF KeptInv, Typed, Held, Pending

-----------------------------------------------------------------------------
(* The steps. *)

(* Nothing was sent yet. *)
LEMMA FreshFits ==
    ASSUME NEW s, NEW lines, NEW d, OneLine(lines),
           s.q \in Seq(Plain), Unlike(s.q), s.pos = 0, s.out = NoFile, s.sent = <<>>,
           s.local_EOB = FALSE, s.rcvd = 0, s.rcvdlist = 0,
           \A i \in 1..Len(s.q) : s.q[i].path \notin Responses
    PROVE  Fits(s, {}, lines, d, <<>>)
  <1>1. Len(s.sent) = 0 /\ s.sent \in Seq(Handed)
    OBVIOUS
  <1>2. Shape(s)
    BY <1>1 DEF Shape, Unlike
  <1>3. Apart(s, {}) /\ NotAgain(s, {}, lines)
    BY <1>1 DEF Apart, NotAgain, Used, Open, Has
  <1>4. Requested(s)
    BY DEF Requested
  <1> QED BY <1>2, <1>3, <1>4, NoneFits DEF Fits, Going

LEMMA LoginFits == ASSUME KeptInv, AnswerInv, complete_login PROVE AnswerInv'
  <1>1. PICK q \in Scans(q_scan_addrs(disk), <<>>), v10 \in BOOLEAN :
          \E perl \in perl_after_handshake(q) :
            /\ sess' = [NewSession EXCEPT !.q = perl.q, !.v10 = v10, !.delay_EOB = v10]
            /\ ph' = perl.ph
    BY DEF complete_login
  <1>2. PICK perl \in perl_after_handshake(q) :
            /\ sess' = [NewSession EXCEPT !.q = perl.q, !.v10 = v10, !.delay_EOB = v10]
            /\ ph' = perl.ph
    BY <1>1
  <1>3. /\ ph = "none" /\ todo = <<>> /\ answered' = {} /\ UNCHANGED <<disk, flo, todo>>
    BY SessionTyped DEF complete_login
  <1> DEFINE set == q_scan_addrs(disk)
  <1>4. /\ \A e \in set : e \in Plain /\ e.path \notin Responses
        /\ Parted(set) /\ IsFiniteSet(set) /\ set \subseteq Entries
    BY AddrsPlain DEF Plain
  <1>5. Unlike(q) /\ Drawn(q, set, <<>>) /\ q \in Seq(Entries)
    <2>1. <<>> \in Seq(Entries) /\ Len(<<>>) = 0
      OBVIOUS
    <2>2. Unlike(<<>>) /\ Strange(set, <<>>)
      BY <2>1 DEF Unlike, Strange, Has
    <2> HIDE DEF set
    <2>3. q \in Scans(set, <<>>)
      BY DEF set
    <2> QED BY <1>4, <2>1, <2>2, <2>3, ScanList, ScansTyped
  <1>6. \A i \in 1..Len(q) : q[i] \in Plain /\ q[i].path \notin Responses
    <2>1. \A i \in 1..Len(q) : q[i] \in set
      <3>1. Len(<<>>) = 0
        OBVIOUS
      <3> QED BY <3>1, <1>5 DEF Drawn
    <2> QED BY <2>1, <1>4
  <1>7. q \in Seq(Plain)
    BY <1>5, <1>6
  <1>8. perl.q = q \/ perl.q \in refresh_queue(q)
    BY <1>2 DEF perl_after_handshake
  <1>9. perl.ph \in {"up", "fail"}
    BY <1>2 DEF perl_after_handshake
  <1> DEFINE p == perl.q
  <1>10. p \in Seq(Plain) /\ Unlike(p) /\ \A i \in 1..Len(p) : p[i].path \notin Responses
    <2>1. CASE p = q
      BY <2>1, <1>5, <1>6, <1>7
    <2>2. CASE p \in refresh_queue(q)
      BY <2>2, <1>5, <1>6, <1>7, RefreshLess DEF Among
    <2> QED BY <2>1, <2>2, <1>8
  <1>11. /\ sess'.q = p /\ sess'.pos = 0 /\ sess'.out = NoFile /\ sess'.sent = <<>>
         /\ sess'.local_EOB = FALSE /\ sess'.rcvd = 0 /\ sess'.rcvdlist = 0
    BY <1>2 DEF NewSession
  <1>12. OneLine(flo)
    BY DEF AnswerInv, Fits
  <1> HIDE DEF p
  <1>13. Fits(sess', {}, flo, disk, <<>>)
    BY <1>10, <1>11, <1>12, FreshFits
  <1> QED BY <1>2, <1>3, <1>9, <1>13 DEF AnswerInv

(* Steps that change nothing of this. *)
LEMMA QuietFits ==
    ASSUME KeptInv, AnswerInv, RemoteEOB \/ LocalEOB \/ Drop \/ (\E f \in Files : RemoteTakes(f))
    PROVE  AnswerInv'
  <1>1. UNCHANGED <<disk, flo, todo, answered>> /\ ph' # "none"
    BY DEF RemoteEOB, LocalEOB, Drop, RemoteTakes, Idle
  <1>2. sess.q \in Seq(Plain) /\ Unlike(sess.q) /\ DOMAIN sess = Fields
    BY SessionTyped DEF AnswerInv, Fits, Shape
  <1>3. Like(sess', sess)
    <2>1. CASE RemoteEOB
      <3>1. sess' = [sess EXCEPT !.remote_EOB = TRUE, !.delay_EOB = FALSE]
        BY <2>1 DEF RemoteEOB
      <3> QED BY <3>1, <1>2, SameLess DEF Like, Fields
    <2>2. CASE LocalEOB
      <3>1. sess' = [sess EXCEPT !.q = <<>>, !.local_EOB = TRUE]
        BY <2>2 DEF LocalEOB
      <3>2. <<>> \in Seq(Plain) /\ Unlike(<<>>) /\ Less(<<>>, sess.q)
        <4>1. Len(<<>>) = 0
          OBVIOUS
        <4> QED BY <4>1 DEF Unlike, Less
      <3> QED BY <3>1, <3>2, <1>2 DEF Like, Fields
    <2>3. CASE Drop \/ (\E f \in Files : RemoteTakes(f))
      <3>1. sess' = sess
        BY <2>3 DEF Drop, RemoteTakes
      <3> QED BY <3>1, <1>2, SameLess DEF Like
    <2> QED BY <2>1, <2>2, <2>3
  <1>4. Fits(sess', answered, flo, disk, todo)
    BY <1>3, LikeFits DEF AnswerInv
  <1> QED BY <1>1, <1>4 DEF AnswerInv

(* The session ends. *)
LEMMA EndFits ==
    ASSUME KeptInv, AnswerInv, EndSession \/ NullLine \/ Crash
    PROVE  AnswerInv'
  <1>1. flo' = flo /\ todo' = <<>> /\ sess' = NewSession /\ answered' = {}
    BY DEF EndSession, NullLine, Crash, Killing
  <1>2. OneLine(flo)
    BY DEF AnswerInv, Fits
  <1>3. Fits(NewSession, {}, flo, disk', <<>>)
    BY <1>2, NewFits
  <1> QED BY <1>1, <1>3 DEF AnswerInv

(* A file was read to its end. *)
LEMMA SendFileFits == ASSUME KeptInv, AnswerInv, SendFile PROVE AnswerInv'
  <1> DEFINE t == sess.out  sent == Append(sess.sent, t)
  <1>1. /\ t # NoFile /\ ph = "up"
        /\ sess' = [sess EXCEPT !.sent = sent, !.out = NoFile]
        /\ UNCHANGED <<disk, flo, ph, todo, answered>>
    BY DEF SendFile, Idle
  <1>2. /\ sess.sent \in Seq(Handed) /\ Unlike(sess.sent) /\ t \in Handed
        /\ DOMAIN sess = Fields
    BY <1>1, SessionTyped DEF AnswerInv, Fits, Shape
  <1>3. t.path \in Once => ~Has(sess.sent, t.path) /\ t.path \notin answered
    BY <1>1 DEF AnswerInv, Fits, Apart, Open
  <1>4. /\ sess'.q = sess.q /\ sess'.pos = sess.pos /\ sess'.out = NoFile /\ sess'.sent = sent
        /\ sess'.nosendlist = sess.nosendlist /\ sess'.r_skipped = sess.r_skipped
        /\ sess'.rcvd = sess.rcvd /\ sess'.rcvdlist = sess.rcvdlist
        /\ sess'.local_EOB = sess.local_EOB
    BY <1>1, <1>2 DEF Fields
  <1>5. sent \in Seq(Handed) /\ Unlike(sent)
    BY <1>2, <1>3, AppendUnlike
  <1>6. \A f : Has(sent, f) <=> Has(sess.sent, f) \/ t.path = f
    <2>1. /\ Len(sent) = Len(sess.sent) + 1 /\ sent[Len(sess.sent) + 1] = t /\ Len(sess.sent) \in Nat
          /\ \A i \in 1..Len(sess.sent) : sent[i] = sess.sent[i]
      BY <1>2
    <2>2. \A i \in 1..Len(sent) : i \in 1..Len(sess.sent) \/ i = Len(sess.sent) + 1
      BY <2>1
    <2>3. /\ \A i \in 1..Len(sess.sent) : i \in 1..Len(sent)
          /\ Len(sess.sent) + 1 \in 1..Len(sent)
      BY <2>1
    <2> HIDE DEF sent, t
    <2> QED BY <2>1, <2>2, <2>3 DEF Has
  <1> HIDE DEF sent
  <1>7. Shape(sess')
    BY <1>4, <1>5 DEF AnswerInv, Fits, Shape
  <1>8. \A f : /\ Used(f, sess', answered) <=> Used(f, sess, answered)
               /\ ~Open(sess', f)
               /\ Has(sess'.sent, f) <=> Has(sess.sent, f) \/ Open(sess, f)
               /\ Ahead(f, sess', flo) <=> Ahead(f, sess, flo)
    BY <1>1, <1>4, <1>6 DEF Used, Open, Ahead
  <1>9. Apart(sess', answered)
    BY <1>8 DEF AnswerInv, Fits, Apart
  <1>10. NotAgain(sess', answered, flo)
    BY <1>4, <1>8 DEF AnswerInv, Fits, NotAgain
  <1>11. Going(sess', answered, disk, todo) /\ (Requested(sess) => Requested(sess'))
    BY <1>4 DEF AnswerInv, Fits, Going, Requested
  <1>12. Fits(sess', answered, flo, disk, todo)
    BY <1>7, <1>9, <1>10, <1>11 DEF AnswerInv, Fits
  <1> QED BY <1>1, <1>12 DEF AnswerInv

(* M_GOT: the file is answered, and its removal is to come. *)
LEMMA GOTFits == ASSUME KeptInv, AnswerInv, NEW f \in Files, GOT(f) PROVE AnswerInv'
  <1>1. /\ ph = "up" /\ todo = <<>> /\ UNCHANGED <<disk, flo, ph>>
        /\ answered' = answered \cup {f}
    BY DEF GOT, Idle
  <1>2. /\ sess.sent \in Seq(Handed) /\ Unlike(sess.sent) /\ sess.out \in Handed \cup {NoFile}
        /\ DOMAIN sess = Fields
    BY SessionTyped DEF AnswerInv, Fits, Shape
  (* What both cases come to. *)
  <1>3. ASSUME NEW t \in Handed, t.path = f, todo' = remove_from_spool(t),
               sess'.q = sess.q, sess'.pos = sess.pos, sess'.nosendlist = sess.nosendlist,
               sess'.r_skipped = sess.r_skipped, sess'.rcvd = sess.rcvd,
               sess'.rcvdlist = sess.rcvdlist, sess'.local_EOB = sess.local_EOB,
               sess'.out \in {NoFile, sess.out}, sess'.sent \in Seq(Handed), Unlike(sess'.sent),
               Used(f, sess, answered), f \in Once => ~Has(sess'.sent, f), ~Open(sess', f),
               \A g : Has(sess'.sent, g) => Has(sess.sent, g)
        PROVE  AnswerInv'
    <2>1. Shape(sess')
      BY <1>2, <1>3 DEF AnswerInv, Fits, Shape
    <2>2. \A g : Open(sess', g) => Open(sess, g)
      BY <1>3 DEF Open
    <2>3. \A g : /\ Used(g, sess', answered') => Used(g, sess, answered)
                 /\ Ahead(g, sess', flo) <=> Ahead(g, sess, flo)
      <3>1. \A g : Used(g, sess', answered') => Used(g, sess, answered)
        BY <1>1, <1>3, <2>2 DEF Used
      <3>2. \A g : Ahead(g, sess', flo) <=> Ahead(g, sess, flo)
        BY <1>3 DEF Ahead
      <3> QED BY <3>1, <3>2
    <2>4. Apart(sess', answered')
      BY <1>1, <1>3, <2>2 DEF AnswerInv, Fits, Apart
    <2>5. NotAgain(sess', answered', flo)
      BY <1>3, <2>3 DEF AnswerInv, Fits, NotAgain
    <2>6. ASSUME NEW g \in answered' \cap Boxed
          PROVE  \/ sess'.r_skipped = TRUE \/ g \in sess'.nosendlist \/ disk[g] = "none"
                 \/ Goes(todo', g)
      <3>1. CASE g = f
        BY <3>1, <1>3, <2>6, RemovalFits
      <3>2. CASE g # f
        <4>1. Going(sess, answered, disk, todo')
          BY <1>1, GoingOn DEF AnswerInv, Fits
        <4> QED BY <3>2, <4>1, <1>1, <1>3, <2>6 DEF Going
      <3> QED BY <3>1, <3>2
    <2>7. Going(sess', answered', disk, todo')
      BY <2>6 DEF Going
    <2>8. Removals(todo')
      BY <1>3, RemovalFits
    <2>9. Requested(sess) => Requested(sess')
      BY <1>3 DEF Requested
    <2>10. Fits(sess', answered', flo, disk, todo')
      BY <2>1, <2>4, <2>5, <2>7, <2>8, <2>9 DEF AnswerInv, Fits
    <2> QED BY <1>1, <2>10 DEF AnswerInv
  <1>4. CASE /\ sess.out # NoFile /\ sess.out.path = f
             /\ todo' = remove_from_spool(sess.out)
             /\ sess' = [sess EXCEPT !.out = NoFile, !.busy = TRUE]
    <2>1. sess.out \in Handed /\ Used(f, sess, answered)
      BY <1>2, <1>4 DEF Used, Open
    <2>2. f \in Once => ~Has(sess.sent, f)
      BY <1>4 DEF AnswerInv, Fits, Apart, Open
    <2>3. /\ sess'.q = sess.q /\ sess'.pos = sess.pos /\ sess'.nosendlist = sess.nosendlist
          /\ sess'.r_skipped = sess.r_skipped /\ sess'.rcvd = sess.rcvd
          /\ sess'.rcvdlist = sess.rcvdlist /\ sess'.local_EOB = sess.local_EOB
          /\ sess'.out = NoFile /\ sess'.sent = sess.sent
      BY <1>2, <1>4 DEF Fields
    <2>4. ~Open(sess', f)
      BY <2>3 DEF Open
    <2> QED BY <1>2, <1>3, <1>4, <2>1, <2>2, <2>3, <2>4
  <1>5. CASE /\ sess.out = NoFile \/ sess.out.path # f
             /\ Offered(f)
             /\ LET n == CHOOSE i \in DOMAIN sess.sent : sess.sent[i].path = f IN
                 /\ \E t \in perl_after_sent(sess.sent[n]) : todo' = remove_from_spool(t)
                 /\ sess' = [sess EXCEPT !.sent = remove_from_sent_files_queue(@, n), !.busy = TRUE]
    <2> DEFINE n == CHOOSE i \in DOMAIN sess.sent : sess.sent[i].path = f
               sent == RemoveAt(sess.sent, n)
    <2>1. n \in 1..Len(sess.sent) /\ sess.sent[n].path = f
      BY <1>2, <1>5 DEF Offered
    <2>2. PICK t \in perl_after_sent(sess.sent[n]) : todo' = remove_from_spool(t)
      BY <1>5
    <2>3. sess' = [sess EXCEPT !.sent = sent, !.busy = TRUE]
      BY <1>5 DEF remove_from_sent_files_queue
    <2> HIDE DEF n
    <2>4. sess.sent[n] \in Handed
      BY <1>2, <2>1
    <2>5. t \in Handed /\ t.path = f
      <3>1. \/ t = sess.sent[n]
            \/ sess.sent[n].path \notin Boxed /\ t = [sess.sent[n] EXCEPT !.action = "0"]
        BY <2>2 DEF perl_after_sent
      <3>2. CASE t = sess.sent[n]
        BY <3>2, <2>1, <2>4
      <3>3. CASE sess.sent[n].path \notin Boxed /\ t = [sess.sent[n] EXCEPT !.action = "0"]
        BY <3>3, <2>1, <2>4 DEF Handed, Transfers, Kind, Actions
      <3> QED BY <3>1, <3>2, <3>3
    <2>6. sent \in Seq(Handed) /\ Unlike(sent) /\ Others(sent, sess.sent, n)
      BY <1>2, <2>1, RemoveTyped, RemoveList
    <2> HIDE DEF sent
    <2>7. \A g : Has(sent, g) => Has(sess.sent, g)
      BY <2>6 DEF Has, Others
    <2>8. f \in Once => ~Has(sent, f)
      BY <1>2, <2>1, <2>6 DEF Has, Unlike, Others
    <2>9. Used(f, sess, answered)
      BY <2>1 DEF Used, Has
    <2>10. /\ sess'.q = sess.q /\ sess'.pos = sess.pos /\ sess'.nosendlist = sess.nosendlist
           /\ sess'.r_skipped = sess.r_skipped /\ sess'.rcvd = sess.rcvd
           /\ sess'.rcvdlist = sess.rcvdlist /\ sess'.local_EOB = sess.local_EOB
           /\ sess'.out = sess.out /\ sess'.sent = sent
      BY <1>2, <2>3 DEF Fields
    <2>11. ~Open(sess', f)
      BY <1>5, <2>10 DEF Open
    <2> QED BY <1>3, <2>2, <2>5, <2>6, <2>7, <2>8, <2>9, <2>10, <2>11
  <1> QED BY <1>4, <1>5 DEF GOT

(* M_SKIP: the fileboxes are not scanned again in this session. *)
LEMMA SKIPFits == ASSUME KeptInv, AnswerInv, NEW f \in Files, SKIP(f) PROVE AnswerInv'
  <1> DEFINE K == {t \in Range(sess.sent) : t.path # f}
             sent == Only(sess.sent, K)
             out == IF sess.out.path = f THEN NoFile ELSE sess.out
  <1>1. /\ sess' = [sess EXCEPT !.sent = sent, !.busy = TRUE, !.out = out, !.r_skipped = TRUE]
        /\ ph = "up" /\ UNCHANGED <<disk, flo, ph, todo>>
        /\ answered' = answered \cup {f}
        /\ Offered(f) \/ sess.out.path = f
    BY DEF SKIP, Idle
  <1>2. /\ sess.sent \in Seq(Handed) /\ Unlike(sess.sent) /\ sess.out \in Handed \cup {NoFile}
        /\ DOMAIN sess = Fields
    BY SessionTyped DEF AnswerInv, Fits, Shape
  <1>3. /\ sent \in Seq(Handed) /\ Unlike(sent) /\ Among(sent, sess.sent, Len(sess.sent))
        /\ \A i \in 1..Len(sent) : sent[i] \in K
    <2> HIDE DEF K
    <2> QED BY <1>2, OnlyTyped, OnlyList
  <1>4. ~Has(sent, f) /\ \A g : Has(sent, g) => Has(sess.sent, g)
    <2>1. \A i \in 1..Len(sent) : sent[i].path # f
      BY <1>3
    <2>2. \A i \in 1..Len(sent) : \E j \in 1..Len(sess.sent) : sent[i] = sess.sent[j]
      BY <1>3 DEF Among
    <2> HIDE DEF sent
    <2> QED BY <2>1, <2>2 DEF Has
  <1>5. /\ sess'.q = sess.q /\ sess'.pos = sess.pos /\ sess'.nosendlist = sess.nosendlist
        /\ sess'.r_skipped = TRUE /\ sess'.rcvd = sess.rcvd
        /\ sess'.rcvdlist = sess.rcvdlist /\ sess'.local_EOB = sess.local_EOB
        /\ sess'.out = out /\ sess'.sent = sent
    <2> HIDE DEF out, sent
    <2> QED BY <1>1, <1>2 DEF Fields
  <1>6. Used(f, sess, answered)
    <2>1. CASE Offered(f)
      BY <2>1, <1>2 DEF Offered, Used, Has
    <2>2. CASE sess.out.path = f
      <3>1. NoFile.path = FLO /\ FLO \notin Files
        BY OutboundAssumption DEF NoFile
      <3> QED BY <2>2, <3>1 DEF Used, Open
    <2> QED BY <2>1, <2>2, <1>1
  <1>7. /\ \A g : Open(sess', g) => Open(sess, g) /\ g # f
        /\ out \in Handed \cup {NoFile}
    BY <1>2, <1>5 DEF Open
  <1> HIDE DEF out, sent
  <1>8. Shape(sess')
    BY <1>3, <1>5, <1>7 DEF AnswerInv, Fits, Shape
  <1>9. \A g : /\ Used(g, sess', answered') => Used(g, sess, answered)
               /\ Ahead(g, sess', flo) <=> Ahead(g, sess, flo)
    <2>1. \A g : Used(g, sess', answered') => Used(g, sess, answered)
      BY <1>1, <1>4, <1>5, <1>6, <1>7 DEF Used
    <2>2. \A g : Ahead(g, sess', flo) <=> Ahead(g, sess, flo)
      BY <1>5 DEF Ahead
    <2> QED BY <2>1, <2>2
  <1>10. Apart(sess', answered')
    BY <1>1, <1>4, <1>5, <1>7 DEF AnswerInv, Fits, Apart
  <1>11. NotAgain(sess', answered', flo)
    BY <1>5, <1>9 DEF AnswerInv, Fits, NotAgain
  <1>12. Going(sess', answered', disk, todo) /\ (Requested(sess) => Requested(sess'))
    BY <1>5 DEF Going, Requested
  <1>13. Fits(sess', answered', flo, disk, todo)
    BY <1>8, <1>10, <1>11, <1>12 DEF AnswerInv, Fits
  <1> QED BY <1>1, <1>13 DEF AnswerInv

LEMMA TailFits ==
    ASSUME NEW ws \in Seq(Writes), ws # <<>>, Removals(ws)
    PROVE  /\ Removals(Tail(ws))
           /\ Head(ws).op = "act" /\ Head(ws).file \in Boxed => Head(ws).action = "d"
           /\ \A f : Goes(ws, f) => Head(ws) = Act(f, "d") \/ Goes(Tail(ws), f)
  <1> DEFINE w == Tail(ws)
  <1>1. /\ Len(ws) \in Nat /\ Len(ws) > 0 /\ Head(ws) = ws[1] /\ Len(w) = Len(ws) - 1
        /\ \A i \in 1..Len(w) : w[i] = ws[i + 1]
    OBVIOUS
  <1> HIDE DEF w
  <1>2. \A i \in 1..Len(w) : i + 1 \in 1..Len(ws)
    BY <1>1
  <1>3. Removals(w)
    BY <1>1, <1>2 DEF Removals
  <1>4. Head(ws).op = "act" /\ Head(ws).file \in Boxed => Head(ws).action = "d"
    <2>1. 1 \in 1..Len(ws)
      BY <1>1
    <2> QED BY <1>1, <2>1 DEF Removals
  <1>5. ASSUME NEW f, Goes(ws, f) PROVE Head(ws) = Act(f, "d") \/ Goes(w, f)
    <2>1. PICK i \in 1..Len(ws) : ws[i] = Act(f, "d")
      BY <1>5 DEF Goes
    <2>2. CASE i = 1
      BY <2>1, <2>2, <1>1
    <2>3. CASE i # 1
      <3>1. i - 1 \in 1..Len(w) /\ w[i - 1] = ws[i - 1 + 1] /\ i - 1 + 1 = i
        BY <2>3, <1>1
      <3> QED BY <2>1, <3>1 DEF Goes
    <2> QED BY <2>2, <2>3
  <1> QED BY <1>3, <1>4, <1>5 DEF w

(* Lines are only marked, or all go. *)
Marked(lines2, lines) ==
    \/ Len(lines2) = 0
    \/ /\ Len(lines2) = Len(lines)
       /\ \A i \in 1..Len(lines) : /\ lines2[i].file = lines[i].file
                                   /\ ~lines2[i].done => ~lines[i].done

LEMMA MarkedFits ==
    ASSUME NEW s, NEW ans, NEW lines, NEW lines2, Marked(lines2, lines),
           NotAgain(s, ans, lines), OneLine(lines)
    PROVE  NotAgain(s, ans, lines2) /\ OneLine(lines2)
  <1>1. CASE Len(lines2) = 0
    <2>1. \A f : ~Ahead(f, s, lines2)
      BY <1>1 DEF Ahead
    <2> QED BY <1>1, <2>1 DEF NotAgain, OneLine
  <1>2. CASE /\ Len(lines2) = Len(lines)
             /\ \A i \in 1..Len(lines) : /\ lines2[i].file = lines[i].file
                                         /\ ~lines2[i].done => ~lines[i].done
    <2>1. \A f : Ahead(f, s, lines2) => Ahead(f, s, lines)
      BY <1>2 DEF Ahead
    <2> QED BY <1>2, <2>1 DEF NotAgain, OneLine
  <1> QED BY <1>1, <1>2 DEF Marked

LEMMA WriteNextFits == ASSUME KeptInv, AnswerInv, WriteNext PROVE AnswerInv'
  <1> DEFINE w == Head(todo)
  <1>1. /\ todo # <<>> /\ todo' = Tail(todo) /\ UNCHANGED <<ph, answered>>
        /\ todo \in Seq(Writes) /\ ph # "none"
    BY SessionTyped DEF WriteNext
  <1>2. /\ Removals(todo')
        /\ w.op = "act" /\ w.file \in Boxed => w.action = "d"
        /\ \A f : Goes(todo, f) => w = Act(f, "d") \/ Goes(todo', f)
    BY <1>1, TailFits DEF AnswerInv, Fits
  <1>3. w \in Writes /\ Harmless(w, due) /\ disk \in [Files \cup {FLO} -> Sizes]
    BY <1>1, TailPending, SessionTyped DEF KeptInv
  <1>4. \A f : Act(f, "d").op = "act" /\ Act(f, "d").file = f
    BY DEF Act
  <1>5. DOMAIN flo = 1..Len(flo) /\ Len(flo) \in Nat /\ DOMAIN sess = Fields
    BY SessionTyped
  <1>6. CASE w.op \in {"mark", "unlink"}
    <2>1. UNCHANGED sess
      BY <1>6 DEF WriteNext
    <2>2. Marked(flo', flo)
      <3>1. CASE w.op = "mark"
        <4>1. flo' = [i \in DOMAIN flo |-> IF i \in Unmarked(w.file)
                         THEN [flo[i] EXCEPT !.done = TRUE] ELSE flo[i]]
          BY <3>1 DEF WriteNext
        <4>2. ASSUME NEW i \in 1..Len(flo)
              PROVE  flo'[i].file = flo[i].file /\ (~flo'[i].done => ~flo[i].done)
          <5>1. flo[i] \in Lines
            BY SessionTyped
          <5>2. CASE i \in Unmarked(w.file)
            <6>1. flo'[i] = [flo[i] EXCEPT !.done = TRUE]
              BY <4>1, <5>2, <1>5
            <6> QED BY <5>1, <6>1 DEF Lines
          <5>3. CASE i \notin Unmarked(w.file)
            BY <4>1, <5>3, <1>5
          <5> QED BY <5>2, <5>3
        <4>3. Len(flo') = Len(flo)
          BY <4>1, <1>5
        <4> QED BY <4>2, <4>3 DEF Marked
      <3>2. CASE w.op = "unlink"
        <4>1. flo' = <<>> \/ flo' = flo
          BY <3>2 DEF WriteNext
        <4>2. Len(<<>>) = 0
          OBVIOUS
        <4> QED BY <4>1, <4>2 DEF Marked
      <3> QED BY <3>1, <3>2, <1>6
    <2>3. \A f \in Boxed : disk'[f] = disk[f]
      <3>1. disk' = disk \/ disk' = [disk EXCEPT ![FLO] = "none"]
        BY <1>6 DEF WriteNext
      <3>2. FLO \notin Boxed /\ Boxed \subseteq Files
        BY OutboundAssumption DEF Files
      <3> QED BY <3>1, <3>2, <1>3
    <2>4. Going(sess, answered, disk', todo')
      <3>1. \A f : Goes(todo, f) => Goes(todo', f)
        BY <1>2, <1>4, <1>6
      <3> QED BY <2>3, <3>1 DEF AnswerInv, Fits, Going
    <2>5. NotAgain(sess, answered, flo') /\ OneLine(flo')
      BY <2>2, MarkedFits DEF AnswerInv, Fits
    <2> QED BY <2>1, <2>4, <2>5, <1>1, <1>2 DEF AnswerInv, Fits
  <1>7. CASE w.op = "act"
    <2>1. flo' = flo /\ w.file \in Files
      BY <1>3, <1>7 DEF WriteNext, Harmless
    <2>2. \/ /\ disk' = perform_action(w.file, w.action, disk)
             /\ sess' = IF w.action = "s"
                        THEN [sess EXCEPT !.killlist = @ \cup {<<w.file, "s">>}]
                        ELSE sess
          \/ /\ w.action = "d" /\ sess' = [sess EXCEPT !.nosendlist = @ \cup {w.file}]
             /\ disk' = disk
      BY <1>7 DEF WriteNext, Remember
    <2>3. /\ sess'.q = sess.q /\ sess'.pos = sess.pos /\ sess'.out = sess.out
          /\ sess'.sent = sess.sent /\ sess'.r_skipped = sess.r_skipped
          /\ sess'.rcvd = sess.rcvd /\ sess'.rcvdlist = sess.rcvdlist
          /\ sess'.local_EOB = sess.local_EOB
          /\ sess.nosendlist \subseteq sess'.nosendlist
      BY <2>2, <1>5 DEF Fields
    <2>4. ASSUME NEW f \in answered \cap Boxed
          PROVE  \/ sess'.r_skipped = TRUE \/ f \in sess'.nosendlist \/ disk'[f] = "none"
                 \/ Goes(todo', f)
      <3>1. f \in Files /\ f \in Boxed
        BY <2>4 DEF Files
      <3>2. CASE f = w.file
        <4>1. w.action = "d"
          BY <3>1, <3>2, <1>2, <1>7
        <4>2. CASE disk' = perform_action(w.file, w.action, disk)
          <5>1. disk' = [disk EXCEPT ![f] = "none"]
            BY <3>2, <4>1, <4>2 DEF perform_action
          <5> QED BY <5>1, <3>1, <1>3
        <4>3. CASE sess' = [sess EXCEPT !.nosendlist = @ \cup {w.file}]
          BY <3>2, <4>3, <1>5 DEF Fields
        <4> QED BY <2>2, <4>2, <4>3
      <3>3. CASE f # w.file
        <4>1. disk'[f] = disk[f]
          BY <2>1, <2>2, <3>1, <3>3, <1>3 DEF perform_action
        <4>2. Goes(todo, f) => Goes(todo', f)
          BY <1>2, <1>4, <3>3
        <4>3. \/ sess.r_skipped = TRUE \/ f \in sess.nosendlist \/ disk[f] = "none"
              \/ Goes(todo, f)
          BY <2>4 DEF AnswerInv, Fits, Going
        <4> QED BY <2>3, <4>1, <4>2, <4>3
      <3> QED BY <3>2, <3>3
    <2>5. Going(sess', answered, disk', todo')
      BY <2>4 DEF Going
    <2>6. Shape(sess') /\ (Requested(sess) => Requested(sess'))
      BY <2>3 DEF AnswerInv, Fits, Shape, Requested
    <2>7. \A f : /\ Used(f, sess', answered) <=> Used(f, sess, answered)
                 /\ Open(sess', f) <=> Open(sess, f)
                 /\ Ahead(f, sess', flo) <=> Ahead(f, sess, flo)
      BY <2>3 DEF Used, Open, Ahead
    <2>8. Apart(sess', answered) /\ NotAgain(sess', answered, flo)
      <3>1. Apart(sess', answered)
        BY <2>3, <2>7 DEF AnswerInv, Fits, Apart
      <3>2. NotAgain(sess', answered, flo)
        BY <2>3, <2>7 DEF AnswerInv, Fits, NotAgain
      <3> QED BY <3>1, <3>2
    <2>9. Fits(sess', answered', flo', disk', todo')
      BY <2>1, <2>5, <2>6, <2>8, <1>1, <1>2 DEF AnswerInv, Fits
    <2> QED BY <2>9, <1>1 DEF AnswerInv
  <1> QED BY <1>3, <1>6, <1>7 DEF Writes

(* A file is opened: it was not used, and is neither ahead nor queued.     *)
LEMMA StartFits ==
    ASSUME NEW t \in Handed, NEW s, DOMAIN s = Fields, Start(t.path, t, s),
           Fits(s, answered, flo, disk, <<>>), s.out = NoFile, todo = <<>>,
           t.path \in Once => /\ ~Used(t.path, s, answered) /\ ~Ahead(t.path, s, flo)
                              /\ ~Queued(s.q, t.path)
    PROVE  Fits(sess', answered, flo, disk, todo')
  <1>1. Removals(remove_from_spool(t))
    BY RemovalFits
  <1>2. CASE todo' = remove_from_spool(t) /\ sess' = s
    BY <1>1, <1>2, WritesFit
  <1>3. ASSUME NEW q \in perl_before_send(s.q), todo' = remove_from_spool(t),
               sess' = [s EXCEPT !.q = q]
        PROVE  Fits(sess', answered, flo, disk, todo')
    <2>1. q \in refresh_queue(s.q) /\ s.q \in Seq(Plain) /\ Unlike(s.q)
      BY <1>3 DEF perl_before_send, Fits, Shape
    <2>2. q \in Seq(Plain) /\ Unlike(q) /\ Less(q, s.q)
      BY <2>1, RefreshLess
    <2>3. Like(sess', s)
      BY <1>3, <2>2 DEF Like, Fields
    <2>4. Fits(sess', answered, flo, disk, <<>>)
      BY <2>3, LikeFits
    <2> QED BY <1>1, <1>3, <2>4, WritesFit
  <1>4. CASE sess' = [s EXCEPT !.out = t, !.busy = TRUE] /\ todo' = todo
    <2>1. /\ sess'.q = s.q /\ sess'.pos = s.pos /\ sess'.out = t /\ sess'.sent = s.sent
          /\ sess'.nosendlist = s.nosendlist /\ sess'.r_skipped = s.r_skipped
          /\ sess'.rcvd = s.rcvd /\ sess'.rcvdlist = s.rcvdlist
          /\ sess'.local_EOB = s.local_EOB
      BY <1>4 DEF Fields
    <2>2. Shape(sess')
      BY <2>1 DEF Fits, Shape
    <2>3. \A f : /\ Used(f, sess', answered) => Used(f, s, answered) \/ f = t.path
                 /\ Open(sess', f) => f = t.path
                 /\ Ahead(f, sess', flo) <=> Ahead(f, s, flo)
      BY <2>1 DEF Used, Open, Ahead
    <2>4. Apart(sess', answered)
      BY <2>1, <2>3 DEF Fits, Apart, Used
    <2>5. NotAgain(sess', answered, flo)
      BY <2>1, <2>3 DEF Fits, NotAgain
    <2>6. Going(sess', answered, disk, <<>>) /\ (Requested(s) => Requested(sess'))
      BY <2>1 DEF Fits, Going, Requested
    <2> QED BY <1>4, <2>2, <2>4, <2>5, <2>6 DEF Fits
  <1> QED BY <1>2, <1>3, <1>4 DEF Start

(* The entry at i is marked as sent. *)
LEMMA SentList ==
    ASSUME NEW q \in Seq(Plain), Unlike(q), NEW i \in 1..Len(q), ~q[i].sent,
           NEW e2 \in Plain, e2.path = q[i].path, e2.sent = TRUE,
           NEW q2, q2 = [q EXCEPT ![i] = e2]
    PROVE  /\ q2 \in Seq(Plain) /\ Unlike(q2) /\ Less(q2, q)
           /\ q[i].path \in Once => ~Queued(q2, q[i].path)
  <1>1. Len(q) \in Nat /\ DOMAIN q = 1..Len(q)
    OBVIOUS
  <1>2. q2 \in Seq(Plain)
    BY <1>1
  <1>3. DOMAIN q2 = DOMAIN q
    OBVIOUS
  <1>4. Len(q2) = Len(q)
    BY <1>1, <1>2, <1>3
  <1>5. q2[i] = e2 /\ \A j \in 1..Len(q) : j # i => q2[j] = q[j]
    BY <1>1
  <1>6. \A j \in 1..Len(q) : q2[j].path = q[j].path /\ (~q2[j].sent => ~q[j].sent /\ j # i)
    BY <1>5
  <1>7. Unlike(q2)
    BY <1>4, <1>6 DEF Unlike
  <1>8. Less(q2, q)
    BY <1>4, <1>6 DEF Less
  <1>9. q[i].path \in Once => ~Queued(q2, q[i].path)
    BY <1>4, <1>6 DEF Queued, Unlike
  <1> QED BY <1>2, <1>7, <1>8, <1>9

(* Only the place in the .?lo changes. *)
LEMMA PosFits ==
    ASSUME NEW s, NEW s2, NEW ans, NEW lines, NEW d, NEW ws, Fits(s, ans, lines, d, ws),
           s2.q = s.q, s2.out = s.out, s2.sent = s.sent, s2.nosendlist = s.nosendlist,
           s2.r_skipped = s.r_skipped, s2.rcvd = s.rcvd, s2.rcvdlist = s.rcvdlist,
           s2.local_EOB = s.local_EOB, s2.pos > 0 => ~Queued(s2.q, FLO),
           \A f \in Once : Used(f, s, ans) => ~Ahead(f, s2, lines)
    PROVE  Fits(s2, ans, lines, d, ws)
  <1>1. Shape(s2)
    BY DEF Fits, Shape
  <1>2. \A f : /\ Used(f, s2, ans) <=> Used(f, s, ans)
               /\ Open(s2, f) <=> Open(s, f)
    BY DEF Used, Open
  <1>3. Apart(s2, ans)
    BY <1>2 DEF Fits, Apart
  <1>4. NotAgain(s2, ans, lines)
    BY <1>2 DEF Fits, NotAgain
  <1>5. Going(s2, ans, d, ws) /\ (Requested(s) => Requested(s2))
    BY DEF Fits, Going, Requested
  <1> QED BY <1>1, <1>3, <1>4, <1>5 DEF Fits

LEMMA NextFileFits == ASSUME KeptInv, AnswerInv, NextFile PROVE AnswerInv'
  <1> DEFINE i == select_next_file(sess.q)
             e == sess.q[i]
             q2 == [sess.q EXCEPT ![i] = [e EXCEPT !.sent = TRUE]]
             s == [sess EXCEPT !.q[i].sent = TRUE]
             t == [path |-> e.path, flo |-> FALSE, action |-> e.action, type |-> e.type]
  <1>1. /\ ph = "up" /\ todo = <<>> /\ UNCHANGED <<disk, flo, ph, answered>>
        /\ Unsent(sess.q) # {} /\ sess.out = NoFile /\ sess.pos = 0
    BY DEF NextFile, Idle
  <1>2. sess.q \in Seq(Plain) /\ Unlike(sess.q) /\ DOMAIN sess = Fields
    BY SessionTyped DEF AnswerInv, Fits, Shape
  <1>3. i \in Unsent(sess.q)
    <2>1. Unsent(sess.q) \in SUBSET Nat
      BY <1>2 DEF Unsent
    <2>2. \E j \in Unsent(sess.q) : \A k \in Unsent(sess.q) : j <= k
      BY <2>1, <1>1, Least
    <2> QED BY <2>2 DEF select_next_file
  <1>4. i \in 1..Len(sess.q) /\ ~e.sent
    BY <1>2, <1>3 DEF Unsent
  <1>5. e \in Plain /\ Queued(sess.q, e.path)
    BY <1>2, <1>4 DEF Queued
  <1>6. s = [sess EXCEPT !.q = q2]
    BY <1>2, <1>4 DEF Fields
  <1>7. \/ sess' = s /\ todo' = todo
        \/ \E n \in compared_by : /\ e.type = "l" /\ todo' = todo
                                  /\ sess' = [s EXCEPT !.pos = 1, !.named = n]
        \/ e.path \notin sess.nosendlist /\ e.type # "l" /\ Start(e.path, t, s)
    BY DEF NextFile
  <1>8. /\ q2 \in Seq(Plain) /\ Unlike(q2) /\ Less(q2, sess.q)
        /\ e.path \in Once => ~Queued(q2, e.path)
    <2> DEFINE e2 == [e EXCEPT !.sent = TRUE]
    <2>1. e2 \in Plain /\ e2.path = e.path /\ e2.sent = TRUE
      <3>1. e \in Entries /\ e \in Plain
        BY <1>5 DEF Plain
      <3> HIDE DEF e
      <3> QED BY <3>1 DEF Plain, Entries
    <2>2. q2 = [sess.q EXCEPT ![i] = e2] /\ e = sess.q[i]
      OBVIOUS
    <2> HIDE DEF i, e, e2, q2
    <2> QED BY <1>2, <1>4, <2>1, <2>2, SentList
  <1> HIDE DEF i, q2, s
  <1>9. /\ DOMAIN s = Fields /\ s.q = q2 /\ s.pos = 0 /\ s.out = NoFile /\ s.sent = sess.sent
        /\ s.nosendlist = sess.nosendlist
    BY <1>1, <1>2, <1>6 DEF Fields
  <1>10. Like(s, sess)
    BY <1>2, <1>6, <1>8 DEF Like, Fields
  <1>11. Fits(s, answered, flo, disk, <<>>)
    BY <1>1, <1>10, LikeFits DEF AnswerInv
  <1>12. CASE sess' = s /\ todo' = todo
    BY <1>1, <1>11, <1>12 DEF AnswerInv
  <1>13. ASSUME NEW n \in compared_by, e.type = "l", todo' = todo,
                sess' = [s EXCEPT !.pos = 1, !.named = n]
         PROVE  AnswerInv'
    <2>1. e.path = FLO /\ FLO \in Once
      BY <1>5, <1>13, OutboundAssumption DEF Plain, Once, Files
    <2>2. /\ sess'.q = s.q /\ sess'.pos = 1 /\ sess'.out = s.out /\ sess'.sent = s.sent
          /\ sess'.nosendlist = s.nosendlist /\ sess'.r_skipped = s.r_skipped
          /\ sess'.rcvd = s.rcvd /\ sess'.rcvdlist = s.rcvdlist
          /\ sess'.local_EOB = s.local_EOB
      BY <1>9, <1>13 DEF Fields
    <2>3. ASSUME NEW f \in Once, Used(f, s, answered) PROVE ~Ahead(f, sess', flo)
      <3>1. Used(f, sess, answered)
        BY <2>3, <1>9, <1>1 DEF Used, Open
      <3>2. ~Ahead(f, sess, flo)
        BY <3>1 DEF AnswerInv, Fits, NotAgain
      <3> QED BY <3>2, <1>1, <1>5, <2>1 DEF Ahead
    <2>4. ~Queued(sess'.q, FLO)
      BY <2>1, <2>2, <1>8, <1>9
    <2>5. Fits(sess', answered, flo, disk, <<>>)
      BY <1>11, <2>2, <2>3, <2>4, PosFits
    <2> QED BY <1>1, <1>13, <2>5 DEF AnswerInv
  <1>14. CASE e.path \notin sess.nosendlist /\ e.type # "l" /\ Start(e.path, t, s)
    <2>1. t \in Handed /\ t.path = e.path
      <3>1. e \in Entries /\ (e.path \in Boxed => e.action = "d")
        BY <1>5 DEF Plain
      <3> HIDE DEF e
      <3> QED BY <3>1, <1>14 DEF Entries, Handed, Transfers, Kind
    <2> HIDE DEF t, e
    <2>2. ASSUME t.path \in Once
          PROVE  /\ ~Used(t.path, s, answered) /\ ~Ahead(t.path, s, flo)
                 /\ ~Queued(s.q, t.path)
      <3>1. ~Used(t.path, sess, answered)
        BY <2>1, <2>2, <1>5, <1>14 DEF AnswerInv, Fits, NotAgain
      <3>2. ~Used(t.path, s, answered)
        BY <3>1, <1>9, <1>1 DEF Used, Open
      <3>3. t.path \notin Attached
        BY <2>1, <1>5 DEF Plain
      <3>4. ~Ahead(t.path, s, flo)
        BY <3>3, SessionTyped DEF Ahead
      <3> QED BY <3>2, <3>4, <2>1, <2>2, <1>8, <1>9
    <2>3. Fits(sess', answered, flo, disk, todo')
      BY <1>1, <1>9, <1>11, <1>14, <2>1, <2>2, StartFits
    <2> QED BY <1>1, <2>3 DEF AnswerInv
  <1> QED BY <1>7, <1>12, <1>13, <1>14

LEMMA NextLineFits == ASSUME KeptInv, AnswerInv, NextLine PROVE AnswerInv'
  <1> DEFINE i == read_flo_line(sess.pos)
             f == flo[i].file
             t == [path |-> f, flo |-> TRUE, action |-> flo[i].act, type |-> ""]
             s == IF NotToSend(f) \/ ~There(f) THEN [sess EXCEPT !.pos = i + 1]
                  ELSE Later([sess EXCEPT !.pos = i + 1])
  <1>1. /\ ph = "up" /\ todo = <<>> /\ UNCHANGED <<disk, flo, ph, answered>>
        /\ sess.out = NoFile /\ sess.pos > 0
    BY DEF NextLine, Idle
  <1>2. /\ DOMAIN sess = Fields /\ sess.pos \in Nat /\ flo \in Seq(Lines) /\ Len(flo) \in Nat
        /\ Fits(sess, answered, flo, disk, <<>>) /\ ~Queued(sess.q, FLO)
    BY <1>1, SessionTyped DEF AnswerInv, Fits, Shape
  <1>3. CASE i = 0
    <2>1. sess' = [sess EXCEPT !.pos = 0, !.named = "line"] /\ todo' = <<Unlink>>
      BY <1>3 DEF NextLine
    <2>2. /\ sess'.q = sess.q /\ sess'.pos = 0 /\ sess'.out = sess.out /\ sess'.sent = sess.sent
          /\ sess'.nosendlist = sess.nosendlist /\ sess'.r_skipped = sess.r_skipped
          /\ sess'.rcvd = sess.rcvd /\ sess'.rcvdlist = sess.rcvdlist
          /\ sess'.local_EOB = sess.local_EOB
      BY <2>1, <1>2 DEF Fields
    <2>3. \A g : ~Ahead(g, sess', flo)
      BY <2>2, <1>2 DEF Ahead
    <2>4. Fits(sess', answered, flo, disk, <<>>)
      BY <2>2, <2>3, <1>2, PosFits
    <2>5. Removals(todo')
      <3>1. Unlink.op # "act"
        BY DEF Unlink
      <3> QED BY <3>1, <2>1, OneFits
    <2>6. Fits(sess', answered, flo, disk, todo')
      BY <2>4, <2>5, WritesFit
    <2> QED BY <1>1, <2>6 DEF AnswerInv
  <1>4. CASE i # 0
    <2>1. IF NotToSend(f) \/ ~There(f)
          THEN sess' = s /\ todo' = <<Mark(f)>> /\ UNCHANGED <<due, faults>>
          ELSE Start(f, t, s)
      BY <1>4 DEF NextLine
    <2>2. i \in sess.pos..Len(flo) /\ ~flo[i].done
      <3> DEFINE rest == {j \in sess.pos..Len(flo) : ~flo[j].done}
      <3>1. rest # {} /\ i = CHOOSE j \in rest : \A k \in rest : j <= k
        BY <1>4 DEF read_flo_line
      <3>2. rest \in SUBSET Nat
        BY <1>2
      <3>3. \E j \in rest : \A k \in rest : j <= k
        <4> HIDE DEF rest
        <4> QED BY <3>1, <3>2, Least
      <3>4. i \in rest
        <4> HIDE DEF rest
        <4> QED BY <3>1, <3>3
      <3> QED BY <3>4
    <2>3. i \in 1..Len(flo) /\ i \in Nat /\ i >= sess.pos
      BY <2>2, <1>1, <1>2
    <2>4. flo[i] \in Lines
      BY <2>3, <1>2
    <2>5. f \in Attached /\ flo[i].act \in {"d", "t", "0"} /\ f = flo[i].file
      BY <2>4 DEF Lines
    <2>6. f \in Once /\ f \notin Boxed
      BY <2>5, KindsAssumption DEF Once, Files
    <2>7. t \in Handed /\ t.path = f
      <3>1. Kind(f, flo[i].act)
        BY <2>5, KindsAssumption, OutboundAssumption DEF Kind
      <3>2. f \in Files /\ flo[i].act \in Actions
        BY <2>5, OutboundAssumption DEF Files, Actions
      <3> HIDE DEF f
      <3> QED BY <2>5, <2>6, <3>1, <3>2 DEF Transfers, Handed
    <2> HIDE DEF i, f, s
    <2>8. /\ DOMAIN s = Fields /\ s.q = sess.q /\ s.pos = i + 1 /\ s.out = sess.out
          /\ s.sent = sess.sent /\ s.nosendlist = sess.nosendlist
          /\ s.r_skipped = sess.r_skipped /\ s.rcvd = sess.rcvd
          /\ s.rcvdlist = sess.rcvdlist /\ s.local_EOB = sess.local_EOB
      <3>1. CASE NotToSend(f) \/ ~There(f)
        BY <1>2, <3>1 DEF Fields, s
      <3>2. CASE ~(NotToSend(f) \/ ~There(f))
        BY <1>2, <3>2 DEF Fields, Later, s
      <3> QED BY <3>1, <3>2
    <2>9. \A g : Ahead(g, s, flo) => \E j \in 1..Len(flo) : flo[j].file = g /\ ~flo[j].done /\ j >= i + 1
      BY <2>3, <2>8 DEF Ahead
    <2>10. \A g : Ahead(g, s, flo) => Ahead(g, sess, flo)
      <3>1. \A j \in 1..Len(flo) : j >= i + 1 => j >= sess.pos
        BY <2>3, <1>2
      <3> QED BY <3>1, <2>9, <1>1 DEF Ahead
    <2>11. Fits(s, answered, flo, disk, <<>>)
      <3>1. \A g \in Once : Used(g, sess, answered) => ~Ahead(g, s, flo)
        BY <2>10 DEF AnswerInv, Fits, NotAgain
      <3> QED BY <3>1, <2>8, <1>2, PosFits
    <2>12. CASE NotToSend(f) \/ ~There(f)
      <3>1. sess' = s /\ todo' = <<Mark(f)>>
        BY <2>1, <2>12
      <3>2. Removals(todo')
        <4>1. Mark(f).op # "act"
          BY DEF Mark
        <4> QED BY <4>1, <3>1, OneFits
      <3>3. Fits(sess', answered, flo, disk, todo')
        BY <3>1, <3>2, <2>11, WritesFit
      <3> QED BY <1>1, <3>3 DEF AnswerInv
    <2>13. CASE ~(NotToSend(f) \/ ~There(f))
      <3>1. Start(t.path, t, s)
        BY <2>1, <2>7, <2>13
      <3>2. Ahead(f, sess, flo)
        BY <2>2, <2>3, <2>5, <1>1 DEF Ahead
      <3>3. ~Used(f, s, answered)
        <4>1. ~Used(f, sess, answered)
          BY <2>6, <3>2 DEF AnswerInv, Fits, NotAgain
        <4> QED BY <4>1, <2>8 DEF Used, Open
      <3>4. ~Ahead(f, s, flo)
        <4>1. ASSUME NEW j \in 1..Len(flo), flo[j].file = f, ~flo[j].done PROVE j = i
          BY <4>1, <2>2, <2>3, <2>5 DEF AnswerInv, Fits, OneLine
        <4>2. ~(i >= i + 1)
          BY <2>3
        <4> QED BY <4>1, <4>2, <2>9
      <3>5. ~Queued(s.q, f)
        <4>1. \A j \in 1..Len(sess.q) : sess.q[j].path \notin Attached
          <5>1. sess.q \in Seq(Plain)
            BY DEF AnswerInv, Fits, Shape
          <5> QED BY <5>1 DEF Plain
        <4> QED BY <4>1, <2>5, <2>8 DEF Queued
      <3> HIDE DEF t
      <3>6. Fits(sess', answered, flo, disk, todo')
        BY <1>1, <2>7, <2>8, <2>11, <3>1, <3>3, <3>4, <3>5, StartFits
      <3> QED BY <1>1, <3>6 DEF AnswerInv
    <2> QED BY <2>12, <2>13
  <1> QED BY <1>3, <1>4

(* Only the counts of requests change. *)
LEMMA CountFits ==
    ASSUME NEW s, NEW s2, NEW ans, NEW lines, NEW d, NEW ws, Fits(s, ans, lines, d, ws),
           s2.q = s.q, s2.pos = s.pos, s2.out = s.out, s2.sent = s.sent,
           s2.nosendlist = s.nosendlist, s2.r_skipped = s.r_skipped,
           s2.local_EOB = s.local_EOB, MaxRcvd <= 1 => Requested(s2)
    PROVE  Fits(s2, ans, lines, d, ws)
  <1>1. Shape(s2)
    BY DEF Fits, Shape
  <1>2. \A f : /\ Used(f, s2, ans) <=> Used(f, s, ans)
               /\ Open(s2, f) <=> Open(s, f)
               /\ Ahead(f, s2, lines) <=> Ahead(f, s, lines)
    BY DEF Used, Open, Ahead
  <1>3. Apart(s2, ans)
    BY <1>2 DEF Fits, Apart
  <1>4. NotAgain(s2, ans, lines)
    BY <1>2 DEF Fits, NotAgain
  <1>5. Going(s2, ans, d, ws)
    BY DEF Fits, Going
  <1> QED BY <1>1, <1>3, <1>4, <1>5 DEF Fits

Answers(q) == \E i \in 1..Len(q) : q[i].path \in Responses

(* A request is run: its answer is a new file, which was not used.         *)
LEMMA SRIFFits ==
    ASSUME KeptInv, AnswerInv, NEW s, DOMAIN s = Fields, RunSRIF(s),
           s.q = sess.q, s.pos = sess.pos, s.out = sess.out, s.sent = sess.sent,
           s.nosendlist = sess.nosendlist, s.r_skipped = sess.r_skipped,
           s.local_EOB = sess.local_EOB,
           MaxRcvd <= 1 => s.rcvd = 1 /\ s.rcvdlist = 0 /\ ~Answers(sess.q),
           todo = <<>>, ph = "up", UNCHANGED <<flo, ph, todo>>
    PROVE  AnswerInv'
  <1>1. CASE sess' = s /\ UNCHANGED <<disk, answered>>
    <2>1. MaxRcvd <= 1 => Requested(s)
      BY DEF Requested
    <2>2. Fits(s, answered, flo, disk, todo)
      BY <2>1, CountFits DEF AnswerInv
    <2> QED BY <1>1, <2>2 DEF AnswerInv
  <1>2. ASSUME NEW written \in BOOLEAN, NEW answer \in run_args(written), answer # <<>>,
               sess' = [s EXCEPT !.q = parse_response(@, answer[1], answer[2])],
               disk' = [disk EXCEPT ![answer[1]] = "full"],
               answered' = answered \ {answer[1]}
        PROVE  AnswerInv'
    <2>1. PICK r \in Responses, p \in Predictors :
            answer = <<r, p>> /\ ~Offered(r) /\ sess.out.path # r
      BY <1>2 DEF run_args
    <2> DEFINE act == CASE p = "=" -> "d" [] p = "+" -> "0" [] p = "-" -> "a"
               e == Entry(r, "", act, 1)
               q2 == Append(sess.q, e)
    <2>2. act \in {"d", "0", "a"}
      BY OutboundAssumption
    <2>3. e \in Plain /\ e.path = r
      <3>1. r \in Files /\ Kind(r, act) /\ r \notin Attached /\ r \notin Boxed
        BY <2>2, KindsAssumption DEF Files, Kind
      <3>2. e \in Entries
        BY <2>2, <3>1, EntryTyped DEF Actions
      <3>3. e.path = r /\ e.type = ""
        BY DEF Entry
      <3> HIDE DEF e
      <3> QED BY <3>1, <3>2, <3>3 DEF Plain
    <2>4. sess' = [s EXCEPT !.q = q2]
      <3>1. parse_response(s.q, r, p) = q2
        BY DEF parse_response, q_add_last_file
      <3> HIDE DEF q2
      <3> QED BY <1>2, <2>1, <3>1
    <2>5. disk' = [disk EXCEPT ![r] = "full"] /\ answered' = answered \ {r}
      BY <1>2, <2>1
    <2>6. /\ sess'.q = q2 /\ sess'.pos = sess.pos /\ sess'.out = sess.out
          /\ sess'.sent = sess.sent /\ sess'.nosendlist = sess.nosendlist
          /\ sess'.r_skipped = sess.r_skipped /\ sess'.rcvd = s.rcvd
          /\ sess'.rcvdlist = s.rcvdlist /\ sess'.local_EOB = sess.local_EOB
      <3> HIDE DEF q2
      <3> QED BY <2>4 DEF Fields
    <2> HIDE DEF e
    <2>7. sess.q \in Seq(Plain) /\ Unlike(sess.q) /\ sess.sent \in Seq(Handed)
      BY DEF AnswerInv, Fits, Shape
    <2>8. r \in Once => ~Has(sess.q, r)
      BY DEF Once, Has, Answers
    <2>9. q2 \in Seq(Plain) /\ Unlike(q2)
      BY <2>3, <2>7, <2>8, AppendUnlike
    <2>10. /\ Len(q2) = Len(sess.q) + 1 /\ Len(sess.q) \in Nat /\ q2[Len(sess.q) + 1] = e
           /\ \A i \in 1..Len(sess.q) : q2[i] = sess.q[i]
      BY <2>3, <2>7
    <2> HIDE DEF q2
    <2>11. \A i \in 1..Len(q2) : (i \in 1..Len(sess.q) /\ q2[i] = sess.q[i]) \/ q2[i] = e
      BY <2>10
    <2>12. \A g : Queued(q2, g) => Queued(sess.q, g) \/ g = r
      BY <2>3, <2>11 DEF Queued
    <2>13. r # FLO /\ r \notin Boxed
      BY OutboundAssumption, KindsAssumption DEF Files
    <2>14. Shape(sess')
      <3>1. ASSUME sess'.local_EOB = TRUE, NEW i \in 1..Len(q2) PROVE q2[i].path \in Responses
        <4>1. \A j \in 1..Len(sess.q) : sess.q[j].path \in Responses
          BY <2>6, <3>1 DEF AnswerInv, Fits, Shape
        <4> QED BY <4>1, <2>3, <2>11
      <3>2. sess'.pos > 0 => ~Queued(q2, FLO)
        BY <2>6, <2>12, <2>13 DEF AnswerInv, Fits, Shape
      <3> QED BY <2>6, <2>9, <3>1, <3>2 DEF AnswerInv, Fits, Shape
    <2>15. \A g : Used(g, sess', answered') => Used(g, sess, answered) /\ g # r
      <3>1. ~Has(sess.sent, r)
        BY <2>1, <2>7 DEF Offered, Has
      <3> QED BY <3>1, <2>1, <2>5, <2>6 DEF Used, Open
    <2>16. \A g : Ahead(g, sess', flo) => Ahead(g, sess, flo)
      BY <2>6, <2>12, <2>13 DEF Ahead
    <2>17. Apart(sess', answered')
      <3>1. \A g : Open(sess', g) <=> Open(sess, g)
        BY <2>6 DEF Open
      <3> QED BY <3>1, <2>5, <2>6 DEF AnswerInv, Fits, Apart
    <2>18. NotAgain(sess', answered', flo)
      BY <2>6, <2>12, <2>15, <2>16 DEF AnswerInv, Fits, NotAgain
    <2>19. Going(sess', answered', disk', todo)
      <3>1. \A g \in Boxed : disk'[g] = disk[g]
        BY <2>5, <2>13, SessionTyped DEF Files
      <3> QED BY <3>1, <2>5, <2>6 DEF AnswerInv, Fits, Going
    <2>20. MaxRcvd <= 1 => Requested(sess')
      BY <2>6 DEF Requested
    <2>21. Fits(sess', answered', flo, disk', todo)
      BY <2>14, <2>17, <2>18, <2>19, <2>20 DEF AnswerInv, Fits
    <2> QED BY <2>21 DEF AnswerInv
  <1> QED BY <1>1, <1>2 DEF RunSRIF, srif_fill

LEMMA RequestFits == ASSUME KeptInv, AnswerInv, ReceiveRequest PROVE AnswerInv'
  <1> DEFINE s == [sess EXCEPT !.rcvd = @ + 1, !.busy = TRUE, !.delay_EOB = FALSE]
  <1>1. /\ ph = "up" /\ todo = <<>> /\ UNCHANGED <<flo, ph, todo>> /\ sess.rcvd < MaxRcvd
    BY DEF ReceiveRequest, Idle
  <1>2. RunSRIF(s) \/ (sess' = [s EXCEPT !.rcvdlist = @ + 1] /\ UNCHANGED <<disk, answered>>)
    BY DEF ReceiveRequest
  <1>3. /\ DOMAIN s = Fields /\ s.q = sess.q /\ s.pos = sess.pos /\ s.out = sess.out
        /\ s.sent = sess.sent /\ s.nosendlist = sess.nosendlist /\ s.r_skipped = sess.r_skipped
        /\ s.local_EOB = sess.local_EOB /\ s.rcvd = sess.rcvd + 1 /\ s.rcvdlist = sess.rcvdlist
    BY SessionTyped DEF Fields
  <1> HIDE DEF s
  <1>4. ASSUME MaxRcvd <= 1 PROVE s.rcvd = 1 /\ s.rcvdlist = 0 /\ ~Answers(sess.q)
    <2>1. Requested(sess) /\ MaxRcvd \in Nat
      BY <1>4, OutboundAssumption DEF AnswerInv, Fits
    <2>2. sess.rcvd = 0
      BY <2>1, <1>1, <1>4 DEF Requested
    <2>3. sess.rcvdlist = 0
      BY <2>1, <2>2 DEF Requested
    <2>4. ~Answers(sess.q)
      BY <2>1, <2>2 DEF Requested, Answers
    <2> QED BY <2>2, <2>3, <2>4, <1>3
  <1>5. CASE RunSRIF(s)
    BY <1>1, <1>3, <1>4, <1>5, SRIFFits
  <1>6. CASE sess' = [s EXCEPT !.rcvdlist = @ + 1] /\ UNCHANGED <<disk, answered>>
    <2>1. /\ sess'.q = sess.q /\ sess'.pos = sess.pos /\ sess'.out = sess.out
          /\ sess'.sent = sess.sent /\ sess'.nosendlist = sess.nosendlist
          /\ sess'.r_skipped = sess.r_skipped /\ sess'.local_EOB = sess.local_EOB
          /\ sess'.rcvd = s.rcvd /\ sess'.rcvdlist = s.rcvdlist + 1
      BY <1>3, <1>6 DEF Fields
    <2>2. MaxRcvd <= 1 => Requested(sess')
      BY <1>4, <2>1 DEF Requested, Answers
    <2>3. Fits(sess', answered, flo, disk, todo)
      BY <2>1, <2>2, CountFits DEF AnswerInv
    <2> QED BY <1>1, <1>6, <2>3 DEF AnswerInv
  <1> QED BY <1>2, <1>5, <1>6

LEMMA RcvdlistFits == ASSUME KeptInv, AnswerInv, ProcessRcvdlist PROVE AnswerInv'
  <1> DEFINE s == [sess EXCEPT !.rcvdlist = @ - 1]
  <1>1. /\ ph = "up" /\ todo = <<>> /\ UNCHANGED <<flo, ph, todo>> /\ RunSRIF(s)
        /\ sess.rcvdlist > 0
    BY DEF ProcessRcvdlist, BatchOver, Idle
  <1>2. /\ DOMAIN s = Fields /\ s.q = sess.q /\ s.pos = sess.pos /\ s.out = sess.out
        /\ s.sent = sess.sent /\ s.nosendlist = sess.nosendlist /\ s.r_skipped = sess.r_skipped
        /\ s.local_EOB = sess.local_EOB /\ s.rcvd = sess.rcvd /\ s.rcvdlist = sess.rcvdlist - 1
    BY SessionTyped DEF Fields
  <1> HIDE DEF s
  <1>3. ASSUME MaxRcvd <= 1 PROVE s.rcvd = 1 /\ s.rcvdlist = 0 /\ ~Answers(sess.q)
    <2>1. Requested(sess)
      BY <1>3 DEF AnswerInv, Fits
    <2>2. sess.rcvd = 1 /\ sess.rcvdlist = 1
      BY <2>1, <1>1 DEF Requested
    <2>3. ~Answers(sess.q)
      BY <2>1, <2>2 DEF Requested, Answers
    <2> QED BY <2>2, <2>3, <1>2
  <1> QED BY <1>1, <1>2, <1>3, SRIFFits

LEMMA ClearedList ==
    ASSUME NEW q \in Seq(Plain), Unlike(q)
    PROVE  Cleared(q) \in Seq(Plain) /\ Unlike(Cleared(q)) /\ Less(Cleared(q), q)
  <1> DEFINE c == Cleared(q)
  <1>1. Len(q) \in Nat /\ DOMAIN q = 1..Len(q)
    OBVIOUS
  <1>2. ASSUME NEW i \in 1..Len(q)
        PROVE  c[i] \in Plain /\ c[i].path = q[i].path /\ c[i].sent = q[i].sent
    <2>1. q[i] \in Plain /\ q[i] \in Entries
      BY DEF Plain
    <2>2. CASE q[i].action = "a"
      <3> DEFINE e == q[i]  e2 == [e EXCEPT !.action = "0"]
      <3>1. c[i] = e2
        BY <2>2, <1>1 DEF Cleared
      <3>2. e \in Plain /\ e \in Entries /\ e.action = "a"
        BY <2>1, <2>2
      <3> HIDE DEF e, c
      <3>3. e2 \in Entries /\ e2.path = e.path /\ e2.sent = e.sent /\ e2.type = e.type
        BY <3>2 DEF Entries, Kind, Actions
      <3>4. e.path \notin Attached /\ e.path \notin Boxed /\ (e.type = "l" => e.path = FLO)
        BY <3>2 DEF Plain
      <3> HIDE DEF e2
      <3>5. e2 \in Plain
        BY <3>3, <3>4 DEF Plain
      <3> QED BY <3>1, <3>3, <3>5 DEF e
    <2>3. CASE q[i].action # "a"
      <3>1. c[i] = q[i]
        BY <2>3, <1>1 DEF Cleared
      <3> QED BY <3>1, <2>1
    <2> QED BY <2>2, <2>3
  <1>3. c = [i \in 1..Len(q) |-> c[i]]
    BY <1>1 DEF Cleared
  <1> HIDE DEF c
  <1>4. c \in Seq(Plain) /\ Len(c) = Len(q)
    BY <1>1, <1>2, <1>3
  <1>5. Unlike(c)
    BY <1>2, <1>4 DEF Unlike
  <1>6. Less(c, q)
    BY <1>2, <1>4 DEF Less
  <1> QED BY <1>4, <1>5, <1>6 DEF c

LEMMA EndBatchFits == ASSUME KeptInv, AnswerInv, EndBatch PROVE AnswerInv'
  <1> DEFINE kill == sess.killlist \cup q_to_killlist(sess.q)
             c == Cleared(sess.q)
             s == [sess EXCEPT !.killlist = @ \cup q_to_killlist(sess.q), !.q = Cleared(@)]
  <1>1. /\ ph = "up" /\ todo = <<>> /\ UNCHANGED <<disk, flo, todo, answered>>
        /\ sess.local_EOB = TRUE /\ sess.sent = <<>> /\ sess.out = NoFile
    BY DEF EndBatch, BatchOver, Idle
  <1>2. sess.q \in Seq(Plain) /\ Unlike(sess.q) /\ DOMAIN sess = Fields
    BY SessionTyped DEF AnswerInv, Fits, Shape
  <1>3. c \in Seq(Plain) /\ Unlike(c) /\ Less(c, sess.q)
    BY <1>2, ClearedList
  <1>4. s = [sess EXCEPT !.killlist = kill, !.q = c]
    OBVIOUS
  <1>5. \/ sess' = s /\ ph' = "ok"
        \/ /\ ph' = ph
           /\ \E q \in Scans(IF s.r_skipped THEN {} ELSE q_scan_boxes(disk), s.q) :
                sess' = [s EXCEPT !.q = IF s.r_skipped THEN s.q ELSE q, !.busy = FALSE,
                                  !.local_EOB = FALSE, !.remote_EOB = FALSE]
    BY DEF EndBatch
  <1> HIDE DEF s, c, kill
  <1>6. /\ DOMAIN s = Fields /\ s.q = c /\ s.pos = sess.pos /\ s.out = NoFile /\ s.sent = <<>>
        /\ s.nosendlist = sess.nosendlist /\ s.r_skipped = sess.r_skipped
        /\ s.rcvd = sess.rcvd /\ s.rcvdlist = sess.rcvdlist
    BY <1>1, <1>2, <1>4 DEF Fields
  <1>7. Like(s, sess)
    BY <1>1, <1>3, <1>6 DEF Like
  <1>8. Fits(s, answered, flo, disk, todo)
    BY <1>7, LikeFits DEF AnswerInv
  <1>9. CASE sess' = s /\ ph' = "ok"
    BY <1>1, <1>8, <1>9 DEF AnswerInv
  <1>10. ASSUME NEW q \in Scans(IF s.r_skipped THEN {} ELSE q_scan_boxes(disk), s.q), ph' = ph,
                sess' = [s EXCEPT !.q = IF s.r_skipped THEN s.q ELSE q, !.busy = FALSE,
                                  !.local_EOB = FALSE, !.remote_EOB = FALSE]
         PROVE  AnswerInv'
    <2>1. CASE s.r_skipped
      <3>1. sess' = [s EXCEPT !.q = s.q, !.busy = FALSE, !.local_EOB = FALSE, !.remote_EOB = FALSE]
        BY <1>10, <2>1
      <3>2. /\ sess'.q = c /\ sess'.pos = sess.pos /\ sess'.out = NoFile /\ sess'.sent = <<>>
            /\ sess'.nosendlist = sess.nosendlist /\ sess'.r_skipped = sess.r_skipped
            /\ sess'.rcvd = sess.rcvd /\ sess'.rcvdlist = sess.rcvdlist
            /\ sess'.local_EOB = FALSE
        BY <3>1, <1>6 DEF Fields
      <3>3. Like(sess', sess)
        BY <3>2, <1>1, <1>3 DEF Like
      <3>4. Fits(sess', answered, flo, disk, todo)
        BY <3>3, LikeFits DEF AnswerInv
      <3> QED BY <1>1, <1>10, <3>4 DEF AnswerInv
    <2>2. CASE ~s.r_skipped
      <3> DEFINE set == q_scan_boxes(disk)
      <3>1. q \in Scans(set, c)
        BY <1>10, <2>2, <1>6
      <3>2. sess' = [s EXCEPT !.q = q, !.busy = FALSE, !.local_EOB = FALSE, !.remote_EOB = FALSE]
        BY <1>10, <2>2
      <3>3. /\ \A e \in set : e \in Plain /\ e.path \in Boxed /\ disk[e.path] # "none"
            /\ Parted(set) /\ set \subseteq Entries /\ IsFiniteSet(set)
        BY BoxesPlain, BoxesTyped
      <3>4. \A i \in 1..Len(c) : c[i].path \in Responses
        BY <1>1, <1>3 DEF Less, AnswerInv, Fits, Shape
      <3>5. FLO \notin Boxed \cup Responses /\ Boxed \cap Responses = {}
        BY OutboundAssumption, KindsAssumption DEF Files
      <3> HIDE DEF set
      <3>6. c \in Seq(Entries) /\ Strange(set, c)
        <4>1. c \in Seq(Entries)
          BY <1>3 DEF Plain
        <4>2. Strange(set, c)
          BY <3>3, <3>4, <3>5 DEF Strange, Has
        <4> QED BY <4>1, <4>2
      <3>7. Unlike(q) /\ Drawn(q, set, c) /\ q \in Seq(Entries)
        BY <3>1, <3>3, <3>6, <1>3, ScanList, ScansTyped
      <3>8. ASSUME NEW i \in 1..Len(q)
            PROVE  /\ q[i] \in Plain
                   /\ \/ q[i] \in set
                      \/ \E j \in 1..Len(c) : q[i] = c[j]
                   /\ q[i].path \in Boxed \cup Responses
        <4>1. CASE q[i] \in set
          BY <4>1, <3>3
        <4>2. CASE \E j \in 1..Len(c) : q[i] = c[j]
          BY <4>2, <3>4, <1>3
        <4> QED BY <4>1, <4>2, <3>7 DEF Drawn
      <3>9. q \in Seq(Plain)
        BY <3>7, <3>8
      <3>10. /\ sess'.q = q /\ sess'.pos = sess.pos /\ sess'.out = NoFile /\ sess'.sent = <<>>
             /\ sess'.nosendlist = sess.nosendlist /\ sess'.r_skipped = sess.r_skipped
             /\ sess'.rcvd = sess.rcvd /\ sess'.rcvdlist = sess.rcvdlist
             /\ sess'.local_EOB = FALSE
        BY <3>2, <1>6 DEF Fields
      <3>11. ~Queued(q, FLO)
        BY <3>5, <3>8 DEF Queued
      <3>12. Shape(sess')
        <4>1. sess'.sent = sess.sent /\ sess'.local_EOB # TRUE
          BY <1>1, <3>10
        <4> QED BY <4>1, <3>7, <3>9, <3>10, <3>11 DEF AnswerInv, Fits, Shape
      <3>13. \A f : /\ ~Open(sess', f) /\ ~Has(sess'.sent, f)
                    /\ Used(f, sess', answered) <=> f \in answered
                    /\ Ahead(f, sess', flo) => Ahead(f, sess, flo)
        <4>1. Len(sess'.sent) = 0
          BY <3>10
        <4>2. \A f : ~Open(sess', f) /\ ~Has(sess'.sent, f)
          BY <4>1, <3>10 DEF Open, Has
        <4>3. \A f : Ahead(f, sess', flo) => Ahead(f, sess, flo)
          BY <3>10, <3>11 DEF Ahead
        <4> QED BY <4>2, <4>3 DEF Used
      <3>14. Apart(sess', answered)
        BY <3>13 DEF Apart
      <3>15. ASSUME NEW f \in Once, f \in answered, Queued(q, f) PROVE f \in sess.nosendlist
        <4>1. PICK i \in 1..Len(q) : ~q[i].sent /\ q[i].path = f
          BY <3>15 DEF Queued
        <4>2. CASE q[i] \in set
          <5>1. f \in Boxed /\ disk[f] # "none" /\ sess.r_skipped # TRUE
            BY <4>1, <4>2, <3>3, <2>2, <1>6
          <5>2. ~Goes(todo, f)
            <6>1. Len(todo) = 0
              BY <1>1
            <6> QED BY <6>1 DEF Goes
          <5> QED BY <5>1, <5>2, <3>15 DEF AnswerInv, Fits, Going
        <4>3. CASE \E j \in 1..Len(c) : q[i] = c[j]
          <5>1. Queued(c, f)
            BY <4>1, <4>3 DEF Queued
          <5>2. Queued(sess.q, f)
            BY <5>1, <1>3, LessQueued
          <5> QED BY <5>2, <3>15 DEF AnswerInv, Fits, NotAgain, Used
        <4> QED BY <4>2, <4>3, <3>8
      <3>16. NotAgain(sess', answered, flo)
        <4>1. ASSUME NEW f \in Once, f \in answered PROVE ~Ahead(f, sess', flo)
          BY <4>1, <3>13 DEF AnswerInv, Fits, NotAgain, Used
        <4> QED BY <4>1, <3>10, <3>13, <3>15 DEF NotAgain
      <3>17. Going(sess', answered, disk, todo)
        BY <3>10 DEF AnswerInv, Fits, Going
      <3>18. ASSUME Requested(sess) PROVE Requested(sess')
        <4>1. ASSUME NEW i \in 1..Len(q), q[i].path \in Responses
              PROVE  \E j \in 1..Len(sess.q) : sess.q[j].path \in Responses
          <5>1. q[i] \notin set
            BY <4>1, <3>3, <3>5
          <5>2. PICK j \in 1..Len(c) : q[i] = c[j]
            BY <5>1, <3>8
          <5> QED BY <4>1, <5>2, <1>3 DEF Less
        <4> QED BY <4>1, <3>10, <3>18 DEF Requested
      <3>19. Fits(sess', answered, flo, disk, todo)
        BY <3>12, <3>14, <3>16, <3>17, <3>18 DEF AnswerInv, Fits
      <3> QED BY <1>1, <1>10, <3>19 DEF AnswerInv
    <2> QED BY <2>1, <2>2
  <1> QED BY <1>5, <1>9, <1>10

(* New mail: an attachment comes between two sessions.                     *)
LEMMA TossFits == ASSUME KeptInv, AnswerInv, NEW f \in Files, Toss(f) PROVE AnswerInv'
  <1>1. /\ f \in Boxed \/ ph = "none"
        /\ Unmarked(f) = {} /\ todo = <<>> /\ UNCHANGED <<ph, sess, todo>>
        /\ answered' = answered \ {f}
    BY DEF Toss
  <1>2. PICK what, act :
          /\ disk' = [disk EXCEPT ![f] = what, ![FLO] = IF f \in Attached THEN "full" ELSE @]
          /\ flo' = IF f \in Attached
                    THEN Append(flo, [file |-> f, act |-> act, done |-> FALSE]) ELSE flo
    BY DEF Toss
  <1>3. CASE ph = "none"
    <2>1. sess = NewSession /\ answered = {} /\ OneLine(flo)
      BY <1>3 DEF AnswerInv, Fits
    <2>2. OneLine(flo')
      <3>1. CASE f \in Attached
        <4> DEFINE l == [file |-> f, act |-> act, done |-> FALSE]
        <4>1. flo' = Append(flo, l) /\ l.file = f
          BY <3>1, <1>2
        <4> HIDE DEF l
        <4>2. /\ Len(flo') = Len(flo) + 1 /\ Len(flo) \in Nat /\ flo'[Len(flo) + 1] = l
              /\ \A i \in 1..Len(flo) : flo'[i] = flo[i]
          BY <4>1, SessionTyped
        <4>3. \A i \in 1..Len(flo) : flo[i].file = f => flo[i].done
          BY <1>1, SessionTyped DEF Unmarked
        <4>4. \A i \in 1..Len(flo') : i \in 1..Len(flo) \/ i = Len(flo) + 1
          BY <4>2
        <4> QED BY <2>1, <4>1, <4>2, <4>3, <4>4 DEF OneLine
      <3>2. CASE f \notin Attached
        BY <3>2, <1>2, <2>1
      <3> QED BY <3>1, <3>2
    <2>3. Fits(NewSession, {}, flo', disk', <<>>)
      BY <2>2, NewFits
    <2> QED BY <1>1, <2>1, <2>3 DEF AnswerInv
  <1>4. CASE ph # "none"
    <2>1. f \in Boxed /\ flo' = flo
      BY <1>1, <1>2, <1>4, KindsAssumption
    <2>2. \A g \in Boxed : g # f => disk'[g] = disk[g]
      <3>1. FLO \notin Boxed /\ f # FLO /\ Boxed \subseteq Files
        BY OutboundAssumption DEF Files
      <3> QED BY <3>1, <1>2, SessionTyped
    <2>3. Apart(sess, answered') /\ NotAgain(sess, answered', flo)
      <3>1. \A g : Used(g, sess, answered') => Used(g, sess, answered)
        BY <1>1 DEF Used
      <3> QED BY <3>1, <1>1 DEF AnswerInv, Fits, Apart, NotAgain
    <2>4. Going(sess, answered', disk', todo)
      BY <1>1, <2>2 DEF AnswerInv, Fits, Going
    <2>5. Fits(sess, answered', flo, disk', todo)
      BY <2>3, <2>4 DEF AnswerInv, Fits
    <2> QED BY <1>1, <1>4, <2>1, <2>5 DEF AnswerInv
  <1> QED BY <1>3, <1>4

LEMMA InitFits == Init => AnswerInv
  <1> SUFFICES ASSUME Init PROVE AnswerInv
    OBVIOUS
  <1>1. flo = <<>> /\ ph = "none" /\ sess = NewSession /\ todo = <<>> /\ answered = {}
    BY DEF Init
  <1>2. OneLine(<<>>)
    <2>1. Len(<<>>) = 0
      OBVIOUS
    <2> QED BY <2>1 DEF OneLine
  <1> QED BY <1>1, <1>2, NewFits DEF AnswerInv

LEMMA NextFits == KeptInv /\ AnswerInv /\ [Next]_vars => AnswerInv'
  <1> SUFFICES ASSUME KeptInv, AnswerInv, [Next]_vars PROVE AnswerInv'
    OBVIOUS
  <1>1. CASE Session
    BY <1>1, LoginFits, NextFileFits, NextLineFits, SendFileFits, QuietFits, RcvdlistFits,
       EndBatchFits, EndFits, WriteNextFits, GOTFits DEF Session
  <1>2. CASE ReceiveRequest
    BY <1>2, RequestFits
  <1>3. CASE RemoteEOB \/ Drop \/ Crash
    BY <1>3, QuietFits, EndFits
  <1>4. CASE \E f \in Files : Toss(f) \/ RemoteTakes(f) \/ SKIP(f)
    BY <1>4, TossFits, QuietFits, SKIPFits
  <1>5. CASE UNCHANGED vars
    BY <1>5 DEF vars, AnswerInv
  <1> QED BY <1>1, <1>2, <1>3, <1>4, <1>5 DEF Next

(* Of the files of Once, none is in transfer that was answered. *)
LEMMA InvAnswered ==
    ASSUME AnswerInv, sess.out # NoFile, sess.out.path \in Once
    PROVE  sess.out.path \notin answered
  BY DEF AnswerInv, Fits, Apart, Open

(* Whatever was answered, mail is not sent a second time in the session.   *)
MailOnce == sess.out # NoFile /\ sess.out.path \notin Responses => sess.out.path \notin answered

(* A file of the outbound or of the filebox that the remote has answered,  *)
(* with M_GOT or M_SKIP, is not sent a second time in the session, however *)
(* many requests it makes: not by the next line of the .?lo, nor by the    *)
(* scan of the fileboxes between two batches, which finds a file that is   *)
(* removed, or one the session remembers it could not delete, or is not    *)
(* made once something was skipped (start_file_transfer, q_scan_boxes).    *)
THEOREM MailSentOnce == Spec => []MailOnce
  <1>1. Init => KeptInv /\ AnswerInv
    BY InitKept, InitFits
  <1>2. KeptInv /\ AnswerInv /\ [Next]_vars => KeptInv' /\ AnswerInv'
    BY NextKept, NextFits
  <1>3. KeptInv /\ AnswerInv => MailOnce
    <2> SUFFICES ASSUME KeptInv, AnswerInv, sess.out # NoFile, sess.out.path \notin Responses
                 PROVE  sess.out.path \notin answered
      BY DEF MailOnce
    <2>1. sess.out.path \in Once
      BY DEF AnswerInv, Fits, Shape, Handed, Transfers, Once
    <2> QED BY <2>1, InvAnswered
  <1> QED BY <1>1, <1>2, <1>3, PTL DEF Spec

(* The same for the answers to the remote's requests, when a session takes *)
(* no more than one: two may be answered with the same file, which is then *)
(* queued, and sent, twice (parse_response).                               *)
THEOREM NotSentAgain == ASSUME MaxRcvd <= 1 PROVE Spec => []AnsweredOnce
  <1>1. Init => KeptInv /\ AnswerInv
    BY InitKept, InitFits
  <1>2. KeptInv /\ AnswerInv /\ [Next]_vars => KeptInv' /\ AnswerInv'
    BY NextKept, NextFits
  <1>3. KeptInv /\ AnswerInv => AnsweredOnce
    <2> SUFFICES ASSUME KeptInv, AnswerInv, sess.out # NoFile PROVE sess.out.path \notin answered
      BY DEF AnsweredOnce
    <2>1. sess.out.path \in Once
      BY DEF AnswerInv, Fits, Shape, Handed, Transfers, Once
    <2> QED BY <2>1, InvAnswered
  <1> QED BY <1>1, <1>2, <1>3, PTL DEF Spec
=============================================================================
