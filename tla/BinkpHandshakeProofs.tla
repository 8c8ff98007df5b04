------------------------ MODULE BinkpHandshakeProofs ------------------------
(***************************************************************************)
(* The busy flags exclude: for any set of nodes, addresses, crossing calls *)
(* and configurations, a session holds the flag of every address it works  *)
(* for, and every flag of a session has a session to remove it. The second *)
(* part of the module proves what the two ends of a login agree on.        *)
(***************************************************************************)
EXTENDS BinkpHandshake, TLAPS

(* What the proof needs to know of the shape of the state: which fields a  *)
(* STATE has, that its addresses are addresses, and that the flags are a   *)
(* table of all of them.                                                   *)
EndFields ==
    {"pc", "state", "ext", "NR", "ND", "MD", "chal", "buggy", "crypt", "epwd",
     "fa", "todo", "ipv", "main", "asks", "key_in", "key_out", "sent", "heard"}

Shape ==
    /\ DOMAIN end = Calls
    /\ \A c \in Calls : DOMAIN end[c] = Sides
    /\ \A c \in Calls, s \in Sides : DOMAIN end[c][s] = EndFields
    /\ \A c \in Calls, s \in Sides : end[c][s].fa \subseteq Addresses
    /\ DOMAIN bsy = Nodes
    /\ \A n \in Nodes : DOMAIN bsy[n] = Addresses

LockInv == Shape /\ LinksHeld /\ NoFlagLeft

(* The owners of a flag are told apart from a flag that is free, and from  *)
(* one of another program (bsy_add).                                       *)
LEMMA OwnersDiffer ==
    /\ \A c, s : Owner(c, s) # Free /\ Owner(c, s) # Tosser
    /\ \A c, s, d, t : Owner(c, s) = Owner(d, t) => c = d /\ s = t
BY DEF Free, Tosser, Owner

(* Becomes changes one end and no other *)
LEMMA BecomesEnd ==
    ASSUME Shape, NEW c \in Calls, NEW s \in Sides, NEW e,
           DOMAIN e = EndFields, Becomes(c, s, e)
    PROVE  /\ DOMAIN end' = Calls
           /\ \A d \in Calls : DOMAIN end'[d] = Sides
           /\ \A d \in Calls, t \in Sides : DOMAIN end'[d][t] = EndFields
           /\ end'[c][s] = e
           /\ \A d \in Calls, t \in Sides :
                  ~(d = c /\ t = s) => end'[d][t] = end[d][t]
<1>1. DOMAIN end = Calls /\ \A d \in Calls : DOMAIN end[d] = Sides
  BY DEF Shape
<1>2. /\ DOMAIN end' = Calls
      /\ \A d \in Calls : DOMAIN end'[d] = Sides
      /\ end'[c][s] = e
      /\ \A d \in Calls, t \in Sides :
             ~(d = c /\ t = s) => end'[d][t] = end[d][t]
  BY <1>1 DEF Becomes
<1>3. ASSUME NEW d \in Calls, NEW t \in Sides
      PROVE  DOMAIN end'[d][t] = EndFields
  <2>1. CASE d = c /\ t = s
    BY <2>1, <1>2
  <2>2. CASE ~(d = c /\ t = s)
    BY <2>2, <1>2 DEF Shape
  <2> QED  BY <2>1, <2>2
<1> QED  BY <1>2, <1>3

(* The node of an end is a node *)
LEMMA NodeOfEnd ==
    ASSUME CallsAssumption, NEW c \in Calls, NEW s \in Sides
    PROVE  NodeOf(c, s) \in Nodes
BY DEF CallsAssumption, NodeOf, Sides

(* A step in which one end changes and keeps its addresses, and no flag is *)
(* touched.                                                                *)
LEMMA KeepLock ==
    ASSUME LockInv, NEW c \in Calls, NEW s \in Sides, NEW e,
           DOMAIN e = EndFields, e.fa = end[c][s].fa,
           Becomes(c, s, e), UNCHANGED bsy
    PROVE  LockInv'
<1>1. /\ DOMAIN end' = Calls
      /\ \A d \in Calls : DOMAIN end'[d] = Sides
      /\ \A d \in Calls, t \in Sides :
             DOMAIN end'[d][t] = EndFields /\ end'[d][t].fa = end[d][t].fa
  BY DEF LockInv, Shape, Becomes
<1>2. Shape'
  BY <1>1 DEF LockInv, Shape
<1>3. LinksHeld' /\ NoFlagLeft'
  BY <1>1 DEF LockInv, LinksHeld, NoFlagLeft
<1> QED  BY <1>2, <1>3 DEF LockInv

(* deinit_protocol removes the flags of its own addresses and no others:   *)
(* the flags it removes by their names are all its own.                    *)
LEMMA QuitLock ==
    ASSUME LockInv, CallsAssumption, NEW c \in Calls, NEW s \in Sides, NEW ms,
           Quit(c, s, ms)
    PROVE  LockInv'
<1> DEFINE n == NodeOf(c, s)
<1>0. n \in Nodes
  BY NodeOfEnd
<1>1. /\ DOMAIN end' = Calls
      /\ \A d \in Calls : DOMAIN end'[d] = Sides
      /\ \A d \in Calls, t \in Sides : DOMAIN end'[d][t] = EndFields
      /\ end'[c][s].fa = {}
      /\ \A d \in Calls, t \in Sides : ~(d = c /\ t = s) =>
             end'[d][t].fa = end[d][t].fa
  <2> DEFINE e == [end[c][s] EXCEPT !.pc = "closed", !.fa = {}, !.todo = <<>>]
  <2>1. DOMAIN end[c][s] = EndFields
    BY DEF LockInv, Shape
  <2>2. DOMAIN e = EndFields /\ e.fa = {}
    BY <2>1 DEF EndFields
  <2>3. Becomes(c, s, e)
    BY DEF Quit
  <2> HIDE DEF e
  <2>4. Shape
    BY DEF LockInv
  <2>5. /\ DOMAIN end' = Calls
        /\ \A d \in Calls : DOMAIN end'[d] = Sides
        /\ \A d \in Calls, t \in Sides : DOMAIN end'[d][t] = EndFields
        /\ end'[c][s] = e
        /\ \A d \in Calls, t \in Sides :
               ~(d = c /\ t = s) => end'[d][t] = end[d][t]
    BY <2>2, <2>3, <2>4, BecomesEnd, ZenonT(60)
  <2>6. end'[c][s].fa = {}
    BY <2>2, <2>5
  <2>7. ASSUME NEW d \in Calls, NEW t \in Sides, ~(d = c /\ t = s)
        PROVE  end'[d][t].fa = end[d][t].fa
    BY <2>5, <2>7
  <2> QED  BY <2>5, <2>6, <2>7
<1>2. /\ DOMAIN bsy' = Nodes
      /\ \A m \in Nodes : DOMAIN bsy'[m] = Addresses
      /\ \A m \in Nodes, a \in Addresses :
             /\ m = n /\ a \in end[c][s].fa => bsy'[m][a] = Free
             /\ ~(m = n /\ a \in end[c][s].fa) => bsy'[m][a] = bsy[m][a]
  BY <1>0 DEF LockInv, Shape, Quit
<1>3. Shape'
  BY <1>1, <1>2, ZenonT(60) DEF LockInv, Shape
<1>4. LinksHeld'
  <2> SUFFICES ASSUME NEW d \in Calls, NEW t \in Sides, NEW a \in end'[d][t].fa
               PROVE  bsy'[NodeOf(d, t)][a] = Owner(d, t)
    BY DEF LinksHeld
  <2>1. ~(d = c /\ t = s) /\ a \in end[d][t].fa /\ a \in Addresses
    BY <1>1 DEF LockInv, Shape
  <2>2. bsy[NodeOf(d, t)][a] = Owner(d, t)
    BY <2>1 DEF LockInv, LinksHeld
  <2>3. NodeOf(d, t) \in Nodes
    BY DEF CallsAssumption, NodeOf, Sides
  <2>4. ASSUME NodeOf(d, t) = n, a \in end[c][s].fa
        PROVE  FALSE
    <3>1. bsy[n][a] = Owner(c, s)
      BY <2>4 DEF LockInv, LinksHeld
    <3>2. Owner(c, s) = Owner(d, t)
      BY <3>1, <2>2, <2>4
    <3> QED  BY <3>2, <2>1, OwnersDiffer
  <2> QED  BY <1>2, <2>1, <2>2, <2>3, <2>4
<1>5. NoFlagLeft'
  <2> SUFFICES ASSUME NEW m \in Nodes, NEW a \in Addresses, NEW d \in Calls,
                      NEW t \in Sides, bsy'[m][a] = Owner(d, t)
               PROVE  NodeOf(d, t) = m /\ a \in end'[d][t].fa
    BY DEF NoFlagLeft
  <2>1. bsy[m][a] = Owner(d, t) /\ ~(m = n /\ a \in end[c][s].fa)
    BY <1>2, OwnersDiffer
  <2>2. NodeOf(d, t) = m /\ a \in end[d][t].fa
    BY <2>1 DEF LockInv, NoFlagLeft
  <2> QED  BY <1>1, <2>1, <2>2
<1> QED  BY <1>3, <1>4, <1>5 DEF LockInv

(* Checked leaves the addresses of the end alone *)
LEMMA CheckedEnd ==
    ASSUME NEW c, NEW s, DOMAIN end[c][s] = EndFields
    PROVE  DOMAIN Checked(c, s) = EndFields /\ Checked(c, s).fa = end[c][s].fa
<1> DEFINE r == end[c][s]
<1>1. r = end[c][s]
  OBVIOUS
<1> HIDE DEF r
<1>2. DOMAIN r = EndFields
  BY <1>1
<1>3. DOMAIN Checked(c, s) = EndFields /\ Checked(c, s).fa = r.fa
  BY <1>1, <1>2 DEF EndFields, Checked
<1> QED  BY <1>1, <1>3

(* AdrLock: bsy_add creates the flag only where there was none *)
LEMMA AddLock ==
    ASSUME LockInv, CallsAssumption, NEW c \in Calls, NEW s \in Sides,
           AdrLock(c, s)
    PROVE  LockInv'
<1> DEFINE n == NodeOf(c, s)
           b == Aka(c, s)
<1>0. n \in Nodes /\ b \in Addresses /\ bsy[n][b] = Free
  BY DEF CallsAssumption, NodeOf, Sides, AdrLock, InADR, BsyFree
<1>1. /\ DOMAIN end' = Calls
      /\ \A d \in Calls : DOMAIN end'[d] = Sides
      /\ \A d \in Calls, t \in Sides : DOMAIN end'[d][t] = EndFields
      /\ end'[c][s].fa = end[c][s].fa \cup {b}
      /\ \A d \in Calls, t \in Sides : ~(d = c /\ t = s) =>
             end'[d][t].fa = end[d][t].fa
  <2> DEFINE k == Checked(c, s)
  <2>0. Shape /\ DOMAIN end[c][s] = EndFields
    BY DEF LockInv, Shape
  <2>1. DOMAIN k = EndFields /\ k.fa = end[c][s].fa
    BY <2>0, CheckedEnd
  <2> DEFINE e == [k EXCEPT !.fa = @ \cup {b}, !.main = @ \/ (s = "o" /\ b = To[c])]
  <2>2. DOMAIN e = EndFields /\ e.fa = end[c][s].fa \cup {b}
    BY <2>1 DEF EndFields
  <2>3. Becomes(c, s, e)
    BY DEF AdrLock
  <2> HIDE DEF e
  <2>5. /\ DOMAIN end' = Calls
        /\ \A d \in Calls : DOMAIN end'[d] = Sides
        /\ \A d \in Calls, t \in Sides : DOMAIN end'[d][t] = EndFields
        /\ end'[c][s] = e
        /\ \A d \in Calls, t \in Sides :
               ~(d = c /\ t = s) => end'[d][t] = end[d][t]
    BY <2>0, <2>2, <2>3, BecomesEnd, ZenonT(60)
  <2>6. end'[c][s].fa = end[c][s].fa \cup {b}
    BY <2>2, <2>5
  <2>7. ASSUME NEW d \in Calls, NEW t \in Sides, ~(d = c /\ t = s)
        PROVE  end'[d][t].fa = end[d][t].fa
    BY <2>5, <2>7
  <2> QED  BY <2>5, <2>6, <2>7
<1>2. /\ DOMAIN bsy' = Nodes
      /\ \A m \in Nodes : DOMAIN bsy'[m] = Addresses
      /\ \A m \in Nodes, a \in Addresses :
             /\ m = n /\ a = b => bsy'[m][a] = Owner(c, s)
             /\ ~(m = n /\ a = b) => bsy'[m][a] = bsy[m][a]
  BY <1>0 DEF LockInv, Shape, AdrLock, bsy_add
<1> HIDE DEF n, b
<1>3. Shape'
  <2>1. ASSUME NEW d \in Calls, NEW t \in Sides
        PROVE  end'[d][t].fa \subseteq Addresses
    <3>0. end[d][t].fa \subseteq Addresses
      BY DEF LockInv, Shape
    <3>1. CASE d = c /\ t = s
      <4>1. end'[d][t].fa = end[d][t].fa \cup {b}
        BY <3>1, <1>1
      <4> QED  BY <4>1, <3>0, <1>0
    <3>2. CASE ~(d = c /\ t = s)
      BY <3>0, <3>2, <1>1
    <3> QED  BY <3>1, <3>2
  <2> QED  BY <1>1, <1>2, <2>1 DEF Shape
<1>4. LinksHeld'
  <2> SUFFICES ASSUME NEW d \in Calls, NEW t \in Sides, NEW a \in end'[d][t].fa
               PROVE  bsy'[NodeOf(d, t)][a] = Owner(d, t)
    BY DEF LinksHeld
  <2>1. NodeOf(d, t) \in Nodes
    BY DEF CallsAssumption, NodeOf, Sides
  <2>2. a \in Addresses
    BY <1>0, <1>1, <1>3 DEF Shape
  <2>3. CASE a \in end[d][t].fa
    <3>1. bsy[NodeOf(d, t)][a] = Owner(d, t)
      BY <2>3 DEF LockInv, LinksHeld
    <3>2. ~(NodeOf(d, t) = n /\ a = b)
      BY <3>1, <1>0, OwnersDiffer
    <3> QED  BY <3>1, <3>2, <2>1, <2>2, <1>2
  <2>4. CASE a \notin end[d][t].fa
    <3>1. d = c /\ t = s /\ a = b
      <4>1. CASE ~(d = c /\ t = s)
        BY <4>1, <2>4, <1>1
      <4>2. CASE d = c /\ t = s
        <5>1. a \in end[c][s].fa \cup {b}
          BY <4>2, <1>1
        <5> QED  BY <5>1, <4>2, <2>4
      <4> QED  BY <4>1, <4>2
    <3> QED  BY <3>1, <1>0, <1>2 DEF n
  <2> QED  BY <2>3, <2>4
<1>5. NoFlagLeft'
  <2> SUFFICES ASSUME NEW m \in Nodes, NEW a \in Addresses, NEW d \in Calls,
                      NEW t \in Sides, bsy'[m][a] = Owner(d, t)
               PROVE  NodeOf(d, t) = m /\ a \in end'[d][t].fa
    BY DEF NoFlagLeft
  <2>1. CASE m = n /\ a = b
    <3>1. d = c /\ t = s
      <4>1. Owner(c, s) = Owner(d, t)
        BY <2>1, <1>2
      <4> QED  BY <4>1, OwnersDiffer
    <3> QED  BY <3>1, <2>1, <1>1 DEF n
  <2>2. CASE ~(m = n /\ a = b)
    <3>1. bsy[m][a] = Owner(d, t)
      BY <2>2, <1>2
    <3>2. NodeOf(d, t) = m /\ a \in end[d][t].fa
      BY <3>1 DEF LockInv, NoFlagLeft
    <3> QED  BY <3>2, <1>1
  <2> QED  BY <2>1, <2>2
<1> QED  BY <1>3, <1>4, <1>5 DEF LockInv

(* Other programs take only free flags and remove only their own *)
LEMMA TosserLock ==
    ASSUME LockInv, CallsAssumption, NEW n \in Nodes, NEW a \in Addresses,
           TosserLocks(n, a) \/ TosserFrees(n, a)
    PROVE  LockInv'
<1>1. PICK v \in {Free, Tosser} : bsy' = [bsy EXCEPT ![n][a] = v]
  BY DEF TosserLocks, TosserFrees
<1>2. end' = end /\ bsy[n][a] \in {Free, Tosser}
  BY DEF TosserLocks, TosserFrees
<1>3. /\ DOMAIN bsy' = Nodes
      /\ \A m \in Nodes : DOMAIN bsy'[m] = Addresses
      /\ \A m \in Nodes, b \in Addresses :
             /\ m = n /\ b = a => bsy'[m][b] = v
             /\ ~(m = n /\ b = a) => bsy'[m][b] = bsy[m][b]
  BY <1>1 DEF LockInv, Shape
<1>4. Shape'
  BY <1>2, <1>3 DEF LockInv, Shape
<1>5. LinksHeld'
  <2> SUFFICES ASSUME NEW d \in Calls, NEW t \in Sides, NEW b \in end[d][t].fa
               PROVE  bsy'[NodeOf(d, t)][b] = Owner(d, t)
    BY <1>2 DEF LinksHeld
  <2>1. NodeOf(d, t) \in Nodes /\ b \in Addresses
    BY DEF CallsAssumption, NodeOf, Sides, LockInv, Shape
  <2>2. bsy[NodeOf(d, t)][b] = Owner(d, t)
    BY DEF LockInv, LinksHeld
  <2>3. ~(NodeOf(d, t) = n /\ b = a)
    BY <2>2, <1>2, OwnersDiffer
  <2> QED  BY <2>1, <2>2, <2>3, <1>3
<1>6. NoFlagLeft'
  <2> SUFFICES ASSUME NEW m \in Nodes, NEW b \in Addresses, NEW d \in Calls,
                      NEW t \in Sides, bsy'[m][b] = Owner(d, t)
               PROVE  NodeOf(d, t) = m /\ b \in end'[d][t].fa
    BY DEF NoFlagLeft
  <2>1. bsy[m][b] = Owner(d, t)
    <3>1. CASE m = n /\ b = a
      <4>1. Owner(d, t) \in {Free, Tosser}
        BY <3>1, <1>3
      <4>2. Owner(d, t) # Free /\ Owner(d, t) # Tosser
        BY OwnersDiffer
      <4> QED  BY <4>1, <4>2
    <3>2. CASE ~(m = n /\ b = a)
      BY <3>2, <1>3
    <3> QED  BY <3>1, <3>2
  <2>2. NodeOf(d, t) = m /\ b \in end[d][t].fa
    BY <2>1 DEF LockInv, NoFlagLeft
  <2> QED  BY <2>2, <1>2
<1> QED  BY <1>4, <1>5, <1>6 DEF LockInv

(* complete_login and the answer to M_PWD leave the addresses alone *)
LEMMA LoginEnd ==
    ASSUME NEW c, NEW s, NEW e, DOMAIN e = EndFields
    PROVE  /\ DOMAIN complete_login(c, s, e) = EndFields
           /\ complete_login(c, s, e).fa = e.fa
BY DEF EndFields, complete_login

LEMMA PwdLock ==
    ASSUME LockInv, NEW c \in Calls, NEW m, PwdAccepted(c, end[c]["a"], m)
    PROVE  LockInv'
<1> DEFINE r     == end[c]["a"]
           noPwd == r.epwd = "-"
           e1 == [r EXCEPT
                     !.state = IF noPwd THEN "NONSECURE" ELSE "SECURE",
                     !.ext   = IF noPwd /\ m.md /\ ~GoodPwd(r, m)
                               THEN "WE_NONSECURE" ELSE @,
                     !.MD    = IF (noPwd => m.md) /\ ByDigest(r, m) THEN 1 ELSE @]
           e2 == [e1 EXCEPT
                     !.crypt = IF e1.state = "SECURE" /\ (@ = Both => CryptAllowed(e1))
                               THEN @ ELSE {},
                     !.ND = NegotiateND(e1)]
           e3 == [e2 EXCEPT !.NR = NegotiateNR(c, e2)]
           e4 == complete_login(c, "a", e3)
<1>1. Becomes(c, "a", e4) /\ UNCHANGED bsy
  BY DEF PwdAccepted
<1>2. "a" \in Sides /\ DOMAIN r = EndFields
  BY DEF LockInv, Shape, Sides
<1> HIDE DEF r, noPwd
<1>3. DOMAIN e1 = EndFields /\ e1.fa = r.fa
  BY <1>2 DEF EndFields
<1> HIDE DEF e1
<1>4. DOMAIN e2 = EndFields /\ e2.fa = e1.fa
  BY <1>3 DEF EndFields
<1> HIDE DEF e2
<1>5. DOMAIN e3 = EndFields /\ e3.fa = e2.fa
  BY <1>4 DEF EndFields
<1> HIDE DEF e3
<1>6. DOMAIN e4 = EndFields /\ e4.fa = e3.fa
  BY <1>5, LoginEnd
<1> HIDE DEF e4
<1>7. e4.fa = end[c]["a"].fa
  BY <1>3, <1>4, <1>5, <1>6 DEF r
<1> QED  BY <1>1, <1>2, <1>6, <1>7, KeepLock

LEMMA OkLock ==
    ASSUME LockInv, NEW c \in Calls, OK(c)
    PROVE  LockInv'
<1> DEFINE r  == end[c]["o"]
           e1 == OkState(c, Head(net[c]["o"]))
           e2 == complete_login(c, "o", e1)
<1>1. Becomes(c, "o", e2) /\ UNCHANGED bsy
  BY DEF OK
<1>2. "o" \in Sides /\ DOMAIN r = EndFields
  BY DEF LockInv, Shape, Sides
<1>3. DOMAIN e1 = EndFields /\ e1.fa = r.fa
  BY <1>2 DEF EndFields, OkState
<1> HIDE DEF e1
<1>4. DOMAIN e2 = EndFields /\ e2.fa = e1.fa
  BY <1>3, LoginEnd
<1> HIDE DEF e2
<1> QED  BY <1>1, <1>2, <1>3, <1>4, KeepLock

(* The frames that an end reads and writes in one go *)
LEMMA FrameLock ==
    ASSUME LockInv, CallsAssumption, NEW c \in Calls, NEW s \in Sides,
           \/ banner(c, s) \/ NUL_VER(c, s) \/ NUL_OPT(c, s)
           \/ msg_send2(c, s) \/ recv_block(c, s)
    PROVE  LockInv'
<1>0. DOMAIN end[c][s] = EndFields
  BY DEF LockInv, Shape
<1>1. CASE banner(c, s)
  <2>1. CASE s = "o"
    <3> DEFINE e == [end[c]["o"] EXCEPT !.pc = "up", !.NR = AutoNR(c, "o", end[c]["o"])]
    <3>1. DOMAIN e = EndFields /\ e.fa = end[c][s].fa
      BY <1>0, <2>1 DEF EndFields
    <3>2. Becomes(c, s, e) /\ UNCHANGED bsy
      BY <1>1, <2>1 DEF banner, BannerOut
    <3> HIDE DEF e
    <3> QED  BY <3>1, <3>2, KeepLock
  <2>2. CASE s # "o"
    <3> DEFINE e == [end[c]["a"] EXCEPT !.pc = "up", !.chal = ~conf[Called[c]].no_MD5]
    <3>0. s = "a"
      BY <2>2 DEF Sides
    <3>1. DOMAIN e = EndFields /\ e.fa = end[c][s].fa
      BY <1>0, <3>0 DEF EndFields
    <3>2. Becomes(c, s, e) /\ UNCHANGED bsy
      BY <1>1, <2>2, <3>0 DEF banner, BannerIn
    <3> HIDE DEF e
    <3> QED  BY <3>1, <3>2, KeepLock
  <2> QED  BY <2>1, <2>2
<1>2. CASE NUL_VER(c, s)
  <2> DEFINE e == [end[c][s] EXCEPT !.buggy = @ \/ Head(net[c][s]).old]
  <2>1. DOMAIN e = EndFields /\ e.fa = end[c][s].fa
    BY <1>0 DEF EndFields
  <2>2. Becomes(c, s, e) /\ UNCHANGED bsy
    BY <1>2 DEF NUL_VER
  <2> HIDE DEF e
  <2> QED  BY <2>1, <2>2, KeepLock
<1>3. CASE NUL_OPT(c, s)
  <2> DEFINE w == Head(net[c][s]).w
             e == [end[c][s] EXCEPT
                      !.NR    = @ \cup If("NR" \in w, "WE"),
                      !.ND    = (@ \cup If("ND" \in w, "WE")) \cup If("NDA" \in w, "NDA"),
                      !.crypt = @ \cup If("CRYPT" \in w, "THEY"),
                      !.chal  = @ \/ /\ "CRAM" \in w /\ s = "o"
                                     /\ ~conf[Caller[c]].no_MD5 /\ Me(c).md >= 0]
  <2>1. DOMAIN e = EndFields /\ e.fa = end[c][s].fa
    BY <1>0 DEF EndFields
  <2>2. Becomes(c, s, e) /\ UNCHANGED bsy
    BY <1>3 DEF NUL_OPT
  <2> HIDE DEF e
  <2> QED  BY <2>1, <2>2, KeepLock
<1>4. CASE msg_send2(c, s)
  <2> DEFINE e == [end[c][s] EXCEPT !.sent = TRUE]
  <2>1. DOMAIN e = EndFields /\ e.fa = end[c][s].fa
    BY <1>0 DEF EndFields
  <2>2. Becomes(c, s, e) /\ UNCHANGED bsy
    BY <1>4 DEF msg_send2
  <2> HIDE DEF e
  <2> QED  BY <2>1, <2>2, KeepLock
<1>5. CASE recv_block(c, s)
  <2> DEFINE e == [end[c][s] EXCEPT
                      !.heard = IF Head(net[c][s]).key = end[c][s].key_in
                                THEN "clear" ELSE "garbage"]
  <2>1. DOMAIN e = EndFields /\ e.fa = end[c][s].fa
    BY <1>0 DEF EndFields
  <2>2. Becomes(c, s, e) /\ UNCHANGED bsy
    BY <1>5 DEF recv_block
  <2> HIDE DEF e
  <2> QED  BY <2>1, <2>2, KeepLock
<1> QED  BY <1>1, <1>2, <1>3, <1>4, <1>5

(* M_ADR, its addresses one by one, and their end *)
LEMMA AdrLocks ==
    ASSUME LockInv, CallsAssumption, NEW c \in Calls, NEW s \in Sides,
           \/ ADR(c, s) \/ AdrDrop(c, s) \/ AdrUnparsable(c, s) \/ AdrBadIP(c, s)
           \/ AdrLock(c, s) \/ AdrBusy(c, s) \/ AdrFails(c, s)
    PROVE  LockInv'
<1>0. DOMAIN end[c][s] = EndFields
  BY DEF LockInv, Shape
<1>1. CASE ADR(c, s)
  <2> DEFINE akas == add_shared_akas(Head(net[c][s]).a, conf[NodeOf(c, s)].shares)
             e == [end[c][s] EXCEPT
                      !.pc = "adr", !.todo = akas,
                      !.epwd = IF s = "o" THEN Me(c).out_pwd ELSE @]
  <2>1. DOMAIN e = EndFields /\ e.fa = end[c][s].fa
    BY <1>0 DEF EndFields
  <2>2. Quit(c, s, <<>>) \/ (Becomes(c, s, e) /\ UNCHANGED bsy)
    BY <1>1 DEF ADR
  <2> HIDE DEF e
  <2> QED  BY <2>1, <2>2, KeepLock, QuitLock
<1>2. CASE AdrDrop(c, s)
  <2> DEFINE e == [end[c][s] EXCEPT
                      !.todo = Tail(@), !.ipv = IPVerified(c, s),
                      !.epwd = IF ~BadIP(c, s) /\ (Disabled(c, s) \/ s = "a")
                               THEN "" ELSE @]
  <2>1. DOMAIN e = EndFields /\ e.fa = end[c][s].fa
    BY <1>0 DEF EndFields
  <2>2. Becomes(c, s, e) /\ UNCHANGED bsy
    BY <1>2 DEF AdrDrop
  <2> HIDE DEF e
  <2> QED  BY <2>1, <2>2, KeepLock
<1>3. CASE AdrUnparsable(c, s) \/ AdrBadIP(c, s)
  BY <1>3, QuitLock DEF AdrUnparsable, AdrBadIP
<1>4. CASE AdrLock(c, s)
  BY <1>4, AddLock
<1>5. CASE AdrBusy(c, s)
  <2> DEFINE e == Checked(c, s)
  <2>1. DOMAIN e = EndFields /\ e.fa = end[c][s].fa
    BY <1>0, CheckedEnd
  <2>2. Quit(c, s, <<M_BSY>>) \/ (Becomes(c, s, e) /\ UNCHANGED bsy)
    BY <1>5 DEF AdrBusy
  <2> HIDE DEF e
  <2> QED  BY <2>1, <2>2, KeepLock, QuitLock
<1>6. CASE AdrFails(c, s)
  BY <1>6, QuitLock DEF AdrFails
<1> QED  BY <1>1, <1>2, <1>3, <1>4, <1>5, <1>6

(* The ends of ADR that go on, PWD and OK *)
LEMMA LoginLock ==
    ASSUME LockInv, CallsAssumption, NEW c \in Calls,
           AdrDoneIn(c) \/ AdrDoneOut(c) \/ PWD(c) \/ OK(c)
    PROVE  LockInv'
<1>0. /\ "a" \in Sides /\ "o" \in Sides
      /\ DOMAIN end[c]["a"] = EndFields /\ DOMAIN end[c]["o"] = EndFields
  BY DEF LockInv, Shape, Sides
<1>1. CASE AdrDoneIn(c)
  <2> DEFINE r == end[c]["a"]
             secure == r.epwd \notin {"", "-"}
             e == [r EXCEPT !.pc = "up", !.asks = {},
                      !.ND = @ \cup If(<<secure, "ND">> \in r.asks, "THEY"),
                      !.NR = @ \cup If(<<secure, "NR">> \in r.asks, "WANT")]
  <2>2. Becomes(c, "a", e) /\ UNCHANGED bsy
    BY <1>1 DEF AdrDoneIn
  <2> HIDE DEF r, secure
  <2>1. DOMAIN e = EndFields /\ e.fa = r.fa
    <3>1. DOMAIN r = EndFields
      BY <1>0 DEF r
    <3> QED  BY <3>1 DEF EndFields
  <2>3. e.fa = end[c]["a"].fa
    BY <2>1 DEF r
  <2> HIDE DEF e
  <2> QED  BY <2>1, <2>2, <2>3, <1>0, KeepLock
<1>2. CASE AdrDoneOut(c)
  <2> DEFINE e == [end[c]["o"] EXCEPT !.pc = "up",
                      !.MD = IF end[c]["o"].chal THEN 1 ELSE @]
  <2>1. DOMAIN e = EndFields /\ e.fa = end[c]["o"].fa
    BY <1>0 DEF EndFields
  <2>2. Quit(c, "o", <<>>) \/ (Becomes(c, "o", e) /\ UNCHANGED bsy)
    BY <1>2 DEF AdrDoneOut
  <2> HIDE DEF e
  <2> QED  BY <2>1, <2>2, <1>0, KeepLock, QuitLock
<1>3. CASE PWD(c)
  <2>1. Quit(c, "a", <<M_ERR>>) \/ PwdAccepted(c, end[c]["a"], Head(net[c]["a"]))
    BY <1>3 DEF PWD
  <2> QED  BY <2>1, <1>0, PwdLock, QuitLock
<1>4. CASE OK(c)
  BY <1>4, OkLock
<1> QED  BY <1>1, <1>2, <1>3, <1>4

(* Nothing is locked in the beginning *)
LEMMA InitLock == Init => LockInv
<1> SUFFICES ASSUME Init PROVE LockInv
  OBVIOUS
<1>1. /\ DOMAIN end = Calls
      /\ \A c \in Calls : DOMAIN end[c] = Sides
      /\ \A c \in Calls, s \in Sides : end[c][s] = init_protocol(c, s)
  BY DEF Init
<1>2. \A c, s : DOMAIN init_protocol(c, s) = EndFields /\ init_protocol(c, s).fa = {}
  BY DEF init_protocol, EndFields
<1>3. /\ DOMAIN bsy = Nodes
      /\ \A n \in Nodes : DOMAIN bsy[n] = Addresses
      /\ \A n \in Nodes, a \in Addresses : bsy[n][a] = Free
  BY DEF Init
<1>4. \A c \in Calls, s \in Sides : DOMAIN end[c][s] = EndFields /\ end[c][s].fa = {}
  BY <1>1, <1>2
<1>5. Shape
  BY <1>1, <1>3, <1>4 DEF Shape
<1>6. LinksHeld
  BY <1>4 DEF LinksHeld
<1>7. NoFlagLeft
  BY <1>3, OwnersDiffer DEF NoFlagLeft
<1> QED  BY <1>5, <1>6, <1>7 DEF LockInv

(* A step that changes nothing *)
LEMMA StutterLock ==
    ASSUME LockInv, UNCHANGED <<end, bsy>>
    PROVE  LockInv'
BY DEF LockInv, Shape, LinksHeld, NoFlagLeft

LEMMA StepLock == LockInv /\ [Next]_vars => LockInv'
<1> SUFFICES ASSUME LockInv, [Next]_vars PROVE LockInv'
  OBVIOUS
<1>1. ASSUME NEW c \in Calls, NEW s \in Sides, Turn(c, s)
      PROVE  LockInv'
  <2>1. CASE RError(c, s) \/ Done(c, s)
    BY <2>1, CallsAssumption, QuitLock DEF RError, Done
  <2>2. CASE \/ banner(c, s) \/ NUL_VER(c, s) \/ NUL_OPT(c, s)
             \/ msg_send2(c, s) \/ recv_block(c, s)
    BY <2>2, CallsAssumption, FrameLock
  <2>3. CASE \/ ADR(c, s) \/ AdrDrop(c, s) \/ AdrUnparsable(c, s) \/ AdrBadIP(c, s)
             \/ AdrLock(c, s) \/ AdrBusy(c, s) \/ AdrFails(c, s)
    BY <2>3, CallsAssumption, AdrLocks
  <2>4. CASE AdrDoneIn(c) \/ AdrDoneOut(c) \/ PWD(c) \/ OK(c)
    BY <2>4, CallsAssumption, LoginLock
  <2> QED  BY <1>1, <2>1, <2>2, <2>3, <2>4 DEF Turn
<1>2. ASSUME NEW c \in Calls, NEW s \in Sides, Break(c, s)
      PROVE  LockInv'
  BY <1>2, CallsAssumption, QuitLock DEF Break
<1>3. ASSUME NEW c \in Calls, TooManyServers(c)
      PROVE  LockInv'
  <2>1. "a" \in Sides
    BY DEF Sides
  <2>2. PICK ms : Quit(c, "a", ms)
    BY <1>3 DEF TooManyServers
  <2> QED  BY <2>1, <2>2, CallsAssumption, QuitLock
<1>4. ASSUME NEW n \in Nodes, NEW a \in Addresses,
             TosserLocks(n, a) \/ TosserFrees(n, a)
      PROVE  LockInv'
  BY <1>4, CallsAssumption, TosserLock
<1>5. CASE Over \/ UNCHANGED vars
  BY <1>5, StutterLock DEF Over, vars
<1> QED  BY <1>1, <1>2, <1>3, <1>4, <1>5 DEF Next

(* For any nodes, addresses, configurations and crossing calls: a session  *)
(* holds the busy flag of every address it works for, and nobody frees a   *)
(* flag that is not his (ADR, bsy_add, deinit_protocol).                   *)
THEOREM SessionsExclude == Spec => []LinksHeld
<1>1. LockInv => LinksHeld
  BY DEF LockInv
<1> QED  BY <1>1, InitLock, StepLock, PTL DEF Spec

(* For any nodes, addresses, configurations and crossing calls: no way     *)
(* that a login can fail or a connection break leaves a flag behind        *)
(* (the early returns of ADR and PWD, deinit_protocol).                    *)
THEOREM FlagsRemoved == Spec => []NoFlagLeft
<1>1. LockInv => NoFlagLeft
  BY DEF LockInv
<1> QED  BY <1>1, InitLock, StepLock, PTL DEF Spec


-----------------------------------------------------------------------------
(***************************************************************************)
(* What both ends know of each other: for any configurations and crossing  *)
(* calls, the two ends of a session that logged in agree on its modes, on  *)
(* whether it is protected and on the keys, a caller is served only the    *)
(* addresses it has proved the password of, and holds the node it called.  *)
(*                                                                         *)
(* The invariant Login is about one call: its two ends and the frames      *)
(* between them.  The lemmas about steps are stated for any records and    *)
(* sequences in the place of these; StepLogin puts the state there.        *)
(***************************************************************************)

(***************************************************************************)
(* The frames of one direction                                             *)
(***************************************************************************)
(* The place of a frame in the dialogue: either side sends its frames in   *)
(* this order and none of them twice (banner, ADR, PWD, OK).               *)
Rank(f) ==
    CASE f.t = "OPT" /\ "CRAM" \in f.w    -> 1
      [] f.t = "VER"                      -> 2
      [] f.t = "ADR"                      -> 3
      [] f.t = "OPT" /\ "CRAM" \notin f.w -> 4
      [] f.t = "PWD"                      -> 5
      [] f.t = "OK"                       -> 6
      [] f.t = "FIRST"                    -> 7
      [] f.t \in {"ERR", "BSY"}           -> 8
      [] OTHER                            -> 9

IsStream(q) == \E S : q \in Seq(S)
Els(q)      == {q[i] : i \in 1 .. Len(q)}
InOrder(q)  == \A i, j \in 1 .. Len(q) : i < j => Rank(q[i]) < Rank(q[j])

(* How far end e of side s of call c has got with its own frames, and with *)
(* those of the other side                                                 *)
Sent(c, s, e) ==
    IF e.pc = "closed" THEN 9
    ELSE IF e.pc = "new" THEN 0
    ELSE IF s = "o"
         THEN IF ~(e.pc = "up" /\ e.fa # {}) THEN 4 ELSE IF e.sent THEN 7 ELSE 5
         ELSE IF e.state # "NULL" THEN IF e.sent THEN 7 ELSE 6
              ELSE IF conf[Called[c]].delay_ADR /\ ~(e.pc = "up" /\ e.fa # {}) THEN 2 ELSE 3

Read(s, e) ==
    IF e.heard # "nothing" THEN 7
    ELSE IF e.state # "NULL" THEN IF s = "a" THEN 5 ELSE 6
    ELSE IF e.pc = "adr" \/ e.fa # {} THEN 3 ELSE 0

(* r reads from q what w has written *)
Queued(c, s, r, w, q) ==
    /\ IsStream(q) /\ InOrder(q)
    /\ \A f \in Els(q) : Rank(f) <= Sent(c, Other(s), w)
    /\ r.pc # "closed" => /\ Read(s, r) <= Sent(c, Other(s), w)
                          /\ \A f \in Els(q) : Read(s, r) < Rank(f)

(***************************************************************************)
(* What the frames say                                                     *)
(***************************************************************************)
WantsNR(c) == Me(c).nr \/ Me(c).nd
WordsOut(c) ==
    {"NDA"} \cup If(WantsNR(c), "NR") \cup If(Me(c).nd, "ND")
            \cup If(~conf[Caller[c]].no_crypt, "CRYPT")

WordsIn(a) ==
    (If("WANT" \in a.NR, "NR") \cup If("THEY" \in a.ND, "ND"))
      \cup (If(("WE" \in a.ND) # ("THEY" \in a.ND), "NDA") \cup If("YES" \in a.crypt, "CRYPT"))

SaidOut(c, o, q) == \A f \in Els(q) :
    /\ f.t = "OPT" => f.w = WordsOut(c)
    /\ f.t = "PWD" => f.p = Me(c).out_pwd /\ (f.md => o.MD # 0)
    /\ f.t = "FIRST" => o.state # "NULL" /\ f.key = o.key_out

SaidIn(c, a, q) == \A f \in Els(q) :
    /\ f.t = "OPT" => f.w = {"CRAM"} \/ (a.state # "NULL" /\ f.w = WordsIn(a))
    /\ f.t = "OK" => a.state # "NULL" /\ (f.secure <=> a.state = "SECURE")
    /\ f.t = "FIRST" => a.state # "NULL" /\ f.key = a.key_out

(***************************************************************************)
(* The calling end, the answering end                                      *)
(***************************************************************************)
(* No entry of a called node says -nomd: see README, section 12 *)
Accepting(cf) == \A c \in Calls : \A x \in DOMAIN cf[Called[c]].node :
    cf[Called[c]].node[x].md \in {0, 1}

Steps(e) ==
    /\ e.pc = "new" => e.state = "NULL" /\ e.fa = {} /\ e.heard = "nothing"
    /\ e.pc = "adr" => e.state = "NULL"
    /\ e.sent => e.state # "NULL"

Calling(c, o) ==
    /\ o.pc # "closed" => /\ o.main => To[c] \in o.fa
                          /\ o.pc = "up" /\ o.fa # {} => o.main
    /\ "WANT" \in o.NR <=> WantsNR(c)
    /\ "THEY" \in o.ND <=> Me(c).nd
    /\ o.state = "NULL" =>
           /\ o.crypt \subseteq Both /\ o.ext # "REMOTE_NONSECURE"
           /\ "WE" \in o.crypt <=> ~conf[Caller[c]].no_crypt
    /\ o.MD \in {-1, 0, 1}
    /\ Me(c).out_pwd \notin {"-", "!"} =>
           /\ o.epwd \in {"-", Me(c).out_pwd, ""}
           /\ o.pc = "adr" => o.epwd # "-"

(* The password expected stands for every address that is served *)
Vouched(c, a) ==
    \/ a.epwd = ""
    \/ \A x \in a.fa : Protected(c, "a", x) =>
           a.epwd # "-" /\ Pn(c, "a", x).pwd \in {"!", a.epwd}

Answering(c, a) ==
    /\ Vouched(c, a)
    /\ "THEY" \in a.ND => "WANT" \in a.NR
    /\ \A b \in BOOLEAN : <<b, "ND">> \in a.asks => <<b, "NR">> \in a.asks
    /\ a.state = "NULL" => a.crypt \subseteq Both
    /\ Accepting(conf) => a.MD \in {0, 1}

Served(c, a) ==
    /\ a.epwd # "" /\ (a.state = "SECURE" <=> a.epwd # "-")
    /\ a.epwd \notin {"-", "!"} => a.epwd = Me(c).out_pwd
    /\ "YES" \in a.crypt => ~conf[Caller[c]].no_crypt /\ a.epwd \notin {"-", "!"}
    /\ a.key_out = IF "YES" \in a.crypt THEN <<"a", a.epwd>> ELSE Plain
    /\ a.key_in  = IF "YES" \in a.crypt THEN <<"o", a.epwd>> ELSE Plain
    /\ "WE" \in a.ND <=> Me(c).nd
    /\ WantsNR(c) => "WE" \in a.NR
    /\ "WE" \in a.NR => WantsNR(c) \/ a.buggy

(***************************************************************************)
(* The options of the other side: not met yet, or taken over               *)
(***************************************************************************)
Unread(e) == "WE" \notin e.NR /\ e.ND \cap {"WE", "NDA"} = {} /\ "THEY" \notin e.crypt

TookOut(c, a) ==
    /\ "WE" \in a.NR <=> WantsNR(c)
    /\ "WE" \in a.ND <=> Me(c).nd
    /\ "NDA" \in a.ND
    /\ "THEY" \in a.crypt <=> ~conf[Caller[c]].no_crypt

TookIn(o, a) ==
    /\ "WE" \in o.NR <=> "WANT" \in a.NR
    /\ "WE" \in o.ND <=> "THEY" \in a.ND
    /\ "NDA" \in o.ND <=> (("WE" \in a.ND) # ("THEY" \in a.ND))
    /\ "THEY" \in o.crypt <=> "YES" \in a.crypt

HearsOut(c, o, a, q) ==
    a.pc # "closed" /\ a.state = "NULL" =>
        /\ Unread(a) \/ TookOut(c, a)
        /\ o.pc # "new" => TookOut(c, a) \/ \E f \in Els(q) : Rank(f) = 4

HearsIn(o, a, q) ==
    o.pc # "closed" /\ o.state = "NULL" =>
        /\ Unread(o) \/ (a.state # "NULL" /\ TookIn(o, a))
        /\ a.state # "NULL" => /\ TookIn(o, a) \/ \E f \in Els(q) : Rank(f) = 4
                               /\ \E f \in Els(q) : Rank(f) = 6

Agreed(c, o, a) ==
    /\ Accepting(conf) => o.heard # "garbage" /\ a.heard # "garbage"
    /\ a.state # "NULL" =>
           /\ o.pc = "closed" \/ (o.pc = "up" /\ o.fa # {})
           /\ Accepting(conf) /\ "YES" \in a.crypt => o.MD # 0
    /\ o.state # "NULL" =>
           /\ a.state # "NULL"
           /\ o.state = "SECURE" <=> Me(c).out_pwd # "-"
           /\ o.ext = "REMOTE_NONSECURE" <=> o.state = "SECURE" /\ a.state # "SECURE"
           /\ "WE" \in o.ND <=> "THEY" \in a.ND
           /\ "WE" \in o.NR <=> "WANT" \in a.NR
           /\ Accepting(conf) => o.key_out = a.key_in /\ o.key_in = a.key_out

Login(c, o, a, qo, qa) ==
    /\ DOMAIN o = EndFields /\ DOMAIN a = EndFields
    /\ Queued(c, "a", a, o, qa) /\ Queued(c, "o", o, a, qo)
    /\ SaidOut(c, o, qa) /\ SaidIn(c, a, qo)
    /\ Steps(o) /\ Steps(a)
    /\ Calling(c, o) /\ Answering(c, a) /\ (a.state # "NULL" => Served(c, a))
    /\ HearsOut(c, o, a, qa) /\ HearsIn(o, a, qo)
    /\ Agreed(c, o, a)

LoginInv == \A c \in Calls :
    Login(c, end[c]["o"], end[c]["a"], net[c]["o"], net[c]["a"])

-----------------------------------------------------------------------------
(* A frame has one place *)
LEMMA RankNat == ASSUME NEW f PROVE Rank(f) \in 1 .. 9
BY DEF Rank

(* The first frame of a stream and the rest of it *)
LEMMA TailStream ==
    ASSUME NEW q, IsStream(q), InOrder(q), q # <<>>
    PROVE  /\ IsStream(Tail(q)) /\ InOrder(Tail(q))
           /\ Head(q) \in Els(q)
           /\ Els(q) = {Head(q)} \cup Els(Tail(q))
           /\ \A f \in Els(Tail(q)) : Rank(Head(q)) < Rank(f)
<1>1. PICK S : q \in Seq(S)
  BY DEF IsStream
<1>2. /\ Tail(q) \in Seq(S) /\ Len(q) \in Nat \ {0} /\ Len(Tail(q)) = Len(q) - 1
      /\ Head(q) = q[1]
      /\ \A i \in 1 .. Len(q) - 1 : Tail(q)[i] = q[i + 1]
  BY <1>1
<1>3. IsStream(Tail(q))
  BY <1>2 DEF IsStream
<1>4. InOrder(Tail(q))
  <2> SUFFICES ASSUME NEW i \in 1 .. Len(q) - 1, NEW j \in 1 .. Len(q) - 1, i < j
               PROVE  Rank(q[i + 1]) < Rank(q[j + 1])
    BY <1>2 DEF InOrder
  <2>1. i + 1 \in 1 .. Len(q) /\ j + 1 \in 1 .. Len(q) /\ i + 1 < j + 1
    BY <1>2
  <2> QED  BY <2>1 DEF InOrder
<1>5. ASSUME NEW f \in Els(Tail(q)) PROVE f \in Els(q) /\ Rank(Head(q)) < Rank(f)
  <2>1. PICK i \in 1 .. Len(q) - 1 : f = q[i + 1]
    BY <1>2 DEF Els
  <2>2. i + 1 \in 1 .. Len(q) /\ 1 \in 1 .. Len(q) /\ 1 < i + 1
    BY <1>2
  <2> QED  BY <2>1, <2>2, <1>2 DEF InOrder, Els
<1>6. ASSUME NEW f \in Els(q), f # Head(q) PROVE f \in Els(Tail(q))
  <2>1. PICK i \in 1 .. Len(q) : f = q[i]
    BY DEF Els
  <2>2. i - 1 \in 1 .. Len(q) - 1 /\ (i - 1) + 1 = i
    BY <2>1, <1>2, <1>6
  <2>3. Tail(q)[i - 1] = f
    BY <2>1, <2>2, <1>2
  <2> QED  BY <2>2, <2>3, <1>2 DEF Els
<1>7. Head(q) \in Els(q)
  BY <1>2 DEF Els
<1> QED  BY <1>3, <1>4, <1>5, <1>6, <1>7

(* Frames are put behind those that were there before *)
LEMMA JoinStream ==
    ASSUME NEW q, NEW m, IsStream(q), IsStream(m), InOrder(q), InOrder(m),
           \A f \in Els(q), g \in Els(m) : Rank(f) < Rank(g)
    PROVE  /\ IsStream(q \o m) /\ InOrder(q \o m)
           /\ Els(q \o m) = Els(q) \cup Els(m)
<1>1. PICK S : q \in Seq(S)
  BY DEF IsStream
<1>2. PICK T : m \in Seq(T)
  BY DEF IsStream
<1> DEFINE U == S \cup T
<1>3. q \in Seq(U) /\ m \in Seq(U)
  BY <1>1, <1>2
<1> HIDE DEF U
<1>4. /\ q \o m \in Seq(U) /\ Len(q) \in Nat /\ Len(m) \in Nat
      /\ Len(q \o m) = Len(q) + Len(m)
      /\ \A i \in 1 .. Len(q) : (q \o m)[i] = q[i]
      /\ \A i \in 1 .. Len(m) : (q \o m)[Len(q) + i] = m[i]
  BY <1>3
<1>5. \A i \in 1 .. Len(q) + Len(m) : i \in 1 .. Len(q) \/
          (i - Len(q) \in 1 .. Len(m) /\ (q \o m)[i] = m[i - Len(q)])
  <2> SUFFICES ASSUME NEW i \in 1 .. Len(q) + Len(m), i \notin 1 .. Len(q)
               PROVE  i - Len(q) \in 1 .. Len(m) /\ (q \o m)[i] = m[i - Len(q)]
    OBVIOUS
  <2>1. i - Len(q) \in 1 .. Len(m) /\ Len(q) + (i - Len(q)) = i
    BY <1>4
  <2>2. (q \o m)[Len(q) + (i - Len(q))] = m[i - Len(q)]
    BY <2>1, <1>4
  <2> QED  BY <2>1, <2>2
<1>6. IsStream(q \o m)
  BY <1>4 DEF IsStream
<1>7. InOrder(q \o m)
  <2> SUFFICES ASSUME NEW i \in 1 .. Len(q) + Len(m), NEW j \in 1 .. Len(q) + Len(m), i < j
               PROVE  Rank((q \o m)[i]) < Rank((q \o m)[j])
    BY <1>4 DEF InOrder
  <2>1. CASE i \in 1 .. Len(q) /\ j \in 1 .. Len(q)
    BY <2>1, <1>4 DEF InOrder
  <2>2. CASE i \in 1 .. Len(q) /\ j \notin 1 .. Len(q)
    BY <2>2, <1>4, <1>5 DEF Els
  <2>3. CASE i \notin 1 .. Len(q) /\ j \notin 1 .. Len(q)
    <3>1. /\ i - Len(q) \in 1 .. Len(m) /\ (q \o m)[i] = m[i - Len(q)]
          /\ j - Len(q) \in 1 .. Len(m) /\ (q \o m)[j] = m[j - Len(q)]
      BY <2>3, <1>5
    <3>2. i - Len(q) < j - Len(q)
      BY <1>4
    <3> QED  BY <3>1, <3>2 DEF InOrder
  <2> QED  BY <2>1, <2>2, <2>3, <1>4
<1>8. Els(q \o m) = Els(q) \cup Els(m)
  <2>1. ASSUME NEW f \in Els(q \o m) PROVE f \in Els(q) \cup Els(m)
    <3>1. PICK i \in 1 .. Len(q) + Len(m) : f = (q \o m)[i]
      BY <1>4 DEF Els
    <3> QED  BY <3>1, <1>4, <1>5 DEF Els
  <2>2. ASSUME NEW f \in Els(q) PROVE f \in Els(q \o m)
    <3>1. PICK i \in 1 .. Len(q) : f = q[i]
      BY DEF Els
    <3>2. i \in 1 .. Len(q \o m)
      BY <1>4
    <3> QED  BY <3>1, <3>2, <1>4 DEF Els
  <2>3. ASSUME NEW f \in Els(m) PROVE f \in Els(q \o m)
    <3>1. PICK i \in 1 .. Len(m) : f = m[i]
      BY DEF Els
    <3>2. Len(q) + i \in 1 .. Len(q \o m)
      BY <1>4
    <3> QED  BY <3>1, <3>2, <1>4 DEF Els
  <2> QED  BY <2>1, <2>2, <2>3
<1> QED  BY <1>6, <1>7, <1>8

(* The frames an end sends at once are few *)
LEMMA ShortStreams ==
    /\ IsStream(<<>>) /\ InOrder(<<>>) /\ Els(<<>>) = {}
    /\ \A x : IsStream(<<x>>) /\ InOrder(<<x>>) /\ Els(<<x>>) = {x}
    /\ \A x, y : IsStream(<<x, y>>) /\ Els(<<x, y>>) = {x, y}
                 /\ (Rank(x) < Rank(y) => InOrder(<<x, y>>))
<1>1. IsStream(<<>>) /\ InOrder(<<>>) /\ Els(<<>>) = {}
  <2>1. <<>> \in Seq({}) /\ Len(<<>>) = 0
    OBVIOUS
  <2> QED  BY <2>1 DEF IsStream, InOrder, Els
<1>2. ASSUME NEW x PROVE IsStream(<<x>>) /\ InOrder(<<x>>) /\ Els(<<x>>) = {x}
  <2> DEFINE q == <<x>>
  <2>1. q \in Seq({x}) /\ Len(q) = 1 /\ q[1] = x
    OBVIOUS
  <2> HIDE DEF q
  <2>2. 1 .. Len(q) = {1}
    BY <2>1
  <2>3. IsStream(q)
    BY <2>1 DEF IsStream
  <2>4. InOrder(q)
    BY <2>1 DEF InOrder
  <2>5. Els(q) = {x}
    BY <2>1, <2>2 DEF Els
  <2> QED  BY <2>3, <2>4, <2>5 DEF q
<1>3. ASSUME NEW x, NEW y
      PROVE  /\ IsStream(<<x, y>>) /\ Els(<<x, y>>) = {x, y}
             /\ Rank(x) < Rank(y) => InOrder(<<x, y>>)
  <2> DEFINE q == <<x, y>>
  <2>1. q \in Seq({x, y}) /\ Len(q) = 2 /\ q[1] = x /\ q[2] = y
    OBVIOUS
  <2> HIDE DEF q
  <2>2. 1 .. Len(q) = {1, 2}
    BY <2>1
  <2>3. IsStream(q)
    BY <2>1 DEF IsStream
  <2>4. ASSUME Rank(x) < Rank(y) PROVE InOrder(q)
    <3>1. \A i, j \in {1, 2} : i < j => i = 1 /\ j = 2
      OBVIOUS
    <3> QED  BY <2>1, <2>2, <2>4, <3>1 DEF InOrder
  <2>5. Els(q) = {x, y}
    BY <2>1, <2>2 DEF Els
  <2> QED  BY <2>3, <2>4, <2>5 DEF q
<1> QED  BY <1>1, <1>2, <1>3

LEMMA ThreeFrames ==
    ASSUME NEW x, NEW y, NEW z, Rank(x) < Rank(y), Rank(y) < Rank(z)
    PROVE  /\ IsStream(<<x, y, z>>) /\ InOrder(<<x, y, z>>)
           /\ Els(<<x, y, z>>) = {x, y, z}
<1> DEFINE q == <<x, y, z>>
<1>1. q \in Seq({x, y, z}) /\ Len(q) = 3 /\ q[1] = x /\ q[2] = y /\ q[3] = z
  OBVIOUS
<1> HIDE DEF q
<1>2. 1 .. Len(q) = {1, 2, 3}
  BY <1>1
<1>3. IsStream(q)
  BY <1>1 DEF IsStream
<1>4. InOrder(q)
  <2>1. Rank(x) < Rank(z)
    BY RankNat
  <2> QED  BY <1>1, <1>2, <2>1 DEF InOrder
<1>5. Els(q) = {x, y, z}
  BY <1>1, <1>2 DEF Els
<1> QED  BY <1>3, <1>4, <1>5 DEF q

-----------------------------------------------------------------------------
(* Where an end can be *)
LEMMA Marks ==
    ASSUME NEW c, NEW s, NEW e
    PROVE  Sent(c, s, e) \in 0 .. 9 /\ Read(s, e) \in 0 .. 7
BY DEF Sent, Read

(* An end reads the first frame of its stream *)
LEMMA ReadQueue ==
    ASSUME NEW c, NEW s, NEW r, NEW w, NEW q, NEW e, Queued(c, s, r, w, q),
           q # <<>>, r.pc # "closed", Read(s, e) <= Rank(Head(q))
    PROVE  Queued(c, s, e, w, Tail(q))
<1>1. /\ IsStream(Tail(q)) /\ InOrder(Tail(q)) /\ Head(q) \in Els(q)
      /\ Els(q) = {Head(q)} \cup Els(Tail(q))
      /\ \A f \in Els(Tail(q)) : Rank(Head(q)) < Rank(f)
  BY TailStream DEF Queued
<1>2. Rank(Head(q)) <= Sent(c, Other(s), w)
  BY <1>1 DEF Queued
<1>3. Sent(c, Other(s), w) \in Int /\ Read(s, e) \in Int /\ \A f : Rank(f) \in Int
  BY Marks, RankNat, SMTT(30)
<1>4. Read(s, e) <= Sent(c, Other(s), w)
  BY <1>2, <1>3
<1>5. \A f \in Els(Tail(q)) : Read(s, e) < Rank(f) /\ Rank(f) <= Sent(c, Other(s), w)
  BY <1>1, <1>3 DEF Queued
<1> QED  BY <1>1, <1>4, <1>5 DEF Queued

(* Nothing is read, or the reader leaves *)
LEMMA StayQueue ==
    ASSUME NEW c, NEW s, NEW r, NEW w, NEW q, NEW e, Queued(c, s, r, w, q),
           e.pc # "closed" => r.pc # "closed" /\ Read(s, e) = Read(s, r)
    PROVE  Queued(c, s, e, w, q)
BY DEF Queued

LEMMA ClosedQueue ==
    ASSUME NEW c, NEW s, NEW w, NEW e, e.pc = "closed"
    PROVE  Queued(c, s, e, w, <<>>)
BY ShortStreams DEF Queued

(* The frames m of side s follow all that w has sent, and come up to where *)
(* e is                                                                    *)
Ahead(c, s, w, e, m) ==
    /\ IsStream(m) /\ InOrder(m)
    /\ Sent(c, s, w) <= Sent(c, s, e)
    /\ \A f \in Els(m) : Sent(c, s, w) < Rank(f) /\ Rank(f) <= Sent(c, s, e)

Join(q, m) == q \o m
Adds(q, m) == Els(Join(q, m)) = Els(q) \cup Els(m)

LEMMA WriteQueue ==
    ASSUME NEW c, NEW s, NEW r, NEW w, NEW q, NEW e, NEW m, NEW u, u = Other(s),
           Queued(c, s, r, w, q), Ahead(c, u, w, e, m)
    PROVE  Queued(c, s, r, e, Join(q, m)) /\ Adds(q, m)
<1>1. /\ Sent(c, u, w) \in Int /\ Sent(c, u, e) \in Int
      /\ Read(s, r) \in Int /\ \A f : Rank(f) \in Int
  BY Marks, RankNat
<1>2. \A f \in Els(q), g \in Els(m) : Rank(f) < Rank(g)
  BY <1>1 DEF Queued, Ahead
<1>3. IsStream(q \o m) /\ InOrder(q \o m) /\ Els(q \o m) = Els(q) \cup Els(m)
  BY <1>2, JoinStream DEF Queued, Ahead
<1>4. \A f \in Els(q \o m) : Rank(f) <= Sent(c, u, e)
  BY <1>1, <1>3 DEF Queued, Ahead
<1>5. ASSUME r.pc # "closed"
      PROVE  /\ Read(s, r) <= Sent(c, u, e)
             /\ \A f \in Els(q \o m) : Read(s, r) < Rank(f)
  BY <1>1, <1>3, <1>5 DEF Queued, Ahead
<1> QED  BY <1>3, <1>4, <1>5 DEF Queued, Join, Adds

(* An end writes nothing, and is as far as it was or farther *)
LEMMA SilentQueue ==
    ASSUME NEW c, NEW s, NEW r, NEW w, NEW q, NEW e, Queued(c, s, r, w, q),
           Sent(c, Other(s), w) <= Sent(c, Other(s), e)
    PROVE  Queued(c, s, r, e, q)
<1>1. /\ Sent(c, Other(s), w) \in Int /\ Sent(c, Other(s), e) \in Int
      /\ Read(s, r) \in Int /\ \A f : Rank(f) \in Int
  BY Marks, RankNat
<1> QED  BY <1>1 DEF Queued

(***************************************************************************)
(* Steps that neither log in nor take options over                         *)
(***************************************************************************)
LikeOut(e, o) ==
    /\ e.state = o.state /\ e.ext = o.ext
    /\ e.NR = o.NR /\ e.ND = o.ND /\ e.crypt = o.crypt
    /\ e.key_in = o.key_in /\ e.key_out = o.key_out

(* The calling end: a is told m, and q is what is left of its own stream *)
LEMMA OutGoesOn ==
    ASSUME NEW c, NEW o, NEW a, NEW qo, NEW qa, NEW e, NEW q, NEW m,
           Login(c, o, a, qo, qa), DOMAIN e = EndFields, LikeOut(e, o),
           o.pc # "closed", e.pc \notin {"closed", "new"},
           Accepting(conf) => e.heard # "garbage",
           o.MD # 0 => e.MD # 0,
           Steps(e), Calling(c, e),
           Queued(c, "o", e, a, q), Queued(c, "a", a, e, m),
           Els(q) \subseteq Els(qo),
           \A f \in Els(qo) : Rank(f) \in {4, 6} => f \in Els(q),
           Els(qa) \subseteq Els(m), SaidOut(c, e, m),
           o.pc = "new" => \E f \in Els(m) : Rank(f) = 4,
           a.state # "NULL" => e.pc = "up" /\ e.fa # {}
    PROVE  Login(c, e, a, q, m)
<1>1. SaidIn(c, a, q)
  BY DEF Login, SaidIn
<1>2. HearsOut(c, e, a, m)
  BY DEF Login, HearsOut
<1>3. HearsIn(e, a, q)
  BY DEF Login, HearsIn, Unread, TookIn, LikeOut
<1>4. Agreed(c, e, a)
  BY DEF Login, Agreed, LikeOut
<1> QED  BY <1>1, <1>2, <1>3, <1>4 DEF Login


LikeIn(e, a) ==
    /\ e.state = a.state /\ e.crypt = a.crypt
    /\ e.key_in = a.key_in /\ e.key_out = a.key_out
    /\ "WE" \in e.NR <=> "WE" \in a.NR
    /\ "WE" \in e.ND <=> "WE" \in a.ND
    /\ "NDA" \in e.ND <=> "NDA" \in a.ND
    /\ a.state # "NULL" => e.NR = a.NR /\ e.ND = a.ND

(* The answering end: o is told m, and q is what is left of its own stream *)
LEMMA InGoesOn ==
    ASSUME NEW c, NEW o, NEW a, NEW qo, NEW qa, NEW e, NEW q, NEW m,
           Login(c, o, a, qo, qa), DOMAIN e = EndFields, LikeIn(e, a),
           a.pc # "closed", e.pc # "closed",
           Accepting(conf) => e.heard # "garbage",
           Steps(e), Answering(c, e), e.state # "NULL" => Served(c, e),
           Queued(c, "a", e, o, q), Queued(c, "o", o, e, m),
           Els(q) \subseteq Els(qa),
           \A f \in Els(qa) : Rank(f) = 4 => f \in Els(q),
           Els(qo) \subseteq Els(m), SaidIn(c, e, m)
    PROVE  Login(c, o, e, m, q)
<1>1. SaidOut(c, o, q)
  BY DEF Login, SaidOut
<1>2. HearsOut(c, o, e, q)
  BY DEF Login, HearsOut, Unread, TookOut, LikeIn
<1>3. HearsIn(o, e, m)
  BY DEF Login, HearsIn, TookIn, LikeIn
<1>4. Agreed(c, o, e)
  BY DEF Login, Agreed, LikeIn
<1> QED  BY <1>1, <1>2, <1>3, <1>4 DEF Login

-----------------------------------------------------------------------------
(* What the ranks tell apart *)
LEMMA Ranks ==
    /\ \A x : Rank(VER(x)) = 2 /\ Rank(M_ADR(x)) = 3 /\ Rank(M_OK(x)) = 6 /\ Rank(First(x)) = 7
    /\ \A x, y : Rank(M_PWD(x, y)) = 5
    /\ \A w : Rank(OPT(w)) = IF "CRAM" \in w THEN 1 ELSE 4
    /\ Rank(M_ERR) = 8 /\ Rank(M_BSY) = 8 /\ Rank(EOF) = 9
<1>1. \A x : Rank(VER(x)) = 2 /\ Rank(M_ADR(x)) = 3 /\ Rank(M_OK(x)) = 6 /\ Rank(First(x)) = 7
  BY DEF Rank, VER, M_ADR, M_OK, First
<1>2. \A x, y : Rank(M_PWD(x, y)) = 5
  BY DEF Rank, M_PWD
<1>3. \A w : Rank(OPT(w)) = IF "CRAM" \in w THEN 1 ELSE 4
  BY DEF Rank, OPT
<1>4. Rank(M_ERR) = 8 /\ Rank(M_BSY) = 8 /\ Rank(EOF) = 9
  BY DEF Rank, M_ERR, M_BSY, EOF
<1> QED  BY <1>1, <1>2, <1>3, <1>4

LEMMA RankKinds ==
    ASSUME NEW f
    PROVE  /\ f.t = "VER" => Rank(f) = 2
           /\ f.t = "ADR" => Rank(f) = 3
           /\ f.t = "PWD" <=> Rank(f) = 5
           /\ f.t = "OK" <=> Rank(f) = 6
           /\ f.t = "FIRST" <=> Rank(f) = 7
           /\ f.t = "OPT" => Rank(f) = IF "CRAM" \in f.w THEN 1 ELSE 4
           /\ Rank(f) = 4 => f.t = "OPT"
BY DEF Rank

(* The three ways an end goes on: it reads a frame, works, or writes *)
LEMMA OutReads ==
    ASSUME NEW c, NEW o, NEW a, NEW qo, NEW qa, NEW e, Login(c, o, a, qo, qa),
           o.pc # "closed", qo # <<>>, Rank(Head(qo)) \notin {4, 6},
           DOMAIN e = EndFields, LikeOut(e, o), e.pc \notin {"closed", "new"}, o.pc # "new",
           Accepting(conf) => e.heard # "garbage", e.MD = o.MD,
           Steps(e), Calling(c, e), Read("o", e) <= Rank(Head(qo)),
           Sent(c, "o", o) <= Sent(c, "o", e),
           a.state # "NULL" => e.pc = "up" /\ e.fa # {}
    PROVE  Login(c, e, a, Tail(qo), qa)
<1>1. /\ Head(qo) \in Els(qo) /\ Els(qo) = {Head(qo)} \cup Els(Tail(qo))
  BY TailStream DEF Login, Queued
<1>2. Queued(c, "o", e, a, Tail(qo))
  BY ReadQueue DEF Login
<1>3. Queued(c, "a", a, e, qa)
  BY SilentQueue DEF Login, Other
<1>4. SaidOut(c, e, qa)
  BY DEF Login, SaidOut, LikeOut
<1> QED  BY <1>1, <1>2, <1>3, <1>4, OutGoesOn

LEMMA OutWorks ==
    ASSUME NEW c, NEW o, NEW a, NEW qo, NEW qa, NEW e, Login(c, o, a, qo, qa),
           o.pc # "closed", DOMAIN e = EndFields, LikeOut(e, o),
           e.pc \notin {"closed", "new"}, o.pc # "new", e.heard = o.heard,
           o.MD # 0 => e.MD # 0,
           Steps(e), Calling(c, e), Read("o", e) = Read("o", o),
           Sent(c, "o", o) <= Sent(c, "o", e),
           a.state # "NULL" => e.pc = "up" /\ e.fa # {}
    PROVE  Login(c, e, a, qo, qa)
<1>1. Queued(c, "o", e, a, qo)
  BY StayQueue DEF Login
<1>2. Queued(c, "a", a, e, qa)
  BY SilentQueue DEF Login, Other
<1>3. SaidOut(c, e, qa)
  BY DEF Login, SaidOut, LikeOut
<1>4. Accepting(conf) => e.heard # "garbage"
  BY DEF Login, Agreed
<1> QED  BY <1>1, <1>2, <1>3, <1>4, OutGoesOn

LEMMA OutWrites ==
    ASSUME NEW c, NEW o, NEW a, NEW qo, NEW qa, NEW e, NEW m, Login(c, o, a, qo, qa),
           o.pc # "closed", DOMAIN e = EndFields, LikeOut(e, o),
           e.pc \notin {"closed", "new"}, e.heard = o.heard,
           o.MD # 0 => e.MD # 0,
           Steps(e), Calling(c, e), Read("o", e) = Read("o", o),
           Ahead(c, "o", o, e, m),
           o.pc = "new" => \E f \in Els(m) : Rank(f) = 4,
           SaidOut(c, e, m),
           a.state # "NULL" => e.pc = "up" /\ e.fa # {}
    PROVE  Login(c, e, a, qo, Join(qa, m))
<1>1. Queued(c, "o", e, a, qo)
  BY StayQueue DEF Login
<1>2. Queued(c, "a", a, e, Join(qa, m)) /\ Els(Join(qa, m)) = Els(qa) \cup Els(m)
  <2>1. Queued(c, "a", a, o, qa) /\ "o" = Other("a")
    BY DEF Login, Other
  <2>2. Queued(c, "a", a, e, Join(qa, m))
    BY <2>1, WriteQueue
  <2>3. Adds(qa, m)
    BY <2>1, WriteQueue
  <2> QED  BY <2>2, <2>3 DEF Adds
<1>3. SaidOut(c, e, Join(qa, m))
  BY <1>2 DEF Login, SaidOut, LikeOut
<1>4. Accepting(conf) => e.heard # "garbage"
  BY DEF Login, Agreed
<1> QED  BY <1>1, <1>2, <1>3, <1>4, OutGoesOn

LEMMA InReads ==
    ASSUME NEW c, NEW o, NEW a, NEW qo, NEW qa, NEW e, Login(c, o, a, qo, qa),
           a.pc # "closed", qa # <<>>, Rank(Head(qa)) # 4,
           DOMAIN e = EndFields, LikeIn(e, a), e.pc # "closed",
           Accepting(conf) => e.heard # "garbage",
           Steps(e), Answering(c, e), e.state # "NULL" => Served(c, e),
           Read("a", e) <= Rank(Head(qa)), Sent(c, "a", a) <= Sent(c, "a", e)
    PROVE  Login(c, o, e, qo, Tail(qa))
<1>1. /\ Head(qa) \in Els(qa) /\ Els(qa) = {Head(qa)} \cup Els(Tail(qa))
  BY TailStream DEF Login, Queued
<1>2. Queued(c, "a", e, o, Tail(qa))
  BY ReadQueue DEF Login
<1>3. Queued(c, "o", o, e, qo)
  BY SilentQueue DEF Login, Other
<1>4. SaidIn(c, e, qo)
  BY DEF Login, SaidIn, LikeIn, WordsIn
<1> QED  BY <1>1, <1>2, <1>3, <1>4, InGoesOn

LEMMA InWorks ==
    ASSUME NEW c, NEW o, NEW a, NEW qo, NEW qa, NEW e, Login(c, o, a, qo, qa),
           a.pc # "closed", DOMAIN e = EndFields, LikeIn(e, a), e.pc # "closed",
           e.heard = a.heard,
           Steps(e), Answering(c, e), e.state # "NULL" => Served(c, e),
           Read("a", e) = Read("a", a), Sent(c, "a", a) <= Sent(c, "a", e)
    PROVE  Login(c, o, e, qo, qa)
<1>1. Queued(c, "a", e, o, qa)
  BY StayQueue DEF Login
<1>2. Queued(c, "o", o, e, qo)
  BY SilentQueue DEF Login, Other
<1>3. SaidIn(c, e, qo)
  BY DEF Login, SaidIn, LikeIn, WordsIn
<1>4. Accepting(conf) => e.heard # "garbage"
  BY DEF Login, Agreed
<1> QED  BY <1>1, <1>2, <1>3, <1>4, InGoesOn

LEMMA InWrites ==
    ASSUME NEW c, NEW o, NEW a, NEW qo, NEW qa, NEW e, NEW m, Login(c, o, a, qo, qa),
           a.pc # "closed", DOMAIN e = EndFields, LikeIn(e, a), e.pc # "closed",
           e.heard = a.heard,
           Steps(e), Answering(c, e), e.state # "NULL" => Served(c, e),
           Read("a", e) = Read("a", a), Ahead(c, "a", a, e, m), SaidIn(c, e, m)
    PROVE  Login(c, o, e, Join(qo, m), qa)
<1>1. Queued(c, "a", e, o, qa)
  BY StayQueue DEF Login
<1>2. Queued(c, "o", o, e, Join(qo, m)) /\ Els(Join(qo, m)) = Els(qo) \cup Els(m)
  <2>1. Queued(c, "o", o, a, qo) /\ "a" = Other("o")
    BY DEF Login, Other
  <2>2. Queued(c, "o", o, e, Join(qo, m))
    BY <2>1, WriteQueue
  <2>3. Adds(qo, m)
    BY <2>1, WriteQueue
  <2> QED  BY <2>2, <2>3 DEF Adds
<1>3. SaidIn(c, e, Join(qo, m))
  BY <1>2 DEF Login, SaidIn, LikeIn, WordsIn
<1>4. Accepting(conf) => e.heard # "garbage"
  BY DEF Login, Agreed
<1> QED  BY <1>1, <1>2, <1>3, <1>4, InGoesOn

-----------------------------------------------------------------------------
(* The end of a session: what is queued goes out, and then the connection  *)
(* is closed                                                               *)
Bye(q, m) == (q \o m) \o <<EOF>>

ByeAdds(q, m) ==
    /\ \A f \in Els(q) : f \in Els(Bye(q, m))
    /\ \A f \in Els(Bye(q, m)) : f \in Els(q) \/ f \in Els(m) \/ f = EOF

Last(c, s, w, m) ==
    /\ IsStream(m) /\ InOrder(m)
    /\ \A f \in Els(m) : Sent(c, s, w) < Rank(f) /\ Rank(f) <= 8

LEMMA ByeQueue ==
    ASSUME NEW c, NEW s, NEW r, NEW w, NEW q, NEW e, NEW m, NEW u, u = Other(s),
           Queued(c, s, r, w, q), Last(c, u, w, m), w.pc # "closed", e.pc = "closed"
    PROVE  Queued(c, s, r, e, Bye(q, m)) /\ ByeAdds(q, m)
<1>1. /\ Sent(c, u, w) \in Int /\ Sent(c, u, e) = 9 /\ Sent(c, u, w) <= 7
      /\ Read(s, r) \in Int /\ \A f : Rank(f) \in Int
  <2>1. Sent(c, u, e) = 9 /\ Sent(c, u, w) <= 7
    BY DEF Sent
  <2> QED  BY <2>1, Marks, RankNat
<1>2. \A f \in Els(q), g \in Els(m) : Rank(f) < Rank(g)
  BY <1>1 DEF Queued, Last
<1>3. IsStream(q \o m) /\ InOrder(q \o m) /\ Els(q \o m) = Els(q) \cup Els(m)
  BY <1>2, JoinStream DEF Queued, Last
<1>4. \A f \in Els(q \o m) : Rank(f) <= 8
  BY <1>1, <1>3 DEF Queued, Last
<1>5. IsStream(<<EOF>>) /\ InOrder(<<EOF>>) /\ Els(<<EOF>>) = {EOF} /\ Rank(EOF) = 9
  BY ShortStreams, Ranks
<1> DEFINE p == q \o m
           z == <<EOF>>
<1> HIDE DEF p, z
<1>6. \A f \in Els(p), g \in Els(z) : Rank(f) < Rank(g)
  BY <1>1, <1>4, <1>5 DEF p, z
<1>7. IsStream(p) /\ InOrder(p) /\ IsStream(z) /\ InOrder(z)
  BY <1>3, <1>5 DEF p, z
<1>8. IsStream(p \o z) /\ InOrder(p \o z) /\ Els(p \o z) = Els(p) \cup Els(z)
  BY <1>6, <1>7, JoinStream
<1>9. Bye(q, m) = p \o z
  BY DEF Bye, p, z
<1>10. Els(p \o z) = Els(q) \cup Els(m) \cup {EOF}
  BY <1>8, <1>3, <1>5 DEF p, z
<1>11. \A f \in Els(p \o z) : Rank(f) <= 9
  BY RankNat
<1>12. ASSUME r.pc # "closed"
       PROVE  Read(s, r) <= 9 /\ \A f \in Els(p \o z) : Read(s, r) < Rank(f)
  <2>1. Read(s, r) <= Sent(c, u, w)
    BY <1>12 DEF Queued
  <2>2. \A f \in Els(q) : Read(s, r) < Rank(f)
    BY <1>12 DEF Queued
  <2>3. \A f \in Els(m) : Read(s, r) < Rank(f)
    BY <2>1, <1>1 DEF Last
  <2> QED  BY <1>1, <1>5, <1>10, <2>1, <2>2, <2>3
<1> QED  BY <1>1, <1>8, <1>9, <1>10, <1>11, <1>12 DEF Queued, ByeAdds

Closed(e) == [e EXCEPT !.pc = "closed", !.fa = {}, !.todo = <<>>]

LEMMA OutQuits ==
    ASSUME NEW c, NEW o, NEW a, NEW qo, NEW qa, NEW m, Login(c, o, a, qo, qa),
           o.pc \notin {"new", "closed"}, Last(c, "o", o, m),
           \A f \in Els(m) : f.t \notin {"OPT", "PWD", "FIRST"}
    PROVE  Login(c, Closed(o), a, <<>>, Bye(qa, m))
<1> DEFINE e == Closed(o)
           q == Bye(qa, m)
<1>1. DOMAIN o = EndFields
  BY DEF Login
<1>2. /\ DOMAIN e = EndFields /\ LikeOut(e, o) /\ e.pc = "closed"
      /\ e.heard = o.heard /\ e.MD = o.MD /\ e.sent = o.sent /\ e.epwd = o.epwd
  BY <1>1 DEF EndFields, LikeOut, Closed
<1>3. /\ Queued(c, "a", a, e, q)
      /\ \A f \in Els(qa) : f \in Els(q)
      /\ \A f \in Els(q) : f \in Els(qa) \/ f \in Els(m) \/ f = EOF
  <2>1. "o" = Other("a") /\ Queued(c, "a", a, o, qa)
    BY DEF Login, Other
  <2> HIDE DEF e
  <2>2. Queued(c, "a", a, e, Bye(qa, m)) /\ ByeAdds(qa, m)
    BY <1>2, <2>1, ByeQueue
  <2> QED  BY <2>2 DEF ByeAdds
<1> HIDE DEF e, q
<1>4. Queued(c, "o", e, a, <<>>)
  BY <1>2, ClosedQueue
<1>5. SaidOut(c, e, q)
  <2>1. EOF.t = "EOF"
    BY DEF EOF
  <2> QED  BY <1>2, <1>3, <2>1 DEF Login, SaidOut, LikeOut
<1>6. SaidIn(c, a, <<>>)
  BY ShortStreams DEF SaidIn
<1>7. Steps(e) /\ Calling(c, e)
  BY <1>2 DEF Login, Steps, Calling, LikeOut
<1>8. HearsOut(c, e, a, q)
  BY <1>2, <1>3 DEF Login, HearsOut
<1>9. HearsIn(e, a, <<>>)
  BY <1>2 DEF HearsIn
<1>10. Agreed(c, e, a)
  BY <1>2 DEF Login, Agreed, LikeOut
<1>11. Login(c, e, a, <<>>, q)
  BY <1>2, <1>3, <1>4, <1>5, <1>6, <1>7, <1>8, <1>9, <1>10 DEF Login
<1> QED  BY <1>11 DEF e, q

LEMMA InQuits ==
    ASSUME NEW c, NEW o, NEW a, NEW qo, NEW qa, NEW m, Login(c, o, a, qo, qa),
           a.pc # "closed", Last(c, "a", a, m),
           \A f \in Els(m) : f.t \notin {"OK", "FIRST"} /\ (f.t = "OPT" => f.w = {"CRAM"})
    PROVE  Login(c, o, Closed(a), Bye(qo, m), <<>>)
<1> DEFINE e == Closed(a)
           q == Bye(qo, m)
<1>1. DOMAIN a = EndFields
  BY DEF Login
<1>2. /\ DOMAIN e = EndFields /\ LikeIn(e, a) /\ e.pc = "closed" /\ e.fa = {}
      /\ e.heard = a.heard /\ e.MD = a.MD /\ e.sent = a.sent /\ e.epwd = a.epwd
      /\ e.asks = a.asks /\ e.buggy = a.buggy /\ e.NR = a.NR /\ e.ND = a.ND
  BY <1>1 DEF EndFields, LikeIn, Closed
<1>3. /\ Queued(c, "o", o, e, q)
      /\ \A f \in Els(qo) : f \in Els(q)
      /\ \A f \in Els(q) : f \in Els(qo) \/ f \in Els(m) \/ f = EOF
  <2>1. "a" = Other("o") /\ Queued(c, "o", o, a, qo)
    BY DEF Login, Other
  <2> HIDE DEF e
  <2>2. Queued(c, "o", o, e, Bye(qo, m)) /\ ByeAdds(qo, m)
    BY <1>2, <2>1, ByeQueue
  <2> QED  BY <2>2 DEF ByeAdds
<1> HIDE DEF e, q
<1>4. Queued(c, "a", e, o, <<>>)
  BY <1>2, ClosedQueue
<1>5. SaidIn(c, e, q)
  <2>1. EOF.t = "EOF"
    BY DEF EOF
  <2>2. WordsIn(e) = WordsIn(a)
    BY <1>2 DEF WordsIn, LikeIn
  <2> QED  BY <1>2, <1>3, <2>1, <2>2 DEF Login, SaidIn, LikeIn
<1>6. SaidOut(c, o, <<>>)
  BY ShortStreams DEF SaidOut
<1>7. Steps(e) /\ Answering(c, e)
  BY <1>2 DEF Login, Steps, Answering, Vouched, LikeIn
<1>8. e.state # "NULL" => Served(c, e)
  BY <1>2 DEF Login, Served, LikeIn
<1>9. HearsOut(c, o, e, <<>>)
  BY <1>2 DEF HearsOut
<1>10. HearsIn(o, e, q)
  BY <1>2, <1>3 DEF Login, HearsIn, TookIn, LikeIn
<1>11. Agreed(c, o, e)
  BY <1>2 DEF Login, Agreed, LikeIn
<1>12. Login(c, o, e, q, <<>>)
  BY <1>2, <1>3, <1>4, <1>5, <1>6, <1>7, <1>8, <1>9, <1>10, <1>11 DEF Login
<1> QED  BY <1>12 DEF e, q

(* The frames that go with a refusal *)
LEMMA Refusals ==
    ASSUME NEW c, NEW s, NEW e, e.pc # "closed", NEW m \in {<<>>, <<M_ERR>>, <<M_BSY>>}
    PROVE  Last(c, s, e, m) /\ \A f \in Els(m) : f.t \in {"ERR", "BSY"}
<1>1. Sent(c, s, e) <= 7 /\ Sent(c, s, e) \in Int
  <2>1. Sent(c, s, e) <= 7
    BY DEF Sent
  <2> QED  BY <2>1, Marks
<1>2. IsStream(m) /\ InOrder(m) /\ \A f \in Els(m) : f \in {M_ERR, M_BSY}
  BY ShortStreams
<1>3. \A f \in {M_ERR, M_BSY} : Rank(f) = 8 /\ f.t \in {"ERR", "BSY"}
  <2>1. M_ERR.t = "ERR" /\ M_BSY.t = "BSY"
    BY DEF M_ERR, M_BSY
  <2> QED  BY <2>1, Ranks
<1>4. \A f \in Els(m) : Rank(f) = 8 /\ f.t \in {"ERR", "BSY"}
  BY <1>2, <1>3
<1> QED  BY <1>1, <1>2, <1>4 DEF Last

-----------------------------------------------------------------------------
(***************************************************************************)
(* The steps of the calling end                                            *)
(***************************************************************************)
LEMMA OutVer ==
    ASSUME NEW c, NEW o, NEW a, NEW qo, NEW qa, NEW x, Login(c, o, a, qo, qa),
           o.pc = "up", qo # <<>>, Head(qo).t = "VER"
    PROVE  Login(c, [o EXCEPT !.buggy = x], a, Tail(qo), qa)
<1> DEFINE e == [o EXCEPT !.buggy = x]
<1>1. DOMAIN o = EndFields
  BY DEF Login
<1>2. /\ DOMAIN e = EndFields /\ LikeOut(e, o)
      /\ e.pc = o.pc /\ e.heard = o.heard /\ e.MD = o.MD /\ e.fa = o.fa
      /\ e.main = o.main /\ e.sent = o.sent /\ e.epwd = o.epwd
  BY <1>1 DEF EndFields, LikeOut
<1> HIDE DEF e
<1>3. Steps(e) /\ Calling(c, e)
  BY <1>2 DEF Login, Steps, Calling, LikeOut
<1>4. Sent(c, "o", e) = Sent(c, "o", o) /\ Read("o", e) = Read("o", o)
  BY <1>2 DEF Sent, Read, LikeOut
<1>5. Rank(Head(qo)) = 2 /\ Read("o", e) < Rank(Head(qo))
  BY <1>4, RankKinds, TailStream DEF Login, Queued
<1>6. Read("o", e) <= Rank(Head(qo)) /\ Sent(c, "o", o) <= Sent(c, "o", e)
  BY <1>4, <1>5, Marks
<1>7. a.state # "NULL" => e.pc = "up" /\ e.fa # {}
  BY <1>2 DEF Login, Agreed
<1>8. Accepting(conf) => e.heard # "garbage"
  BY <1>2 DEF Login, Agreed
<1>9. Login(c, e, a, Tail(qo), qa)
  BY <1>2, <1>3, <1>5, <1>6, <1>7, <1>8, OutReads
<1> QED  BY <1>9 DEF e

(* NUL takes the options over *)
Options(e, w, x) ==
    [e EXCEPT !.NR    = @ \cup If("NR" \in w, "WE"),
              !.ND    = (@ \cup If("ND" \in w, "WE")) \cup If("NDA" \in w, "NDA"),
              !.crypt = @ \cup If("CRYPT" \in w, "THEY"),
              !.chal  = x]

LEMMA OptionsEnd ==
    ASSUME NEW o, NEW w, NEW x, DOMAIN o = EndFields
    PROVE  LET e == Options(o, w, x) IN
           /\ DOMAIN e = EndFields
           /\ e.pc = o.pc /\ e.heard = o.heard /\ e.MD = o.MD /\ e.fa = o.fa
           /\ e.main = o.main /\ e.sent = o.sent /\ e.epwd = o.epwd
           /\ e.state = o.state /\ e.ext = o.ext /\ e.asks = o.asks /\ e.buggy = o.buggy
           /\ e.key_in = o.key_in /\ e.key_out = o.key_out
           /\ e.NR = o.NR \cup If("NR" \in w, "WE")
           /\ e.ND = (o.ND \cup If("ND" \in w, "WE")) \cup If("NDA" \in w, "NDA")
           /\ e.crypt = o.crypt \cup If("CRYPT" \in w, "THEY")
BY DEF EndFields, Options

LEMMA OutOpt ==
    ASSUME NEW c, NEW o, NEW a, NEW qo, NEW qa, NEW x, Login(c, o, a, qo, qa),
           o.pc = "up", qo # <<>>, Head(qo).t = "OPT"
    PROVE  Login(c, Options(o, Head(qo).w, x), a, Tail(qo), qa)
<1> DEFINE w == Head(qo).w
           e == Options(o, w, x)
<1>1. DOMAIN o = EndFields
  BY DEF Login
<1>2. /\ DOMAIN e = EndFields
      /\ e.pc = o.pc /\ e.heard = o.heard /\ e.MD = o.MD /\ e.fa = o.fa
      /\ e.main = o.main /\ e.sent = o.sent /\ e.epwd = o.epwd
      /\ e.state = o.state /\ e.ext = o.ext
      /\ e.key_in = o.key_in /\ e.key_out = o.key_out
  BY <1>1, OptionsEnd
<1>3. /\ e.NR = o.NR \cup If("NR" \in w, "WE")
      /\ e.ND = (o.ND \cup If("ND" \in w, "WE")) \cup If("NDA" \in w, "NDA")
      /\ e.crypt = o.crypt \cup If("CRYPT" \in w, "THEY")
  BY <1>1, OptionsEnd
<1> HIDE DEF e
<1>4. /\ Head(qo) \in Els(qo) /\ Els(qo) = {Head(qo)} \cup Els(Tail(qo))
      /\ Read("o", o) < Rank(Head(qo))
      /\ \A f \in Els(Tail(qo)) : Rank(Head(qo)) < Rank(f)
  BY TailStream DEF Login, Queued
<1>5. Sent(c, "o", e) = Sent(c, "o", o) /\ Read("o", e) = Read("o", o)
  BY <1>2 DEF Sent, Read
<1>6. Read("o", e) <= Rank(Head(qo)) /\ Sent(c, "o", o) <= Sent(c, "o", e)
  BY <1>4, <1>5, Marks, RankNat
<1>7. Steps(e)
  BY <1>2 DEF Login, Steps
<1>8. a.state # "NULL" => e.pc = "up" /\ e.fa # {}
  BY <1>2 DEF Login, Agreed
<1>9. Accepting(conf) => e.heard # "garbage"
  BY <1>2 DEF Login, Agreed
<1>10. w = {"CRAM"} \/ (a.state # "NULL" /\ w = WordsIn(a))
  BY <1>4 DEF Login, SaidIn
<1>11. CASE w = {"CRAM"}
  <2>1. e.NR = o.NR /\ e.ND = o.ND /\ e.crypt = o.crypt
    BY <1>3, <1>11 DEF If
  <2>2. LikeOut(e, o) /\ Calling(c, e)
    BY <1>2, <2>1 DEF LikeOut, Login, Calling
  <2>3. Rank(Head(qo)) = 1
    BY <1>11, RankKinds
  <2>4. Login(c, e, a, Tail(qo), qa)
    BY <1>2, <1>6, <1>7, <1>8, <1>9, <2>2, <2>3, OutReads
  <2> QED  BY <2>4 DEF e
<1>12. CASE a.state # "NULL" /\ w = WordsIn(a)
  <2>1. /\ "NR" \in w <=> "WANT" \in a.NR
        /\ "ND" \in w <=> "THEY" \in a.ND
        /\ "NDA" \in w <=> (("WE" \in a.ND) # ("THEY" \in a.ND))
        /\ "CRYPT" \in w <=> "YES" \in a.crypt
        /\ "CRAM" \notin w
    BY <1>12 DEF WordsIn, If
  <2>2. Rank(Head(qo)) = 4
    BY <2>1, RankKinds
  <2>3. o.state = "NULL"
    BY <1>4, <2>2 DEF Read
  <2>4. Unread(o) \/ TookIn(o, a)
    BY <2>3 DEF Login, HearsIn
  <2>5. TookIn(e, a)
    BY <1>3, <2>1, <2>4 DEF Unread, TookIn, If
  <2>6. Calling(c, e)
    BY <1>2, <1>3 DEF Login, Calling, If, Both
  <2>7. HearsIn(e, a, Tail(qo))
    <3>1. \E f \in Els(qo) : Rank(f) = 6
      BY <1>12, <2>3 DEF Login, HearsIn
    <3>2. \E f \in Els(Tail(qo)) : Rank(f) = 6
      BY <3>1, <1>4, <2>2
    <3> QED  BY <3>2, <2>5, <1>12 DEF HearsIn
  <2>8. Queued(c, "o", e, a, Tail(qo))
    BY <1>6, ReadQueue DEF Login
  <2>9. Queued(c, "a", a, e, qa)
    BY <1>6, SilentQueue DEF Login, Other
  <2>10. SaidOut(c, e, qa) /\ SaidIn(c, a, Tail(qo))
    BY <1>2, <1>4 DEF Login, SaidOut, SaidIn
  <2>11. HearsOut(c, e, a, qa)
    BY <1>2 DEF Login, HearsOut
  <2>12. Agreed(c, e, a)
    BY <1>2, <2>3 DEF Login, Agreed
  <2>13. Login(c, e, a, Tail(qo), qa)
    BY <1>2, <1>7, <2>6, <2>7, <2>8, <2>9, <2>10, <2>11, <2>12 DEF Login
  <2> QED  BY <2>13 DEF e
<1> QED  BY <1>10, <1>11, <1>12

(* M_ADR is read: the end begins with the addresses *)
LEMMA OutAdr ==
    ASSUME NEW c, NEW o, NEW a, NEW qo, NEW qa, NEW x, NEW p, Login(c, o, a, qo, qa),
           o.pc = "up", qo # <<>>, Head(qo).t = "ADR", p = Me(c).out_pwd
    PROVE  Login(c, [o EXCEPT !.pc = "adr", !.todo = x, !.epwd = p], a, Tail(qo), qa)
<1> DEFINE e == [o EXCEPT !.pc = "adr", !.todo = x, !.epwd = p]
<1>1. DOMAIN o = EndFields
  BY DEF Login
<1>2. /\ DOMAIN e = EndFields /\ LikeOut(e, o)
      /\ e.pc = "adr" /\ e.heard = o.heard /\ e.MD = o.MD /\ e.fa = o.fa
      /\ e.main = o.main /\ e.sent = o.sent /\ e.epwd = p
  BY <1>1 DEF EndFields, LikeOut
<1> HIDE DEF e
<1>3. Rank(Head(qo)) = 3 /\ Read("o", o) < Rank(Head(qo))
  BY RankKinds, TailStream DEF Login, Queued
<1>4. o.fa = {} /\ o.state = "NULL" /\ o.heard = "nothing" /\ ~o.sent
  <2>1. o.fa = {} /\ o.state = "NULL" /\ o.heard = "nothing"
    BY <1>3 DEF Read
  <2> QED  BY <2>1 DEF Login, Steps
<1>5. Steps(e)
  BY <1>2, <1>4 DEF Steps, LikeOut
<1>6. Calling(c, e)
  BY <1>2, <1>4 DEF Login, Calling, LikeOut
<1>7. Read("o", e) = 3 /\ Sent(c, "o", e) = 4 /\ Sent(c, "o", o) = 4
  BY <1>2, <1>4 DEF Sent, Read, LikeOut
<1>8. a.state = "NULL"
  BY <1>4 DEF Login, Agreed
<1>9. Accepting(conf) => e.heard # "garbage"
  BY <1>2 DEF Login, Agreed
<1>10. Read("o", e) <= Rank(Head(qo)) /\ Sent(c, "o", o) <= Sent(c, "o", e)
  BY <1>3, <1>7
<1>11. Login(c, e, a, Tail(qo), qa)
  BY <1>2, <1>3, <1>5, <1>6, <1>8, <1>9, <1>10, OutReads
<1> QED  BY <1>11 DEF e

(* What working off an address does to the calling end *)
LEMMA OutAka ==
    ASSUME NEW c, NEW o, NEW a, NEW qo, NEW qa, NEW e, Login(c, o, a, qo, qa),
           o.pc = "adr", DOMAIN e = EndFields, LikeOut(e, o),
           e.pc = "adr", e.heard = o.heard, e.sent = o.sent,
           e.MD \in {-1, 0, 1}, o.MD # 0 => e.MD # 0,
           e.epwd \in {"", o.epwd} \/ o.epwd \in {"-", "!"},
           e.main => To[c] \in e.fa
    PROVE  Login(c, e, a, qo, qa)
<1>1. o.state = "NULL" /\ ~o.sent
  BY DEF Login, Steps
<1>2. Steps(e)
  BY <1>1 DEF Steps, LikeOut
<1>3. Calling(c, e)
  BY <1>1 DEF Login, Calling, LikeOut
<1>4. /\ Read("o", e) = Read("o", o) /\ Sent(c, "o", e) = 4 /\ Sent(c, "o", o) = 4
  BY <1>1 DEF Sent, Read, LikeOut
<1>5. a.state = "NULL"
  BY DEF Login, Agreed
<1>6. Sent(c, "o", o) <= Sent(c, "o", e)
  <2>1. Sent(c, "o", e) = 4 /\ Sent(c, "o", o) = 4
    BY <1>4
  <2> QED  BY ONLY <2>1
<1> QED  BY <1>2, <1>3, <1>4, <1>5, <1>6, OutWorks

(* All addresses are through: M_PWD *)
LEMMA OutPwd ==
    ASSUME NEW c, NEW o, NEW a, NEW qo, NEW qa, Login(c, o, a, qo, qa),
           o.pc = "adr", o.fa # {}, o.main
    PROVE  LET e == [o EXCEPT !.pc = "up", !.MD = IF o.chal THEN 1 ELSE @]
           IN  Login(c, e, a, qo, Join(qa, <<M_PWD(o.chal, Me(c).out_pwd)>>))
<1> DEFINE e == [o EXCEPT !.pc = "up", !.MD = IF o.chal THEN 1 ELSE @]
           f == M_PWD(o.chal, Me(c).out_pwd)
           m == <<f>>
<1>1. DOMAIN o = EndFields /\ o.state = "NULL" /\ ~o.sent
  BY DEF Login, Steps
<1>2. /\ DOMAIN e = EndFields /\ LikeOut(e, o)
      /\ e.pc = "up" /\ e.heard = o.heard /\ e.fa = o.fa
      /\ e.main = o.main /\ e.sent = o.sent /\ e.epwd = o.epwd
  BY <1>1 DEF EndFields, LikeOut
<1>3. e.MD = IF o.chal THEN 1 ELSE o.MD
  BY <1>1 DEF EndFields
<1> HIDE DEF e
<1>4. Rank(f) = 5 /\ f.t = "PWD" /\ f.p = Me(c).out_pwd /\ f.md = o.chal
  BY Ranks DEF M_PWD
<1> HIDE DEF f
<1>5. IsStream(m) /\ InOrder(m) /\ Els(m) = {f}
  BY ShortStreams
<1> HIDE DEF m
<1>6. Sent(c, "o", o) = 4 /\ Sent(c, "o", e) = 5 /\ Read("o", e) = Read("o", o)
  BY <1>1, <1>2 DEF Sent, Read, LikeOut
<1>7. Ahead(c, "o", o, e, m)
  BY <1>4, <1>5, <1>6 DEF Ahead
<1>8. SaidOut(c, e, m)
  BY <1>3, <1>4, <1>5 DEF SaidOut
<1>9. Steps(e) /\ Calling(c, e)
  BY <1>1, <1>2, <1>3 DEF Login, Steps, Calling, LikeOut
<1>10. o.MD # 0 => e.MD # 0
  BY <1>3
<1>11. Login(c, e, a, qo, Join(qa, m))
  BY <1>2, <1>6, <1>7, <1>8, <1>9, <1>10, OutWrites
<1> QED  BY <1>11 DEF e, m, f

(* The first frame after the login, written and read *)
LEMMA OutFirst ==
    ASSUME NEW c, NEW o, NEW a, NEW qo, NEW qa, Login(c, o, a, qo, qa),
           o.pc = "up", o.state # "NULL", ~o.sent
    PROVE  Login(c, [o EXCEPT !.sent = TRUE], a, qo, Join(qa, <<First(o.key_out)>>))
<1> DEFINE e == [o EXCEPT !.sent = TRUE]
           f == First(o.key_out)
           m == <<f>>
<1>1. DOMAIN o = EndFields /\ a.state # "NULL" /\ o.fa # {}
  BY DEF Login, Agreed
<1>2. /\ DOMAIN e = EndFields /\ LikeOut(e, o) /\ e.sent
      /\ e.pc = "up" /\ e.heard = o.heard /\ e.fa = o.fa /\ e.MD = o.MD
      /\ e.main = o.main /\ e.epwd = o.epwd
  BY <1>1 DEF EndFields, LikeOut
<1> HIDE DEF e
<1>4. Rank(f) = 7 /\ f.t = "FIRST" /\ f.key = o.key_out
  BY Ranks DEF First
<1> HIDE DEF f
<1>5. IsStream(m) /\ InOrder(m) /\ Els(m) = {f}
  BY ShortStreams
<1> HIDE DEF m
<1>6. Sent(c, "o", o) = 5 /\ Sent(c, "o", e) = 7 /\ Read("o", e) = Read("o", o)
  BY <1>1, <1>2 DEF Sent, Read, LikeOut
<1>7. Ahead(c, "o", o, e, m)
  BY <1>4, <1>5, <1>6 DEF Ahead
<1>8. SaidOut(c, e, m)
  BY <1>2, <1>4, <1>5 DEF SaidOut, LikeOut
<1>9. Steps(e) /\ Calling(c, e)
  BY <1>1, <1>2 DEF Login, Steps, Calling, LikeOut
<1>11. Login(c, e, a, qo, Join(qa, m))
  BY <1>1, <1>2, <1>6, <1>7, <1>8, <1>9, OutWrites
<1> QED  BY <1>11 DEF e, m, f

LEMMA OutHears ==
    ASSUME NEW c, NEW o, NEW a, NEW qo, NEW qa, Login(c, o, a, qo, qa),
           o.pc = "up", qo # <<>>, Head(qo).t = "FIRST"
    PROVE  LET e == [o EXCEPT !.heard = IF Head(qo).key = o.key_in
                                        THEN "clear" ELSE "garbage"]
           IN  Login(c, e, a, Tail(qo), qa)
<1> DEFINE e == [o EXCEPT !.heard = IF Head(qo).key = o.key_in
                                    THEN "clear" ELSE "garbage"]
<1>1. DOMAIN o = EndFields
  BY DEF Login
<1>2. /\ DOMAIN e = EndFields /\ LikeOut(e, o) /\ e.sent = o.sent
      /\ e.pc = "up" /\ e.fa = o.fa /\ e.MD = o.MD
      /\ e.main = o.main /\ e.epwd = o.epwd
  BY <1>1 DEF EndFields, LikeOut
<1>3. e.heard = IF Head(qo).key = o.key_in THEN "clear" ELSE "garbage"
  BY <1>1 DEF EndFields
<1> HIDE DEF e
<1>4. /\ Head(qo) \in Els(qo) /\ Els(qo) = {Head(qo)} \cup Els(Tail(qo))
      /\ \A f \in Els(Tail(qo)) : Rank(Head(qo)) < Rank(f)
  BY TailStream DEF Login, Queued
<1>5. Rank(Head(qo)) = 7
  BY RankKinds
<1>6. a.state # "NULL" /\ Head(qo).key = a.key_out
  BY <1>4 DEF Login, SaidIn
<1>7. \A f \in Els(qo) : Rank(f) # 6
  BY <1>4, <1>5, RankNat
<1>8. o.state # "NULL"
  BY <1>6, <1>7 DEF Login, HearsIn
<1>9. Accepting(conf) => e.heard # "garbage"
  BY <1>3, <1>6, <1>8 DEF Login, Agreed
<1>10. Steps(e) /\ Calling(c, e)
  BY <1>2, <1>8 DEF Login, Steps, Calling, LikeOut
<1>11. Read("o", e) = 7 /\ Sent(c, "o", e) = Sent(c, "o", o)
  BY <1>2, <1>3 DEF Read, Sent, LikeOut
<1>12. Read("o", e) <= Rank(Head(qo)) /\ Sent(c, "o", o) <= Sent(c, "o", e)
  BY <1>5, <1>11, Marks
<1>13. e.pc = "up" /\ e.fa # {}
  BY <1>2, <1>6 DEF Login, Agreed
<1>14. Login(c, e, a, Tail(qo), qa)
  BY <1>2, <1>5, <1>9, <1>10, <1>12, <1>13, OutReads
<1> QED  BY <1>14 DEF e

(* The banner of the calling end.  No address is known yet, so it cannot   *)
(* find partial files of the remote.                                       *)
LEMMA OutBanner ==
    ASSUME NEW c, NEW o, NEW a, NEW qo, NEW qa, Login(c, o, a, qo, qa),
           o.pc = "new", NEW n, n = o.NR, NEW x, NEW y
    PROVE  LET w == {"NDA"} \cup If("WANT" \in n, "NR")
                            \cup If("THEY" \in o.ND, "ND")
                            \cup If("WE" \in o.crypt, "CRYPT")
           IN  Login(c, [o EXCEPT !.pc = "up", !.NR = n], a, qo,
                     Join(qa, <<VER(x), M_ADR(y), OPT(w)>>))
<1> DEFINE e == [o EXCEPT !.pc = "up", !.NR = n]
           w == {"NDA"} \cup If("WANT" \in n, "NR")
                        \cup If("THEY" \in o.ND, "ND")
                        \cup If("WE" \in o.crypt, "CRYPT")
           f == VER(x)
           g == M_ADR(y)
           h == OPT(w)
           m == <<f, g, h>>
<1>1. DOMAIN o = EndFields /\ o.state = "NULL" /\ o.fa = {} /\ ~o.sent
  BY DEF Login, Steps
<1>2. /\ DOMAIN e = EndFields /\ LikeOut(e, o) /\ e.sent = o.sent
      /\ e.pc = "up" /\ e.heard = o.heard /\ e.fa = o.fa /\ e.MD = o.MD
      /\ e.main = o.main /\ e.epwd = o.epwd
  BY <1>1 DEF EndFields, LikeOut
<1> HIDE DEF e
<1>3. w = WordsOut(c)
  <2>1. /\ "WANT" \in n <=> WantsNR(c)
        /\ "THEY" \in o.ND <=> Me(c).nd
        /\ "WE" \in o.crypt <=> ~conf[Caller[c]].no_crypt
    BY <1>1 DEF Login, Calling
  <2> QED  BY <2>1 DEF WordsOut, If
<1> HIDE DEF w
<1>4. /\ Rank(f) = 2 /\ f.t = "VER" /\ Rank(g) = 3 /\ g.t = "ADR"
      /\ Rank(h) = 4 /\ h.t = "OPT" /\ h.w = w
  <2>1. "CRAM" \notin w
    BY <1>3 DEF WordsOut, If
  <2> QED  BY <2>1, Ranks DEF VER, M_ADR, OPT
<1> HIDE DEF f, g, h
<1>5. IsStream(m) /\ InOrder(m) /\ Els(m) = {f, g, h}
  BY <1>4, ThreeFrames
<1> HIDE DEF m
<1>6. Sent(c, "o", o) = 0 /\ Sent(c, "o", e) = 4 /\ Read("o", e) = Read("o", o)
  BY <1>1, <1>2 DEF Sent, Read, LikeOut
<1>7. Ahead(c, "o", o, e, m)
  BY <1>4, <1>5, <1>6 DEF Ahead
<1>8. SaidOut(c, e, m)
  BY <1>3, <1>4, <1>5 DEF SaidOut
<1>9. Steps(e) /\ Calling(c, e)
  BY <1>1, <1>2 DEF Login, Steps, Calling, LikeOut
<1>10. a.state = "NULL"
  BY DEF Login, Agreed
<1>11. \E z \in Els(m) : Rank(z) = 4
  BY <1>4, <1>5
<1>12. Login(c, e, a, qo, Join(qa, m))
  BY <1>2, <1>6, <1>7, <1>8, <1>9, <1>10, <1>11, OutWrites
<1> QED  BY <1>12 DEF e, m, f, g, h, w

(* complete_login *)
LEMMA LoginFields ==
    ASSUME NEW c, NEW s, NEW e, DOMAIN e = EndFields, NEW r, r = complete_login(c, s, e)
    PROVE  /\ DOMAIN r = EndFields
           /\ r.pc = e.pc /\ r.state = e.state /\ r.ext = e.ext /\ r.ND = e.ND
           /\ r.MD = e.MD /\ r.buggy = e.buggy /\ r.epwd = e.epwd /\ r.fa = e.fa
           /\ r.main = e.main /\ r.asks = e.asks /\ r.sent = e.sent /\ r.heard = e.heard
           /\ r.NR = e.NR \cup If("WE" \in e.ND, "WE")
BY DEF EndFields, complete_login

LEMMA KeysOut ==
    ASSUME NEW c, NEW e, DOMAIN e = EndFields, NEW r, r = complete_login(c, "o", e),
           NEW p, p = Me(c).out_pwd
    PROVE  /\ e.crypt = Both /\ CryptAllowed(e) =>
                 r.crypt = {"YES"} /\ r.key_out = <<"o", p>> /\ r.key_in = <<"a", p>>
           /\ ~(e.crypt = Both /\ CryptAllowed(e)) =>
                 r.crypt = {} /\ r.key_out = Plain /\ r.key_in = Plain
<1> DEFINE yes == e.crypt = Both /\ CryptAllowed(e)
<1>1. /\ r.crypt = IF yes THEN {"YES"} ELSE {}
      /\ r.key_out = IF yes THEN <<"o", p>> ELSE Plain
      /\ r.key_in  = IF yes THEN <<"a", p>> ELSE Plain
  BY DEF EndFields, complete_login, Other
<1> QED  BY <1>1

LEMMA KeysIn ==
    ASSUME NEW c, NEW e, DOMAIN e = EndFields, NEW r, r = complete_login(c, "a", e),
           NEW p, p = e.epwd
    PROVE  /\ e.crypt = Both /\ CryptAllowed(e) =>
                 r.crypt = {"YES"} /\ r.key_out = <<"a", p>> /\ r.key_in = <<"o", p>>
           /\ ~(e.crypt = Both /\ CryptAllowed(e)) =>
                 r.crypt = {} /\ r.key_out = Plain /\ r.key_in = Plain
<1> DEFINE yes == e.crypt = Both /\ CryptAllowed(e)
<1>1. /\ r.crypt = IF yes THEN {"YES"} ELSE {}
      /\ r.key_out = IF yes THEN <<"a", p>> ELSE Plain
      /\ r.key_in  = IF yes THEN <<"o", p>> ELSE Plain
  BY DEF EndFields, complete_login, Other
<1> QED  BY <1>1

(* M_OK: the caller is logged in, and agrees with the other side *)
LEMMA OutOk ==
    ASSUME NEW c, NEW o, NEW a, NEW qo, NEW qa, Login(c, o, a, qo, qa),
           o.pc = "up", qo # <<>>, Head(qo).t = "OK",
           NEW k, DOMAIN k = EndFields,
           k.state = IF Me(c).out_pwd # "-" THEN "SECURE" ELSE "NONSECURE",
           NEW no, no <=> (Me(c).out_pwd # "-" /\ ~Head(qo).secure),
           k.crypt = IF no THEN {} ELSE o.crypt,
           k.ext = IF no THEN "REMOTE_NONSECURE" ELSE o.ext,
           k.ND = IF o.ND \in {{"WE"}, {"THEY"}} THEN {} ELSE o.ND,
           k.pc = o.pc, k.NR = o.NR, k.MD = o.MD, k.epwd = o.epwd, k.fa = o.fa,
           k.main = o.main, k.sent = o.sent, k.heard = o.heard
    PROVE  Login(c, complete_login(c, "o", k), a, Tail(qo), qa)
<1> DEFINE e == complete_login(c, "o", k)
<1>1. /\ DOMAIN e = EndFields /\ e.pc = "up" /\ e.state = k.state /\ e.ext = k.ext
      /\ e.ND = k.ND /\ e.MD = o.MD /\ e.epwd = o.epwd /\ e.fa = o.fa
      /\ e.main = o.main /\ e.sent = o.sent /\ e.heard = o.heard
      /\ e.NR = o.NR \cup If("WE" \in k.ND, "WE")
  BY LoginFields
<1>2. /\ k.crypt = Both /\ CryptAllowed(k) =>
            /\ e.crypt = {"YES"} /\ e.key_out = <<"o", Me(c).out_pwd>>
            /\ e.key_in = <<"a", Me(c).out_pwd>>
      /\ ~(k.crypt = Both /\ CryptAllowed(k)) =>
            e.crypt = {} /\ e.key_out = Plain /\ e.key_in = Plain
  BY KeysOut
<1> HIDE DEF e
<1>3. /\ Head(qo) \in Els(qo) /\ Els(qo) = {Head(qo)} \cup Els(Tail(qo))
      /\ Read("o", o) < Rank(Head(qo))
      /\ \A f \in Els(Tail(qo)) : Rank(Head(qo)) < Rank(f)
  BY TailStream DEF Login, Queued
<1>4. Rank(Head(qo)) = 6
  BY RankKinds
<1>5. o.state = "NULL" /\ o.heard = "nothing" /\ ~o.sent
  <2>1. o.state = "NULL" /\ o.heard = "nothing"
    BY <1>3, <1>4 DEF Read
  <2> QED  BY <2>1 DEF Login, Steps
<1>6. a.state # "NULL" /\ (Head(qo).secure <=> a.state = "SECURE")
  BY <1>3 DEF Login, SaidIn
<1>7. TookIn(o, a)
  <2>1. \A f \in Els(qo) : Rank(f) # 4
    BY <1>3, <1>4, RankNat
  <2> QED  BY <2>1, <1>5, <1>6 DEF Login, HearsIn
<1>8. Served(c, a) /\ Calling(c, o) /\ Answering(c, a) /\ Agreed(c, o, a)
  BY <1>6 DEF Login
<1>9. k.ND = o.ND
  <2>1. /\ "THEY" \in o.ND <=> "WE" \in a.ND
        /\ "WE" \in o.ND <=> "THEY" \in a.ND
        /\ "NDA" \in o.ND <=> (("WE" \in a.ND) # ("THEY" \in a.ND))
    BY <1>7, <1>8 DEF TookIn, Served, Calling
  <2>2. ASSUME o.ND = {"WE"} PROVE FALSE
    BY <2>1, <2>2
  <2>3. ASSUME o.ND = {"THEY"} PROVE FALSE
    BY <2>1, <2>3
  <2> QED  BY <2>2, <2>3
<1>10. Steps(e)
  BY <1>1 DEF Steps
<1>11. Calling(c, e)
  <2>1. "WANT" \in e.NR <=> "WANT" \in o.NR
    BY <1>1 DEF If
  <2>2. e.state # "NULL"
    BY <1>1
  <2> QED  BY <1>1, <1>8, <1>9, <2>1, <2>2 DEF Calling
<1>12. Read("o", e) = 6 /\ Sent(c, "o", e) = Sent(c, "o", o)
  BY <1>1, <1>5 DEF Read, Sent
<1>13. Read("o", e) <= Rank(Head(qo)) /\ Sent(c, "o", o) <= Sent(c, "o", e)
  BY <1>4, <1>12, Marks
<1>14. Queued(c, "o", e, a, Tail(qo))
  BY <1>13, ReadQueue DEF Login
<1>15. Queued(c, "a", a, e, qa)
  BY <1>13, SilentQueue DEF Login, Other
<1>16. SaidIn(c, a, Tail(qo))
  BY <1>3 DEF Login, SaidIn
<1>17. SaidOut(c, e, qa)
  BY <1>1, <1>5 DEF Login, SaidOut
<1>18. HearsOut(c, e, a, qa)
  BY <1>1 DEF Login, HearsOut
<1>19. HearsIn(e, a, Tail(qo))
  BY <1>1 DEF HearsIn
<1>20. Agreed(c, e, a)
  <2>1. e.state = "SECURE" <=> Me(c).out_pwd # "-"
    BY <1>1
  <2>2. e.ext = "REMOTE_NONSECURE" <=> e.state = "SECURE" /\ a.state # "SECURE"
    BY <1>1, <1>5, <1>6, <1>8 DEF Calling
  <2>3. "WE" \in e.ND <=> "THEY" \in a.ND
    BY <1>1, <1>7, <1>9 DEF TookIn
  <2>4. "WE" \in e.NR <=> "WANT" \in a.NR
    BY <1>1, <1>7, <1>8, <1>9 DEF TookIn, Answering, If
  <2>5. ASSUME Accepting(conf) PROVE e.key_out = a.key_in /\ e.key_in = a.key_out
    <3>1. CASE "YES" \in a.crypt
      <4>1. /\ a.epwd = Me(c).out_pwd /\ Me(c).out_pwd \notin {"-", "!"}
            /\ a.state = "SECURE" /\ o.MD # 0
        BY <3>1, <2>5, <1>6, <1>8 DEF Served, Agreed
      <4>2. ~no /\ k.crypt = o.crypt
        BY <4>1, <1>6
      <4>3. "THEY" \in o.crypt /\ "WE" \in o.crypt /\ o.crypt \subseteq Both
        BY <3>1, <1>5, <1>7, <1>8 DEF TookIn, Calling, Served
      <4>4. k.crypt = Both
        BY <4>2, <4>3 DEF Both
      <4>5. o.epwd # "!"
        BY <4>1, <1>8 DEF Calling
      <4>6. CryptAllowed(k)
        BY <4>1, <4>5 DEF CryptAllowed
      <4> QED  BY <4>1, <4>4, <4>6, <3>1, <1>2, <1>8, ZenonT(60) DEF Served
    <3>2. CASE "YES" \notin a.crypt
      <4>1. k.crypt # Both
        <5>1. "THEY" \notin o.crypt
          BY <3>2, <1>7 DEF TookIn
        <5> QED  BY <5>1 DEF Both
      <4> QED  BY <4>1, <3>2, <1>2, <1>8 DEF Served
    <3> QED  BY <3>1, <3>2
  <2> QED  BY <1>1, <1>5, <1>6, <1>8, <2>1, <2>2, <2>3, <2>4, <2>5 DEF Agreed
<1>21. DOMAIN a = EndFields /\ Steps(a)
  BY DEF Login
<1>22. Login(c, e, a, Tail(qo), qa)
  BY <1>1, <1>8, <1>10, <1>11, <1>14, <1>15, <1>16, <1>17, <1>18, <1>19, <1>20,
     <1>21 DEF Login
<1> QED  BY <1>22 DEF e

-----------------------------------------------------------------------------
(***************************************************************************)
(* The steps of the answering end                                          *)
(***************************************************************************)
LEMMA InVer ==
    ASSUME NEW c, NEW o, NEW a, NEW qo, NEW qa, NEW x, Login(c, o, a, qo, qa),
           a.pc = "up", qa # <<>>, Head(qa).t = "VER", a.buggy => x
    PROVE  Login(c, o, [a EXCEPT !.buggy = x], qo, Tail(qa))
<1> DEFINE e == [a EXCEPT !.buggy = x]
<1>1. DOMAIN a = EndFields
  BY DEF Login
<1>2. /\ DOMAIN e = EndFields /\ LikeIn(e, a) /\ e.NR = a.NR /\ e.ND = a.ND
      /\ e.pc = a.pc /\ e.heard = a.heard /\ e.MD = a.MD /\ e.fa = a.fa
      /\ e.asks = a.asks /\ e.sent = a.sent /\ e.epwd = a.epwd /\ e.buggy = x
  BY <1>1 DEF EndFields, LikeIn
<1> HIDE DEF e
<1>3. Steps(e) /\ Answering(c, e) /\ (e.state # "NULL" => Served(c, e))
  BY <1>2 DEF Login, Steps, Answering, Vouched, Served, LikeIn
<1>4. Sent(c, "a", e) = Sent(c, "a", a) /\ Read("a", e) = Read("a", a)
  BY <1>2 DEF Sent, Read, LikeIn
<1>5. Rank(Head(qa)) = 2 /\ Read("a", e) < Rank(Head(qa))
  BY <1>4, RankKinds, TailStream DEF Login, Queued
<1>6. Read("a", e) <= Rank(Head(qa)) /\ Sent(c, "a", a) <= Sent(c, "a", e)
  BY <1>4, <1>5, Marks
<1>8. Accepting(conf) => e.heard # "garbage"
  BY <1>2 DEF Login, Agreed
<1>9. Login(c, o, e, qo, Tail(qa))
  BY <1>2, <1>3, <1>5, <1>6, <1>8, InReads
<1> QED  BY <1>9 DEF e

LEMMA InOpt ==
    ASSUME NEW c, NEW o, NEW a, NEW qo, NEW qa, NEW x, Login(c, o, a, qo, qa),
           a.pc = "up", qa # <<>>, Head(qa).t = "OPT"
    PROVE  Login(c, o, Options(a, Head(qa).w, x), qo, Tail(qa))
<1> DEFINE w == Head(qa).w
           e == Options(a, w, x)
<1>1. DOMAIN a = EndFields
  BY DEF Login
<1>2. /\ DOMAIN e = EndFields
      /\ e.pc = a.pc /\ e.heard = a.heard /\ e.MD = a.MD /\ e.fa = a.fa
      /\ e.sent = a.sent /\ e.epwd = a.epwd /\ e.asks = a.asks
      /\ e.state = a.state /\ e.buggy = a.buggy
      /\ e.key_in = a.key_in /\ e.key_out = a.key_out
  BY <1>1, OptionsEnd
<1>3. /\ e.NR = a.NR \cup If("NR" \in w, "WE")
      /\ e.ND = (a.ND \cup If("ND" \in w, "WE")) \cup If("NDA" \in w, "NDA")
      /\ e.crypt = a.crypt \cup If("CRYPT" \in w, "THEY")
  BY <1>1, OptionsEnd
<1> HIDE DEF e
<1>4. /\ Head(qa) \in Els(qa) /\ Els(qa) = {Head(qa)} \cup Els(Tail(qa))
      /\ Read("a", a) < Rank(Head(qa))
      /\ \A f \in Els(Tail(qa)) : Rank(Head(qa)) < Rank(f)
  BY TailStream DEF Login, Queued
<1>5. Sent(c, "a", e) = Sent(c, "a", a) /\ Read("a", e) = Read("a", a)
  BY <1>2 DEF Sent, Read
<1>6. Read("a", e) <= Rank(Head(qa)) /\ Sent(c, "a", a) <= Sent(c, "a", e)
  BY <1>4, <1>5, Marks, RankNat
<1>7. Steps(e)
  BY <1>2 DEF Login, Steps
<1>8. w = WordsOut(c)
  BY <1>4 DEF Login, SaidOut
<1>9. /\ "NR" \in w <=> WantsNR(c)
      /\ "ND" \in w <=> Me(c).nd
      /\ "NDA" \in w
      /\ "CRYPT" \in w <=> ~conf[Caller[c]].no_crypt
      /\ "CRAM" \notin w
  BY <1>8 DEF WordsOut, If
<1>10. Rank(Head(qa)) = 4
  BY <1>9, RankKinds
<1>11. a.state = "NULL"
  BY <1>4, <1>10 DEF Read
<1>12. Unread(a) \/ TookOut(c, a)
  BY <1>11 DEF Login, HearsOut
<1>13. TookOut(c, e)
  BY <1>3, <1>9, <1>12 DEF Unread, TookOut, If
<1>14. Answering(c, e)
  <2>1. e.crypt \subseteq Both
    BY <1>3, <1>11 DEF Login, Answering, If, Both
  <2>2. "THEY" \in e.ND => "WANT" \in e.NR
    BY <1>3 DEF Login, Answering, If
  <2> QED  BY <1>2, <2>1, <2>2 DEF Login, Answering, Vouched
<1>15. Queued(c, "a", e, o, Tail(qa))
  BY <1>6, ReadQueue DEF Login
<1>16. Queued(c, "o", o, e, qo)
  BY <1>6, SilentQueue DEF Login, Other
<1>17. SaidOut(c, o, Tail(qa))
  BY <1>4 DEF Login, SaidOut
<1>18. SaidIn(c, e, qo)
  BY <1>2, <1>11 DEF Login, SaidIn
<1>19. HearsOut(c, o, e, Tail(qa))
  BY <1>13 DEF HearsOut
<1>20. HearsIn(o, e, qo)
  BY <1>2, <1>11 DEF Login, HearsIn
<1>21. Agreed(c, o, e)
  BY <1>2, <1>11 DEF Login, Agreed
<1>22. Login(c, o, e, qo, Tail(qa))
  BY <1>2, <1>7, <1>11, <1>14, <1>15, <1>16, <1>17, <1>18, <1>19, <1>20, <1>21 DEF Login
<1> QED  BY <1>22 DEF e

LEMMA InAdr ==
    ASSUME NEW c, NEW o, NEW a, NEW qo, NEW qa, NEW x, Login(c, o, a, qo, qa),
           a.pc = "up", qa # <<>>, Head(qa).t = "ADR"
    PROVE  Login(c, o, [a EXCEPT !.pc = "adr", !.todo = x, !.epwd = a.epwd], qo, Tail(qa))
<1> DEFINE e == [a EXCEPT !.pc = "adr", !.todo = x, !.epwd = a.epwd]
<1>1. DOMAIN a = EndFields
  BY DEF Login
<1>2. /\ DOMAIN e = EndFields /\ LikeIn(e, a) /\ e.NR = a.NR /\ e.ND = a.ND
      /\ e.pc = "adr" /\ e.heard = a.heard /\ e.MD = a.MD /\ e.fa = a.fa
      /\ e.asks = a.asks /\ e.sent = a.sent /\ e.epwd = a.epwd
  BY <1>1 DEF EndFields, LikeIn
<1> HIDE DEF e
<1>3. Rank(Head(qa)) = 3 /\ Read("a", a) < Rank(Head(qa))
  BY RankKinds, TailStream DEF Login, Queued
<1>4. a.fa = {} /\ a.state = "NULL" /\ a.heard = "nothing" /\ ~a.sent
  <2>1. a.fa = {} /\ a.state = "NULL" /\ a.heard = "nothing"
    BY <1>3 DEF Read
  <2> QED  BY <2>1 DEF Login, Steps
<1>5. Steps(e)
  BY <1>2, <1>4 DEF Steps, LikeIn
<1>6. Answering(c, e)
  BY <1>2, <1>4 DEF Login, Answering, Vouched, LikeIn
<1>7. Read("a", e) = 3 /\ Sent(c, "a", e) = Sent(c, "a", a)
  BY <1>2, <1>4 DEF Sent, Read, LikeIn
<1>8. e.state = "NULL"
  BY <1>2, <1>4 DEF LikeIn
<1>9. Accepting(conf) => e.heard # "garbage"
  BY <1>2 DEF Login, Agreed
<1>10. Read("a", e) <= Rank(Head(qa)) /\ Sent(c, "a", a) <= Sent(c, "a", e)
  BY <1>3, <1>7, Marks
<1>11. Login(c, o, e, qo, Tail(qa))
  BY <1>2, <1>3, <1>5, <1>6, <1>8, <1>9, <1>10, InReads
<1> QED  BY <1>11 DEF e

(* What working off an address does to the answering end *)
LEMMA InAka ==
    ASSUME NEW c, NEW o, NEW a, NEW qo, NEW qa, NEW e, Login(c, o, a, qo, qa),
           a.pc = "adr", DOMAIN e = EndFields, e.state = a.state, e.crypt = a.crypt,
           e.key_in = a.key_in, e.key_out = a.key_out, e.NR = a.NR, e.ND = a.ND,
           e.pc = "adr", e.heard = a.heard, e.sent = a.sent,
           Vouched(c, e), Accepting(conf) => e.MD \in {0, 1},
           \A b \in BOOLEAN : <<b, "ND">> \in e.asks => <<b, "NR">> \in e.asks
    PROVE  Login(c, o, e, qo, qa)
<1>1. a.state = "NULL" /\ ~a.sent
  BY DEF Login, Steps
<1>2. Steps(e) /\ LikeIn(e, a)
  BY <1>1 DEF Steps, LikeIn
<1>3. Answering(c, e)
  BY <1>1 DEF Login, Answering
<1>4. Read("a", e) = Read("a", a) /\ Sent(c, "a", e) = Sent(c, "a", a)
  BY <1>1 DEF Sent, Read
<1>5. Sent(c, "a", a) <= Sent(c, "a", e)
  BY <1>4, Marks
<1>6. e.state = "NULL"
  BY <1>1
<1> QED  BY <1>2, <1>3, <1>4, <1>5, <1>6, InWorks


(* The addresses are through: the answering end may tell its own now *)
LEMMA InDone ==
    ASSUME NEW c, NEW o, NEW a, NEW qo, NEW qa, Login(c, o, a, qo, qa),
           a.pc = "adr", a.fa # {}, NEW b \in BOOLEAN, NEW x, NEW m,
           m = IF conf[Called[c]].delay_ADR THEN <<M_ADR(x)>> ELSE <<>>
    PROVE  LET e == [a EXCEPT !.pc = "up", !.asks = {},
                              !.ND = @ \cup If(<<b, "ND">> \in a.asks, "THEY"),
                              !.NR = @ \cup If(<<b, "NR">> \in a.asks, "WANT")]
           IN  Login(c, o, e, Join(qo, m), qa)
<1> DEFINE e == [a EXCEPT !.pc = "up", !.asks = {},
                          !.ND = @ \cup If(<<b, "ND">> \in a.asks, "THEY"),
                          !.NR = @ \cup If(<<b, "NR">> \in a.asks, "WANT")]
           f == M_ADR(x)
<1>1. DOMAIN a = EndFields /\ a.state = "NULL" /\ ~a.sent
  BY DEF Login, Steps
<1>2. /\ DOMAIN e = EndFields /\ e.pc = "up" /\ e.heard = a.heard /\ e.MD = a.MD
      /\ e.fa = a.fa /\ e.sent = a.sent /\ e.epwd = a.epwd
      /\ e.state = a.state /\ e.crypt = a.crypt
      /\ e.key_in = a.key_in /\ e.key_out = a.key_out
  BY <1>1 DEF EndFields
<1>3. /\ e.ND = a.ND \cup If(<<b, "ND">> \in a.asks, "THEY")
      /\ e.NR = a.NR \cup If(<<b, "NR">> \in a.asks, "WANT")
      /\ e.asks = {}
  BY <1>1 DEF EndFields
<1> HIDE DEF e
<1>4. LikeIn(e, a)
  BY <1>1, <1>2, <1>3 DEF LikeIn, If
<1>5. Steps(e)
  BY <1>1, <1>2 DEF Steps
<1>6. Answering(c, e)
  <2>1. "THEY" \in e.ND => "WANT" \in e.NR
    BY <1>3 DEF Login, Answering, If
  <2> QED  BY <1>2, <1>3, <2>1 DEF Login, Answering, Vouched
<1>7. Rank(f) = 3 /\ f.t = "ADR"
  BY Ranks DEF M_ADR
<1> HIDE DEF f
<1>8. Read("a", e) = Read("a", a) /\ Sent(c, "a", e) = 3
  BY <1>1, <1>2 DEF Sent, Read
<1>9. Sent(c, "a", a) = IF conf[Called[c]].delay_ADR THEN 2 ELSE 3
  BY <1>1 DEF Sent
<1>10. /\ IsStream(m) /\ InOrder(m)
       /\ Els(m) = IF conf[Called[c]].delay_ADR THEN {f} ELSE {}
  BY ShortStreams DEF f
<1>11. Ahead(c, "a", a, e, m)
  BY <1>7, <1>8, <1>9, <1>10 DEF Ahead
<1>12. SaidIn(c, e, m)
  BY <1>7, <1>10 DEF SaidIn
<1>13. e.state = "NULL"
  BY <1>1, <1>2
<1>14. Login(c, o, e, Join(qo, m), qa)
  BY <1>2, <1>4, <1>5, <1>6, <1>8, <1>11, <1>12, <1>13, InWrites
<1> QED  BY <1>14 DEF e

(* The banner of the answering end, whatever of it the configuration asks  *)
(* for                                                                     *)
Greets(c, m) ==
    /\ IsStream(m) /\ InOrder(m)
    /\ \A f \in Els(m) :
           /\ Rank(f) \in 1 .. 3 /\ (Rank(f) = 3 => ~conf[Called[c]].delay_ADR)
           /\ f.t \in {"VER", "ADR", "OPT"} /\ (f.t = "OPT" => f.w = {"CRAM"})

Greeting(c) == (Challenge(c) \o <<VER(conf[Called[c]].old)>>) \o ADR_now(c)

LEMMA GreetingFrames == ASSUME NEW c PROVE Greets(c, Greeting(c))
<1> DEFINE p == Challenge(c)
           v == VER(conf[Called[c]].old)
           z == ADR_now(c)
           g == OPT({"CRAM"})
           h == M_ADR(conf[Called[c]].akas)
           vs == <<v>>
<1>1. /\ Rank(g) = 1 /\ g.t = "OPT" /\ g.w = {"CRAM"}
      /\ Rank(v) = 2 /\ v.t = "VER" /\ Rank(h) = 3 /\ h.t = "ADR"
  <2>1. "CRAM" \in {"CRAM"}
    OBVIOUS
  <2>2. Rank(g) = 1 /\ Rank(v) = 2 /\ Rank(h) = 3
    BY <2>1, Ranks
  <2> QED  BY <2>2 DEF OPT, VER, M_ADR
<1>2. /\ IsStream(p) /\ InOrder(p) /\ \A f \in Els(p) : f = g
      /\ IsStream(vs) /\ InOrder(vs) /\ Els(vs) = {v}
      /\ IsStream(z) /\ InOrder(z)
      /\ \A f \in Els(z) : f = h /\ ~conf[Called[c]].delay_ADR
  <2>1. IsStream(vs) /\ InOrder(vs) /\ Els(vs) = {v}
    BY ShortStreams
  <2>2. IsStream(p) /\ InOrder(p) /\ \A f \in Els(p) : f = g
    BY ShortStreams DEF Challenge
  <2>3. /\ IsStream(z) /\ InOrder(z)
        /\ \A f \in Els(z) : f = h /\ ~conf[Called[c]].delay_ADR
    BY ShortStreams DEF ADR_now
  <2> QED  BY <2>1, <2>2, <2>3
<1>3. Greeting(c) = (p \o vs) \o z
  BY DEF Greeting
<1> HIDE DEF p, v, z, g, h, vs
<1>4. IsStream(p \o vs) /\ InOrder(p \o vs) /\ Els(p \o vs) = Els(p) \cup {v}
  <2>1. \A f \in Els(p), k \in Els(vs) : Rank(f) < Rank(k)
    BY <1>1, <1>2
  <2> QED  BY <2>1, <1>2, JoinStream
<1> DEFINE y == p \o vs
<1> HIDE DEF y
<1>5. IsStream(y) /\ InOrder(y) /\ \A f \in Els(y) : f \in {g, v}
  BY <1>2, <1>4 DEF y
<1>6. /\ IsStream(y \o z) /\ InOrder(y \o z) /\ Els(y \o z) = Els(y) \cup Els(z)
  <2>1. \A f \in Els(y), k \in Els(z) : Rank(f) < Rank(k)
    BY <1>1, <1>2, <1>5
  <2> QED  BY <2>1, <1>2, <1>5, JoinStream
<1>7. Greets(c, y \o z)
  <2>1. ASSUME NEW f \in Els(y \o z)
        PROVE  f \in {g, v} \/ (f = h /\ ~conf[Called[c]].delay_ADR)
    BY <1>2, <1>5, <1>6
  <2> QED  BY <1>1, <1>6, <2>1 DEF Greets
<1> QED  BY <1>3, <1>7 DEF y

LEMMA InBanner ==
    ASSUME NEW c, NEW o, NEW a, NEW qo, NEW qa, Login(c, o, a, qo, qa),
           a.pc = "new", NEW x, NEW m, Greets(c, m)
    PROVE  Login(c, o, [a EXCEPT !.pc = "up", !.chal = x], Join(qo, m), qa)
<1> DEFINE e == [a EXCEPT !.pc = "up", !.chal = x]
<1>1. DOMAIN a = EndFields /\ a.state = "NULL" /\ ~a.sent /\ a.fa = {}
  BY DEF Login, Steps
<1>2. /\ DOMAIN e = EndFields /\ LikeIn(e, a) /\ e.NR = a.NR /\ e.ND = a.ND
      /\ e.pc = "up" /\ e.heard = a.heard /\ e.MD = a.MD /\ e.fa = a.fa
      /\ e.asks = a.asks /\ e.sent = a.sent /\ e.epwd = a.epwd /\ e.state = "NULL"
  BY <1>1 DEF EndFields, LikeIn
<1> HIDE DEF e
<1>3. Steps(e) /\ Answering(c, e)
  BY <1>1, <1>2 DEF Login, Steps, Answering, Vouched, LikeIn
<1>4. /\ Read("a", e) = Read("a", a) /\ Sent(c, "a", a) = 0
      /\ Sent(c, "a", e) = IF conf[Called[c]].delay_ADR THEN 2 ELSE 3
  BY <1>1, <1>2 DEF Sent, Read
<1>5. Ahead(c, "a", a, e, m)
  BY <1>4 DEF Ahead, Greets
<1>6. SaidIn(c, e, m)
  BY DEF SaidIn, Greets
<1>7. Login(c, o, e, Join(qo, m), qa)
  BY <1>2, <1>3, <1>4, <1>5, <1>6, InWrites
<1> QED  BY <1>7 DEF e

(* Too many servers: the greeting is out, M_BSY follows *)
LEMMA InFull ==
    ASSUME NEW c, NEW o, NEW a, NEW qo, NEW qa, Login(c, o, a, qo, qa),
           a.pc = "new"
    PROVE  Login(c, o, Closed(a), Bye(qo, Greeting(c) \o <<M_BSY>>), <<>>)
<1> DEFINE g == Greeting(c)
           z == <<M_BSY>>
<1>1. Greets(c, g)
  BY GreetingFrames
<1>2. IsStream(z) /\ InOrder(z) /\ Els(z) = {M_BSY} /\ Rank(M_BSY) = 8 /\ M_BSY.t = "BSY"
  <2>1. IsStream(z) /\ InOrder(z) /\ Els(z) = {M_BSY}
    BY ShortStreams
  <2>2. M_BSY.t = "BSY"
    BY DEF M_BSY
  <2> QED  BY <2>1, <2>2, Ranks
<1> HIDE DEF g, z
<1>3. /\ IsStream(g \o z) /\ InOrder(g \o z) /\ Els(g \o z) = Els(g) \cup Els(z)
  <2>1. \A f \in Els(g), k \in Els(z) : Rank(f) < Rank(k)
    BY <1>1, <1>2 DEF Greets
  <2> QED  BY <2>1, <1>1, <1>2, JoinStream DEF Greets
<1> DEFINE m == g \o z
<1> HIDE DEF m
<1>4. Sent(c, "a", a) = 0
  BY DEF Sent
<1>5. Last(c, "a", a, m)
  <2>1. \A f \in Els(m) : Rank(f) \in 1 .. 8
    BY <1>1, <1>2, <1>3 DEF m, Greets
  <2> QED  BY <1>3, <1>4, <2>1 DEF Last, m
<1>6. \A f \in Els(m) : f.t \notin {"OK", "FIRST"} /\ (f.t = "OPT" => f.w = {"CRAM"})
  BY <1>1, <1>2, <1>3 DEF m, Greets
<1>7. Login(c, o, Closed(a), Bye(qo, m), <<>>)
  BY <1>5, <1>6, InQuits
<1> QED  BY <1>7 DEF m, g, z

(* The first frame after the login, written and read *)
LEMMA InFirst ==
    ASSUME NEW c, NEW o, NEW a, NEW qo, NEW qa, Login(c, o, a, qo, qa),
           a.pc = "up", a.state # "NULL", ~a.sent
    PROVE  Login(c, o, [a EXCEPT !.sent = TRUE], Join(qo, <<First(a.key_out)>>), qa)
<1> DEFINE e == [a EXCEPT !.sent = TRUE]
           f == First(a.key_out)
           m == <<f>>
<1>1. DOMAIN a = EndFields
  BY DEF Login
<1>2. /\ DOMAIN e = EndFields /\ LikeIn(e, a) /\ e.sent /\ e.NR = a.NR /\ e.ND = a.ND
      /\ e.pc = "up" /\ e.heard = a.heard /\ e.fa = a.fa /\ e.MD = a.MD
      /\ e.asks = a.asks /\ e.epwd = a.epwd /\ e.buggy = a.buggy
  BY <1>1 DEF EndFields, LikeIn
<1> HIDE DEF e
<1>4. Rank(f) = 7 /\ f.t = "FIRST" /\ f.key = a.key_out
  BY Ranks DEF First
<1> HIDE DEF f
<1>5. IsStream(m) /\ InOrder(m) /\ Els(m) = {f}
  BY ShortStreams
<1> HIDE DEF m
<1>6. Sent(c, "a", a) = 6 /\ Sent(c, "a", e) = 7 /\ Read("a", e) = Read("a", a)
  BY <1>2 DEF Sent, Read, LikeIn
<1>7. Ahead(c, "a", a, e, m)
  BY <1>4, <1>5, <1>6 DEF Ahead
<1>8. SaidIn(c, e, m)
  BY <1>2, <1>4, <1>5 DEF SaidIn, LikeIn
<1>9. Steps(e) /\ Answering(c, e)
  BY <1>2 DEF Login, Steps, Answering, Vouched, LikeIn
<1>10. Served(c, e)
  BY <1>2 DEF Login, Served, LikeIn
<1>11. Login(c, o, e, Join(qo, m), qa)
  BY <1>2, <1>6, <1>7, <1>8, <1>9, <1>10, InWrites
<1> QED  BY <1>11 DEF e, m, f

LEMMA InHears ==
    ASSUME NEW c, NEW o, NEW a, NEW qo, NEW qa, Login(c, o, a, qo, qa),
           a.pc = "up", qa # <<>>, Head(qa).t = "FIRST"
    PROVE  LET e == [a EXCEPT !.heard = IF Head(qa).key = a.key_in
                                        THEN "clear" ELSE "garbage"]
           IN  Login(c, o, e, qo, Tail(qa))
<1> DEFINE e == [a EXCEPT !.heard = IF Head(qa).key = a.key_in
                                    THEN "clear" ELSE "garbage"]
<1>1. DOMAIN a = EndFields
  BY DEF Login
<1>2. /\ DOMAIN e = EndFields /\ LikeIn(e, a) /\ e.sent = a.sent
      /\ e.NR = a.NR /\ e.ND = a.ND
      /\ e.pc = "up" /\ e.fa = a.fa /\ e.MD = a.MD
      /\ e.asks = a.asks /\ e.epwd = a.epwd /\ e.buggy = a.buggy
  BY <1>1 DEF EndFields, LikeIn
<1>3. e.heard = IF Head(qa).key = a.key_in THEN "clear" ELSE "garbage"
  BY <1>1 DEF EndFields
<1> HIDE DEF e
<1>4. /\ Head(qa) \in Els(qa) /\ Els(qa) = {Head(qa)} \cup Els(Tail(qa))
      /\ \A f \in Els(Tail(qa)) : Rank(Head(qa)) < Rank(f)
  BY TailStream DEF Login, Queued
<1>5. Rank(Head(qa)) = 7
  BY RankKinds
<1>6. o.state # "NULL" /\ Head(qa).key = o.key_out
  BY <1>4 DEF Login, SaidOut
<1>7. a.state # "NULL"
  BY <1>6 DEF Login, Agreed
<1>8. Accepting(conf) => e.heard # "garbage"
  BY <1>3, <1>6 DEF Login, Agreed
<1>9. Steps(e) /\ Answering(c, e)
  BY <1>2, <1>7 DEF Login, Steps, Answering, Vouched, LikeIn
<1>10. Served(c, e)
  BY <1>2, <1>7 DEF Login, Served, LikeIn
<1>11. Read("a", e) = 7 /\ Sent(c, "a", e) = Sent(c, "a", a)
  BY <1>2, <1>3 DEF Read, Sent, LikeIn
<1>12. Read("a", e) <= Rank(Head(qa)) /\ Sent(c, "a", a) <= Sent(c, "a", e)
  BY <1>5, <1>11, Marks
<1>13. Login(c, o, e, qo, Tail(qa))
  BY <1>2, <1>5, <1>8, <1>9, <1>10, <1>12, InReads
<1> QED  BY <1>13 DEF e

(* What PWD makes of the answering end a when it accepts the frame m, up   *)
(* to complete_login                                                       *)
Accepted(c, a, m, k) ==
    /\ DOMAIN k = EndFields
    /\ k.pc = a.pc /\ k.epwd = a.epwd /\ k.fa = a.fa /\ k.asks = a.asks
    /\ k.sent = a.sent /\ k.heard = a.heard /\ k.buggy = a.buggy
    /\ k.state = IF a.epwd = "-" THEN "NONSECURE" ELSE "SECURE"
    /\ k.MD = IF (a.epwd = "-" => m.md) /\ ByDigest(a, m) THEN 1 ELSE a.MD
    /\ k.crypt = IF k.state = "SECURE" /\ (a.crypt = Both => CryptAllowed(k))
                 THEN a.crypt ELSE {}
    /\ k.ND = NegotiateND(a)
    /\ a.NR \subseteq k.NR
    /\ "WE" \in k.NR => "WE" \in a.NR \/ a.buggy

(* M_PWD is accepted: the answering end is logged in, and says what it     *)
(* goes by                                                                 *)
LEMMA InPwd ==
    ASSUME NEW c, NEW o, NEW a, NEW qo, NEW qa, Login(c, o, a, qo, qa),
           a.pc = "up", qa # <<>>, Head(qa).t = "PWD",
           a.epwd # "-" => ~MustMD5(a, Head(qa)) /\ GoodPwd(a, Head(qa)),
           NEW k, Accepted(c, a, Head(qa), k),
           NEW yes, yes <=> k.crypt = Both, NEW sec, sec <=> k.state = "SECURE"
    PROVE  Login(c, o, complete_login(c, "a", k),
                 Join(qo, <<OPT(OptWords(k, yes)), M_OK(sec)>>), Tail(qa))
<1> DEFINE e == complete_login(c, "a", k)
           m == Head(qa)
           w == OptWords(k, yes)
           f == OPT(w)
           g == M_OK(sec)
           ms == <<f, g>>
<1>0. DOMAIN k = EndFields
  BY DEF Accepted
<1>1. /\ DOMAIN e = EndFields /\ e.pc = "up" /\ e.state = k.state
      /\ e.ND = k.ND /\ e.MD = k.MD /\ e.epwd = a.epwd /\ e.fa = a.fa
      /\ e.asks = a.asks /\ e.sent = a.sent /\ e.heard = a.heard /\ e.buggy = a.buggy
      /\ e.NR = k.NR \cup If("WE" \in k.ND, "WE")
  BY <1>0, LoginFields DEF Accepted
<1>2. /\ k.crypt = Both /\ CryptAllowed(k) =>
            /\ e.crypt = {"YES"} /\ e.key_out = <<"a", k.epwd>>
            /\ e.key_in = <<"o", k.epwd>>
      /\ ~(k.crypt = Both /\ CryptAllowed(k)) =>
            e.crypt = {} /\ e.key_out = Plain /\ e.key_in = Plain
  BY <1>0, KeysIn
<1> HIDE DEF e
<1>3. /\ m \in Els(qa) /\ Els(qa) = {m} \cup Els(Tail(qa))
      /\ Read("a", a) < Rank(m) /\ Rank(m) <= Sent(c, "o", o)
      /\ \A x \in Els(Tail(qa)) : Rank(m) < Rank(x)
  <2>1. Queued(c, "a", a, o, qa) /\ Other("a") = "o"
    BY DEF Login, Other
  <2> QED  BY <2>1, TailStream DEF Queued
<1>4. Rank(m) = 5
  BY RankKinds
<1>5. a.state = "NULL" /\ a.heard = "nothing" /\ ~a.sent
  <2>1. a.state = "NULL" /\ a.heard = "nothing"
    BY <1>3, <1>4 DEF Read
  <2> QED  BY <2>1 DEF Login, Steps
<1>6. o.pc = "closed" \/ (o.pc = "up" /\ o.fa # {})
  BY <1>3, <1>4 DEF Sent
<1>7. TookOut(c, a)
  <2>1. \A x \in Els(qa) : Rank(x) # 4
    BY <1>3, <1>4, RankNat
  <2> QED  BY <2>1, <1>5, <1>6 DEF Login, HearsOut
<1>8. m.p = Me(c).out_pwd /\ (m.md => o.MD # 0)
  BY <1>3 DEF Login, SaidOut
<1>9. Answering(c, a) /\ Agreed(c, o, a)
  BY DEF Login
<1>10. e.ND = a.ND
  BY <1>1, <1>7 DEF Accepted, NegotiateND, TookOut
<1>11. e.state # "NULL" /\ (e.state = "SECURE" <=> a.epwd # "-")
  BY <1>1 DEF Accepted
<1>12. a.epwd # "" /\ (a.epwd \notin {"-", "!"} => a.epwd = Me(c).out_pwd)
  BY <1>8 DEF GoodPwd
<1>13. k.crypt = Both => a.crypt = Both /\ k.state = "SECURE" /\ CryptAllowed(k)
  BY DEF Accepted, Both
<1>14. /\ "YES" \in e.crypt <=> k.crypt = Both
       /\ e.key_out = IF "YES" \in e.crypt THEN <<"a", a.epwd>> ELSE Plain
       /\ e.key_in  = IF "YES" \in e.crypt THEN <<"o", a.epwd>> ELSE Plain
  <2>1. k.epwd = a.epwd
    BY DEF Accepted
  <2> QED  BY <1>2, <1>13, <2>1
<1>15. "YES" \in e.crypt => ~conf[Caller[c]].no_crypt /\ a.epwd \notin {"-", "!"}
  <2> SUFFICES ASSUME "YES" \in e.crypt
               PROVE  ~conf[Caller[c]].no_crypt /\ a.epwd \notin {"-", "!"}
    OBVIOUS
  <2>1. "THEY" \in a.crypt
    BY <1>13, <1>14 DEF Both
  <2>2. k.epwd = a.epwd /\ k.epwd # "!" /\ a.epwd # "-"
    BY <1>13, <1>14 DEF Accepted, CryptAllowed
  <2> QED  BY <2>1, <2>2, <1>7 DEF TookOut
<1>16. /\ "WE" \in e.ND <=> Me(c).nd
       /\ WantsNR(c) => "WE" \in e.NR
       /\ "WE" \in e.NR => WantsNR(c) \/ e.buggy
  <2>1. "WE" \in e.ND <=> Me(c).nd
    BY <1>7, <1>10 DEF TookOut
  <2>2. WantsNR(c) => "WE" \in e.NR
    BY <1>1, <1>7 DEF TookOut, Accepted
  <2>3. ASSUME "WE" \in e.NR PROVE WantsNR(c) \/ e.buggy
    <3>1. CASE "WE" \in k.NR
      BY <3>1, <1>1, <1>7 DEF Accepted, TookOut
    <3>2. CASE "WE" \notin k.NR
      BY <3>2, <2>1, <2>3, <1>1 DEF If, WantsNR
    <3> QED  BY <3>1, <3>2
  <2> QED  BY <2>1, <2>2, <2>3
<1>17. Served(c, e)
  BY <1>1, <1>11, <1>12, <1>14, <1>15, <1>16 DEF Served
<1>18. "WANT" \in e.NR <=> "WANT" \in k.NR
  BY <1>1 DEF If
<1>19. Answering(c, e)
  <2>1. "THEY" \in e.ND => "WANT" \in e.NR
    BY <1>9, <1>10, <1>18 DEF Answering, Accepted
  <2>2. Accepting(conf) => e.MD \in {0, 1}
    BY <1>1, <1>9 DEF Answering, Accepted
  <2> QED  BY <1>1, <1>9, <1>11, <2>1, <2>2 DEF Answering, Vouched
<1>20. Steps(e)
  BY <1>1, <1>5, <1>11 DEF Steps
<1>21. w = WordsIn(e) /\ "CRAM" \notin w
  <2>1. w = WordsIn(e)
    BY <1>1, <1>14, <1>18 DEF OptWords, WordsIn, If
  <2> QED  BY <2>1 DEF WordsIn, If
<1> HIDE DEF w
<1>22. Rank(f) = 4 /\ f.t = "OPT" /\ f.w = w /\ Rank(g) = 6 /\ g.t = "OK" /\ g.secure = sec
  <2>1. Rank(f) = 4 /\ Rank(g) = 6
    BY <1>21, Ranks
  <2> QED  BY <2>1 DEF OPT, M_OK
<1> HIDE DEF f, g
<1>23. IsStream(ms) /\ InOrder(ms) /\ Els(ms) = {f, g}
  BY <1>22, ShortStreams
<1> HIDE DEF ms
<1>24. Read("a", e) = 5 /\ Sent(c, "a", e) = 6 /\ Sent(c, "a", a) <= 3
  <2>1. Read("a", e) = 5
    BY <1>1, <1>5, <1>11 DEF Read
  <2>2. Sent(c, "a", e) = 6
    BY <1>1, <1>5, <1>11 DEF Sent
  <2>3. Sent(c, "a", a) <= 3
    BY <1>5 DEF Sent
  <2> QED  BY <2>1, <2>2, <2>3
<1>25. Ahead(c, "a", a, e, ms)
  <2>1. Sent(c, "a", a) \in Int
    BY Marks
  <2> QED  BY <2>1, <1>22, <1>23, <1>24 DEF Ahead
<1>26. Queued(c, "a", e, o, Tail(qa))
  <2>1. Read("a", e) <= Rank(Head(qa))
    BY <1>4, <1>24
  <2> QED  BY <2>1, ReadQueue DEF Login
<1>27. Queued(c, "o", o, e, Join(qo, ms)) /\ Els(Join(qo, ms)) = Els(qo) \cup Els(ms)
  <2>1. Queued(c, "o", o, a, qo) /\ "a" = Other("o")
    BY DEF Login, Other
  <2>2. Queued(c, "o", o, e, Join(qo, ms))
    BY <1>25, <2>1, WriteQueue
  <2>3. Adds(qo, ms)
    BY <1>25, <2>1, WriteQueue
  <2> QED  BY <2>2, <2>3 DEF Adds
<1>28. SaidOut(c, o, Tail(qa))
  BY <1>3 DEF Login, SaidOut
<1>29. SaidIn(c, e, Join(qo, ms))
  <2>1. ASSUME NEW x \in Els(qo)
        PROVE  (x.t = "OPT" => x.w = {"CRAM"}) /\ x.t # "OK" /\ x.t # "FIRST"
    BY <1>5 DEF Login, SaidIn
  <2>2. /\ f.t = "OPT" /\ f.w = WordsIn(e)
        /\ g.t = "OK" /\ (g.secure <=> e.state = "SECURE")
    BY <1>1, <1>21, <1>22
  <2> QED  BY <2>1, <2>2, <1>11, <1>23, <1>27 DEF SaidIn
<1>30. HearsOut(c, o, e, Tail(qa))
  BY <1>11 DEF HearsOut
<1>31. HearsIn(o, e, Join(qo, ms))
  <2>1. o.pc # "closed" /\ o.state = "NULL" => Unread(o)
    BY <1>5 DEF Login, HearsIn
  <2>2. f \in Els(Join(qo, ms)) /\ g \in Els(Join(qo, ms))
    BY <1>23, <1>27
  <2> QED  BY <2>1, <2>2, <1>22 DEF HearsIn
<1>32. Agreed(c, o, e)
  <2>1. o.state = "NULL"
    BY <1>5, <1>9 DEF Agreed
  <2>2. ASSUME Accepting(conf), "YES" \in e.crypt PROVE o.MD # 0
    <3>1. k.MD # 0 /\ a.epwd # "-"
      BY <2>2, <1>13, <1>14, <1>15 DEF CryptAllowed
    <3>2. a.MD \in {0, 1}
      BY <2>2, <1>9 DEF Answering
    <3>3. m.md
      <4>1. CASE a.MD = 1
        BY <4>1, <3>1 DEF MustMD5
      <4>2. CASE a.MD = 0
        BY <4>2, <3>1 DEF Accepted, ByDigest
      <4> QED  BY <3>2, <4>1, <4>2
    <3> QED  BY <3>3, <1>8
  <2>3. Accepting(conf) => o.heard # "garbage" /\ e.heard # "garbage"
    BY <1>1, <1>9 DEF Agreed
  <2> QED  BY <1>6, <2>1, <2>2, <2>3 DEF Agreed
<1>33. DOMAIN o = EndFields /\ Steps(o) /\ Calling(c, o)
  BY DEF Login
<1>34. Login(c, o, e, Join(qo, ms), Tail(qa))
  BY <1>1, <1>17, <1>19, <1>20, <1>26, <1>27, <1>28, <1>29, <1>30, <1>31, <1>32,
     <1>33 DEF Login
<1> QED  BY <1>34 DEF e, ms, f, g, w

-----------------------------------------------------------------------------
(***************************************************************************)
(* From one call to the state                                              *)
(***************************************************************************)
NetShape == DOMAIN net = Calls /\ \A c \in Calls : DOMAIN net[c] = Sides

(* After the step, call c has these ends and frames; the others are as     *)
(* they were                                                               *)
Here(c, o, a, qo, qa) ==
    /\ end'[c]["o"] = o /\ end'[c]["a"] = a
    /\ net'[c]["o"] = qo /\ net'[c]["a"] = qa
    /\ \A d \in Calls : d # c => end'[d] = end[d] /\ net'[d] = net[d]
    /\ DOMAIN net' = Calls /\ \A d \in Calls : DOMAIN net'[d] = Sides

LEMMA JoinNothing == ASSUME NEW q, IsStream(q) PROVE Join(q, <<>>) = q
<1>1. PICK S : q \in Seq(S)
  BY DEF IsStream
<1> QED  BY <1>1 DEF Join

LEMMA EndsAfter ==
    ASSUME Shape, NEW c \in Calls, NEW s \in Sides, NEW e, Becomes(c, s, e)
    PROVE  /\ end'[c][s] = e /\ end'[c][Other(s)] = end[c][Other(s)]
           /\ \A d \in Calls : d # c => end'[d] = end[d]
BY DEF Shape, Becomes, Sides, Other

LEMMA NetAfter ==
    ASSUME NetShape, NEW c \in Calls, NEW s \in Sides, NEW x, NEW y,
           net' = [net EXCEPT ![c][s] = x, ![c][Other(s)] = y]
    PROVE  /\ net'[c][s] = x /\ net'[c][Other(s)] = y
           /\ \A d \in Calls : d # c => net'[d] = net[d]
           /\ DOMAIN net' = Calls /\ \A d \in Calls : DOMAIN net'[d] = Sides
BY DEF NetShape, Sides, Other

LEMMA AnswersAfter ==
    ASSUME NetShape, NEW c \in Calls, NEW s \in Sides, NEW ms, Answers(c, s, ms)
    PROVE  /\ net'[c][s] = Tail(net[c][s])
           /\ net'[c][Other(s)] = Join(net[c][Other(s)], ms)
           /\ \A d \in Calls : d # c => net'[d] = net[d]
           /\ DOMAIN net' = Calls /\ \A d \in Calls : DOMAIN net'[d] = Sides
BY DEF Answers, Join, NetShape, Sides, Other

LEMMA SendsAfter ==
    ASSUME NetShape, NEW c \in Calls, NEW s \in Sides, NEW ms, Sends(c, s, ms)
    PROVE  /\ net'[c][s] = net[c][s]
           /\ net'[c][Other(s)] = Join(net[c][Other(s)], ms)
           /\ \A d \in Calls : d # c => net'[d] = net[d]
           /\ DOMAIN net' = Calls /\ \A d \in Calls : DOMAIN net'[d] = Sides
BY DEF Sends, Join, NetShape, Sides, Other

LEMMA QuitAfter ==
    ASSUME Shape, NetShape, NEW c \in Calls, NEW s \in Sides, NEW ms, Quit(c, s, ms)
    PROVE  /\ end'[c][s] = Closed(end[c][s]) /\ end'[c][Other(s)] = end[c][Other(s)]
           /\ \A d \in Calls : d # c => end'[d] = end[d]
           /\ net'[c][s] = <<>>
           /\ net'[c][Other(s)] = Bye(net[c][Other(s)], ms)
           /\ \A d \in Calls : d # c => net'[d] = net[d]
           /\ DOMAIN net' = Calls /\ \A d \in Calls : DOMAIN net'[d] = Sides
<1>1. Becomes(c, s, Closed(end[c][s]))
  BY DEF Quit, Closed
<1>2. /\ net'[c][s] = <<>>
      /\ net'[c][Other(s)] = Bye(net[c][Other(s)], ms)
      /\ \A d \in Calls : d # c => net'[d] = net[d]
      /\ DOMAIN net' = Calls /\ \A d \in Calls : DOMAIN net'[d] = Sides
  BY DEF Quit, Bye, NetShape, Sides, Other
<1> QED  BY <1>1, <1>2, EndsAfter

(* The same for the two sides *)
LEMMA OutAnswers ==
    ASSUME Shape, NetShape, NEW c \in Calls, NEW e, Becomes(c, "o", e),
           Answers(c, "o", <<>>), IsStream(net[c]["a"])
    PROVE  Here(c, e, end[c]["a"], Tail(net[c]["o"]), net[c]["a"])
<1>1. "o" \in Sides /\ Other("o") = "a" /\ Join(net[c]["a"], <<>>) = net[c]["a"]
  BY JoinNothing DEF Sides, Other
<1> QED  BY <1>1, EndsAfter, AnswersAfter DEF Here

LEMMA OutSends ==
    ASSUME Shape, NetShape, NEW c \in Calls, NEW e, NEW ms, Becomes(c, "o", e),
           Sends(c, "o", ms)
    PROVE  Here(c, e, end[c]["a"], net[c]["o"], Join(net[c]["a"], ms))
<1>1. "o" \in Sides /\ Other("o") = "a"
  BY DEF Sides, Other
<1> QED  BY <1>1, EndsAfter, SendsAfter DEF Here

LEMMA OutStays ==
    ASSUME Shape, NetShape, NEW c \in Calls, NEW e, Becomes(c, "o", e), net' = net
    PROVE  Here(c, e, end[c]["a"], net[c]["o"], net[c]["a"])
<1>1. "o" \in Sides /\ Other("o") = "a"
  BY DEF Sides, Other
<1> QED  BY <1>1, EndsAfter DEF Here, NetShape

LEMMA OutLeaves ==
    ASSUME Shape, NetShape, NEW c \in Calls, NEW ms, Quit(c, "o", ms)
    PROVE  Here(c, Closed(end[c]["o"]), end[c]["a"], <<>>, Bye(net[c]["a"], ms))
<1>1. "o" \in Sides /\ Other("o") = "a"
  BY DEF Sides, Other
<1> QED  BY <1>1, QuitAfter DEF Here

LEMMA InAnswers ==
    ASSUME Shape, NetShape, NEW c \in Calls, NEW e, NEW ms, Becomes(c, "a", e),
           Answers(c, "a", ms)
    PROVE  Here(c, end[c]["o"], e, Join(net[c]["o"], ms), Tail(net[c]["a"]))
<1>1. "a" \in Sides /\ Other("a") = "o"
  BY DEF Sides, Other
<1> QED  BY <1>1, EndsAfter, AnswersAfter DEF Here

LEMMA InSends ==
    ASSUME Shape, NetShape, NEW c \in Calls, NEW e, NEW ms, Becomes(c, "a", e),
           Sends(c, "a", ms)
    PROVE  Here(c, end[c]["o"], e, Join(net[c]["o"], ms), net[c]["a"])
<1>1. "a" \in Sides /\ Other("a") = "o"
  BY DEF Sides, Other
<1> QED  BY <1>1, EndsAfter, SendsAfter DEF Here

LEMMA InStays ==
    ASSUME Shape, NetShape, NEW c \in Calls, NEW e, Becomes(c, "a", e), net' = net
    PROVE  Here(c, end[c]["o"], e, net[c]["o"], net[c]["a"])
<1>1. "a" \in Sides /\ Other("a") = "o"
  BY DEF Sides, Other
<1> QED  BY <1>1, EndsAfter DEF Here, NetShape

LEMMA InLeaves ==
    ASSUME Shape, NetShape, NEW c \in Calls, NEW ms, Quit(c, "a", ms)
    PROVE  Here(c, end[c]["o"], Closed(end[c]["a"]), Bye(net[c]["o"], ms), <<>>)
<1>1. "a" \in Sides /\ Other("a") = "o"
  BY DEF Sides, Other
<1> QED  BY <1>1, QuitAfter DEF Here

(* The configuration does not change, so what is said of records and       *)
(* sequences stays true                                                    *)
LEMMA SameConf ==
    ASSUME conf' = conf, NEW c, NEW o, NEW a, NEW qo, NEW qa, Login(c, o, a, qo, qa)
    PROVE  Login(c, o, a, qo, qa)'
<1>1. /\ Me(c)' = Me(c) /\ WantsNR(c)' = WantsNR(c) /\ WordsOut(c)' = WordsOut(c)
      /\ \A s : Sent(c, s, o)' = Sent(c, s, o) /\ Sent(c, s, a)' = Sent(c, s, a)
      /\ Accepting(conf)' = Accepting(conf)
      /\ \A x : Protected(c, "a", x)' = Protected(c, "a", x) /\ Pn(c, "a", x)' = Pn(c, "a", x)
  BY DEF Me, WantsNR, WordsOut, Sent, Accepting, Protected, Pn, Known
<1>2. Queued(c, "a", a, o, qa)' /\ Queued(c, "o", o, a, qo)'
  BY <1>1 DEF Login, Queued
<1>3. SaidOut(c, o, qa)' /\ SaidIn(c, a, qo)'
  BY <1>1 DEF Login, SaidOut, SaidIn
<1>4. Calling(c, o)' /\ Answering(c, a)'
  BY <1>1 DEF Login, Calling, Answering, Vouched
<1>5. (a.state # "NULL" => Served(c, a))'
  BY <1>1 DEF Login, Served
<1>6. HearsOut(c, o, a, qa)'
  BY <1>1 DEF Login, HearsOut, TookOut
<1>7. Agreed(c, o, a)'
  BY <1>1 DEF Login, Agreed
<1> QED  BY <1>2, <1>3, <1>4, <1>5, <1>6, <1>7 DEF Login

LEMMA Arrives ==
    ASSUME LoginInv, conf' = conf, NEW c \in Calls, NEW o, NEW a, NEW qo, NEW qa,
           Here(c, o, a, qo, qa), Login(c, o, a, qo, qa)
    PROVE  LoginInv' /\ NetShape'
<1>1. NetShape'
  BY DEF Here, NetShape
<1>2. ASSUME NEW d \in Calls
      PROVE  Login(d, end[d]["o"], end[d]["a"], net[d]["o"], net[d]["a"])'
  <2>1. CASE d = c
    <3>1. Login(c, o, a, qo, qa)'
      BY SameConf
    <3> QED  BY <2>1, <3>1 DEF Here
  <2>2. CASE d # c
    <3>1. end'[d] = end[d] /\ net'[d] = net[d]
      BY <2>2 DEF Here
    <3>2. PICK po : po = end[d]["o"]
      OBVIOUS
    <3>3. PICK pa : pa = end[d]["a"]
      OBVIOUS
    <3>4. PICK no : no = net[d]["o"]
      OBVIOUS
    <3>5. PICK na : na = net[d]["a"]
      OBVIOUS
    <3>6. Login(d, po, pa, no, na)
      BY <3>2, <3>3, <3>4, <3>5 DEF LoginInv
    <3>7. Login(d, po, pa, no, na)'
      BY <3>6, SameConf
    <3> QED  BY <3>1, <3>2, <3>3, <3>4, <3>5, <3>7
  <2> QED  BY <2>1, <2>2
<1>3. LoginInv'
  BY <1>2 DEF LoginInv
<1> QED  BY <1>1, <1>3

LEMMA StutterLogin ==
    ASSUME LoginInv, NetShape, UNCHANGED <<conf, end, net>>
    PROVE  LoginInv' /\ NetShape'
<1>1. NetShape'
  BY DEF NetShape
<1>2. ASSUME NEW d \in Calls
      PROVE  Login(d, end[d]["o"], end[d]["a"], net[d]["o"], net[d]["a"])'
  <2>1. PICK po : po = end[d]["o"]
    OBVIOUS
  <2>2. PICK pa : pa = end[d]["a"]
    OBVIOUS
  <2>3. PICK no : no = net[d]["o"]
    OBVIOUS
  <2>4. PICK na : na = net[d]["a"]
    OBVIOUS
  <2>5. Login(d, po, pa, no, na)
    BY <2>1, <2>2, <2>3, <2>4 DEF LoginInv
  <2>6. Login(d, po, pa, no, na)'
    BY <2>5, SameConf
  <2> QED  BY <2>1, <2>2, <2>3, <2>4, <2>6
<1>3. LoginInv'
  BY <1>2 DEF LoginInv
<1> QED  BY <1>1, <1>3

(* The session ends, on either side and with any of the refusals *)
LEMMA QuitLogin ==
    ASSUME Shape, NetShape, LoginInv, NEW c \in Calls, NEW s \in Sides,
           NEW ms \in {<<>>, <<M_ERR>>, <<M_BSY>>}, Quit(c, s, ms),
           end[c][s].pc \notin {"new", "closed"}
    PROVE  LoginInv' /\ NetShape'
<1> DEFINE o == end[c]["o"]
           a == end[c]["a"]
           qo == net[c]["o"]
           qa == net[c]["a"]
<1>1. Login(c, o, a, qo, qa)
  BY DEF LoginInv
<1>2. conf' = conf
  BY DEF Quit
<1> HIDE DEF o, a, qo, qa
<1>3. CASE s = "o"
  <2>1. Here(c, Closed(o), a, <<>>, Bye(qa, ms))
    BY <1>3, OutLeaves DEF o, a, qo, qa
  <2>2. o.pc \notin {"new", "closed"}
    BY <1>3 DEF o
  <2>3. Last(c, "o", o, ms) /\ \A f \in Els(ms) : f.t \notin {"OPT", "PWD", "FIRST"}
    BY <2>2, Refusals
  <2>4. Login(c, Closed(o), a, <<>>, Bye(qa, ms))
    BY <1>1, <2>2, <2>3, OutQuits
  <2> QED  BY <1>2, <2>1, <2>4, Arrives
<1>4. CASE s = "a"
  <2>1. Here(c, o, Closed(a), Bye(qo, ms), <<>>)
    BY <1>4, InLeaves DEF o, a, qo, qa
  <2>2. a.pc # "closed"
    BY <1>4 DEF a
  <2>3. /\ Last(c, "a", a, ms)
        /\ \A f \in Els(ms) : f.t \notin {"OK", "FIRST"} /\ (f.t = "OPT" => f.w = {"CRAM"})
    BY <2>2, Refusals
  <2>4. Login(c, o, Closed(a), Bye(qo, ms), <<>>)
    BY <1>1, <2>2, <2>3, InQuits
  <2> QED  BY <1>2, <2>1, <2>4, Arrives
<1> QED  BY <1>3, <1>4 DEF Sides

(* The banner *)
LEMMA BannerLogin ==
    ASSUME Shape, NetShape, LoginInv, NEW c \in Calls, NEW s \in Sides, banner(c, s)
    PROVE  LoginInv' /\ NetShape'
<1> DEFINE o == end[c]["o"]
           a == end[c]["a"]
           qo == net[c]["o"]
           qa == net[c]["a"]
<1>1. Login(c, o, a, qo, qa)
  BY DEF LoginInv
<1>2. conf' = conf
  BY DEF banner
<1>3. CASE s = "o"
  <2> DEFINE n == AutoNR(c, "o", o)
             x == conf[Caller[c]].old
             y == conf[Caller[c]].akas
             w == {"NDA"} \cup If("WANT" \in n, "NR")
                          \cup If("THEY" \in o.ND, "ND")
                          \cup If("WE" \in o.crypt, "CRYPT")
             e == [o EXCEPT !.pc = "up", !.NR = n]
             m == <<VER(x), M_ADR(y), OPT(w)>>
  <2>1. Becomes(c, "o", e) /\ Sends(c, "o", m) /\ o.pc = "new"
    BY <1>3 DEF banner, BannerOut
  <2>2. n = o.NR
    <3>1. o.fa = {}
      BY <1>1, <2>1 DEF Login, Steps
    <3> QED  BY <3>1 DEF AutoNR, inb_has_partials
  <2>3. Here(c, e, a, qo, Join(qa, m))
    BY <2>1, OutSends
  <2> HIDE DEF o, a, qo, qa, n, x, y
  <2>4. Login(c, e, a, qo, Join(qa, m))
    BY <1>1, <2>1, <2>2, OutBanner
  <2> HIDE DEF e, m
  <2> QED  BY <1>2, <2>3, <2>4, Arrives
<1>4. CASE s = "a"
  <2> DEFINE x == ~conf[Called[c]].no_MD5
             e == [a EXCEPT !.pc = "up", !.chal = x]
             m == Greeting(c)
  <2>1. Becomes(c, "a", e) /\ Sends(c, "a", m) /\ a.pc = "new"
    BY <1>4 DEF banner, BannerIn, Greeting
  <2>2. Here(c, o, e, Join(qo, m), qa)
    BY <2>1, InSends
  <2>3. Greets(c, m)
    BY GreetingFrames
  <2> HIDE DEF o, a, qo, qa, x, m
  <2>4. Login(c, o, e, Join(qo, m), qa)
    BY <1>1, <2>1, <2>3, InBanner
  <2> HIDE DEF e
  <2> QED  BY <1>2, <2>2, <2>4, Arrives
<1> QED  BY <1>3, <1>4 DEF Sides

LEMMA FullLogin ==
    ASSUME Shape, NetShape, LoginInv, NEW c \in Calls, TooManyServers(c)
    PROVE  LoginInv' /\ NetShape'
<1> DEFINE o == end[c]["o"]
           a == end[c]["a"]
           qo == net[c]["o"]
           qa == net[c]["a"]
           m == Greeting(c) \o <<M_BSY>>
<1>1. Login(c, o, a, qo, qa)
  BY DEF LoginInv
<1>2. a.pc = "new" /\ Quit(c, "a", m)
  BY DEF TooManyServers, Greeting
<1>3. conf' = conf
  BY <1>2 DEF Quit
<1>4. Here(c, o, Closed(a), Bye(qo, m), <<>>)
  BY <1>2, InLeaves
<1> HIDE DEF o, a, qo, qa
<1>5. Login(c, o, Closed(a), Bye(qo, m), <<>>)
  BY <1>1, <1>2, InFull
<1> HIDE DEF m
<1> QED  BY <1>3, <1>4, <1>5, Arrives

(* The options and the version *)
LEMMA NulLogin ==
    ASSUME Shape, NetShape, LoginInv, NEW c \in Calls, NEW s \in Sides,
           NUL_VER(c, s) \/ NUL_OPT(c, s)
    PROVE  LoginInv' /\ NetShape'
<1> DEFINE o == end[c]["o"]
           a == end[c]["a"]
           qo == net[c]["o"]
           qa == net[c]["a"]
<1>1. Login(c, o, a, qo, qa)
  BY DEF LoginInv
<1>2. conf' = conf /\ Answers(c, s, <<>>)
  BY DEF NUL_VER, NUL_OPT
<1>3. IsStream(qo) /\ IsStream(qa) /\ Join(qo, <<>>) = qo
  BY <1>1, JoinNothing DEF Login, Queued
<1>4. CASE s = "o" /\ NUL_VER(c, s)
  <2> DEFINE x == o.buggy \/ Head(qo).old
             e == [o EXCEPT !.buggy = x]
  <2>1. Becomes(c, "o", e) /\ o.pc = "up" /\ qo # <<>> /\ Head(qo).t = "VER"
    BY <1>4 DEF NUL_VER, Reads
  <2>2. Here(c, e, a, Tail(qo), qa)
    BY <1>2, <1>3, <1>4, <2>1, OutAnswers
  <2> HIDE DEF o, a, qo, qa, x
  <2>3. Login(c, e, a, Tail(qo), qa)
    BY <1>1, <2>1, OutVer
  <2> HIDE DEF e
  <2> QED  BY <1>2, <2>2, <2>3, Arrives
<1>5. CASE s = "a" /\ NUL_VER(c, s)
  <2> DEFINE x == a.buggy \/ Head(qa).old
             e == [a EXCEPT !.buggy = x]
  <2>1. Becomes(c, "a", e) /\ a.pc = "up" /\ qa # <<>> /\ Head(qa).t = "VER"
    BY <1>5 DEF NUL_VER, Reads
  <2>2. Here(c, o, e, Join(qo, <<>>), Tail(qa))
    BY <1>2, <1>5, <2>1, InAnswers
  <2>3. a.buggy => x
    OBVIOUS
  <2> HIDE DEF o, a, qo, qa, x
  <2>4. Login(c, o, e, qo, Tail(qa))
    BY <1>1, <2>1, <2>3, InVer
  <2> HIDE DEF e
  <2> QED  BY <1>2, <1>3, <2>2, <2>4, Arrives
<1>6. CASE s = "o" /\ NUL_OPT(c, s)
  <2> DEFINE x == o.chal \/ /\ "CRAM" \in Head(qo).w /\ s = "o"
                            /\ ~conf[Caller[c]].no_MD5 /\ Me(c).md >= 0
             e == Options(o, Head(qo).w, x)
  <2>1. Becomes(c, "o", e) /\ o.pc = "up" /\ qo # <<>> /\ Head(qo).t = "OPT"
    BY <1>6 DEF NUL_OPT, Reads, Options
  <2>2. Here(c, e, a, Tail(qo), qa)
    BY <1>2, <1>3, <1>6, <2>1, OutAnswers
  <2> HIDE DEF o, a, qo, qa, x
  <2>3. Login(c, e, a, Tail(qo), qa)
    BY <1>1, <2>1, OutOpt
  <2> HIDE DEF e
  <2> QED  BY <1>2, <2>2, <2>3, Arrives
<1>7. CASE s = "a" /\ NUL_OPT(c, s)
  <2> DEFINE x == a.chal \/ /\ "CRAM" \in Head(qa).w /\ s = "o"
                            /\ ~conf[Caller[c]].no_MD5 /\ Me(c).md >= 0
             e == Options(a, Head(qa).w, x)
  <2>1. Becomes(c, "a", e) /\ a.pc = "up" /\ qa # <<>> /\ Head(qa).t = "OPT"
    BY <1>7 DEF NUL_OPT, Reads, Options
  <2>2. Here(c, o, e, Join(qo, <<>>), Tail(qa))
    BY <1>2, <1>7, <2>1, InAnswers
  <2> HIDE DEF o, a, qo, qa, x
  <2>3. Login(c, o, e, qo, Tail(qa))
    BY <1>1, <2>1, InOpt
  <2> HIDE DEF e
  <2> QED  BY <1>2, <1>3, <2>2, <2>3, Arrives
<1> QED  BY <1>4, <1>5, <1>6, <1>7 DEF Sides

(* The first frame after the login *)
LEMMA FirstLogin ==
    ASSUME Shape, NetShape, LoginInv, NEW c \in Calls, NEW s \in Sides,
           msg_send2(c, s) \/ recv_block(c, s)
    PROVE  LoginInv' /\ NetShape'
<1> DEFINE o == end[c]["o"]
           a == end[c]["a"]
           qo == net[c]["o"]
           qa == net[c]["a"]
<1>1. Login(c, o, a, qo, qa)
  BY DEF LoginInv
<1>2. conf' = conf
  BY DEF msg_send2, recv_block
<1>3. IsStream(qo) /\ IsStream(qa) /\ Join(qo, <<>>) = qo
  BY <1>1, JoinNothing DEF Login, Queued
<1>4. CASE s = "o" /\ msg_send2(c, s)
  <2> DEFINE e == [o EXCEPT !.sent = TRUE]
             m == <<First(o.key_out)>>
  <2>1. /\ Becomes(c, "o", e) /\ Sends(c, "o", m)
        /\ o.pc = "up" /\ o.state # "NULL" /\ ~o.sent
    BY <1>4 DEF msg_send2
  <2>2. Here(c, e, a, qo, Join(qa, m))
    BY <2>1, OutSends
  <2> HIDE DEF o, a, qo, qa
  <2>3. Login(c, e, a, qo, Join(qa, m))
    BY <1>1, <2>1, OutFirst
  <2> HIDE DEF e, m
  <2> QED  BY <1>2, <2>2, <2>3, Arrives
<1>5. CASE s = "a" /\ msg_send2(c, s)
  <2> DEFINE e == [a EXCEPT !.sent = TRUE]
             m == <<First(a.key_out)>>
  <2>1. /\ Becomes(c, "a", e) /\ Sends(c, "a", m)
        /\ a.pc = "up" /\ a.state # "NULL" /\ ~a.sent
    BY <1>5 DEF msg_send2
  <2>2. Here(c, o, e, Join(qo, m), qa)
    BY <2>1, InSends
  <2> HIDE DEF o, a, qo, qa
  <2>3. Login(c, o, e, Join(qo, m), qa)
    BY <1>1, <2>1, InFirst
  <2> HIDE DEF e, m
  <2> QED  BY <1>2, <2>2, <2>3, Arrives
<1>6. CASE s = "o" /\ recv_block(c, s)
  <2> DEFINE e == [o EXCEPT !.heard = IF Head(qo).key = o.key_in
                                      THEN "clear" ELSE "garbage"]
  <2>1. /\ Becomes(c, "o", e) /\ Answers(c, "o", <<>>)
        /\ o.pc = "up" /\ qo # <<>> /\ Head(qo).t = "FIRST"
    BY <1>6 DEF recv_block, Reads
  <2>2. Here(c, e, a, Tail(qo), qa)
    BY <1>3, <2>1, OutAnswers
  <2> HIDE DEF o, a, qo, qa
  <2>3. Login(c, e, a, Tail(qo), qa)
    BY <1>1, <2>1, OutHears
  <2> HIDE DEF e
  <2> QED  BY <1>2, <2>2, <2>3, Arrives
<1>7. CASE s = "a" /\ recv_block(c, s)
  <2> DEFINE e == [a EXCEPT !.heard = IF Head(qa).key = a.key_in
                                      THEN "clear" ELSE "garbage"]
  <2>1. /\ Becomes(c, "a", e) /\ Answers(c, "a", <<>>)
        /\ a.pc = "up" /\ qa # <<>> /\ Head(qa).t = "FIRST"
    BY <1>7 DEF recv_block, Reads
  <2>2. Here(c, o, e, Join(qo, <<>>), Tail(qa))
    BY <2>1, InAnswers
  <2> HIDE DEF o, a, qo, qa
  <2>3. Login(c, o, e, qo, Tail(qa))
    BY <1>1, <2>1, InHears
  <2> HIDE DEF e
  <2> QED  BY <1>2, <1>3, <2>2, <2>3, Arrives
<1> QED  BY <1>4, <1>5, <1>6, <1>7 DEF Sides

(* M_ADR *)
LEMMA AdrLogin ==
    ASSUME Shape, NetShape, LoginInv, NEW c \in Calls, NEW s \in Sides, ADR(c, s)
    PROVE  LoginInv' /\ NetShape'
<1> DEFINE o == end[c]["o"]
           a == end[c]["a"]
           qo == net[c]["o"]
           qa == net[c]["a"]
           x == add_shared_akas(Head(net[c][s]).a, conf[NodeOf(c, s)].shares)
<1>1. Login(c, o, a, qo, qa)
  BY DEF LoginInv
<1>2. end[c][s].pc = "up" /\ net[c][s] # <<>> /\ Head(net[c][s]).t = "ADR"
  BY DEF ADR, Reads
<1>3. CASE Quit(c, s, <<>>)
  BY <1>2, <1>3, QuitLogin
<1>4. CASE ~Quit(c, s, <<>>)
  <2>1. IsStream(qo) /\ IsStream(qa) /\ Join(qo, <<>>) = qo
    BY <1>1, JoinNothing DEF Login, Queued
  <2>2. conf' = conf /\ Answers(c, s, <<>>)
    BY <1>4 DEF ADR
  <2>3. CASE s = "o"
    <3> DEFINE p == Me(c).out_pwd
               e == [o EXCEPT !.pc = "adr", !.todo = x, !.epwd = p]
    <3>1. Becomes(c, "o", e)
      BY <1>4, <2>3 DEF ADR
    <3>2. Here(c, e, a, Tail(qo), qa)
      BY <2>1, <2>2, <2>3, <3>1, OutAnswers
    <3>3. o.pc = "up" /\ qo # <<>> /\ Head(qo).t = "ADR"
      BY <1>2, <2>3
    <3> HIDE DEF o, a, qo, qa, x
    <3>4. Login(c, e, a, Tail(qo), qa)
      BY <1>1, <3>3, OutAdr
    <3> HIDE DEF e
    <3> QED  BY <2>2, <3>2, <3>4, Arrives
  <2>4. CASE s = "a"
    <3> DEFINE e == [a EXCEPT !.pc = "adr", !.todo = x, !.epwd = a.epwd]
    <3>1. Becomes(c, "a", e)
      BY <1>4, <2>4 DEF ADR
    <3>2. Here(c, o, e, Join(qo, <<>>), Tail(qa))
      BY <2>2, <2>4, <3>1, InAnswers
    <3>3. a.pc = "up" /\ qa # <<>> /\ Head(qa).t = "ADR"
      BY <1>2, <2>4
    <3> HIDE DEF o, a, qo, qa, x
    <3>4. Login(c, o, e, qo, Tail(qa))
      BY <1>1, <3>3, InAdr
    <3> HIDE DEF e
    <3> QED  BY <2>1, <2>2, <3>2, <3>4, Arrives
  <2> QED  BY <2>3, <2>4 DEF Sides
<1> QED  BY <1>3, <1>4

(* The addresses one by one *)
LEMMA CheckedFields ==
    ASSUME NEW c, NEW s, NEW r, r = end[c][s], DOMAIN r = EndFields, NEW k, k = Checked(c, s)
    PROVE  /\ DOMAIN k = EndFields /\ k.fa = r.fa /\ k.main = r.main
           /\ k.state = r.state /\ k.ext = r.ext /\ k.crypt = r.crypt
           /\ k.NR = r.NR /\ k.ND = r.ND
           /\ k.key_in = r.key_in /\ k.key_out = r.key_out
           /\ k.pc = r.pc /\ k.heard = r.heard /\ k.sent = r.sent
           /\ k.asks = r.asks \cup Asks(c, s)
           /\ k.epwd = IF AkaPwd(c, s) # "-" /\ r.epwd \in {"-", "!"}
                       THEN AkaPwd(c, s) ELSE r.epwd
           /\ k.MD = IF AkaPwd(c, s) # "-" THEN BitOr(r.MD, Pn(c, s, Aka(c, s)).md)
                     ELSE r.MD
<1> DEFINE p == AkaPwd(c, s)
           x == Asks(c, s)
           y == BitOr(r.MD, Pn(c, s, Aka(c, s)).md)
           z == IPVerified(c, s)
<1>1. k = [r EXCEPT !.todo = Tail(@), !.ipv = z,
                    !.asks = @ \cup x,
                    !.epwd = IF p # "-" /\ @ \in {"-", "!"} THEN p ELSE @,
                    !.MD   = IF p # "-" THEN y ELSE @]
  BY DEF Checked
<1> HIDE DEF p, x, y, z
<1>2. /\ DOMAIN k = EndFields /\ k.fa = r.fa /\ k.main = r.main
      /\ k.state = r.state /\ k.ext = r.ext /\ k.crypt = r.crypt
      /\ k.NR = r.NR /\ k.ND = r.ND
      /\ k.key_in = r.key_in /\ k.key_out = r.key_out
      /\ k.pc = r.pc /\ k.heard = r.heard /\ k.sent = r.sent
  BY <1>1 DEF EndFields
<1>3. /\ k.asks = r.asks \cup x
      /\ k.epwd = IF p # "-" /\ r.epwd \in {"-", "!"} THEN p ELSE r.epwd
      /\ k.MD = IF p # "-" THEN y ELSE r.MD
  BY <1>1 DEF EndFields
<1> QED  BY <1>2, <1>3 DEF p, x, y

LEMMA BitOrMD ==
    ASSUME NEW x \in {-1, 0, 1}, NEW y \in {-1, 0, 1}
    PROVE  /\ BitOr(x, y) \in {-1, 0, 1} /\ (x # 0 => BitOr(x, y) # 0)
           /\ x \in {0, 1} /\ y \in {0, 1} => BitOr(x, y) \in {0, 1}
BY DEF BitOr

(* The entries of the nodes met *)
LEMMA AkaEntry ==
    ASSUME Configured(conf), NEW c \in Calls, NEW s \in Sides, AkaPwd(c, s) # "-"
    PROVE  Pn(c, s, Aka(c, s)).md \in {-1, 0, 1} /\ Known(c, s, Aka(c, s))
<1>1. Known(c, s, Aka(c, s))
  BY DEF AkaPwd
<1>2. NodeOf(c, s) \in Nodes
  BY CallsAssumption, NodeOfEnd
<1>3. Pn(c, s, Aka(c, s)) \in Entry
  BY <1>1, <1>2 DEF Configured, IsConf, Known, Pn
<1> QED  BY <1>1, <1>3 DEF Entry

(* An address that was not dropped fits the password expected so far       *)
LEMMA StillVouched ==
    ASSUME NEW c, NEW a, NEW k, a = end[c]["a"], Vouched(c, a), ~AkaDropped(c, "a"),
           k.epwd = IF AkaPwd(c, "a") # "-" /\ a.epwd \in {"-", "!"}
                    THEN AkaPwd(c, "a") ELSE a.epwd,
           \A x \in k.fa : x \in a.fa \/ x = Aka(c, "a")
    PROVE  Vouched(c, k)
<1> DEFINE x == Aka(c, "a")
           p == AkaPwd(c, "a")
<1>1. p = IF a.epwd = "" \/ ~Known(c, "a", x) THEN "-" ELSE Pn(c, "a", x).pwd
  BY DEF AkaPwd
<1>2. p = "-" \/ p = "!" \/ a.epwd \in {"-", "!", p}
  BY DEF AkaDropped, Inconsistent, AnyPwd
<1>3. CASE a.epwd = ""
  BY <1>1, <1>3 DEF Vouched
<1>4. CASE a.epwd # "" /\ p = "-"
  <2>1. ~Protected(c, "a", x)
    BY <1>1, <1>4 DEF Protected
  <2> QED  BY <1>4, <2>1 DEF Vouched
<1>5. CASE a.epwd # "" /\ p # "-"
  <2>1. p = Pn(c, "a", x).pwd
    BY <1>1, <1>5
  <2>2. \A y \in a.fa : Protected(c, "a", y) =>
            a.epwd # "-" /\ Pn(c, "a", y).pwd \in {"!", a.epwd}
    BY <1>5 DEF Vouched
  <2>3. \A y \in k.fa : Protected(c, "a", y) =>
            k.epwd # "-" /\ Pn(c, "a", y).pwd \in {"!", k.epwd}
    <3>1. CASE a.epwd \in {"-", "!"}
      BY <3>1, <1>5, <2>1, <2>2
    <3>2. CASE a.epwd \notin {"-", "!"}
      BY <3>2, <1>2, <1>5, <2>1, <2>2
    <3> QED  BY <3>1, <3>2
  <2> QED  BY <2>3 DEF Vouched
<1> QED  BY <1>3, <1>4, <1>5

LEMMA AsksBoth ==
    ASSUME NEW c, NEW b \in BOOLEAN, <<b, "ND">> \in Asks(c, "a")
    PROVE  <<b, "NR">> \in Asks(c, "a")
<1> DEFINE x == Aka(c, "a")
           t == Protected(c, "a", x)
<1>1. Known(c, "a", x)
  BY DEF Asks
<1>2. Asks(c, "a") = If(Pn(c, "a", x).nd, <<t, "ND">>)
                     \cup If(Pn(c, "a", x).nd \/ Pn(c, "a", x).nr, <<t, "NR">>)
  BY <1>1 DEF Asks
<1> HIDE DEF x, t
<1>3. Pn(c, "a", x).nd /\ <<b, "ND">> = <<t, "ND">>
  BY <1>2 DEF If
<1>4. <<b, "NR">> = <<t, "NR">>
  BY <1>3
<1>5. <<t, "NR">> \in Asks(c, "a")
  BY <1>2, <1>3 DEF If
<1> QED  BY <1>4, <1>5

(* The fields that the work on an address leaves alone *)
Untouched(e, r) ==
    /\ DOMAIN e = EndFields
    /\ e.state = r.state /\ e.ext = r.ext /\ e.crypt = r.crypt
    /\ e.NR = r.NR /\ e.ND = r.ND
    /\ e.key_in = r.key_in /\ e.key_out = r.key_out
    /\ e.pc = r.pc /\ e.heard = r.heard /\ e.sent = r.sent

LEMMA AkaLogin ==
    ASSUME Shape, NetShape, LoginInv, Configured(conf), NEW c \in Calls, NEW s \in Sides,
           AdrDrop(c, s) \/ AdrLock(c, s) \/ (AdrBusy(c, s) /\ ~Quit(c, s, <<M_BSY>>))
    PROVE  LoginInv' /\ NetShape'
<1> DEFINE o == end[c]["o"]
           a == end[c]["a"]
           qo == net[c]["o"]
           qa == net[c]["a"]
           r == end[c][s]
           x == Aka(c, s)
           k == Checked(c, s)
<1>1. Login(c, o, a, qo, qa)
  BY DEF LoginInv
<1>2. /\ conf' = conf /\ net' = net /\ r.pc = "adr" /\ DOMAIN r = EndFields
  BY DEF AdrDrop, AdrLock, AdrBusy, InADR, Shape
<1>3. PICK e : /\ Becomes(c, s, e) /\ Untouched(e, r)
               /\ \/ /\ e.fa = r.fa /\ e.main = r.main /\ e.asks = r.asks
                     /\ e.MD = r.MD /\ e.epwd \in {"", r.epwd}
                  \/ /\ ~AkaDropped(c, s)
                     /\ \/ e.fa = r.fa /\ e.main = r.main
                        \/ /\ e.fa = r.fa \cup {x}
                           /\ e.main = (r.main \/ (s = "o" /\ x = To[c]))
                     /\ e.asks = r.asks \cup Asks(c, s)
                     /\ e.epwd = IF AkaPwd(c, s) # "-" /\ r.epwd \in {"-", "!"}
                                 THEN AkaPwd(c, s) ELSE r.epwd
                     /\ e.MD = IF AkaPwd(c, s) # "-" THEN BitOr(r.MD, Pn(c, s, x).md)
                               ELSE r.MD
  <2>1. CASE AdrDrop(c, s)
    <3> DEFINE v == IPVerified(c, s)
               b == ~BadIP(c, s) /\ (Disabled(c, s) \/ s = "a")
               e == [r EXCEPT !.todo = Tail(@), !.ipv = v, !.epwd = IF b THEN "" ELSE @]
    <3>1. Becomes(c, s, e)
      BY <2>1 DEF AdrDrop
    <3> HIDE DEF r, v, b
    <3>2. /\ Untouched(e, r) /\ e.fa = r.fa /\ e.main = r.main /\ e.asks = r.asks
          /\ e.MD = r.MD
      BY <1>2 DEF Untouched, EndFields
    <3>3. e.epwd \in {"", r.epwd}
      BY <1>2 DEF EndFields
    <3> HIDE DEF e
    <3> QED  BY <3>1, <3>2, <3>3
  <2>2. /\ Untouched(k, r) /\ k.fa = r.fa /\ k.main = r.main
        /\ k.asks = r.asks \cup Asks(c, s)
        /\ k.epwd = IF AkaPwd(c, s) # "-" /\ r.epwd \in {"-", "!"}
                    THEN AkaPwd(c, s) ELSE r.epwd
        /\ k.MD = IF AkaPwd(c, s) # "-" THEN BitOr(r.MD, Pn(c, s, x).md) ELSE r.MD
    BY <1>2, CheckedFields DEF Untouched
  <2>3. CASE AdrLock(c, s)
    <3> DEFINE t == s = "o" /\ x = To[c]
               e == [k EXCEPT !.fa = @ \cup {x}, !.main = @ \/ t]
    <3>1. Becomes(c, s, e) /\ ~AkaDropped(c, s)
      BY <2>3 DEF AdrLock
    <3>2. t = (s = "o" /\ x = To[c])
      OBVIOUS
    <3> HIDE DEF r, k, x, t
    <3>3. DOMAIN k = EndFields
      BY <2>2 DEF Untouched
    <3>4. /\ Untouched(e, k) /\ e.asks = k.asks /\ e.epwd = k.epwd /\ e.MD = k.MD
      BY <3>3 DEF Untouched, EndFields
    <3>5. e.fa = k.fa \cup {x} /\ e.main = (k.main \/ t)
      BY <3>3 DEF EndFields
    <3> HIDE DEF e
    <3>6. Untouched(e, r)
      BY <2>2, <3>4 DEF Untouched
    <3>7. e.fa = r.fa \cup {x} /\ e.main = (r.main \/ (s = "o" /\ x = To[c]))
      BY <2>2, <3>2, <3>5
    <3>8. /\ e.asks = r.asks \cup Asks(c, s)
          /\ e.epwd = IF AkaPwd(c, s) # "-" /\ r.epwd \in {"-", "!"}
                      THEN AkaPwd(c, s) ELSE r.epwd
          /\ e.MD = IF AkaPwd(c, s) # "-" THEN BitOr(r.MD, Pn(c, s, x).md) ELSE r.MD
      BY <2>2, <3>4
    <3> QED  BY <3>1, <3>6, <3>7, <3>8
  <2>4. CASE AdrBusy(c, s) /\ ~Quit(c, s, <<M_BSY>>)
    <3>1. Becomes(c, s, k) /\ ~AkaDropped(c, s)
      BY <2>4 DEF AdrBusy
    <3> HIDE DEF r, k, x
    <3> QED  BY <2>2, <3>1
  <2> QED  BY <2>1, <2>3, <2>4
<1>4. CASE s = "o"
  <2>1. o = r /\ Here(c, e, a, qo, qa)
    BY <1>2, <1>3, <1>4, OutStays
  <2> HIDE DEF o, a, qo, qa, r, x, k
  <2>2. DOMAIN e = EndFields /\ LikeOut(e, o) /\ e.pc = "adr" /\ e.heard = o.heard
        /\ e.sent = o.sent /\ o.pc = "adr"
    BY <1>2, <1>3, <2>1 DEF Untouched, LikeOut
  <2>3. o.MD \in {-1, 0, 1} /\ (o.main => To[c] \in o.fa)
    BY <1>1, <2>2 DEF Login, Calling
  <2>4. e.MD \in {-1, 0, 1} /\ (o.MD # 0 => e.MD # 0)
    <3>1. CASE e.MD = r.MD
      BY <3>1, <2>1, <2>3
    <3>2. CASE AkaPwd(c, s) # "-" /\ e.MD = BitOr(r.MD, Pn(c, s, x).md)
      <4>1. Pn(c, s, x).md \in {-1, 0, 1}
        BY <3>2, AkaEntry DEF x
      <4> QED  BY <3>2, <4>1, <2>1, <2>3, BitOrMD
    <3> QED  BY <1>3, <3>1, <3>2
  <2>5. e.epwd \in {"", o.epwd} \/ o.epwd \in {"-", "!"}
    BY <1>3, <2>1
  <2>6. e.main => To[c] \in e.fa
    BY <1>3, <2>1, <2>3
  <2>7. Login(c, e, a, qo, qa)
    BY <1>1, <2>2, <2>4, <2>5, <2>6, OutAka
  <2> QED  BY <1>2, <2>1, <2>7, Arrives
<1>5. CASE s = "a"
  <2>1. a = r /\ a = end[c]["a"] /\ Here(c, o, e, qo, qa)
    BY <1>2, <1>3, <1>5, InStays
  <2>0. x = Aka(c, "a")
    BY <1>5
  <2> HIDE DEF o, a, qo, qa, r, x, k
  <2>2. /\ DOMAIN e = EndFields /\ e.state = a.state /\ e.crypt = a.crypt
        /\ e.key_in = a.key_in /\ e.key_out = a.key_out /\ e.NR = a.NR /\ e.ND = a.ND
        /\ e.pc = "adr" /\ e.heard = a.heard /\ e.sent = a.sent /\ a.pc = "adr"
    BY <1>2, <1>3, <2>1 DEF Untouched
  <2>3. Answering(c, a)
    BY <1>1 DEF Login
  <2>4. Vouched(c, e)
    <3>1. CASE e.fa = r.fa /\ e.epwd \in {"", r.epwd}
      BY <3>1, <2>1, <2>3 DEF Answering, Vouched
    <3>2. CASE /\ ~AkaDropped(c, s)
               /\ e.epwd = IF AkaPwd(c, s) # "-" /\ r.epwd \in {"-", "!"}
                           THEN AkaPwd(c, s) ELSE r.epwd
               /\ e.fa = r.fa \/ e.fa = r.fa \cup {x}
      <4>1. \A y \in e.fa : y \in a.fa \/ y = Aka(c, "a")
        BY <3>2, <2>0, <2>1
      <4>2. ~AkaDropped(c, "a") /\ Vouched(c, a)
        BY <3>2, <1>5, <2>3 DEF Answering
      <4>3. e.epwd = IF AkaPwd(c, "a") # "-" /\ a.epwd \in {"-", "!"}
                     THEN AkaPwd(c, "a") ELSE a.epwd
        BY <3>2, <1>5, <2>1
      <4> QED  BY <4>1, <4>2, <4>3, <2>1, StillVouched
    <3> QED  BY <1>3, <3>1, <3>2
  <2>5. ASSUME Accepting(conf) PROVE e.MD \in {0, 1}
    <3>0. a.MD \in {0, 1}
      BY <2>3, <2>5 DEF Answering
    <3>1. CASE e.MD = r.MD
      BY <3>0, <3>1, <2>1
    <3>2. CASE AkaPwd(c, s) # "-" /\ e.MD = BitOr(r.MD, Pn(c, s, x).md)
      <4>1. Known(c, s, x)
        BY <3>2, AkaEntry DEF x
      <4>2. Pn(c, s, x).md \in {0, 1}
        BY <4>1, <1>5, <2>5 DEF Known, Pn, NodeOf, Accepting
      <4> QED  BY <3>0, <3>2, <4>2, <2>1, BitOrMD
    <3> QED  BY <1>3, <3>1, <3>2
  <2>6. ASSUME NEW b \in BOOLEAN, <<b, "ND">> \in e.asks PROVE <<b, "NR">> \in e.asks
    <3>1. CASE e.asks = r.asks
      BY <3>1, <2>1, <2>3, <2>6 DEF Answering
    <3>2. CASE e.asks = r.asks \cup Asks(c, s)
      <4>1. CASE <<b, "ND">> \in r.asks
        BY <3>2, <4>1, <2>1, <2>3 DEF Answering
      <4>2. CASE <<b, "ND">> \in Asks(c, "a")
        BY <3>2, <4>2, <1>5, AsksBoth
      <4> QED  BY <3>2, <4>1, <4>2, <1>5, <2>6
    <3> QED  BY <1>3, <3>1, <3>2
  <2>7. Login(c, o, e, qo, qa)
    BY <1>1, <2>2, <2>4, <2>5, <2>6, InAka
  <2> QED  BY <1>2, <2>1, <2>7, Arrives
<1> QED  BY <1>4, <1>5 DEF Sides

(* All addresses are through *)
LEMMA DoneLogin ==
    ASSUME Shape, NetShape, LoginInv, NEW c \in Calls, AdrDoneIn(c) \/ AdrDoneOut(c)
    PROVE  LoginInv' /\ NetShape'
<1> DEFINE o == end[c]["o"]
           a == end[c]["a"]
           qo == net[c]["o"]
           qa == net[c]["a"]
<1>1. Login(c, o, a, qo, qa)
  BY DEF LoginInv
<1>2. CASE AdrDoneIn(c)
  <2> DEFINE b == a.epwd \notin {"", "-"}
             x == conf[Called[c]].akas
             m == DelayedADR(c)
             e == [a EXCEPT !.pc = "up", !.asks = {},
                            !.ND = @ \cup If(<<b, "ND">> \in a.asks, "THEY"),
                            !.NR = @ \cup If(<<b, "NR">> \in a.asks, "WANT")]
  <2>1. /\ Becomes(c, "a", e) /\ Sends(c, "a", m) /\ conf' = conf
        /\ a.pc = "adr" /\ a.fa # {}
    BY <1>2 DEF AdrDoneIn, AdrOk
  <2>2. m = IF conf[Called[c]].delay_ADR THEN <<M_ADR(x)>> ELSE <<>>
    BY DEF DelayedADR
  <2>3. Here(c, o, e, Join(qo, m), qa)
    BY <2>1, InSends
  <2>4. b \in BOOLEAN
    OBVIOUS
  <2> HIDE DEF o, a, qo, qa, b, x, m
  <2>5. Login(c, o, e, Join(qo, m), qa)
    BY <1>1, <2>1, <2>2, <2>4, InDone
  <2> HIDE DEF e
  <2> QED  BY <2>1, <2>3, <2>5, Arrives
<1>3. CASE AdrDoneOut(c)
  <2>1. o.pc = "adr" /\ o.fa # {} /\ o.main /\ "o" \in Sides
    BY <1>3 DEF AdrDoneOut, AdrOk, Sides
  <2>2. CASE Quit(c, "o", <<>>)
    BY <2>1, <2>2, QuitLogin
  <2>3. CASE ~Quit(c, "o", <<>>)
    <3> DEFINE e == [o EXCEPT !.pc = "up", !.MD = IF o.chal THEN 1 ELSE @]
               m == <<M_PWD(o.chal, Me(c).out_pwd)>>
    <3>1. Becomes(c, "o", e) /\ Sends(c, "o", m) /\ conf' = conf
      BY <1>3, <2>3 DEF AdrDoneOut
    <3>2. Here(c, e, a, qo, Join(qa, m))
      BY <3>1, OutSends
    <3> HIDE DEF o, a, qo, qa
    <3>3. Login(c, e, a, qo, Join(qa, m))
      BY <1>1, <2>1, OutPwd
    <3> HIDE DEF e, m
    <3> QED  BY <3>1, <3>2, <3>3, Arrives
  <2> QED  BY <2>2, <2>3
<1> QED  BY <1>2, <1>3

(* What PwdAccepted makes of the end *)
LEMMA PwdEnd ==
    ASSUME NEW c, NEW a, NEW m, DOMAIN a = EndFields, PwdAccepted(c, a, m)
    PROVE  \E k : /\ Accepted(c, a, m, k)
                  /\ Becomes(c, "a", complete_login(c, "a", k))
                  /\ Answers(c, "a", <<OPT(OptWords(k, k.crypt = Both)),
                                       M_OK(k.state = "SECURE")>>)
                  /\ conf' = conf
<1> DEFINE noPwd == a.epwd = "-"
           st == IF noPwd THEN "NONSECURE" ELSE "SECURE"
           xt == noPwd /\ m.md /\ ~GoodPwd(a, m)
           dg == (noPwd => m.md) /\ ByDigest(a, m)
           e1 == [a EXCEPT !.state = st,
                           !.ext   = IF xt THEN "WE_NONSECURE" ELSE @,
                           !.MD    = IF dg THEN 1 ELSE @]
           nd == NegotiateND(e1)
           al == CryptAllowed(e1)
           e2 == [e1 EXCEPT !.crypt = IF e1.state = "SECURE" /\ (@ = Both => al)
                                      THEN @ ELSE {},
                            !.ND = nd]
           nr == NegotiateNR(c, e2)
           e3 == [e2 EXCEPT !.NR = nr]
<1>1. /\ Becomes(c, "a", complete_login(c, "a", e3))
      /\ Answers(c, "a", <<OPT(OptWords(e3, e3.crypt = Both)), M_OK(e3.state = "SECURE")>>)
      /\ conf' = conf
  BY DEF PwdAccepted
<1>2. /\ DOMAIN e1 = EndFields
      /\ e1.pc = a.pc /\ e1.epwd = a.epwd /\ e1.fa = a.fa /\ e1.asks = a.asks
      /\ e1.sent = a.sent /\ e1.heard = a.heard /\ e1.buggy = a.buggy
      /\ e1.state = st /\ e1.crypt = a.crypt /\ e1.ND = a.ND /\ e1.NR = a.NR
  <2> HIDE DEF noPwd, st, xt, dg
  <2> QED  BY DEF EndFields
<1>3. e1.MD = IF dg THEN 1 ELSE a.MD
  <2> HIDE DEF noPwd, st, xt, dg
  <2> QED  BY DEF EndFields
<1>4. nd = NegotiateND(a)
  BY <1>2 DEF NegotiateND
<1>5. al <=> (st = "SECURE" /\ e1.MD # 0 /\ a.epwd # "!")
  BY <1>2 DEF CryptAllowed
<1> HIDE DEF e1, nd, al
<1>6. /\ DOMAIN e2 = EndFields
      /\ e2.pc = a.pc /\ e2.epwd = a.epwd /\ e2.fa = a.fa /\ e2.asks = a.asks
      /\ e2.sent = a.sent /\ e2.heard = a.heard /\ e2.buggy = a.buggy
      /\ e2.state = st /\ e2.MD = e1.MD /\ e2.ND = nd /\ e2.NR = a.NR
  <2> HIDE DEF noPwd, st, xt, dg
  <2> QED  BY <1>2 DEF EndFields
<1>7. e2.crypt = IF st = "SECURE" /\ (a.crypt = Both => al) THEN a.crypt ELSE {}
  <2> HIDE DEF noPwd, st, xt, dg
  <2> QED  BY <1>2 DEF EndFields
<1>8. a.NR \subseteq nr /\ ("WE" \in nr => "WE" \in a.NR \/ a.buggy)
  <2> DEFINE g == a.NR \cup If(e2.buggy /\ "WANT" \in a.NR, "WE")
             h == [e2 EXCEPT !.NR = g]
  <2>1. nr = AutoNR(c, "a", h)
    BY <1>6 DEF NegotiateNR
  <2> HIDE DEF e2, nr, g
  <2>2. h.NR = g
    BY <1>6 DEF EndFields
  <2> HIDE DEF h
  <2>3. nr = g \/ (g = {} /\ nr = {"WANT"})
    BY <2>1, <2>2 DEF AutoNR
  <2> QED  BY <2>3, <1>6 DEF g, If
<1> HIDE DEF e2, nr
<1>9. /\ DOMAIN e3 = EndFields
      /\ e3.pc = a.pc /\ e3.epwd = a.epwd /\ e3.fa = a.fa /\ e3.asks = a.asks
      /\ e3.sent = a.sent /\ e3.heard = a.heard /\ e3.buggy = a.buggy
      /\ e3.state = st /\ e3.MD = e1.MD /\ e3.ND = nd /\ e3.NR = nr
      /\ e3.crypt = e2.crypt
  <2> HIDE DEF noPwd, st, xt, dg
  <2> QED  BY <1>6 DEF EndFields
<1> HIDE DEF e3
<1>10. CryptAllowed(e3) <=> al
  BY <1>5, <1>9 DEF CryptAllowed
<1>11. Accepted(c, a, m, e3)
  <2>1. /\ e3.state = IF a.epwd = "-" THEN "NONSECURE" ELSE "SECURE"
        /\ e3.MD = IF (a.epwd = "-" => m.md) /\ ByDigest(a, m) THEN 1 ELSE a.MD
    BY <1>3, <1>9
  <2>2. e3.crypt = IF e3.state = "SECURE" /\ (a.crypt = Both => CryptAllowed(e3))
                   THEN a.crypt ELSE {}
    BY <1>7, <1>9, <1>10
  <2> QED  BY <1>4, <1>8, <1>9, <2>1, <2>2 DEF Accepted
<1> QED  BY <1>1, <1>11

LEMMA PwdLogin ==
    ASSUME Shape, NetShape, LoginInv, NEW c \in Calls, PWD(c)
    PROVE  LoginInv' /\ NetShape'
<1> DEFINE o == end[c]["o"]
           a == end[c]["a"]
           qo == net[c]["o"]
           qa == net[c]["a"]
<1>1. Login(c, o, a, qo, qa)
  BY DEF LoginInv
<1>2. a.pc = "up" /\ qa # <<>> /\ Head(qa).t = "PWD" /\ "a" \in Sides
  BY DEF PWD, Reads, Sides
<1>3. CASE Quit(c, "a", <<M_ERR>>)
  BY <1>2, <1>3, QuitLogin
<1>4. CASE ~Quit(c, "a", <<M_ERR>>)
  <2>1. /\ PwdAccepted(c, a, Head(qa))
        /\ a.epwd # "-" => ~MustMD5(a, Head(qa)) /\ GoodPwd(a, Head(qa))
    BY <1>4 DEF PWD
  <2>2. DOMAIN a = EndFields
    BY <1>1 DEF Login
  <2>3. PICK k : /\ Accepted(c, a, Head(qa), k)
                 /\ Becomes(c, "a", complete_login(c, "a", k))
                 /\ Answers(c, "a", <<OPT(OptWords(k, k.crypt = Both)),
                                      M_OK(k.state = "SECURE")>>)
                 /\ conf' = conf
    BY <2>1, <2>2, PwdEnd
  <2> DEFINE e == complete_login(c, "a", k)
             yes == k.crypt = Both
             sec == k.state = "SECURE"
             m == <<OPT(OptWords(k, yes)), M_OK(sec)>>
  <2>4. Here(c, o, e, Join(qo, m), Tail(qa))
    BY <2>3, InAnswers
  <2>5. (yes <=> k.crypt = Both) /\ (sec <=> k.state = "SECURE")
    OBVIOUS
  <2> HIDE DEF o, a, qo, qa, yes, sec
  <2>6. Login(c, o, e, Join(qo, m), Tail(qa))
    BY <1>1, <1>2, <2>1, <2>3, <2>5, InPwd
  <2> HIDE DEF e, m
  <2> QED  BY <2>3, <2>4, <2>6, Arrives
<1> QED  BY <1>3, <1>4

LEMMA OkLogin ==
    ASSUME Shape, NetShape, LoginInv, NEW c \in Calls, OK(c)
    PROVE  LoginInv' /\ NetShape'
<1> DEFINE o == end[c]["o"]
           a == end[c]["a"]
           qo == net[c]["o"]
           qa == net[c]["a"]
           k == OkState(c, Head(qo))
           e == complete_login(c, "o", k)
           st == IF Me(c).out_pwd # "-" THEN "SECURE" ELSE "NONSECURE"
           no == st = "SECURE" /\ ~Head(qo).secure
<1>1. Login(c, o, a, qo, qa)
  BY DEF LoginInv
<1>2. /\ o.pc = "up" /\ qo # <<>> /\ Head(qo).t = "OK"
      /\ Becomes(c, "o", e) /\ Answers(c, "o", <<>>) /\ conf' = conf
  BY DEF OK, Reads
<1>3. IsStream(qa) /\ DOMAIN o = EndFields
  BY <1>1 DEF Login, Queued
<1>4. Here(c, e, a, Tail(qo), qa)
  BY <1>2, <1>3, OutAnswers
<1>5. k = [o EXCEPT !.state = st,
                    !.crypt = IF no THEN {} ELSE @,
                    !.ext   = IF no THEN "REMOTE_NONSECURE" ELSE @,
                    !.ND    = IF @ \in {{"WE"}, {"THEY"}} THEN {} ELSE @]
  BY DEF OkState
<1>6. no <=> (Me(c).out_pwd # "-" /\ ~Head(qo).secure)
  OBVIOUS
<1> HIDE DEF o, a, qo, qa, k, no
<1>7. /\ DOMAIN k = EndFields
      /\ k.pc = o.pc /\ k.NR = o.NR /\ k.MD = o.MD /\ k.epwd = o.epwd /\ k.fa = o.fa
      /\ k.main = o.main /\ k.sent = o.sent /\ k.heard = o.heard
  <2> HIDE DEF st
  <2> QED  BY <1>3, <1>5 DEF EndFields
<1>8. /\ k.state = st
      /\ k.crypt = IF no THEN {} ELSE o.crypt
      /\ k.ext = IF no THEN "REMOTE_NONSECURE" ELSE o.ext
      /\ k.ND = IF o.ND \in {{"WE"}, {"THEY"}} THEN {} ELSE o.ND
  <2> HIDE DEF st
  <2> QED  BY <1>3, <1>5 DEF EndFields
<1>9. Login(c, e, a, Tail(qo), qa)
  BY <1>1, <1>2, <1>6, <1>7, <1>8, OutOk
<1> HIDE DEF e
<1> QED  BY <1>2, <1>4, <1>9, Arrives

-----------------------------------------------------------------------------
(***************************************************************************)
(* The invariant                                                           *)
(***************************************************************************)
SessionInv == LockInv /\ NetShape /\ LoginInv /\ conf \in Confs

LEMMA InitLogin == Init => SessionInv
<1> SUFFICES ASSUME Init PROVE SessionInv
  OBVIOUS
<1>1. /\ conf \in Confs /\ NetShape
      /\ \A c \in Calls : /\ end[c]["o"] = init_protocol(c, "o")
                          /\ end[c]["a"] = init_protocol(c, "a")
                          /\ net[c]["o"] = <<>> /\ net[c]["a"] = <<>>
  BY DEF Init, NetShape, Sides
<1>2. ASSUME NEW c \in Calls, NEW o, NEW a, o = init_protocol(c, "o"),
             a = init_protocol(c, "a")
      PROVE  Login(c, o, a, <<>>, <<>>)
  <2>1. /\ DOMAIN o = EndFields /\ o.pc = "new" /\ o.state = "NULL" /\ o.ext = "NA"
        /\ o.MD = 0 /\ o.epwd = "-" /\ o.fa = {} /\ o.heard = "nothing"
        /\ o.main = FALSE /\ o.sent = FALSE
    BY <1>2 DEF init_protocol, EndFields
  <2>2. /\ o.NR = IF Me(c).nr \/ Me(c).nd THEN {"WANT"} ELSE {}
        /\ o.ND = IF Me(c).nd THEN {"THEY"} ELSE {}
        /\ o.crypt = IF conf[Caller[c]].no_crypt THEN {} ELSE {"WE"}
    BY <1>2 DEF init_protocol, NodeOf
  <2>3. /\ DOMAIN a = EndFields /\ a.pc = "new" /\ a.state = "NULL"
        /\ a.MD = 0 /\ a.epwd = "-" /\ a.fa = {} /\ a.heard = "nothing"
        /\ a.sent = FALSE /\ a.asks = {}
    BY <1>2 DEF init_protocol, EndFields
  <2>4. /\ a.NR = {} /\ a.ND = {}
        /\ a.crypt = IF conf[Called[c]].no_crypt THEN {} ELSE {"WE"}
    BY <1>2 DEF init_protocol, NodeOf
  <2>5. IsStream(<<>>) /\ InOrder(<<>>) /\ Els(<<>>) = {}
    BY ShortStreams
  <2>6. \A s : Sent(c, s, o) = 0 /\ Sent(c, s, a) = 0 /\ Read(s, o) = 0 /\ Read(s, a) = 0
    BY <2>1, <2>3 DEF Sent, Read
  <2>7. Queued(c, "a", a, o, <<>>) /\ Queued(c, "o", o, a, <<>>)
    BY <2>5, <2>6 DEF Queued
  <2>8. SaidOut(c, o, <<>>) /\ SaidIn(c, a, <<>>)
    BY <2>5 DEF SaidOut, SaidIn
  <2>9. Steps(o) /\ Steps(a)
    BY <2>1, <2>3 DEF Steps
  <2>10. Calling(c, o)
    BY <2>1, <2>2 DEF Calling, WantsNR, Both
  <2>11. Answering(c, a)
    BY <2>3, <2>4 DEF Answering, Vouched, Both
  <2>12. HearsOut(c, o, a, <<>>)
    BY <2>1, <2>4 DEF HearsOut, Unread
  <2>13. HearsIn(o, a, <<>>)
    <3>1. Unread(o)
      BY <2>2 DEF Unread
    <3> QED  BY <2>3, <3>1 DEF HearsIn
  <2>14. Agreed(c, o, a)
    BY <2>1, <2>3 DEF Agreed
  <2> QED  BY <2>1, <2>3, <2>7, <2>8, <2>9, <2>10, <2>11, <2>12, <2>13, <2>14 DEF Login
<1>3. LoginInv
  <2> SUFFICES ASSUME NEW c \in Calls
               PROVE  Login(c, end[c]["o"], end[c]["a"], net[c]["o"], net[c]["a"])
    BY DEF LoginInv
  <2>1. Login(c, init_protocol(c, "o"), init_protocol(c, "a"), <<>>, <<>>)
    BY <1>2
  <2> QED  BY <1>1, <2>1
<1> QED  BY <1>1, <1>3, InitLock DEF SessionInv

LEMMA StepLogin == SessionInv /\ [Next]_vars => SessionInv'
<1> SUFFICES ASSUME SessionInv, [Next]_vars PROVE SessionInv'
  OBVIOUS
<1>1. Shape /\ NetShape /\ LoginInv /\ Configured(conf)
  BY ConfsAssumption DEF SessionInv, LockInv
<1>2. LockInv'
  BY StepLock DEF SessionInv
<1>3. ASSUME NEW c \in Calls, NEW s \in Sides, Turn(c, s)
      PROVE  LoginInv' /\ NetShape'
  <2>1. CASE RError(c, s) \/ Done(c, s)
    <3>1. Quit(c, s, <<>>) /\ end[c][s].pc = "up"
      BY <2>1 DEF RError, Done, Reads
    <3> QED  BY <1>1, <3>1, QuitLogin
  <2>2. CASE banner(c, s)
    BY <1>1, <2>2, BannerLogin
  <2>3. CASE NUL_VER(c, s) \/ NUL_OPT(c, s)
    BY <1>1, <2>3, NulLogin
  <2>4. CASE msg_send2(c, s) \/ recv_block(c, s)
    BY <1>1, <2>4, FirstLogin
  <2>5. CASE ADR(c, s)
    BY <1>1, <2>5, AdrLogin
  <2>6. CASE AdrDrop(c, s) \/ AdrLock(c, s)
    BY <1>1, <2>6, AkaLogin
  <2>7. CASE AdrBusy(c, s)
    <3>1. CASE Quit(c, s, <<M_BSY>>)
      <4>1. end[c][s].pc = "adr"
        BY <2>7 DEF AdrBusy, InADR
      <4> QED  BY <1>1, <3>1, <4>1, QuitLogin
    <3>2. CASE ~Quit(c, s, <<M_BSY>>)
      BY <1>1, <2>7, <3>2, AkaLogin
    <3> QED  BY <3>1, <3>2
  <2>8. CASE AdrUnparsable(c, s) \/ AdrBadIP(c, s) \/ AdrFails(c, s)
    <3>1. end[c][s].pc = "adr"
      BY <2>8 DEF AdrUnparsable, AdrBadIP, AdrFails, InADR
    <3>2. \E ms \in {<<>>, <<M_ERR>>, <<M_BSY>>} : Quit(c, s, ms)
      <4>1. Quit(c, s, <<>>) \/ Quit(c, s, <<M_ERR>>) \/ Quit(c, s, <<M_BSY>>)
        BY <2>8 DEF AdrUnparsable, AdrBadIP, AdrFails
      <4> QED  BY <4>1
    <3> QED  BY <1>1, <3>1, <3>2, QuitLogin
  <2>9. CASE AdrDoneIn(c) \/ AdrDoneOut(c)
    BY <1>1, <2>9, DoneLogin
  <2>10. CASE PWD(c)
    BY <1>1, <2>10, PwdLogin
  <2>11. CASE OK(c)
    BY <1>1, <2>11, OkLogin
  <2> QED  BY <1>3, <2>1, <2>2, <2>3, <2>4, <2>5, <2>6, <2>7, <2>8, <2>9, <2>10, <2>11
           DEF Turn
<1>4. ASSUME NEW c \in Calls, NEW s \in Sides, Break(c, s)
      PROVE  LoginInv' /\ NetShape'
  <2>1. Quit(c, s, <<>>) /\ end[c][s].pc = "up"
    BY <1>4 DEF Break
  <2> QED  BY <1>1, <2>1, QuitLogin
<1>5. ASSUME NEW c \in Calls, TooManyServers(c)
      PROVE  LoginInv' /\ NetShape'
  BY <1>1, <1>5, FullLogin
<1>6. ASSUME NEW n \in Nodes, NEW x \in Addresses, TosserLocks(n, x) \/ TosserFrees(n, x)
      PROVE  LoginInv' /\ NetShape'
  <2>1. UNCHANGED <<conf, end, net>>
    BY <1>6 DEF TosserLocks, TosserFrees
  <2> QED  BY <1>1, <2>1, StutterLogin
<1>7. ASSUME Over \/ UNCHANGED vars PROVE LoginInv' /\ NetShape'
  <2>1. UNCHANGED <<conf, end, net>>
    BY <1>7 DEF Over, vars
  <2> QED  BY <1>1, <2>1, StutterLogin
<1>8. LoginInv' /\ NetShape'
  BY <1>3, <1>4, <1>5, <1>6, <1>7 DEF Next
<1>9. conf' = conf
  <2>1. ASSUME NEW c \in Calls, NEW s \in Sides, Turn(c, s) \/ Break(c, s)
        PROVE  conf' = conf
    <3>1. \A ms : Quit(c, s, ms) => conf' = conf
      BY DEF Quit
    <3>2. CASE \/ banner(c, s) \/ NUL_VER(c, s) \/ NUL_OPT(c, s) \/ AdrDrop(c, s)
               \/ AdrLock(c, s) \/ msg_send2(c, s) \/ recv_block(c, s)
      BY <3>2 DEF banner, NUL_VER, NUL_OPT, AdrDrop, AdrLock, msg_send2, recv_block
    <3>3. CASE RError(c, s) \/ Done(c, s) \/ AdrUnparsable(c, s) \/ AdrBadIP(c, s)
               \/ AdrFails(c, s) \/ Break(c, s)
      BY <3>1, <3>3 DEF RError, Done, AdrUnparsable, AdrBadIP, AdrFails, Break
    <3>4. CASE ADR(c, s)
      BY <3>1, <3>4 DEF ADR
    <3>5. CASE AdrBusy(c, s)
      BY <3>1, <3>5 DEF AdrBusy
    <3>6. CASE s = "a" /\ (AdrDoneIn(c) \/ PWD(c))
      BY <3>1, <3>6 DEF AdrDoneIn, PWD, PwdAccepted
    <3>7. CASE s = "o" /\ (AdrDoneOut(c) \/ OK(c))
      BY <3>1, <3>7 DEF AdrDoneOut, OK
    <3> QED  BY <2>1, <3>2, <3>3, <3>4, <3>5, <3>6, <3>7 DEF Turn
  <2>2. ASSUME NEW c \in Calls, TooManyServers(c) PROVE conf' = conf
    BY <2>2 DEF TooManyServers, Quit
  <2>3. ASSUME NEW n \in Nodes, NEW x \in Addresses,
               TosserLocks(n, x) \/ TosserFrees(n, x)
        PROVE  conf' = conf
    BY <2>3 DEF TosserLocks, TosserFrees
  <2>4. CASE Over \/ UNCHANGED vars
    BY <2>4 DEF Over, vars
  <2> QED  BY <2>1, <2>2, <2>3, <2>4 DEF Next
<1> QED  BY <1>2, <1>8, <1>9 DEF SessionInv

LEMMA EveryCall ==
    ASSUME SessionInv, NEW c \in Calls
    PROVE  Login(c, end[c]["o"], end[c]["a"], net[c]["o"], net[c]["a"])
BY DEF SessionInv, LoginInv

(* For any configurations and crossing calls: what one end of a session    *)
(* asked for is what the other does, in ND mode and in NR mode (NUL, ADR,  *)
(* PWD, OK, complete_login).                                               *)
THEOREM ModesAlike == Spec => []ModesAgree
<1>1. SessionInv => ModesAgree
  <2> SUFFICES ASSUME SessionInv, NEW c \in Calls, LoggedIn(c, "o"), LoggedIn(c, "a")
               PROVE  \A s \in Sides : LET me == end[c][s]  you == end[c][Other(s)] IN
                        /\ "WE" \in me.ND <=> "THEY" \in you.ND
                        /\ "WANT" \in you.NR => "WE" \in me.NR
                        /\ "WE" \in me.NR => "WANT" \in you.NR \/ me.buggy
    BY DEF ModesAgree
  <2> DEFINE o == end[c]["o"]
             a == end[c]["a"]
  <2>1. o.state # "NULL" /\ a.state # "NULL"
    BY DEF LoggedIn
  <2>2. Calling(c, o) /\ Agreed(c, o, a) /\ Served(c, a)
    BY <2>1, EveryCall DEF Login
  <2>3. /\ "WE" \in o.ND <=> "THEY" \in a.ND
        /\ "WE" \in o.NR <=> "WANT" \in a.NR
    BY <2>1, <2>2 DEF Agreed
  <2>4. /\ "WE" \in a.ND <=> "THEY" \in o.ND
        /\ "WANT" \in o.NR => "WE" \in a.NR
        /\ "WE" \in a.NR => "WANT" \in o.NR \/ a.buggy
    BY <2>2 DEF Calling, Served
  <2> QED  BY <2>3, <2>4 DEF Sides, Other
<1> QED  BY <1>1, InitLogin, StepLogin, PTL DEF Spec

(* For any calls and any configurations in which no entry of a called node *)
(* refuses MD5 (-nomd): both ends switch encryption on, with the same      *)
(* password, or none does, and the first frame after the login is read     *)
(* with the key it was written with (complete_login, msg_send2,            *)
(* recv_block).                                                            *)
THEOREM KeysAlike ==
    ASSUME \A cf \in Confs : Accepting(cf)
    PROVE  Spec => []FramesReadable
<1>1. SessionInv => FramesReadable
  <2> SUFFICES ASSUME SessionInv, NEW c \in Calls, NEW s \in Sides
               PROVE  end[c][s].heard # "garbage"
    BY DEF FramesReadable
  <2>1. Accepting(conf)
    BY DEF SessionInv
  <2>2. Agreed(c, end[c]["o"], end[c]["a"])
    BY EveryCall DEF Login
  <2> QED  BY <2>1, <2>2 DEF Agreed, Sides
<1> QED  BY <1>1, InitLogin, StepLogin, PTL DEF Spec

(* For any configurations and calls: an answering session serves an        *)
(* address with a password only to a caller that has proved it, those of   *)
(* shares too (ADR, PWD).                                                  *)
THEOREM OnlyProved == Spec => []AkasAuthenticated
<1>1. SessionInv => AkasAuthenticated
  <2> SUFFICES ASSUME SessionInv, NEW c \in Calls, LoggedIn(c, "a"),
                      NEW x \in end[c]["a"].fa, Protected(c, "a", x)
               PROVE  /\ end[c]["a"].state = "SECURE"
                      /\ Pn(c, "a", x).pwd \in {"!", Me(c).out_pwd}
    BY DEF AkasAuthenticated
  <2> DEFINE a == end[c]["a"]
  <2>1. Vouched(c, a) /\ Served(c, a)
    BY EveryCall DEF Login, Answering, LoggedIn
  <2>2. a.epwd # "-" /\ Pn(c, "a", x).pwd \in {"!", a.epwd}
    BY <2>1 DEF Vouched, Served
  <2> QED  BY <2>1, <2>2 DEF Served
<1> QED  BY <1>1, InitLogin, StepLogin, PTL DEF Spec

(* For any configurations and calls: both ends agree whether the session   *)
(* is protected, unless the answering one takes any password from a node   *)
(* named on its command line (PWD, OK).                                    *)
THEOREM ProtectionAlike == Spec => []SecurityAgrees
<1>1. SessionInv => SecurityAgrees
  <2> SUFFICES ASSUME SessionInv, NEW c \in Calls, LoggedIn(c, "o"), LoggedIn(c, "a"),
                      end[c]["a"].epwd # "!"
               PROVE  end[c]["a"].state = "SECURE" <=>
                        end[c]["o"].state = "SECURE" /\ end[c]["o"].ext # "REMOTE_NONSECURE"
    BY DEF SecurityAgrees
  <2> DEFINE o == end[c]["o"]
             a == end[c]["a"]
  <2>1. Agreed(c, o, a) /\ Served(c, a)
    BY EveryCall DEF Login, LoggedIn
  <2>2. /\ o.state = "SECURE" <=> Me(c).out_pwd # "-"
        /\ o.ext = "REMOTE_NONSECURE" <=> o.state = "SECURE" /\ a.state # "SECURE"
    BY <2>1 DEF Agreed, LoggedIn
  <2>3. a.state = "SECURE" => a.epwd = Me(c).out_pwd /\ a.epwd # "-"
    BY <2>1 DEF Served
  <2> QED  BY <2>2, <2>3
<1> QED  BY <1>1, InitLogin, StepLogin, PTL DEF Spec

(* For any configurations and calls: a caller that logged in holds the     *)
(* lock of the node it called until the session is over (ADR).             *)
THEOREM CalledHeld == Spec => []CalledNodeHeld
<1>1. SessionInv => CalledNodeHeld
  <2> SUFFICES ASSUME SessionInv, NEW c \in Calls, LoggedIn(c, "o"),
                      end[c]["o"].pc # "closed"
               PROVE  To[c] \in end[c]["o"].fa
    BY DEF CalledNodeHeld
  <2> DEFINE o == end[c]["o"]
             a == end[c]["a"]
  <2>1. Agreed(c, o, a) /\ Calling(c, o)
    BY EveryCall DEF Login
  <2>2. o.pc = "up" /\ o.fa # {}
    BY <2>1 DEF Agreed, LoggedIn
  <2> QED  BY <2>1, <2>2 DEF Calling
<1> QED  BY <1>1, InitLogin, StepLogin, PTL DEF Spec

=============================================================================
