-------------------------- MODULE AmigaLoopProofs --------------------------
(***************************************************************************)
(* The event loop of the AmigaOS build: its counters are exact, no         *)
(* configuration in use is freed, and no session is dropped for silence    *)
(* that owed the other side nothing but its M_EOB, for any table, any      *)
(* limits and any number of reloads.                                       *)
(***************************************************************************)
EXTENDS AmigaLoop, FiniteSetTheorems, WellFoundedInduction, TLAPS

Records == [phase : {"FREE", "CONNECTING", "RUNNING"}, inbound : BOOLEAN,
            node : Nodes \cup {None}, cfg : Nat, age : Nat, idle : Nat, up : BOOLEAN,
            out : BOOLEAN, sent : BOOLEAN, in : BOOLEAN, files : BOOLEAN, moved : BOOLEAN,
            lEOB : BOOLEAN, rEOB : BOOLEAN]

Places == {"start", "select", "accept", "step", "rescan", "check", "reopen", "idle",
           "cleanup", "close", "main", "exit", "done"}

(* The table has the size that some configuration asked for. *)
TableOK ==
  /\ pc \in Places /\ n_clients \in Int /\ n_servers \in Int
  /\ config \in 1..MaxCfg /\ current \in 1..MaxCfg
  /\ current = IF pc = "reopen" THEN config + 1 ELSE config
  /\ \E c \in 1..config : sessions \in [1..Slots[c] -> Records]

(* What checkcfg, handle_config_reload and main hold of a configuration:   *)
(* the loop's lock of a configuration that was replaced is kept for good.  *)
One(b) == IF b THEN 1 ELSE 0
Holds(c) ==
  One(c = current) + One(c = 1 /\ pc \notin {"exit", "done"})
    + One(1 < c /\ c <= config /\ ~(c = config /\ pc \in {"close", "main", "exit", "done"}))

UsageOK ==
  /\ config_locked = (config > 1)
  /\ usage \in [1..MaxCfg -> Int]
  /\ \A c \in 1..MaxCfg : usage[c] = Holds(c)
  /\ \A i \in Active : sessions[i].cfg \in 1..config
  /\ pc \in {"start", "main", "exit", "done"} => Active = {}
  /\ pc = "start" => config = 1

(* A session that owes nothing but its M_EOB. *)
Owing(s) == s.up /\ ~Pending(s) /\ ~s.lEOB

(* Whether slot i has had its step since time last passed. *)
Rested(i) == pc \in {"start", "select", "rescan", "check", "reopen", "idle"} \/ (pc = "step" /\ i < at)

(* The silence of a session is not longer than its age, it does not keep   *)
(* the end of a batch to itself, and it can owe an M_EOB only for so long. *)
Clocked(s) ==
  /\ s.age < MaxWait => s.idle <= s.age
  /\ s.up /\ ~Pending(s) => ~s.rEOB
  /\ Owing(s) => s.idle <= 1 \/ s.idle <= MaxWait

(* A session that has just begun, or is none. *)
Begins(r) == r.idle = 0 /\ r.age = 0 /\ ~r.up

EobOK ==
  /\ ~silent /\ at \in Nat
  /\ \A i \in DOMAIN sessions :
       /\ sessions[i].phase # "RUNNING" => Begins(sessions[i])
       /\ Clocked(sessions[i])
       /\ Rested(i) /\ Owing(sessions[i]) => sessions[i].idle = 0 \/ sessions[i].age < MaxWait

-----------------------------------------------------------------------------
(* A set of naturals has a least member. *)
LEMMA Least ==
  ASSUME NEW T \in SUBSET Nat, T # {}
  PROVE  \E x \in T : \A y \in T : x <= y
  <1> DEFINE R == {ss \in Nat \X Nat : ss[1] < ss[2]}
  <1>1. IsWellFoundedOn(R, Nat)
    BY NatLessThanWellFounded DEF OpToRel
  <1>2. PICK x \in T : \A y \in T : ~(<<y, x>> \in R)
    BY <1>1, WFMin
  <1>3. ASSUME NEW y \in T PROVE x <= y
    <2>1. <<y, x>> \in Nat \X Nat
      OBVIOUS
    <2>2. ~(y < x)
      BY <1>2, <2>1
    <2> QED
      BY <2>2
  <1> QED
    BY <1>3

(* The table and its size. *)
LEMMA TableSize ==
  ASSUME TableOK
  PROVE  /\ Size \in Nat /\ DOMAIN sessions = 1..Size /\ IsFiniteSet(DOMAIN sessions)
         /\ sessions \in [DOMAIN sessions -> Records]
  <1>1. PICK c \in 1..config : sessions \in [1..Slots[c] -> Records]
    BY DEF TableOK
  <1>2. Slots[c] \in Nat
    BY AmigaAssumption DEF TableOK
  <1>3. IsFiniteSet(1..Slots[c]) /\ Cardinality(1..Slots[c]) = Slots[c]
    <2>1. PICK n \in Nat : n = Slots[c]
      BY <1>2
    <2>2. IsFiniteSet(1..n) /\ Cardinality(1..n) = IF 1 > n THEN 0 ELSE n - 1 + 1
      BY FS_Interval
    <2> QED
      BY <2>1, <2>2
  <1> QED
    BY <1>1, <1>2, <1>3 DEF Size

(* sess_alloc finds a free slot when there is one. *)
LEMMA Allocates ==
  ASSUME TableOK, FreeSlots # {}
  PROVE  sess_alloc \in DOMAIN sessions /\ sessions[sess_alloc].phase = "FREE"
  <1>1. FreeSlots \in SUBSET Nat
    BY TableSize DEF FreeSlots
  <1>2. \E i \in FreeSlots : \A j \in FreeSlots : i <= j
    BY <1>1, Least
  <1>3. sess_alloc \in FreeSlots
    BY <1>2 DEF sess_alloc
  <1> QED
    BY <1>3 DEF FreeSlots

(* advance_sessions leaves out no slot in use. *)
LEMMA NextSlot ==
  ASSUME TableOK, NEW i \in Nat
  PROVE  After(i) \in Nat /\ \A j \in Active : j < After(i) => j <= i
  <1>1. Active \in SUBSET Nat /\ \A j \in Active : j <= Size
    BY TableSize DEF Active
  <1>2. CASE \E j \in Active : j > i
    <2> DEFINE T == {j \in Active : j > i}
    <2>1. \E j \in T : \A k \in T : j <= k
      BY <1>1, <1>2, Least
    <2>2. \E j \in Active : j > i /\ \A k \in Active : k > i => j <= k
      BY <2>1
    <2>3. After(i) \in Active /\ \A k \in Active : k > i => After(i) <= k
      BY <1>2, <2>2 DEF After
    <2>4. PICK a \in Nat : a = After(i)
      BY <1>1, <2>3
    <2>5. \A j \in Active : j < a => j <= i
      BY <1>1, <2>3, <2>4
    <2> QED
      BY <2>4, <2>5
  <1>3. CASE ~\E j \in Active : j > i
    <2>1. After(i) = Size + 1
      BY <1>3 DEF After
    <2> QED
      BY <1>1, <1>3, <2>1, TableSize
  <1> QED
    BY <1>2, <1>3

(* The records a session can have. *)
LEMMA FreeRecord ==
  /\ Free \in Records /\ Free.phase = "FREE" /\ Free.age = 0 /\ Free.idle = 0 /\ ~Free.up
  BY DEF Free, Records, None

Called(n, c) == [Free EXCEPT !.phase = "CONNECTING", !.node = n, !.cfg = c]

LEMMA CallRecord ==
  ASSUME NEW n \in Nodes, NEW c \in Nat, NEW s, s = Called(n, c)
  PROVE  /\ s \in Records /\ s.phase = "CONNECTING" /\ s.age = 0 /\ s.idle = 0 /\ ~s.up
         /\ s.inbound = FALSE /\ s.cfg = c
  BY DEF Free, Records, None, Called

LEMMA AcceptRecord ==
  ASSUME NEW c \in Nat, NEW s, s = [Free EXCEPT !.phase = "RUNNING", !.inbound = TRUE, !.cfg = c]
  PROVE  /\ s \in Records /\ s.phase = "RUNNING" /\ s.age = 0 /\ s.idle = 0 /\ ~s.up
         /\ s.inbound = TRUE /\ s.cfg = c
  BY DEF Free, Records, None

LEMMA ConnectedRecord ==
  ASSUME NEW o \in Records
  PROVE  LET s == [o EXCEPT !.phase = "RUNNING", !.out = TRUE]
         IN  s \in Records /\ s.phase = "RUNNING" /\ s.age = o.age /\ s.idle = o.idle /\ s.up = o.up
             /\ s.inbound = o.inbound /\ s.cfg = o.cfg
  BY DEF Records

LEMMA HeardRecord ==
  ASSUME NEW o \in Records, NEW r \in {o} \cup Heard(o)
  PROVE  /\ r \in Records /\ r.phase = o.phase /\ r.inbound = o.inbound /\ r.cfg = o.cfg
         /\ r.age = o.age /\ r.idle = o.idle
  <1>1. PICK y \in BOOLEAN, n \in BOOLEAN : y = TRUE /\ n = FALSE
    OBVIOUS
  <1>2. r \in {o, [o EXCEPT !.up = y], [o EXCEPT !.in = y], [o EXCEPT !.rEOB = y],
               [o EXCEPT !.in = n, !.files = y, !.moved = y],
               [o EXCEPT !.sent = n, !.files = y, !.moved = y]}
    BY <1>1, Zenon DEF Heard, When
  <1>3. CASE r \in {o, [o EXCEPT !.up = y], [o EXCEPT !.in = y], [o EXCEPT !.rEOB = y]}
    BY <1>3 DEF Records
  <1>4. CASE r = [o EXCEPT !.in = n, !.files = y, !.moved = y]
    BY <1>4 DEF Records
  <1>5. CASE r = [o EXCEPT !.sent = n, !.files = y, !.moved = y]
    BY <1>5 DEF Records
  <1> QED
    BY <1>2, <1>3, <1>4, <1>5

LEMMA SentRecord ==
  ASSUME NEW o \in Records
  PROVE  /\ Sent(o) \in Records /\ Sent(o).phase = o.phase /\ Sent(o).inbound = o.inbound
         /\ Sent(o).cfg = o.cfg /\ Sent(o).age = o.age /\ Sent(o).idle = o.idle
  BY ZenonT(60) DEF Records, Sent

LEMMA EobRecord ==
  ASSUME NEW o \in Records
  PROVE  /\ Eob(o) \in Records /\ Eob(o).phase = o.phase /\ Eob(o).inbound = o.inbound
         /\ Eob(o).cfg = o.cfg /\ Eob(o).age = o.age /\ Eob(o).idle = o.idle
         /\ Eob(o).up = o.up /\ Eob(o).out = o.out /\ Eob(o).sent = o.sent /\ Eob(o).in = o.in
         /\ Eob(o).rEOB = o.rEOB
         /\ Eob(o).lEOB = (o.lEOB \/ (o.up /\ ~Pending(o) /\ (o.rEOB \/ o.age >= MaxWait)))
  <1> DEFINE p == o.up /\ ~Pending(o) /\ (o.rEOB \/ o.age >= MaxWait)
             e == [o EXCEPT !.lEOB = TRUE]
  <1>1. Eob(o) = IF p /\ ~o.lEOB THEN e ELSE o
    BY DEF Eob, Pending
  <1>2. /\ e \in Records /\ e.phase = o.phase /\ e.inbound = o.inbound /\ e.cfg = o.cfg
        /\ e.age = o.age /\ e.idle = o.idle /\ e.up = o.up /\ e.out = o.out /\ e.sent = o.sent
        /\ e.in = o.in /\ e.rEOB = o.rEOB /\ e.lEOB = TRUE
    BY DEF Records
  <1>3. p \in BOOLEAN /\ o.lEOB \in BOOLEAN
    BY DEF Records
  <1> HIDE DEF p, e
  <1>4. CASE p /\ ~o.lEOB
    BY <1>1, <1>2, <1>3, <1>4 DEF p
  <1>5. CASE ~(p /\ ~o.lEOB)
    BY <1>1, <1>3, <1>5 DEF p
  <1> QED
    BY <1>4, <1>5


(* What amiga_proto_step makes of a session o that heard r, and of one     *)
(* whose batch is over but not the session.                                *)
Stepped(o, r) ==
  LET w == Sent(r)
      e == Eob(w)
  IN  IF w # o THEN [e EXCEPT !.idle = 0] ELSE e
NextBatch(s) ==
  IF BatchOver(s) THEN [s EXCEPT !.lEOB = FALSE, !.rEOB = FALSE, !.files = FALSE] ELSE s

LEMMA SteppedRecord ==
  ASSUME NEW o \in Records, NEW r \in {o} \cup Heard(o), NEW s, s = Stepped(o, r)
  PROVE  /\ s \in Records /\ s.phase = o.phase /\ s.inbound = o.inbound /\ s.cfg = o.cfg
         /\ s.age = o.age /\ s.idle \in {0, o.idle}
         /\ s.idle # 0 => s = Eob(o)
         /\ s.up /\ ~Pending(s) /\ s.rEOB => s.lEOB
  <1> DEFINE w == Sent(r)
             e == Eob(w)
             z == [e EXCEPT !.idle = 0]
  <1>1. /\ w \in Records /\ w.phase = o.phase /\ w.inbound = o.inbound /\ w.cfg = o.cfg
        /\ w.age = o.age /\ w.idle = o.idle
    BY HeardRecord, SentRecord
  <1>2. /\ e \in Records /\ e.phase = o.phase /\ e.inbound = o.inbound /\ e.cfg = o.cfg
        /\ e.age = o.age /\ e.idle = o.idle
        /\ e.up /\ ~Pending(e) /\ e.rEOB => e.lEOB
    <2> HIDE DEF w
    <2>1. /\ e \in Records /\ e.phase = o.phase /\ e.inbound = o.inbound /\ e.cfg = o.cfg
          /\ e.age = o.age /\ e.idle = o.idle
      BY <1>1, EobRecord
    <2>2. /\ e.up = w.up /\ e.out = w.out /\ e.sent = w.sent /\ e.in = w.in /\ e.rEOB = w.rEOB
          /\ e.lEOB = (w.lEOB \/ (w.up /\ ~Pending(w) /\ (w.rEOB \/ w.age >= MaxWait)))
      BY <1>1, EobRecord
    <2> HIDE DEF e
    <2>3. ASSUME e.up, ~Pending(e), e.rEOB PROVE e.lEOB
      <3>1. w.up /\ ~Pending(w) /\ w.rEOB
        BY <2>2, <2>3 DEF Pending
      <3> QED
        BY <2>2, <3>1, Zenon
    <2> QED
      BY <2>1, <2>3
  <1> HIDE DEF e
  <1>3. /\ z \in Records /\ z.phase = e.phase /\ z.inbound = e.inbound /\ z.cfg = e.cfg
        /\ z.age = e.age /\ z.idle = 0 /\ z.up = e.up /\ z.out = e.out /\ z.sent = e.sent
        /\ z.in = e.in /\ z.rEOB = e.rEOB /\ z.lEOB = e.lEOB
    BY <1>2 DEF Records
  <1>4. s = IF w # o THEN z ELSE e
    BY DEF Stepped, e
  <1>5. w = o => e = Eob(o)
    BY DEF e
  <1> HIDE DEF w, z
  <1> QED
    BY <1>2, <1>3, <1>4, <1>5 DEF Pending

LEMMA NextBatchRecord ==
  ASSUME NEW s \in Records
  PROVE  /\ NextBatch(s) \in Records /\ NextBatch(s).phase = s.phase
         /\ NextBatch(s).inbound = s.inbound /\ NextBatch(s).cfg = s.cfg
         /\ NextBatch(s).age = s.age /\ NextBatch(s).idle = s.idle
         /\ NextBatch(s).up = s.up /\ Pending(NextBatch(s)) = Pending(s)
         /\ BatchOver(s) => ~NextBatch(s).rEOB
         /\ ~BatchOver(s) => NextBatch(s) = s
  <1>1. PICK n \in BOOLEAN : n = FALSE
    OBVIOUS
  <1> DEFINE b == [s EXCEPT !.lEOB = n, !.rEOB = n, !.files = n]
  <1>2. /\ b \in Records /\ b.phase = s.phase /\ b.inbound = s.inbound /\ b.cfg = s.cfg
        /\ b.age = s.age /\ b.idle = s.idle /\ b.up = s.up /\ b.out = s.out /\ b.sent = s.sent
        /\ b.in = s.in /\ b.rEOB = n
    BY DEF Records
  <1>3. NextBatch(s) = IF BatchOver(s) THEN b ELSE s
    BY <1>1, Zenon DEF NextBatch
  <1> HIDE DEF b
  <1> QED
    BY <1>1, <1>2, <1>3 DEF Pending

(* A step gives a session that owes an M_EOB either something to wait for  *)
(* or the M_EOB, when it is old enough.                                    *)
LEMMA StepRests ==
  ASSUME NEW o \in Records, Clocked(o), NEW r \in {o} \cup Heard(o), NEW t,
         t = NextBatch(Stepped(o, r))
  PROVE  /\ Clocked(t)
         /\ Owing(t) => t.idle = 0 \/ t.age < MaxWait
  <1>1. PICK s : s = Stepped(o, r)
    OBVIOUS
  <1>2. /\ s \in Records /\ s.age = o.age /\ s.idle \in {0, o.idle}
        /\ s.idle # 0 => s = Eob(o)
        /\ s.up /\ ~Pending(s) /\ s.rEOB => s.lEOB
    BY <1>1, SteppedRecord
  <1>3. /\ t \in Records /\ t.age = s.age /\ t.idle = s.idle
        /\ t.up = s.up /\ Pending(t) = Pending(s)
        /\ BatchOver(s) => ~t.rEOB
        /\ ~BatchOver(s) => t = s
    BY <1>1, <1>2, NextBatchRecord
  <1>4. t.up /\ ~Pending(t) => ~t.rEOB
    BY <1>2, <1>3 DEF BatchOver
  <1>5. t.age < MaxWait => t.idle <= t.age
    BY <1>2, <1>3 DEF Clocked, Records
  <1>6. ASSUME Owing(t), t.idle # 0 PROVE t.age < MaxWait
    <2>1. s = Eob(o) /\ s.up /\ ~Pending(s)
      BY <1>2, <1>3, <1>6 DEF Owing
    <2>2. o.up /\ ~Pending(o) /\ ~o.rEOB
      BY <2>1, EobRecord DEF Pending, Clocked
    <2>3. ~s.rEOB
      BY <2>1, <2>2, EobRecord
    <2>4. t = s
      BY <1>3, <2>3 DEF BatchOver
    <2>5. ~s.lEOB
      BY <1>6, <2>4 DEF Owing
    <2>6. ~(o.age >= MaxWait)
      BY <2>1, <2>2, <2>5, EobRecord
    <2>7. o.age \in Nat /\ MaxWait \in Nat
      BY AmigaAssumption DEF Records, MaxWait, Min
    <2> QED
      BY <1>2, <1>3, <2>6, <2>7
  <1>7. Owing(t) => t.idle <= 1 \/ t.idle <= MaxWait
    <2>1. t.age \in Nat /\ t.idle \in Nat /\ MaxWait \in Nat
      BY <1>3, AmigaAssumption DEF Records, MaxWait, Min
    <2> QED
      BY <1>5, <1>6, <2>1
  <1> QED
    BY <1>4, <1>5, <1>6, <1>7 DEF Clocked

-----------------------------------------------------------------------------
(* One slot of the table changes, and is counted in or out. *)
Client(s) == s.phase # "FREE" /\ ~s.inbound
Server(s) == s.phase # "FREE" /\ s.inbound

Fills(i, r) ==
  /\ i \in DOMAIN sessions /\ r \in Records /\ Put(i, r)
  /\ n_clients' = n_clients - One(Client(sessions[i])) + One(Client(r))
  /\ n_servers' = n_servers - One(Server(sessions[i])) + One(Server(r))
  /\ Client(r) /\ ~Client(sessions[i]) => n_clients < max_clients
  /\ Server(r) /\ ~Server(sessions[i]) => n_servers <= max_servers
  /\ r.phase # "FREE" => r.cfg = config \/ (sessions[i].phase # "FREE" /\ r.cfg = sessions[i].cfg)

LEMMA ConfigNat ==
  ASSUME TableOK
  PROVE  config \in Nat
  BY AmigaAssumption DEF TableOK

LEMMA OutboundFills ==
  ASSUME TableOK, NEW n \in Nodes, Connects(n)
  PROVE  \E i, r : Fills(i, r) /\ Begins(r)
  <1> DEFINE i == sess_alloc
             r == Called(n, config)
  <1>1. i \in DOMAIN sessions /\ sessions[i].phase = "FREE"
    BY Allocates DEF Connects
  <1>2. /\ r \in Records /\ r.phase = "CONNECTING" /\ r.age = 0 /\ r.idle = 0 /\ ~r.up
        /\ r.inbound = FALSE /\ r.cfg = config
    BY CallRecord, ConfigNat
  <1>3. Put(i, r) /\ n_clients' = n_clients + 1 /\ n_servers' = n_servers /\ n_clients < max_clients
    BY DEF Connects, Called
  <1> HIDE DEF i, r
  <1>4. Fills(i, r)
    BY <1>1, <1>2, <1>3 DEF Fills, Client, Server, One, TableOK
  <1> QED
    BY <1>2, <1>4 DEF Begins

LEMMA TryOutbound ==
  ASSUME TableOK, try_outbound
  PROVE  UNCHANGED table \/ \E i, r : Fills(i, r) /\ Begins(r)
  BY OutboundFills DEF try_outbound, NoOutbound

LEMMA AcceptFills ==
  ASSUME TableOK, do_accept
  PROVE  UNCHANGED table \/ \E i, r : Fills(i, r) /\ Begins(r)
  <1>1. CASE UNCHANGED <<sessions, n_servers>>
    BY <1>1 DEF do_accept, table
  <1>2. CASE /\ FreeSlots # {} /\ n_servers <= max_servers /\ n_servers' = n_servers + 1
             /\ Put(sess_alloc, [Free EXCEPT !.phase = "RUNNING", !.inbound = TRUE, !.cfg = config])
    <2> DEFINE i == sess_alloc
               r == [Free EXCEPT !.phase = "RUNNING", !.inbound = TRUE, !.cfg = config]
    <2>1. i \in DOMAIN sessions /\ sessions[i].phase = "FREE"
      BY <1>2, Allocates
    <2>2. /\ r \in Records /\ r.phase = "RUNNING" /\ r.age = 0 /\ r.idle = 0 /\ ~r.up
          /\ r.inbound = TRUE /\ r.cfg = config
      BY AcceptRecord, ConfigNat
    <2>3. Put(i, r) /\ n_servers' = n_servers + 1 /\ n_clients' = n_clients
          /\ n_servers <= max_servers
      BY <1>2 DEF do_accept
    <2> HIDE DEF i, r
    <2>4. Fills(i, r)
      BY <2>1, <2>2, <2>3 DEF Fills, Client, Server, One, TableOK
    <2> QED
      BY <2>2, <2>4 DEF Begins
  <1>3. n_servers > max_servers \/ n_servers <= max_servers
    BY AmigaAssumption DEF TableOK
  <1> QED
    BY <1>1, <1>2, <1>3 DEF do_accept, amiga_proto_open

LEMMA DropFills ==
  ASSUME TableOK, NEW i \in DOMAIN sessions, sessions[i].phase # "FREE", Drop(i)
  PROVE  Fills(i, Free) /\ Begins(Free)
  <1>1. sessions[i].inbound \in BOOLEAN
    BY TableSize DEF Records
  <1>2. ~Client(Free) /\ ~Server(Free) /\ Begins(Free)
    BY FreeRecord DEF Client, Server, Begins
  <1>3. /\ n_servers' = n_servers - One(Server(sessions[i]))
        /\ n_clients' = n_clients - One(Client(sessions[i]))
    BY <1>1 DEF Drop, One, Server, Client
  <1>4. One(Server(sessions[i])) \in Int /\ One(Client(sessions[i])) \in Int
        /\ One(Server(Free)) = 0 /\ One(Client(Free)) = 0
    BY <1>2 DEF One
  <1>5. Put(i, Free)
    BY DEF Drop
  <1> QED
    BY <1>2, <1>3, <1>4, <1>5, FreeRecord DEF Fills, TableOK

(* A session goes on in its slot. *)
LEMMA KeepsFills ==
  ASSUME TableOK, NEW i \in DOMAIN sessions, NEW r \in Records, Put(i, r),
         sessions[i].phase # "FREE", r.phase # "FREE", r.inbound = sessions[i].inbound,
         r.cfg = sessions[i].cfg, UNCHANGED <<n_clients, n_servers>>
  PROVE  Fills(i, r)
  BY DEF Fills, Client, Server, One, TableOK

LEMMA ConnectFills ==
  ASSUME TableOK, check_connect
  PROVE  \/ UNCHANGED table
         \/ \E r : Fills(at, r) /\ r.idle = sessions[at].idle /\ r.age = sessions[at].age
                     /\ r.up = sessions[at].up
         \/ Fills(at, Free)
  <1>1. at \in DOMAIN sessions /\ sessions[at].phase = "CONNECTING" /\ sessions[at] \in Records
    BY TableSize DEF check_connect, Stepping
  <1>2. CASE Drop(at)
    BY <1>1, <1>2, DropFills
  <1>3. CASE /\ Put(at, [sessions[at] EXCEPT !.phase = "RUNNING", !.out = TRUE])
             /\ UNCHANGED <<n_clients, n_servers>>
    <2> DEFINE r == [sessions[at] EXCEPT !.phase = "RUNNING", !.out = TRUE]
    <2>1. /\ r \in Records /\ r.phase = "RUNNING" /\ r.age = sessions[at].age
          /\ r.idle = sessions[at].idle /\ r.inbound = sessions[at].inbound
          /\ r.cfg = sessions[at].cfg /\ r.up = sessions[at].up
      BY <1>1, ConnectedRecord
    <2> HIDE DEF r
    <2>2. Fills(at, r)
      BY <1>1, <1>3, <2>1, KeepsFills DEF r
    <2> QED
      BY <2>1, <2>2
  <1> QED
    BY <1>2, <1>3 DEF check_connect

LEMMA ProtoFills ==
  ASSUME TableOK, amiga_proto_step
  PROVE  \E r \in {sessions[at]} \cup Heard(sessions[at]) :
           \/ Fills(at, NextBatch(Stepped(sessions[at], r))) /\ (~silent => ~silent')
           \/ Fills(at, Free) /\ (~silent => ~silent')
  <1> DEFINE o == sessions[at]
  <1>1. at \in DOMAIN sessions /\ o.phase = "RUNNING" /\ o \in Records
    BY TableSize DEF amiga_proto_step, Stepping
  <1>2. PICK r \in {o} \cup Heard(o) :
           LET s == Stepped(o, r)
           IN  \/ amiga_proto_close(s, "ok")
               \/ /\ Put(at, NextBatch(s))
                  /\ UNCHANGED <<n_clients, n_servers, silent>>
    BY Zenon DEF amiga_proto_step, Stepped, NextBatch
  <1>3. PICK s : s = Stepped(o, r)
    OBVIOUS
  <1>4. s \in Records /\ s.phase = o.phase /\ s.inbound = o.inbound /\ s.cfg = o.cfg
    BY <1>1, <1>3, SteppedRecord
  <1>5. PICK t : t = NextBatch(s)
    OBVIOUS
  <1>6. t \in Records /\ t.phase = o.phase /\ t.inbound = o.inbound /\ t.cfg = o.cfg
    BY <1>4, <1>5, NextBatchRecord
  <1> HIDE DEF o
  <1>7. CASE amiga_proto_close(s, "ok")
    <2>1. Drop(at) /\ (~silent => ~silent')
      BY <1>7 DEF amiga_proto_close
    <2>2. Fills(at, Free)
      BY <1>1, <2>1, DropFills DEF o
    <2> QED
      BY <1>2, <2>1, <2>2 DEF o
  <1>8. CASE Put(at, t) /\ UNCHANGED <<n_clients, n_servers, silent>>
    <2>1. Fills(at, t)
      BY <1>1, <1>6, <1>8, KeepsFills DEF o
    <2> QED
      BY <1>2, <1>3, <1>5, <1>8, <2>1 DEF o
  <1> QED
    BY <1>2, <1>3, <1>5, <1>7, <1>8


LEMMA EndFills ==
  ASSUME TableOK, NetTimesOut \/ ProtoStepFails
  PROVE  Fills(at, Free)
  <1>1. at \in DOMAIN sessions /\ sessions[at].phase = "RUNNING" /\ Drop(at)
    BY DEF NetTimesOut, ProtoStepFails, Stepping, amiga_proto_close
  <1> QED
    BY <1>1, DropFills

(* A step that leaves the configurations alone and changes at most a slot. *)
Fixed == UNCHANGED <<cfg>> /\ pc # "reopen" /\ pc' \in Places \ {"reopen"}

LEMMA Effects ==
  ASSUME TableOK, Next
  PROVE  \/ Fixed /\ UNCHANGED table
         \/ Fixed /\ \E i, r : Fills(i, r)
         \/ Fixed /\ (select \/ CleanupSessions)
         \/ Reload \/ handle_config_reload \/ evloop_cleanup \/ MainReturns
  <1> USE DEF Places, Fixed
  <1>1. CASE Start \/ Rescan
    <2>1. Fixed
      BY <1>1 DEF Start, Rescan
    <2>2. try_outbound
      BY <1>1 DEF Start, Rescan, try_outbound
    <2> QED
      BY <2>1, <2>2, TryOutbound
  <1>2. CASE select \/ CleanupSessions
    BY <1>2 DEF select, CleanupSessions
  <1>3. CASE do_accept
    BY <1>3, AcceptFills DEF do_accept, ToSessions
  <1>4. CASE check_connect
    <2>1. Fixed
      BY <1>4 DEF check_connect, Stepping
    <2> QED
      BY <1>4, <2>1, ConnectFills
  <1>5. CASE amiga_proto_step
    <2>1. Fixed
      BY <1>5 DEF amiga_proto_step, Stepping
    <2> QED
      BY <1>5, <2>1, ProtoFills
  <1>6. CASE NetTimesOut \/ ProtoStepFails
    <2>1. Fixed
      BY <1>6 DEF NetTimesOut, ProtoStepFails, Stepping
    <2> QED
      BY <1>6, <2>1, EndFills
  <1>7. CASE NoAccept \/ AcceptFails \/ StepsBegin \/ StepsDone
    BY <1>7 DEF NoAccept, AcceptFails, StepsBegin, StepsDone, ToSessions
  <1>8. CASE checkcfg \/ Idle \/ SeesExit \/ exitfunc \/ SelectFails
    BY <1>8 DEF checkcfg, Idle, SeesExit, exitfunc, SelectFails
  <1>9. CASE Break \/ (\E f \in {"main", "incl"} : Edit(f))
    BY <1>9 DEF Break, Edit, loop
  <1>10. CASE Done
    BY <1>10 DEF Done, vars, loop
  <1> QED
    BY <1>1, <1>2, <1>3, <1>4, <1>5, <1>6, <1>7, <1>8, <1>9, <1>10 DEF Next, Loop

(* What a change of one slot makes of the table. *)
LEMMA FillTable ==
  ASSUME TableOK, NEW i, NEW r, Fills(i, r)
  PROVE  /\ sessions' \in [DOMAIN sessions -> Records]
         /\ DOMAIN sessions' = DOMAIN sessions
         /\ sessions'[i] = r /\ \A j \in DOMAIN sessions : j # i => sessions'[j] = sessions[j]
         /\ n_clients' \in Int /\ n_servers' \in Int
  <1>1. sessions' = [sessions EXCEPT ![i] = r] /\ i \in DOMAIN sessions /\ r \in Records
    BY DEF Fills, Put
  <1>2. n_clients' \in Int /\ n_servers' \in Int
    BY DEF Fills, TableOK, One
  <1> QED
    BY <1>1, <1>2, TableSize

LEMMA AgesRecord ==
  ASSUME NEW s \in Records
  PROVE  /\ Ages(s) \in Records /\ Ages(s).phase = s.phase /\ Ages(s).inbound = s.inbound
         /\ Ages(s).cfg = s.cfg /\ Ages(s).up = s.up /\ Pending(Ages(s)) = Pending(s)
         /\ Ages(s).lEOB = s.lEOB /\ Ages(s).rEOB = s.rEOB
         /\ \/ Ages(s).age = s.age /\ Ages(s).idle = s.idle
            \/ Ages(s).age = Min(s.age + 1, MaxWait) /\ Ages(s).idle = Min(s.idle + 1, NetTimeout)
  <1>1. PICK a \in Nat, d \in Nat : a = Min(s.age + 1, MaxWait) /\ d = Min(s.idle + 1, NetTimeout)
    BY AmigaAssumption DEF Records, Min, MaxWait
  <1> DEFINE t == [s EXCEPT !.age = a, !.idle = d]
  <1>2. /\ t \in Records /\ t.phase = s.phase /\ t.inbound = s.inbound /\ t.cfg = s.cfg
        /\ t.up = s.up /\ t.out = s.out /\ t.sent = s.sent /\ t.in = s.in /\ t.lEOB = s.lEOB
        /\ t.rEOB = s.rEOB /\ t.age = a /\ t.idle = d
    BY DEF Records
  <1>3. Ages(s) = IF s.phase = "RUNNING" THEN t ELSE s
    BY <1>1 DEF Ages
  <1> HIDE DEF t
  <1> QED
    BY <1>1, <1>2, <1>3 DEF Pending

(* Time passes for the sessions, or it does not. *)
LEMMA SelectTable ==
  ASSUME TableOK, select
  PROVE  /\ sessions' \in [DOMAIN sessions -> Records]
         /\ DOMAIN sessions' = DOMAIN sessions
         /\ \A j \in DOMAIN sessions : sessions'[j] \in {sessions[j], Ages(sessions[j])}
         /\ UNCHANGED <<n_clients, n_servers>>
  <1>1. \A j \in DOMAIN sessions : sessions[j] \in Records /\ Ages(sessions[j]) \in Records
    BY TableSize, AgesRecord
  <1>2. CASE sessions' = sessions
    BY <1>2, TableSize DEF select
  <1>3. CASE sessions' = [i \in DOMAIN sessions |-> Ages(sessions[i])]
    BY <1>1, <1>3 DEF select
  <1> QED
    BY <1>2, <1>3 DEF select


(* handle_config_reload: the table keeps its size or gets the new one. *)
LEMMA ReopenTable ==
  ASSUME TableOK, handle_config_reload
  PROVE  /\ config' = current /\ current' = current /\ config' \in 1..MaxCfg /\ config < config'
         /\ \/ sessions' = sessions
            \/ /\ sessions' \in [1..Slots[current] -> Records]
               /\ \A i \in 1..Slots[current] :
                    sessions'[i] = IF i \in DOMAIN sessions THEN sessions[i] ELSE Free
  <1>1. config' = current /\ current' = current /\ current = config + 1 /\ config' \in 1..MaxCfg
        /\ config \in Int
    BY AmigaAssumption DEF handle_config_reload, TableOK
  <1>2. \A i \in DOMAIN sessions : sessions[i] \in Records
    BY TableSize
  <1>3. sessions' = sessions \/ sessions' = Resized
    BY DEF handle_config_reload
  <1>4. Resized \in [1..Slots[current] -> Records]
        /\ \A i \in 1..Slots[current] :
             Resized[i] = IF i \in DOMAIN sessions THEN sessions[i] ELSE Free
    BY <1>2, FreeRecord DEF Resized
  <1>5. config < config'
    BY <1>1
  <1> QED
    BY <1>1, <1>3, <1>4, <1>5, Zenon

(* The table is emptied. *)
LEMMA CleanupTable ==
  ASSUME TableOK, CleanupSessions
  PROVE  /\ sessions' \in [DOMAIN sessions -> Records] /\ DOMAIN sessions' = DOMAIN sessions
         /\ \A i \in DOMAIN sessions : sessions'[i] = Free
         /\ n_clients' \in Int /\ n_servers' \in Int
  <1>1. Active \subseteq DOMAIN sessions
    BY DEF Active
  <1>2. \A S \in SUBSET Active : Cardinality(S) \in Nat
    BY <1>1, TableSize, FS_Subset, FS_CardinalityType
  <1>3. n_clients' \in Int /\ n_servers' \in Int
    BY <1>2 DEF CleanupSessions, TableOK
  <1> QED
    BY <1>3, FreeRecord DEF CleanupSessions

LEMMA TableStays ==
  ASSUME TableOK, sessions' \in [DOMAIN sessions -> Records], UNCHANGED <<config, current>>,
         pc # "reopen", pc' \in Places \ {"reopen"}, n_clients' \in Int, n_servers' \in Int
  PROVE  TableOK'
  <1>1. PICK c \in 1..config : sessions \in [1..Slots[c] -> Records]
    BY DEF TableOK
  <1>2. sessions' \in [1..Slots[c] -> Records]
    BY <1>1
  <1> QED
    BY <1>2 DEF TableOK

LEMMA InitTable == Init => TableOK
  <1> SUFFICES ASSUME Init PROVE TableOK
    OBVIOUS
  <1>1. sessions \in [1..Slots[1] -> Records]
    BY FreeRecord DEF Init
  <1>2. 1 \in 1..MaxCfg /\ 1 \in 1..1
    BY AmigaAssumption
  <1>3. config = 1 /\ current = 1 /\ pc = "start" /\ n_clients = 0 /\ n_servers = 0
    BY DEF Init
  <1>4. \E c \in 1..config : sessions \in [1..Slots[c] -> Records]
    BY <1>1, <1>2, <1>3
  <1> QED
    BY <1>2, <1>3, <1>4 DEF TableOK, Places

LEMMA NextTable == TableOK /\ [Next]_vars => TableOK'
  <1> SUFFICES ASSUME TableOK, [Next]_vars PROVE TableOK'
    OBVIOUS
  <1>1. CASE Fixed /\ UNCHANGED table
    BY <1>1, TableSize, TableStays DEF Fixed, cfg, table, TableOK
  <1>2. CASE Fixed /\ \E i, r : Fills(i, r)
    BY <1>2, FillTable, TableStays DEF Fixed, cfg
  <1>3. CASE Fixed /\ select
    BY <1>3, SelectTable, TableStays DEF Fixed, cfg, TableOK
  <1>4. CASE Fixed /\ CleanupSessions
    BY <1>4, CleanupTable, TableStays DEF Fixed, cfg
  <1>5. CASE evloop_cleanup \/ MainReturns
    <2>1. UNCHANGED <<table, config, current>> /\ pc # "reopen" /\ pc' \in Places \ {"reopen"}
      BY <1>5 DEF evloop_cleanup, MainReturns, Places
    <2> QED
      BY <2>1, TableSize, TableStays DEF table, TableOK
  <1>6. CASE Reload
    <2>1. CASE pc' = "idle" /\ UNCHANGED <<current, usage>>
      <3>1. UNCHANGED <<table, config, current>> /\ pc # "reopen" /\ pc' \in Places \ {"reopen"}
        BY <1>6, <2>1 DEF Reload, Places
      <3> QED
        BY <3>1, TableSize, TableStays DEF table, TableOK
    <2>2. CASE pc' = "reopen" /\ Reread
      <3>1. UNCHANGED <<table, config>> /\ pc = "check" /\ pc' = "reopen"
            /\ current' = current + 1 /\ current < MaxCfg
        BY <1>6, <2>2 DEF Reload, Reread
      <3>2. current' \in 1..MaxCfg /\ current' = config' + 1
        BY <3>1, AmigaAssumption DEF TableOK
      <3>3. \E c \in 1..config' : sessions' \in [1..Slots[c] -> Records]
        BY <3>1 DEF TableOK, table
      <3> QED
        BY <3>1, <3>2, <3>3 DEF TableOK, table, Places
    <2> QED
      BY <1>6, <2>1, <2>2 DEF Reload
  <1>7. CASE handle_config_reload
    <2>1. config' = current /\ current' = current /\ config' \in 1..MaxCfg /\ config < config'
      BY <1>7, ReopenTable
    <2>2. pc' \in Places \ {"reopen"} /\ UNCHANGED <<n_clients, n_servers>>
      BY <1>7 DEF handle_config_reload, Places
    <2>3. PICK c \in 1..config : sessions \in [1..Slots[c] -> Records]
      BY DEF TableOK
    <2>4. c \in 1..config' /\ current \in 1..config'
      BY <2>1, AmigaAssumption DEF TableOK
    <2>5. \E d \in 1..config' : sessions' \in [1..Slots[d] -> Records]
      BY <1>7, <2>3, <2>4, ReopenTable
    <2> QED
      BY <2>1, <2>2, <2>5 DEF TableOK
  <1>8. CASE UNCHANGED vars
    BY <1>8 DEF vars, loop, table, cfg, TableOK
  <1> QED
    BY <1>1, <1>2, <1>3, <1>4, <1>5, <1>6, <1>7, <1>8, Effects

LEMMA TableAlways == Spec => []TableOK
  BY InitTable, NextTable, PTL DEF Spec

-----------------------------------------------------------------------------
(* The counters. *)

(* A reload does not make the table smaller. *)
Growing == \A c, d \in 1..MaxCfg : c <= d => Slots[c] <= Slots[d]

Clients == {i \in Active : ~sessions[i].inbound}
Servers == {i \in Active : sessions[i].inbound}

(* A set in which the membership of one slot changes. *)
LEMMA SetCount ==
  ASSUME NEW D, IsFiniteSet(D), NEW S \in SUBSET D, NEW T \in SUBSET D, NEW i \in D,
         \A j \in D \ {i} : j \in S <=> j \in T
  PROVE  Cardinality(T) = Cardinality(S) - One(i \in S) + One(i \in T)
  <1>1. IsFiniteSet(S) /\ IsFiniteSet(T) /\ Cardinality(S) \in Nat /\ Cardinality(T) \in Nat
    BY FS_Subset, FS_CardinalityType
  <1>2. CASE i \in S /\ i \notin T
    <2>1. T = S \ {i}
      BY <1>2
    <2> QED
      BY <1>1, <1>2, <2>1, FS_RemoveElement DEF One
  <1>3. CASE i \notin S /\ i \in T
    <2>1. T = S \cup {i}
      BY <1>3
    <2> QED
      BY <1>1, <1>3, <2>1, FS_AddElement DEF One
  <1>4. CASE (i \in S) <=> (i \in T)
    <2>1. T = S
      BY <1>4
    <2> QED
      BY <1>1, <2>1 DEF One
  <1> QED
    BY <1>2, <1>3, <1>4

LEMMA FillCounts ==
  ASSUME TableOK, CountsExact, NEW i, NEW r, Fills(i, r)
  PROVE  CountsExact'
  <1>1. /\ DOMAIN sessions' = DOMAIN sessions /\ i \in DOMAIN sessions
        /\ sessions'[i] = r /\ \A j \in DOMAIN sessions : j # i => sessions'[j] = sessions[j]
    BY FillTable DEF Fills
  <1>2. /\ Clients \in SUBSET DOMAIN sessions /\ Servers \in SUBSET DOMAIN sessions
        /\ Clients' \in SUBSET DOMAIN sessions /\ Servers' \in SUBSET DOMAIN sessions
    BY <1>1 DEF Clients, Servers, Active
  <1>3. /\ \A j \in DOMAIN sessions : j \in Clients <=> Client(sessions[j])
        /\ \A j \in DOMAIN sessions : j \in Servers <=> Server(sessions[j])
        /\ \A j \in DOMAIN sessions : j \in Clients' <=> Client(sessions'[j])
        /\ \A j \in DOMAIN sessions : j \in Servers' <=> Server(sessions'[j])
    BY <1>1 DEF Clients, Servers, Active, Client, Server
  <1>4. \A j \in DOMAIN sessions \ {i} : (j \in Clients <=> j \in Clients')
                                           /\ (j \in Servers <=> j \in Servers')
    BY <1>1, <1>3
  <1>5. IsFiniteSet(DOMAIN sessions)
    BY TableSize
  <1>6. Cardinality(Clients') = Cardinality(Clients) - One(i \in Clients) + One(i \in Clients')
    BY <1>1, <1>2, <1>4, <1>5, SetCount
  <1>7. Cardinality(Servers') = Cardinality(Servers) - One(i \in Servers) + One(i \in Servers')
    BY <1>1, <1>2, <1>4, <1>5, SetCount
  <1>8. /\ One(i \in Clients) = One(Client(sessions[i])) /\ One(i \in Clients') = One(Client(r))
        /\ One(i \in Servers) = One(Server(sessions[i])) /\ One(i \in Servers') = One(Server(r))
    BY <1>1, <1>3 DEF One
  <1>9. n_clients = Cardinality(Clients) /\ n_servers = Cardinality(Servers)
        /\ n_clients <= max_clients /\ n_servers <= max_servers + 1
    BY DEF CountsExact, Clients, Servers
  <1>10. n_clients' = Cardinality(Clients') /\ n_servers' = Cardinality(Servers')
    BY <1>6, <1>7, <1>8, <1>9 DEF Fills
  <1>11. n_clients' <= max_clients /\ n_servers' <= max_servers + 1
    <2>1. One(Client(sessions[i])) \in {0, 1} /\ One(Client(r)) \in {0, 1}
          /\ One(Server(sessions[i])) \in {0, 1} /\ One(Server(r)) \in {0, 1}
      BY DEF One
    <2>2. n_clients \in Int /\ n_servers \in Int /\ max_clients \in Int /\ max_servers \in Int
      BY AmigaAssumption DEF TableOK
    <2>3. n_clients' <= max_clients
      BY <1>9, <2>1, <2>2 DEF Fills, One
    <2>4. n_servers' <= max_servers + 1
      BY <1>9, <2>1, <2>2 DEF Fills, One
    <2> QED
      BY <2>3, <2>4
  <1> QED
    BY <1>10, <1>11 DEF CountsExact, Clients, Servers

(* The sessions in the table, and who called, are the same. *)
LEMMA SameCounts ==
  ASSUME CountsExact, Clients' = Clients, Servers' = Servers, UNCHANGED <<n_clients, n_servers>>
  PROVE  CountsExact'
  BY DEF CountsExact, Clients, Servers

LEMMA ReopenCounts ==
  ASSUME Growing, TableOK, CountsExact, handle_config_reload
  PROVE  CountsExact'
  <1>1. PICK c \in 1..config : sessions \in [1..Slots[c] -> Records]
    BY DEF TableOK
  <1>2. UNCHANGED <<n_clients, n_servers>>
    BY DEF handle_config_reload
  <1>3. CASE sessions' = sessions
    BY <1>2, <1>3, SameCounts DEF Clients, Servers, Active
  <1>4. CASE /\ sessions' \in [1..Slots[current] -> Records]
             /\ \A i \in 1..Slots[current] :
                  sessions'[i] = IF i \in DOMAIN sessions THEN sessions[i] ELSE Free
    <2>1. Slots[c] \in Nat /\ Slots[current] \in Nat /\ Slots[c] <= Slots[current]
      <3>1. c \in 1..MaxCfg /\ current \in 1..MaxCfg /\ c <= current
        BY ReopenTable, AmigaAssumption DEF TableOK
      <3> QED
        BY <3>1, AmigaAssumption DEF Growing
    <2>2. DOMAIN sessions = 1..Slots[c] /\ DOMAIN sessions' = 1..Slots[current]
          /\ DOMAIN sessions \subseteq DOMAIN sessions'
      BY <1>1, <1>4, <2>1
    <2>3. \A i \in DOMAIN sessions : sessions'[i] = sessions[i]
      BY <1>4, <2>2
    <2>4. \A i \in DOMAIN sessions' : i \notin DOMAIN sessions => sessions'[i].phase = "FREE"
      BY <1>4, <2>2, FreeRecord
    <2>5. Active' = Active
      BY <2>2, <2>3, <2>4 DEF Active
    <2>6. \A i \in Active : sessions'[i] = sessions[i]
      BY <2>3 DEF Active
    <2> QED
      BY <1>2, <2>5, <2>6, SameCounts DEF Clients, Servers
  <1> QED
    BY <1>3, <1>4, ReopenTable

LEMMA SelectCounts ==
  ASSUME TableOK, CountsExact, select
  PROVE  CountsExact'
  <1>1. \A i \in DOMAIN sessions : sessions'[i].phase = sessions[i].phase
                                     /\ sessions'[i].inbound = sessions[i].inbound
    BY SelectTable, AgesRecord, TableSize
  <1>2. Clients' = Clients /\ Servers' = Servers
    BY <1>1, SelectTable DEF Clients, Servers, Active
  <1> QED
    BY <1>2, SelectTable, SameCounts

LEMMA CleanupCounts ==
  ASSUME TableOK, CountsExact, CleanupSessions
  PROVE  CountsExact'
  <1>1. Clients' = {} /\ Servers' = {}
    BY CleanupTable, FreeRecord DEF Clients, Servers, Active
  <1>2. Cardinality(Clients') = 0 /\ Cardinality(Servers') = 0
    BY <1>1, FS_EmptySet
  <1>3. n_clients' = 0 /\ n_servers' = 0
    BY DEF CleanupSessions, CountsExact, TableOK
  <1> QED
    BY <1>2, <1>3, AmigaAssumption DEF CountsExact, Clients, Servers

LEMMA NextCounts ==
  ASSUME Growing, TableOK, CountsExact, [Next]_vars
  PROVE  CountsExact'
  <1>1. CASE UNCHANGED table
    BY <1>1, SameCounts DEF table, Clients, Servers, Active
  <1>2. CASE \E i, r : Fills(i, r)
    BY <1>2, FillCounts
  <1>3. CASE Reload \/ evloop_cleanup \/ MainReturns
    BY <1>1, <1>3 DEF Reload, evloop_cleanup, MainReturns
  <1>4. CASE UNCHANGED vars
    BY <1>1, <1>4 DEF vars
  <1> QED
    BY <1>1, <1>2, <1>3, <1>4, Effects, SelectCounts, CleanupCounts, ReopenCounts

(* The counters that the limits and the end of the program depend on are   *)
(* the numbers of slots in use, and the limits hold but for the one server *)
(* too many, whatever order sessions begin, time out, fail and end in, for *)
(* a table that a reload does not make smaller (sess_free and its callers, *)
(* cleanup_sessions, handle_config_reload).                                *)
THEOREM CountersExact ==
  ASSUME Growing
  PROVE  Spec => []CountsExact
  <1>1. Init => CountsExact
    <2> SUFFICES ASSUME Init PROVE CountsExact
      OBVIOUS
    <2>1. Clients = {} /\ Servers = {}
      BY FreeRecord DEF Init, Clients, Servers, Active
    <2>2. Cardinality(Clients) = 0 /\ Cardinality(Servers) = 0
      BY <2>1, FS_EmptySet
    <2> QED
      BY <2>2, AmigaAssumption DEF Init, CountsExact, Clients, Servers
  <1>2. TableOK /\ CountsExact /\ [Next]_vars => CountsExact'
    BY NextCounts
  <1> QED
    BY <1>1, <1>2, TableAlways, PTL DEF Spec

-----------------------------------------------------------------------------
(* The configurations. *)
Late == {"close", "main", "exit", "done"}
Over == {"exit", "done"}

(* Where the loop is on its way out changes with evloop_cleanup and with   *)
(* the return of main only.                                                *)
LEMMA Stages ==
  ASSUME TableOK, Next, ~evloop_cleanup, ~MainReturns
  PROVE  /\ pc \in Over <=> pc' \in Over
         /\ pc # "start" => (pc \in Late <=> pc' \in Late)
         /\ pc = "start" => pc' \notin Late \ {"main"}
         /\ pc' = "start" => pc = "start"
         /\ pc' \in {"start", "main", "exit", "done"} =>
              pc \in {"start", "exit", "done"} \/ CleanupSessions
         /\ pc \in {"exit", "done"} => UNCHANGED table
         /\ pc = "start" /\ pc' \in {"start", "main"} => UNCHANGED table
  <1> USE DEF Late, Over, table
  <1>1. CASE Start \/ Rescan \/ select \/ CleanupSessions \/ do_accept \/ check_connect
    BY <1>1 DEF Start, Rescan, select, CleanupSessions, do_accept, check_connect, Stepping,
                ToSessions, NoOutbound
  <1>2. CASE amiga_proto_step \/ NetTimesOut \/ ProtoStepFails
    BY <1>2 DEF amiga_proto_step, NetTimesOut, ProtoStepFails, Stepping
  <1>3. CASE NoAccept \/ AcceptFails \/ StepsBegin \/ StepsDone \/ checkcfg \/ Idle \/ SeesExit
    BY <1>3 DEF NoAccept, AcceptFails, StepsBegin, StepsDone, ToSessions, checkcfg, Idle, SeesExit
  <1>4. CASE exitfunc \/ SelectFails \/ Reload \/ handle_config_reload
    BY <1>4 DEF exitfunc, SelectFails, Reload, handle_config_reload
  <1>5. CASE Break \/ (\E f \in {"main", "incl"} : Edit(f)) \/ Done
    BY <1>5 DEF Break, Edit, loop, Done, vars
  <1> QED
    BY <1>1, <1>2, <1>3, <1>4, <1>5 DEF Next, Loop

LEMMA SameHolds ==
  ASSUME TableOK, UsageOK, UNCHANGED cfg, pc \in Over <=> pc' \in Over,
         (pc \in Late <=> pc' \in Late) \/ config = 1
  PROVE  \A c \in 1..MaxCfg : usage'[c] = Holds(c)'
  <1> SUFFICES ASSUME NEW c \in 1..MaxCfg PROVE usage'[c] = Holds(c)'
    OBVIOUS
  <1>1. usage'[c] = Holds(c)
    BY DEF UsageOK, cfg
  <1>2. c \in Int /\ config \in Int
    BY AmigaAssumption DEF TableOK
  <1> QED
    BY <1>1, <1>2 DEF Holds, Late, Over, cfg, One


(* The sessions in use keep the configuration they were started with. *)
LEMMA FixedUsage ==
  ASSUME TableOK, UsageOK, Next, Fixed, ~evloop_cleanup, ~MainReturns,
         UNCHANGED table \/ (\E i, r : Fills(i, r)) \/ select \/ CleanupSessions
  PROVE  UsageOK'
  <1>1. /\ pc \in Over <=> pc' \in Over
        /\ pc # "start" => (pc \in Late <=> pc' \in Late)
        /\ pc = "start" => config = 1
    BY Stages DEF UsageOK
  <1>2. UNCHANGED cfg
    BY DEF Fixed
  <1>3. \A c \in 1..MaxCfg : usage'[c] = Holds(c)'
    BY <1>1, <1>2, SameHolds
  <1>4. config_locked' = (config' > 1) /\ usage' \in [1..MaxCfg -> Int]
    BY <1>2 DEF UsageOK, cfg
  <1>5. pc' = "start" => config' = 1
    BY <1>1, <1>2, Stages DEF cfg
  <1>6. \A i \in Active' : sessions'[i].cfg \in 1..config'
    <2> SUFFICES ASSUME NEW i \in Active' PROVE sessions'[i].cfg \in 1..config
      BY <1>2 DEF cfg
    <2>1. config \in 1..config
      BY AmigaAssumption DEF TableOK
    <2>2. \A j \in DOMAIN sessions : sessions[j].phase # "FREE" => sessions[j].cfg \in 1..config
      BY DEF UsageOK, Active
    <2>3. CASE UNCHANGED table
      BY <2>2, <2>3 DEF table, Active
    <2>4. CASE \E k, r : Fills(k, r)
      <3>1. PICK k, r : Fills(k, r)
        BY <2>4
      <3>2. i \in DOMAIN sessions /\ sessions'[i].phase # "FREE"
        BY <3>1, FillTable DEF Active
      <3>3. CASE i = k
        BY <2>1, <2>2, <3>1, <3>2, <3>3, FillTable DEF Fills
      <3>4. CASE i # k
        BY <2>2, <3>1, <3>2, <3>4, FillTable
      <3> QED
        BY <3>3, <3>4
    <2>5. CASE select
      <3>1. i \in DOMAIN sessions /\ sessions'[i].phase # "FREE"
        BY <2>5, SelectTable DEF Active
      <3>2. sessions'[i].phase = sessions[i].phase /\ sessions'[i].cfg = sessions[i].cfg
        BY <2>5, <3>1, SelectTable, AgesRecord, TableSize
      <3> QED
        BY <2>2, <3>1, <3>2
    <2>6. CASE CleanupSessions
      BY <2>6, CleanupTable, FreeRecord DEF Active
    <2> QED
      BY <2>3, <2>4, <2>5, <2>6
  <1>7. ASSUME pc' \in {"start", "main", "exit", "done"} PROVE Active' = {}
    <2>1. CASE CleanupSessions
      BY <2>1, CleanupTable, FreeRecord DEF Active
    <2>2. CASE ~CleanupSessions
      <3>1. pc \in {"start", "exit", "done"} /\ UNCHANGED table
        BY <1>7, <2>2, Stages DEF Late
      <3>2. Active = {}
        BY <3>1 DEF UsageOK
      <3> QED
        BY <3>1, <3>2 DEF Active, table
    <2> QED
      BY <2>1, <2>2
  <1> QED
    BY <1>3, <1>4, <1>5, <1>6, <1>7 DEF UsageOK

LEMMA RereadUsage ==
  ASSUME TableOK, UsageOK, Reload
  PROVE  UsageOK'
  <1>1. pc = "check" /\ UNCHANGED <<table, config, config_locked>>
    BY DEF Reload
  <1>2. current = config /\ current \in 1..MaxCfg /\ MaxCfg \in Nat
    BY <1>1, AmigaAssumption DEF TableOK
  <1>3. (\A i \in Active' : sessions'[i].cfg \in 1..config') /\ config_locked' = (config' > 1)
    BY <1>1 DEF UsageOK, table, Active
  <1>4. CASE pc' = "idle" /\ UNCHANGED <<current, usage>>
    <2>1. UNCHANGED cfg
      BY <1>1, <1>4 DEF cfg
    <2>2. \A c \in 1..MaxCfg : usage'[c] = Holds(c)'
      BY <1>1, <1>4, <2>1, SameHolds DEF Late, Over
    <2> QED
      BY <1>3, <1>4, <2>2 DEF UsageOK
  <1>5. CASE pc' = "reopen" /\ Reread
    <2>1. current < MaxCfg /\ current' = current + 1
          /\ usage' = [usage EXCEPT ![current] = @ - 1, ![current + 1] = 1]
      BY <1>5 DEF Reread
    <2>2. current + 1 \in 1..MaxCfg /\ current # current + 1 /\ current \in Nat
      BY <1>2, <2>1
    <2>3. usage' \in [1..MaxCfg -> Int] /\ usage'[current] = usage[current] - 1
          /\ usage'[current + 1] = 1
          /\ \A c \in 1..MaxCfg : c # current /\ c # current + 1 => usage'[c] = usage[c]
      <3> DEFINE n == current + 1
      <3>1. n \in 1..MaxCfg /\ n # current
        BY <2>2
      <3>2. usage' = [usage EXCEPT ![current] = @ - 1, ![n] = 1] /\ usage \in [1..MaxCfg -> Int]
        BY <2>1 DEF UsageOK
      <3> HIDE DEF n
      <3>3. usage' \in [1..MaxCfg -> Int] /\ usage'[current] = usage[current] - 1
            /\ usage'[n] = 1
            /\ \A c \in 1..MaxCfg : c # current /\ c # n => usage'[c] = usage[c]
        BY <1>2, <3>1, <3>2
      <3> QED
        BY <3>3 DEF n
    <2>4. ASSUME NEW c \in 1..MaxCfg PROVE usage'[c] = Holds(c)'
      <3>1. usage[c] = Holds(c) /\ c \in Nat
        BY DEF UsageOK
      <3>2. CASE c = current
        BY <1>1, <1>2, <1>5, <2>1, <2>2, <2>3, <3>1, <3>2 DEF Holds, One
      <3>3. CASE c = current + 1
        BY <1>1, <1>2, <1>5, <2>1, <2>2, <2>3, <3>1, <3>3 DEF Holds, One
      <3>4. CASE c # current /\ c # current + 1
        BY <1>1, <1>2, <1>5, <2>1, <2>2, <2>3, <3>1, <3>4 DEF Holds, One
      <3> QED
        BY <3>2, <3>3, <3>4
    <2> QED
      BY <1>3, <1>5, <2>3, <2>4 DEF UsageOK
  <1> QED
    BY <1>4, <1>5 DEF Reload

LEMMA ReopenUsage ==
  ASSUME "relisten" \notin Faults, TableOK, UsageOK, handle_config_reload
  PROVE  UsageOK'
  <1>1. /\ pc = "reopen" /\ pc' = "idle" /\ config_locked' = TRUE
        /\ usage' = [usage EXCEPT ![current] = @ + 1]
    BY DEF handle_config_reload
  <1>2. /\ config' = current /\ current' = current /\ current = config + 1
        /\ current \in 1..MaxCfg /\ config \in 1..MaxCfg /\ MaxCfg \in Nat
    BY <1>1, ReopenTable, AmigaAssumption DEF TableOK
  <1>3. usage' \in [1..MaxCfg -> Int] /\ usage'[current] = usage[current] + 1
        /\ \A c \in 1..MaxCfg : c # current => usage'[c] = usage[c]
    BY <1>1, <1>2 DEF UsageOK
  <1>4. ASSUME NEW c \in 1..MaxCfg PROVE usage'[c] = Holds(c)'
    <2>1. usage[c] = Holds(c) /\ c \in Nat /\ config \in Nat
      BY <1>2 DEF UsageOK
    <2>2. CASE c = current
      BY <1>1, <1>2, <1>3, <2>1, <2>2 DEF Holds, One
    <2>3. CASE c # current
      BY <1>1, <1>2, <1>3, <2>1, <2>3 DEF Holds, One
    <2> QED
      BY <2>2, <2>3
  <1>5. ASSUME NEW i \in Active' PROVE sessions'[i].cfg \in 1..config'
    <2>1. i \in Active /\ sessions'[i] = sessions[i]
      BY ReopenTable, FreeRecord DEF Active
    <2>2. sessions[i].cfg \in 1..config
      BY <2>1 DEF UsageOK
    <2> QED
      BY <1>2, <2>1, <2>2
  <1>6. config_locked' = (config' > 1)
    <2>1. config' > 1 /\ (config' > 1) \in BOOLEAN
      BY <1>2
    <2>2. (config' > 1) = TRUE
      BY <2>1, Zenon
    <2> QED
      BY <1>1, <2>2
  <1> QED
    BY <1>1, <1>3, <1>4, <1>5, <1>6 DEF UsageOK

LEMMA ReleaseUsage ==
  ASSUME TableOK, UsageOK, evloop_cleanup \/ MainReturns
  PROVE  UsageOK'
  <1>1. UNCHANGED <<table, config, config_locked, current>>
    BY DEF evloop_cleanup, MainReturns
  <1>2. /\ config \in 1..MaxCfg /\ current = config /\ MaxCfg \in Nat /\ 1 \in 1..MaxCfg
        /\ usage \in [1..MaxCfg -> Int] /\ config_locked = (config > 1)
    BY AmigaAssumption DEF TableOK, UsageOK, evloop_cleanup, MainReturns
  <1>3. /\ \A i \in Active' : sessions'[i].cfg \in 1..config'
        /\ config_locked' = (config' > 1)
        /\ Active' = Active
    BY <1>1, <1>2 DEF UsageOK, table, Active
  <1>4. CASE evloop_cleanup
    <2>1. pc = "cleanup" /\ pc' = "close"
          /\ usage' = IF config > 1 THEN [usage EXCEPT ![config] = @ - 1] ELSE usage
      BY <1>2, <1>4 DEF evloop_cleanup
    <2>2. usage' \in [1..MaxCfg -> Int]
          /\ \A c \in 1..MaxCfg : usage'[c] = usage[c] - One(c = config /\ config > 1)
      BY <1>2, <2>1 DEF One
    <2>3. ASSUME NEW c \in 1..MaxCfg PROVE usage'[c] = Holds(c)'
      <3>1. usage[c] = Holds(c) /\ c \in Nat /\ config \in Nat
        BY <1>2 DEF UsageOK
      <3> QED
        BY <1>1, <1>2, <2>1, <2>2, <3>1 DEF Holds, One
    <2> QED
      BY <1>3, <2>1, <2>2, <2>3 DEF UsageOK
  <1>5. CASE MainReturns
    <2>1. pc = "main" /\ pc' = "exit" /\ usage' = [usage EXCEPT ![1] = @ - 1]
      BY <1>5 DEF MainReturns
    <2>2. usage' \in [1..MaxCfg -> Int]
          /\ \A c \in 1..MaxCfg : usage'[c] = usage[c] - One(c = 1)
      BY <1>2, <2>1 DEF One
    <2>3. ASSUME NEW c \in 1..MaxCfg PROVE usage'[c] = Holds(c)'
      <3>1. usage[c] = Holds(c) /\ c \in Nat /\ config \in Nat
        BY <1>2 DEF UsageOK
      <3> QED
        BY <1>1, <1>2, <2>1, <2>2, <3>1 DEF Holds, One
    <2>4. Active = {}
      BY <2>1 DEF UsageOK
    <2> QED
      BY <1>3, <2>1, <2>2, <2>3, <2>4 DEF UsageOK
  <1> QED
    BY <1>4, <1>5

LEMMA InitUsage == Init => UsageOK
  <1> SUFFICES ASSUME Init PROVE UsageOK
    OBVIOUS
  <1>1. config = 1 /\ current = 1 /\ pc = "start" /\ config_locked = FALSE /\ MaxCfg \in Nat
        /\ usage = [c \in 1..MaxCfg |-> IF c = 1 THEN 2 ELSE 0]
    BY AmigaAssumption DEF Init
  <1>2. Active = {}
    BY FreeRecord DEF Init, Active
  <1>3. \A c \in 1..MaxCfg : usage[c] = Holds(c)
    BY <1>1 DEF Holds, One
  <1>4. usage \in [1..MaxCfg -> Int]
    BY <1>1
  <1>5. config_locked = (config > 1)
    <2>1. ~(config > 1) /\ (config > 1) \in BOOLEAN
      BY <1>1
    <2>2. (config > 1) = FALSE
      BY <2>1, Zenon
    <2> QED
      BY <1>1, <2>2
  <1> QED
    BY <1>1, <1>2, <1>3, <1>4, <1>5 DEF UsageOK

LEMMA NextUsage ==
  ASSUME "relisten" \notin Faults, TableOK, UsageOK, [Next]_vars
  PROVE  UsageOK'
  <1>1. CASE UNCHANGED vars
    BY <1>1 DEF vars, loop, table, cfg, UsageOK, Active, Holds
  <1>2. CASE Next
    BY <1>2, Effects, FixedUsage, RereadUsage, ReopenUsage, ReleaseUsage
  <1> QED
    BY <1>1, <1>2

LEMMA UsageLive == TableOK /\ UsageOK => ConfigsLive
  <1> SUFFICES ASSUME TableOK, UsageOK PROVE ConfigsLive
    OBVIOUS
  <1>1. config \in 1..MaxCfg /\ current \in 1..MaxCfg /\ MaxCfg \in Nat
        /\ current = IF pc = "reopen" THEN config + 1 ELSE config
    BY AmigaAssumption DEF TableOK
  <1>2. \A c \in 1..MaxCfg : usage[c] = Holds(c)
    BY DEF UsageOK
  <1>3. usage[current] > 0
    BY <1>1, <1>2 DEF Holds, One
  <1>4. ASSUME NEW c \in 1..config, pc \notin {"main", "exit", "done"} PROVE usage[c] > 0
    <2>1. c \in 1..MaxCfg /\ c \in Nat
      BY <1>1
    <2> QED
      BY <1>1, <1>2, <1>4, <2>1 DEF Holds, One
  <1>5. config \in 1..config
    BY <1>1
  <1>6. \A i \in Active : usage[sessions[i].cfg] > 0
    BY <1>4 DEF UsageOK
  <1> QED
    BY <1>3, <1>4, <1>5, <1>6 DEF ConfigsLive

(* No configuration is freed that the loop, a session or the end of the    *)
(* program still uses, however often the files change and whatever         *)
(* sessions are under way, provided the listen sockets can be opened again *)
(* after a reload (checkcfg, handle_config_reload, evloop_cleanup, main,   *)
(* exitfunc).                                                              *)
THEOREM ConfigsKept ==
  ASSUME "relisten" \notin Faults
  PROVE  Spec => []ConfigsLive
  <1>1. TableOK /\ UsageOK /\ [Next]_vars => UsageOK'
    BY NextUsage
  <1>2. Spec => [](TableOK /\ UsageOK)
    BY <1>1, InitUsage, TableAlways, PTL DEF Spec
  <1> QED
    BY <1>2, UsageLive, PTL

-----------------------------------------------------------------------------
(* The M_EOB that is put off. *)

(* nettimeout is more than the least time an M_EOB is put off for, and     *)
(* more than one turn of the clock.                                        *)
Patient == 1 < NetTimeout /\ EobMin < NetTimeout

(* The conjuncts of EobOK for one session. *)
SlotOK(s, rested) ==
  /\ s.phase # "RUNNING" => Begins(s)
  /\ Clocked(s)
  /\ rested /\ Owing(s) => s.idle = 0 \/ s.age < MaxWait

LEMMA WaitNat == MaxWait \in Nat /\ (Patient => MaxWait < NetTimeout)
  <1>1. NetTimeout \div 2 \in Nat /\ (1 < NetTimeout => NetTimeout \div 2 < NetTimeout)
    BY AmigaAssumption
  <1> QED
    BY <1>1, AmigaAssumption DEF MaxWait, Min, Patient

LEMMA BeginsOK ==
  ASSUME NEW s \in Records, Begins(s)
  PROVE  SlotOK(s, TRUE) /\ SlotOK(s, FALSE)
  BY WaitNat DEF SlotOK, Begins, Clocked, Owing, Records

(* Slots that have not changed and have had no more rest than before. *)
LEMMA EobStays ==
  ASSUME TableOK, EobOK, ~silent', at' \in Nat, DOMAIN sessions' = DOMAIN sessions,
         \A j \in DOMAIN sessions :
           \/ SlotOK(sessions'[j], Rested(j)')
           \/ sessions'[j] = sessions[j] /\ (Rested(j)' => Rested(j) \/ Begins(sessions[j]))
  PROVE  EobOK'
  <1> SUFFICES ASSUME NEW j \in DOMAIN sessions
               PROVE  SlotOK(sessions'[j], Rested(j)')
    BY DEF EobOK, SlotOK
  <1>1. SlotOK(sessions[j], Rested(j)) /\ sessions[j] \in Records
    BY TableSize DEF EobOK, SlotOK
  <1>2. ASSUME Begins(sessions[j]) PROVE SlotOK(sessions[j], Rested(j)')
    BY <1>1, <1>2 DEF SlotOK, Begins, Owing
  <1> QED
    BY <1>1, <1>2 DEF SlotOK

(* A session begins, or the table stays, and no slot is further on. *)
LEMMA BeginEob ==
  ASSUME TableOK, EobOK, UNCHANGED silent, at' \in Nat,
         \A j \in DOMAIN sessions : Rested(j)' => Rested(j) \/ Begins(sessions[j]),
         UNCHANGED table \/ \E i, r : Fills(i, r) /\ Begins(r)
  PROVE  EobOK'
  <1>1. ~silent'
    BY DEF EobOK
  <1>2. CASE UNCHANGED table
    BY <1>1, <1>2, EobStays DEF table
  <1>3. CASE \E i, r : Fills(i, r) /\ Begins(r)
    <2>1. PICK i, r : Fills(i, r) /\ Begins(r)
      BY <1>3
    <2>2. r \in Records
      BY <2>1 DEF Fills
    <2>3. SlotOK(r, Rested(i)')
      BY <2>1, <2>2, BeginsOK DEF SlotOK
    <2>4. \A j \in DOMAIN sessions : j # i => sessions'[j] = sessions[j]
      BY <2>1, FillTable
    <2>5. DOMAIN sessions' = DOMAIN sessions /\ sessions'[i] = r
      BY <2>1, FillTable
    <2> QED
      BY <1>1, <2>3, <2>4, <2>5, EobStays
  <1> QED
    BY <1>2, <1>3

(* The slot at which the loop is has had its step. *)
LEMMA SlotDone ==
  ASSUME TableOK, EobOK, ~silent', pc = "step", pc' = "step", at \in DOMAIN sessions,
         at' = After(at), DOMAIN sessions' = DOMAIN sessions,
         SlotOK(sessions'[at], TRUE),
         \A j \in DOMAIN sessions : j # at => sessions'[j] = sessions[j]
  PROVE  EobOK'
  <1>1. at \in Nat /\ at' \in Nat /\ \A j \in Active : j < at' => j <= at
    BY NextSlot DEF EobOK
  <1>2. ASSUME NEW j \in DOMAIN sessions, j = at PROVE SlotOK(sessions'[j], Rested(j)')
    BY <1>2 DEF SlotOK
  <1>3. ASSUME NEW j \in DOMAIN sessions, j # at, Rested(j)' PROVE Rested(j) \/ Begins(sessions[j])
    <2>1. j \in Nat /\ j < at'
      BY <1>3, TableSize DEF Rested
    <2>2. CASE j \in Active
      <3>1. j <= at
        BY <1>1, <2>1, <2>2
      <3>2. j < at
        BY <1>1, <1>3, <2>1, <3>1
      <3> QED
        BY <3>2 DEF Rested
    <2>3. CASE j \notin Active
      BY <2>3 DEF Active, EobOK
    <2> QED
      BY <2>2, <2>3
  <1> QED
    BY <1>1, <1>2, <1>3, EobStays

LEMMA StepEob ==
  ASSUME TableOK, EobOK, Patient,
         check_connect \/ NetTimesOut \/ amiga_proto_step \/ ProtoStepFails
  PROVE  EobOK'
  <1> DEFINE o == sessions[at]
  <1>1. /\ pc = "step" /\ pc' = "step" /\ at \in DOMAIN sessions /\ at' = After(at)
        /\ o \in Records
    BY TableSize DEF check_connect, NetTimesOut, amiga_proto_step, ProtoStepFails, Stepping
  <1>2. Begins(Free) /\ Free \in Records
    BY FreeRecord DEF Begins
  <1>3. SlotOK(Free, TRUE)
    BY <1>2, BeginsOK
  <1>4. ASSUME Fills(at, Free), ~silent' PROVE EobOK'
    BY <1>1, <1>3, <1>4, FillTable, SlotDone
  <1>5. CASE check_connect
    <2>1. ~silent' /\ o.phase = "CONNECTING"
      BY <1>5 DEF check_connect, EobOK, Stepping
    <2>2. Begins(o)
      BY <1>1, <2>1 DEF EobOK
    <2>3. CASE UNCHANGED table
      <3>1. SlotOK(o, TRUE)
        BY <1>1, <2>2, BeginsOK
      <3> QED
        BY <1>1, <2>1, <2>3, <3>1, SlotDone DEF table
    <2>4. CASE \E r : Fills(at, r) /\ r.idle = o.idle /\ r.age = o.age /\ r.up = o.up
      <3>1. PICK r : Fills(at, r) /\ r.idle = o.idle /\ r.age = o.age /\ r.up = o.up
        BY <2>4
      <3>2. r \in Records /\ Begins(r)
        BY <2>2, <3>1 DEF Fills, Begins
      <3>3. SlotOK(r, TRUE)
        BY <3>2, BeginsOK
      <3> QED
        BY <1>1, <2>1, <3>1, <3>3, FillTable, SlotDone
    <2> QED
      BY <1>4, <1>5, <2>1, <2>3, <2>4, ConnectFills
  <1>6. CASE NetTimesOut
    <2>1. o.idle >= NetTimeout /\ (silent' => silent \/ Owing(o))
      BY <1>6 DEF NetTimesOut, amiga_proto_close, Owing
    <2>2. ~Owing(o)
      <3>1. Clocked(o) /\ o.idle \in Nat /\ NetTimeout \in Nat
        BY <1>1, AmigaAssumption DEF EobOK, Records
      <3> QED
        BY <2>1, <3>1, WaitNat DEF Clocked, Patient
    <2>3. ~silent'
      BY <2>1, <2>2 DEF EobOK
    <2> QED
      BY <1>4, <1>6, <2>3, EndFills
  <1>7. CASE ProtoStepFails
    BY <1>4, <1>7, EndFills DEF ProtoStepFails, EobOK
  <1>8. CASE amiga_proto_step
    <2>1. PICK r \in {o} \cup Heard(o) :
            \/ Fills(at, NextBatch(Stepped(o, r))) /\ (~silent => ~silent')
            \/ Fills(at, Free) /\ (~silent => ~silent')
      BY <1>8, ProtoFills
    <2>2. ~silent'
      BY <2>1 DEF EobOK
    <2>3. CASE Fills(at, NextBatch(Stepped(o, r)))
      <3>1. PICK t : t = NextBatch(Stepped(o, r))
        OBVIOUS
      <3>2. Clocked(o) /\ o.phase = "RUNNING"
        BY <1>1, <1>8 DEF EobOK, amiga_proto_step, Stepping
      <3>3. Clocked(t) /\ (Owing(t) => t.idle = 0 \/ t.age < MaxWait)
        BY <1>1, <3>1, <3>2, StepRests
      <3>4. t.phase = "RUNNING"
        BY <1>1, <3>1, <3>2, SteppedRecord, NextBatchRecord
      <3>5. SlotOK(t, TRUE)
        BY <3>3, <3>4 DEF SlotOK
      <3>6. Fills(at, t)
        BY <2>3, <3>1
      <3> QED
        BY <1>1, <2>2, <3>5, <3>6, FillTable, SlotDone
    <2> QED
      BY <1>4, <2>1, <2>2, <2>3
  <1> QED
    BY <1>5, <1>6, <1>7, <1>8


(* Time passes: a session that owes an M_EOB was silent for a moment only, *)
(* or is young.                                                            *)
LEMMA SelectEob ==
  ASSUME TableOK, EobOK, select
  PROVE  EobOK'
  <1>1. pc = "select" /\ pc' = "accept" /\ ~silent' /\ at' \in Nat
    BY DEF select, EobOK
  <1>2. ASSUME NEW j \in DOMAIN sessions PROVE SlotOK(sessions'[j], Rested(j)')
    <2>1. PICK s \in Records : s = sessions[j]
      BY TableSize
    <2>2. PICK t : t = sessions'[j] /\ t \in {s, Ages(s)}
      BY <2>1, SelectTable
    <2>3. /\ SlotOK(s, TRUE)
      BY <1>1, <2>1 DEF EobOK, SlotOK, Rested
    <2>4. ~Rested(j)'
      BY <1>1 DEF Rested
    <2>5. CASE t = s
      BY <2>2, <2>3, <2>4, <2>5 DEF SlotOK
    <2>6. CASE t = Ages(s) /\ t # s
      <3>1. /\ t \in Records /\ t.phase = s.phase /\ t.up = s.up /\ Pending(t) = Pending(s)
            /\ t.lEOB = s.lEOB /\ t.rEOB = s.rEOB
            /\ \/ t.age = s.age /\ t.idle = s.idle
               \/ t.age = Min(s.age + 1, MaxWait) /\ t.idle = Min(s.idle + 1, NetTimeout)
        BY <2>6, AgesRecord
      <3>2. s.phase = "RUNNING"
        BY <2>6 DEF Ages
      <3>3. s.age \in Nat /\ s.idle \in Nat /\ MaxWait \in Nat /\ NetTimeout \in Nat
        BY WaitNat, AmigaAssumption DEF Records
      <3>4. t.age < MaxWait => t.idle <= t.age
        BY <2>3, <3>1, <3>3 DEF SlotOK, Clocked, Min
      <3>5. t.up /\ ~Pending(t) => ~t.rEOB
        BY <2>3, <3>1 DEF SlotOK, Clocked
      <3>6. ASSUME Owing(t) PROVE t.idle <= 1 \/ t.idle <= MaxWait
        <4>1. Owing(s)
          BY <3>1, <3>6 DEF Owing
        <4>2. s.idle = 0 \/ (s.age < MaxWait /\ s.idle <= s.age)
          BY <2>3, <4>1 DEF SlotOK, Clocked
        <4> QED
          BY <3>1, <3>3, <4>2 DEF Min
      <3> QED
        BY <2>2, <2>4, <3>1, <3>2, <3>4, <3>5, <3>6 DEF SlotOK, Clocked
    <2> QED
      BY <2>2, <2>5, <2>6
  <1>3. DOMAIN sessions' = DOMAIN sessions
    BY SelectTable
  <1> QED
    BY <1>1, <1>2, <1>3, EobStays

LEMMA ReopenEob ==
  ASSUME TableOK, EobOK, handle_config_reload
  PROVE  EobOK'
  <1>1. pc = "reopen" /\ ~silent' /\ at' \in Nat
    BY DEF handle_config_reload, EobOK
  <1>2. ASSUME NEW j \in DOMAIN sessions' PROVE SlotOK(sessions'[j], TRUE)
    <2>1. \A i \in DOMAIN sessions : SlotOK(sessions[i], TRUE)
      BY <1>1 DEF EobOK, SlotOK, Rested
    <2>2. SlotOK(Free, TRUE)
      BY FreeRecord, BeginsOK DEF Begins
    <2> QED
      BY <2>1, <2>2, ReopenTable
  <1> QED
    BY <1>1, <1>2 DEF EobOK, SlotOK

LEMMA NextEob ==
  ASSUME TableOK, EobOK, Patient, [Next]_vars
  PROVE  EobOK'
  <1>0. at \in Nat /\ \A j \in DOMAIN sessions : j \in Nat /\ j < Size + 1 /\ ~(j < 0)
    BY TableSize DEF EobOK
  <1>1. CASE Start \/ Rescan
    <2>1. try_outbound /\ UNCHANGED <<silent, at>> /\ pc \in {"start", "rescan"}
      BY <1>1 DEF Start, Rescan, try_outbound
    <2> QED
      BY <1>0, <2>1, TryOutbound, BeginEob DEF Rested
  <1>2. CASE do_accept \/ NoAccept \/ AcceptFails
    <2>1. pc' = "step" /\ at' = 0 /\ UNCHANGED silent
      BY <1>2 DEF do_accept, NoAccept, AcceptFails, ToSessions
    <2>2. UNCHANGED table \/ \E i, r : Fills(i, r) /\ Begins(r)
      BY <1>2, AcceptFills DEF NoAccept, AcceptFails
    <2>3. \A j \in DOMAIN sessions : ~Rested(j)'
      BY <1>0, <2>1 DEF Rested
    <2> QED
      BY <2>1, <2>2, <2>3, BeginEob
  <1>3. CASE StepsBegin
    <2>1. pc = "step" /\ pc' = "step" /\ at = 0 /\ at' = After(0) /\ UNCHANGED <<table, silent>>
      BY <1>3 DEF StepsBegin
    <2>2. at' \in Nat /\ \A j \in Active : j < at' => j <= 0
      BY <2>1, NextSlot
    <2>3. \A j \in DOMAIN sessions : j < at' => j \notin Active
      BY <2>2, TableSize
    <2>4. \A j \in DOMAIN sessions : Rested(j)' => Begins(sessions[j])
      BY <2>1, <2>3 DEF Rested, Active, EobOK
    <2> QED
      BY <2>1, <2>2, <2>4, BeginEob
  <1>4. CASE StepsDone
    <2>1. /\ pc = "step" /\ at' = 0 /\ UNCHANGED <<table, silent>>
          /\ pc' = "cleanup" \/ (pc' = "rescan" /\ at = Size + 1)
      BY <1>4 DEF StepsDone
    <2>2. \A j \in DOMAIN sessions : Rested(j)' => Rested(j)
      BY <1>0, <2>1 DEF Rested
    <2> QED
      BY <2>1, <2>2, BeginEob
  <1>5. CASE checkcfg \/ Reload \/ Idle \/ SeesExit \/ SelectFails \/ evloop_cleanup \/ MainReturns \/ exitfunc
    <2>1. /\ UNCHANGED <<table, silent, at>>
          /\ pc \in {"check", "idle", "select"} \/ pc' \in {"cleanup", "close", "exit", "done"}
      BY <1>5 DEF checkcfg, Reload, Idle, SeesExit, SelectFails, evloop_cleanup, MainReturns, exitfunc
    <2>2. \A j \in DOMAIN sessions : Rested(j)' => Rested(j)
      BY <2>1 DEF Rested
    <2> QED
      BY <1>0, <2>1, <2>2, BeginEob
  <1>6. CASE CleanupSessions
    <2>1. UNCHANGED <<silent, at>>
      BY <1>6 DEF CleanupSessions
    <2>2. SlotOK(Free, TRUE) /\ SlotOK(Free, FALSE)
      BY FreeRecord, BeginsOK DEF Begins
    <2>3. \A j \in DOMAIN sessions : SlotOK(sessions'[j], Rested(j)')
      BY <1>6, <2>2, CleanupTable DEF SlotOK
    <2> QED
      BY <1>0, <1>6, <2>1, <2>3, CleanupTable, EobStays DEF EobOK
  <1>7. CASE Break \/ (\E f \in {"main", "incl"} : Edit(f)) \/ Done \/ UNCHANGED vars
    <2>1. UNCHANGED <<table, silent, at, pc>>
      BY <1>7 DEF Break, Edit, loop, Done, vars
    <2>2. \A j \in DOMAIN sessions : Rested(j)' => Rested(j)
      BY <2>1 DEF Rested
    <2> QED
      BY <1>0, <2>1, <2>2, BeginEob
  <1> QED
    BY <1>1, <1>2, <1>3, <1>4, <1>5, <1>6, <1>7, SelectEob, StepEob, ReopenEob DEF Next, Loop

(* Putting the M_EOB off never costs a session: one that has nothing left  *)
(* to send or to receive says so before it can be dropped for silence,     *)
(* whatever arrives when and however many sessions share the loop, when    *)
(* nettimeout is more than the least time of the delay (amiga_proto_step,  *)
(* do_session_step).                                                       *)
THEOREM EobInTime ==
  ASSUME Patient
  PROVE  Spec => []EobBeforeTimeout
  <1>1. Init => EobOK
    <2> SUFFICES ASSUME Init PROVE EobOK
      OBVIOUS
    <2>1. SlotOK(Free, TRUE)
      BY FreeRecord, BeginsOK DEF Begins
    <2> QED
      BY <2>1 DEF Init, EobOK, SlotOK
  <1>2. TableOK /\ EobOK /\ [Next]_vars => EobOK'
    BY NextEob
  <1>3. EobOK => EobBeforeTimeout
    BY DEF EobOK, EobBeforeTimeout
  <1> QED
    BY <1>1, <1>2, <1>3, TableAlways, PTL DEF Spec
=============================================================================
