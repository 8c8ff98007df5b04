---------------------------- MODULE MailerProofs ----------------------------
(***************************************************************************)
(* A link is worked by one process at a time, for any number of nodes and  *)
(* of children, with or without kill_old_bsy, through every fault, as long *)
(* as binkd is started only on an outbound that nobody uses.               *)
(***************************************************************************)
EXTENDS Mailer, FiniteSetTheorems, TLAPS

Children ==
    [pc : {"none", "call", "dial", "login", "session", "hangup", "zombie"},
     node : Nodes \cup {"-"}, flags : SUBSET Kinds, touched : BOOLEAN,
     ours : BOOLEAN, many : BOOLEAN]

(* Process p has created the flag k of node n and not yet deleted it *)
Has(p, k, n) == k \in proc[p].flags /\ proc[p].node = n

Types ==
    /\ flag \in [Kinds -> [Nodes -> 0..Old]]
    /\ toss \in [Nodes -> BOOLEAN]
    /\ proc \in [Procs -> Children]

(* Only a live child, which has a node, has flags, and a session its .bsy *)
Placed ==
    \A p \in Procs :
        /\ Live(p) => proc[p].node \in Nodes
        /\ proc[p].flags # {} => Live(p)
        /\ proc[p].pc = "session" => "bsy" \in proc[p].flags

(* What a child has in its bsy_list is on the disk and never old: it was   *)
(* touched in this period or in the last one.                              *)
Owned ==
    \A p \in Procs, k \in Kinds, n \in Nodes :
        Has(p, k, n) => /\ flag[k][n] \in 1..2
                        /\ proc[p].touched => flag[k][n] = 1

(* and in no other child's *)
Sole ==
    \A p, q \in Procs, k \in Kinds, n \in Nodes :
        Has(p, k, n) /\ Has(q, k, n) => p = q

(* The .bsy of another program is as new, and no child's *)
Apart ==
    \A n \in Nodes : toss[n] => /\ flag["bsy"][n] = 1
                                /\ \A p \in Procs : ~Has(p, "bsy", n)

Locks == Types /\ Placed /\ Owned /\ Sole /\ Apart

core == <<flag, toss, proc>>

-----------------------------------------------------------------------------
(* At the start nobody has a flag. *)
LEMMA InitLocks == Init => Locks
  <1>1. ASSUME Init PROVE Types
    BY <1>1 DEF Init, Types, AllFlags, AllNodes, Nobody, Children, Kinds, Old
  <1>2. ASSUME Init, NEW p \in Procs PROVE proc[p].flags = {} /\ proc[p].pc = "none"
    BY <1>2 DEF Init, Nobody
  <1>3. ASSUME Init, NEW n \in Nodes PROVE ~toss[n]
    BY <1>3 DEF Init, AllNodes
  <1> QED
    BY <1>1, <1>2, <1>3 DEF Locks, Placed, Owned, Sole, Apart, Has, Live

(* Steps that touch no flag and no child. *)
LEMMA KeepsCore == Locks /\ UNCHANGED core => Locks'
  BY DEF Locks, Types, Placed, Owned, Sole, Apart, Has, Live, core

(* The invariant gives the property. *)
LEMMA LocksExclude == Locks => OneSession
  <1> SUFFICES ASSUME Locks, NEW n \in Nodes, NEW p \in Procs, Works(p, n)
               PROVE  ~toss[n] /\ \A q \in Procs \ {p} : ~Works(q, n)
    BY DEF OneSession
  <1>1. \A q \in Procs : Works(q, n) => Has(q, "bsy", n)
    BY DEF Locks, Placed, Works, Has
  <1> QED
    BY <1>1 DEF Locks, Sole, Apart, Kinds

(* The flags of a child that exits or returns go with it: Without(p, K)    *)
(* deletes no flag that another child or program has.                      *)
LEMMA WithoutType ==
  ASSUME Types, NEW p \in Procs, NEW K
  PROVE  /\ Without(p, K) \in [Kinds -> [Nodes -> 0..Old]]
         /\ \A k \in Kinds, n \in Nodes :
               Without(p, K)[k][n] = IF Has(p, k, n) /\ k \in K THEN 0 ELSE flag[k][n]
  BY DEF Without, Types, Has, Old

(* A child becomes r, which keeps at most the flags outside K. *)
Becomes(p, r, K) ==
    /\ r \in Children
    /\ r.flags \subseteq proc[p].flags \ K
    /\ r.flags # {} => r.node = proc[p].node /\ r.touched = proc[p].touched
    /\ r.pc \notin {"none", "zombie"} => r.node \in Nodes
    /\ r.pc \in {"none", "zombie"} => r.flags = {}
    /\ r.pc # "session"

(* A child that gives up the flags in K, or none of them, disturbs nobody. *)
LEMMA Releases ==
  ASSUME Locks, NEW p \in Procs, NEW K, NEW r, Becomes(p, r, K),
         flag' = Without(p, K), proc' = [proc EXCEPT ![p] = r], toss' = toss
  PROVE  Locks'
  <1> USE DEF Locks
  <1>1. Types'
    BY WithoutType DEF Types, Becomes
  <1>2. \A k \in Kinds, n \in Nodes :
            flag'[k][n] = IF Has(p, k, n) /\ k \in K THEN 0 ELSE flag[k][n]
    BY WithoutType
  <1>3. proc'[p] = r /\ \A q \in Procs \ {p} : proc'[q] = proc[q]
    BY DEF Types
  <1>4. \A q \in Procs, k \in Kinds, n \in Nodes :
            Has(q, k, n)' => /\ Has(q, k, n)
                             /\ q = p => k \notin K
                             /\ proc'[q].touched = proc[q].touched
    BY <1>3 DEF Has, Becomes
  <1>5. \A q \in Procs, k \in Kinds, n \in Nodes :
            Has(q, k, n)' => flag'[k][n] = flag[k][n]
    BY <1>2, <1>4 DEF Sole
  <1>6. Placed'
    BY <1>3 DEF Placed, Live, Becomes
  <1>7. Owned'
    BY <1>4, <1>5 DEF Owned
  <1>8. Sole'
    BY <1>4 DEF Sole
  <1>9. Apart'
    <2> SUFFICES ASSUME NEW n \in Nodes, toss[n]
                 PROVE  flag'["bsy"][n] = 1 /\ \A q \in Procs : ~Has(q, "bsy", n)'
      BY DEF Apart
    <2>1. "bsy" \in Kinds
      BY DEF Kinds
    <2>2. ~Has(p, "bsy", n) /\ flag["bsy"][n] = 1
      BY DEF Apart
    <2> QED
      BY <1>2, <1>4, <2>1, <2>2 DEF Apart
  <1> QED
    BY <1>1, <1>6, <1>7, <1>8, <1>9

(* The list of a child that has none of K is not on the disk to delete *)
LEMMA WithoutNothing ==
  ASSUME Types, NEW p \in Procs
  PROVE  Without(p, {}) = flag
  <1>1. \A k \in Kinds, n \in Nodes : Without(p, {})[k][n] = flag[k][n]
    BY WithoutType
  <1>2. Without(p, {}) \in [Kinds -> [Nodes -> 0..Old]]
    BY WithoutType
  <1>3. \A k \in Kinds : Without(p, {})[k] = flag[k]
    BY <1>1, <1>2 DEF Types
  <1> QED
    BY <1>2, <1>3 DEF Types

LEMMA GoneBecomes ==
  ASSUME NEW p \in Procs, NEW K
  PROVE  Becomes(p, Gone(p), K)
  <1>1. Nobody \in Children /\ Nobody.flags = {} /\ Nobody.pc = "none"
    BY DEF Nobody, Children, Kinds
  <1>2. Zombie \in Children /\ Zombie.flags = {} /\ Zombie.pc = "zombie"
    BY DEF Nobody, Zombie, Children, Kinds
  <1> QED
    BY <1>1, <1>2 DEF Gone, Becomes

LEMMA ExitLocks ==
  ASSUME Locks, NEW p \in Procs, Exit(p), toss' = toss
  PROVE  Locks'
  BY GoneBecomes, Releases DEF Exit, bsy_remove_all

(* A child in the midst of its work keeps its node and what flags it has. *)
LEMMA MovesOn ==
  ASSUME Locks, NEW p \in Procs, Live(p), NEW pc \in {"dial", "login", "hangup"},
         NEW K
  PROVE  Becomes(p, [proc[p] EXCEPT !.pc = pc, !.flags = @ \ K], K)
  <1> DEFINE r == [proc[p] EXCEPT !.pc = pc, !.flags = @ \ K]
  <1>1. proc[p] \in Children
    BY DEF Locks, Types
  <1>2. r \in Children /\ r.pc = pc /\ r.flags = proc[p].flags \ K
        /\ r.node = proc[p].node /\ r.touched = proc[p].touched
    BY <1>1 DEF Children
  <1>3. proc[p].node \in Nodes
    BY DEF Locks, Placed
  <1> HIDE DEF r
  <1>4. Becomes(p, r, K)
    BY <1>2, <1>3 DEF Becomes
  <1> QED
    BY <1>4 DEF r

LEMMA ReturnsLocks ==
  ASSUME Locks, NEW p \in Procs, Live(p), Returns(p), toss' = toss
  PROVE  Locks'
  <1>1. CASE p \notin Callers
    BY <1>1, ExitLocks DEF Returns
  <1>2. CASE p \in Callers
    <2> DEFINE r == [proc[p] EXCEPT !.pc = "hangup", !.flags = @ \ {"bsy"}]
    <2>1. Becomes(p, r, {"bsy"})
      BY MovesOn
    <2>2. proc' = [proc EXCEPT ![p] = r] /\ flag' = Without(p, {"bsy"})
      BY <1>2 DEF Returns, Locks, Types
    <2> HIDE DEF r
    <2> QED
      BY <2>1, <2>2, Releases
  <1> QED
    BY <1>1, <1>2

(* A step of a child that moves it on and leaves the flags alone. *)
LEMMA StepsLocks ==
  ASSUME Locks, NEW p \in Procs, Live(p), NEW pc \in {"dial", "login", "hangup"},
         proc' = [proc EXCEPT ![p].pc = pc], flag' = flag, toss' = toss
  PROVE  Locks'
  <1> DEFINE r == [proc[p] EXCEPT !.pc = pc, !.flags = @ \ {}]
  <1>1. Becomes(p, r, {})
    BY MovesOn
  <1>2. [proc[p] EXCEPT !.pc = pc] = r
    BY DEF Locks, Types, Children
  <1>3. proc' = [proc EXCEPT ![p] = r]
    BY <1>2 DEF Locks, Types
  <1>4. flag' = Without(p, {})
    BY WithoutNothing DEF Locks
  <1> HIDE DEF r
  <1> QED
    BY <1>1, <1>3, <1>4, Releases

(* A place is taken by a new child, or left by one that dies, with no flag *)
(* touched.                                                                *)
LEMMA StartsLocks ==
  ASSUME Locks, NEW p \in Procs, NEW r, Becomes(p, r, {}),
         proc' = [proc EXCEPT ![p] = r], flag' = flag, toss' = toss
  PROVE  Locks'
  <1>1. flag' = Without(p, {})
    BY WithoutNothing DEF Locks
  <1> QED
    BY <1>1, Releases

LEMMA ChildBecomes ==
  ASSUME NEW p \in Procs, NEW pc \in {"call", "login"}, NEW n \in Nodes, NEW many \in BOOLEAN
  PROVE  Becomes(p, Child(pc, n, many), {})
  <1>1. Child(pc, n, many) \in Children
    BY DEF Child, Nobody, Children, Kinds
  <1>2. Child(pc, n, many).pc = pc /\ Child(pc, n, many).node = n /\ Child(pc, n, many).flags = {}
    BY DEF Child, Nobody
  <1> QED
    BY <1>1, <1>2 DEF Becomes

(* bsy_add creates a flag that does not exist: nobody else can have it. *)
LEMMA AddedLocks ==
  ASSUME Locks, NEW p \in Procs, Live(p), NEW k \in Kinds,
         NEW pc \in {"dial", "session"}, pc = "session" => k = "bsy",
         create_sem_file(k, proc[p].node), Added(p, k, pc), toss' = toss
  PROVE  Locks'
  <1> DEFINE m == proc[p].node
             r == [proc[p] EXCEPT !.flags = @ \cup {k}, !.pc = pc]
  <1>1. m \in Nodes /\ proc[p] \in Children
    BY DEF Locks, Placed, Types
  <1>2. /\ r \in Children /\ r.flags = proc[p].flags \cup {k} /\ r.pc = pc
        /\ r.node = m /\ r.touched = proc[p].touched
    BY <1>1 DEF Children
  <1>3. proc' = [proc EXCEPT ![p] = r]
    BY DEF Added, Locks, Types
  <1>4. proc' \in [Procs -> Children] /\ proc'[p] = r /\ \A q \in Procs \ {p} : proc'[q] = proc[q]
    BY <1>2, <1>3 DEF Locks, Types
  <1>5. flag[k][m] = 0 /\ flag' = [flag EXCEPT ![k][m] = 1]
    BY DEF create_sem_file, Added
  <1> HIDE DEF r, m
  <1>6. /\ flag' \in [Kinds -> [Nodes -> 0..Old]] /\ flag'[k][m] = 1
        /\ \A j \in Kinds, n \in Nodes : <<j, n>> # <<k, m>> => flag'[j][n] = flag[j][n]
    BY <1>1, <1>5 DEF Locks, Types, Old
  <1>7. \A q \in Procs : ~Has(q, k, m)
    BY <1>1, <1>5 DEF Locks, Owned
  <1>8. \A q \in Procs, j \in Kinds, n \in Nodes :
            Has(q, j, n)' => Has(q, j, n) \/ (q = p /\ j = k /\ n = m)
    BY <1>2, <1>4 DEF Has, m
  <1>9. \A q \in Procs : proc'[q].touched = proc[q].touched
    BY <1>2, <1>4
  <1>10. Types'
    BY <1>4, <1>6 DEF Types, Locks
  <1>11. Placed'
    BY <1>1, <1>2, <1>4 DEF Placed, Locks, Live
  <1>12. Owned'
    BY <1>6, <1>7, <1>8, <1>9 DEF Owned, Locks
  <1>13. Sole'
    BY <1>7, <1>8 DEF Sole, Locks
  <1>14. Apart'
    <2> SUFFICES ASSUME NEW n \in Nodes, toss[n]
                 PROVE  flag'["bsy"][n] = 1 /\ \A q \in Procs : ~Has(q, "bsy", n)'
      BY DEF Apart
    <2>1. "bsy" \in Kinds
      BY DEF Kinds
    <2>2. flag["bsy"][n] = 1 /\ \A q \in Procs : ~Has(q, "bsy", n)
      BY DEF Apart, Locks
    <2>3. <<"bsy", n>> # <<k, m>>
      BY <1>5, <2>2
    <2> QED
      BY <1>6, <1>8, <2>1, <2>2, <2>3
  <1> QED
    BY <1>10, <1>11, <1>12, <1>13, <1>14 DEF Locks

(* Waiting for dead children, or leaving live ones behind, changes neither *)
(* the flags nor who has them.                                             *)
LEMMA SettlesLocks ==
  ASSUME Locks, flag' = flag, toss' = toss, proc' \in [Procs -> Children],
         \A q \in Procs :
            \/ /\ proc'[q].pc = proc[q].pc /\ proc'[q].node = proc[q].node
               /\ proc'[q].flags = proc[q].flags /\ proc'[q].touched = proc[q].touched
            \/ ~Live(q) /\ proc'[q] = Nobody
  PROVE  Locks'
  <1>1. \A q \in Procs, k \in Kinds, n \in Nodes :
            Has(q, k, n)' => Has(q, k, n) /\ proc'[q].touched = proc[q].touched
    BY DEF Has, Nobody
  <1>2. Types'
    BY DEF Types, Locks
  <1>3. Placed'
    BY DEF Placed, Locks, Live, Nobody
  <1>4. Owned' /\ Sole' /\ Apart'
    BY <1>1 DEF Owned, Sole, Apart, Locks, Kinds
  <1> QED
    BY <1>2, <1>3, <1>4 DEF Locks

LEMMA NobodyIsChild == Nobody \in Children
  BY DEF Nobody, Children, Kinds

LEMMA ReapedLocks ==
  ASSUME Locks, NEW S, proc' = Reaped(S), flag' = flag, toss' = toss
  PROVE  Locks'
  <1>1. proc' \in [Procs -> Children]
    BY NobodyIsChild DEF Reaped, Locks, Types
  <1>2. \A q \in Procs : proc'[q] = proc[q] \/ (~Live(q) /\ proc'[q] = Nobody)
    BY DEF Reaped, Dead
  <1> QED
    BY <1>1, <1>2, SettlesLocks

LEMMA ShutdownLocks == Locks /\ Shutdown => Locks'
  <1> SUFFICES ASSUME Locks, Shutdown PROVE Locks'
    OBVIOUS
  <1>1. \A q \in Procs : proc[q] \in Children
    BY DEF Locks, Types
  <1>2. \A q \in Procs :
            LET r == [proc[q] EXCEPT !.ours = FALSE] IN
            /\ r \in Children /\ r.pc = proc[q].pc /\ r.node = proc[q].node
            /\ r.flags = proc[q].flags /\ r.touched = proc[q].touched
    BY <1>1 DEF Children
  <1>3. proc' = [q \in Procs |-> IF Live(q) THEN [proc[q] EXCEPT !.ours = FALSE] ELSE Nobody]
    BY DEF Shutdown
  <1>4. proc' \in [Procs -> Children]
    BY <1>2, <1>3, NobodyIsChild
  <1>5. flag' = flag /\ toss' = toss
    BY DEF Shutdown
  <1> QED
    BY <1>2, <1>3, <1>4, <1>5, SettlesLocks

(* When no child is alive and no other program has a flag, any flags on    *)
(* the disk will do.                                                       *)
LEMMA IdleLocks ==
  ASSUME Types', \A q \in Procs : (~Live(q) /\ proc[q].flags = {})', \A n \in Nodes : ~toss'[n]
  PROVE  Locks'
  BY DEF Locks, Placed, Owned, Sole, Apart, Has, Live

LEMMA CleanupLocks ==
  ASSUME StartsAlone, Locks, cleanup_old_bsy, proc' = proc, toss' = toss
  PROVE  Locks'
  <1>1. OutboundIdle
    BY DEF cleanup_old_bsy
  <1>2. Types'
    BY DEF cleanup_old_bsy, Locks, Types, AllFlags, Old
  <1>3. \A q \in Procs : (~Live(q) /\ proc[q].flags = {})'
    BY <1>1 DEF OutboundIdle, Locks, Placed, Live
  <1> QED
    BY <1>1, <1>2, <1>3, IdleLocks DEF OutboundIdle

LEMMA PowerFailsLocks == Locks /\ PowerFails => Locks'
  <1> SUFFICES ASSUME Locks, PowerFails PROVE Locks'
    OBVIOUS
  <1>1. Types'
    BY NobodyIsChild DEF PowerFails, Locks, Types, AllNodes
  <1>2. \A q \in Procs : (~Live(q) /\ proc[q].flags = {})'
    BY DEF PowerFails, Live, Nobody
  <1>3. \A n \in Nodes : ~toss'[n]
    BY DEF PowerFails, AllNodes
  <1> QED
    BY <1>1, <1>2, <1>3, IdleLocks

(* A scan deletes only flags that nobody has: those in use are not old. *)
LEMMA ScanLocks ==
  ASSUME Locks, NEW k \in Kinds, NEW n \in Nodes, process_bsy(k, n)
  PROVE  Locks'
  <1>1. proc' = proc /\ toss' = toss
    BY DEF process_bsy, Reads
  <1>2. CASE ~TooOld(k, n)
    BY <1>1, <1>2, KeepsCore DEF process_bsy, core
  <1>3. CASE TooOld(k, n)
    <2>1. flag[k][n] = 3 /\ flag' = [flag EXCEPT ![k][n] = 0]
      BY <1>3 DEF process_bsy, TooOld, Old
    <2>2. /\ flag' \in [Kinds -> [Nodes -> 0..Old]]
          /\ \A j \in Kinds, m \in Nodes : <<j, m>> # <<k, n>> => flag'[j][m] = flag[j][m]
      BY <2>1 DEF Locks, Types, Old
    <2>3. \A q \in Procs : ~Has(q, k, n)
      BY <2>1 DEF Locks, Owned
    <2>4. Types' /\ Placed' /\ Sole'
      BY <1>1, <2>2 DEF Locks, Types, Placed, Sole, Has, Live
    <2>5. Owned'
      BY <1>1, <2>2, <2>3 DEF Locks, Owned, Has
    <2>6. Apart'
      <3> SUFFICES ASSUME NEW m \in Nodes, toss[m]
                   PROVE  flag'["bsy"][m] = 1 /\ \A q \in Procs : ~Has(q, "bsy", m)'
        BY <1>1 DEF Apart
      <3>1. flag["bsy"][m] = 1 /\ \A q \in Procs : ~Has(q, "bsy", m)
        BY DEF Apart, Locks
      <3>2. <<"bsy", m>> # <<k, n>>
        BY <2>1, <3>1
      <3> QED
        BY <1>1, <2>2, <3>1, <3>2 DEF Has, Kinds
    <2> QED
      BY <2>4, <2>5, <2>6 DEF Locks
  <1> QED
    BY <1>2, <1>3

(* What a child looks like once its touched has become b *)
LEMMA TouchedChild ==
  ASSUME NEW c \in Children, NEW b \in BOOLEAN
  PROVE  LET r == [c EXCEPT !.touched = b] IN
         /\ r \in Children /\ r.touched = b
         /\ r.pc = c.pc /\ r.node = c.node /\ r.flags = c.flags
  BY DEF Children

LEMMA TouchLocks ==
  ASSUME Locks, NEW p \in Procs, bsy_touch(p)
  PROVE  Locks'
  <1> DEFINE r == [proc[p] EXCEPT !.touched = TRUE]
  <1>1. /\ r \in Children /\ r.touched = TRUE
        /\ r.pc = proc[p].pc /\ r.node = proc[p].node /\ r.flags = proc[p].flags
    BY TouchedChild DEF Locks, Types
  <1>2. proc' = [proc EXCEPT ![p] = r]
    BY DEF bsy_touch, Locks, Types
  <1> HIDE DEF r
  <1>3. proc' \in [Procs -> Children] /\ proc'[p] = r /\ \A q \in Procs \ {p} : proc'[q] = proc[q]
    BY <1>1, <1>2 DEF Locks, Types
  <1>4. toss' = toss
    BY DEF bsy_touch
  <1>5. \A k \in Kinds, n \in Nodes :
            flag'[k][n] = IF Has(p, k, n) /\ flag[k][n] # 0 THEN 1 ELSE flag[k][n]
    BY DEF bsy_touch, Has
  <1>6. flag' \in [Kinds -> [Nodes -> 0..Old]]
    BY DEF bsy_touch, Locks, Types, Old
  <1>7. \A q \in Procs, k \in Kinds, n \in Nodes : Has(q, k, n)' <=> Has(q, k, n)
    BY <1>1, <1>3 DEF Has
  <1>8. Types'
    BY <1>3, <1>4, <1>6 DEF Types, Locks
  <1>9. Placed'
    BY <1>1, <1>3 DEF Placed, Live, Locks
  <1>10. Owned'
    <2> SUFFICES ASSUME NEW q \in Procs, NEW k \in Kinds, NEW n \in Nodes, Has(q, k, n)
                 PROVE  flag'[k][n] \in 1..2 /\ (proc'[q].touched => flag'[k][n] = 1)
      BY <1>7 DEF Owned
    <2>1. flag[k][n] \in 1..2 /\ (proc[q].touched => flag[k][n] = 1)
      BY DEF Owned, Locks
    <2>2. CASE q = p
      BY <1>5, <2>1, <2>2
    <2>3. CASE q # p
      <3>1. ~Has(p, k, n)
        BY <2>3 DEF Sole, Locks
      <3> QED
        BY <1>3, <1>5, <2>1, <2>3, <3>1
    <2> QED
      BY <2>2, <2>3
  <1>11. Sole'
    BY <1>7 DEF Sole, Locks
  <1>12. Apart'
    BY <1>4, <1>5, <1>7 DEF Apart, Locks, Kinds
  <1> QED
    BY <1>8, <1>9, <1>10, <1>11, <1>12 DEF Locks

(* Another program creates or deletes its .bsy. *)
LEMMA TossSets ==
  ASSUME Locks, NEW n \in Nodes, NEW v \in 0..1,
         flag' = [flag EXCEPT !["bsy"][n] = v], toss' \in [Nodes -> BOOLEAN],
         \A m \in Nodes : toss'[m] => (m = n /\ v = 1) \/ (m # n /\ toss[m]),
         proc' = proc, \A q \in Procs : ~Has(q, "bsy", n)
  PROVE  Locks'
  <1>1. /\ flag' \in [Kinds -> [Nodes -> 0..Old]] /\ flag'["bsy"][n] = v
        /\ \A k \in Kinds, m \in Nodes : <<k, m>> # <<"bsy", n>> => flag'[k][m] = flag[k][m]
    BY DEF Locks, Types, Kinds, Old
  <1>4. Types' /\ Placed' /\ Sole'
    BY <1>1 DEF Locks, Types, Placed, Sole, Has, Live
  <1>5. Owned'
    BY <1>1 DEF Locks, Owned, Has
  <1>6. Apart'
    BY <1>1 DEF Locks, Apart, Has, Kinds
  <1> QED
    BY <1>4, <1>5, <1>6 DEF Locks

LEMMA TossLocks ==
  ASSUME Locks, NEW n \in Nodes, TossLock(n) \/ TossFree(n)
  PROVE  Locks'
  <1>1. \A q \in Procs : ~Has(q, "bsy", n)
    BY DEF TossLock, TossFree, create_sem_file, Locks, Owned, Apart, Kinds
  <1>2. CASE TossLock(n)
    <2>1. toss' = [toss EXCEPT ![n] = TRUE] /\ flag' = [flag EXCEPT !["bsy"][n] = 1] /\ proc' = proc
      BY <1>2 DEF TossLock
    <2>2. toss' \in [Nodes -> BOOLEAN] /\ \A m \in Nodes : toss'[m] => m = n \/ toss[m]
      BY <2>1, Zenon DEF Locks, Types
    <2>3. 1 \in 0..1
      OBVIOUS
    <2> QED
      BY <1>1, <2>1, <2>2, <2>3, TossSets
  <1>3. CASE TossFree(n)
    <2>1. toss' = [toss EXCEPT ![n] = FALSE] /\ flag' = [flag EXCEPT !["bsy"][n] = 0] /\ proc' = proc
      BY <1>3 DEF TossFree
    <2>2. toss' \in [Nodes -> BOOLEAN] /\ \A m \in Nodes : toss'[m] => m # n /\ toss[m]
      BY <2>1, Zenon DEF Locks, Types
    <2>3. 0 \in 0..1
      OBVIOUS
    <2> QED
      BY <1>1, <2>1, <2>2, <2>3, TossSets
  <1> QED
    BY <1>2, <1>3

(* A period passes: every flag in use was touched in it. *)
LEMMA TickLocks == Locks /\ Tick => Locks'
  <1> SUFFICES ASSUME Locks, Tick PROVE Locks'
    OBVIOUS
  <1>1. Punctual /\ toss' = toss
    BY DEF Tick
  <1>2. \A k \in Kinds, n \in Nodes :
            flag'[k][n] = IF flag[k][n] \in {0, Old} THEN flag[k][n] ELSE flag[k][n] + 1
    BY DEF Tick
  <1>3. flag' \in [Kinds -> [Nodes -> 0..Old]]
    BY DEF Tick, Locks, Types, Old
  <1>4. proc' = [p \in Procs |-> [proc[p] EXCEPT !.touched = FALSE]]
    BY DEF Tick
  <1>5. \A q \in Procs :
            /\ proc'[q] \in Children /\ proc'[q].touched = FALSE /\ proc'[q].pc = proc[q].pc
            /\ proc'[q].node = proc[q].node /\ proc'[q].flags = proc[q].flags
    BY <1>4, TouchedChild DEF Locks, Types
  <1>6. \A q \in Procs, k \in Kinds, n \in Nodes : Has(q, k, n)' <=> Has(q, k, n)
    BY <1>5 DEF Has
  <1>7. Types'
    BY <1>1, <1>3, <1>4, <1>5 DEF Types, Locks
  <1>8. Placed'
    BY <1>5 DEF Placed, Live, Locks
  <1>9. Owned'
    <2> SUFFICES ASSUME NEW q \in Procs, NEW k \in Kinds, NEW n \in Nodes, Has(q, k, n)
                 PROVE  flag'[k][n] \in 1..2
      BY <1>5, <1>6 DEF Owned
    <2>1. proc[q].touched
      BY <1>1 DEF Punctual, Has
    <2>2. flag[k][n] = 1
      BY <2>1 DEF Locks, Owned
    <2> QED
      BY <1>2, <2>2 DEF Old
  <1>10. Sole' /\ Apart'
    BY <1>1, <1>6 DEF Sole, Apart, Locks, Punctual
  <1> QED
    BY <1>7, <1>8, <1>9, <1>10 DEF Locks

-----------------------------------------------------------------------------
(* Every step of a child keeps the invariant. *)
LEMMA WorkLocks ==
  ASSUME Locks, NEW p \in Procs, Work(p)
  PROVE  Locks'
  <1>1. CASE call(p)
    <2>1. toss' = toss /\ Live(p)
      BY <1>1 DEF call, ChildKeeps, Live
    <2>2. CASE create_sem_file("csy", proc[p].node)
      BY <1>1, <2>1, <2>2, AddedLocks DEF call, Kinds
    <2>3. CASE ~create_sem_file("csy", proc[p].node)
      BY <1>1, <2>1, <2>3, ExitLocks DEF call
    <2> QED
      BY <2>2, <2>3
  <1>2. CASE Connected(p)
    BY <1>2, StepsLocks DEF Connected, ChildKeeps, Live
  <1>3. CASE Login(p)
    <2>1. toss' = toss /\ Live(p)
      BY <1>3 DEF Login, ChildKeeps, Live
    <2>2. CASE create_sem_file("bsy", proc[p].node) /\ Added(p, "bsy", "session")
      BY <2>1, <2>2, AddedLocks DEF Kinds
    <2>3. CASE Returns(p)
      BY <2>1, <2>3, ReturnsLocks
    <2> QED
      BY <1>3, <2>2, <2>3 DEF Login
  <1>4. CASE SessionEnds(p)
    BY <1>4, ReturnsLocks DEF SessionEnds, ChildKeeps, Live
  <1>5. CASE HangUp(p)
    BY <1>5, ExitLocks DEF HangUp, ChildKeeps
  <1> QED
    BY <1>1, <1>2, <1>3, <1>4, <1>5 DEF Work

LEMMA ManagerLocks == Locks /\ Manager => Locks'
  <1> SUFFICES ASSUME Locks, Manager PROVE Locks'
    OBVIOUS
  <1>1. CASE q_free
    BY <1>1, KeepsCore DEF q_free, disk, core
  <1>2. ASSUME NEW n \in Nodes, q_add_file(n) \/ process_hld(n)
        PROVE  Locks'
    BY <1>2, KeepsCore DEF q_add_file, process_hld, Reads, core
  <1>3. ASSUME NEW n \in Nodes, NEW k \in Kinds, process_bsy(k, n)
        PROVE  Locks'
    BY <1>3, ScanLocks
  <1>4. ASSUME NEW n \in Nodes, CallSkips(n)
        PROVE  Locks'
    BY <1>4, KeepsCore DEF CallSkips, CallNext, disk, core
  <1>5. ASSUME NEW n \in Nodes, NEW p \in Callers, CallStarts(n, p)
        PROVE  Locks'
    <2>1. p \in Procs
      BY DEF Procs
    <2>2. proc' = [proc EXCEPT ![p] = Child("call", n, FALSE)] /\ flag' = flag /\ toss' = toss
      BY <1>5 DEF CallStarts, CallNext, disk
    <2>3. Becomes(p, Child("call", n, FALSE), {})
      BY <2>1, ChildBecomes
    <2> QED
      BY <2>1, <2>2, <2>3, StartsLocks
  <1>6. CASE Sleep \/ SleepFull
    BY <1>6, ReapedLocks DEF Sleep, SleepFull, chld, disk
  <1> QED
    BY <1>1, <1>2, <1>3, <1>4, <1>5, <1>6 DEF Manager

LEMMA TroubleLocks == StartsAlone /\ Locks /\ Trouble => Locks'
  <1> SUFFICES ASSUME StartsAlone, Locks, Trouble PROVE Locks'
    OBVIOUS
  <1>1. ASSUME NEW n \in Nodes, NEW k \in Kinds, StaleEntry(k, n)
        PROVE  Locks'
    BY <1>1, KeepsCore DEF StaleEntry, Reads, core
  <1>2. ASSUME NEW n \in Nodes, CallNotStarted(n) \/ NewMail(n)
        PROVE  Locks'
    BY <1>2, KeepsCore DEF CallNotStarted, CallNext, NewMail, disk, core
  <1>3. ASSUME NEW n \in Nodes, TossLock(n)
        PROVE  Locks'
    BY <1>3, TossLocks
  <1>4. ASSUME NEW n \in Nodes, poll_node(n)
        PROVE  Locks'
    BY <1>4, CleanupLocks DEF poll_node
  <1>5. ASSUME NEW n \in Nodes, NEW p \in Servers, Accept(n, p)
        PROVE  Locks'
    <2> DEFINE many == n_servers + 1 > max_servers
    <2>1. p \in Procs /\ many \in BOOLEAN
      BY DEF Procs
    <2>2. proc' = [proc EXCEPT ![p] = Child("login", n, many)] /\ flag' = flag /\ toss' = toss
      BY <1>5 DEF Accept, disk
    <2> HIDE DEF many
    <2>3. Becomes(p, Child("login", n, many), {})
      BY <2>1, ChildBecomes
    <2> QED
      BY <2>1, <2>2, <2>3, StartsLocks
  <1>6. ASSUME NEW p \in Procs, NotConnected(p)
        PROVE  Locks'
    <2>1. toss' = toss /\ flag' = flag /\ Live(p)
      BY <1>6 DEF NotConnected, ChildKeeps, Live
    <2>2. PICK pc \in {"dial", "hangup"} : proc' = [proc EXCEPT ![p].pc = pc]
      BY <1>6 DEF NotConnected
    <2> QED
      BY <2>1, <2>2, StepsLocks
  <1>7. ASSUME NEW p \in Procs, NotLoggedIn(p) \/ SessionSkips(p) \/ SessionFails(p)
        PROVE  Locks'
    <2>1. toss' = toss /\ Live(p) /\ Returns(p)
      BY <1>7 DEF NotLoggedIn, SessionSkips, SessionFails, ChildKeeps, Live
    <2> QED
      BY <2>1, ReturnsLocks
  <1>8. ASSUME NEW p \in Procs, Terminated(p)
        PROVE  Locks'
    BY <1>8, ExitLocks DEF Terminated, ChildKeeps
  <1>9. ASSUME NEW p \in Procs, Killed(p)
        PROVE  Locks'
    <2>1. proc' = [proc EXCEPT ![p] = Gone(p)] /\ flag' = flag /\ toss' = toss
      BY <1>9 DEF Killed, ChildKeeps
    <2> QED
      BY <2>1, GoneBecomes, StartsLocks
  <1>10. CASE Shutdown \/ PowerFails
    BY <1>10, ShutdownLocks, PowerFailsLocks
  <1> QED
    BY <1>1, <1>2, <1>3, <1>4, <1>5, <1>6, <1>7, <1>8, <1>9, <1>10 DEF Trouble

LEMMA NextLocks == StartsAlone /\ Locks /\ [Next]_vars => Locks'
  <1> SUFFICES ASSUME StartsAlone, Locks, [Next]_vars PROVE Locks'
    OBVIOUS
  <1>1. CASE UNCHANGED vars
    BY <1>1, KeepsCore DEF vars, disk, core
  <1>2. CASE Startup
    BY <1>2, CleanupLocks DEF Startup
  <1>3. CASE ServChld
    BY <1>3, ReapedLocks DEF ServChld, disk
  <1>4. ASSUME NEW p \in Procs, Work(p) \/ bsy_touch(p)
        PROVE  Locks'
    BY <1>4, WorkLocks, TouchLocks
  <1>5. ASSUME NEW n \in Nodes, TossFree(n)
        PROVE  Locks'
    BY <1>5, TossLocks
  <1> QED
    BY <1>1, <1>2, <1>3, <1>4, <1>5, ManagerLocks, TickLocks, TroubleLocks DEF Next

(* Two children never have a session with one node at once, nor a child    *)
(* one with a node another program has locked, in every run of the program *)
(* that is started only on an idle outbound: create_sem_file is exclusive, *)
(* bsy_remove deletes only what bsy_add created, and process_bsy cannot    *)
(* find a flag old that bsy_touch keeps new.                               *)
THEOREM LinkWorkedOnce ==
  ASSUME StartsAlone
  PROVE  Spec => []OneSession
  <1>1. Init => Locks
    BY InitLocks
  <1>2. Locks /\ [Next]_vars => Locks'
    BY NextLocks
  <1>3. Locks => OneSession
    BY LocksExclude
  <1> QED
    BY <1>1, <1>2, <1>3, PTL DEF Spec
-----------------------------------------------------------------------------
(***************************************************************************)
(* The count of calls.  n_clients is the number of the children started by *)
(* the running client manager and not yet waited for, the dead ones        *)
(* included; that makes it a bound of the calls that run, and zero only    *)
(* when none does.                                                         *)
(***************************************************************************)
Counted == {p \in Callers : proc[p].ours}

Tally ==
    /\ proc \in [Procs -> Children]
    /\ \A p \in Procs : IsFree(p) => ~proc[p].ours
    /\ n_clients = Cardinality(Counted)
    /\ n_clients <= max_clients
    /\ mgr = "quit" => Counted = {}

(* The places of the client manager are finitely many. *)
LEMMA CountedFinite ==
  ASSUME NEW S \in SUBSET Callers
  PROVE  IsFiniteSet(S) /\ Cardinality(S) \in Nat
  BY MailerAssumption, FS_Subset, FS_CardinalityType

(* At the start there is no child. *)
LEMMA InitTally == Init => Tally
  <1> SUFFICES ASSUME Init PROVE Tally
    OBVIOUS
  <1>1. \A p \in Procs : proc[p] = Nobody
    BY DEF Init
  <1>2. ~Nobody.ours
    BY DEF Nobody
  <1>3. Counted = {}
    BY <1>1, <1>2 DEF Counted, Procs
  <1>4. proc \in [Procs -> Children]
    BY NobodyIsChild DEF Init
  <1>5. n_clients = 0 /\ mgr = "down"
    BY DEF Init
  <1> QED
    BY <1>1, <1>2, <1>3, <1>4, <1>5, FS_EmptySet, MailerAssumption DEF Tally

(* The invariant gives both properties: the calls that run are counted.    *)
LEMMA TallyLimits == Tally => LimitsKept /\ QuitsIdle
  <1> SUFFICES ASSUME Tally PROVE LimitsKept /\ QuitsIdle
    OBVIOUS
  <1>1. Ours(Callers) \subseteq Counted /\ Counted \in SUBSET Callers
    BY DEF Ours, Counted
  <1>2. Cardinality(Ours(Callers)) <= Cardinality(Counted)
    BY <1>1, CountedFinite, FS_Subset
  <1>3. Cardinality(Ours(Callers)) \in Nat /\ Cardinality(Counted) \in Nat
    BY <1>1, CountedFinite
  <1>4. LimitsKept
    BY <1>2, <1>3, MailerAssumption DEF Tally, LimitsKept
  <1>5. QuitsIdle
    BY <1>1 DEF Tally, QuitsIdle
  <1> QED
    BY <1>4, <1>5

(* Steps that change no child, no count and no manager, or only managers   *)
(* that start.                                                             *)
LEMMA KeepsTally ==
  ASSUME Tally, UNCHANGED <<proc, n_clients>>, mgr' = mgr \/ mgr' = "up"
  PROVE  Tally'
  BY DEF Tally, Counted, IsFree

(* A child that stays whose it was, and leaves its place only when it is   *)
(* nobody's, is counted as before.                                         *)
LEMMA StaysTally ==
  ASSUME Tally, proc' \in [Procs -> Children], n_clients' = n_clients, mgr' = mgr,
         \A p \in Procs : /\ proc'[p].ours = proc[p].ours
                          /\ proc'[p].pc = "none" => ~proc'[p].ours
  PROVE  Tally'
  <1>1. Counted' = Counted
    BY DEF Counted, Procs
  <1> QED
    BY <1>1 DEF Tally, IsFree

(* One child becomes r. *)
LEMMA OneTally ==
  ASSUME Tally, NEW p \in Procs, NEW r \in Children, r.ours = proc[p].ours,
         r.pc = "none" => ~r.ours,
         proc' = [proc EXCEPT ![p] = r], n_clients' = n_clients, mgr' = mgr
  PROVE  Tally'
  BY StaysTally DEF Tally, IsFree

(* The fields a live child changes as it works are not the one counted by. *)
LEMMA WorksTally ==
  ASSUME Tally, NEW p \in Procs, NEW pc \in {"dial", "login", "session", "hangup"},
         NEW F \in SUBSET Kinds,
         proc' = [proc EXCEPT ![p].pc = pc, ![p].flags = F], n_clients' = n_clients, mgr' = mgr
  PROVE  Tally'
  <1> DEFINE r == [proc[p] EXCEPT !.pc = pc, !.flags = F]
  <1>1. proc[p] \in Children
    BY DEF Tally
  <1>2. r \in Children /\ r.ours = proc[p].ours /\ r.pc # "none"
    BY <1>1 DEF Children
  <1>3. proc' = [proc EXCEPT ![p] = r]
    BY DEF Tally
  <1> HIDE DEF r
  <1> QED
    BY <1>2, <1>3, OneTally

(* exit() leaves a zombie for its manager to count, if there is one. *)
LEMMA GoneTally ==
  ASSUME Tally, NEW p \in Procs, proc' = [proc EXCEPT ![p] = Gone(p)],
         n_clients' = n_clients, mgr' = mgr
  PROVE  Tally'
  <1>1. Gone(p) \in Children
    BY GoneBecomes DEF Becomes
  <1>2. Nobody.ours = FALSE /\ Zombie.ours = TRUE /\ Zombie.pc = "zombie"
    BY DEF Nobody, Zombie
  <1>3. proc[p].ours \in BOOLEAN
    BY DEF Tally, Children
  <1>4. Gone(p).ours = proc[p].ours /\ (Gone(p).pc = "none" => ~Gone(p).ours)
    BY <1>2, <1>3 DEF Gone
  <1> QED
    BY <1>1, <1>4, OneTally

LEMMA ReturnsTally ==
  ASSUME Tally, NEW p \in Procs, Returns(p), n_clients' = n_clients, mgr' = mgr
  PROVE  Tally'
  <1>1. CASE p \notin Callers
    BY <1>1, GoneTally DEF Returns, Exit
  <1>2. CASE p \in Callers
    <2>1. proc[p].flags \ {"bsy"} \in SUBSET Kinds
      BY DEF Tally, Children
    <2>2. proc' = [proc EXCEPT ![p].pc = "hangup", ![p].flags = proc[p].flags \ {"bsy"}]
      BY <1>2 DEF Returns, Tally
    <2> QED
      BY <2>1, <2>2, WorksTally
  <1> QED
    BY <1>1, <1>2

LEMMA AddedTally ==
  ASSUME Tally, NEW p \in Procs, NEW k \in Kinds, NEW pc \in {"dial", "session"},
         Added(p, k, pc), n_clients' = n_clients, mgr' = mgr
  PROVE  Tally'
  <1>1. proc[p].flags \cup {k} \in SUBSET Kinds
    BY DEF Tally, Children
  <1>2. proc' = [proc EXCEPT ![p].pc = pc, ![p].flags = proc[p].flags \cup {k}]
    BY DEF Added, Tally, Children
  <1> QED
    BY <1>1, <1>2, WorksTally

LEMMA MovesTally ==
  ASSUME Tally, NEW p \in Procs, NEW pc \in {"dial", "login", "hangup"},
         proc' = [proc EXCEPT ![p].pc = pc], n_clients' = n_clients, mgr' = mgr
  PROVE  Tally'
  <1> DEFINE r == [proc[p] EXCEPT !.pc = pc]
  <1>1. r \in Children /\ r.ours = proc[p].ours /\ r.pc # "none"
    BY DEF Tally, Children
  <1>2. proc' = [proc EXCEPT ![p] = r]
    BY DEF Tally
  <1> HIDE DEF r
  <1> QED
    BY <1>1, <1>2, OneTally

(* Touching, and the period that passes, change no field counted by. *)
LEMMA TouchTally ==
  ASSUME Tally, n_clients' = n_clients, mgr' = mgr, NEW b \in BOOLEAN, NEW S \in SUBSET Procs,
         proc' = [p \in Procs |-> IF p \in S THEN [proc[p] EXCEPT !.touched = b] ELSE proc[p]]
  PROVE  Tally'
  <1>1. ASSUME NEW p \in Procs
        PROVE  /\ [proc[p] EXCEPT !.touched = b] \in Children
               /\ [proc[p] EXCEPT !.touched = b].ours = proc[p].ours
               /\ [proc[p] EXCEPT !.touched = b].pc = proc[p].pc
    BY DEF Tally, Children
  <1>2. \A p \in Procs : /\ proc'[p] \in Children
                         /\ proc'[p].ours = proc[p].ours /\ proc'[p].pc = proc[p].pc
    BY <1>1 DEF Tally
  <1> QED
    BY <1>2, StaysTally DEF Tally, IsFree

(* The client manager starts a call: one more child, one more counted, and *)
(* it had looked at the limit.                                             *)
LEMMA CallStartsTally ==
  ASSUME Tally, NEW n \in Nodes, NEW p \in Callers, CallStarts(n, p)
  PROVE  Tally'
  <1> DEFINE r == Child("call", n, FALSE)
  <1>1. p \in Procs
    BY DEF Procs
  <1>2. proc' = [proc EXCEPT ![p] = r] /\ n_clients' = n_clients + 1
        /\ n_clients < max_clients /\ mgr = "up" /\ mgr' = mgr /\ IsFree(p)
    BY DEF CallStarts, CallNext, Running
  <1>3. r \in Children /\ r.ours /\ r.pc = "call"
    BY DEF Child, Nobody, Children, Kinds
  <1> HIDE DEF r
  <1>4. p \notin Counted
    BY <1>1, <1>2 DEF Tally, Counted
  <1>5. proc' \in [Procs -> Children]
    BY <1>2, <1>3 DEF Tally
  <1>6. Counted' = Counted \cup {p}
    BY <1>1, <1>2, <1>3 DEF Counted, Tally, Procs
  <1>7. Counted \in SUBSET Callers
    BY DEF Counted
  <1>8. Cardinality(Counted') = Cardinality(Counted) + 1 /\ Cardinality(Counted) \in Nat
    BY <1>4, <1>6, <1>7, CountedFinite, FS_AddElement
  <1>9. \A q \in Procs : IsFree(q)' => ~proc'[q].ours
    BY <1>1, <1>2, <1>3 DEF Tally, IsFree
  <1> QED
    BY <1>2, <1>5, <1>8, <1>9, MailerAssumption DEF Tally

(* chld() waits for the dead and takes just them off the count. *)
LEMMA ReapedTally ==
  ASSUME Tally, chld
  PROVE  /\ proc' \in [Procs -> Children]
         /\ \A p \in Procs : IsFree(p)' => ~proc'[p].ours
         /\ n_clients' = Cardinality(Counted')
         /\ n_clients' <= max_clients
         /\ n_clients' <= 0 => Counted' = {}
  <1>1. \A p \in Procs : proc'[p] = IF p \in Dead(Callers) THEN Nobody ELSE proc[p]
    BY DEF chld, Reaped
  <1>2. proc' \in [Procs -> Children]
    BY NobodyIsChild DEF chld, Reaped, Tally
  <1>3. Nobody.ours = FALSE
    BY DEF Nobody
  <1>4. Counted' = Counted \ Dead(Callers)
    BY <1>1, <1>3 DEF Counted, Procs
  <1>5. Dead(Callers) \subseteq Counted /\ Counted \in SUBSET Callers /\ Counted' \in SUBSET Callers
    BY <1>4 DEF Dead, Counted
  <1>6. IsFiniteSet(Counted) /\ Cardinality(Counted) \in Nat /\ Cardinality(Counted') \in Nat
        /\ IsFiniteSet(Counted')
    BY <1>5, CountedFinite
  <1>7. Counted \cap Dead(Callers) = Dead(Callers) /\ Dead(Callers) \in SUBSET Callers
    BY <1>5
  <1>8. Cardinality(Dead(Callers)) \in Nat
    BY <1>7, CountedFinite
  <1>9. Cardinality(Counted') = Cardinality(Counted) - Cardinality(Dead(Callers))
    <2>1. Cardinality(Counted \ Dead(Callers))
            = Cardinality(Counted) - Cardinality(Counted \cap Dead(Callers))
      BY <1>6, FS_Difference
    <2> QED
      BY <1>4, <1>7, <2>1
  <1>10. n_clients' = Cardinality(Counted') /\ n_clients' <= max_clients
    BY <1>6, <1>8, <1>9, MailerAssumption DEF chld, Tally
  <1>11. n_clients' <= 0 => Counted' = {}
    BY <1>6, <1>10, FS_EmptySet
  <1> QED
    BY <1>1, <1>2, <1>3, <1>10, <1>11 DEF Tally, IsFree

(* Nobody to call, or too many calls: chld() runs, and with -p the manager *)
(* quits when the count is zero.                                           *)
LEMMA SleepTally ==
  ASSUME Tally, Sleep \/ SleepFull
  PROVE  Tally'
  <1>1. chld
    BY DEF Sleep, SleepFull
  <1>2. mgr' = "quit" => n_clients' <= 0
    BY DEF Sleep, SleepFull, Running
  <1> QED
    BY <1>1, <1>2, ReapedTally DEF Tally

(* The server manager starts and waits for its own children only. *)
LEMMA ServerTally ==
  ASSUME Tally, NEW S \in SUBSET Servers, NEW r \in [Procs -> Children],
         \A p \in Procs : r[p].pc = "none" => ~r[p].ours,
         proc' = [p \in Procs |-> IF p \in S THEN r[p] ELSE proc[p]],
         n_clients' = n_clients, mgr' = mgr
  PROVE  Tally'
  <1>1. proc' \in [Procs -> Children]
    BY DEF Tally
  <1>2. \A p \in Callers : p \in Procs /\ p \notin S
    BY MailerAssumption DEF Procs
  <1>3. Counted' = Counted
    BY <1>2 DEF Counted
  <1> QED
    BY <1>1, <1>3 DEF Tally, IsFree

(* The managers end: none of the children that are left is counted any     *)
(* more.                                                                   *)
LEMMA ManagersEndTally ==
  ASSUME Tally, ManagersEnd, proc' \in [Procs -> Children], \A p \in Procs : ~proc'[p].ours
  PROVE  Tally'
  <1>1. Counted' = {}
    BY DEF Counted, Procs
  <1> QED
    BY <1>1, FS_EmptySet, MailerAssumption DEF Tally, ManagersEnd, IsFree

(* Every step of a child keeps the count. *)
LEMMA WorkTally ==
  ASSUME Tally, NEW p \in Procs, Work(p) \/ bsy_touch(p)
  PROVE  Tally'
  <1>1. CASE call(p)
    <2>1. n_clients' = n_clients /\ mgr' = mgr
      BY <1>1 DEF call, ChildKeeps, counts
    <2>2. CASE Added(p, "csy", "dial")
      BY <2>1, <2>2, AddedTally DEF Kinds
    <2>3. CASE Exit(p)
      BY <2>1, <2>3, GoneTally DEF Exit
    <2> QED
      BY <1>1, <2>2, <2>3 DEF call
  <1>2. CASE Connected(p)
    BY <1>2, MovesTally DEF Connected, ChildKeeps, counts
  <1>3. CASE Login(p)
    <2>1. n_clients' = n_clients /\ mgr' = mgr
      BY <1>3 DEF Login, ChildKeeps, counts
    <2>2. CASE Added(p, "bsy", "session")
      BY <2>1, <2>2, AddedTally DEF Kinds
    <2>3. CASE Returns(p)
      BY <2>1, <2>3, ReturnsTally
    <2> QED
      BY <1>3, <2>2, <2>3 DEF Login
  <1>4. CASE SessionEnds(p)
    BY <1>4, ReturnsTally DEF SessionEnds, ChildKeeps, counts
  <1>5. CASE HangUp(p)
    BY <1>5, GoneTally DEF HangUp, Exit, ChildKeeps, counts
  <1>6. CASE bsy_touch(p)
    <2>1. proc' = [q \in Procs |-> IF q \in {p} THEN [proc[q] EXCEPT !.touched = TRUE] ELSE proc[q]]
      BY <1>6 DEF bsy_touch, Tally
    <2>2. n_clients' = n_clients /\ mgr' = mgr
      BY <1>6 DEF bsy_touch, counts
    <2> QED
      BY <2>1, <2>2, TouchTally
  <1> QED
    BY <1>1, <1>2, <1>3, <1>4, <1>5, <1>6 DEF Work

LEMMA ManagerTally == Tally /\ Manager => Tally'
  <1> SUFFICES ASSUME Tally, Manager PROVE Tally'
    OBVIOUS
  <1>1. CASE q_free
    BY <1>1, KeepsTally DEF q_free, counts
  <1>2. ASSUME NEW n \in Nodes, NEW k \in Kinds, q_add_file(n) \/ process_hld(n) \/ process_bsy(k, n)
        PROVE  Tally'
    BY <1>2, KeepsTally DEF q_add_file, process_hld, process_bsy, Reads, counts
  <1>3. ASSUME NEW n \in Nodes, CallSkips(n)
        PROVE  Tally'
    BY <1>3, KeepsTally DEF CallSkips, CallNext
  <1>4. ASSUME NEW n \in Nodes, NEW p \in Callers, CallStarts(n, p)
        PROVE  Tally'
    BY <1>4, CallStartsTally
  <1>5. CASE Sleep \/ SleepFull
    BY <1>5, SleepTally
  <1>6. "csy" \in Kinds
    BY DEF Kinds
  <1> QED
    BY <1>1, <1>2, <1>3, <1>4, <1>5, <1>6 DEF Manager

LEMMA TroubleTally == Tally /\ Trouble => Tally'
  <1> SUFFICES ASSUME Tally, Trouble PROVE Tally'
    OBVIOUS
  <1>1. ASSUME NEW n \in Nodes, NEW k \in Kinds, StaleEntry(k, n)
        PROVE  Tally'
    BY <1>1, KeepsTally DEF StaleEntry, Reads, counts
  <1>2. ASSUME NEW n \in Nodes, CallNotStarted(n) \/ NewMail(n) \/ TossLock(n) \/ poll_node(n)
        PROVE  Tally'
    BY <1>2, KeepsTally DEF CallNotStarted, CallNext, NewMail, TossLock, poll_node, counts
  <1>3. ASSUME NEW n \in Nodes, NEW p \in Servers, Accept(n, p)
        PROVE  Tally'
    <2> DEFINE many == n_servers + 1 > max_servers
               c == Child("login", n, many)
    <2>0. many \in BOOLEAN
      OBVIOUS
    <2> HIDE DEF many
    <2>1. c \in Children /\ c.pc = "login"
      BY <2>0 DEF Child, Nobody, Children, Kinds
    <2>2. proc' = [proc EXCEPT ![p] = c] /\ n_clients' = n_clients /\ mgr' = mgr
      BY <1>3 DEF Accept, many
    <2> HIDE DEF c
    <2>3. proc' = [q \in Procs |-> IF q \in {p} THEN [r \in Procs |-> c][q] ELSE proc[q]]
      BY <2>2 DEF Tally
    <2>4. [r \in Procs |-> c] \in [Procs -> Children]
          /\ \A q \in Procs : [r \in Procs |-> c][q].pc # "none"
      BY <2>1
    <2> QED
      BY <2>2, <2>3, <2>4, ServerTally
  <1>4. ASSUME NEW p \in Procs, NotConnected(p)
        PROVE  Tally'
    <2>1. PICK pc \in {"dial", "hangup"} : proc' = [proc EXCEPT ![p].pc = pc]
      BY <1>4 DEF NotConnected
    <2> QED
      BY <1>4, <2>1, MovesTally DEF NotConnected, ChildKeeps, counts
  <1>5. ASSUME NEW p \in Procs, NotLoggedIn(p) \/ SessionSkips(p) \/ SessionFails(p)
        PROVE  Tally'
    <2>1. Returns(p) /\ n_clients' = n_clients /\ mgr' = mgr
      BY <1>5 DEF NotLoggedIn, SessionSkips, SessionFails, ChildKeeps, counts
    <2> QED
      BY <2>1, ReturnsTally
  <1>6. ASSUME NEW p \in Procs, Terminated(p) \/ Killed(p)
        PROVE  Tally'
    BY <1>6, GoneTally DEF Terminated, Killed, Exit, ChildKeeps, counts
  <1>7. CASE Shutdown
    <2>1. ASSUME NEW p \in Procs
          PROVE  [proc[p] EXCEPT !.ours = FALSE] \in Children
                 /\ ~[proc[p] EXCEPT !.ours = FALSE].ours
      BY DEF Tally, Children
    <2>2. ~Nobody.ours
      BY DEF Nobody
    <2>3. proc' \in [Procs -> Children] /\ \A p \in Procs : ~proc'[p].ours
      BY <1>7, <2>1, <2>2, NobodyIsChild DEF Shutdown
    <2> QED
      BY <1>7, <2>3, ManagersEndTally DEF Shutdown
  <1>8. CASE PowerFails
    <2>1. ~Nobody.ours
      BY DEF Nobody
    <2>2. proc' \in [Procs -> Children] /\ \A p \in Procs : ~proc'[p].ours
      BY <1>8, <2>1, NobodyIsChild DEF PowerFails
    <2> QED
      BY <1>8, <2>2, ManagersEndTally DEF PowerFails
  <1> QED
    BY <1>1, <1>2, <1>3, <1>4, <1>5, <1>6, <1>7, <1>8 DEF Trouble

LEMMA NextTally == Tally /\ [Next]_vars => Tally'
  <1> SUFFICES ASSUME Tally, [Next]_vars PROVE Tally'
    OBVIOUS
  <1>1. CASE UNCHANGED vars
    BY <1>1, KeepsTally DEF vars, counts
  <1>2. CASE Startup
    BY <1>2, KeepsTally DEF Startup, counts
  <1>3. CASE ServChld
    <2>1. proc' = [q \in Procs |-> IF q \in Dead(Servers) THEN [r \in Procs |-> Nobody][q] ELSE proc[q]]
      BY <1>3 DEF ServChld, Reaped
    <2>2. [r \in Procs |-> Nobody] \in [Procs -> Children]
          /\ \A q \in Procs : ~[r \in Procs |-> Nobody][q].ours
      BY NobodyIsChild DEF Nobody
    <2>3. Dead(Servers) \in SUBSET Servers
      BY DEF Dead
    <2> QED
      BY <1>3, <2>1, <2>2, <2>3, ServerTally DEF ServChld
  <1>4. ASSUME NEW p \in Procs, Work(p) \/ bsy_touch(p)
        PROVE  Tally'
    BY <1>4, WorkTally
  <1>5. ASSUME NEW n \in Nodes, TossFree(n)
        PROVE  Tally'
    BY <1>5, KeepsTally DEF TossFree, counts
  <1>6. CASE Tick
    <2>1. proc' = [q \in Procs |-> IF q \in Procs THEN [proc[q] EXCEPT !.touched = FALSE] ELSE proc[q]]
      BY <1>6 DEF Tick
    <2>2. n_clients' = n_clients /\ mgr' = mgr
      BY <1>6 DEF Tick, counts
    <2> QED
      BY <2>1, <2>2, TouchTally
  <1> QED
    BY <1>1, <1>2, <1>3, <1>4, <1>5, <1>6, ManagerTally, TroubleTally DEF Next

(* No more calls run than max_clients, for any number of places and nodes  *)
(* and through every fault: do_client counts a call before it is started   *)
(* and chld() takes off just the children it has waited for.               *)
THEOREM CallsLimited == Spec => []LimitsKept
  <1>1. Tally => LimitsKept
    BY TallyLimits
  <1> QED
    BY <1>1, InitTally, NextTally, PTL DEF Spec

(* With -p the manager quits only when none of its calls is left, although *)
(* the count it looks at is all it knows of them (do_client).              *)
THEOREM PollQuitsIdle == Spec => []QuitsIdle
  <1>1. Tally => QuitsIdle
    BY TallyLimits
  <1> QED
    BY <1>1, InitTally, NextTally, PTL DEF Spec
=============================================================================
