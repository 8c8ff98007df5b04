---------------------------- MODULE ReloadProofs ----------------------------
(***************************************************************************)
(* The counted references to the configuration: no structure is freed      *)
(* while a thread uses it or while it is current, nor freed twice, for any *)
(* number of sessions, of reloads and of accidents.                        *)
(***************************************************************************)
EXTENDS Reload, FiniteSetTheorems, TLAPS

Structs == [count : Int, ver : [Files -> Nat], mtime : [Files -> Nat],
            perl : BOOLEAN, freed : BOOLEAN]
Places == {"none", "lock", "listen", "select", "read", "include", "perl", "dropold", "leave",
           "failed", "wait", "last", "unload", "over", "loop", "change", "client", "down",
           "unlock", "unlock_down", "ended", "born", "clone", "session", "on_log", "logged",
           "ended_call", "ended_serv", "free"}
Records == [pc : Places, cfg : Nat, clone : BOOLEAN, gone : Nat, after : Places,
            kind : {"none", "serv", "call"}]

(* Where a thread is, or will be when it has freed what it has to free. *)
Place(x) == IF x.pc = "free" THEN x.after ELSE x.pc

(* Where it has a hold of its structure, and where it may have a clone. *)
HoldPlaces == {"listen", "select", "read", "include", "perl", "dropold", "leave", "failed",
               "unload", "loop", "change", "client", "down", "unlock", "unlock_down",
               "clone", "session", "on_log", "logged"}
ClonePlaces == {"loop", "change", "client", "down", "session", "on_log", "logged"}

(* The places of main in which it has a structure under work. *)
Busy == {"read", "include", "perl", "dropold"}

HoldsIt(x, c) == Place(x) \in HoldPlaces /\ x.cfg = c
LogsTo(x, c) == x.pc = "on_log" /\ x.gone = c

Users(c) == {t \in Threads : HoldsIt(th[t], c)}
Loggers(c) == {t \in Threads : LogsTo(th[t], c)}
Freer(t, c) == th[t].pc = "free" /\ th[t].gone = c

One(b) == IF b THEN 1 ELSE 0
(* The holds that are not a thread's: the pointer current_config, and what *)
(* checkcfg has still to give back for the pointer it replaced.            *)
Base(c) == One(current_config = c) + One(new = c /\ At("main", "dropold"))

Typed ==
  /\ cfg \in [Cfgs -> Structs] /\ th \in [Threads -> Records]
  /\ current_config \in Cfgs
  /\ disk.ver \in [Files -> Nat] /\ disk.mtime \in [Files -> Nat] /\ disk.ver["main"] > 0
  /\ script.ok \in BOOLEAN

(* What a thread holds is a structure, and its clone goes before its hold. *)
Placed ==
  \A t \in Threads :
    /\ Place(th[t]) \in HoldPlaces => th[t].cfg \in Cfgs
    /\ th[t].pc = "on_log" => th[t].gone \in Cfgs
    /\ th[t].clone => t # "main" /\ Place(th[t]) \in ClonePlaces

(* usageCount is the number of holds. *)
Counted ==
  \A c \in Cfgs : cfg[c].count = Cardinality(Users(c)) + Cardinality(Loggers(c)) + Base(c)

(* A structure somebody holds has been read, and one that is freed nobody  *)
(* holds.                                                                  *)
Sound ==
  \A c \in Cfgs : /\ cfg[c].count > 0 => cfg[c].ver["main"] > 0
                  /\ cfg[c].freed => cfg[c].count = 0

(* A thread that has to free a structure has it for itself. *)
Freeing ==
  \A t \in Threads : th[t].pc = "free" =>
    /\ th[t].after \notin Busy \cup {"free", "on_log"}
    /\ th[t].gone \in Cfgs
    /\ cfg[th[t].gone].count = 0 /\ ~cfg[th[t].gone].freed
    /\ cfg[th[t].gone].ver["main"] > 0
    /\ \A u \in Threads : Freer(u, th[t].gone) => u = t

(* The structure that readcfg works on is nobody else's. *)
Working ==
  /\ At("main", "read") => \E c \in Cfgs : cfg[c] = Fresh
  /\ th["main"].pc \in {"include", "perl"} =>
       /\ new \in Cfgs
       /\ cfg[new].count = 0 /\ ~cfg[new].freed /\ cfg[new].ver["main"] > 0
       /\ \A t \in Threads : ~Freer(t, new)
  /\ At("main", "dropold") => new \in Cfgs

Inv == Typed /\ Placed /\ Counted /\ Sound /\ Freeing /\ Working

-----------------------------------------------------------------------------
(* Threads are finitely many, so are those that hold a structure. *)
LEMMA ThreadsFinite ==
  ASSUME NEW S \in SUBSET Threads
  PROVE  IsFiniteSet(S) /\ Cardinality(S) \in Nat
  <1>1. IsFiniteSet({"main"}) /\ IsFiniteSet({"cmgr"})
    BY FS_Singleton
  <1>2. IsFiniteSet({"main", "cmgr"})
    BY <1>1, FS_AddElement
  <1>3. IsFiniteSet(Threads)
    BY <1>2, Bounds, FS_Union DEF Threads
  <1> QED
    BY <1>3, FS_Subset, FS_CardinalityType

(* A set in which the membership of one thread changes. *)
LEMMA SetCount ==
  ASSUME NEW S \in SUBSET Threads, NEW T \in SUBSET Threads, NEW t \in Threads,
         \A u \in Threads \ {t} : u \in S <=> u \in T
  PROVE  Cardinality(T) = Cardinality(S) - One(t \in S) + One(t \in T)
  <1>1. IsFiniteSet(S) /\ IsFiniteSet(T) /\ Cardinality(S) \in Nat /\ Cardinality(T) \in Nat
    BY ThreadsFinite
  <1>2. CASE t \in S /\ t \notin T
    <2>1. T = S \ {t}
      BY <1>2
    <2> QED
      BY <1>1, <1>2, <2>1, FS_RemoveElement DEF One
  <1>3. CASE t \notin S /\ t \in T
    <2>1. T = S \cup {t}
      BY <1>3
    <2> QED
      BY <1>1, <1>3, <2>1, FS_AddElement DEF One
  <1>4. CASE (t \in S) <=> (t \in T)
    <2>1. T = S
      BY <1>4
    <2> QED
      BY <1>1, <2>1 DEF One
  <1> QED
    BY <1>2, <1>3, <1>4

(* What a thread adds to the count of c. *)
Weight(x, c) == One(HoldsIt(x, c)) + One(LogsTo(x, c))

(* One thread takes a step: the holds on c change by what it gains. *)
LEMMA OneThread ==
  ASSUME Typed, NEW t \in Threads, NEW r \in Records, th' = [th EXCEPT ![t] = r], NEW c
  PROVE  /\ Cardinality(Users(c)') + Cardinality(Loggers(c)')
              = Cardinality(Users(c)) + Cardinality(Loggers(c)) - Weight(th[t], c) + Weight(r, c)
         /\ Cardinality(Users(c)) + Cardinality(Loggers(c)) \in Nat
  <1>1. th'[t] = r /\ \A u \in Threads \ {t} : th'[u] = th[u]
    BY DEF Typed
  <1>2. Users(c) \in SUBSET Threads /\ Loggers(c) \in SUBSET Threads
        /\ Users(c)' \in SUBSET Threads /\ Loggers(c)' \in SUBSET Threads
    BY DEF Users, Loggers
  <1>3. t \in Users(c) <=> HoldsIt(th[t], c)
    BY DEF Users
  <1>4. t \in Users(c)' <=> HoldsIt(r, c)
    BY <1>1 DEF Users
  <1>5. t \in Loggers(c) <=> LogsTo(th[t], c)
    BY DEF Loggers
  <1>6. t \in Loggers(c)' <=> LogsTo(r, c)
    BY <1>1 DEF Loggers
  <1>7. \A u \in Threads \ {t} : /\ u \in Users(c) <=> u \in Users(c)'
                                 /\ u \in Loggers(c) <=> u \in Loggers(c)'
    BY <1>1 DEF Users, Loggers
  <1>8. Cardinality(Users(c)') = Cardinality(Users(c)) - One(t \in Users(c)) + One(t \in Users(c)')
    BY <1>2, <1>7, SetCount
  <1>9. Cardinality(Loggers(c)')
          = Cardinality(Loggers(c)) - One(t \in Loggers(c)) + One(t \in Loggers(c)')
    BY <1>2, <1>7, SetCount
  <1>10. Cardinality(Users(c)) \in Nat /\ Cardinality(Loggers(c)) \in Nat
    BY <1>2, ThreadsFinite
  <1> QED
    BY <1>3, <1>4, <1>5, <1>6, <1>8, <1>9, <1>10 DEF Weight, One

(* A structure that a thread or the program points at is counted. *)
LEMMA Positive ==
  ASSUME Inv, NEW t \in Threads, NEW c \in Cfgs
  PROVE  /\ cfg[c].count \in Nat
         /\ HoldsIt(th[t], c) \/ LogsTo(th[t], c) \/ current_config = c
              \/ (new = c /\ At("main", "dropold")) => cfg[c].count > 0
         /\ HoldsIt(th[t], c) /\ LogsTo(th[t], c) => cfg[c].count > 1
         /\ (HoldsIt(th[t], c) \/ LogsTo(th[t], c)) /\ Base(c) > 0 => cfg[c].count > 1
  <1>1. Users(c) \in SUBSET Threads /\ Loggers(c) \in SUBSET Threads
    BY DEF Users, Loggers
  <1>2. IsFiniteSet(Users(c)) /\ IsFiniteSet(Loggers(c))
        /\ Cardinality(Users(c)) \in Nat /\ Cardinality(Loggers(c)) \in Nat
    BY <1>1, ThreadsFinite
  <1>3. HoldsIt(th[t], c) => Users(c) # {}
    BY DEF Users
  <1>4. LogsTo(th[t], c) => Loggers(c) # {}
    BY DEF Loggers
  <1>5. HoldsIt(th[t], c) => Cardinality(Users(c)) > 0
    BY <1>2, <1>3, FS_EmptySet
  <1>6. LogsTo(th[t], c) => Cardinality(Loggers(c)) > 0
    BY <1>2, <1>4, FS_EmptySet
  <1>7. cfg[c].count = Cardinality(Users(c)) + Cardinality(Loggers(c)) + Base(c)
    BY DEF Inv, Counted
  <1>8. Base(c) \in 0..2 /\ (current_config = c => Base(c) > 0)
        /\ (new = c /\ At("main", "dropold") => Base(c) > 0)
    BY DEF Base, One
  <1> QED
    BY <1>2, <1>5, <1>6, <1>7, <1>8

(* The invariant gives the property. *)
LEMMA InvLive == Inv => ConfigLive
  <1> SUFFICES ASSUME Inv, NEW c \in Cfgs, cfg[c].freed
               PROVE  c # current_config /\ \A t \in Threads : ~Uses(t, c)
    BY DEF ConfigLive
  <1>1. cfg[c].count = 0
    BY DEF Inv, Sound
  <1>2. "main" \in Threads
    BY DEF Threads
  <1>3. c # current_config
    BY <1>1, <1>2, Positive
  <1>4. ASSUME NEW t \in Threads, Uses(t, c)
        PROVE  HoldsIt(th[t], c) \/ LogsTo(th[t], c)
    <2>1. CASE th[t].clone /\ th[t].cfg = c
      <3>1. Place(th[t]) \in ClonePlaces
        BY <2>1 DEF Inv, Placed
      <3> QED
        BY <2>1, <3>1 DEF HoldsIt, HoldPlaces, ClonePlaces
    <2>2. CASE ~th[t].clone
      BY <1>4, <2>2 DEF Uses, HoldsIt, LogsTo, HoldPlaces, Place
    <2> QED
      BY <1>4, <2>1, <2>2 DEF Uses, LogsTo
  <1> QED
    BY <1>1, <1>3, <1>4, Positive

-----------------------------------------------------------------------------
(* What the invariant asks of the record of thread t. *)
Fits(t, r) ==
  /\ r \in Records
  /\ Place(r) \in HoldPlaces => r.cfg \in Cfgs
  /\ r.pc = "on_log" => r.gone \in Cfgs
  /\ r.clone => t # "main" /\ Place(r) \in ClonePlaces

LEMMA FitsPlaced ==
  ASSUME Inv, NEW t \in Threads, NEW r, Fits(t, r), th' = [th EXCEPT ![t] = r]
  PROVE  Placed' /\ th' \in [Threads -> Records] /\ th'[t] = r
         /\ \A u \in Threads \ {t} : th'[u] = th[u]
  <1>1. th' \in [Threads -> Records] /\ th'[t] = r /\ \A u \in Threads \ {t} : th'[u] = th[u]
    BY DEF Inv, Typed, Fits
  <1> QED
    BY <1>1 DEF Inv, Placed, Fits

LEMMA CountedStep ==
  ASSUME Inv, NEW t \in Threads, NEW r \in Records, th' = [th EXCEPT ![t] = r],
         \A c \in Cfgs : cfg'[c].count = cfg[c].count - Weight(th[t], c) + Weight(r, c)
                                           + Base(c)' - Base(c)
  PROVE  Counted'
  <1> SUFFICES ASSUME NEW c \in Cfgs
               PROVE  cfg'[c].count = Cardinality(Users(c)') + Cardinality(Loggers(c)') + Base(c)'
    BY DEF Counted
  <1>1. cfg[c].count = Cardinality(Users(c)) + Cardinality(Loggers(c)) + Base(c)
    BY DEF Inv, Counted
  <1>2. Cardinality(Users(c)') + Cardinality(Loggers(c)')
          = Cardinality(Users(c)) + Cardinality(Loggers(c)) - Weight(th[t], c) + Weight(r, c)
        /\ Cardinality(Users(c)) + Cardinality(Loggers(c)) \in Nat
    BY OneThread DEF Inv
  <1>3. Users(c) \in SUBSET Threads /\ Loggers(c) \in SUBSET Threads
        /\ Users(c)' \in SUBSET Threads /\ Loggers(c)' \in SUBSET Threads
    BY DEF Users, Loggers
  <1>4. Cardinality(Users(c)) \in Nat /\ Cardinality(Loggers(c)) \in Nat
        /\ Cardinality(Users(c)') \in Nat /\ Cardinality(Loggers(c)') \in Nat
    BY <1>3, ThreadsFinite
  <1>5. Weight(th[t], c) \in Nat /\ Weight(r, c) \in Nat /\ Base(c) \in Nat /\ Base(c)' \in Nat
    BY DEF Weight, Base, One
  <1> QED
    BY <1>1, <1>2, <1>4, <1>5

(* A thread goes on and keeps its holds. *)
LEMMA Moves ==
  ASSUME Inv, NEW t \in Threads, NEW r, Fits(t, r), th' = [th EXCEPT ![t] = r],
         th[t].pc # "free", r.pc # "free",
         t = "main" => th[t].pc \notin Busy /\ r.pc \notin Busy,
         \A c \in Cfgs : Weight(r, c) = Weight(th[t], c),
         UNCHANGED <<cfg, current_config, new, disk, script>>
  PROVE  Inv'
  <1> USE DEF Inv
  <1>1. Placed' /\ th' \in [Threads -> Records] /\ th'[t] = r
        /\ \A u \in Threads \ {t} : th'[u] = th[u]
    BY FitsPlaced
  <1>2. Typed'
    BY <1>1 DEF Typed
  <1>3. \A c : Base(c)' = Base(c)
    BY <1>1 DEF Base, Busy, At
  <1>4. Counted'
    <2>1. \A c \in Cfgs : cfg[c].count \in Int
      BY DEF Typed, Structs
    <2>2. \A c \in Cfgs : Weight(th[t], c) \in Int /\ Base(c) \in Int
      BY DEF Weight, Base, One
    <2>3. \A c \in Cfgs : cfg'[c].count = cfg[c].count - Weight(th[t], c) + Weight(r, c)
                                           + Base(c)' - Base(c)
      BY <1>3, <2>1, <2>2
    <2> QED
      BY <2>3, CountedStep DEF Fits
  <1>5. Sound'
    BY DEF Sound
  <1>6. Freeing'
    BY <1>1 DEF Freeing, Freer
  <1>7. Working'
    BY <1>1 DEF Working, Freer, Busy, At
  <1> QED
    BY <1>1, <1>2, <1>4, <1>5, <1>6, <1>7

(* A thread whose record x becomes r has one more hold of k. *)
Gains(x, r, k) == \A c \in Cfgs : Weight(r, c) = Weight(x, c) + One(c = k)

(* One more hold of k is counted. *)
CountedUp(k) == cfg' = [cfg EXCEPT ![k].count = @ + 1]

(* Only the use count of one structure is changed. *)
LEMMA CountSet ==
  ASSUME Typed, NEW k \in Cfgs, NEW n \in Int, cfg' = [cfg EXCEPT ![k].count = n]
  PROVE  /\ cfg' \in [Cfgs -> Structs] /\ cfg'[k].count = n
         /\ cfg[k].count \in Int
         /\ \A c \in Cfgs : /\ cfg'[c].ver = cfg[c].ver /\ cfg'[c].freed = cfg[c].freed
                            /\ cfg[c].count \in Int
                            /\ c # k => cfg'[c] = cfg[c]
  <1> DEFINE x == [cfg[k] EXCEPT !.count = n]
  <1>1. cfg \in [Cfgs -> Structs] /\ cfg[k] \in Structs
    BY DEF Typed
  <1>2. cfg' = [cfg EXCEPT ![k] = x]
    OBVIOUS
  <1>3. x \in Structs /\ x.count = n /\ x.ver = cfg[k].ver /\ x.freed = cfg[k].freed
    BY <1>1 DEF Structs
  <1> HIDE DEF x
  <1>4. /\ cfg' \in [Cfgs -> Structs] /\ cfg'[k] = x
        /\ \A c \in Cfgs : c # k => cfg'[c] = cfg[c]
    BY <1>1, <1>2, <1>3
  <1>5. \A c \in Cfgs : cfg[c].count \in Int
    BY <1>1 DEF Structs
  <1> QED
    BY <1>3, <1>4, <1>5

LEMMA CountsUp ==
  ASSUME Typed, NEW k \in Cfgs, cfg' = [cfg EXCEPT ![k].count = @ + 1]
  PROVE  /\ cfg' \in [Cfgs -> Structs]
         /\ \A c \in Cfgs : /\ cfg'[c].count = cfg[c].count + One(c = k)
                            /\ cfg'[c].ver = cfg[c].ver /\ cfg'[c].freed = cfg[c].freed
                            /\ c # k => cfg'[c] = cfg[c]
  <1> DEFINE n == cfg[k].count + 1
  <1>1. n \in Int /\ cfg' = [cfg EXCEPT ![k].count = n]
    BY DEF Typed, Structs
  <1> HIDE DEF n
  <1>2. /\ cfg' \in [Cfgs -> Structs] /\ cfg'[k].count = n
        /\ \A c \in Cfgs : /\ cfg'[c].ver = cfg[c].ver /\ cfg'[c].freed = cfg[c].freed
                           /\ cfg[c].count \in Int
                           /\ c # k => cfg'[c] = cfg[c]
    BY <1>1, CountSet
  <1>3. \A c \in Cfgs : cfg'[c].count = cfg[c].count + One(c = k)
    BY <1>2 DEF n, One
  <1> QED
    BY <1>2, <1>3

(* A thread takes one more hold of structure k, which is held by others. *)
LEMMA Locks ==
  ASSUME Inv, NEW t \in Threads, NEW r, Fits(t, r), th' = [th EXCEPT ![t] = r],
         th[t].pc # "free", r.pc # "free",
         t = "main" => th[t].pc \notin Busy /\ r.pc \notin Busy,
         NEW k \in Cfgs, cfg[k].count > 0, CountedUp(k),
         Gains(th[t], r, k),
         UNCHANGED <<current_config, new, disk, script>>
  PROVE  Inv'
  <1> USE DEF Inv
  <1>1. Placed' /\ th' \in [Threads -> Records] /\ th'[t] = r
        /\ \A u \in Threads \ {t} : th'[u] = th[u]
    BY FitsPlaced
  <1>2. /\ cfg' \in [Cfgs -> Structs]
        /\ \A c \in Cfgs : /\ cfg'[c].count = cfg[c].count + One(c = k)
                           /\ cfg'[c].ver = cfg[c].ver /\ cfg'[c].freed = cfg[c].freed
                           /\ c # k => cfg'[c] = cfg[c]
    BY CountsUp DEF CountedUp
  <1>3. Typed'
    BY <1>1, <1>2 DEF Typed
  <1>4. \A c : Base(c)' = Base(c)
    BY <1>1 DEF Base, Busy, At
  <1>5. Counted'
    <2>1. \A c \in Cfgs : cfg[c].count \in Int
      BY DEF Typed, Structs
    <2>2. \A c \in Cfgs : Weight(th[t], c) \in Int /\ Base(c) \in Int /\ One(c = k) \in Int
      BY DEF Weight, Base, One
    <2>3. \A c \in Cfgs : cfg'[c].count = cfg[c].count - Weight(th[t], c) + Weight(r, c)
                                           + Base(c)' - Base(c)
      BY <1>2, <1>4, <2>1, <2>2 DEF Gains
    <2> QED
      BY <2>3, CountedStep DEF Fits
  <1>6. Sound'
    BY <1>2 DEF Sound, One
  <1>7. Freeing'
    BY <1>1, <1>2 DEF Freeing, Freer
  <1>8. Working'
    <2>1. Fresh.count = 0
      BY DEF Fresh
    <2> QED
      BY <1>1, <1>2, <2>1 DEF Working, Freer, Busy, At
  <1> QED
    BY <1>1, <1>3, <1>5, <1>6, <1>7, <1>8

(* What unlock_config_structure makes of the thread. *)
Unlocked(t, k, next) ==
  [th[t] EXCEPT !.pc = IF cfg[k].count = 1 THEN "free" ELSE next,
                !.after = IF cfg[k].count = 1 THEN next ELSE "none",
                !.gone = IF cfg[k].count = 1 THEN k ELSE 0]

(* A thread gives back one hold of structure k, its own or, when checkcfg  *)
(* has replaced the pointer, that of the pointer; the last one frees it.   *)
LEMMA Unlocks ==
  ASSUME Inv, NEW t \in Threads, NEW k \in Cfgs, cfg[k].count > 0,
         NEW next \in Places, next \notin Busy \cup {"free", "on_log"},
         unlock_config_structure(t, k, next),
         th[t].pc # "free",
         t = "main" => th[t].pc \notin {"read", "include", "perl"},
         next \in HoldPlaces => th[t].cfg \in Cfgs,
         th[t].clone => t # "main" /\ next \in ClonePlaces,
         \A c \in Cfgs : One(next \in HoldPlaces /\ th[t].cfg = c) + Base(c)'
                           = Weight(th[t], c) + Base(c) - One(c = k),
         new' = new \/ t = "main",
         UNCHANGED <<current_config, disk, script>>
  PROVE  Inv'
  <1> USE DEF Inv
  <1> DEFINE r == Unlocked(t, k, next)
  <1>0. cfg' = [cfg EXCEPT ![k].count = @ - 1]
    BY DEF unlock_config_structure
  <1>1. /\ cfg' \in [Cfgs -> Structs]
        /\ \A c \in Cfgs : /\ cfg'[c].count = cfg[c].count - One(c = k)
                           /\ cfg'[c].ver = cfg[c].ver /\ cfg'[c].freed = cfg[c].freed
                           /\ c # k => cfg'[c] = cfg[c]
    <2> DEFINE n == cfg[k].count - 1
    <2>1. n \in Int /\ cfg' = [cfg EXCEPT ![k].count = n]
      BY <1>0 DEF Typed, Structs
    <2> HIDE DEF n
    <2>2. /\ cfg' \in [Cfgs -> Structs] /\ cfg'[k].count = n
          /\ \A c \in Cfgs : /\ cfg'[c].ver = cfg[c].ver /\ cfg'[c].freed = cfg[c].freed
                             /\ cfg[c].count \in Int
                             /\ c # k => cfg'[c] = cfg[c]
      BY <2>1, CountSet
    <2>3. \A c \in Cfgs : cfg'[c].count = cfg[c].count - One(c = k)
      BY <2>2 DEF n, One
    <2> QED
      BY <2>2, <2>3
  <1>2. cfg[k].count \in Int /\ (cfg'[k].count = 0 <=> cfg[k].count = 1)
    BY <1>1 DEF Typed, Structs, One
  <1>3. th' = [th EXCEPT ![t] = r]
    BY <1>2 DEF unlock_config_structure, Unlocked, Typed, Records
  <1>4. /\ r \in Records /\ r.cfg = th[t].cfg /\ r.clone = th[t].clone
        /\ Place(r) = next /\ r.pc \in {next, "free"}
        /\ r.pc = "free" <=> cfg[k].count = 1
        /\ r.pc = "free" => r.gone = k /\ r.after = next
    <2>1. th[t] \in Records /\ k \in Nat
      BY Bounds DEF Typed, Cfgs
    <2>2. r \in Records /\ r.cfg = th[t].cfg /\ r.clone = th[t].clone
          /\ r.pc = (IF cfg[k].count = 1 THEN "free" ELSE next)
          /\ r.after = (IF cfg[k].count = 1 THEN next ELSE "none")
          /\ r.gone = (IF cfg[k].count = 1 THEN k ELSE 0)
      <3> DEFINE p == IF cfg[k].count = 1 THEN "free" ELSE next
                 a == IF cfg[k].count = 1 THEN next ELSE "none"
                 g == IF cfg[k].count = 1 THEN k ELSE 0
      <3>1. p \in Places /\ a \in Places /\ g \in Nat
        BY <2>1 DEF Places
      <3>2. r = [th[t] EXCEPT !.pc = p, !.after = a, !.gone = g]
        BY DEF Unlocked
      <3> HIDE DEF p, a, g, r
      <3>3. r \in Records /\ r.pc = p /\ r.after = a /\ r.gone = g
            /\ r.cfg = th[t].cfg /\ r.clone = th[t].clone
        BY <2>1, <3>1, <3>2 DEF Records
      <3> QED
        BY <3>3 DEF p, a, g
    <2> HIDE DEF r
    <2> QED
      BY <2>2 DEF Place
  <1> HIDE DEF r
  <1>5. Fits(t, r)
    BY <1>4 DEF Fits
  <1>6. Placed' /\ th' \in [Threads -> Records] /\ th'[t] = r
        /\ \A u \in Threads \ {t} : th'[u] = th[u]
    BY <1>3, <1>5, FitsPlaced
  <1>7. Typed'
    BY <1>1, <1>6 DEF Typed
  <1>8. Counted'
    <2>1. \A c \in Cfgs : cfg[c].count \in Int
      BY DEF Typed, Structs
    <2>2. \A c \in Cfgs : Weight(r, c) = One(next \in HoldPlaces /\ th[t].cfg = c)
      BY <1>4 DEF Weight, HoldsIt, LogsTo, One
    <2>3. \A c \in Cfgs : Weight(th[t], c) \in Int /\ Base(c) \in Int /\ Base(c)' \in Int
                          /\ Weight(r, c) \in Int /\ One(c = k) \in Int
      BY DEF Weight, Base, One
    <2>4. \A c \in Cfgs : cfg'[c].count = cfg[c].count - Weight(th[t], c) + Weight(r, c)
                                           + Base(c)' - Base(c)
      BY <1>1, <2>1, <2>2, <2>3
    <2> QED
      BY <1>3, <1>4, <2>4, CountedStep
  <1>9. Sound'
    BY <1>1, <1>2 DEF Sound, One
  <1>10. Freeing'
    <2>1. \A u \in Threads : ~Freer(u, k)
      BY DEF Freeing, Freer
    <2>2. ASSUME NEW u \in Threads, th'[u].pc = "free", u # t
          PROVE  /\ th'[u] = th[u] /\ th[u].gone # k /\ th[u].gone \in Cfgs
                 /\ cfg'[th[u].gone] = cfg[th[u].gone]
      <3>1. th'[u] = th[u]
        BY <1>6, <2>2
      <3>2. th[u].gone # k /\ th[u].gone \in Cfgs
        BY <2>1, <2>2, <3>1 DEF Freeing, Freer
      <3> QED
        BY <1>1, <3>1, <3>2
    <2>3. ASSUME r.pc = "free"
          PROVE  /\ cfg'[k].count = 0 /\ ~cfg'[k].freed /\ cfg'[k].ver["main"] > 0
                 /\ r.after \notin Busy \cup {"free", "on_log"}
      BY <1>1, <1>2, <1>4, <2>3 DEF Sound
    <2>4. ASSUME NEW u \in Threads, NEW v \in Threads, NEW c \in Cfgs,
                 Freer(u, c)', Freer(v, c)'
          PROVE  u = v
      <3>1. CASE u # t /\ v # t
        BY <1>6, <2>4, <3>1 DEF Freeing, Freer
      <3>2. CASE u = t \/ v = t
        BY <1>4, <1>6, <2>2, <2>4, <3>2 DEF Freer
      <3> QED
        BY <3>1, <3>2
    <2>5. ASSUME NEW u \in Threads, th'[u].pc = "free"
          PROVE  /\ th'[u].after \notin Busy \cup {"free", "on_log"}
                 /\ th'[u].gone \in Cfgs
                 /\ cfg'[th'[u].gone].count = 0 /\ ~cfg'[th'[u].gone].freed
                 /\ cfg'[th'[u].gone].ver["main"] > 0
      <3>1. CASE u = t
        BY <1>4, <1>6, <2>3, <2>5, <3>1
      <3>2. CASE u # t
        BY <2>2, <2>5, <3>2 DEF Freeing
      <3> QED
        BY <3>1, <3>2
    <2> QED
      BY <2>4, <2>5 DEF Freeing, Freer
  <1>11. Working'
    <2>1. CASE t = "main"
      BY <1>4, <1>6, <2>1 DEF Working, Busy, At
    <2>2. CASE t # "main"
      <3>1. Fresh.count = 0 /\ "main" \in Threads
        BY DEF Fresh, Threads
      <3>2. th'["main"] = th["main"] /\ new' = new
        BY <1>6, <2>2, <3>1
      <3>3. ASSUME At("main", "read") PROVE \E c \in Cfgs : cfg'[c] = Fresh
        BY <1>1, <3>1, <3>3 DEF Working
      <3>4. ASSUME th["main"].pc \in {"include", "perl"}
            PROVE  /\ new \in Cfgs /\ cfg'[new] = cfg[new]
                   /\ \A u \in Threads : ~Freer(u, new)'
        <4>1. new \in Cfgs /\ new # k
          BY <3>4 DEF Working
        <4> QED
          BY <1>1, <1>4, <1>6, <3>4, <4>1 DEF Working, Freer
      <3> QED
        BY <3>2, <3>3, <3>4 DEF Working, At
    <2> QED
      BY <2>1, <2>2
  <1> QED
    BY <1>6, <1>7, <1>8, <1>9, <1>10, <1>11

(* A thread goes from one place to another, both with or both without a    *)
(* hold.                                                                   *)
LEMMA Goes ==
  ASSUME Inv, NEW t \in Threads, NEW next \in Places, Goto(t, next),
         th[t].pc \notin {"free", "on_log"}, next \notin {"free", "on_log"},
         t = "main" => th[t].pc \notin Busy /\ next \notin Busy,
         th[t].pc \in HoldPlaces <=> next \in HoldPlaces,
         th[t].clone => next \in ClonePlaces,
         UNCHANGED <<cfg, current_config, new, disk, script>>
  PROVE  Inv'
  <1> DEFINE r == [th[t] EXCEPT !.pc = next]
  <1>1. th[t] \in Records
    BY DEF Inv, Typed
  <1>2. r \in Records /\ r.pc = next /\ r.cfg = th[t].cfg /\ r.clone = th[t].clone
    BY <1>1 DEF Records
  <1>3. th' = [th EXCEPT ![t] = r]
    BY DEF Goto, Inv, Typed
  <1> HIDE DEF r
  <1>4. Place(r) = next /\ Place(th[t]) = th[t].pc
    BY <1>2 DEF Place
  <1>5. Fits(t, r)
    BY <1>2, <1>4 DEF Fits, Inv, Placed
  <1>6. \A c \in Cfgs : Weight(r, c) = Weight(th[t], c)
    BY <1>2, <1>4 DEF Weight, HoldsIt, LogsTo, One
  <1> QED
    BY <1>2, <1>3, <1>5, <1>6, Moves

(* The clone is destroyed, and the thread goes on to give its hold back. *)
LEMMA Unclones ==
  ASSUME Inv, NEW t \in Threads, NEW next \in {"unlock", "unlock_down"},
         perl_done_clone(t, next), t # "main",
         th[t].pc \in ClonePlaces \ {"on_log"}
  PROVE  Inv'
  <1> DEFINE r == [th[t] EXCEPT !.pc = next, !.clone = FALSE]
  <1>1. th[t] \in Records
    BY DEF Inv, Typed
  <1>2. r \in Records /\ r.pc = next /\ r.cfg = th[t].cfg /\ r.clone = FALSE
    BY <1>1 DEF Records, Places
  <1>3. th' = [th EXCEPT ![t] = r]
    BY DEF perl_done_clone, Inv, Typed
  <1> HIDE DEF r
  <1>4. Place(r) = next /\ Place(th[t]) = th[t].pc /\ th[t].pc # "free"
    BY <1>2 DEF Place, ClonePlaces
  <1>5. Fits(t, r)
    BY <1>2, <1>4 DEF Fits, Inv, Placed, HoldPlaces, ClonePlaces
  <1>6. \A c \in Cfgs : Weight(r, c) = Weight(th[t], c)
    BY <1>2, <1>4 DEF Weight, HoldsIt, LogsTo, One, HoldPlaces, ClonePlaces
  <1>7. UNCHANGED <<cfg, current_config, new, disk, script>>
    BY DEF perl_done_clone, world
  <1> QED
    BY <1>2, <1>3, <1>4, <1>5, <1>6, <1>7, Moves

(* At the start the pointer is the only user. *)
LEMMA InitInv == Init => Inv
  <1> SUFFICES ASSUME Init PROVE Inv
    OBVIOUS
  <1>1. 1 \in Cfgs /\ Cfgs \subseteq Nat
    BY Bounds DEF Cfgs
  <1>2. disk.ver = [f \in Files |-> 1] /\ disk.mtime = [f \in Files |-> 1]
    BY DEF Init
  <1>3. Fresh \in Structs /\ Fresh.count = 0 /\ Fresh.freed = FALSE
    BY DEF Fresh, Structs
  <1>4. cfg \in [Cfgs -> Structs] /\ \A c \in Cfgs : cfg[c].count = One(c = 1) /\ cfg[c].freed = FALSE
    <2> DEFINE first == [Fresh EXCEPT !.count = 1, !.ver = disk.ver, !.mtime = disk.mtime,
                                      !.perl = TRUE]
    <2>0. disk.ver \in [Files -> Nat] /\ disk.mtime \in [Files -> Nat]
      BY <1>2
    <2>1. first \in Structs /\ first.count = 1 /\ first.freed = FALSE
      <3>1. PICK n \in Int : n = 1
        OBVIOUS
      <3>2. PICK b \in BOOLEAN : b = TRUE
        OBVIOUS
      <3>3. PICK v \in [Files -> Nat] : v = disk.ver
        BY <2>0
      <3>4. PICK m \in [Files -> Nat] : m = disk.mtime
        BY <2>0
      <3>5. first = [Fresh EXCEPT !.count = n, !.ver = v, !.mtime = m, !.perl = b]
        BY <3>1, <3>2, <3>3, <3>4
      <3> HIDE DEF first
      <3>6. first \in Structs /\ first.count = n /\ first.freed = Fresh.freed
        BY <1>3, <3>5 DEF Structs
      <3> QED
        BY <1>3, <3>1, <3>6
    <2>2. cfg = [c \in Cfgs |-> IF c = 1 THEN first ELSE Fresh]
      BY DEF Init
    <2> HIDE DEF first
    <2> QED
      BY <1>3, <2>1, <2>2 DEF One
  <1>5. cfg[1].ver["main"] = 1 /\ disk.ver["main"] = 1
    BY <1>1, <1>2 DEF Init, Fresh, Files
  <1>6. \A t \in Threads : /\ th[t] \in Records /\ th[t].pc \in {"none", "lock"}
                           /\ th[t].clone = FALSE
    <2>1. \A t \in Threads : th[t] = [Idle EXCEPT !.pc = IF t \in Sessions THEN "none" ELSE "lock"]
      BY DEF Init
    <2>2. ASSUME NEW p \in {"none", "lock"}
          PROVE  /\ [Idle EXCEPT !.pc = p] \in Records /\ [Idle EXCEPT !.pc = p].pc = p
                 /\ [Idle EXCEPT !.pc = p].clone = FALSE
      BY DEF Idle, Records, Places
    <2> QED
      BY <2>1, <2>2
  <1>7. th \in [Threads -> Records]
    BY <1>6 DEF Init
  <1>8. Typed
    <2>1. script = [ok |-> TRUE, strict |-> FALSE] \/ script \in [ok : {FALSE}, strict : BOOLEAN]
      BY DEF Init
    <2>2. script.ok \in BOOLEAN
      <3>1. CASE script = [ok |-> TRUE, strict |-> FALSE]
        BY <3>1
      <3>2. CASE script \in [ok : {FALSE}, strict : BOOLEAN]
        BY <3>2
      <3> QED
        BY <2>1, <3>1, <3>2
    <2> QED
      BY <1>1, <1>2, <1>4, <1>5, <1>7, <2>2 DEF Init, Typed
  <1>9. "main" \in Threads
    BY DEF Threads
  <1>10. Placed /\ Freeing /\ Working
    BY <1>6, <1>9 DEF Placed, Freeing, Working, Place, HoldPlaces, At
  <1>11. Sound
    BY <1>4, <1>5 DEF Sound, One
  <1>12. Counted
    <2>1. \A c \in Cfgs : Users(c) = {} /\ Loggers(c) = {}
      BY <1>6 DEF Users, Loggers, HoldsIt, LogsTo, Place, HoldPlaces
    <2>2. \A c \in Cfgs : Base(c) = One(c = 1)
      BY <1>6, <1>9 DEF Base, At, One, Init
    <2> QED
      BY <1>4, <2>1, <2>2, FS_EmptySet DEF Counted, One
  <1> QED
    BY <1>8, <1>10, <1>11, <1>12 DEF Inv

(* The last user frees the structure, which is then nobody's for good. *)
LEMMA Frees ==
  ASSUME Inv, NEW t \in Threads, free_config(t)
  PROVE  Inv'
  <1> USE DEF Inv
  <1> DEFINE k == th[t].gone
             r == [th[t] EXCEPT !.pc = th[t].after, !.gone = 0, !.after = "none"]
  <1>1. /\ th[t].pc = "free" /\ th[t].after \notin Busy \cup {"free", "on_log"}
        /\ k \in Cfgs /\ cfg[k].count = 0
        /\ \A u \in Threads \ {t} : ~Freer(u, k)
    BY DEF free_config, Freeing
  <1>2. /\ cfg' \in [Cfgs -> Structs]
        /\ cfg'[k].count = 0
        /\ \A c \in Cfgs \ {k} : cfg'[c] = cfg[c]
    <2>1. cfg' = [cfg EXCEPT ![k] = Destroyed(perl_done(cfg[k]))]
      BY DEF free_config
    <2>2. Destroyed(perl_done(cfg[k])) \in Structs /\ Destroyed(perl_done(cfg[k])).count = 0
      <3>1. cfg[k] \in Structs
        BY <1>1 DEF Typed
      <3>2. perl_done(cfg[k]) \in Structs /\ perl_done(cfg[k]).count = 0
        BY <1>1, <3>1 DEF perl_done, Structs
      <3> QED
        BY <3>2 DEF Destroyed, Fresh, Structs
    <2> QED
      BY <1>1, <2>1, <2>2 DEF Typed
  <1>3. r \in Records /\ r.pc = th[t].after /\ r.cfg = th[t].cfg /\ r.clone = th[t].clone
    <2>1. th[t] \in Records /\ th[t].after \in Places /\ "none" \in Places
      BY DEF Typed, Records, Places
    <2> QED
      BY <2>1 DEF Records
  <1>4. th' = [th EXCEPT ![t] = r]
    BY DEF free_config, Typed
  <1>5. UNCHANGED <<current_config, new, disk, script>>
    BY DEF free_config, world
  <1> HIDE DEF r
  <1>6. Place(r) = Place(th[t]) /\ Place(r) = r.pc
    BY <1>1, <1>3 DEF Place
  <1>7. Fits(t, r)
    BY <1>1, <1>3, <1>6 DEF Fits, Placed
  <1>8. Placed' /\ th' \in [Threads -> Records] /\ th'[t] = r
        /\ \A u \in Threads \ {t} : th'[u] = th[u]
    BY <1>4, <1>7, FitsPlaced
  <1>9. Typed'
    BY <1>2, <1>5, <1>8 DEF Typed
  <1>10. th["main"].pc \in Busy \/ th'["main"].pc \in Busy => t # "main" /\ th'["main"] = th["main"]
    <2>1. "main" \in Threads
      BY DEF Threads
    <2> QED
      BY <1>1, <1>3, <1>8, <2>1 DEF Busy
  <1>11. \A c : Base(c)' = Base(c)
    BY <1>5, <1>10 DEF Base, At, Busy
  <1>12. Counted'
    <2>1. \A c \in Cfgs : cfg[c].count \in Int /\ cfg'[c].count = cfg[c].count
      BY <1>1, <1>2 DEF Typed, Structs
    <2>2. \A c \in Cfgs : Weight(r, c) = Weight(th[t], c)
      BY <1>1, <1>3, <1>6 DEF Weight, HoldsIt, LogsTo, One
    <2>3. \A c \in Cfgs : Weight(th[t], c) \in Int /\ Base(c) \in Int
      BY DEF Weight, Base, One
    <2>4. \A c \in Cfgs : cfg'[c].count = cfg[c].count - Weight(th[t], c) + Weight(r, c)
                                           + Base(c)' - Base(c)
      BY <1>11, <2>1, <2>2, <2>3
    <2> QED
      BY <1>3, <1>4, <2>4, CountedStep
  <1>13. Sound'
    BY <1>2 DEF Sound
  <1>14. Freeing'
    <2>1. ASSUME NEW u \in Threads, th'[u].pc = "free"
          PROVE  u # t /\ th'[u] = th[u] /\ th[u].gone \in Cfgs \ {k}
      BY <1>1, <1>3, <1>8, <2>1 DEF Freeing, Freer
    <2> QED
      BY <1>2, <2>1 DEF Freeing, Freer
  <1>15. Working'
    <2>1. ASSUME At("main", "read") PROVE \E c \in Cfgs : cfg'[c] = Fresh
      <3>1. Fresh.ver["main"] = 0
        BY DEF Fresh, Files
      <3>2. cfg[k].ver["main"] > 0
        BY <1>1 DEF Freeing
      <3>3. cfg[k] # Fresh
        BY <3>1, <3>2
      <3> QED
        BY <1>2, <2>1, <3>3 DEF Working
    <2>2. ASSUME th["main"].pc \in {"include", "perl"}
          PROVE  /\ new \in Cfgs /\ cfg'[new] = cfg[new]
                 /\ \A u \in Threads : ~Freer(u, new)'
      <3>1. new \in Cfgs /\ \A u \in Threads : ~Freer(u, new)
        BY <2>2 DEF Working
      <3>2. new # k
        BY <1>1, <3>1 DEF Freer
      <3>3. r.pc # "free"
        BY <1>1, <1>3
      <3> QED
        BY <1>2, <1>5, <1>8, <3>1, <3>2, <3>3 DEF Freer
    <2> QED
      BY <1>5, <1>10, <2>1, <2>2 DEF Working, At, Busy
  <1> QED
    BY <1>8, <1>9, <1>12, <1>13, <1>14, <1>15

-----------------------------------------------------------------------------
(* Main works on a structure that is nobody else's: the counts of the      *)
(* others do not change.                                                   *)
LEMMA MainCounted ==
  ASSUME Inv, NEW next \in Places, Goto("main", next),
         th["main"].pc \in HoldPlaces \ {"on_log", "free"}, next \in HoldPlaces \ {"on_log", "free"},
         \A c \in Cfgs : cfg'[c].count = cfg[c].count + Base(c)' - Base(c)
  PROVE  /\ Counted' /\ Placed'
         /\ th' \in [Threads -> Records] /\ th'["main"].pc = next
         /\ \A u \in Threads \ {"main"} : th'[u] = th[u]
  <1> DEFINE r == [th["main"] EXCEPT !.pc = next]
  <1>0. "main" \in Threads
    BY DEF Threads
  <1>1. th["main"] \in Records
    BY <1>0 DEF Inv, Typed
  <1>2. r \in Records /\ r.pc = next /\ r.cfg = th["main"].cfg /\ r.clone = th["main"].clone
    BY <1>1 DEF Records
  <1>3. th' = [th EXCEPT !["main"] = r]
    BY <1>0 DEF Goto, Inv, Typed
  <1> HIDE DEF r
  <1>4. Place(r) = next /\ Place(th["main"]) = th["main"].pc
    BY <1>2 DEF Place
  <1>5. Fits("main", r)
    BY <1>0, <1>2, <1>4 DEF Fits, Inv, Placed
  <1>6. \A c \in Cfgs : Weight(r, c) = Weight(th["main"], c)
    BY <1>2, <1>4 DEF Weight, HoldsIt, LogsTo, One
  <1>7. \A c \in Cfgs : Weight(r, c) \in Int /\ Base(c) \in Int /\ Base(c)' \in Int
                        /\ cfg[c].count \in Int
    BY DEF Weight, Base, One, Inv, Typed, Structs
  <1>8. \A c \in Cfgs : cfg'[c].count = cfg[c].count - Weight(th["main"], c) + Weight(r, c)
                                         + Base(c)' - Base(c)
    BY <1>6, <1>7
  <1>9. Counted'
    BY <1>0, <1>2, <1>3, <1>8, CountedStep
  <1> QED
    BY <1>0, <1>2, <1>3, <1>5, <1>9, FitsPlaced

(* checkcfg writes the times it found into the current structure, and goes *)
(* on to read only while a structure is left for it.                       *)
LEMMA CheckcfgInv == Inv /\ checkcfg => Inv'
  <1> SUFFICES ASSUME Inv, checkcfg PROVE Inv'
    OBVIOUS
  <1> USE DEF Inv
  <1>0. "main" \in Threads
    BY DEF Threads
  <1>1. PICK next \in {"read", "select"} :
          Goto("main", next) /\ (next = "read" => \E c \in Cfgs : cfg[c] = Fresh)
    BY DEF checkcfg
  <1>2. /\ cfg' \in [Cfgs -> Structs]
        /\ \A c \in Cfgs : /\ cfg'[c].count = cfg[c].count
                           /\ cfg'[c].ver = cfg[c].ver /\ cfg'[c].freed = cfg[c].freed
                           /\ c # current_config => cfg'[c] = cfg[c]
    <2> DEFINE m == [f \in Files |-> IF f \in Changed THEN disk.mtime[f]
                                     ELSE cfg[current_config].mtime[f]]
    <2>1. m \in [Files -> Nat]
      BY DEF Typed, Structs
    <2>2. cfg' = [cfg EXCEPT ![current_config].mtime = m]
      BY DEF checkcfg
    <2> HIDE DEF m
    <2> QED
      BY <2>1, <2>2 DEF Typed, Structs
  <1>3. UNCHANGED <<current_config, new, disk, script>> /\ th["main"].pc = "select"
    BY DEF checkcfg, At
  <1>4. \A c : Base(c) = One(current_config = c)
    BY <1>3 DEF Base, At, One
  <1>5. \A c : Base(c)' = One(current_config = c)
    <2>1. th'["main"].pc = next
      BY <1>0, <1>1 DEF Goto, Typed
    <2> QED
      BY <1>1, <1>3, <2>1 DEF Base, At, One
  <1>6. \A c \in Cfgs : cfg'[c].count = cfg[c].count + Base(c)' - Base(c)
    BY <1>2, <1>4, <1>5 DEF One, Typed, Structs
  <1>7. /\ Counted' /\ Placed'
        /\ th' \in [Threads -> Records] /\ th'["main"].pc = next
        /\ \A u \in Threads \ {"main"} : th'[u] = th[u]
    BY <1>1, <1>3, <1>6, MainCounted DEF HoldPlaces, Places
  <1>8. Typed'
    BY <1>2, <1>3, <1>7 DEF Typed
  <1>9. Sound'
    BY <1>2 DEF Sound
  <1>10. Freeing'
    <2>1. ASSUME NEW u \in Threads, th'[u].pc = "free" PROVE u # "main" /\ th'[u] = th[u]
      BY <1>7, <2>1
    <2> QED
      BY <1>2, <2>1 DEF Freeing, Freer
  <1>11. Working'
    <2>1. ASSUME next = "read" PROVE \E c \in Cfgs : cfg'[c] = Fresh
      <3>1. Fresh.count = 0 /\ cfg[current_config].count > 0
        BY <1>0, Positive DEF Fresh, Typed
      <3> QED
        BY <1>1, <1>2, <2>1, <3>1
    <2> QED
      BY <1>1, <1>7, <2>1 DEF Working, At
  <1> QED
    BY <1>7, <1>8, <1>9, <1>10, <1>11

(* A step of main on a structure k that nobody holds and nobody frees. *)
LEMMA WorksOn ==
  ASSUME Inv, NEW next \in Places, Goto("main", next),
         th["main"].pc \in HoldPlaces \ {"on_log", "free"}, next \in HoldPlaces \ {"on_log", "free"},
         NEW k \in Cfgs, \A u \in Threads : ~Freer(u, k),
         cfg' \in [Cfgs -> Structs], \A c \in Cfgs \ {k} : cfg'[c] = cfg[c],
         cfg'[k].freed = FALSE, cfg'[k].count > 0 => cfg'[k].ver["main"] > 0,
         \A c \in Cfgs : cfg'[c].count = cfg[c].count + Base(c)' - Base(c),
         current_config' \in Cfgs, UNCHANGED <<disk, script>>,
         next # "read",
         next \in {"include", "perl"} =>
           new' = k /\ cfg'[k].count = 0 /\ cfg'[k].ver["main"] > 0,
         next = "dropold" => new' \in Cfgs
  PROVE  Inv'
  <1> USE DEF Inv
  <1>1. /\ Counted' /\ Placed'
        /\ th' \in [Threads -> Records] /\ th'["main"].pc = next
        /\ \A u \in Threads \ {"main"} : th'[u] = th[u]
    BY MainCounted
  <1>2. Typed'
    BY <1>1 DEF Typed
  <1>3. Sound'
    BY DEF Sound
  <1>4. ASSUME NEW u \in Threads, th'[u].pc = "free"
        PROVE  u # "main" /\ th'[u] = th[u] /\ th[u].gone \in Cfgs \ {k}
    BY <1>1, <1>4 DEF Freeing, Freer
  <1>5. Freeing'
    BY <1>4 DEF Freeing, Freer
  <1>6. Working'
    BY <1>1, <1>4 DEF Working, At, Freer
  <1> QED
    BY <1>1, <1>2, <1>3, <1>5, <1>6

(* A new structure is begun: one that nobody has pointed at since it was   *)
(* allocated.                                                              *)
LEMMA OpenedStruct ==
  ASSUME Inv, NEW f \in Files, NEW k \in Cfgs, cfg' = Opened(f, k)
  PROVE  /\ cfg' \in [Cfgs -> Structs] /\ \A c \in Cfgs \ {k} : cfg'[c] = cfg[c]
         /\ cfg'[k].freed = cfg[k].freed /\ cfg'[k].count = cfg[k].count
         /\ f = "main" => cfg'[k].ver["main"] > 0
         /\ cfg[k].ver["main"] > 0 => cfg'[k].ver["main"] > 0
  <1> DEFINE v == [cfg[k].ver EXCEPT ![f] = disk.ver[f]]
             m == [cfg[k].mtime EXCEPT ![f] = disk.mtime[f]]
  <1>1. cfg \in [Cfgs -> Structs] /\ cfg[k] \in Structs
        /\ disk.ver \in [Files -> Nat] /\ disk.mtime \in [Files -> Nat]
    BY DEF Inv, Typed
  <1>2. v \in [Files -> Nat] /\ m \in [Files -> Nat]
    BY <1>1 DEF Structs
  <1>3. "main" \in Files /\ disk.ver["main"] > 0
    BY DEF Files, Inv, Typed
  <1>4. (f = "main" => v["main"] > 0) /\ (cfg[k].ver["main"] > 0 => v["main"] > 0)
    BY <1>1, <1>3 DEF Structs
  <1>5. cfg' = [cfg EXCEPT ![k] = [cfg[k] EXCEPT !.ver = v, !.mtime = m]]
    BY <1>1 DEF Opened, Structs
  <1> HIDE DEF v, m
  <1>6. [cfg[k] EXCEPT !.ver = v, !.mtime = m] \in Structs
        /\ [cfg[k] EXCEPT !.ver = v, !.mtime = m].ver = v
        /\ [cfg[k] EXCEPT !.ver = v, !.mtime = m].freed = cfg[k].freed
        /\ [cfg[k] EXCEPT !.ver = v, !.mtime = m].count = cfg[k].count
    BY <1>1, <1>2 DEF Structs
  <1> QED
    BY <1>1, <1>4, <1>5, <1>6

(* As long as the pointer stays, so do the holds that are not a thread's. *)
LEMMA PointerStays ==
  ASSUME Inv, NEW next, Goto("main", next), th["main"].pc # "dropold", next # "dropold",
         current_config' = current_config, \A c \in Cfgs : cfg'[c].count = cfg[c].count
  PROVE  \A c \in Cfgs : cfg'[c].count = cfg[c].count + Base(c)' - Base(c)
  <1>1. th'["main"].pc = next
    BY DEF Threads, Goto, Inv, Typed
  <1>2. \A c : Base(c) = One(current_config = c) /\ Base(c)' = One(current_config = c)
    BY <1>1 DEF Base, At, One
  <1> QED
    BY <1>2 DEF One, Inv, Typed, Structs

(* Where main is when it loads a configuration. *)
LEMMA LoadPlaces ==
  /\ {"select", "read", "include", "perl", "dropold"} \subseteq Places
  /\ {"select", "read", "include", "perl", "dropold"} \subseteq HoldPlaces \ {"on_log", "free"}
  BY DEF Places, HoldPlaces

(* The error path of checkcfg: the structure under work is as it was       *)
(* before.                                                                 *)
LEMMA UseOldInv ==
  ASSUME Inv, th["main"].pc \in {"include", "perl"}, UseOld,
         UNCHANGED <<current_config, disk, script>>
  PROVE  Inv'
  <1>1. /\ new \in Cfgs /\ cfg[new].count = 0
        /\ \A u \in Threads : ~Freer(u, new)
    BY DEF Inv, Working
  <1>2. Fresh \in Structs /\ Fresh.count = 0 /\ Fresh.freed = FALSE
    BY DEF Fresh, Structs
  <1>3. cfg' \in [Cfgs -> Structs] /\ cfg'[new] = Fresh /\ \A c \in Cfgs \ {new} : cfg'[c] = cfg[c]
    BY <1>1, <1>2 DEF UseOld, Inv, Typed
  <1>4. \A c \in Cfgs : cfg'[c].count = cfg[c].count
    BY <1>1, <1>2, <1>3
  <1>5. Goto("main", "select")
    BY DEF UseOld
  <1>6. \A c \in Cfgs : cfg'[c].count = cfg[c].count + Base(c)' - Base(c)
    BY <1>4, <1>5, PointerStays
  <1>7. cfg'[new].freed = FALSE /\ (cfg'[new].count > 0 => cfg'[new].ver["main"] > 0)
    BY <1>2, <1>3
  <1>8. current_config' \in Cfgs /\ UNCHANGED <<disk, script>>
    BY DEF Inv, Typed
  <1> QED
    BY <1>1, <1>3, <1>5, <1>6, <1>7, <1>8, WorksOn, LoadPlaces

LEMMA ReadcfgInv == Inv /\ readcfg => Inv'
  <1> SUFFICES ASSUME Inv, readcfg PROVE Inv'
    OBVIOUS
  <1>0. th["main"].pc = "read" /\ "main" \in Files
    BY DEF readcfg, At, Files
  <1>1. UNCHANGED <<current_config, disk, script>> /\ UNCHANGED <<disk, script>>
        /\ current_config' \in Cfgs
    BY DEF readcfg, world, Inv, Typed
  <1>2. \A k \in Cfgs : cfg[k] = Fresh => \A u \in Threads : ~Freer(u, k)
    BY DEF Freer, Inv, Freeing, Fresh, Files
  <1>3. Unused \in Cfgs /\ cfg[Unused] = Fresh
    <2>1. \E c \in Cfgs : cfg[c] = Fresh
      BY <1>0 DEF Inv, Working, At
    <2> QED
      BY <2>1 DEF Unused
  <1>4. cfg[Unused].count = 0 /\ cfg[Unused].freed = FALSE
    BY <1>3 DEF Fresh
  <1>5. CASE "main" \in disk.bad
    <2>1. UNCHANGED cfg /\ Goto("main", "select")
      BY <1>5 DEF readcfg
    <2>2. cfg' \in [Cfgs -> Structs] /\ \A c \in Cfgs \ {Unused} : cfg'[c] = cfg[c]
      BY <2>1 DEF Inv, Typed
    <2>3. cfg'[Unused].freed = FALSE /\ (cfg'[Unused].count > 0 => cfg'[Unused].ver["main"] > 0)
      BY <1>4, <2>1
    <2>4. \A c \in Cfgs : cfg'[c].count = cfg[c].count + Base(c)' - Base(c)
      BY <1>0, <1>1, <2>1, PointerStays
    <2> QED
      BY <1>0, <1>1, <1>2, <1>3, <2>1, <2>2, <2>3, <2>4, WorksOn, LoadPlaces
  <1>6. CASE "main" \notin disk.bad
    <2>1. PICK next \in {"include", "perl"} : Goto("main", next)
      BY <1>6 DEF readcfg
    <2>2. new' = Unused /\ cfg' = Opened("main", Unused)
      BY <1>6 DEF readcfg
    <2>3. /\ cfg' \in [Cfgs -> Structs] /\ \A c \in Cfgs \ {Unused} : cfg'[c] = cfg[c]
          /\ cfg'[Unused].freed = cfg[Unused].freed /\ cfg'[Unused].count = cfg[Unused].count
          /\ cfg'[Unused].ver["main"] > 0
      BY <1>0, <1>3, <2>2, OpenedStruct
    <2>4. \A c \in Cfgs : cfg'[c].count = cfg[c].count
      BY <2>3
    <2>5. \A c \in Cfgs : cfg'[c].count = cfg[c].count + Base(c)' - Base(c)
      BY <1>0, <1>1, <2>1, <2>4, PointerStays
    <2>6. cfg'[Unused].freed = FALSE /\ cfg'[Unused].count = 0
      BY <1>4, <2>3
    <2> QED
      BY <1>0, <1>1, <1>2, <1>3, <2>1, <2>2, <2>3, <2>5, <2>6, WorksOn, LoadPlaces
  <1> QED
    BY <1>5, <1>6

LEMMA IncludeInv == Inv /\ read_include => Inv'
  <1> SUFFICES ASSUME Inv, read_include PROVE Inv'
    OBVIOUS
  <1>0. th["main"].pc = "include" /\ "inc" \in Files
    BY DEF read_include, At, Files
  <1>1. UNCHANGED <<current_config, disk, script>> /\ UNCHANGED <<disk, script>>
        /\ current_config' \in Cfgs
    BY DEF read_include, world, Inv, Typed
  <1>2. CASE UseOld
    BY <1>0, <1>1, <1>2, UseOldInv
  <1>3. CASE ~UseOld
    <2>1. cfg' = Opened("inc", new) /\ Goto("main", "perl") /\ new' = new
      BY <1>3 DEF read_include
    <2>2. /\ new \in Cfgs /\ cfg[new].count = 0 /\ ~cfg[new].freed /\ cfg[new].ver["main"] > 0
          /\ \A u \in Threads : ~Freer(u, new)
      BY <1>0 DEF Inv, Working
    <2>3. /\ cfg' \in [Cfgs -> Structs] /\ \A c \in Cfgs \ {new} : cfg'[c] = cfg[c]
          /\ cfg'[new].freed = cfg[new].freed /\ cfg'[new].count = cfg[new].count
          /\ cfg'[new].ver["main"] > 0
      BY <1>0, <2>1, <2>2, OpenedStruct
    <2>4. \A c \in Cfgs : cfg'[c].count = cfg[c].count
      BY <2>3
    <2>5. \A c \in Cfgs : cfg'[c].count = cfg[c].count + Base(c)' - Base(c)
      BY <1>0, <1>1, <2>1, <2>4, PointerStays
    <2>6. cfg'[new].freed = FALSE /\ cfg'[new].count = 0
      BY <2>2, <2>3 DEF Inv, Typed, Structs
    <2> QED
      BY <1>0, <1>1, <2>1, <2>2, <2>3, <2>5, <2>6, WorksOn, LoadPlaces
  <1> QED
    BY <1>2, <1>3

(* The pointer changes: the new structure is counted for it, the old one   *)
(* is still counted until checkcfg gives it up.                            *)
LEMMA SwapInv == Inv /\ swap_config => Inv'
  <1> SUFFICES ASSUME Inv, swap_config PROVE Inv'
    OBVIOUS
  <1>0. th["main"].pc = "perl" /\ Goto("main", "dropold") /\ "main" \in Threads
    BY DEF swap_config, At, Threads
  <1>1. current_config' = new /\ new' = current_config /\ UNCHANGED <<disk, script>>
    BY DEF swap_config, world
  <1>2. /\ new \in Cfgs /\ cfg[new].count = 0 /\ cfg[new].freed = FALSE /\ cfg[new].ver["main"] > 0
        /\ \A u \in Threads : ~Freer(u, new)
    BY <1>0 DEF Inv, Working, Typed, Structs
  <1>3. current_config \in Cfgs /\ current_config # new
    BY <1>0, <1>2, Positive DEF Inv, Typed
  <1>4. /\ cfg' \in [Cfgs -> Structs] /\ \A c \in Cfgs \ {new} : cfg'[c] = cfg[c]
        /\ cfg'[new].count = 1 /\ cfg'[new].freed = FALSE /\ cfg'[new].ver["main"] > 0
    <2>1. cfg \in [Cfgs -> Structs] /\ cfg[new] \in Structs /\ script.ok \in BOOLEAN
      BY <1>2 DEF Inv, Typed
    <2>2. PICK n \in Int : n = 1
      OBVIOUS
    <2>3. PICK b \in BOOLEAN : b = script.ok
      BY <2>1
    <2> DEFINE x == [cfg[new] EXCEPT !.count = n, !.perl = b]
    <2>4. cfg' = [cfg EXCEPT ![new] = x]
      BY <1>2, <2>1, <2>2, <2>3 DEF swap_config
    <2>5. x \in Structs /\ x.count = n /\ x.freed = cfg[new].freed /\ x.ver = cfg[new].ver
      BY <2>1 DEF Structs
    <2> HIDE DEF x
    <2> QED
      BY <1>2, <2>1, <2>2, <2>4, <2>5
  <1>5. \A c \in Cfgs : cfg'[c].count = cfg[c].count + Base(c)' - Base(c)
    <2>1. th'["main"].pc = "dropold"
      BY <1>0 DEF Goto, Inv, Typed
    <2>2. \A c : Base(c) = One(current_config = c)
      BY <1>0 DEF Base, At, One
    <2>3. \A c : Base(c)' = One(new = c) + One(current_config = c)
      BY <1>1, <2>1 DEF Base, At, One
    <2>4. \A c \in Cfgs : cfg[c].count \in Int
      BY DEF Inv, Typed, Structs
    <2> QED
      BY <1>2, <1>3, <1>4, <2>2, <2>3, <2>4 DEF One
  <1> QED
    BY <1>0, <1>1, <1>2, <1>3, <1>4, <1>5, WorksOn, LoadPlaces

(* An unlock that leaves pointers and work alone changes no hold but the   *)
(* thread's.                                                               *)
LEMMA UnlockBase ==
  ASSUME Inv, NEW t \in Threads, NEW k, NEW next \in Places, next # "dropold",
         unlock_config_structure(t, k, next),
         t = "main" => th[t].pc # "dropold",
         UNCHANGED <<current_config, new>>
  PROVE  \A c \in Cfgs : Base(c)' = Base(c)
  <1>1. "main" \in Threads
    BY DEF Threads
  <1>2. th'["main"].pc = "dropold" <=> th["main"].pc = "dropold"
    BY <1>1 DEF unlock_config_structure, Inv, Typed, Records
  <1> QED
    BY <1>2 DEF Base, At

(* A thread gives back its own hold. *)
LEMMA GivesBack ==
  ASSUME Inv, NEW t \in Threads, NEW next \in Places \ (HoldPlaces \cup {"free"}),
         unlock_config_structure(t, th[t].cfg, next),
         th[t].pc \in HoldPlaces \ (Busy \cup {"on_log"}), ~th[t].clone,
         UNCHANGED <<current_config, new, disk, script>>
  PROVE  Inv'
  <1> DEFINE k == th[t].cfg
  <1>1. next \notin Busy \cup {"free", "on_log"} /\ next # "dropold" /\ next \in Places
    BY DEF Busy, HoldPlaces
  <1>2. th[t].pc # "free" /\ th[t].pc \notin {"read", "include", "perl"} /\ th[t].pc # "dropold"
    BY DEF Busy, HoldPlaces
  <1>3. Place(th[t]) = th[t].pc
    BY <1>2 DEF Place
  <1>4. k \in Cfgs /\ HoldsIt(th[t], k)
    BY <1>3 DEF Inv, Placed, HoldsIt
  <1>5. cfg[k].count > 0
    BY <1>4, Positive
  <1>6. \A c \in Cfgs : Base(c)' = Base(c)
    BY <1>1, <1>2, UnlockBase
  <1>7. \A c \in Cfgs : One(next \in HoldPlaces /\ th[t].cfg = c) + Base(c)'
                          = Weight(th[t], c) + Base(c) - One(c = k)
    BY <1>3, <1>6 DEF Weight, HoldsIt, LogsTo, One, Base
  <1>8. UNCHANGED <<current_config, disk, script>> /\ new' = new
    OBVIOUS
  <1> HIDE DEF k
  <1>9. unlock_config_structure(t, k, next)
    BY DEF k
  <1> QED
    BY <1>1, <1>2, <1>4, <1>5, <1>7, <1>8, <1>9, Unlocks

(* The logger gives back the hold it logged under. *)
LEMMA LogDoneInv ==
  ASSUME Inv, NEW s \in Threads, s # "main", log_done(s)
  PROVE  Inv'
  <1> DEFINE k == th[s].gone
  <1>1. th[s].pc = "on_log" /\ unlock_config_structure(s, k, "logged")
        /\ UNCHANGED <<current_config, disk, script>> /\ new' = new
    BY DEF log_done, At, world
  <1>2. Place(th[s]) = "on_log"
    BY <1>1 DEF Place
  <1>3. k \in Cfgs /\ th[s].cfg \in Cfgs /\ LogsTo(th[s], k)
    BY <1>1, <1>2 DEF Inv, Placed, LogsTo, HoldPlaces
  <1>4. cfg[k].count > 0
    BY <1>3, Positive
  <1>5. "logged" \in Places /\ "logged" \in HoldPlaces /\ "logged" \in ClonePlaces
        /\ "logged" \notin Busy \cup {"free", "on_log"}
    BY DEF Places, HoldPlaces, ClonePlaces, Busy
  <1>6. \A c \in Cfgs : Base(c)' = Base(c)
    BY <1>1, <1>5, UnlockBase DEF Busy
  <1>7. \A c \in Cfgs : One("logged" \in HoldPlaces /\ th[s].cfg = c) + Base(c)'
                          = Weight(th[s], c) + Base(c) - One(c = k)
    BY <1>1, <1>2, <1>5, <1>6 DEF Weight, HoldsIt, LogsTo, One, Base, HoldPlaces
  <1>8. th[s].pc # "free"
    BY <1>1
  <1> HIDE DEF k
  <1> QED
    BY <1>1, <1>3, <1>4, <1>5, <1>7, <1>8, Unlocks

(* checkcfg gives back the hold of the pointer it has replaced. *)
LEMMA DropOldInv == Inv /\ drop_old => Inv'
  <1> SUFFICES ASSUME Inv, drop_old PROVE Inv'
    OBVIOUS
  <1>1. th["main"].pc = "dropold" /\ unlock_config_structure("main", new, "leave")
        /\ new' = 0 /\ UNCHANGED <<current_config, disk, script>> /\ "main" \in Threads
    BY DEF drop_old, At, world, Threads
  <1>2. Place(th["main"]) = "dropold"
    BY <1>1 DEF Place
  <1>3. new \in Cfgs /\ th["main"].cfg \in Cfgs
    BY <1>1, <1>2 DEF Inv, Working, Placed, At, HoldPlaces
  <1>4. cfg[new].count > 0
    BY <1>1, <1>3, Positive DEF At
  <1>5. "leave" \in Places /\ "leave" \in HoldPlaces /\ "leave" \notin Busy \cup {"free", "on_log"}
    BY DEF Places, HoldPlaces, Busy
  <1>6. ~th["main"].clone
    BY <1>1 DEF Inv, Placed
  <1>7. th'["main"].pc # "dropold"
    BY <1>1 DEF unlock_config_structure, Inv, Typed, Records
  <1>8. \A c \in Cfgs : Base(c)' = Base(c) - One(c = new)
    BY <1>1, <1>7 DEF Base, At, One
  <1>9. \A c \in Cfgs : One("leave" \in HoldPlaces /\ th["main"].cfg = c) + Base(c)'
                          = Weight(th["main"], c) + Base(c) - One(c = new)
    BY <1>1, <1>2, <1>5, <1>8 DEF Weight, HoldsIt, LogsTo, One, Base, HoldPlaces
  <1>10. th["main"].pc # "free" /\ th["main"].pc \notin {"read", "include", "perl"}
    BY <1>1
  <1> QED
    BY <1>1, <1>3, <1>4, <1>5, <1>6, <1>9, <1>10, Unlocks
-----------------------------------------------------------------------------
(* A thread without a hold takes one of the current structure. *)
LEMMA LocksCurrent ==
  ASSUME Inv, NEW t \in Threads, NEW next \in HoldPlaces \ (Busy \cup {"on_log", "free"}),
         NEW b \in BOOLEAN, b => t # "main" /\ next \in ClonePlaces,
         th[t].pc \notin HoldPlaces \cup {"free"},
         lock_current_config(t),
         th' = [th EXCEPT ![t] = [th[t] EXCEPT !.pc = next, !.cfg = current_config, !.clone = b]],
         UNCHANGED <<current_config, new, disk, script>>
  PROVE  Inv'
  <1> DEFINE r == [th[t] EXCEPT !.pc = next, !.cfg = current_config, !.clone = b]
  <1>1. current_config \in Cfgs /\ current_config \in Nat /\ th[t] \in Records /\ next \in Places
    BY Bounds DEF Inv, Typed, Cfgs, HoldPlaces, Places
  <1>2. r \in Records /\ r.pc = next /\ r.cfg = current_config /\ r.clone = b
    BY <1>1 DEF Records
  <1> HIDE DEF r
  <1>3. Place(r) = next /\ Place(th[t]) = th[t].pc
    BY <1>2 DEF Place
  <1>4. Fits(t, r)
    BY <1>1, <1>2, <1>3 DEF Fits
  <1>5. \A c \in Cfgs : Weight(r, c) = Weight(th[t], c) + One(c = current_config)
    BY <1>2, <1>3 DEF Weight, HoldsIt, LogsTo, One, HoldPlaces
  <1>6. cfg[current_config].count > 0
    BY <1>1, Positive
  <1>7. cfg' = [cfg EXCEPT ![current_config].count = @ + 1]
    BY DEF lock_current_config
  <1>8. th[t].pc # "free" /\ r.pc # "free"
        /\ (t = "main" => th[t].pc \notin Busy /\ r.pc \notin Busy)
    BY <1>2 DEF Busy, HoldPlaces
  <1>9. th' = [th EXCEPT ![t] = r]
    BY DEF r
  <1>10. PICK k \in Cfgs : k = current_config
    BY <1>1
  <1>11. /\ cfg[k].count > 0 /\ CountedUp(k)
         /\ Gains(th[t], r, k)
    BY <1>5, <1>6, <1>7, <1>10 DEF CountedUp, Gains
  <1> QED
    BY <1>4, <1>8, <1>9, <1>11, Locks

(* The logger takes a hold of its own beside the session's. *)
LEMMA OnLogInv ==
  ASSUME Inv, NEW s \in Threads, s # "main", perl_on_log(s)
  PROVE  Inv'
  <1> DEFINE r == [th[s] EXCEPT !.pc = "on_log", !.gone = current_config]
  <1>1. current_config \in Cfgs /\ current_config \in Nat /\ th[s] \in Records /\ "on_log" \in Places
    BY Bounds DEF Inv, Typed, Cfgs, Places
  <1>2. r \in Records /\ r.pc = "on_log" /\ r.cfg = th[s].cfg /\ r.clone = th[s].clone
        /\ r.gone = current_config
    BY <1>1 DEF Records
  <1>3. th[s].pc = "session" /\ th' = [th EXCEPT ![s] = r]
    BY <1>1 DEF perl_on_log, At, Inv, Typed
  <1> HIDE DEF r
  <1>4. Place(r) = "on_log" /\ Place(th[s]) = "session"
    BY <1>2, <1>3 DEF Place
  <1>5. Fits(s, r)
    BY <1>1, <1>2, <1>4 DEF Fits, Inv, Placed, HoldPlaces, ClonePlaces
  <1>6. \A c \in Cfgs : Weight(r, c) = Weight(th[s], c) + One(c = current_config)
    BY <1>2, <1>3, <1>4 DEF Weight, HoldsIt, LogsTo, One, HoldPlaces
  <1>7. cfg[current_config].count > 0
    BY <1>1, Positive
  <1>8. cfg' = [cfg EXCEPT ![current_config].count = @ + 1]
        /\ UNCHANGED <<current_config, new, disk, script>>
    BY DEF perl_on_log, lock_current_config, world
  <1>9. th[s].pc # "free" /\ r.pc # "free"
    BY <1>2, <1>3
  <1>10. PICK k \in Cfgs : k = current_config
    BY <1>1
  <1>11. /\ cfg[k].count > 0 /\ CountedUp(k)
         /\ Gains(th[s], r, k)
    BY <1>6, <1>7, <1>8, <1>10 DEF CountedUp, Gains
  <1> QED
    BY <1>3, <1>5, <1>8, <1>9, <1>11, Locks

(* A caller is started with a hold that clientmgr takes for it, of the     *)
(* structure that clientmgr itself holds.                                  *)
LEMMA CallInv ==
  ASSUME Inv, NEW s \in Sessions, do_client_call(s)
  PROVE  Inv'
  <1> USE DEF Inv
  <1> DEFINE k == th["cmgr"].cfg
             q == [th["cmgr"] EXCEPT !.pc = AfterClient]
             r == branch("clone", k, "call")
  <1>1. /\ s \in Threads /\ "cmgr" \in Threads /\ "main" \in Threads
        /\ s # "cmgr" /\ s # "main" /\ "cmgr" # "main"
    BY Bounds DEF Threads
  <1>2. th["cmgr"].pc = "client" /\ th[s].pc = "none"
    BY DEF do_client_call, At
  <1>3. k \in Cfgs /\ k \in Nat /\ HoldsIt(th["cmgr"], k)
    BY <1>1, <1>2, Bounds DEF Placed, Place, HoldPlaces, Cfgs, HoldsIt
  <1>4. cfg[k].count > 0
    BY <1>1, <1>3, Positive
  <1>5. cfg' = [cfg EXCEPT ![k].count = @ + 1]
    BY DEF do_client_call
  <1>6. UNCHANGED <<current_config, new, disk, script>>
    BY DEF do_client_call, world
  <1>7. AfterClient \in {"down", "loop"}
    BY DEF AfterClient
  <1>8. q \in Records /\ q.pc \in {"down", "loop"} /\ q.cfg = k /\ q.clone = th["cmgr"].clone
    <2>1. th["cmgr"] \in Records /\ AfterClient \in Places
      BY <1>1, <1>7 DEF Typed, Places
    <2> HIDE DEF AfterClient
    <2> QED
      BY <1>7, <2>1 DEF Records
  <1>9. r \in Records /\ r.pc = "clone" /\ r.cfg = k /\ r.clone = FALSE
    BY <1>3 DEF branch, Idle, Records, Places
  <1>10. th' = [th EXCEPT !["cmgr"] = q, ![s] = r]
    BY <1>1 DEF do_client_call, Typed
  <1> HIDE DEF q, r, k
  <1>11. /\ th' \in [Threads -> Records]
         /\ th'["cmgr"] = q /\ th'[s] = r /\ \A u \in Threads \ {s, "cmgr"} : th'[u] = th[u]
    BY <1>1, <1>8, <1>9, <1>10 DEF Typed
  <1>12. Place(q) = q.pc /\ Place(r) = "clone" /\ Place(th["cmgr"]) = "client" /\ Place(th[s]) = "none"
    BY <1>2, <1>8, <1>9 DEF Place
  <1>13. /\ cfg' \in [Cfgs -> Structs]
         /\ \A c \in Cfgs : /\ cfg'[c].count = cfg[c].count + One(c = k)
                            /\ cfg'[c].ver = cfg[c].ver /\ cfg'[c].freed = cfg[c].freed
                            /\ c # k => cfg'[c] = cfg[c]
    BY <1>3, <1>5, CountsUp
  <1>14. Typed'
    BY <1>6, <1>11, <1>13 DEF Typed
  <1>15. Placed'
    <2>1. ASSUME NEW u \in Threads \ {s, "cmgr"}
          PROVE  th'[u] = th[u]
      BY <1>11
    <2>2. q.clone => q.pc \in ClonePlaces
      BY <1>8 DEF ClonePlaces
    <2> QED
      BY <1>1, <1>3, <1>8, <1>9, <1>11, <1>12, <2>1, <2>2 DEF Placed
  <1>16. Counted'
    <2> SUFFICES ASSUME NEW c \in Cfgs
                 PROVE  cfg'[c].count = Cardinality(Users(c)') + Cardinality(Loggers(c)') + Base(c)'
      BY DEF Counted
    <2>1. Base(c)' = Base(c) /\ Base(c) \in Int
      BY <1>1, <1>6, <1>11 DEF Base, At, One
    <2>2. HoldsIt(q, c) <=> HoldsIt(th["cmgr"], c)
      BY <1>8, <1>12 DEF HoldsIt, HoldPlaces, k
    <2>3. (HoldsIt(r, c) <=> c = k) /\ ~HoldsIt(th[s], c)
      BY <1>9, <1>12 DEF HoldsIt, HoldPlaces
    <2>4. ~LogsTo(q, c) /\ ~LogsTo(r, c) /\ ~LogsTo(th["cmgr"], c) /\ ~LogsTo(th[s], c)
      BY <1>2, <1>8, <1>9 DEF LogsTo
    <2>5. Loggers(c)' = Loggers(c)
      BY <1>11, <2>4 DEF Loggers
    <2>6. \A u \in Threads \ {s} : u \in Users(c) <=> u \in Users(c)'
      BY <1>11, <2>2 DEF Users
    <2>7. s \notin Users(c) /\ (s \in Users(c)' <=> c = k)
      BY <1>1, <1>11, <2>3 DEF Users
    <2>8. Users(c) \in SUBSET Threads /\ Users(c)' \in SUBSET Threads /\ Loggers(c) \in SUBSET Threads
      BY DEF Users, Loggers
    <2>9. Cardinality(Users(c)') = Cardinality(Users(c)) - One(s \in Users(c)) + One(s \in Users(c)')
      BY <1>1, <2>6, <2>8, SetCount
    <2>10. Cardinality(Users(c)) \in Nat /\ Cardinality(Loggers(c)) \in Nat
      BY <2>8, ThreadsFinite
    <2>11. cfg'[c].count = cfg[c].count + One(c = k)
           /\ cfg[c].count = Cardinality(Users(c)) + Cardinality(Loggers(c)) + Base(c)
      BY <1>13 DEF Counted
    <2> QED
      BY <2>1, <2>5, <2>7, <2>9, <2>10, <2>11 DEF One
  <1>17. Sound'
    BY <1>4, <1>13 DEF Sound, One
  <1>18. Freeing'
    <2>1. ASSUME NEW u \in Threads, th'[u].pc = "free"
          PROVE  u \notin {s, "cmgr"} /\ th'[u] = th[u] /\ th[u].gone \in Cfgs \ {k}
      BY <1>4, <1>8, <1>9, <1>11, <2>1 DEF Freeing
    <2> QED
      BY <1>13, <2>1 DEF Freeing, Freer
  <1>19. Working'
    <2>1. th'["main"] = th["main"] /\ new' = new
      BY <1>1, <1>6, <1>11
    <2>2. ASSUME At("main", "read") PROVE \E c \in Cfgs : cfg'[c] = Fresh
      <3>1. Fresh.count = 0
        BY DEF Fresh
      <3> QED
        BY <1>4, <1>13, <2>2, <3>1 DEF Working
    <2>3. ASSUME th["main"].pc \in {"include", "perl"}
          PROVE  /\ new \in Cfgs /\ cfg'[new] = cfg[new]
                 /\ \A u \in Threads : ~Freer(u, new)'
      <3>1. new \in Cfgs \ {k} /\ \A u \in Threads : ~Freer(u, new)
        BY <1>4, <2>3 DEF Working
      <3>2. \A u \in Threads : ~Freer(u, new)'
        BY <1>8, <1>9, <1>11, <2>1, <3>1 DEF Freer
      <3> QED
        BY <1>13, <3>1, <3>2
    <2> QED
      BY <2>1, <2>2, <2>3 DEF Working, At
  <1> QED
    BY <1>14, <1>15, <1>16, <1>17, <1>18, <1>19

-----------------------------------------------------------------------------
(* Neither the structures nor the threads change, but perhaps the files. *)
LEMMA ThreadsStay ==
  ASSUME Inv, UNCHANGED <<cfg, th, current_config, new>>,
         disk'.ver \in [Files -> Nat], disk'.mtime \in [Files -> Nat], disk'.ver["main"] > 0,
         script' = script
  PROVE  Inv'
  <1> USE DEF Inv
  <1>1. Typed'
    BY DEF Typed
  <1>2. Placed' /\ Sound' /\ Freeing' /\ Working'
    BY DEF Placed, Sound, Freeing, Freer, Working, At
  <1>3. Counted'
    BY DEF Counted, Users, Loggers, Base, At
  <1> QED
    BY <1>1, <1>2, <1>3

LEMMA EditInv ==
  ASSUME Inv, NEW f \in Files, Edit(f)
  PROVE  Inv'
  <1>1. disk.ver \in [Files -> Nat] /\ disk.mtime \in [Files -> Nat] /\ disk.ver["main"] > 0
        /\ "main" \in Files
    BY DEF Inv, Typed, Files
  <1>2. PICK tick \in {0, 1} : /\ disk'.ver = [disk.ver EXCEPT ![f] = @ + 1]
                               /\ disk'.mtime = [disk.mtime EXCEPT ![f] = @ + tick]
    BY DEF Edit
  <1>3. disk'.ver \in [Files -> Nat] /\ disk'.mtime \in [Files -> Nat] /\ disk'.ver["main"] > 0
    BY <1>1, <1>2
  <1>4. UNCHANGED <<cfg, th, current_config, new, script>>
    BY DEF Edit
  <1> QED
    BY <1>3, <1>4, ThreadsStay

LEMMA StutterInv ==
  ASSUME Inv, UNCHANGED <<cfg, th, current_config, new, disk, script>>
  PROVE  Inv'
  BY ThreadsStay DEF Inv, Typed

(* Who is who. *)
LEMMA ThreadNames ==
  /\ "main" \in Threads /\ "cmgr" \in Threads /\ Sessions \subseteq Threads
  /\ "main" \notin Sessions /\ "cmgr" \notin Sessions
  BY Bounds DEF Threads

(* The structure is locked by main, which makes no clone. *)
LEMMA MainLocks ==
  ASSUME Inv, NEW next \in {"listen", "unload"}, th["main"].pc \in {"lock", "last"},
         lock_current_config("main"),
         th' = [th EXCEPT !["main"].pc = next, !["main"].cfg = current_config],
         UNCHANGED <<current_config, new, disk, script>>
  PROVE  Inv'
  <1>1. PICK b \in BOOLEAN : b = th["main"].clone
    BY ThreadNames DEF Inv, Typed, Records
  <1>2. ~b /\ th["main"] \in Records /\ "main" \in Threads
    BY <1>1, ThreadNames DEF Inv, Typed, Placed
  <1>3. [th["main"] EXCEPT !.pc = next, !.cfg = current_config]
          = [th["main"] EXCEPT !.pc = next, !.cfg = current_config, !.clone = b]
    BY <1>1, <1>2 DEF Records
  <1>4. th' = [th EXCEPT !["main"] = [th["main"] EXCEPT !.pc = next, !.cfg = current_config]]
    BY <1>2 DEF Inv, Typed
  <1>5. th' = [th EXCEPT !["main"] = [th["main"] EXCEPT !.pc = next, !.cfg = current_config,
                                                        !.clone = b]]
    BY <1>3, <1>4
  <1>6. next \in HoldPlaces \ (Busy \cup {"on_log", "free"})
        /\ th["main"].pc \notin HoldPlaces \cup {"free"}
    BY DEF HoldPlaces, Busy
  <1> QED
    BY <1>2, <1>5, <1>6, LocksCurrent

(* The structure is locked by another thread, which makes a clone. *)
LEMMA CloneLocks ==
  ASSUME Inv, NEW t \in Threads, t # "main", NEW next \in {"loop", "session"},
         th[t].pc \in {"lock", "born"},
         lock_current_config(t), perl_init_clone(t, current_config, next),
         UNCHANGED <<current_config, new, disk, script>>
  PROVE  Inv'
  <1>1. PICK b \in BOOLEAN : b = cfg[current_config].perl
    BY DEF Inv, Typed, Structs
  <1>2. th' = [th EXCEPT ![t] = [th[t] EXCEPT !.pc = next, !.cfg = current_config, !.clone = b]]
    BY <1>1 DEF perl_init_clone, Inv, Typed
  <1>3. next \in HoldPlaces \ (Busy \cup {"on_log", "free"}) /\ next \in ClonePlaces
        /\ th[t].pc \notin HoldPlaces \cup {"free"}
    BY DEF HoldPlaces, Busy, ClonePlaces
  <1> QED
    BY <1>2, <1>3, LocksCurrent


(* servmgr() and exitfunc(). *)
LEMMA MainInv == Inv /\ (main \/ exitfunc_timeout \/ exitsig) => Inv'
  <1> SUFFICES ASSUME Inv, main \/ exitfunc_timeout \/ exitsig PROVE Inv'
    OBVIOUS
  <1> USE ThreadNames DEF At, world
  <1>0. ~th["main"].clone
    BY DEF Inv, Placed
  <1>1. CASE servmgr_lock
    <2>1. th' = [th EXCEPT !["main"].pc = "listen", !["main"].cfg = current_config]
      BY <1>1 DEF servmgr_lock
    <2> QED
      BY <1>1, <2>1, MainLocks DEF servmgr_lock
  <1>2. CASE exitfunc_lock
    <2>1. th' = [th EXCEPT !["main"].pc = "unload", !["main"].cfg = current_config]
      BY <1>2 DEF exitfunc_lock
    <2> QED
      BY <1>2, <2>1, MainLocks DEF exitfunc_lock
  <1>3. CASE do_server_listen
    <2>1. PICK next \in {"select", "failed"} : Goto("main", next)
      BY <1>3 DEF do_server_listen
    <2>2. next \in Places /\ next \in HoldPlaces /\ next \notin Busy \cup {"free", "on_log"}
          /\ "listen" \in HoldPlaces /\ "listen" \notin Busy
      BY DEF Places, HoldPlaces, Busy
    <2> QED
      BY <1>0, <1>3, <2>1, <2>2, Goes DEF do_server_listen
  <1>4. CASE servmgr_unlock
    <2>1. PICK next \in {"lock", "wait"} : unlock_config_structure("main", th["main"].cfg, next)
      BY <1>4 DEF servmgr_unlock
    <2>2. next \in Places \ (HoldPlaces \cup {"free"})
          /\ th["main"].pc \in HoldPlaces \ (Busy \cup {"on_log"})
      BY <1>4 DEF Places, HoldPlaces, Busy, servmgr_unlock
    <2> QED
      BY <1>0, <1>4, <2>1, <2>2, GivesBack DEF servmgr_unlock
  <1>5. CASE exitfunc_unlock
    <2>1. "over" \in Places \ (HoldPlaces \cup {"free"})
          /\ th["main"].pc \in HoldPlaces \ (Busy \cup {"on_log"})
      BY <1>5 DEF Places, HoldPlaces, Busy, exitfunc_unlock
    <2> QED
      BY <1>0, <1>5, <2>1, GivesBack DEF exitfunc_unlock
  <1>6. CASE exitfunc_wait \/ exitfunc_timeout
    <2>1. PICK next \in {"last", "wait"} : Goto("main", next)
      BY <1>6 DEF exitfunc_wait, exitfunc_timeout
    <2>2. next \in Places /\ next \notin HoldPlaces /\ next \notin Busy \cup {"free", "on_log"}
          /\ "wait" \notin HoldPlaces /\ "wait" \notin Busy
      BY DEF Places, HoldPlaces, Busy
    <2> QED
      BY <1>0, <1>6, <2>1, <2>2, Goes DEF exitfunc_wait, exitfunc_timeout
  <1>7. CASE exitsig
    <2>1. UNCHANGED <<cfg, current_config, new, disk, script>>
      BY <1>7 DEF exitsig
    <2>2. CASE th["main"].pc = "select"
      <3>1. Goto("main", "failed")
        BY <1>7, <2>2 DEF exitsig, Goto
      <3>2. "failed" \in Places /\ "failed" \in HoldPlaces /\ "failed" \notin Busy \cup {"free", "on_log"}
            /\ "select" \in HoldPlaces /\ "select" \notin Busy
        BY DEF Places, HoldPlaces, Busy
      <3> QED
        BY <1>0, <2>1, <2>2, <3>1, <3>2, Goes
    <2>3. CASE th["main"].pc # "select"
      BY <1>7, <2>1, <2>3, StutterInv DEF exitsig
    <2> QED
      BY <2>2, <2>3
  <1>8. CASE perl_init_fails
    BY <1>8, UseOldInv DEF perl_init_fails
  <1> QED
    BY <1>1, <1>2, <1>3, <1>4, <1>5, <1>6, <1>7, <1>8, CheckcfgInv, ReadcfgInv, IncludeInv,
       SwapInv, DropOldInv, Frees DEF main

(* clientmgr(). *)
LEMMA ClientmgrInv == Inv /\ clientmgr => Inv'
  <1> SUFFICES ASSUME Inv, clientmgr PROVE Inv'
    OBVIOUS
  <1> USE ThreadNames DEF At, world
  <1>1. CASE clientmgr_lock
    BY <1>1, CloneLocks DEF clientmgr_lock
  <1>2. CASE clientmgr_loop \/ do_client_idle
    <2>1. PICK next \in {"change", "client", "down", "loop"} : Goto("cmgr", next)
      BY <1>2 DEF clientmgr_loop, do_client_idle, AfterClient
    <2>2. next \in Places /\ next \in HoldPlaces /\ next \in ClonePlaces
          /\ next \notin {"free", "on_log"} /\ {"loop", "client"} \subseteq HoldPlaces
      BY DEF Places, HoldPlaces, ClonePlaces
    <2> QED
      BY <1>2, <2>1, <2>2, Goes DEF clientmgr_loop, do_client_idle
  <1>3. CASE clientmgr_unclone
    BY <1>3, Unclones DEF clientmgr_unclone, ClonePlaces
  <1>4. CASE clientmgr_unlock
    <2>1. PICK next \in {"lock", "ended"} : unlock_config_structure("cmgr", th["cmgr"].cfg, next)
      BY <1>4 DEF clientmgr_unlock
    <2>2. next \in Places \ (HoldPlaces \cup {"free"})
          /\ th["cmgr"].pc \in HoldPlaces \ (Busy \cup {"on_log"})
      BY <1>4 DEF Places, HoldPlaces, Busy, clientmgr_unlock
    <2>3. ~th["cmgr"].clone
      BY <1>4 DEF clientmgr_unlock, Inv, Placed, Place, ClonePlaces
    <2> QED
      BY <1>4, <2>1, <2>2, <2>3, GivesBack DEF clientmgr_unlock
  <1>5. CASE clientmgr_end
    BY <1>5, StutterInv DEF clientmgr_end
  <1> QED
    BY <1>1, <1>2, <1>3, <1>4, <1>5, Frees DEF clientmgr

(* A thread is started for a connection. *)
LEMMA AcceptInv ==
  ASSUME Inv, NEW s \in Sessions, accept(s)
  PROVE  Inv'
  <1> DEFINE r == branch("born", 0, "serv")
  <1>1. r \in Records /\ r.pc = "born" /\ r.clone = FALSE
    BY DEF branch, Idle, Records, Places
  <1>2. th' = [th EXCEPT ![s] = r] /\ th[s].pc = "none"
        /\ UNCHANGED <<cfg, current_config, new, disk, script>>
    BY DEF accept, At, world
  <1> HIDE DEF r
  <1>3. Place(r) = "born" /\ Place(th[s]) = "none"
    BY <1>1, <1>2 DEF Place
  <1>4. Fits(s, r)
    BY <1>1, <1>3 DEF Fits, HoldPlaces
  <1>5. \A c \in Cfgs : Weight(r, c) = Weight(th[s], c)
    BY <1>1, <1>2, <1>3 DEF Weight, HoldsIt, LogsTo, HoldPlaces
  <1>6. th[s].pc # "free" /\ r.pc # "free" /\ s \in Threads /\ s # "main"
    BY <1>1, <1>2, ThreadNames
  <1> QED
    BY <1>2, <1>4, <1>5, <1>6, Moves

(* A session thread ends. *)
LEMMA EndInv ==
  ASSUME Inv, NEW s \in Sessions, session_end(s)
  PROVE  Inv'
  <1>1. Idle \in Records /\ Idle.pc = "none" /\ Idle.clone = FALSE
    BY DEF Idle, Records, Places
  <1>2. th' = [th EXCEPT ![s] = Idle] /\ th[s].pc \in {"ended_serv", "ended_call"}
        /\ UNCHANGED <<cfg, current_config, new, disk, script>>
    BY DEF session_end, At, world
  <1>3. PICK r : r = Idle
    OBVIOUS
  <1>4. Place(r) = "none" /\ Place(th[s]) = th[s].pc
    BY <1>1, <1>2, <1>3 DEF Place
  <1>5. Fits(s, r)
    BY <1>1, <1>3, <1>4 DEF Fits, HoldPlaces
  <1>6. \A c \in Cfgs : Weight(r, c) = Weight(th[s], c)
    BY <1>1, <1>2, <1>3, <1>4 DEF Weight, HoldsIt, LogsTo, HoldPlaces
  <1>7. th' = [th EXCEPT ![s] = r] /\ th[s].pc # "free" /\ r.pc # "free"
    BY <1>1, <1>2, <1>3
  <1> QED
    BY <1>2, <1>5, <1>6, <1>7, ThreadNames, Moves

(* call() makes its clone. *)
LEMMA CallCloneInv ==
  ASSUME Inv, NEW s \in Sessions, call_clone(s)
  PROVE  Inv'
  <1>1. s \in Threads /\ s # "main" /\ th[s].pc = "clone" /\ th[s] \in Records
    BY ThreadNames DEF call_clone, At, Inv, Typed
  <1>2. Place(th[s]) = "clone" /\ th[s].cfg \in Cfgs
    BY <1>1 DEF Place, Inv, Placed, HoldPlaces
  <1>3. PICK b \in BOOLEAN : b = cfg[th[s].cfg].perl
    BY <1>2 DEF Inv, Typed, Structs
  <1> DEFINE r == [th[s] EXCEPT !.pc = "session", !.clone = b]
  <1>4. r \in Records /\ r.pc = "session" /\ r.cfg = th[s].cfg
    BY <1>1 DEF Records, Places
  <1>5. th' = [th EXCEPT ![s] = r]
    <2>1. [th[s] EXCEPT !.pc = "session", !.cfg = th[s].cfg, !.clone = b] = r
      BY <1>1 DEF Records
    <2>2. th' = [th EXCEPT ![s] = [th[s] EXCEPT !.pc = "session", !.cfg = th[s].cfg, !.clone = b]]
      BY <1>1, <1>3 DEF call_clone, perl_init_clone, Inv, Typed
    <2> QED
      BY <2>1, <2>2
  <1> HIDE DEF r
  <1>6. Place(r) = "session"
    BY <1>4 DEF Place
  <1>7. Fits(s, r)
    BY <1>1, <1>2, <1>4, <1>6 DEF Fits, HoldPlaces, ClonePlaces
  <1>8. \A c \in Cfgs : Weight(r, c) = Weight(th[s], c)
    BY <1>1, <1>2, <1>4, <1>6 DEF Weight, HoldsIt, LogsTo, HoldPlaces
  <1>9. UNCHANGED <<cfg, current_config, new, disk, script>>
    BY DEF call_clone, world
  <1> QED
    BY <1>1, <1>4, <1>5, <1>7, <1>8, <1>9, Moves

(* serv() and call(). *)
LEMMA SessionInv ==
  ASSUME Inv, NEW s \in Sessions, session(s)
  PROVE  Inv'
  <1> USE ThreadNames DEF At, world
  <1>0. s \in Threads /\ s # "main"
    OBVIOUS
  <1>1. CASE serv_lock(s)
    BY <1>0, <1>1, CloneLocks DEF serv_lock
  <1>2. CASE session_over(s)
    BY <1>0, <1>2, Unclones DEF session_over, ClonePlaces
  <1>3. CASE session_unlock(s)
    <2>1. PICK next \in {"ended_call", "ended_serv"} :
             unlock_config_structure(s, th[s].cfg, next)
      BY <1>3 DEF session_unlock
    <2>2. next \in Places \ (HoldPlaces \cup {"free"})
          /\ th[s].pc \in HoldPlaces \ (Busy \cup {"on_log"})
      BY <1>3 DEF Places, HoldPlaces, Busy, session_unlock
    <2>3. ~th[s].clone
      BY <1>0, <1>3 DEF session_unlock, Inv, Placed, Place, ClonePlaces
    <2> QED
      BY <1>0, <1>3, <2>1, <2>2, <2>3, GivesBack DEF session_unlock
  <1> QED
    BY <1>0, <1>1, <1>2, <1>3, CallCloneInv, OnLogInv, LogDoneInv, EndInv, Frees DEF session

LEMMA NextInv == Inv /\ [Next]_vars => Inv'
  <1> SUFFICES ASSUME Inv, [Next]_vars PROVE Inv'
    OBVIOUS
  <1>1. CASE Starts
    BY <1>1, AcceptInv, CallInv DEF Starts
  <1>2. CASE sighup
    BY <1>2, StutterInv DEF sighup
  <1>3. CASE UNCHANGED vars
    BY <1>3, StutterInv DEF vars
  <1> QED
    BY <1>1, <1>2, <1>3, MainInv, ClientmgrInv, SessionInv, EditInv DEF Next
-----------------------------------------------------------------------------
(* No structure of the configuration, and no interpreter of it, is freed   *)
(* while a thread uses it or while it is the current one, however many     *)
(* reloads, sessions, log lines and signals there are and however they     *)
(* interleave (lock_config_structure, unlock_config_structure,             *)
(* checkcfg).                                                              *)
THEOREM ConfigNotFreedInUse == Spec => []ConfigLive
  <1>1. Spec => []Inv
    BY InitInv, NextInv, PTL DEF Spec
  <1> QED
    BY <1>1, InvLive, PTL

(* The lists of a structure are freed once: a thread that goes to free one *)
(* is the only one that does, and it has not been freed before             *)
(* (unlock_config_structure leaves config_sem before it frees).            *)
THEOREM FreedOnce == Spec => [][\A t \in Threads : free_config(t) => ~cfg[th[t].gone].freed]_vars
  <1>1. Spec => []Inv
    BY InitInv, NextInv, PTL DEF Spec
  <1>2. Inv => (\A t \in Threads : free_config(t) => ~cfg[th[t].gone].freed)
    BY DEF Inv, Freeing, free_config
  <1>3. Inv /\ [Next]_vars
          => [\A t \in Threads : free_config(t) => ~cfg[th[t].gone].freed]_vars
    BY <1>2
  <1> QED
    BY <1>1, <1>3, PTL DEF Spec
=============================================================================
