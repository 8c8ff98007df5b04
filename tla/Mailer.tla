------------------------------- MODULE Mailer -------------------------------
(***************************************************************************)
(* The processes of binkd around the sessions, in the build that forks:    *)
(* the client manager (client.c) with its list of nodes to call (ftnq.c),  *)
(* the server manager (server.c), the children that call or answer, the    *)
(* busy flags they share with other programs (bsy.c, bsycleanup.c), and    *)
(* the start and the end of the program (binkd.c, exitproc.c).  What       *)
(* happens inside a session is the subject of BinkpHandshake and           *)
(* BinkpTransfer; here it succeeds, fails or is killed.                    *)
(***************************************************************************)
EXTENDS Integers, FiniteSets

CONSTANTS
    Nodes,         \* the nodes with a host to call
    Callers,       \* places for children of the client manager
    Servers,       \* places for children of the server manager
    max_clients,
    max_servers,
    tries,         \* failed calls before a node is held; 0: never
    kill_old_bsy,  \* whether old flags are deleted by a scan
    MailFlavours,  \* the flavours of the mail there is
    PollFlags,     \* the values of poll_flag (-p) to start with
    StartsAlone,   \* binkd is started only when no one uses the outbound
    Faults         \* what may go wrong: see Trouble

(* Flavours by priority: 0 nothing, hold, 2 normal, and those above normal *)
(* (d, c, i).  Only the highest flavour of a node's mail and files decides. *)
Hold == 1
Crash == 3
Flavours == 0..Crash
ASSUME MailerAssumption ==
    /\ Callers \cap Servers = {} /\ IsFiniteSet(Callers)
    /\ max_clients \in Nat \ {0} /\ max_servers \in Nat /\ tries \in Nat
    /\ kill_old_bsy \in BOOLEAN /\ StartsAlone \in BOOLEAN
    /\ MailFlavours \subseteq Hold..Crash /\ Crash \in MailFlavours
    /\ PollFlags \subseteq BOOLEAN
    /\ Faults \subseteq {"fork", "line", "kill", "power", "term", "tosser", "skip"}

MAXFLVR(a, b) == IF a > b THEN a ELSE b

(* A busy flag is absent or has an age: 1 touched within the last period,  *)
(* 2 older, 3 older than kill_old_bsy.                                     *)
Kinds == {"csy", "bsy"}
Old == 3

(* A .hld file is absent, or its time is over, or it is still to come      *)
NoHld == 0
Over == 1
ToCome == 2

VARIABLES
    poll_flag,
    mail,       \* mail[n]: the highest flavour in the outbound of n
    hld,        \* hld[n]: its .hld
    nbad,       \* nbad[n]: the failed calls in its .try
    flag,       \* flag[k][n]: its .csy and its .bsy
    toss,       \* toss[n]: another program has created the .bsy of n
    mgr,        \* the managers: "down", "up", or "quit" after -p
    q_present,  \* the client manager's list of nodes is complete
    scan,       \* the directory entries q_scan has still to read
    flvr,       \* flvr[n], busy[n], hold[n]: the list
    busy,
    hold,
    n_clients,
    n_servers,
    proc        \* proc[p]: a child

disk   == <<mail, hld, nbad, flag, toss>>
list   == <<q_present, scan, flvr, busy, hold>>
counts == <<n_clients, n_servers>>
vars   == <<poll_flag, disk, mgr, list, counts, proc>>

(***************************************************************************)
(* A child: where it is, its node, its bsy_list, whether it has touched    *)
(* its flags in this period, whether the running managers started it, and, *)
(* for a server, whether it found too many servers.                        *)
(***************************************************************************)
Procs  == Callers \cup Servers
Nobody == [pc |-> "none", node |-> "-", flags |-> {}, touched |-> FALSE,
           ours |-> FALSE, many |-> FALSE]
Zombie == [Nobody EXCEPT !.pc = "zombie", !.ours = TRUE]
Child(pc, n, many) == [Nobody EXCEPT !.pc = pc, !.node = n, !.ours = TRUE, !.many = many]

Live(p)  == proc[p].pc \notin {"none", "zombie"}
Works(p, n) == proc[p].pc = "session" /\ proc[p].node = n
Ours(S)  == {p \in S : proc[p].ours /\ Live(p)}
Dead(S)  == {p \in S : proc[p].ours /\ ~Live(p)}

AllFlags(v)  == [k \in Kinds |-> [n \in Nodes |-> v]]
AllNodes(v)  == [n \in Nodes |-> v]

Init ==
    /\ poll_flag \in PollFlags
    /\ mail \in [Nodes -> {0} \cup MailFlavours]
    /\ hld = AllNodes(NoHld) /\ nbad = AllNodes(0)
    /\ flag = AllFlags(0) /\ toss = AllNodes(FALSE)
    /\ mgr = "down" /\ q_present = FALSE /\ scan = {}
    /\ flvr = AllNodes(0) /\ busy = AllNodes(FALSE) /\ hold = AllNodes(FALSE)
    /\ n_clients = 0 /\ n_servers = 0
    /\ proc = [p \in Procs |-> Nobody]

(***************************************************************************)
(* main: cleanup_old_bsy deletes every .bsy, .csy and .try of the          *)
(* outbound, whoever made it, then the managers start; with -n they do not *)
(* and the program has only created a poll.                                *)
(***************************************************************************)
OutboundIdle == (\A p \in Procs : ~Live(p)) /\ (\A n \in Nodes : ~toss[n])

cleanup_old_bsy ==
    /\ StartsAlone => OutboundIdle
    /\ flag' = AllFlags(0) /\ nbad' = AllNodes(0)

Startup ==
    /\ mgr = "down" /\ mgr' = "up"
    /\ cleanup_old_bsy
    /\ UNCHANGED <<poll_flag, mail, hld, toss, list, counts, proc>>

poll_node(n) ==
    /\ cleanup_old_bsy
    /\ mail' = [mail EXCEPT ![n] = Crash]
    /\ UNCHANGED <<poll_flag, hld, toss, mgr, list, counts, proc>>

(***************************************************************************)
(* q_free and q_scan: the list is built from what the directory holds at   *)
(* the moment each entry is read, in any order.                            *)
(***************************************************************************)
Entries == {"hld", "mail"} \cup Kinds

\* Every outbound directory of every domain, then the boxes of the nodes.
q_scan == Nodes \X Entries

q_free ==
    /\ mgr = "up" /\ ~q_present /\ scan = {}
    /\ flvr' = AllNodes(0) /\ busy' = AllNodes(FALSE) /\ hold' = AllNodes(FALSE)
    /\ scan' = q_scan
    /\ UNCHANGED <<poll_flag, disk, mgr, q_present, counts, proc>>

Reads(n, e) ==
    /\ mgr = "up" /\ <<n, e>> \in scan
    /\ scan' = scan \ {<<n, e>>}
    /\ q_present' = (scan' = {})
    /\ UNCHANGED <<poll_flag, nbad, toss, mgr, counts, proc>>

q_add_file(n) ==
    /\ Reads(n, "mail")
    /\ flvr' = [flvr EXCEPT ![n] = MAXFLVR(mail[n], @)]
    /\ UNCHANGED <<mail, hld, flag, busy, hold>>

process_hld(n) ==
    /\ Reads(n, "hld")
    /\ hold' = [hold EXCEPT ![n] = (hld[n] = ToCome)]
    /\ hld' = [hld EXCEPT ![n] = IF @ = Over THEN NoHld ELSE @]
    /\ UNCHANGED <<mail, flag, flvr, busy>>

(* Mutant: only .bsy files grow old *)
TooOldBsyOnly(k, n) == kill_old_bsy /\ k = "bsy" /\ flag[k][n] = Old

TooOld(k, n) == kill_old_bsy /\ flag[k][n] = Old

process_bsy(k, n) ==
    /\ Reads(n, k)
    /\ IF TooOld(k, n)
       THEN flag' = [flag EXCEPT ![k][n] = 0] /\ UNCHANGED busy
       ELSE busy' = [busy EXCEPT ![n] = @ \/ flag[k][n] # 0] /\ UNCHANGED flag
    /\ UNCHANGED <<mail, hld, flvr, hold>>

(* The flag is deleted after readdir and before stat: the node counts as   *)
(* busy all the same                                                       *)
StaleEntry(k, n) ==
    /\ Reads(n, k) /\ flag[k][n] = 0
    /\ busy' = [busy EXCEPT ![n] = TRUE]
    /\ UNCHANGED <<mail, hld, flag, flvr, hold>>

(***************************************************************************)
(* do_client                                                               *)
(***************************************************************************)
Callable(n) == ~busy[n] /\ ~hold[n] /\ flvr[n] > Hold
Running == mgr = "up" /\ q_present

q_next_node(n) ==
    /\ Callable(n) /\ \A m \in Nodes : Callable(m) => flvr[m] <= flvr[n]
    /\ flvr' = [flvr EXCEPT ![n] = 0] /\ busy' = [busy EXCEPT ![n] = TRUE]
    /\ UNCHANGED <<q_present, scan, hold>>

bsy_test(k, n) == flag[k][n] = 0
IsFree(p) == proc[p].pc = "none"

CallNext(n) ==
    /\ Running /\ n_clients < max_clients
    /\ q_next_node(n)
    /\ UNCHANGED <<poll_flag, disk, mgr, n_servers>>

CallSkips(n) ==
    /\ CallNext(n) /\ ~(bsy_test("bsy", n) /\ bsy_test("csy", n))
    /\ UNCHANGED <<n_clients, proc>>

(* Mutant: a call that was started is not counted *)
CallStartsUncounted(n, p) ==
    /\ CallNext(n) /\ bsy_test("bsy", n) /\ bsy_test("csy", n)
    /\ IsFree(p)
    /\ n_clients' = n_clients
    /\ proc' = [proc EXCEPT ![p] = Child("call", n, FALSE)]

CallStarts(n, p) ==
    /\ CallNext(n) /\ bsy_test("bsy", n) /\ bsy_test("csy", n)
    /\ IsFree(p)
    /\ n_clients' = n_clients + 1
    /\ proc' = [proc EXCEPT ![p] = Child("call", n, FALSE)]

(* Mutant: a call that was not started is taken off the count *)
CallNotStartedCounted(n) ==
    /\ "fork" \in Faults
    /\ CallNext(n) /\ bsy_test("bsy", n) /\ bsy_test("csy", n)
    /\ n_clients' = n_clients - 1
    /\ UNCHANGED proc

(* branch() fails: the node is off the list until the next scan *)
CallNotStarted(n) ==
    /\ "fork" \in Faults
    /\ CallNext(n) /\ bsy_test("bsy", n) /\ bsy_test("csy", n)
    /\ UNCHANGED <<n_clients, proc>>

(* check_child, chld *)
Reaped(S) == [p \in Procs |-> IF p \in Dead(S) THEN Nobody ELSE proc[p]]
(* Mutant: chld is called without the counter *)
chldUncounted == proc' = Reaped(Callers) /\ UNCHANGED n_clients

chld == proc' = Reaped(Callers) /\ n_clients' = n_clients - Cardinality(Dead(Callers))

(* Nobody to call: the manager sleeps for rescan_delay; with -p it quits   *)
(* when its children have ended, and it never scans again.                 *)
Sleep ==
    /\ Running /\ n_clients < max_clients /\ ~(\E n \in Nodes : Callable(n))
    /\ chld
    /\ q_present' = poll_flag
    /\ mgr' = IF poll_flag /\ n_clients' <= 0 THEN "quit" ELSE "up"
    /\ UNCHANGED <<poll_flag, disk, scan, flvr, busy, hold, n_servers>>

(* max_clients reached: it sleeps for call_delay *)
SleepFull ==
    /\ Running /\ n_clients >= max_clients
    /\ chld
    /\ UNCHANGED <<poll_flag, disk, mgr, list, n_servers>>

(***************************************************************************)
(* do_server                                                               *)
(***************************************************************************)
Accept(n, p) ==
    /\ mgr = "up" /\ ~poll_flag
    /\ IsFree(p)
    /\ n_servers' = n_servers + 1
    /\ proc' = [proc EXCEPT ![p] = Child("login", n, n_servers + 1 > max_servers)]
    /\ UNCHANGED <<poll_flag, disk, mgr, list, n_clients>>

ServChld ==
    /\ mgr = "up" /\ Dead(Servers) # {}
    /\ proc' = Reaped(Servers)
    /\ n_servers' = n_servers - Cardinality(Dead(Servers))
    /\ UNCHANGED <<poll_flag, disk, mgr, list, n_clients>>

(***************************************************************************)
(* Busy flags: bsy_add creates a file that must not exist, bsy_remove      *)
(* deletes by name what is in the child's bsy_list, bsy_touch makes all of *)
(* them new.  exit() removes what is left in the list.                     *)
(***************************************************************************)
create_sem_file(k, n) == flag[k][n] = 0

Added(p, k, pc) ==
    /\ flag' = [flag EXCEPT ![k][proc[p].node] = 1]
    /\ proc' = [proc EXCEPT ![p].flags = @ \cup {k}, ![p].pc = pc]

Without(p, K) ==
    [k \in Kinds |-> [n \in Nodes |->
        IF k \in proc[p].flags \cap K /\ n = proc[p].node THEN 0 ELSE flag[k][n]]]

Gone(p) == IF proc[p].ours THEN Zombie ELSE Nobody

bsy_remove_all(p) == flag' = Without(p, Kinds)
Exit(p) == bsy_remove_all(p) /\ proc' = [proc EXCEPT ![p] = Gone(p)]

(* protocol() returns after bsy_remove of the addresses; call() has still  *)
(* its .csy to remove, serv() nothing                                      *)
Returns(p) ==
    IF p \in Callers
    THEN /\ flag' = Without(p, {"bsy"})
         /\ proc' = [proc EXCEPT ![p].pc = "hangup", ![p].flags = @ \ {"bsy"}]
    ELSE Exit(p)

(* Mutant: only the .csy is touched *)
bsy_touchCsy(p) ==
    /\ proc[p].pc \in {"login", "session"} /\ ~proc[p].touched
    /\ flag' = [flag EXCEPT !["csy"] = [n \in Nodes |->
                   IF "csy" \in proc[p].flags /\ n = proc[p].node /\ @[n] # 0
                   THEN 1 ELSE @[n]]]
    /\ proc' = [proc EXCEPT ![p].touched = TRUE]
    /\ UNCHANGED <<poll_flag, mail, hld, nbad, toss, mgr, list, counts>>

bsy_touch(p) ==
    /\ proc[p].pc \in {"login", "session"} /\ ~proc[p].touched
    /\ flag' = [k \in Kinds |-> [n \in Nodes |->
                   IF k \in proc[p].flags /\ n = proc[p].node /\ flag[k][n] # 0
                   THEN 1 ELSE flag[k][n]]]
    /\ proc' = [proc EXCEPT ![p].touched = TRUE]
    /\ UNCHANGED <<poll_flag, mail, hld, nbad, toss, mgr, list, counts>>

(***************************************************************************)
(* bad_try, good_try, hold_node                                            *)
(***************************************************************************)
Holds(n) == tries > 0 /\ nbad[n] + 1 >= tries

bad_try(n) ==
    /\ nbad' = [nbad EXCEPT ![n] = IF tries = 0 THEN @ ELSE IF Holds(n) THEN 0 ELSE @ + 1]
    /\ hld' = [hld EXCEPT ![n] = IF Holds(n) THEN ToCome ELSE @]

good_try(p) == nbad' = IF p \in Callers THEN [nbad EXCEPT ![proc[p].node] = 0] ELSE nbad

(* A caller whose files were skipped holds the node, when hold_skipped > 0 *)
hold_node(p) ==
    /\ "skip" \in Faults /\ p \in Callers
    /\ hld' = [hld EXCEPT ![proc[p].node] = ToCome]

(* Some errors count as a failed try, others do not *)
BadOrNot(p) ==
    \/ p \in Callers /\ bad_try(proc[p].node)
    \/ UNCHANGED <<nbad, hld>>

(***************************************************************************)
(* call, call0 and protocol, as far as the other processes can see         *)
(***************************************************************************)
(* What every step of a child leaves alone *)
ChildKeeps == UNCHANGED <<poll_flag, toss, mgr, list, counts>>

call(p) ==
    /\ proc[p].pc = "call"
    /\ IF create_sem_file("csy", proc[p].node)
       THEN Added(p, "csy", "dial")
       ELSE Exit(p)
    /\ ChildKeeps /\ UNCHANGED <<mail, hld, nbad>>

Connected(p) ==
    /\ proc[p].pc = "dial"
    /\ proc' = [proc EXCEPT ![p].pc = "login"]
    /\ ChildKeeps /\ UNCHANGED <<mail, hld, nbad, flag>>

(* A host does not answer or has no address: the next one, or no more *)
NotConnected(p) ==
    /\ "line" \in Faults
    /\ proc[p].pc = "dial"
    /\ \E pc \in {"dial", "hangup"} : proc' = [proc EXCEPT ![p].pc = pc]
    /\ BadOrNot(p)
    /\ ChildKeeps /\ UNCHANGED <<mail, flag>>

(* Too many servers, or the .bsy of the node in M_ADR *)
Login(p) ==
    /\ proc[p].pc = "login"
    /\ \/ /\ ~proc[p].many /\ create_sem_file("bsy", proc[p].node)
          /\ Added(p, "bsy", "session")
          /\ UNCHANGED <<hld, nbad>>
       \/ /\ proc[p].many \/ ~create_sem_file("bsy", proc[p].node)
          /\ Returns(p)
          /\ BadOrNot(p)
    /\ ChildKeeps /\ UNCHANGED mail

NotLoggedIn(p) ==
    /\ "line" \in Faults
    /\ proc[p].pc = "login"
    /\ Returns(p)
    /\ BadOrNot(p)
    /\ ChildKeeps /\ UNCHANGED mail

(* What can be left of the mail of n, by its highest flavour *)
Rests(n) == {f \in {0} \cup MailFlavours : f <= mail[n]}

(* A successful session takes all the mail *)
SessionEnds(p) ==
    /\ proc[p].pc = "session"
    /\ mail' = [mail EXCEPT ![proc[p].node] = 0]
    /\ good_try(p)
    /\ Returns(p)
    /\ ChildKeeps /\ UNCHANGED hld

(* or leaves some: files were skipped, not offered, or came too late *)
SessionSkips(p) ==
    LET n == proc[p].node IN
    /\ "skip" \in Faults
    /\ proc[p].pc = "session"
    /\ \E rest \in Rests(n) : mail' = [mail EXCEPT ![n] = rest]
    /\ good_try(p)
    /\ hold_node(p) \/ UNCHANGED hld
    /\ Returns(p)
    /\ ChildKeeps

(* maxflvr is the highest flavour of the files that were begun, 0 standing *)
(* for the h it starts with: what is gone was begun                        *)
Left(n, rest, maxflvr) == rest < mail[n] => maxflvr = mail[n]

(* An unsuccessful session; a caller restores the poll of its best flavour *)
create_poll(n, rest, maxflvr) == IF maxflvr > Hold THEN MAXFLVR(rest, maxflvr) ELSE rest

SessionFails(p) ==
    LET n == proc[p].node IN
    /\ "line" \in Faults
    /\ proc[p].pc = "session"
    /\ \E rest \in Rests(n), maxflvr \in Rests(n) :
        /\ Left(n, rest, maxflvr)
        /\ mail' = [mail EXCEPT ![n] =
               IF p \in Callers THEN create_poll(n, rest, maxflvr) ELSE rest]
    /\ BadOrNot(p) \/ (hold_node(p) /\ UNCHANGED nbad)
    /\ Returns(p)
    /\ ChildKeeps

(* The end of call(): bsy_remove of the .csy, and exit *)
HangUp(p) ==
    /\ proc[p].pc = "hangup"
    /\ Exit(p)
    /\ ChildKeeps /\ UNCHANGED <<mail, hld, nbad>>

(* Files sent so far are gone when a child dies in a session *)
SentSoFar(p) ==
    \/ UNCHANGED mail
    \/ /\ proc[p].pc = "session"
       /\ \E rest \in Rests(proc[p].node) :
              mail' = [mail EXCEPT ![proc[p].node] = rest]

(* SIGTERM: exitfunc removes the flags; SIGKILL: they stay *)
Terminated(p) ==
    /\ "kill" \in Faults /\ Live(p)
    /\ Exit(p) /\ SentSoFar(p)
    /\ ChildKeeps /\ UNCHANGED <<hld, nbad>>

Killed(p) ==
    /\ "kill" \in Faults /\ Live(p)
    /\ proc' = [proc EXCEPT ![p] = Gone(p)] /\ SentSoFar(p)
    /\ ChildKeeps /\ UNCHANGED <<hld, nbad, flag>>

(***************************************************************************)
(* The rest of the world                                                   *)
(***************************************************************************)
(* A tosser or an editor leaves mail *)
NewMail(n) ==
    /\ \E f \in MailFlavours : mail' = [mail EXCEPT ![n] = MAXFLVR(@, f)] /\ f > mail[n]
    /\ UNCHANGED <<poll_flag, hld, nbad, flag, toss, mgr, list, counts, proc>>

TossLock(n) ==
    /\ "tosser" \in Faults
    /\ ~toss[n] /\ create_sem_file("bsy", n)
    /\ toss' = [toss EXCEPT ![n] = TRUE]
    /\ flag' = [flag EXCEPT !["bsy"][n] = 1]
    /\ UNCHANGED <<poll_flag, mail, hld, nbad, mgr, list, counts, proc>>

TossFree(n) ==
    /\ toss[n]
    /\ toss' = [toss EXCEPT ![n] = FALSE]
    /\ flag' = [flag EXCEPT !["bsy"][n] = 0]
    /\ UNCHANGED <<poll_flag, mail, hld, nbad, mgr, list, counts, proc>>

(* A period passes: less than kill_old_bsy, more than what a program needs *)
(* to touch its flags, to connect, or to toss                              *)
Punctual ==
    /\ \A p \in Procs : proc[p].flags # {} => proc[p].touched
    /\ \A n \in Nodes : ~toss[n]

Tick ==
    /\ Punctual
    /\ flag' = [k \in Kinds |-> [n \in Nodes |->
                   IF flag[k][n] \in {0, Old} THEN flag[k][n] ELSE flag[k][n] + 1]]
    /\ hld' = [n \in Nodes |-> IF hld[n] = ToCome THEN Over ELSE hld[n]]
    /\ hold' = AllNodes(FALSE)
    /\ proc' = [p \in Procs |-> [proc[p] EXCEPT !.touched = FALSE]]
    /\ UNCHANGED <<poll_flag, mail, nbad, toss, mgr, q_present, scan, flvr, busy, counts>>

(* The managers end: SIGTERM leaves their children running, a power        *)
(* failure leaves only the disk                                            *)
ManagersEnd ==
    /\ mgr' = "down"
    /\ q_present' = FALSE /\ scan' = {}
    /\ flvr' = AllNodes(0) /\ busy' = AllNodes(FALSE) /\ hold' = AllNodes(FALSE)
    /\ n_clients' = 0 /\ n_servers' = 0
    /\ UNCHANGED <<poll_flag, mail, hld, nbad>>

Shutdown ==
    /\ "term" \in Faults /\ mgr = "up"
    /\ ManagersEnd
    /\ proc' = [p \in Procs |-> IF Live(p) THEN [proc[p] EXCEPT !.ours = FALSE] ELSE Nobody]
    /\ UNCHANGED <<flag, toss>>

PowerFails ==
    /\ "power" \in Faults /\ mgr # "quit"
    /\ ManagersEnd
    /\ proc' = [p \in Procs |-> Nobody] /\ toss' = AllNodes(FALSE)
    /\ UNCHANGED flag

-----------------------------------------------------------------------------
Manager ==
    \/ q_free
    \/ \E n \in Nodes : q_add_file(n) \/ process_hld(n) \/ (\E k \in Kinds : process_bsy(k, n))
    \/ \E n \in Nodes : CallSkips(n) \/ (\E p \in Callers : CallStarts(n, p))
    \/ Sleep \/ SleepFull

Work(p) == call(p) \/ Connected(p) \/ Login(p) \/ SessionEnds(p) \/ HangUp(p)

Trouble ==
    \/ \E n \in Nodes, k \in Kinds : StaleEntry(k, n)
    \/ \E n \in Nodes : CallNotStarted(n) \/ NewMail(n) \/ TossLock(n) \/ poll_node(n)
    \/ \E n \in Nodes, p \in Servers : Accept(n, p)
    \/ \E p \in Procs : NotConnected(p) \/ NotLoggedIn(p) \/ SessionSkips(p)
                            \/ SessionFails(p) \/ Terminated(p) \/ Killed(p)
    \/ Shutdown \/ PowerFails

Next ==
    \/ Startup \/ Manager \/ ServChld
    \/ \E p \in Procs : Work(p) \/ bsy_touch(p)
    \/ \E n \in Nodes : TossFree(n)
    \/ Tick
    \/ Trouble

Spec == Init /\ [][Next]_vars

(* The operator starts the program again, the managers' loops go on, every *)
(* child comes to an end of its work and runs its main loop until then,    *)
(* other programs free what they lock, and time passes.                    *)
FairSpec ==
    /\ Spec
    /\ WF_vars(Startup) /\ WF_vars(Manager) /\ WF_vars(Tick)
    /\ \A p \in Procs : WF_vars(Work(p)) /\ WF_vars(bsy_touch(p))
    /\ \A n \in Nodes : WF_vars(TossFree(n))

-----------------------------------------------------------------------------
TypeOK ==
    /\ poll_flag \in BOOLEAN
    /\ mail \in [Nodes -> Flavours] /\ hld \in [Nodes -> NoHld..ToCome]
    /\ nbad \in [Nodes -> 0..MAXFLVR(0, tries - 1)]
    /\ flag \in [Kinds -> [Nodes -> 0..Old]] /\ toss \in [Nodes -> BOOLEAN]
    /\ mgr \in {"down", "up", "quit"}
    /\ q_present \in BOOLEAN /\ scan \subseteq Nodes \X Entries
    /\ flvr \in [Nodes -> Flavours]
    /\ busy \in [Nodes -> BOOLEAN] /\ hold \in [Nodes -> BOOLEAN]
    /\ n_clients \in Int /\ n_servers \in Int
    /\ proc \in [Procs ->
          [pc : {"none", "call", "dial", "login", "session", "hangup", "zombie"},
           node : Nodes \cup {"-"}, flags : SUBSET Kinds, touched : BOOLEAN,
           ours : BOOLEAN, many : BOOLEAN]]

(* A link is worked by one process at a time: two children, also of        *)
(* managers that have been replaced, never have a session with one node at *)
(* once, nor has a child one with a node that another program has locked,  *)
(* although old flags are deleted, children die with their flags and the   *)
(* program is started again (bsy_add, bsy_remove, bsy_touch, process_bsy,  *)
(* cleanup_old_bsy).                                                       *)
OneSession ==
    \A n \in Nodes : \A p \in Procs : Works(p, n) =>
        ~toss[n] /\ \A q \in Procs \ {p} : ~Works(q, n)

(* No more calls run than max_clients, however forks fail and children end *)
(* and are waited for (do_client, chld).                                   *)
LimitsKept == Cardinality(Ours(Callers)) <= max_clients

(* With -p the program quits only when all its calls have ended (do_client) *)
QuitsIdle == mgr = "quit" => Ours(Callers) = {}

Calm == <>[][~Trouble]_vars

(* Once the troubles end, mail that is not on hold is sent: flags that     *)
(* dead processes left, holds, the limit of clients and a stale list only  *)
(* delay it (do_client, q_scan, process_bsy, process_hld, bad_try).        *)
MailGoes ==
    Calm => \A n \in Nodes : [](~poll_flag /\ mail[n] > Hold => <>(mail[n] <= Hold))

(* Once the troubles end, a program started with -p quits (do_client)      *)
PollEnds == Calm => (poll_flag => <>(mgr = "quit"))
=============================================================================
