----------------------------- MODULE AmigaLoop -----------------------------
(***************************************************************************)
(* The AmigaOS build of binkd: one process, no threads.  A loop waits for  *)
(* sockets, accepts calls, advances every session of a table by one step,  *)
(* and from time to time looks for mail to send and for a changed          *)
(* configuration.  Sessions keep pointers into the configuration they were *)
(* started with; configurations are counted.                               *)
(***************************************************************************)
EXTENDS Integers, FiniteSets

CONSTANTS
    Nodes,           (* links *)
    Slots,           (* Slots[c]: the size of the session table that the    *)
                     (* c-th configuration asks for                         *)
    max_clients, max_servers,
    ServerFlag, PollFlag,   (* the values server_flag and poll_flag may have *)
    checkcfg_flag,
    NetTimeout,      (* nettimeout, in ticks *)
    EobMin, EobMax,  (* 5 s and 300 s, the limits of nettimeout / 2 *)
    Faults           (* of {"listen", "relisten", "accept", "select"} *)

MaxCfg == Cardinality(DOMAIN Slots)

ASSUME AmigaAssumption ==
    /\ MaxCfg \in Nat \ {0} /\ DOMAIN Slots = 1..MaxCfg /\ \A c \in DOMAIN Slots : Slots[c] \in Nat
    /\ max_clients \in Nat /\ max_servers \in Nat
    /\ NetTimeout \in Nat /\ EobMin \in Nat /\ EobMax \in Nat
    /\ ServerFlag \subseteq BOOLEAN /\ PollFlag \subseteq BOOLEAN /\ checkcfg_flag \in BOOLEAN

VARIABLES
    pc,           (* where the loop is; "step" with the slot in at *)
    at,
    sessions,     (* the table *)
    n_clients, n_servers,
    listening,    (* sockfd_used > 0 *)
    server_flag, poll_flag, binkd_exit,
    active,       (* active_sessions > 0 in this turn *)
    idle_loops,
    config,       (* the loop's configuration, and whether it counts as     *)
    config_locked,(* locked by the loop *)
    current,      (* current_config *)
    usage,        (* usageCount of each configuration; 0 is freed or not read *)
    fresh,        (* the files, the main and an included one, whose mtime is *)
                  (* not the pc->mtime of the current configuration         *)
    settled,      (* stable_mtime is the mtime of the main file *)
    reload_pending,
    mail,         (* nodes with something to send *)
    silent        (* a session with nothing left to do was dropped without its M_EOB *)

flags == <<server_flag, poll_flag>>
loop  == <<pc, at, listening, flags, binkd_exit, active, idle_loops>>
table == <<sessions, n_clients, n_servers>>
cfg   == <<config, config_locked, current, usage>>
files == <<fresh, settled, reload_pending>>
vars  == <<loop, table, cfg, files, mail, silent>>
-----------------------------------------------------------------------------
None == "none"
Free == [phase |-> "FREE", inbound |-> FALSE, node |-> None, cfg |-> 0,
         age |-> 0, idle |-> 0, up |-> FALSE, out |-> FALSE, sent |-> FALSE,
         in |-> FALSE, files |-> FALSE, moved |-> FALSE, lEOB |-> FALSE, rEOB |-> FALSE]

Min(a, b) == IF a < b THEN a ELSE b
Size == Cardinality(DOMAIN sessions)
FreeSlots == {i \in DOMAIN sessions : sessions[i].phase = "FREE"}
sess_alloc == CHOOSE i \in FreeSlots : \A j \in FreeSlots : i <= j
Active == {i \in DOMAIN sessions : sessions[i].phase # "FREE"}

Put(i, s) == sessions' = [sessions EXCEPT ![i] = s]

(* Mutant: only accepted calls are counted out *)
Drop_servers(i) ==
    /\ Put(i, Free)
    /\ n_servers' = n_servers - (IF sessions[i].inbound THEN 1 ELSE 0)
    /\ n_clients' = n_clients

(* A session is over: its slot is free and it is counted out *)
Drop(i) ==
    /\ Put(i, Free)
    /\ n_servers' = n_servers - (IF sessions[i].inbound THEN 1 ELSE 0)
    /\ n_clients' = n_clients - (IF sessions[i].inbound THEN 0 ELSE 1)

Init ==
    /\ pc = "start" /\ at = 0
    /\ sessions = [i \in 1..Slots[1] |-> Free]
    /\ n_clients = 0 /\ n_servers = 0
    /\ listening = FALSE /\ server_flag \in ServerFlag /\ poll_flag \in PollFlag
    /\ ~(server_flag /\ poll_flag)                  (* -p and -s exclude each other *)
    /\ binkd_exit = FALSE /\ active = FALSE /\ idle_loops = 0
    /\ config = 1 /\ config_locked = FALSE /\ current = 1
    /\ usage = [c \in 1..MaxCfg |-> IF c = 1 THEN 2 ELSE 0]   (* current and main *)
    /\ fresh = {} /\ settled = FALSE /\ reload_pending = FALSE
    /\ mail \in SUBSET Nodes
    /\ silent = FALSE
-----------------------------------------------------------------------------
(* try_outbound: the next node that is not busy; the mail waits for a free *)
(* slot and for the limit of clients                                       *)
Busy(n) == n # None /\ \E i \in Active : sessions[i].node = n /\ sessions[i].up

NoOutbound == UNCHANGED <<table, mail>>

Connects(n) ==
    /\ n \in mail /\ ~Busy(n)
    /\ n_clients < max_clients /\ FreeSlots # {}
    /\ Put(sess_alloc, [Free EXCEPT !.phase = "CONNECTING", !.node = n, !.cfg = config])
    /\ n_clients' = n_clients + 1
    /\ UNCHANGED <<n_servers, mail>>

(* no mail, a busy node, a full table, a bad host list, a name that does   *)
(* not resolve, a connect that fails at once                               *)
try_outbound == NoOutbound \/ \E n \in Nodes : Connects(n)

(* A socket for every address of every listen line, each bound in six      *)
(* tries; the ones before a failure stay open, and only the calls to       *)
(* socket() may fail one by one                                            *)
open_listen_sockets(ok) ==
    IF ok THEN listening' = server_flag ELSE server_flag /\ listening' \in BOOLEAN

(* The listen sockets are opened, or the loop does not begin *)
Start ==
    /\ pc = "start"
    /\ \/ open_listen_sockets(TRUE) /\ pc' = "select" /\ try_outbound
       \/ "listen" \in Faults /\ open_listen_sockets(FALSE) /\ pc' = "main" /\ NoOutbound
    /\ UNCHANGED <<at, flags, binkd_exit, active, idle_loops, cfg, files, silent>>

(* Mutant: the M_EOB may be put off as long as the line may be silent *)
MaxWait_long == NetTimeout

(* max_wait in amiga_proto_step *)
MaxWait == Min(IF NetTimeout \div 2 < EobMin THEN EobMin ELSE NetTimeout \div 2, EobMax)

(* select: a second passes or it does not *)
Ages(s) ==
    IF s.phase = "RUNNING"
    THEN [s EXCEPT !.age = Min(@ + 1, MaxWait), !.idle = Min(@ + 1, NetTimeout)]
    ELSE s

select ==
    /\ pc = "select" /\ ~binkd_exit
    /\ pc' = "accept"
    /\ sessions' \in {sessions, [i \in DOMAIN sessions |-> Ages(sessions[i])]}
    /\ UNCHANGED <<at, listening, flags, binkd_exit, active, idle_loops, n_clients, n_servers,
                   cfg, fresh, settled, reload_pending, mail, silent>>

(* ENOTSOCK or EBADF: the listen sockets are opened again, which may fail; *)
(* another error ends the loop                                             *)
SelectFails ==
    /\ pc = "select" /\ ~binkd_exit /\ "select" \in Faults
    /\ \/ open_listen_sockets(TRUE) /\ pc' = "select"
       \/ (open_listen_sockets(FALSE) \/ UNCHANGED listening) /\ pc' = "cleanup"
    /\ UNCHANGED <<at, flags, binkd_exit, active, idle_loops, table, cfg, files, mail, silent>>

ToSessions == pc' = "step" /\ at' = 0 /\ active' = FALSE

(* init_protocol and the banner may fail; more servers than allowed, the   *)
(* one that comes not yet counted, are sent away                           *)
amiga_proto_open(inbound) == {FALSE, ~(inbound /\ n_servers > max_servers)}

(* A call for which there is a slot *)
do_accept ==
    /\ pc = "accept" /\ listening
    /\ \E ok \in amiga_proto_open(TRUE) :
         IF FreeSlots = {} \/ ~ok
         THEN UNCHANGED <<sessions, n_servers>>
         ELSE /\ Put(sess_alloc, [Free EXCEPT !.phase = "RUNNING", !.inbound = TRUE,
                                              !.cfg = config])
              /\ n_servers' = n_servers + 1
    /\ ToSessions
    /\ UNCHANGED <<listening, flags, binkd_exit, idle_loops, n_clients, cfg, files, mail, silent>>

(* A listen socket is lost: all of them are closed *)
AcceptFails ==
    /\ pc = "accept" /\ listening /\ "accept" \in Faults
    /\ listening' = FALSE
    /\ ToSessions
    /\ UNCHANGED <<flags, binkd_exit, idle_loops, table, cfg, files, mail, silent>>

NoAccept ==
    /\ pc = "accept"
    /\ ToSessions
    /\ UNCHANGED <<listening, flags, binkd_exit, idle_loops, table, cfg, files, mail, silent>>
-----------------------------------------------------------------------------
(* advance_sessions: the slots in use, one after the other *)
After(i) ==
    IF \E j \in Active : j > i
    THEN CHOOSE j \in Active : j > i /\ \A k \in Active : k > i => j <= k
    ELSE Size + 1

Stepping(phase) ==
    /\ pc = "step" /\ at \in DOMAIN sessions /\ sessions[at].phase = phase /\ ~binkd_exit
    /\ at' = After(at) /\ active' = TRUE
    /\ UNCHANGED <<listening, flags, idle_loops, cfg, files>>

(* check_connect, when the socket has become writable *)
check_connect ==
    /\ Stepping("CONNECTING")
    /\ UNCHANGED <<pc, binkd_exit, mail, silent>>
    /\ \/ UNCHANGED table           (* not yet, or the next address is tried *)
       \/ Drop(at)                  (* timeout, or no address is left *)
       \/ \E ok \in amiga_proto_open(FALSE) :
            IF ok THEN /\ Put(at, [sessions[at] EXCEPT !.phase = "RUNNING", !.out = TRUE])
                       /\ UNCHANGED <<n_clients, n_servers>>
            ELSE Drop(at)

Pending(s) == s.sent \/ s.in \/ s.out

(* amiga_proto_close: a session in which something was moved is a success  *)
(* even if the other side left before the last M_EOB                       *)
Success(s) == ~Pending(s) /\ ((s.lEOB /\ s.rEOB) \/ s.moved)

amiga_proto_close(s, how) ==
    /\ Drop(at)
    /\ silent' = (silent \/ (how = "timeout" /\ s.up /\ ~Pending(s) /\ ~s.lEOB))
    /\ mail' = IF ~Success(s) \/ s.node = None \/ s.out THEN mail ELSE mail \ {s.node}
    /\ binkd_exit' = (binkd_exit \/ (how # "timeout" /\ poll_flag /\ n_clients' = 0 /\ n_servers' = 0))

(* do_session_step: nothing read or written for too long *)
NetTimesOut ==
    /\ Stepping("RUNNING") /\ sessions[at].idle >= NetTimeout
    /\ amiga_proto_close(sessions[at], "timeout")
    /\ UNCHANGED pc

When(p, s) == IF p THEN {s} ELSE {}

(* What recv_block makes of what the remote may send: the login, with a    *)
(* busy flag that another session does not have; the beginning and the end *)
(* of a file; M_GOT; M_EOB                                                 *)
Heard(s) ==
    UNION {When(~s.up /\ ~Busy(s.node), [s EXCEPT !.up = TRUE]),
           When(s.up /\ ~s.in /\ ~s.rEOB, [s EXCEPT !.in = TRUE]),
           When(s.in, [s EXCEPT !.in = FALSE, !.files = TRUE, !.moved = TRUE]),
           When(s.sent, [s EXCEPT !.sent = FALSE, !.files = TRUE, !.moved = TRUE]),
           When(s.up /\ ~s.in /\ ~s.rEOB, [s EXCEPT !.rEOB = TRUE])}

(* send_block: the file goes out *)
Sent(s) == IF s.up /\ s.out THEN [s EXCEPT !.out = FALSE, !.sent = TRUE] ELSE s

(* Nothing is left to send: M_EOB, but not while a file comes in, and not  *)
(* before the remote's unless it takes too long                            *)
Eob(s) ==
    IF s.up /\ ~s.out /\ ~s.sent /\ ~s.lEOB /\ ~s.in /\ (s.rEOB \/ s.age >= MaxWait)
    THEN [s EXCEPT !.lEOB = TRUE] ELSE s

BatchOver(s) == s.lEOB /\ s.rEOB /\ ~Pending(s)

(* amiga_proto_step, with or without something to read *)
amiga_proto_step ==
    /\ Stepping("RUNNING") /\ sessions[at].idle < NetTimeout
    /\ UNCHANGED pc
    /\ \E r \in {sessions[at]} \cup Heard(sessions[at]) :
          LET w == Sent(r)
              e == Eob(w)
              s == IF w # sessions[at] THEN [e EXCEPT !.idle = 0] ELSE e
          IN  IF BatchOver(s) /\ ~s.files
              THEN amiga_proto_close(s, "ok")
              ELSE /\ Put(at, IF BatchOver(s)
                              THEN [s EXCEPT !.lEOB = FALSE, !.rEOB = FALSE, !.files = FALSE]
                              ELSE s)
                   /\ UNCHANGED <<n_clients, n_servers, binkd_exit, mail, silent>>

(* recv_block or send_block fails, or the remote has closed *)
ProtoStepFails ==
    /\ Stepping("RUNNING") /\ sessions[at].idle < NetTimeout
    /\ UNCHANGED pc
    /\ Drop(at)
    /\ mail' = IF ~Success(sessions[at]) \/ sessions[at].node = None THEN mail
               ELSE mail \ {sessions[at].node}
    /\ UNCHANGED silent
    /\ binkd_exit' = (binkd_exit \/ (poll_flag /\ n_clients' = 0 /\ n_servers' = 0))

(* The table is done, or the program shall end *)
StepsBegin ==
    /\ pc = "step" /\ at = 0 /\ ~binkd_exit
    /\ at' = After(0)
    /\ UNCHANGED <<pc, listening, flags, binkd_exit, active, idle_loops, table, cfg, files, mail, silent>>

StepsDone ==
    /\ pc = "step" /\ (at = Size + 1 \/ binkd_exit)
    /\ pc' = IF binkd_exit THEN "cleanup" ELSE "rescan"
    /\ at' = 0
    /\ UNCHANGED <<listening, flags, binkd_exit, active, idle_loops, table, cfg, files, mail, silent>>
-----------------------------------------------------------------------------
(* The rescan, when its time has come *)
Rescan ==
    /\ pc = "rescan"
    /\ \/ pc' = "idle" /\ NoOutbound
       \/ pc' = "check" /\ try_outbound
    /\ UNCHANGED <<at, listening, flags, binkd_exit, active, idle_loops, cfg, files, silent>>

(* checkcfg: a change of the first file is noticed whatever -C says, of    *)
(* the others only with it; noticing forgets it                            *)
Changed == "main" \in fresh \/ (checkcfg_flag /\ fresh # {})

(* readcfg gives a configuration that is counted once, for current_config *)
Reread ==
    /\ current < MaxCfg
    /\ current' = current + 1
    /\ usage' = [usage EXCEPT ![current] = @ - 1, ![current + 1] = 1]

(* Nothing to do, or the main file has not settled, or it did less than 2  *)
(* seconds ago, or the last reload is less than 5 seconds ago              *)
checkcfg ==
    /\ pc = "check"
    /\ fresh' = IF Changed THEN {} ELSE fresh
    /\ reload_pending' = (reload_pending \/ Changed)
    /\ settled' = (settled \/ Changed)
    /\ pc' = "idle"
    /\ UNCHANGED <<at, listening, flags, binkd_exit, active, idle_loops, table, cfg, mail, silent>>

(* The file is read; an error in it leaves the old configuration *)
Reload ==
    /\ pc = "check" /\ Changed /\ settled
    /\ fresh' = {} /\ reload_pending' = FALSE
    /\ \/ pc' = "idle" /\ UNCHANGED <<current, usage>>
       \/ pc' = "reopen" /\ Reread
    /\ UNCHANGED <<at, listening, flags, binkd_exit, active, idle_loops, table, config,
                   config_locked, settled, mail, silent>>

(* handle_config_reload: the table gets its new size, or keeps the old one *)
(* if there is no memory; the sockets are opened again                     *)
Resized ==
    [i \in 1..Slots[current] |-> IF i \in DOMAIN sessions THEN sessions[i] ELSE Free]

handle_config_reload ==
    /\ pc = "reopen"
    /\ sessions' \in {sessions, Resized}
    /\ config' = current
    /\ \/ /\ open_listen_sockets(TRUE)
          /\ usage' = [usage EXCEPT ![current] = @ + 1]
          /\ config_locked' = TRUE
          /\ pc' = "idle"
       \/ /\ "relisten" \in Faults /\ open_listen_sockets(FALSE)
          /\ pc' = "cleanup"
          /\ UNCHANGED <<usage, config_locked>>
    /\ UNCHANGED <<at, flags, binkd_exit, active, idle_loops, n_clients, n_servers, current, files, mail, silent>>

(* Without a server, two turns with nothing to do end the loop *)
Idle ==
    /\ pc = "idle"
    /\ LET calm == ~server_flag /\ ~active /\ n_clients = 0
           n == (IF n_clients > 0 \/ active THEN 0 ELSE idle_loops) + (IF calm THEN 1 ELSE 0)
       IN  /\ idle_loops' = Min(n, 2)
           /\ pc' = IF calm /\ n > 1 THEN "cleanup" ELSE "select"
    /\ UNCHANGED <<at, listening, flags, binkd_exit, active, table, cfg, files, mail, silent>>

(* binkd_exit is looked at before and after everything that waits *)
SeesExit ==
    /\ binkd_exit /\ pc \in {"select", "accept"}
    /\ pc' = "cleanup"
    /\ UNCHANGED <<at, listening, flags, binkd_exit, active, idle_loops, table, cfg, files, mail, silent>>

(* Mutant: the loop's own lock is given back whether there is one or not *)
evloop_cleanup_unlock ==
    /\ pc = "cleanup"
    /\ usage' = [usage EXCEPT ![config] = @ - 1]
    /\ pc' = "close"
    /\ UNCHANGED <<at, listening, flags, binkd_exit, active, idle_loops, table, config, config_locked,
                   current, files, mail, silent>>

(* evloop_cleanup gives the loop's lock back, then closes what is open *)
evloop_cleanup ==
    /\ pc = "cleanup"
    /\ usage' = IF config_locked THEN [usage EXCEPT ![config] = @ - 1] ELSE usage
    /\ pc' = "close"
    /\ UNCHANGED <<at, listening, flags, binkd_exit, active, idle_loops, table, config, config_locked,
                   current, files, mail, silent>>

CleanupSessions ==
    /\ pc = "close"
    /\ sessions' = [i \in DOMAIN sessions |-> Free]
    /\ n_clients' = n_clients - Cardinality({i \in Active : ~sessions[i].inbound})
    /\ n_servers' = n_servers - Cardinality({i \in Active : sessions[i].inbound})
    /\ listening' = FALSE
    /\ pc' = "main"
    /\ UNCHANGED <<at, flags, binkd_exit, active, idle_loops, cfg, files, mail, silent>>

(* main gives its lock back; exitfunc locks the current configuration for  *)
(* a moment to remove the busy flags                                       *)
MainReturns ==
    /\ pc = "main"
    /\ usage' = [usage EXCEPT ![1] = @ - 1]
    /\ pc' = "exit"
    /\ UNCHANGED <<at, listening, flags, binkd_exit, active, idle_loops, table, config, config_locked,
                   current, files, mail, silent>>

exitfunc ==
    /\ pc = "exit" /\ pc' = "done"
    /\ UNCHANGED <<at, listening, flags, binkd_exit, active, idle_loops, table, cfg, files, mail, silent>>

Done == pc = "done" /\ UNCHANGED vars
-----------------------------------------------------------------------------
(* Ctrl-C, where it makes a difference when; an editor saves one of the files; a tosser makes mail *)
Break ==
    /\ pc \in {"select", "step"} /\ ~binkd_exit
    /\ binkd_exit' = TRUE
    /\ UNCHANGED <<pc, at, listening, flags, active, idle_loops, table, cfg, files, mail, silent>>

Edit(f) ==
    /\ pc = "select"
    /\ fresh' = fresh \cup {f}
    /\ settled' = (settled /\ f # "main")
    /\ UNCHANGED <<loop, table, cfg, reload_pending, mail, silent>>

Loop ==
    \/ Start \/ select \/ do_accept \/ NoAccept \/ StepsBegin \/ check_connect
    \/ NetTimesOut \/ amiga_proto_step \/ StepsDone
    \/ Rescan \/ checkcfg \/ Reload \/ handle_config_reload \/ Idle
    \/ SeesExit \/ evloop_cleanup \/ CleanupSessions \/ MainReturns \/ exitfunc
    \/ ProtoStepFails \/ AcceptFails \/ SelectFails

Next == Loop \/ Break \/ (\E f \in {"main", "incl"} : Edit(f)) \/ Done

Spec == Init /\ [][Next]_vars
-----------------------------------------------------------------------------
(* The counters that the limits and the end of the program depend on are   *)
(* the numbers of slots in use, on every path a session can end by, as     *)
(* long as a reload does not make the table smaller (sess_free and its     *)
(* callers), and the limits hold, but for the one server too many.         *)
CountsExact ==
    /\ n_clients = Cardinality({i \in Active : ~sessions[i].inbound})
    /\ n_servers = Cardinality({i \in Active : sessions[i].inbound})
    /\ n_clients <= max_clients /\ n_servers <= max_servers + 1

(* No configuration is freed that the loop, a session that started with    *)
(* it, or the end of the program still uses: the counts that checkcfg,     *)
(* handle_config_reload, evloop_cleanup, main and exitfunc change do not   *)
(* reach zero too early.                                                   *)
ConfigsLive ==
    /\ pc # "done" => usage[current] > 0
    /\ pc \notin {"main", "exit", "done"} => usage[config] > 0
    /\ \A i \in Active : usage[sessions[i].cfg] > 0

(* Deferring the M_EOB never costs a session: one that has nothing left to *)
(* send or to receive says so before it can be dropped for silence         *)
(* (max_wait in amiga_proto_step against nettimeout in do_session_step).   *)
EobBeforeTimeout == ~silent

=============================================================================
