------------------------------- MODULE Reload -------------------------------
(***************************************************************************)
(* The configuration of the build with threads: how readcfg.c loads it     *)
(* again when a file of it changes, how the threads share it by counted    *)
(* references (lock_config_structure, unlock_config_structure), the Perl   *)
(* interpreters tied to it, and how exitfunc() waits for the threads.      *)
(*                                                                         *)
(* Threads: "main" runs servmgr() and then exitfunc(), "cmgr" runs         *)
(* clientmgr(), and every member of Sessions is free or runs serv() or     *)
(* call().  A step of a thread is what it does between two points where    *)
(* another thread can see the difference.                                  *)
(***************************************************************************)
EXTENDS Naturals, FiniteSets

CONSTANTS Sessions,   \* threads for sessions
          MaxEvents,  \* how many edits of the files and SIGHUPs there are
          Faults      \* the accidents of a run, of the set below

AllFaults == {"bad",     \* an edit leaves an error in a file
              "newinc",  \* an edit adds or removes the include line
              "second",  \* two edits within one second of file time
              "veto",    \* the need_reload() hook answers 1 or 2
              "perl",    \* the Perl script does not compile
              "late",    \* a signal finds servmgr outside select()
              "stuck",   \* a thread does not end for 4 seconds
              "listen"}  \* an address cannot be listened on

ASSUME Bounds ==
  /\ MaxEvents \in Nat /\ Faults \subseteq AllFaults
  /\ IsFiniteSet(Sessions) /\ Sessions \cap {"main", "cmgr"} = {}

Files == {"main", "inc"}                 \* the main file and one it includes
Cfgs == 1 .. (1 + MaxEvents)    \* a structure for every load
Threads == {"main", "cmgr"} \cup Sessions

VARIABLES
  disk,        \* the files: contents, modification time, error, include line
  script,      \* the Perl script: it compiles (when loaded again); perl-strict
  cfg,         \* the structures: usageCount, what was read, config_list, perl
  current_config,
  th,          \* the threads: place, config they hold, clone of its Perl
  new,         \* main: the structure readcfg() and checkcfg() work on
  n_servers, n_clients, pidcmgr,
  got_sighup, binkd_exit,
  left         \* edits and SIGHUPs still to come

vars == <<disk, script, cfg, current_config, th, new, n_servers, n_clients, pidcmgr,
          got_sighup, binkd_exit, left>>

counters == <<n_servers, n_clients, pidcmgr>>
world == <<disk, script, got_sighup, binkd_exit, left>>

Fresh == [count |-> 0, ver |-> [f \in Files |-> 0], mtime |-> [f \in Files |-> 0],
          perl |-> FALSE, freed |-> FALSE]
Idle == [pc |-> "none", cfg |-> 0, clone |-> FALSE, gone |-> 0, after |-> "none",
         kind |-> "none"]

(***************************************************************************)
(* Reference counts.                                                       *)
(***************************************************************************)
(* config_sem is held from the test of current_config to the increment. *)
lock_current_config(t) ==
  cfg' = [cfg EXCEPT ![current_config].count = @ + 1]

(* perl_init_clone: the clone shares what the root interpreter of the      *)
(* structure owns; there is none when the structure has no script.         *)
perl_init_clone(t, c, next) ==
  th' = [th EXCEPT ![t].pc = next, ![t].cfg = c, ![t].clone = cfg[c].perl]

(* The count is taken down under config_sem; the thread that took it to    *)
(* zero frees the structure in a step of its own.                          *)
unlock_config_structure(t, c, next) ==
  /\ cfg' = [cfg EXCEPT ![c].count = @ - 1]
  /\ th' = [th EXCEPT ![t].pc = IF cfg'[c].count = 0 THEN "free" ELSE next,
                      ![t].after = IF cfg'[c].count = 0 THEN next ELSE "none",
                      ![t].gone = IF cfg'[c].count = 0 THEN c ELSE 0]

(* The root interpreter is destroyed, and on_exit() would run, with the    *)
(* last user only.                                                         *)
perl_done(c) == [c EXCEPT !.perl = FALSE]

(* What is left of a structure when its lists are gone. *)
Destroyed(c) == [c EXCEPT !.ver = Fresh.ver, !.mtime = Fresh.mtime, !.freed = TRUE]

(* The last user frees all the structure has allocated. *)
free_config(t) ==
  /\ th[t].pc = "free"
  /\ cfg' = [cfg EXCEPT ![th[t].gone] = Destroyed(perl_done(@))]
  /\ th' = [th EXCEPT ![t].pc = th[t].after, ![t].gone = 0, ![t].after = "none"]
  /\ UNCHANGED <<world, current_config, new, counters>>

perl_done_clone(t, next) ==
  /\ th' = [th EXCEPT ![t].pc = next, ![t].clone = FALSE]
  /\ UNCHANGED <<world, cfg, current_config, new, counters>>

(***************************************************************************)
(* The start: the files have been read once, clientmgr is branched out.    *)
(***************************************************************************)
Init ==
  /\ disk = [ver |-> [f \in Files |-> 1], mtime |-> [f \in Files |-> 1],
             bad |-> {}, include |-> TRUE]
  /\ script \in {[ok |-> TRUE, strict |-> FALSE]} \cup
               (IF "perl" \in Faults THEN [ok : {FALSE}, strict : BOOLEAN] ELSE {})
  /\ cfg = [c \in Cfgs |-> IF c = 1
              THEN [Fresh EXCEPT !.count = 1, !.ver = disk.ver, !.mtime = disk.mtime,
                                 !.perl = TRUE]
              ELSE Fresh]
  /\ current_config = 1 /\ new = 0
  /\ th = [t \in Threads |-> [Idle EXCEPT !.pc = IF t \in Sessions THEN "none" ELSE "lock"]]
  /\ n_servers = 0 /\ n_clients = 0 /\ pidcmgr = TRUE
  /\ got_sighup = FALSE /\ binkd_exit = FALSE
  /\ left = MaxEvents

(***************************************************************************)
(* The world outside: an editor and signals.                               *)
(***************************************************************************)
(* Bound: bad files and a bad script do not come together. *)
Edit(f) ==
  /\ left > 0 /\ ~binkd_exit
  /\ left' = left - 1
  /\ \E bad \in {disk.bad \ {f}} \cup (IF "bad" \in Faults /\ script.ok THEN {disk.bad \cup {f}} ELSE {}),
        inc \in {disk.include} \cup (IF "newinc" \in Faults /\ f = "main" THEN {~disk.include} ELSE {}),
        tick \in {1} \cup (IF "second" \in Faults THEN {0} ELSE {}) :
       disk' = [ver |-> [disk.ver EXCEPT ![f] = @ + 1],
                mtime |-> [disk.mtime EXCEPT ![f] = @ + tick],
                bad |-> bad, include |-> inc]
  /\ UNCHANGED <<script, cfg, current_config, th, new, counters, got_sighup, binkd_exit>>

sighup ==
  /\ left > 0 /\ ~binkd_exit
  /\ left' = left - 1
  /\ got_sighup' = TRUE
  /\ UNCHANGED <<disk, script, cfg, current_config, th, new, counters, binkd_exit>>

(* exitsig: the flag is set, and select() is interrupted when servmgr is   *)
(* in it; a signal at any other moment leaves nothing behind but the flag. *)
exitsig ==
  /\ ~binkd_exit
  /\ th["main"].pc = "select" \/ "late" \in Faults
  /\ binkd_exit' = TRUE
  /\ th' = IF th["main"].pc = "select" THEN [th EXCEPT !["main"].pc = "failed"] ELSE th
  /\ UNCHANGED <<disk, script, got_sighup, left, cfg, current_config, new, counters>>

(***************************************************************************)
(* main: servmgr, do_server and checkcfg.                                  *)
(***************************************************************************)
At(t, place) == th[t].pc = place
Alive == ~At("main", "over")      \* main() has returned: no thread goes on
Goto(t, next) == th' = [th EXCEPT ![t].pc = next]

servmgr_lock ==
  /\ At("main", "lock")
  /\ lock_current_config("main")
  /\ th' = [th EXCEPT !["main"].pc = "listen", !["main"].cfg = current_config]
  /\ UNCHANGED <<world, current_config, new, counters>>

(* do_server opens a socket for every address of every listen line; the    *)
(* first that cannot be resolved, made, bound or listened on, or none at   *)
(* all, ends the program, at the start and after a reload alike.           *)
do_server_listen ==
  /\ At("main", "listen")
  /\ \/ Goto("main", "select")
     \/ "listen" \in Faults /\ Goto("main", "failed")
  /\ UNCHANGED <<world, cfg, current_config, new, counters>>

(* branch: a thread starts with a copy of its arguments. *)
branch(place, c, kind) == [Idle EXCEPT !.pc = place, !.cfg = c, !.kind = kind]

(* A connection: ++n_servers, then branch(serv); n_servers is taken back   *)
(* when no thread can be started.                                          *)
accept(s) ==
  /\ At("main", "select") /\ At(s, "none")
  /\ n_servers' = n_servers + 1
  /\ th' = [th EXCEPT ![s] = branch("born", 0, "serv")]
  /\ UNCHANGED <<world, cfg, current_config, new, n_clients, pidcmgr>>

(* The files in the list of the current structure whose time has changed. *)
Changed == {f \in Files : /\ cfg[current_config].mtime[f] # 0
                          /\ cfg[current_config].mtime[f] # disk.mtime[f]}

(* What the need_reload() hook makes of it. *)
perl_need_reload(need) ==
  {need} \cup (IF cfg[current_config].perl /\ "veto" \in Faults THEN {TRUE, FALSE} ELSE {})

(* select() has timed out, or a SIGHUP ended it: the files are looked at,  *)
(* and the times found are kept in the OLD structure, so that a file with  *)
(* an error is not read again until it changes again.  Bound: a hook that  *)
(* asks for a reload of nothing new is heard while structures are left.    *)
checkcfg ==
  /\ At("main", "select")
  /\ got_sighup' = FALSE
  /\ cfg' = [cfg EXCEPT ![current_config].mtime =
               [f \in Files |-> IF f \in Changed THEN disk.mtime[f] ELSE @[f]]]
  /\ \E need \in perl_need_reload(got_sighup \/ Changed # {}) :
       /\ need => \E c \in Cfgs : cfg[c] = Fresh
       /\ Goto("main", IF need THEN "read" ELSE "select")
  /\ UNCHANGED <<disk, script, binkd_exit, left, current_config, new, counters>>

(* readcfg0 on one file: its time is taken when it is opened.  The         *)
(* structure under work is static data until every check has passed.       *)
Opened(f, c) == [cfg EXCEPT ![c].ver[f] = disk.ver[f], ![c].mtime[f] = disk.mtime[f]]
Unused == CHOOSE c \in Cfgs : cfg[c] = Fresh

readcfg ==
  /\ At("main", "read")
  /\ IF "main" \in disk.bad
       THEN UNCHANGED <<cfg, new>> /\ Goto("main", "select")
       ELSE /\ new' = Unused
            /\ cfg' = Opened("main", Unused)
            /\ Goto("main", IF disk.include THEN "include" ELSE "perl")
  /\ UNCHANGED <<world, current_config, counters>>

(* "error in configuration, using old config": the structure under work    *)
(* was nobody else's.                                                      *)
UseOld == cfg' = [cfg EXCEPT ![new] = Fresh] /\ new' = 0 /\ Goto("main", "select")

(* Mutant: the time of a file is taken again when all has been read. *)
read_include_late ==
  /\ At("main", "include")
  /\ IF "inc" \in disk.bad
       THEN UseOld
       ELSE /\ UNCHANGED new
            /\ cfg' = [Opened("inc", new) EXCEPT ![new].mtime = disk.mtime]
            /\ Goto("main", "perl")
  /\ UNCHANGED <<world, current_config, counters>>

(* The include line is reached: the file may have been edited meanwhile. *)
read_include ==
  /\ At("main", "include")
  /\ IF "inc" \in disk.bad
       THEN UseOld
       ELSE cfg' = Opened("inc", new) /\ Goto("main", "perl") /\ UNCHANGED new
  /\ UNCHANGED <<world, current_config, counters>>

(* A script that does not compile ends the reload when perl-strict is set, *)
(* and leaves the structure without hooks when it is not.                  *)
perl_init_fails ==
  /\ At("main", "perl") /\ ~script.ok /\ script.strict
  /\ UseOld
  /\ UNCHANGED <<world, current_config, counters>>

(* All checks passed: the structure is allocated with the count of         *)
(* work_config, perl_init and perl_config_loaded run, and the pointer      *)
(* changes under config_sem.                                               *)
swap_config ==
  /\ At("main", "perl") /\ (script.ok \/ ~script.strict)
  /\ cfg' = [cfg EXCEPT ![new].count = 1, ![new].perl = script.ok]
  /\ current_config' = new
  /\ new' = current_config
  /\ Goto("main", "dropold")
  /\ UNCHANGED <<world, counters>>

(* checkcfg gives up its hold on the old structure and returns 1; do_server *)
(* closes the listening sockets and returns 0.                             *)
drop_old ==
  /\ At("main", "dropold")
  /\ unlock_config_structure("main", new, "leave")
  /\ new' = 0
  /\ UNCHANGED <<world, current_config, counters>>

(* Mutant: the loop of servmgr does not look at the exit flag. *)
servmgr_unlock_blind ==
  /\ th["main"].pc \in {"leave", "failed"}
  /\ unlock_config_structure("main", th["main"].cfg, "lock")
  /\ UNCHANGED <<world, current_config, new, counters>>
(* Back in servmgr: again after a reload, the end after an error. *)
servmgr_unlock ==
  /\ th["main"].pc \in {"leave", "failed"}
  /\ unlock_config_structure("main", th["main"].cfg,
       IF At("main", "leave") /\ ~binkd_exit THEN "lock" ELSE "wait")
  /\ UNCHANGED <<world, current_config, new, counters>>

(***************************************************************************)
(* exitfunc(), run by main when servmgr is over: sockets are closed, then  *)
(* the threads are waited for; four seconds without an end of a thread     *)
(* end the wait.                                                           *)
(***************************************************************************)
exitfunc_wait ==
  /\ At("main", "wait")
  /\ binkd_exit' = TRUE
  /\ Goto("main", IF n_servers = 0 /\ n_clients = 0 /\ ~pidcmgr THEN "last" ELSE "wait")
  /\ UNCHANGED <<disk, script, got_sighup, left, cfg, current_config, new, counters>>

exitfunc_timeout ==
  /\ At("main", "wait") /\ binkd_exit /\ "stuck" \in Faults
  /\ Goto("main", "last")
  /\ UNCHANGED <<world, cfg, current_config, new, counters>>

(* The flags are removed, the structure is locked and unlocked once. *)
exitfunc_lock ==
  /\ At("main", "last")
  /\ lock_current_config("main")
  /\ th' = [th EXCEPT !["main"].pc = "unload", !["main"].cfg = current_config]
  /\ UNCHANGED <<world, current_config, new, counters>>

exitfunc_unlock ==
  /\ At("main", "unload")
  /\ unlock_config_structure("main", th["main"].cfg, "over")
  /\ UNCHANGED <<world, current_config, new, counters>>

main ==
  \/ servmgr_lock \/ do_server_listen \/ checkcfg \/ readcfg \/ read_include \/ perl_init_fails
  \/ swap_config \/ drop_old \/ servmgr_unlock
  \/ exitfunc_wait \/ exitfunc_lock \/ exitfunc_unlock
  \/ free_config("main")

(***************************************************************************)
(* clientmgr.                                                              *)
(***************************************************************************)
clientmgr_lock ==
  /\ At("cmgr", "lock")
  /\ lock_current_config("cmgr")
  /\ perl_init_clone("cmgr", current_config, "loop")
  /\ UNCHANGED <<world, current_config, new, counters>>

(* Mutant: the new structure is not noticed. *)
clientmgr_loop_deaf ==
  /\ At("cmgr", "loop")
  /\ Goto("cmgr", "client")
  /\ UNCHANGED <<world, cfg, current_config, new, counters>>
(* The top of the loop compares pointers without a lock. *)
clientmgr_loop ==
  /\ At("cmgr", "loop")
  /\ Goto("cmgr", IF th["cmgr"].cfg # current_config THEN "change" ELSE "client")
  /\ UNCHANGED <<world, cfg, current_config, new, counters>>

(* Mutant: the clone is left for later when the structure is given up. *)
clientmgr_unclone_late ==
  /\ \/ At("cmgr", "change") /\ Goto("cmgr", "unlock")
     \/ At("cmgr", "down") /\ Goto("cmgr", "unlock_down")
  /\ UNCHANGED <<world, cfg, current_config, new, counters>>
clientmgr_unclone ==
  \/ At("cmgr", "change") /\ perl_done_clone("cmgr", "unlock")
  \/ At("cmgr", "down") /\ perl_done_clone("cmgr", "unlock_down")

clientmgr_unlock ==
  /\ \/ At("cmgr", "unlock") /\ unlock_config_structure("cmgr", th["cmgr"].cfg, "lock")
     \/ At("cmgr", "unlock_down") /\ unlock_config_structure("cmgr", th["cmgr"].cfg, "ended")
  /\ UNCHANGED <<world, current_config, new, counters>>

(* do_client has returned: out of the loop when the program ends. *)
AfterClient == IF binkd_exit THEN "down" ELSE "loop"

(* A node to call: ++n_clients, one more user of the structure, which is   *)
(* counted without config_sem, then branch(call).                          *)
do_client_call(s) ==
  /\ At("cmgr", "client") /\ At(s, "none")
  /\ n_clients' = n_clients + 1
  /\ cfg' = [cfg EXCEPT ![th["cmgr"].cfg].count = @ + 1]
  /\ th' = [th EXCEPT !["cmgr"].pc = AfterClient, ![s] = branch("clone", th["cmgr"].cfg, "call")]
  /\ UNCHANGED <<world, current_config, new, n_servers, pidcmgr>>

(* Nobody to call, or too many callers, or branch() failed and both counts *)
(* are taken back: a sleep, then the loop again.                           *)
do_client_idle ==
  /\ At("cmgr", "client")
  /\ Goto("cmgr", AfterClient)
  /\ UNCHANGED <<world, cfg, current_config, new, counters>>

clientmgr_end ==
  /\ At("cmgr", "ended") /\ pidcmgr
  /\ pidcmgr' = FALSE
  /\ UNCHANGED <<world, cfg, current_config, th, new, n_servers, n_clients>>

clientmgr == Alive /\ (
  \/ clientmgr_lock \/ clientmgr_loop \/ clientmgr_unclone
  \/ clientmgr_unlock \/ do_client_idle
  \/ clientmgr_end \/ free_config("cmgr"))

(***************************************************************************)
(* serv() and call(); th.kind tells them apart.                            *)
(***************************************************************************)
serv_lock(s) ==
  /\ At(s, "born")
  /\ lock_current_config(s)
  /\ perl_init_clone(s, current_config, "session")
  /\ UNCHANGED <<world, current_config, new, counters>>

(* A line of the log: the on_log() hook runs under a hold of the structure *)
(* that is current now, which may be another than the session's own, and   *)
(* the logger may be its last user.  One line of every session is enough.  *)
perl_on_log(s) ==
  /\ At(s, "session")
  /\ lock_current_config(s)
  /\ th' = [th EXCEPT ![s].pc = "on_log", ![s].gone = current_config]
  /\ UNCHANGED <<world, current_config, new, counters>>

log_done(s) ==
  /\ At(s, "on_log")
  /\ unlock_config_structure(s, th[s].gone, "logged")
  /\ UNCHANGED <<world, current_config, new, counters>>

(* call() is handed its structure and makes its clone first. *)
call_clone(s) ==
  /\ At(s, "clone")
  /\ perl_init_clone(s, th[s].cfg, "session")
  /\ UNCHANGED <<world, cfg, current_config, new, counters>>

session_over(s) == th[s].pc \in {"session", "logged"} /\ perl_done_clone(s, "unlock")

(* The place after the unlock keeps whose thread it is. *)
session_unlock(s) ==
  /\ At(s, "unlock")
  /\ unlock_config_structure(s, th[s].cfg,
       IF th[s].kind = "call" THEN "ended_call" ELSE "ended_serv")
  /\ UNCHANGED <<world, current_config, new, counters>>

session_end(s) ==
  /\ \/ At(s, "ended_serv") /\ n_servers' = n_servers - 1 /\ UNCHANGED n_clients
     \/ At(s, "ended_call") /\ n_clients' = n_clients - 1 /\ UNCHANGED n_servers
  /\ th' = [th EXCEPT ![s] = Idle]
  /\ UNCHANGED <<world, cfg, current_config, new, pidcmgr>>

session(s) == Alive /\ (
  \/ serv_lock(s) \/ call_clone(s) \/ perl_on_log(s) \/ log_done(s)
  \/ session_over(s) \/ session_unlock(s)
  \/ session_end(s) \/ free_config(s))

Starts == Alive /\ \E s \in Sessions : accept(s) \/ do_client_call(s)

Next ==
  \/ main \/ exitfunc_timeout
  \/ clientmgr \/ Starts
  \/ \E s \in Sessions : session(s)
  \/ \E f \in Files : Edit(f)
  \/ sighup \/ exitsig

Spec == Init /\ [][Next]_vars

(* select() times out, threads run, and a session ends: the remote is gone *)
(* for the time of the timeout at the latest.                              *)
FairSpec ==
  /\ Spec /\ WF_vars(main) /\ WF_vars(clientmgr)
  /\ \A s \in Sessions : WF_vars(session(s))
-----------------------------------------------------------------------------
(***************************************************************************)
(* Properties.                                                             *)
(***************************************************************************)
(* Where a thread reads the structure it holds, or a clone made of it. *)
Uses(t, c) ==
  \/ th[t].pc = "on_log" /\ th[t].gone = c
  \/ /\ th[t].cfg = c
     /\ \/ th[t].clone
        \/ t = "main" /\ th[t].pc \in {"listen", "select", "read", "include", "perl", "dropold",
                                       "leave", "failed", "unload"}
        \/ t = "cmgr" /\ th[t].pc \in {"loop", "change", "client", "down", "unlock", "unlock_down"}
        \/ t \in Sessions /\ th[t].pc \in {"clone", "session", "on_log", "logged", "unlock"}

(* No structure, and no Perl interpreter of it, is freed while a thread    *)
(* still uses it or while it is the current one: readcfg.c frees on the    *)
(* last unlock only, serv() and call() destroy their clone before.         *)
ConfigLive ==
  \A c \in Cfgs : cfg[c].freed => c # current_config /\ \A t \in Threads : ~Uses(t, c)

(* A structure that was replaced is freed once the sessions that use it    *)
(* have ended, clientmgr's long hold on it included.                       *)
RetiredFreed ==
  \A c \in Cfgs :
    (cfg[c].count > 0 /\ c # current_config /\ c # new) ~> (cfg[c].freed \/ At("main", "over"))

(* What is on disk, when it can be loaded, is loaded in the end: no edit   *)
(* is lost between the time kept for a file and the reading of it.         *)
Stale ==
  /\ disk.bad = {} /\ (script.ok \/ ~script.strict)
  /\ \E f \in Files : (f = "main" \/ disk.include) /\ cfg[current_config].ver[f] # disk.ver[f]
EditLoaded == Stale ~> (~Stale \/ binkd_exit)

(* A signal to stop the program stops it. *)
ExitEnds == binkd_exit ~> At("main", "over")
=============================================================================
