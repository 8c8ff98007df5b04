------------------------------ MODULE Outbound ------------------------------
(***************************************************************************)
(* The outbound of one link and the session that empties it: what is on    *)
(* the disk (packets, requests, files attached by lines of a .?lo, files   *)
(* in a filebox), the queue the session scans, and the removal of a file   *)
(* from the spool when the remote acknowledges it.                         *)
(*                                                                         *)
(* A removal is several writes to the disk (mark the lines of the .?lo,    *)
(* delete the .?lo, delete or truncate the file): each is a step of its    *)
(* own, and the process may be killed between two of them.  The tosser     *)
(* puts mail while the link is not busy (Mailer shows that the .bsy flag   *)
(* keeps it so), and into the filebox at any time.  The exchange of        *)
(* frames, NR and ND modes are in BinkpTransfer; here the remote takes,    *)
(* already has or skips a file.  rf_rules rename every line alike, so a    *)
(* file stands for the name after trans_flo_line; without rf_rules a       *)
(* session that could not delete a file dies at its next line (NullLine).  *)
(***************************************************************************)
EXTENDS Integers, Sequences, FiniteSets, SequencesExt

CONSTANTS Attached,   \* files the tosser attaches by a line of the .?lo
          Packets,    \* the link's .?ut files
          Requests,   \* the link's .req files
          Boxed,      \* files put into the link's filebox
          Responses,  \* files an external request processor answers with
          LineActs,   \* what a line of the .?lo asks for: 'd'elete, 't'runcate, '0'
          Predictors, \* how the response list marks them: '=', '+', '-'
          FLO,        \* the link's .?lo
          MaxPuts,    \* bound: how often the tosser puts something
          MaxRcvd,    \* bound: requests of the remote in one session
          MaxFaults,  \* bound: accidents
          Faults      \* which accidents happen

Files == Attached \cup Packets \cup Requests \cup Boxed \cup Responses

ASSUME OutboundAssumption ==
  /\ MaxPuts \in Nat /\ MaxRcvd \in Nat /\ MaxFaults \in Nat
  /\ Faults \subseteq {"crash", "drop", "delete", "veto", "perl", "skip"}
  /\ LineActs \subseteq {"d", "t", "0"} /\ Predictors \subseteq {"=", "+", "-"} /\ FLO \notin Files

\* A name tells which kind of file it is, and there are finitely many.
ASSUME KindsAssumption ==
  /\ IsFiniteSet(Files)
  /\ Attached \cap (Packets \cup Requests \cup Boxed \cup Responses) = {}
  /\ Requests \cap (Packets \cup Boxed \cup Responses) = {}
  /\ Responses \cap (Packets \cup Boxed) = {}
  /\ Packets \cap Boxed = {}

VARIABLES disk,       \* file -> "none", "small" (no mail in it) or "full"
          flo,        \* lines of the .?lo: [file, act, done]
          ph,         \* session: "none", "up", "ok", "fail"
          sess,       \* what the session knows: see NewSession
          todo,       \* writes of remove_from_spool still to be done
          got,        \* history: contents the remote has
          due,        \* history: mail handed to the link, not yet delivered
          answered,   \* history: files the remote answered in this session
          puts, faults
vars == <<disk, flo, ph, sess, todo, got, due, answered, puts, faults>>
world == <<got, due, puts>>

NoFile == [path |-> FLO, flo |-> FALSE, action |-> "0", type |-> ""]
There(f) == disk[f] # "none"

-----------------------------------------------------------------------------
(* The queue. *)

Entry(f, type, action, aka) ==
  [path |-> f, type |-> type, action |-> action, aka |-> aka, sent |-> FALSE]

\* q_add_dir: what the directory of the outbound holds for the first address.
q_add_dir(d) ==
  {Entry(f, "m", "d", 1) : f \in {p \in Packets : d[p] # "none"}}
  \cup {Entry(f, "r", "s", 1) : f \in {p \in Requests : d[p] # "none"}}
  \cup {Entry(f, "l", "d", 1) : f \in {p \in {FLO} : d[p] # "none"}}

\* q_scan_boxes: the filebox belongs to the remote's second address.
q_scan_boxes(d) ==
  {Entry(f, "", "d", 2) : f \in {p \in Boxed : d[p] # "none"}}

q_scan_addrs(d) == q_add_dir(d) \cup q_scan_boxes(d)

typeorder == <<"s", "r", "m", "l", "d">>

\* q_cmp: > 0 when b has to stand before a.  Two files of one known address
\* compare as -1 whatever their types; entries that were sent come first.
q_cmp(a, b) ==
  LET N(x) == IF x THEN 1 ELSE 0
      Rank(t) == IF \E i \in 1..5 : typeorder[i] = t
                 THEN CHOOSE i \in 1..5 : typeorder[i] = t ELSE 6
  IN  CASE a.sent \/ b.sent -> N(b.sent) - N(a.sent)
        [] a.aka = b.aka    -> -1
        [] OTHER            -> Rank(a.type) - Rank(b.type)

Inserted(s, e) ==
  LET later == {i \in DOMAIN s : q_cmp(s[i], e) > 0}
  IN  IF later = {} THEN Append(s, e)
      ELSE InsertAt(s, CHOOSE i \in later : \A j \in later : i <= j, e)

\* q_sort: insertion before the first element that has to come later.
q_sort(q) ==
  LET sorted[n \in 0..Len(q)] == IF n = 0 THEN <<>> ELSE Inserted(sorted[n - 1], q[n])
  IN  sorted[Len(q)]

\* readdir gives the files in any order, and every entry goes to the head.
Scans(set, q) == {q_sort(s \o q) : s \in SetToSeqs(set)}

Unsent(q) == {i \in DOMAIN q : ~q[i].sent}
select_next_file(q) ==
  CHOOSE i \in Unsent(q) : \A j \in Unsent(q) : i <= j

\* The elements of s that are in S, in their order.
Only(s, S) ==
  LET kept[n \in 0..Len(s)] == IF n = 0 THEN <<>>
                               ELSE IF s[n] \in S THEN Append(kept[n - 1], s[n])
                               ELSE kept[n - 1]
  IN  kept[Len(s)]

\* What a Perl hook leaves of the queue (it may reorder it too, but the order
\* of the scan is arbitrary already).
refresh_queue(q) == {Only(q, S) : S \in SUBSET Range(q)}

\* A response goes to the end of the queue.
q_add_last_file(q, e) == Append(q, e)

\* parse_response: '=' deletes when sent, '+' keeps, '-' deletes anyway.
parse_response(q, f, predictor) ==
  q_add_last_file(q, Entry(f, "", CASE predictor = "=" -> "d" [] predictor = "+" -> "0"
                                    [] predictor = "-" -> "a", 1))

\* q_to_killlist: the '-' responses go whether or not they are sent.
q_to_killlist(q) == {<<q[i].path, "any">> : i \in {j \in DOMAIN q : q[j].action = "a"}}
Cleared(q) == [i \in DOMAIN q |-> IF q[i].action = "a" THEN [q[i] EXCEPT !.action = "0"]
                                  ELSE q[i]]

-----------------------------------------------------------------------------
(* The disk.  remove_from_spool gives the writes, WriteNext does them. *)

Unmarked(f) == {i \in DOMAIN flo : flo[i].file = f /\ ~flo[i].done}

Mark(f) == [op |-> "mark", file |-> f, action |-> "0"]
Unlink == [op |-> "unlink", file |-> FLO, action |-> "0"]
Act(f, action) == [op |-> "act", file |-> f, action |-> action]

remove_from_spool(t) ==
  IF ~t.flo THEN <<Act(t.path, t.action)>>
  ELSE IF sess.pos = 0 /\ ~There(FLO) THEN <<>>          \* cannot open it
  ELSE <<Mark(t.path)>> \o (IF sess.pos = 0 THEN <<Unlink>> ELSE <<>>)
       \o <<Act(t.path, t.action)>>

(* Mutant: a request is deleted when it was sent. *)
perform_action_now(f, action, d) ==
  IF action \in {"d", "s"} THEN [d EXCEPT ![f] = "none"]
  ELSE IF action = "t" THEN [d EXCEPT ![f] = "small"] ELSE d

perform_action(f, action, d) ==
  CASE action = "d" -> [d EXCEPT ![f] = "none"]
    [] action = "t" -> [d EXCEPT ![f] = "small"]
    [] OTHER        -> d

Fault(k) == k \in Faults /\ faults < MaxFaults

(* Mutant: an undeletable file is not remembered. *)
RememberNot(s, f) == s

Remember(s, f) == [s EXCEPT !.nosendlist = @ \cup {f}]

\* One write of a removal; a file that cannot be deleted is remembered, so
\* that this session does not send it again.
WriteNext ==
  LET s == Head(todo) IN
  /\ todo # <<>>
  /\ todo' = Tail(todo)
  /\ CASE s.op = "mark" ->
            /\ flo' = [i \in DOMAIN flo |-> IF i \in Unmarked(s.file)
                         THEN [flo[i] EXCEPT !.done = TRUE] ELSE flo[i]]
            /\ UNCHANGED <<disk, sess, faults>>
       [] s.op = "unlink" ->
            /\ IF \A i \in DOMAIN flo : flo[i].done
               THEN disk' = [disk EXCEPT ![FLO] = "none"] /\ flo' = <<>>
               ELSE UNCHANGED <<disk, flo>>
            /\ UNCHANGED <<sess, faults>>
       [] s.op = "act" ->
            /\ flo' = flo
            /\ \/ /\ disk' = perform_action(s.file, s.action, disk)
                  /\ sess' = IF s.action = "s"
                             THEN [sess EXCEPT !.killlist = @ \cup {<<s.file, "s">>}]
                             ELSE sess
                  /\ faults' = faults
               \/ /\ s.action = "d" /\ There(s.file) /\ Fault("delete")
                  /\ sess' = Remember(sess, s.file)
                  /\ faults' = faults + 1
                  /\ disk' = disk
  /\ UNCHANGED <<ph, answered, world>>

-----------------------------------------------------------------------------
(* The tosser, the request processor and the remote. *)

\* The tosser writes a file and, for an attachment, its line of the .?lo.
\* A packet may hold no mail at all; a line may name a file that is gone.
Toss(f) ==
  /\ puts < MaxPuts /\ puts' = puts + 1
  /\ f \in Boxed \/ ph = "none"
  /\ f \notin Responses /\ ~There(f) /\ Unmarked(f) = {}
  /\ todo = <<>> /\ sess.out.path # f
  /\ \E what \in {"full"} \cup (IF f \in Attached THEN {"none"} ELSE {})
                             \cup (IF f \in Packets THEN {"small"} ELSE {}) :
       /\ disk' = [disk EXCEPT ![f] = what, ![FLO] = IF f \in Attached THEN "full" ELSE @]
       /\ \E act \in IF what = "full" THEN LineActs ELSE {"d"} :
            flo' = IF f \in Attached
                   THEN Append(flo, [file |-> f, act |-> act, done |-> FALSE]) ELSE flo
       /\ due' = IF what = "full" THEN due \cup {f} ELSE due
  /\ got' = got \ {f}
  /\ answered' = answered \ {f}
  /\ UNCHANGED <<ph, sess, todo, faults>>

Idle == ph = "up" /\ todo = <<>>

Offered(f) == \E i \in DOMAIN sess.sent : sess.sent[i].path = f

\* The remote has stored the whole file; its M_GOT is still to come.
RemoteTakes(f) ==
  /\ ph = "up" /\ Offered(f) /\ f \notin got
  /\ got' = got \cup {f}
  /\ UNCHANGED <<disk, flo, ph, sess, todo, due, answered, puts, faults>>

\* Nothing left to send, and every file sent is answered.
Through == /\ sess.pos = 0 /\ Unsent(sess.q) = {}
           /\ sess.out = NoFile /\ sess.sent = <<>>

\* M_EOB of the remote.  Taken when we are through: earlier it would only
\* keep the remote from sending requests.
RemoteEOB ==
  /\ Idle /\ ~sess.remote_EOB /\ Through
  /\ sess' = [sess EXCEPT !.remote_EOB = TRUE, !.delay_EOB = FALSE]
  /\ UNCHANGED <<disk, flo, ph, todo, answered, faults, world>>

-----------------------------------------------------------------------------
(* The session. *)

NewSession ==
  [q |-> <<>>, pos |-> 0, out |-> NoFile, sent |-> <<>>, killlist |-> {},
   nosendlist |-> {}, named |-> "line", rcvdlist |-> 0, rcvd |-> 0,
   r_skipped |-> FALSE, local_EOB |-> FALSE, remote_EOB |-> FALSE, busy |-> FALSE,
   v10 |-> FALSE, delay_EOB |-> FALSE]

\* after_handshake() may edit the queue, or end the session at once.
perl_after_handshake(q) ==
  {[q |-> q, ph |-> "up"]} \cup
  (IF Fault("perl") THEN [q : refresh_queue(q), ph : {"up"}] \cup {[q |-> q, ph |-> "fail"]}
   ELSE {})

\* complete_login: scan, sort, and let Perl edit the queue.  A binkp/1.0
\* remote (v10) ends with the first batch, and delays our M_EOB when it
\* announces a request with M_NUL FREQ, as it does here.
complete_login ==
  /\ ph = "none"
  /\ \E q \in Scans(q_scan_addrs(disk), <<>>), v10 \in BOOLEAN :
          \E perl \in perl_after_handshake(q) :
            /\ sess' = [NewSession EXCEPT !.q = perl.q, !.v10 = v10, !.delay_EOB = v10]
            /\ ph' = perl.ph
            /\ faults' = IF perl = [q |-> q, ph |-> "up"] THEN faults ELSE faults + 1
  /\ answered' = {}
  /\ UNCHANGED <<disk, flo, todo, world>>

\* before_send() refuses the file, and may edit the queue.
perl_before_send(q) == IF Fault("veto") THEN refresh_queue(q) ELSE {}

\* The rest of start_file_transfer, once a file is open: an empty packet and
\* a file before_send refuses are removed from the spool without being sent.
Start(f, t, s) ==
  LET Removed == todo' = remove_from_spool(t) IN
  \/ /\ t.type = "m" /\ disk[f] = "small"
     /\ Removed
     /\ sess' = s /\ UNCHANGED <<due, faults>>
  \/ \E q \in perl_before_send(s.q) :
       /\ Removed
       /\ sess' = [s EXCEPT !.q = q] /\ faults' = faults + 1
       /\ due' = IF t.action = "s" THEN due ELSE due \ {f}
  \/ /\ ~(t.type = "m" /\ disk[f] = "small")
     /\ sess' = [s EXCEPT !.out = t, !.busy = TRUE]
     /\ UNCHANGED <<todo, due, faults>>

\* What a line of the .?lo is compared by with the not-to-send list: by its
\* own name when the configuration has rf_rules, else (w ? w : file->path) by
\* that of the entry of the queue, which is the .?lo in the call of
\* start_file_transfer that opens it and NULL in every later one.
compared_by == {"line", "flo"}
Later(s) == [s EXCEPT !.named = IF @ = "flo" THEN "null" ELSE @]

\* start_file_transfer when no .?lo is open: the next entry of the queue.
NextFile ==
  /\ Idle /\ sess.out = NoFile /\ sess.pos = 0 /\ ~sess.local_EOB
  /\ Unsent(sess.q) # {}
  /\ LET i == select_next_file(sess.q)
         e == sess.q[i]
         s == [sess EXCEPT !.q[i].sent = TRUE]
     IN  \/ /\ e.path \in sess.nosendlist \/ ~There(e.path)
            /\ sess' = s
            /\ UNCHANGED <<todo, due, faults>>
         \/ /\ e.path \notin sess.nosendlist /\ There(e.path)
            /\ IF e.type = "l"
               THEN /\ \E n \in compared_by : sess' = [s EXCEPT !.pos = 1, !.named = n]
                    /\ UNCHANGED <<todo, due, faults>>
               ELSE Start(e.path, [path |-> e.path, flo |-> FALSE, action |-> e.action,
                                   type |-> e.type], s)
  /\ UNCHANGED <<disk, flo, ph, answered, got, puts>>

(* Mutant: a marked line ends the .?lo. *)
read_flo_line_stops(p) ==
  IF p > Len(flo) THEN 0 ELSE IF flo[p].done THEN 0 ELSE p

\* read_flo_line skips the lines that are marked.
read_flo_line(p) ==
  LET rest == {i \in p..Len(flo) : ~flo[i].done}
  IN  IF rest = {} THEN 0 ELSE CHOOSE i \in rest : \A j \in rest : i <= j

\* The path of the .?lo itself is never in the list.
NotToSend(f) == sess.named = "line" /\ f \in sess.nosendlist
ReadsNull == sess.named = "null" /\ sess.nosendlist # {}

\* start_file_transfer while a .?lo is open: its next line.  At the end of
\* the .?lo it is closed, and deleted if every line is marked; a line whose
\* file cannot be opened is marked.
NextLine ==
  /\ Idle /\ sess.out = NoFile /\ sess.pos > 0
  /\ LET i == read_flo_line(sess.pos) IN
     \/ /\ i = 0
        /\ sess' = [sess EXCEPT !.pos = 0, !.named = "line"]
        /\ todo' = <<Unlink>>
        /\ UNCHANGED <<due, faults>>
     \/ /\ i > 0 /\ ~ReadsNull
        /\ LET f == flo[i].file
               t == [path |-> f, flo |-> TRUE, action |-> flo[i].act, type |-> ""]
               s == [sess EXCEPT !.pos = i + 1]
           IN  IF NotToSend(f) \/ ~There(f)
               THEN sess' = s /\ todo' = <<Mark(f)>> /\ UNCHANGED <<due, faults>>
               ELSE Start(f, t, Later(s))
  /\ UNCHANGED <<disk, flo, ph, answered, got, puts>>

\* The process is gone, and what it knew with it.
Killing ==
  /\ ph' = "none" /\ sess' = NewSession /\ todo' = <<>> /\ answered' = {}
  /\ UNCHANGED <<disk, flo, world>>

\* A line that is compared by a NULL name: strcmp ends the process.
NullLine ==
  /\ Idle /\ sess.out = NoFile /\ sess.pos > 0
  /\ read_flo_line(sess.pos) > 0 /\ ReadsNull
  /\ Killing /\ faults' = faults

\* send_block has read the file to its end: current_file_was_sent.
SendFile ==
  /\ Idle /\ sess.out # NoFile
  /\ sess' = [sess EXCEPT !.sent = Append(@, sess.out), !.out = NoFile]
  /\ UNCHANGED <<disk, flo, ph, todo, answered, faults, world>>

\* after_sent() may keep the file.  (Bound: not one of the filebox, which the
\* next batch of the same session would find and send again.)
perl_after_sent(t) ==
  {t} \cup (IF Fault("perl") /\ t.path \notin Boxed THEN {[t EXCEPT !.action = "0"]} ELSE {})

remove_from_sent_files_queue(s, n) == RemoveAt(s, n)

\* M_GOT for the file being sent (the remote had it) or for one sent before.
GOT(f) ==
  /\ Idle /\ f \in got
  /\ \/ /\ sess.out # NoFile /\ sess.out.path = f
        /\ todo' = remove_from_spool(sess.out)
        /\ sess' = [sess EXCEPT !.out = NoFile, !.busy = TRUE]
        /\ faults' = faults
     \/ /\ sess.out = NoFile \/ sess.out.path # f
        /\ Offered(f)
        /\ LET n == CHOOSE i \in DOMAIN sess.sent : sess.sent[i].path = f IN
             /\ \E t \in perl_after_sent(sess.sent[n]) :
                  /\ todo' = remove_from_spool(t)
                  /\ faults' = IF t = sess.sent[n] THEN faults ELSE faults + 1
             /\ sess' = [sess EXCEPT !.sent = remove_from_sent_files_queue(@, n), !.busy = TRUE]
  /\ answered' = answered \cup {f}
  /\ due' = IF f \in Requests THEN due ELSE due \ {f}
  /\ UNCHANGED <<disk, flo, ph, got, puts>>

(* Mutant: the session does not remember that something was skipped. *)
SKIP_forgets(f) ==
  /\ "skip" \in Faults /\ Idle /\ f \notin got
  /\ Offered(f) \/ sess.out.path = f
  /\ sess' = [sess EXCEPT !.sent = Only(@, {t \in Range(@) : t.path # f}), !.busy = TRUE,
                          !.out = IF @.path = f THEN NoFile ELSE @]
  /\ answered' = answered \cup {f}
  /\ UNCHANGED <<disk, flo, ph, todo, faults, world>>

\* M_SKIP: nothing is removed from the spool.
SKIP(f) ==
  /\ "skip" \in Faults /\ Idle /\ f \notin got
  /\ Offered(f) \/ sess.out.path = f
  /\ sess' = [sess EXCEPT !.sent = Only(@, {t \in Range(@) : t.path # f}), !.busy = TRUE,
                          !.out = IF @.path = f THEN NoFile ELSE @, !.r_skipped = TRUE]
  /\ answered' = answered \cup {f}
  /\ UNCHANGED <<disk, flo, ph, todo, faults, world>>

\* The .srf is written, unless the address has no place in the outbound or
\* the file cannot be made.
srif_fill == BOOLEAN

\* The external program is run, unless the name of the request has characters
\* that may not go to a command line, and answers with a file or with none.
run_args(written) ==
  {<<>>} \cup IF written
              THEN {<<f, p>> : f \in {r \in Responses : ~Offered(r) /\ sess.out.path # r},
                               p \in Predictors}
              ELSE {}

\* evt_run on a request, and parse_response on what came of it.
RunSRIF(s) ==
  \E written \in srif_fill : \E answer \in run_args(written) :
    \/ answer = <<>> /\ sess' = s /\ UNCHANGED <<disk, got, answered>>
    \/ /\ answer # <<>>
       /\ sess' = [s EXCEPT !.q = parse_response(@, answer[1], answer[2])]
       /\ disk' = [disk EXCEPT ![answer[1]] = "full"]
       /\ got' = got \ {answer[1]}
       /\ answered' = answered \ {answer[1]}

\* inb_done of a request: with delay_EOB it is run at once, else it waits
\* in rcvdlist for the end of the batch (so it may as well come when we are
\* through).
ReceiveRequest ==
  /\ Idle /\ ~sess.remote_EOB /\ sess.rcvd < MaxRcvd
  /\ LET s == [sess EXCEPT !.rcvd = @ + 1, !.busy = TRUE, !.delay_EOB = FALSE] IN
     \/ sess.delay_EOB /\ RunSRIF(s)
     \/ /\ ~sess.delay_EOB /\ Through
        /\ sess' = [s EXCEPT !.rcvdlist = @ + 1]
        /\ UNCHANGED <<disk, got, answered>>
  /\ UNCHANGED <<flo, ph, todo, due, puts, faults>>

\* The queue is through: it is freed and M_EOB goes out once every file is
\* answered, unless it has to wait for the announced request.
LocalEOB ==
  /\ Idle /\ Through /\ ~sess.local_EOB /\ ~sess.delay_EOB
  /\ sess' = [sess EXCEPT !.q = <<>>, !.local_EOB = TRUE]
  /\ UNCHANGED <<disk, flo, ph, todo, answered, faults, world>>

BatchOver ==
  /\ Idle /\ sess.local_EOB /\ sess.remote_EOB
  /\ sess.sent = <<>> /\ sess.out = NoFile

\* End of a batch: the waiting requests are run one after the other.
ProcessRcvdlist ==
  /\ BatchOver /\ sess.rcvdlist > 0
  /\ RunSRIF([sess EXCEPT !.rcvdlist = @ - 1])
  /\ UNCHANGED <<flo, ph, todo, due, puts, faults>>

\* End of a batch: an idle one ends the session, after another one the
\* fileboxes are scanned again.
EndBatch ==
  /\ BatchOver /\ sess.rcvdlist = 0
  /\ LET s == [sess EXCEPT !.killlist = @ \cup q_to_killlist(sess.q), !.q = Cleared(@)] IN
     \/ /\ ~sess.busy \/ sess.v10
        /\ sess' = s /\ ph' = "ok"
     \/ /\ sess.busy /\ ~sess.v10
        /\ ph' = ph
        /\ \E q \in Scans(IF s.r_skipped THEN {} ELSE q_scan_boxes(disk), s.q) :
             sess' = [s EXCEPT !.q = IF s.r_skipped THEN s.q ELSE q, !.busy = FALSE,
                               !.local_EOB = FALSE, !.remote_EOB = FALSE]
  /\ UNCHANGED <<disk, flo, todo, answered, faults, world>>

\* process_killlist: requests go only after a successful session.
Killed(k) == {p \in Files : <<p, "any">> \in sess.killlist \/ (k /\ <<p, "s">> \in sess.killlist)}

\* The end of protocol(): an unsuccessful session leaves a poll behind when
\* it was ours to call (to) and its mail was not on hold.
EndSession ==
  /\ ph \in {"ok", "fail"} /\ todo = <<>>
  /\ \E to \in BOOLEAN :
       disk' = [f \in DOMAIN disk |->
                 IF f \in Killed(ph = "ok") THEN "none"
                 ELSE IF f = FLO /\ ph = "fail" /\ to THEN "full" ELSE disk[f]]
  /\ due' = IF ph = "ok" THEN due \ (Killed(TRUE) \cap Requests) ELSE due
  /\ ph' = "none" /\ sess' = NewSession /\ answered' = {}
  /\ UNCHANGED <<flo, todo, got, puts, faults>>

-----------------------------------------------------------------------------
(* Accidents. *)

\* The connection breaks, or the remote does not answer within nettimeout.
Drop ==
  /\ Idle /\ Fault("drop") /\ faults' = faults + 1
  /\ ph' = "fail"
  /\ UNCHANGED <<disk, flo, sess, todo, answered, world>>

\* The process is killed from outside.
Crash ==
  /\ ph # "none" /\ Fault("crash") /\ faults' = faults + 1
  /\ Killing

-----------------------------------------------------------------------------
Init ==
  /\ disk = [f \in Files \cup {FLO} |-> "none"] /\ flo = <<>>
  /\ ph = "none" /\ sess = NewSession /\ todo = <<>>
  /\ got = {} /\ due = {} /\ answered = {} /\ puts = 0 /\ faults = 0

Session == \/ complete_login \/ NextFile \/ NextLine \/ NullLine \/ SendFile
           \/ LocalEOB \/ ProcessRcvdlist \/ EndBatch \/ EndSession \/ WriteNext
           \/ \E f \in Files : GOT(f)

Next == \/ Session \/ ReceiveRequest \/ RemoteEOB \/ Drop \/ Crash
        \/ \E f \in Files : Toss(f) \/ RemoteTakes(f) \/ SKIP(f)

Spec == Init /\ [][Next]_vars

\* The session goes on while it can; a remote that is connected stores what
\* it was sent or refuses it, and ends its batches.
Remote == RemoteEOB \/ \E f \in Files : RemoteTakes(f)
Fairness == WF_vars(Session) /\ WF_vars(Remote)
FairSpec == Spec /\ Fairness

-----------------------------------------------------------------------------
(* Mail that was handed to the link and is not acknowledged is still there:
   the file in full, an attachment with an unmarked line of a .?lo that still
   exists, a request until a whole session has succeeded.  Wherever the
   process is killed between the writes of a removal (mark, delete the .?lo,
   delete the file), and whatever the remote skips. *)
Kept ==
  \A f \in due : f \in Requests \/ f \notin got =>
    /\ disk[f] = "full"
    /\ f \in Attached => There(FLO) /\ Unmarked(f) # {}

(* A file the remote has answered, with M_GOT or M_SKIP, is not sent a
   second time in the session: the scan of the fileboxes between two batches
   starts from a new queue, without the marks of the old one. *)
AnsweredOnce == sess.out # NoFile => sess.out.path \notin answered

(* A session comes to its end: a batch that sends or receives nothing ends
   it, and no file makes a batch of its own again and again. *)
BatchesEnd == ph = "up" ~> ph = "none"

(* Once the tosser is done, all mail handed to the link is delivered, unless
   the remote skips files for ever: no file is left behind unqueued, no line
   of the .?lo hides another, and the lines after the one at which a session
   dies because it could not delete a file are left to the next session. *)
MailLeaves ==
  []<><<\E f \in Files : SKIP(f)>>_vars \/ <>[](due = {})
=============================================================================
