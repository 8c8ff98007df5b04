--------------------------- MODULE BinkpTransfer ---------------------------
(***************************************************************************)
(* The file transfer of binkd's binkp engine (protocol.c, inbound.c), one  *)
(* direction of it: a mailer that owns an outbound spool sends, another    *)
(* that owns an inbound directory receives.  The session runs over two     *)
(* FIFO byte streams that may break at any moment, is then re-established, *)
(* and may be in one of the three negotiated modes:                        *)
(*   "plain"  M_FILE name size time 0, data follows at once, pipelined;    *)
(*   "nr"     M_FILE ... -1 first asks the receiver for the offset;        *)
(*   "nd"     as "nr", one file at a time, the received file is renamed    *)
(*            only when the next command shows that the sender has dropped *)
(*            it, and the sender keeps the last acknowledged file in .stc. *)
(*                                                                         *)
(* A file stands for its (netname, size, time) triple, tfile_cmp's notion  *)
(* of identity; its contents are counted in blocks.  What survives a crash *)
(* is what is on disk: the spool, the .stc status file, the .hr/.dt pairs  *)
(* of the receiver and its inbound.  Both mailers are binkd, so the session *)
(* is binkp/1.1: it ends with a batch of two M_EOBs.                       *)
(***************************************************************************)
EXTENDS Integers, Sequences, FiniteSets

CONSTANTS
    Files,        \* the files of the sender's outbound
    Size,         \* Size[f]: blocks of f
    Pkts,         \* the files whose netname is *.pkt (ispkt)
    NoFile,       \* no file at all (a TF_ZERO'd TFILE)
    Modes,        \* the modes a session may be negotiated to
    NextModes,    \* NextModes[m]: those of the session after one in mode m
    StatusFirst,  \* the outbound scan happens to list .stc before the files
    SkipRules,    \* what the receiver may be set to do with each file it is
                  \* offered: "take" it, "keep" it waiting, "destroy" it
    Faults,       \* "crash" (of the receiver), "gotcrash" (of the sender, in GOT),
                  \* "space" (no room in inbound), "stc" (.stc unwritable),
                  \* a complete .dt cannot be renamed: "rename" (at an M_FILE or
                  \* the last block), "eobrename" (at an M_EOB)
    Window        \* blocks the sender may have in flight

Rulings == {"take", "keep", "destroy"}

ASSUME FilesAssumption ==
    /\ NoFile \notin Files
    /\ Size \in [Files -> Nat]
    /\ Pkts \subseteq Files
ASSUME ParamAssumption ==
    /\ Modes \subseteq {"plain", "nr", "nd"}
    /\ NextModes \in [Modes -> (SUBSET Modes) \ {{}}]
    /\ StatusFirst \in BOOLEAN
    /\ SkipRules \in (SUBSET [Files -> Rulings]) \ {{}}
    /\ Faults \subseteq
          {"crash", "gotcrash", "space", "stc", "rename", "eobrename"}
    /\ Window \in Nat

VARIABLES
    (* the sender's disk *)
    spool,        \* files still in the outbound
    stc,          \* the file named by the .stc status file, or NoFile
    (* the receiver's disk *)
    dt,           \* dt[f]: length of the .dt of f, Absent when there is no pair
    inbound,      \* renamed files the tosser has not taken yet
    delivered,    \* how often f was renamed into inbound: 0, 1, 2 (= many)
    refused,      \* files the receiver had the sender destroy (history)
    (* the session *)
    mode,         \* negotiated mode
    s2r, r2s,     \* the two byte streams, as sequences of frames
    snd,          \* the sender's STATE
    rcv           \* the receiver's STATE

disks == <<spool, stc, dt, inbound, delivered>>
vars  == <<spool, stc, dt, inbound, delivered, refused, mode, s2r, r2s, snd, rcv>>

Absent == -1

(* msgs_in_batch: every message a mailer sends or reads in a batch counts, *)
(* here as far as the test "<= 2" looks.                                   *)
Capped(n) == IF n < 3 THEN n + 1 ELSE n
OneMore(st) == [st EXCEPT !.msgs = Capped(@)]

(* Frames.  A data frame carries (f, off) only so that the properties can  *)
(* say whose block it is: the receiver never looks at them.                *)
Msg(t, f, off, n) == [t |-> t, f |-> f, off |-> off, n |-> n]
M_FILE(f, off) == Msg("FILE", f, off, 0)
M_GET(f, off)  == Msg("GET", f, off, 0)
M_GOT(f)       == Msg("GOT", f, 0, 0)
M_SKIP(f)      == Msg("SKIP", f, 0, 0)
M_EOB          == Msg("EOB", NoFile, 0, 0)
DATA(f, off, n) == Msg("DATA", f, off, n)

Commands ==       \* what the sender sends
    [t: {"FILE"}, f: Files, off: Nat \cup {-1}, n: {0}]
    \cup [t: {"DATA"}, f: Files \cup {NoFile}, off: Nat, n: {0, 1}]
    \cup {M_EOB}
Replies ==        \* what the receiver sends
    [t: {"GET", "GOT", "SKIP"}, f: Files, off: Nat, n: {0}] \cup {M_EOB}

(* The sender's STATE after init_protocol and complete_login: the queue is *)
(* what the outbound scan finds, the .stc (type 's') entry included.       *)
SndInit(up) ==
    [up |-> up, q |-> IF up THEN spool ELSE {}, qs |-> IF up THEN stc ELSE NoFile,
     out |-> NoFile, status |-> FALSE, pos |-> 0, offReq |-> FALSE,
     waitGOT |-> FALSE, sendEof |-> FALSE, sent |-> {}, ndAddr |-> FALSE,
     eob |-> FALSE, reob |-> FALSE, msgs |-> 0]

RcvInit(up) ==
    [up |-> up, in |-> NoFile, complete |-> NoFile, balance |-> 0,
     theyNR |-> FALSE, skipAll |-> FALSE, eob |-> FALSE, reob |-> FALSE,
     msgs |-> 0, rules |-> [f \in Files |-> "take"]]

Down == SndInit(FALSE)
RDown == RcvInit(FALSE)

Init ==
    /\ spool = Files
    /\ stc = NoFile
    /\ dt = [f \in Files |-> Absent]
    /\ inbound = {}
    /\ delivered = [f \in Files |-> 0]
    /\ refused = {}
    /\ mode \in Modes
    /\ s2r = <<>> /\ r2s = <<>>
    /\ snd = Down
    /\ rcv = RDown

we_nd == mode = "nd"                  \* ND_flag & WE_ND here, THEY_ND there
we_nr == mode \in {"nr", "nd"}        \* complete_login: WE_ND implies WE_NR

(* A frame for a peer that has closed its socket goes nowhere. *)
ToR(m) == IF rcv.up THEN Append(s2r, m) ELSE s2r
ToS(m) == IF snd.up THEN Append(r2s, m) ELSE r2s

Sending == snd.out # NoFile /\ ~snd.status     \* state.out.f is open

(* A new session.  The .bsy locks of both mailers let it start only when   *)
(* both have left the previous one.  A file that is still in the spool has *)
(* not been destroyed, whatever the last session said of it.               *)
Connect ==
    /\ ~snd.up /\ ~rcv.up
    /\ mode' \in NextModes[mode]
    /\ snd' = SndInit(TRUE)
    /\ \E rules \in SkipRules : rcv' = [RcvInit(TRUE) EXCEPT !.rules = rules]
    /\ s2r' = <<>> /\ r2s' = <<>>
    /\ refused' = refused \ spool
    /\ UNCHANGED disks

-----------------------------------------------------------------------------
(*                              The sender                                 *)

(* start_file_transfer's tail: announce out, from the start or with an     *)
(* offset request.                                                         *)
Announce(f, isStatus, rest) ==
    /\ snd' = OneMore([rest EXCEPT !.out = f, !.status = isStatus, !.pos = 0,
                                   !.waitGOT = FALSE, !.offReq = we_nr,
                                   !.ndAddr = ~we_nd \/ rest.ndAddr])
    /\ s2r' = ToR(M_FILE(f, IF we_nr THEN -1
                            ELSE IF isStatus THEN Size[f] ELSE 0))

(* protocol(): the queue is not empty and there is no file in transfer *)
MayStart ==
    /\ snd.up /\ ~snd.eob /\ ~Sending /\ ~snd.waitGOT /\ ~snd.offReq
    /\ Len(s2r) < Window

StartFile ==
    /\ MayStart
    /\ StatusFirst => snd.qs = NoFile
    /\ \E f \in snd.q : Announce(f, FALSE, [snd EXCEPT !.q = @ \ {f}])
    /\ UNCHANGED <<spool, stc, dt, inbound, delivered, refused, mode, r2s, rcv>>

StartStatus ==
    /\ MayStart
    /\ snd.qs # NoFile
    /\ Announce(snd.qs, TRUE, [snd EXCEPT !.qs = NoFile])
    /\ UNCHANGED <<spool, stc, dt, inbound, delivered, refused, mode, r2s, rcv>>

(* send_block on a file: a block of it, or an empty one at its end; then   *)
(* current_file_was_sent.                                                  *)
SendData ==
    /\ snd.up /\ Sending
    /\ (~snd.offReq /\ ~snd.waitGOT) \/ snd.sendEof
    /\ Len(s2r) < Window
    /\ LET f == snd.out
           n == IF snd.pos < Size[f] THEN 1 ELSE 0
       IN  /\ s2r' = ToR(DATA(f, snd.pos, n))
           /\ snd' = IF snd.pos + n = Size[f]
                     THEN [snd EXCEPT !.out = NoFile, !.pos = 0,
                                      !.sent = @ \cup {f},
                                      !.waitGOT = we_nd \/ @]
                     ELSE [snd EXCEPT !.pos = @ + n]
    /\ UNCHANGED <<spool, stc, dt, inbound, delivered, refused, mode, r2s, rcv>>

(* send_block with send_eof: an empty block that ends a status "file" *)
SendStatusEof ==
    /\ snd.up /\ ~Sending /\ snd.sendEof
    /\ s2r' = ToR(DATA(snd.out, IF snd.out = NoFile THEN 0 ELSE Size[snd.out], 0))
    /\ snd' = [snd EXCEPT !.sendEof = FALSE]
    /\ UNCHANGED <<spool, stc, dt, inbound, delivered, refused, mode, r2s, rcv>>

(* protocol(): nothing queued, nothing in transfer, nothing unacknowledged *)
SendEOB ==
    /\ MayStart
    /\ snd.q = {} /\ snd.qs = NoFile /\ snd.sent = {}
    /\ snd' = OneMore([snd EXCEPT !.eob = TRUE])
    /\ s2r' = ToR(M_EOB)
    /\ UNCHANGED <<spool, stc, dt, inbound, delivered, refused, mode, r2s, rcv>>

(* ND_set_status("", &ND_addr): does nothing while ND_addr.z = -1 *)
ClearedStc(st) == IF st.ndAddr THEN NoFile ELSE stc

(* protocol(): the end of a batch.  Two M_EOBs alone end the session, and  *)
(* with it the doubt about the last file; otherwise the next batch starts. *)
(* The test comes before the next frame is read.                           *)
SenderBatchOver == snd.eob /\ snd.reob /\ snd.sent = {} /\ ~Sending
SenderEndBatch ==
    /\ snd.up /\ SenderBatchOver
    /\ IF snd.msgs <= 2
       THEN /\ stc' = ClearedStc(snd)
            /\ snd' = Down /\ r2s' = <<>>
       ELSE /\ snd' = [snd EXCEPT !.msgs = 0, !.eob = FALSE, !.reob = FALSE]
            /\ UNCHANGED <<stc, r2s>>
    /\ UNCHANGED <<spool, dt, inbound, delivered, refused, mode, s2r, rcv>>

(* recv_block gives the sender's command handlers the head of r2s *)
SenderReads(t) == snd.up /\ ~SenderBatchOver /\ r2s # <<>> /\ Head(r2s).t = t
Read == OneMore(snd)
SenderQuits == snd' = Down /\ r2s' = <<>>

(* GET: the file is looked up in sent_fls first and becomes the file in    *)
(* transfer again, changing places with the one that was.                  *)
GETReopen(f) ==
    IF f \notin snd.sent THEN Read
    ELSE [Read EXCEPT !.sent = (@ \ {f}) \cup IF Sending THEN {snd.out} ELSE {},
                      !.out = IF f \in spool THEN f ELSE NoFile,
                      !.status = FALSE, !.pos = 0]

GETTailKeepsRequest(st) == [st EXCEPT !.ndAddr = FALSE, !.waitGOT = @ /\ ~we_nd]
GETTail(st) == [st EXCEPT !.ndAddr = FALSE, !.offReq = FALSE,
                          !.waitGOT = @ /\ ~we_nd]

GETStatusAtEnd(m, st) ==       \* the receiver holds all of it: let it finish
    /\ we_nd /\ m.off = Size[m.f]
    /\ snd' = OneMore([st EXCEPT !.sendEof = TRUE, !.waitGOT = TRUE,
                                 !.offReq = FALSE])
    /\ s2r' = ToR(M_FILE(m.f, m.off))
    /\ r2s' = Tail(r2s)
    /\ UNCHANGED stc

GETStatusElse(m, st) ==        \* "file already renamed": forget the status
    /\ ~(we_nd /\ m.off = Size[m.f])
    /\ snd' = OneMore(GETTail([st EXCEPT !.out = NoFile, !.status = FALSE]))
    /\ s2r' = ToR(M_FILE(m.f, m.off))
    /\ r2s' = Tail(r2s)
    /\ stc' = NoFile

GETFile(m, st) ==              \* seek and announce the new offset
    /\ m.off <= Size[m.f]
    /\ snd' = OneMore(GETTail([st EXCEPT !.pos = m.off]))
    /\ s2r' = ToR(M_FILE(m.f, m.off))
    /\ r2s' = Tail(r2s)
    /\ stc' = ClearedStc(st)

GETDrop(st) ==                 \* offset past the end, or an unexpected M_GET
    /\ stc' = ClearedStc(st)
    /\ SenderQuits
    /\ UNCHANGED s2r

GET ==
    /\ SenderReads("GET")
    /\ LET m  == Head(r2s)
           st == GETReopen(m.f)
           open == st.out = m.f /\ ~st.status
       IN  \/ st.out = m.f /\ st.status /\ st.offReq
              /\ (GETStatusAtEnd(m, st) \/ GETStatusElse(m, st))
           \/ open /\ GETFile(m, st)
           \/ /\ ~(open /\ m.off <= Size[m.f])
              /\ ~(st.out = m.f /\ st.status /\ st.offReq)
              /\ GETDrop(st)
    /\ UNCHANGED <<spool, dt, inbound, delivered, refused, mode, rcv>>

(* GOT: the .stc is brought up to date first, then the file leaves the     *)
(* spool; a status "file" (action 0) takes nothing out of it.              *)
GOTOut(m)  == snd.out = m.f
GOTSent(m) == ~GOTOut(m) /\ m.f \in snd.sent

GOTStcForgets(m) == IF GOTOut(m) \/ GOTSent(m) THEN NoFile ELSE stc
GOTStc(m) ==
    CASE mode = "nr"                     -> ClearedStc(snd)
      [] mode # "nr" /\ GOTOut(m)        -> IF snd.offReq THEN NoFile ELSE m.f
      [] mode # "nr" /\ GOTSent(m)       -> IF snd.offReq \/ ~we_nd THEN NoFile
                                            ELSE m.f
      [] OTHER                           -> stc

GOTSpoolCurrent(m) ==
    IF snd.out # NoFile /\ ~snd.status THEN spool \ {snd.out}
    ELSE IF GOTSent(m) THEN spool \ {m.f} ELSE spool
GOTSpool(m) ==
    IF (GOTOut(m) /\ ~snd.status) \/ GOTSent(m) THEN spool \ {m.f} ELSE spool

GOTState(m) ==
    CASE GOTOut(m)  -> [Read EXCEPT !.out = NoFile, !.status = FALSE, !.pos = 0,
                                    !.ndAddr = TRUE, !.waitGOT = FALSE,
                                    !.offReq = FALSE]
      [] GOTSent(m) -> [Read EXCEPT !.sent = @ \ {m.f}, !.ndAddr = TRUE,
                                    !.waitGOT = FALSE]
      [] OTHER      -> Read

GOT ==
    /\ SenderReads("GOT")
    /\ LET m == Head(r2s) IN
           /\ stc' = GOTStc(m)
           /\ spool' = GOTSpool(m)
           /\ snd' = GOTState(m)
    /\ r2s' = Tail(r2s)
    /\ UNCHANGED <<dt, inbound, delivered, refused, mode, s2r, rcv>>

(* The machine stops after ND_set_status and before remove_from_spool *)
GOTCrash ==
    /\ "gotcrash" \in Faults
    /\ SenderReads("GOT")
    /\ stc' = GOTStc(Head(r2s))
    /\ SenderQuits
    /\ UNCHANGED <<spool, dt, inbound, delivered, refused, mode, s2r, rcv>>

(* ND_set_status fails (the old status stays, or fopen has emptied it):    *)
(* the file is removed all the same, then the session is dropped.          *)
GOTStcFails ==
    /\ "stc" \in Faults /\ mode # "nr"
    /\ SenderReads("GOT")
    /\ GOTOut(Head(r2s)) \/ GOTSent(Head(r2s))
    /\ stc' \in {stc, NoFile}
    /\ spool' = GOTSpool(Head(r2s))
    /\ SenderQuits
    /\ UNCHANGED <<dt, inbound, delivered, refused, mode, s2r, rcv>>

(* SKIP: the file stays in the spool for another session; a status cannot  *)
(* be skipped.                                                             *)
SKIPState(f) ==
    [Read EXCEPT !.sent = @ \ {f}, !.ndAddr = FALSE,
                 !.out = IF @ = f THEN NoFile ELSE @,
                 !.pos = IF snd.out = f THEN 0 ELSE @,
                 !.waitGOT = @ /\ ~we_nr, !.offReq = @ /\ ~we_nr]

SKIP ==
    /\ SenderReads("SKIP")
    /\ LET f == Head(r2s).f IN
       IF snd.out = f /\ snd.status
       THEN SenderQuits /\ UNCHANGED stc
       ELSE /\ snd' = SKIPState(f)
            /\ r2s' = Tail(r2s)
            /\ stc' = IF f \in snd.sent THEN NoFile ELSE ClearedStc(snd)
    /\ UNCHANGED <<spool, dt, inbound, delivered, refused, mode, s2r, rcv>>

SenderEOB ==
    /\ SenderReads("EOB")
    /\ snd' = [Read EXCEPT !.reob = TRUE]
    /\ r2s' = Tail(r2s)
    /\ UNCHANGED <<spool, stc, dt, inbound, delivered, refused, mode, s2r, rcv>>

(* The connection breaks, times out or the process ends: the sender has    *)
(* nothing on disk to tidy up.                                             *)
SenderDrop ==
    /\ snd.up
    /\ SenderQuits
    /\ UNCHANGED <<spool, stc, dt, inbound, delivered, refused, mode, s2r, rcv>>

-----------------------------------------------------------------------------
(*                             The receiver                                *)

(* close_partial on the file being received: a partial .pkt or an empty    *)
(* partial is removed, the rest is kept for resuming.                      *)
ClosePartial(d, f) ==
    IF f # NoFile /\ (f \in Pkts \/ d[f] = 0) THEN [d EXCEPT ![f] = Absent] ELSE d

InbReject(d, f) == [d EXCEPT ![f] = Absent]

Renamed(n) == IF n = 0 THEN 1 ELSE 2

(* inb_done: .dt renamed to its real name, .hr deleted *)
InbDone(f) ==
    /\ inbound' = inbound \cup {f}
    /\ delivered' = [delivered EXCEPT ![f] = Renamed(@)]

(* The batch is over, which is also what makes a session that ends here a  *)
(* successful one, however it ends: its partial files are removed          *)
(* (inb_remove_partial); without it deinit_protocol closes the partial one.*)
Successful(r) == r.eob /\ r.reob /\ r.balance = 0 /\ r.in = NoFile
Tidied(d, r) ==
    IF ~Successful(r) THEN ClosePartial(d, r.in)
    ELSE IF r.skipAll THEN d ELSE [f \in Files |-> Absent]

ReceiverReads(t) ==
    rcv.up /\ ~Successful(rcv) /\ s2r # <<>> /\ Head(s2r).t = t
Heard == OneMore(rcv)
ReceiverQuits == rcv' = RDown /\ s2r' = <<>>

(* The file in_complete is renamed when the next M_FILE or M_EOB arrives.  *)
(* d is the .dt directory by then.                                         *)
CompleteDone ==
    IF we_nd /\ rcv.complete # NoFile THEN InbDone(rcv.complete)
    ELSE UNCHANGED <<inbound, delivered>>
CompleteDt(d) ==
    IF we_nd /\ rcv.complete # NoFile THEN [d EXCEPT ![rcv.complete] = Absent] ELSE d
CompleteRcv(r) == IF we_nd THEN [r EXCEPT !.complete = NoFile] ELSE r

(* start_file_recv, the file being open with length d[f]: ask for the      *)
(* right offset, or start receiving.                                       *)
RecvFromKeepsOpen(m, d, r) ==
    IF m.off # d[m.f]
    THEN /\ rcv' = OneMore([r EXCEPT !.in = m.f, !.balance = @ + 1])
         /\ r2s' = ToS(M_GET(m.f, d[m.f]))
         /\ dt' = d
    ELSE /\ rcv' = [r EXCEPT !.in = m.f, !.balance = @ - 1]
         /\ dt' = d
         /\ UNCHANGED r2s
RecvFromBehindByOne(m, d, r) ==
    /\ m.off # d[m.f]
    /\ rcv' = OneMore([r EXCEPT !.in = NoFile, !.balance = @ + 1])
    /\ r2s' = ToS(M_GET(m.f, d[m.f] - 1))
    /\ dt' = d
RecvFromUnbalanced(m, d, r) ==
    IF m.off # d[m.f]
    THEN /\ rcv' = OneMore([r EXCEPT !.in = NoFile, !.balance = @ + 1])
         /\ r2s' = ToS(M_GET(m.f, d[m.f]))
         /\ dt' = d
    ELSE /\ rcv' = [r EXCEPT !.in = m.f,
                             !.balance = IF m.off # 0 THEN @ - 1 ELSE @]
         /\ dt' = d
         /\ UNCHANGED r2s
RecvFrom(m, d, r) ==
    IF m.off # d[m.f]
    THEN /\ rcv' = OneMore([r EXCEPT !.in = NoFile, !.balance = @ + 1])
         /\ r2s' = ToS(M_GET(m.f, d[m.f]))
         /\ dt' = d
    ELSE /\ rcv' = [r EXCEPT !.in = m.f,
                             !.balance = IF m.off # 0 \/ r.theyNR THEN @ - 1 ELSE @]
         /\ dt' = d
         /\ UNCHANGED r2s

(* find_tmp_name: the .hr/.dt pair of the file, made when there is none *)
Opened(d, f) == IF d[f] = Absent THEN [d EXCEPT ![f] = 0] ELSE d

(* inb_fopen: minfree is not left on one of the two disks *)
InbFopenFails == "space" \in Faults

(* start_file_recv: an inb_fopen that fails for want of space has made the *)
(* .hr/.dt pair already, and skips everything from then on.                *)
RecvOpen(m, d, r) ==
    \/ /\ ~r.skipAll
       /\ RecvFrom(m, Opened(d, m.f), r)
    \/ /\ r.skipAll \/ InbFopenFails
       /\ rcv' = OneMore([r EXCEPT !.in = NoFile, !.skipAll = TRUE])
       /\ r2s' = ToS(M_SKIP(m.f))
       /\ dt' = IF r.skipAll THEN d ELSE Opened(d, m.f)

(* inb_test: a file of this name, or of one inb_done would make of it, with *)
(* this size and time                                                      *)
InbTest(f) == f \in inbound

(* A skip rule (or the before_recv hook of the configuration) is asked     *)
(* before anything else about a file that is not open: a destructive one   *)
(* acknowledges the file, the other leaves it to the sender.               *)
Ruled(m, d, r) ==
    /\ r.rules[m.f] # "take"
    /\ rcv' = OneMore(r) /\ dt' = d
    /\ IF r.rules[m.f] = "destroy"
       THEN r2s' = ToS(M_GOT(m.f)) /\ refused' = refused \cup {m.f}
       ELSE r2s' = ToS(M_SKIP(m.f)) /\ UNCHANGED refused

start_file_recv ==
    /\ ReceiverReads("FILE")
    /\ LET m   == Head(s2r)
           other == rcv.in # m.f
           d   == CompleteDt(IF other THEN ClosePartial(dt, rcv.in) ELSE dt)
           r   == CompleteRcv([Heard EXCEPT !.in = IF other THEN NoFile ELSE @,
                                            !.theyNR = @ \/ m.off = -1])
           have == InbTest(m.f) \/ (we_nd /\ m.f = rcv.complete)
           new  == r.in = NoFile /\ r.rules[m.f] = "take"
       IN  \/ r.in # NoFile /\ RecvFrom(m, d, r) /\ UNCHANGED refused
           \/ r.in = NoFile /\ Ruled(m, d, r)
           \/ /\ new /\ have                     \* already have it
              /\ rcv' = OneMore(r) /\ dt' = d
              /\ r2s' = ToS(M_GOT(m.f))
              /\ UNCHANGED refused
           \/ new /\ ~have /\ RecvOpen(m, d, r) /\ UNCHANGED refused
    /\ CompleteDone
    /\ s2r' = Tail(s2r)
    /\ UNCHANGED <<spool, stc, mode, snd>>

(* recv_block, all of f received: rename it, or leave that to the next     *)
(* M_FILE or M_EOB.                                                        *)
RenameAtOnce(f) ==
    /\ dt' = [dt EXCEPT ![f] = Absent]
    /\ rcv' = OneMore([rcv EXCEPT !.in = NoFile])
    /\ InbDone(f)
FileComplete(f) ==
    IF ~we_nd THEN RenameAtOnce(f)
    ELSE /\ dt' = [dt EXCEPT ![f] = Size[f]]
         /\ rcv' = OneMore([rcv EXCEPT !.in = NoFile, !.complete = f])
         /\ UNCHANGED <<inbound, delivered>>

(* recv_block on a data frame.  Data without a file in reception is        *)
(* ignored.                                                                *)
RecvData ==
    /\ ReceiverReads("DATA")
    /\ LET f   == rcv.in
           len == dt[f] + Head(s2r).n
       IN  \/ /\ f = NoFile
              /\ s2r' = Tail(s2r)
              /\ UNCHANGED <<dt, inbound, delivered, r2s, rcv>>
           \/ /\ f # NoFile /\ len < Size[f]
              /\ dt' = [dt EXCEPT ![f] = len]
              /\ s2r' = Tail(s2r)
              /\ UNCHANGED <<inbound, delivered, r2s, rcv>>
           \/ /\ f # NoFile /\ len = Size[f]
              /\ FileComplete(f)
              /\ s2r' = Tail(s2r)
              /\ r2s' = ToS(M_GOT(f))
           \/ /\ f # NoFile /\ len > Size[f]      \* "extra bytes": the session is
              /\ dt' = ClosePartial([dt EXCEPT ![f] = len], f)       \* dropped
              /\ ReceiverQuits
              /\ UNCHANGED <<inbound, delivered, r2s>>
    /\ UNCHANGED <<spool, stc, refused, mode, snd>>

(* EOB: a file interrupted by it is dropped unless the remote is in NR     *)
(* mode; the complete one is renamed.                                      *)
Interrupted(d, r) ==
    IF r.in # NoFile /\ ~r.theyNR /\ d[r.in] # 0
    THEN InbReject(d, r.in) ELSE ClosePartial(d, r.in)
AtEOB == [Heard EXCEPT !.in = NoFile, !.reob = TRUE]

ReceiverEOB ==
    /\ ReceiverReads("EOB")
    /\ dt' = CompleteDt(Interrupted(dt, rcv))
    /\ rcv' = CompleteRcv(AtEOB)
    /\ CompleteDone
    /\ s2r' = Tail(s2r)
    /\ UNCHANGED <<spool, stc, refused, mode, snd, r2s>>

(* The receiver has no files of its own: it sends M_EOB at once *)
ReceiverSendEOB ==
    /\ rcv.up /\ ~rcv.eob
    /\ rcv' = OneMore([rcv EXCEPT !.eob = TRUE])
    /\ r2s' = ToS(M_EOB)
    /\ UNCHANGED <<spool, stc, dt, inbound, delivered, refused, mode, s2r, snd>>

ReceiverEndBatch ==
    /\ rcv.up /\ Successful(rcv)
    /\ IF rcv.msgs <= 2
       THEN dt' = Tidied(dt, rcv) /\ ReceiverQuits
       ELSE /\ rcv' = [rcv EXCEPT !.msgs = 0, !.eob = FALSE, !.reob = FALSE]
            /\ UNCHANGED <<dt, s2r>>
    /\ UNCHANGED <<spool, stc, inbound, delivered, refused, mode, r2s, snd>>

(* The session is lost: the connection breaks, times out or the process    *)
(* ends.                                                                   *)
ReceiverDropAll ==
    /\ rcv.up
    /\ dt' = CompleteDt(Tidied(dt, rcv))
    /\ ReceiverQuits
    /\ UNCHANGED <<spool, stc, inbound, delivered, refused, mode, r2s, snd>>
ReceiverDrop ==
    /\ rcv.up
    /\ dt' = Tidied(dt, rcv)
    /\ ReceiverQuits
    /\ UNCHANGED <<spool, stc, inbound, delivered, refused, mode, r2s, snd>>

(* inb_done fails, and the session is dropped before any M_GOT.  At an     *)
(* M_FILE or the last block the data stay in the .dt; at an M_EOB the      *)
(* remote's M_EOB counts already, so that the session may pass for a       *)
(* successful one, and the .dt with the data is removed as a partial.      *)
(* With a file in in_complete none is in reception.                        *)
InbDoneFails ==
    /\ \/ /\ "rename" \in Faults
          /\ ReceiverReads("FILE") /\ we_nd /\ rcv.complete # NoFile
          /\ dt' = Tidied(dt, rcv)
       \/ /\ "rename" \in Faults
          /\ ReceiverReads("DATA") /\ ~we_nd /\ rcv.in # NoFile
          /\ dt[rcv.in] + Head(s2r).n = Size[rcv.in]
          /\ dt' = Tidied([dt EXCEPT ![rcv.in] = Size[rcv.in]],
                          [rcv EXCEPT !.in = NoFile])
       \/ /\ "eobrename" \in Faults
          /\ ReceiverReads("EOB") /\ we_nd /\ rcv.complete # NoFile
          /\ dt' = Tidied(Interrupted(dt, rcv), AtEOB)
    /\ ReceiverQuits
    /\ UNCHANGED <<spool, stc, inbound, delivered, refused, mode, r2s, snd>>

(* ... or the machine stops, and nothing is tidied up *)
ReceiverCrash ==
    /\ "crash" \in Faults
    /\ rcv.up
    /\ ReceiverQuits
    /\ UNCHANGED <<spool, stc, dt, inbound, delivered, refused, mode, r2s, snd>>

(* external: the tosser takes a file out of the inbound *)
Toss ==
    /\ \E f \in inbound : inbound' = inbound \ {f}
    /\ UNCHANGED <<spool, stc, dt, delivered, refused, mode, s2r, r2s, snd, rcv>>

-----------------------------------------------------------------------------

SenderNext ==
    \/ StartFile \/ StartStatus \/ SendData \/ SendStatusEof \/ SendEOB
    \/ SenderEndBatch
    \/ GET \/ GOT \/ GOTCrash \/ GOTStcFails \/ SKIP \/ SenderEOB
    \/ SenderDrop

ReceiverNext ==
    \/ start_file_recv \/ RecvData \/ ReceiverEOB \/ ReceiverSendEOB
    \/ ReceiverEndBatch
    \/ ReceiverDrop \/ ReceiverCrash \/ InbDoneFails

Next == Connect \/ SenderNext \/ ReceiverNext \/ Toss

Spec == Init /\ [][Next]_vars

-----------------------------------------------------------------------------
(*                             Properties                                  *)

SndStates ==
    [up: BOOLEAN, q: SUBSET Files, qs: Files \cup {NoFile},
     out: Files \cup {NoFile}, status: BOOLEAN, pos: Nat,
     offReq: BOOLEAN, waitGOT: BOOLEAN, sendEof: BOOLEAN,
     sent: SUBSET Files, ndAddr: BOOLEAN,
     eob: BOOLEAN, reob: BOOLEAN, msgs: Nat]
RcvStates ==
    [up: BOOLEAN, in: Files \cup {NoFile}, complete: Files \cup {NoFile},
     balance: Int, theyNR: BOOLEAN, skipAll: BOOLEAN,
     eob: BOOLEAN, reob: BOOLEAN, msgs: Nat, rules: [Files -> Rulings]]

(* The types of the state: the disks, the two streams, the two STATEs. *)
TypeOK ==
    /\ spool \subseteq Files
    /\ stc \in Files \cup {NoFile}
    /\ dt \in [Files -> Nat \cup {Absent}]
    /\ inbound \subseteq Files
    /\ delivered \in [Files -> Nat]
    /\ refused \subseteq Files
    /\ mode \in Modes
    /\ s2r \in Seq(Commands) /\ r2s \in Seq(Replies)
    /\ snd \in SndStates /\ rcv \in RcvStates

(* The receiver holds all of f: renamed into the inbound at least once, or *)
(* whole in its .dt.                                                       *)
Held(f) == delivered[f] > 0 \/ dt[f] = Size[f]

(* An M_GOT on its way is the receiver's word that it holds the file, or   *)
(* that a destructive skip rule of this very session refuses it: the       *)
(* sender will delete its only copy on reading it, whatever has happened   *)
(* to the receiver's session since (recv_block, start_file_recv, GOT).     *)
GotMeansHeld ==
    \A i \in 1..Len(r2s) :
        r2s[i].t = "GOT" => Held(r2s[i].f) \/ r2s[i].f \in refused

(* No step takes a file out of the spool before the receiver holds it,     *)
(* unless the receiver has ruled in this session that the file is to be    *)
(* destroyed (remove_from_spool).                                          *)
SpoolSafe == [][\A f \in spool \ spool' : Held(f) \/ f \in refused]_vars

(* Data frames name no file: every block the receiver writes, and the end  *)
(* of file it concludes from, belong to the file it has open and continue  *)
(* it exactly where its .dt ends, through every M_GET, skip and resumption *)
(* (recv_block).                                                           *)
DataBelongs ==
    rcv.up /\ rcv.in # NoFile /\ s2r # <<>> /\ Head(s2r).t = "DATA" =>
        Head(s2r).f = rcv.in /\ Head(s2r).off = dt[rcv.in]

(* A file that has left the spool is never lost: it has been delivered, or *)
(* destroyed by a rule of the receiver, or the receiver's complete .dt     *)
(* will still be asked for, because the .stc, the queued status or the     *)
(* status in transfer names it, or it is about to be renamed in this       *)
(* session.                                                                *)
NoLoss ==
    \A f \in Files \ spool :
        \/ delivered[f] > 0 \/ f \in refused
        \/ /\ dt[f] = Size[f]
           /\ \/ f \in {stc, snd.qs}
              \/ snd.out = f /\ snd.status
              \/ rcv.up /\ rcv.complete = f

(* A link that keeps to ND mode has no file delivered twice                *)
(* (doc/nd-mode-ru.txt, "no dupes").                                       *)
NoDup == we_nd => \A f \in Files : delivered[f] <= 1

-----------------------------------------------------------------------------
(*                              Liveness                                   *)

(* What keeps a session from its aim from outside it: the network, a       *)
(* timeout, a crash, a disk that is full or fails.                         *)
Break ==
    \/ SenderDrop /\ rcv.up
    \/ ReceiverDrop /\ snd.up
    \/ GOTCrash \/ GOTStcFails \/ ReceiverCrash \/ InbDoneFails
    \/ start_file_recv /\ ~rcv.skipAll /\ rcv'.skipAll

(* The peer has left and everything it sent is read: recv returns 0.       *)
SenderSeesClose   == SenderDrop /\ ~rcv.up /\ r2s = <<>>
ReceiverSeesClose == ReceiverDrop /\ ~snd.up /\ s2r = <<>>

SenderWorks ==
    \/ StartFile \/ StartStatus \/ SendData \/ SendStatusEof \/ SendEOB
    \/ SenderEndBatch \/ GET \/ GOT \/ SKIP \/ SenderEOB
ReceiverWorks ==
    \/ start_file_recv \/ RecvData \/ ReceiverEOB \/ ReceiverSendEOB
    \/ ReceiverEndBatch

(* The fairness of two running mailers: each main loop goes on as long as  *)
(* it has something to read, to send or to conclude, each notices that the *)
(* other has closed the connection, and the client manager calls again.    *)
FairSpec ==
    /\ Spec
    /\ WF_vars(Connect)
    /\ WF_vars(SenderWorks) /\ WF_vars(SenderSeesClose)
    /\ WF_vars(ReceiverWorks) /\ WF_vars(ReceiverSeesClose)

Calm == <>[][~Break]_vars

(* Once nothing breaks any more, the spool is emptied and every file of it *)
(* is delivered, or destroyed by a rule of the receiver: no state the      *)
(* breaks have left on the two disks makes the mailers wait for each other *)
(* for ever (protocol(), GET_FILE_balance, waiting_for_GOT, off_req_sent). *)
Delivers ==
    Calm => <>[](spool = {} /\ \A f \in Files : delivered[f] > 0 \/ f \in refused)

(* Once the line stops breaking, every session comes to its own end at     *)
(* both mailers (binkp10: all acknowledgements received, all files resent  *)
(* in reply to GET received).                                              *)
SessionsEnd == Calm => []<>(~snd.up /\ ~rcv.up)
=============================================================================
