------------------------------ MODULE DataPath ------------------------------
(***************************************************************************)
(* The way of files through one session: start_file_transfer announces     *)
(* them, send_block reads, compresses and frames them, recv_block takes    *)
(* the frames apart and writes what they hold, and the answers M_GET,      *)
(* M_GOT and M_SKIP come back at any moment, while the file they are about *)
(* is being sent, after it, or in the middle of the next. The bytes and    *)
(* the key stream are those of Framing.                                    *)
(***************************************************************************)
EXTENDS Framing

CONSTANTS
    Size,          (* the sizes of the files in the queue, a sequence *)
    Modes,         (* <<WE_NR, GZ>>: NR mode, the remote takes compressed data *)
    Partial,       (* lengths the remote may have of the first file *)
    InitFails,     (* whether compress_init may fail *)
    oblksize, ZBLKSIZE, zminsize,
    MaxNotes       (* bound: other messages *)

N == Len(Size)

ASSUME DataPathAssumption ==
    /\ Size \in Seq(Nat)
    /\ Modes \subseteq BOOLEAN \X BOOLEAN
    /\ InitFails \subseteq BOOLEAN /\ Partial \subseteq 0..Size[1]
    /\ oblksize \in 1..MAX_BLKSIZE /\ ZBLKSIZE \in Nat \ {0} /\ zminsize \in Nat

VARIABLES
    mode,          (* of the session: WE_NR, z_cansend *)
    next,          (* the next file of the queue *)
    out, pos,      (* state->out and ftello(out.f); 0 = no file *)
    off_req_sent,
    sent,          (* sent_fls: sent, not answered *)
    z_send,
    z,             (* z_obuf with z_oleft bytes, and what the codec z_odata holds *)
    notes,         (* other messages sent *)
    wanted,        (* the files the remote has not and does not skip *)
    r2s,           (* its answers on their way *)
    infile,        (* state->in; 0 = no file *)
    held,          (* the data of each file in the inbound *)
    done,          (* files received and acknowledged *)
    z_recv, z_idata,
    err            (* the receiver found something wrong: session dropped *)

send_vars == <<next, out, pos, off_req_sent, sent, z_send, z, notes>>
recv_vars == <<infile, held, done, z_recv, z_idata, err>>
vars == <<frame_vars, mode, wanted, send_vars, r2s, recv_vars>>

NR == mode[1]
Files == 1..N
-----------------------------------------------------------------------------
(* Bytes on the wire. Byte i of file f is a number of its own; the codec   *)
(* makes a stream of a header, chunks of one or two bytes, and an end.     *)
Byte(f, i) == (i - 1) * N + f
Data(f) == [i \in 1..Size[f] |-> Byte(f, i)]
Piece(f, from, n) == SubSeq(Data(f), from + 1, from + n)

ZHead == 10
ZEnd  == 11
Chunk(b) == 16 + (8 * b[1] + (IF Len(b) = 2 THEN b[2] ELSE 0))
Unchunk(v) ==
    <<(v - 16) \div 8>> \o (IF (v - 16) % 8 = 0 THEN <<>> ELSE <<(v - 16) % 8>>)

(* Two ways to pack bytes: well and badly *)
Singles(b) == [i \in DOMAIN b |-> Chunk(<<b[i]>>)]
Pairs(b) == [i \in 1..((Len(b) + 1) \div 2) |->
                Chunk(SubSeq(b, 2 * i - 1, IF 2 * i <= Len(b) THEN 2 * i ELSE Len(b)))]

(* M_FILE name size time offset [GZ], and any other message *)
M_FILE(f, offset, gz) == <<2 * f + (IF gz THEN 1 ELSE 0), offset + 1>>
M_NUL == <<0>>
FileOf(b) == b[1] \div 2
OffsetOf(b) == b[2] - 1
GZOf(b) == b[1] % 2 = 1
-----------------------------------------------------------------------------
(* The codec: it takes some input, keeps a part of what it has and packs   *)
(* n bytes of it                                                           *)
After(s, taken, n, end, pairs) ==
    LET all == s.keep \o SubSeq(s.left, 1, taken)
        b   == SubSeq(all, 1, n)
    IN  [left  |-> SubSeq(s.left, taken + 1, Len(s.left)),
         keep  |-> SubSeq(all, n + 1, Len(all)),
         begun |-> TRUE,
         pos   |-> s.pos,
         body  |-> ((s.body \o (IF s.begun THEN <<>> ELSE <<ZHead>>))
                        \o (IF pairs THEN Pairs(b) ELSE Singles(b)))
                        \o (IF end THEN <<ZEnd>> ELSE <<>>),
         end   |-> end]

(* It gives output as far as there is room. With room left it has taken    *)
(* all input and, told to finish, written the end.                         *)
Room(o, finish) ==
    /\ Len(o.body) <= oblksize
    /\ o.end => finish /\ o.left = <<>> /\ o.keep = <<>>
    /\ Len(o.body) < oblksize => o.left = <<>> /\ (finish => o.end)

do_compress(s, finish) ==
    {o \in UNION {{After(s, taken, n, end, pairs) :
                     n \in 0..(Len(s.keep) + taken), end \in BOOLEAN, pairs \in BOOLEAN} :
                  taken \in 0..Len(s.left)} :
        Room(o, finish)}

(* The loop of send_block around it, until the block is full or the stream *)
(* has its end. s.pos is ftello(out.f). Every round but the first reads    *)
(* from the file, so there are no more of them than it has bytes.          *)
Refill(o, f) ==
    LET n == IF Size[f] - o.pos < ZBLKSIZE THEN Size[f] - o.pos ELSE ZBLKSIZE
    IN  [o EXCEPT !.left = Piece(f, o.pos, n), !.pos = @ + n]

Round(o, f) ==
    IF o.end \/ Len(o.body) = oblksize THEN {o}
    ELSE do_compress(Refill(o, f), Refill(o, f).pos = Size[f])

ZBlocks(s, f) ==
    LET after[k \in 0..Size[f]] ==
            IF k = 0 THEN do_compress(s, s.pos = Size[f])
            ELSE UNION {Round(o, f) : o \in after[k - 1]}
    IN  after[Size[f]]

(* z_send_init and z_send_stop on the pair of z_send and z; on is what is  *)
(* announced with the file                                                 *)
Fresh(left) == [left |-> left, keep |-> <<>>, begun |-> FALSE]

(* compress_abort and compress_deinit: what the codec still holds is lost *)
compress_deinit(codec) == Fresh(codec.left)

z_send_init(on, codec, f) ==
    IF mode[2] /\ Size[f] >= zminsize
    THEN {[on |-> ~fails, gz |-> ~fails /\ ~on, z |-> Fresh(codec.left)] : fails \in InitFails}
    ELSE {[on |-> on, gz |-> FALSE, z |-> codec]}

z_send_stop(on, codec) == IF on THEN Fresh(<<>>) ELSE compress_deinit(codec)

(* What decompress_deinit leaves in z_idata: NULL. The next block that is  *)
(* decompressed has a codec of its own, which waits for the head of a stream. *)
decompress_deinit == FALSE
-----------------------------------------------------------------------------
Init ==
    /\ FramingInit
    /\ mode \in Modes /\ wanted \in SUBSET Files
    /\ next = 1 /\ out = 0 /\ pos = 0 /\ off_req_sent = FALSE /\ sent = {}
    /\ z_send = FALSE /\ z = Fresh(<<>>) /\ notes = 0
    /\ r2s = <<>>
    /\ infile = 0 /\ done = {} /\ z_recv = FALSE /\ z_idata = decompress_deinit /\ err = FALSE
    /\ \E n \in Partial : held = [f \in Files |-> IF f = 1 THEN Piece(1, 0, n) ELSE <<>>]

(* start_file_transfer: the next file, with offset -1 in NR mode *)
start_file_transfer ==
    /\ s_up /\ out = 0 /\ next <= N
    /\ \E i \in z_send_init(z_send, z, next) :
          /\ z_send' = i.on /\ z' = i.z
          /\ msg_send2(M_FILE(next, IF NR THEN -1 ELSE 0, i.gz))
    /\ out' = next /\ next' = next + 1 /\ pos' = 0 /\ off_req_sent' = NR
    /\ UNCHANGED <<mode, wanted, sent, notes, r2s, recv_vars>>

(* Other messages of the session come between *)
OtherMessage ==
    /\ s_up /\ notes < MaxNotes
    /\ notes' = notes + 1
    /\ msg_send2(M_NUL)
    /\ UNCHANGED <<mode, wanted, next, out, pos, off_req_sent, sent, z_send, z, r2s, recv_vars>>

(* current_file_was_sent, or the transfer goes on *)
WasSent(is) ==
    /\ sent' = IF is THEN sent \cup {out} ELSE sent
    /\ out' = IF is THEN 0 ELSE out

send_block_plain ==
    /\ out # 0 /\ ~off_req_sent /\ ~z_send
    /\ LET n == IF Size[out] - pos < oblksize THEN Size[out] - pos ELSE oblksize
       IN  /\ StartBlock(Piece(out, pos, n))
           /\ pos' = pos + n
           /\ WasSent(pos + n = Size[out])
    /\ UNCHANGED <<mode, wanted, next, off_req_sent, z_send, z, notes, r2s, recv_vars>>

(* Mutant: the rest of the buffer is forgotten *)
send_block_z_forgets ==
    /\ out # 0 /\ ~off_req_sent /\ z_send
    /\ LET n == IF Size[out] - pos < ZBLKSIZE THEN Size[out] - pos ELSE ZBLKSIZE
       IN  \E o \in ZBlocks([left |-> Piece(out, pos, n), keep |-> z.keep,
                             begun |-> z.begun, pos |-> pos + n, body |-> <<>>,
                             end |-> FALSE], out) :
              /\ StartBlock(o.body)
              /\ pos' = o.pos
              /\ z_send' = ~o.end
              /\ z' = [left |-> o.left, keep |-> o.keep, begun |-> o.begun]
              /\ WasSent(o.end)
    /\ UNCHANGED <<mode, wanted, next, off_req_sent, notes, r2s, recv_vars>>

(* Compressed: z_obuf is filled up from the file before each block. The    *)
(* end of the stream ends the file.                                        *)
send_block_z ==
    /\ out # 0 /\ ~off_req_sent /\ z_send
    /\ LET room == ZBLKSIZE - Len(z.left)
           n == IF Size[out] - pos < room THEN Size[out] - pos ELSE room
       IN  \E o \in ZBlocks([left |-> z.left \o Piece(out, pos, n), keep |-> z.keep,
                             begun |-> z.begun, pos |-> pos + n, body |-> <<>>,
                             end |-> FALSE], out) :
              /\ StartBlock(o.body)
              /\ pos' = o.pos
              /\ z_send' = ~o.end
              /\ z' = IF o.end THEN compress_deinit(o)
                      ELSE [left |-> o.left, keep |-> o.keep, begun |-> o.begun]
              /\ WasSent(o.end)
    /\ UNCHANGED <<mode, wanted, next, off_req_sent, notes, r2s, recv_vars>>
-----------------------------------------------------------------------------
(* Mutant: the stream that was begun is not stopped *)
GET_goes_on(f, offset) ==
    /\ f \in sent \cup {out}
    /\ out' = f /\ pos' = offset /\ off_req_sent' = FALSE
    /\ sent' = (sent \ {f}) \cup ({out} \ {0, f})
    /\ \E i \in z_send_init(z_send, z, f) :
          /\ z_send' = i.on /\ z' = i.z
          /\ msg_send2(M_FILE(f, offset, i.gz))
    /\ UNCHANGED <<next, notes>>

(* M_GET: a file that was sent comes back, in exchange for the one in      *)
(* transfer. Compression starts anew at the offset.                        *)
GET(f, offset) ==
    /\ f \in sent \cup {out}
    /\ out' = f /\ pos' = offset /\ off_req_sent' = FALSE
    /\ sent' = (sent \ {f}) \cup ({out} \ {0, f})
    /\ \E i \in z_send_init(FALSE, z_send_stop(z_send, z), f) :
          /\ z_send' = i.on /\ z' = i.z
          /\ msg_send2(M_FILE(f, offset, i.gz))
    /\ UNCHANGED <<next, notes>>

(* M_GOT and M_SKIP: the file is dropped where it is, in transfer or sent. *)
(* Compression stays as it is.                                             *)
GOT_SKIP(f) ==
    /\ out' = IF out = f THEN 0 ELSE out
    /\ off_req_sent' = (off_req_sent /\ out # f)
    /\ sent' = sent \ {f}
    /\ UNCHANGED <<next, pos, z_send, z, notes, frame_vars>>

(* An answer is read *)
HearAnswer ==
    /\ s_up /\ r2s # <<>>
    /\ r2s' = Tail(r2s)
    /\ LET a == Head(r2s)
       IN  \/ a.offset >= 0 /\ GET(a.f, a.offset)
           \/ a.offset = -1 /\ GOT_SKIP(a.f)
    /\ UNCHANGED <<mode, wanted, recv_vars>>
-----------------------------------------------------------------------------
(* Files that are not taken: those skip_test finds, those inb_test finds in *)
(* the inbound                                                             *)
Refused(f) == f \notin wanted \ done

Reply(f, offset) == r2s' = Append(r2s, [f |-> f, offset |-> offset])

(* start_file_recv: a file of another name is closed, a file not wanted is *)
(* answered, and one that is to begin elsewhere is asked for there         *)
FILE(f, offset, gz) ==
    /\ z_idata' = decompress_deinit
    /\ \/ /\ infile # f /\ Refused(f)
          /\ Reply(f, -1)
          /\ infile' = 0 /\ z_recv' = FALSE
       \/ /\ infile = f \/ ~Refused(f)
          /\ offset # Len(held[f])
          /\ Reply(f, Len(held[f]))
          /\ infile' = 0 /\ z_recv' = FALSE
       \/ /\ infile = f \/ ~Refused(f)
          /\ offset = Len(held[f])
          /\ infile' = f /\ z_recv' = gz
          /\ UNCHANGED r2s
    /\ UNCHANGED <<held, done, err>>

(* do_decompress over a block: what it gives, whether the stream goes on,  *)
(* and whether it made sense                                               *)
do_decompress(on, body) ==
    LET marks(i) == {j \in 1..(i - 1) : body[j] \in {ZHead, ZEnd}}
        within(i) == IF marks(i) = {} THEN on
                     ELSE body[CHOOSE j \in marks(i) : \A k \in marks(i) : k <= j] = ZHead
    IN  [on   |-> within(Len(body) + 1),
         data |-> FlattenSeq([i \in DOMAIN body |->
                                 IF body[i] >= 16 THEN Unchunk(body[i]) ELSE <<>>]),
         bad  |-> \E i \in DOMAIN body :
                      IF within(i) THEN body[i] < 16 /\ body[i] # ZEnd ELSE body[i] # ZHead]

(* A data block: for no file it is ignored, else it is decompressed if the *)
(* file was announced so, and written. A file that has its size is done,   *)
(* whatever of the stream is still to come.                                *)
DataBlock(body) ==
    \/ infile = 0 /\ UNCHANGED <<r2s, recv_vars>>
    \/ /\ infile # 0
       /\ LET d == IF z_recv THEN do_decompress(z_idata, body)
                   ELSE [on |-> FALSE, data |-> body, bad |-> FALSE]
              now == held[infile] \o d.data
              whole == ~d.bad /\ Len(now) = Size[infile]
          IN  /\ held' = IF d.bad THEN held ELSE [held EXCEPT ![infile] = now]
              /\ err' = (d.bad \/ Len(now) > Size[infile])
              /\ done' = IF whole THEN done \cup {infile} ELSE done
              /\ infile' = IF whole THEN 0 ELSE infile
              /\ z_idata' = IF whole THEN decompress_deinit ELSE d.on
              /\ IF whole THEN Reply(infile, -1) ELSE UNCHANGED r2s
       /\ UNCHANGED z_recv

Handle(frame) ==
    \/ ~frame.msg /\ DataBlock(frame.body)
    \/ frame.msg /\ frame.body # M_NUL
          /\ FILE(FileOf(frame.body), OffsetOf(frame.body), GZOf(frame.body))
    \/ frame.msg /\ frame.body = M_NUL /\ UNCHANGED <<r2s, recv_vars>>

Receive ==
    /\ ~err
    /\ \E n \in Readable :
          /\ recv_block(n)
          /\ \/ Completes(n) /\ Handle(Completed(n))
             \/ ~Completes(n) /\ UNCHANGED <<r2s, recv_vars>>
    /\ UNCHANGED <<mode, wanted, send_vars>>

(* One of the ends breaks off *)
Ends ==
    /\ SenderEnds \/ SeesEnd \/ ReceiverEnds
    /\ UNCHANGED <<mode, wanted, send_vars, r2s, recv_vars>>

Flush ==
    /\ SendBytes \/ FillMsgs
    /\ UNCHANGED <<mode, wanted, send_vars, r2s, recv_vars>>

Done == (~s_up /\ ~r_up) /\ UNCHANGED vars

Next == \/ start_file_transfer \/ OtherMessage \/ send_block_plain \/ send_block_z
        \/ HearAnswer \/ Receive \/ Flush \/ Ends \/ Done

Spec == Init /\ [][Next]_vars

(* The loop of protocol() goes on while anything can be sent or read *)
FairSpec ==
    /\ Spec
    /\ WF_vars(start_file_transfer) /\ WF_vars(send_block_plain) /\ WF_vars(send_block_z)
    /\ WF_vars(HearAnswer) /\ WF_vars(Receive) /\ WF_vars(Flush)
-----------------------------------------------------------------------------
(* What stands in the inbound for a file is the beginning of that file, in *)
(* its own order, and the receiver never meets a stream it cannot read:    *)
(* not with a buffer left over from the last block, a stream cut off by    *)
(* M_GET, a block of the old stream after it, the end of a stream after    *)
(* the file is complete, or a file dropped in the middle before.           *)
FileRestored == ~err /\ \A f \in Files : IsPrefix(held[f], Data(f))

(* While both ends are up every file that is wanted arrives complete: the  *)
(* exchange of M_FILE, M_GET and blocks does not stop short. Without NR    *)
(* mode only if the remote has no part of it.                              *)
FileArrives ==
    (NR \/ held[1] = <<>>) =>
        \A f \in Files : <>(f \in done \/ f \notin wanted \/ ~s_up \/ ~r_up)
=============================================================================
