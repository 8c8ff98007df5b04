------------------------------ MODULE Framing ------------------------------
(***************************************************************************)
(* One direction of a binkp session on the wire: messages are queued by    *)
(* msg_send2, send_block moves them and the data blocks into obuf and obuf *)
(* into the socket, as much as the socket takes, and recv_block collects   *)
(* headers and bodies from whatever recv returns. In an encrypted session  *)
(* both ends step through one key stream, byte by byte. What is sent, and  *)
(* what is done with a frame that arrives, is the business of the module   *)
(* that uses this one (DataPath).                                          *)
(***************************************************************************)
EXTENDS Integers, Sequences, SequencesExt

CONSTANTS
    MAX_BLKSIZE,   (* what fits in obuf; 0x7fff in the code *)
    WireCap        (* bytes the network holds *)

(* The first bit of a header tells a message *)
MsgBit == 32768

ASSUME FramingAssumption ==
    MAX_BLKSIZE \in Nat \ (0..2) /\ MAX_BLKSIZE < MsgBit /\ WireCap \in Nat \ {0}

BLK_HDR_SIZE == 2

VARIABLES
    msgs,          (* state->msgs without the slots already moved: encoded messages *)
    obuf,          (* the oleft bytes from optr on *)
    keys_out,      (* state->keys_out: how many bytes went through it; Off if NO_CRYPT *)
    s_up,          (* the sender's end is open *)
    wire,          (* bytes in the network *)
    ibuf, isize,   (* the iread bytes read; -1 while a header is read *)
    imsg,
    keys_in,
    r_up,          (* the receiver's end is open *)
    heard,         (* the frame handled last, <<>> before the first *)
    underway       (* history: the frames queued or begun and not yet handled, *)
                   (* while the receiver's end is open                         *)

out_vars == <<msgs, obuf, keys_out, s_up>>
in_vars  == <<ibuf, isize, imsg, keys_in, r_up, heard>>
frame_vars == <<out_vars, wire, in_vars, underway>>
-----------------------------------------------------------------------------
(* A byte on its way: its value, and the place in the key stream at which  *)
(* it was encrypted, or Off. Decrypted at another place it is garbage.     *)
Off == -1

encrypt_buf(bytes, key) ==
    [i \in DOMAIN bytes |-> [v |-> bytes[i], k |-> IF key = Off THEN Off ELSE key + i]]

decrypt_buf(bytes, key) ==
    [i \in DOMAIN bytes |->
        IF bytes[i].k = (IF key = Off THEN Off ELSE key + i)
        THEN bytes[i].v ELSE (bytes[i].v + 129) % 256]

step_keys(key, n) == IF key = Off THEN Off ELSE key + n

(* mkhdr with the message bit, and what recv_block makes of the two bytes *)
mkhdr(u) == <<u \div 256, u % 256>>
hdr_imsg(h) == h[1] \div 128 = 1
hdr_isize(h) == (h[1] % 128) * 256 + h[2]

Frame(msg, body) == [msg |-> msg, body |-> body]

Encode(f) ==
    mkhdr(Len(f.body) + (IF f.msg THEN MsgBit ELSE 0)) \o f.body

(* The bytes of the model are numbers *)
Octets == Nat

Frames == {f \in [msg : BOOLEAN, body : Seq(Octets)] : Len(f.body) <= MAX_BLKSIZE}
-----------------------------------------------------------------------------
FramingInit ==
    /\ msgs = <<>> /\ obuf = <<>> /\ s_up = TRUE
    /\ wire = <<>>
    /\ ibuf = <<>> /\ isize = -1 /\ imsg = FALSE /\ r_up = TRUE /\ heard = <<>>
    /\ keys_out \in {Off, 0} /\ keys_in = keys_out
    /\ underway = <<>>

Depart(f) == underway' = IF r_up THEN Append(underway, f) ELSE <<>>

(* A message is encrypted when it is queued, not when it is sent *)
msg_send2(body) ==
    LET m == Encode(Frame(TRUE, body))
    IN  /\ msgs' = Append(msgs, encrypt_buf(m, keys_out))
        /\ keys_out' = step_keys(keys_out, Len(m))
        /\ Depart(Frame(TRUE, body))
        /\ UNCHANGED <<obuf, s_up, wire, in_vars>>

(* send: the socket takes any part of obuf, or none and would block *)
SendBytes ==
    /\ s_up /\ obuf # <<>>
    /\ \E n \in 1..Len(obuf) :
          /\ Len(wire) + n <= WireCap \/ ~r_up
          /\ wire' = IF r_up THEN wire \o SubSeq(obuf, 1, n) ELSE wire
          /\ obuf' = SubSeq(obuf, n + 1, Len(obuf))
    /\ UNCHANGED <<msgs, keys_out, s_up, in_vars, underway>>

(* How many of the queued messages go into an empty obuf: those before the *)
(* first that does not fit                                                 *)
Fitting ==
    CHOOSE j \in 0..Len(msgs) :
        /\ Len(FlattenSeq(SubSeq(msgs, 1, j))) <= MAX_BLKSIZE
        /\ j < Len(msgs) => Len(FlattenSeq(SubSeq(msgs, 1, j + 1))) > MAX_BLKSIZE

(* obuf is empty and messages wait *)
FillMsgs ==
    /\ s_up /\ obuf = <<>> /\ msgs # <<>>
    /\ obuf' = FlattenSeq(SubSeq(msgs, 1, Fitting))
    /\ msgs' = SubSeq(msgs, Fitting + 1, Len(msgs))
    /\ UNCHANGED <<keys_out, s_up, wire, in_vars, underway>>

(* Mutant: a data block is started while messages wait *)
StartBlock_early(body) ==
    /\ s_up /\ obuf = <<>>
    /\ LET b == Encode(Frame(FALSE, body))
       IN  /\ obuf' = encrypt_buf(b, keys_out)
           /\ keys_out' = step_keys(keys_out, Len(b))
    /\ Depart(Frame(FALSE, body))
    /\ UNCHANGED <<msgs, s_up, wire, in_vars>>

(* A block of the file in transfer, or the empty one of send_eof; it is    *)
(* encrypted in obuf                                                       *)
StartBlock(body) ==
    /\ s_up /\ obuf = <<>> /\ msgs = <<>>
    /\ LET b == Encode(Frame(FALSE, body))
       IN  /\ obuf' = encrypt_buf(b, keys_out)
           /\ keys_out' = step_keys(keys_out, Len(b))
    /\ Depart(Frame(FALSE, body))
    /\ UNCHANGED <<msgs, s_up, wire, in_vars>>
-----------------------------------------------------------------------------
Want == (IF isize = -1 THEN BLK_HDR_SIZE ELSE isize) - Len(ibuf)

(* What recv may return: some of the bytes that are wanted *)
Readable == 1..(IF Want < Len(wire) THEN Want ELSE Len(wire))

Got(n) == ibuf \o decrypt_buf(SubSeq(wire, 1, n), keys_in)

(* n more bytes make a frame complete: the header of an empty one, or the  *)
(* rest of a body                                                          *)
Completes(n) == n = Want /\ ~(isize = -1 /\ hdr_isize(Got(n)) # 0)
Completed(n) == IF isize = -1 THEN Frame(hdr_imsg(Got(n)), <<>>) ELSE Frame(imsg, Got(n))

recv_block(n) ==
    /\ r_up
    /\ LET header == n = Want /\ isize = -1
       IN  /\ wire' = SubSeq(wire, n + 1, Len(wire))
           /\ keys_in' = step_keys(keys_in, n)
           /\ ibuf' = IF n = Want THEN <<>> ELSE Got(n)
           /\ isize' = CASE Completes(n) -> -1
                         [] header /\ ~Completes(n) -> hdr_isize(Got(n))
                         [] OTHER -> isize
           /\ imsg' = IF header THEN hdr_imsg(Got(n)) ELSE imsg
           /\ heard' = IF Completes(n) THEN Completed(n) ELSE heard
           /\ underway' = IF Completes(n) /\ underway # <<>> THEN Tail(underway) ELSE underway
    /\ UNCHANGED <<out_vars, r_up>>

(* The sender's session ends: what was not written is lost *)
SenderEnds ==
    /\ s_up /\ s_up' = FALSE
    /\ msgs' = <<>> /\ obuf' = <<>>
    /\ UNCHANGED <<keys_out, wire, in_vars, underway>>

(* recv returns 0: "connection closed by foreign host", in whatever state  *)
(* the frame is                                                            *)
SeesEnd ==
    /\ r_up /\ ~s_up /\ wire = <<>>
    /\ r_up' = FALSE /\ underway' = <<>>
    /\ UNCHANGED <<out_vars, wire, ibuf, isize, imsg, keys_in, heard>>

(* The receiver's session ends by itself *)
ReceiverEnds ==
    /\ r_up /\ r_up' = FALSE
    /\ wire' = <<>> /\ underway' = <<>>
    /\ UNCHANGED <<out_vars, ibuf, isize, imsg, keys_in, heard>>
-----------------------------------------------------------------------------
Stream == INSTANCE FrameStream WITH
              stream <- underway,
              open <- s_up /\ r_up

(* The bytes implement a queue of frames: partial writes and reads, blocks *)
(* between messages and the key stream never show. Frames come whole, in   *)
(* the order of msg_send2 and send_block, and only the end of a session    *)
(* loses any, the last ones.                                               *)
FramesInOrder == Stream!Spec
=============================================================================
