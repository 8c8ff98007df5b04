------------------------ MODULE BinkpTransferProofs ------------------------
(***************************************************************************)
(* What BinkpTransfer guarantees in every mode, with every fault, for any  *)
(* set of files of any size and any skip rules: an M_GOT names a file that *)
(* the receiver holds or that a rule of its own destroys, so the sender    *)
(* never deletes the last copy of any other file; a block goes only to the *)
(* file it is a part of; and ND mode neither loses a file that no rule     *)
(* destroys, as long as no rename fails at M_EOB, nor delivers it twice.   *)
(***************************************************************************)
EXTENDS BinkpTransfer, SequenceTheorems, TLAPS

(* The file being received has a .dt. *)
InOpen == rcv.in # NoFile => dt[rcv.in] \in Nat

(* in_complete is only used in ND mode, excludes a file in reception, and  *)
(* names a whole .dt.                                                      *)
CompleteHeld ==
    rcv.complete # NoFile =>
        /\ mode = "nd"
        /\ rcv.in = NoFile
        /\ dt[rcv.complete] = Size[rcv.complete]

InboundDelivered == \A f \in inbound : delivered[f] > 0

(* The files acknowledged by an M_GOT that the sender has not read yet. *)
Acked == {r2s[i].f : i \in {j \in 1..Len(r2s) : r2s[j].t = "GOT"}}

(* The strengthening of GotMeansHeld: an acknowledged file that is neither *)
(* delivered yet nor refused is in_complete, or the receiver's session is  *)
(* over and its .dt is left alone until the next one.                      *)
GotHeld ==
    \A f \in Acked :
        \/ delivered[f] > 0 \/ f \in refused
        \/ (dt[f] = Size[f] /\ (rcv.complete = f \/ ~rcv.up))

(* The sender has nothing left to announce. *)
Quiet ==
    /\ snd.q = {} /\ snd.qs = NoFile /\ snd.sent = {}
    /\ ~Sending /\ ~snd.offReq

(* No M_FILE follows an M_EOB: this is what lets the receiver throw its    *)
(* partial files away when a batch has ended.                              *)
NoFileAfterEOB ==
    /\ snd.eob => Quiet
    /\ \A i \in 1..Len(s2r) : s2r[i].t = "EOB" =>
          Quiet /\ \A j \in i..Len(s2r) : s2r[j].t # "FILE"
    /\ rcv.reob =>
          /\ Quiet /\ rcv.in = NoFile /\ rcv.complete = NoFile
          /\ \A j \in 1..Len(s2r) : s2r[j].t # "FILE"

IInv ==
    /\ TypeOK /\ InOpen /\ CompleteHeld /\ InboundDelivered
    /\ GotHeld /\ NoFileAfterEOB

-----------------------------------------------------------------------------
(*                     Streams and the two STATEs                          *)

(* Reading a frame and sending one keep a stream's type. *)
LEMMA StreamType ==
    ASSUME NEW S, NEW s \in Seq(S), NEW e \in S
    PROVE  /\ Append(s, e) \in Seq(S)
           /\ s # <<>> => Head(s) \in S /\ Tail(s) \in Seq(S)
           /\ <<>> \in Seq(S)
  OBVIOUS

(* The frames of a stream after one is sent, and after one is read. *)
LEMMA StreamIndex ==
    ASSUME NEW S, NEW s \in Seq(S), NEW e \in S
    PROVE  /\ Len(Append(s, e)) = Len(s) + 1
           /\ \A i \in 1..Len(s) : Append(s, e)[i] = s[i]
           /\ Append(s, e)[Len(s) + 1] = e
           /\ s # <<>> =>
                 /\ Len(s) \in Nat \ {0}
                 /\ Head(s) = s[1]
                 /\ Len(Tail(s)) = Len(s) - 1
                 /\ \A i \in 1..Len(Tail(s)) : Tail(s)[i] = s[i + 1]
  OBVIOUS

(* The frames the two mailers build are of their stream's type. *)
LEMMA FrameType ==
    /\ M_EOB \in Commands /\ M_EOB \in Replies
    /\ \A f \in Files, o \in Nat \cup {-1} : M_FILE(f, o) \in Commands
    /\ \A f \in Files \cup {NoFile}, o \in Nat, n \in {0, 1} : DATA(f, o, n) \in Commands
    /\ \A f \in Files, o \in Nat : M_GET(f, o) \in Replies
    /\ \A f \in Files : M_GOT(f) \in Replies /\ M_SKIP(f) \in Replies
  BY DEF M_EOB, M_FILE, DATA, M_GET, M_GOT, M_SKIP, Msg, Commands, Replies

(* What a frame read from a stream carries. *)
LEMMA FrameFields ==
    /\ \A m \in Commands : /\ m.t = "FILE" => m.f \in Files /\ m.off \in Nat \cup {-1}
                           /\ m.t = "DATA" => m.n \in {0, 1}
    /\ \A m \in Replies : m.t \in {"GET", "GOT", "SKIP"} => m.f \in Files /\ m.off \in Nat
  BY DEF Commands, Replies, M_EOB, Msg

LEMMA WeBool == we_nd \in BOOLEAN /\ we_nr \in BOOLEAN
  BY DEF we_nd, we_nr

LEMMA RcvInitType ==
    ASSUME NEW up \in BOOLEAN
    PROVE  RcvInit(up) \in RcvStates
  <1>1. [f \in Files |-> "take"] \in [Files -> Rulings]
    BY DEF Rulings
  <1> QED BY <1>1 DEF RcvInit, RcvStates

LEMMA DownType == Down \in SndStates /\ RDown \in RcvStates
  <1>1. Down \in SndStates
    BY DEF Down, SndInit, SndStates
  <1> QED BY <1>1, RcvInitType DEF RDown

LEMMA InitType == Init => TypeOK
  BY DownType, FilesAssumption DEF Init, TypeOK, Absent

(* The parts of TypeOK that the cases below establish one by one. *)
LEMMA SendType ==
    ASSUME TypeOK
    PROVE  /\ \A m \in Commands : ToR(m) \in Seq(Commands)
           /\ \A m \in Replies : ToS(m) \in Seq(Replies)
  BY StreamType DEF TypeOK, ToR, ToS

(* A message sent or read counts, and changes nothing else. *)
LEMMA OneMoreSnd ==
    ASSUME NEW st \in SndStates
    PROVE  /\ OneMore(st) \in SndStates
           /\ OneMore(st).up = st.up /\ OneMore(st).q = st.q /\ OneMore(st).qs = st.qs
           /\ OneMore(st).out = st.out /\ OneMore(st).status = st.status
           /\ OneMore(st).pos = st.pos /\ OneMore(st).offReq = st.offReq
           /\ OneMore(st).waitGOT = st.waitGOT /\ OneMore(st).sendEof = st.sendEof
           /\ OneMore(st).sent = st.sent /\ OneMore(st).ndAddr = st.ndAddr
           /\ OneMore(st).eob = st.eob /\ OneMore(st).reob = st.reob
           /\ OneMore(st).msgs = Capped(st.msgs)
  <1>1. st.msgs \in Nat
    BY DEF SndStates
  <1>2. Capped(st.msgs) \in Nat
    BY <1>1 DEF Capped
  <1> QED BY <1>2 DEF OneMore, SndStates

LEMMA OneMoreRcv ==
    ASSUME NEW r \in RcvStates
    PROVE  /\ OneMore(r) \in RcvStates
           /\ OneMore(r).up = r.up /\ OneMore(r).in = r.in
           /\ OneMore(r).complete = r.complete /\ OneMore(r).balance = r.balance
           /\ OneMore(r).theyNR = r.theyNR /\ OneMore(r).skipAll = r.skipAll
           /\ OneMore(r).eob = r.eob /\ OneMore(r).reob = r.reob
           /\ OneMore(r).rules = r.rules
           /\ OneMore(r).msgs = Capped(r.msgs)
  <1>1. r.msgs \in Nat
    BY DEF RcvStates
  <1>2. Capped(r.msgs) \in Nat
    BY <1>1 DEF Capped
  <1> QED BY <1>2 DEF OneMore, RcvStates

LEMMA ReadType ==
    ASSUME TypeOK
    PROVE  Read \in SndStates /\ Heard \in RcvStates
  BY OneMoreSnd, OneMoreRcv DEF TypeOK, Read, Heard

(* A frame read by the sender, and the stream it leaves. *)
LEMMA SenderHead ==
    ASSUME TypeOK, NEW t \in {"GET", "GOT", "SKIP"}, SenderReads(t)
    PROVE  /\ Head(r2s) \in Replies /\ Head(r2s).f \in Files /\ Head(r2s).off \in Nat
           /\ Tail(r2s) \in Seq(Replies)
  BY FrameFields, StreamType DEF TypeOK, SenderReads

LEMMA AnnounceType ==
    ASSUME TypeOK, NEW f \in Files, NEW b \in BOOLEAN, NEW rest \in SndStates,
           Announce(f, b, rest)
    PROVE  snd' \in SndStates /\ s2r' \in Seq(Commands)
  <1>1. snd' \in SndStates
    <2>1. ~we_nd \/ rest.ndAddr \in BOOLEAN
      BY WeBool DEF SndStates
    <2> DEFINE st == [rest EXCEPT !.out = f, !.status = b, !.pos = 0, !.waitGOT = FALSE,
                                  !.offReq = we_nr, !.ndAddr = ~we_nd \/ rest.ndAddr]
    <2>2. st \in SndStates
      BY <2>1, WeBool, ZenonT(60) DEF SndStates
    <2>3. snd' = OneMore(st)
      BY DEF Announce
    <2> HIDE DEF st
    <2> QED BY <2>2, <2>3, OneMoreSnd
  <1>2. s2r' \in Seq(Commands)
    <2>1. (IF we_nr THEN -1 ELSE IF b THEN Size[f] ELSE 0) \in Nat \cup {-1}
      BY FilesAssumption
    <2>2. M_FILE(f, IF we_nr THEN -1 ELSE IF b THEN Size[f] ELSE 0) \in Commands
      BY <2>1, FrameType
    <2> QED BY <2>2, SendType DEF Announce
  <1> QED BY <1>1, <1>2

LEMMA StartType ==
    ASSUME TypeOK, StartFile \/ StartStatus
    PROVE  TypeOK'
  <1>1. snd' \in SndStates /\ s2r' \in Seq(Commands)
    <2>1. CASE StartFile
      <3>1. PICK f \in snd.q : Announce(f, FALSE, [snd EXCEPT !.q = @ \ {f}])
        BY <2>1 DEF StartFile
      <3>2. f \in Files /\ [snd EXCEPT !.q = @ \ {f}] \in SndStates
        BY DEF TypeOK, SndStates
      <3> QED BY <3>1, <3>2, AnnounceType
    <2>2. CASE StartStatus
      <3>1. snd.qs \in Files /\ [snd EXCEPT !.qs = NoFile] \in SndStates
        BY <2>2 DEF StartStatus, TypeOK, SndStates
      <3> QED BY <2>2, <3>1, AnnounceType DEF StartStatus
    <2> QED BY <2>1, <2>2
  <1> QED BY <1>1 DEF TypeOK, StartFile, StartStatus

LEMMA SendDataType ==
    ASSUME TypeOK, SendData
    PROVE  TypeOK'
  <1> DEFINE n == IF snd.pos < Size[snd.out] THEN 1 ELSE 0
  <1>1. snd.out \in Files /\ snd.pos \in Nat /\ n \in {0, 1} /\ snd.pos + n \in Nat
    BY DEF SendData, Sending, TypeOK, SndStates
  <1>2. s2r' \in Seq(Commands)
    BY <1>1, SendType, FrameType DEF SendData
  <1>3. snd' \in SndStates
    <2>1. (we_nd \/ snd.waitGOT) \in BOOLEAN
      BY WeBool DEF TypeOK, SndStates
    <2>2. [snd EXCEPT !.out = NoFile, !.pos = 0, !.sent = @ \cup {snd.out},
                      !.waitGOT = we_nd \/ @] \in SndStates
      BY <1>1, <2>1 DEF TypeOK, SndStates
    <2>3. [snd EXCEPT !.pos = @ + n] \in SndStates
      BY <1>1 DEF TypeOK, SndStates
    <2> QED BY <2>2, <2>3 DEF SendData
  <1> QED BY <1>2, <1>3 DEF TypeOK, SendData

LEMMA SendRestType ==
    ASSUME TypeOK, SendStatusEof \/ SendEOB \/ SenderEndBatch \/ SenderEOB \/ SenderDrop
    PROVE  TypeOK'
  <1>1. CASE SendStatusEof
    <2>1. s2r' \in Seq(Commands)
      <3>1. snd.out \in Files \cup {NoFile}
        BY DEF TypeOK, SndStates
      <3>2. (IF snd.out = NoFile THEN 0 ELSE Size[snd.out]) \in Nat
        BY <3>1, FilesAssumption
      <3> QED BY <1>1, <3>1, <3>2, SendType, FrameType DEF SendStatusEof
    <2>2. snd' \in SndStates
      BY <1>1 DEF SendStatusEof, TypeOK, SndStates
    <2> QED BY <1>1, <2>1, <2>2 DEF TypeOK, SendStatusEof
  <1>2. CASE SendEOB
    <2>1. s2r' \in Seq(Commands)
      BY <1>2, SendType, FrameType DEF SendEOB
    <2>2. [snd EXCEPT !.eob = TRUE] \in SndStates
      BY <1>2 DEF TypeOK, SndStates
    <2>3. snd' \in SndStates
      BY <1>2, <2>2, OneMoreSnd DEF SendEOB
    <2> QED BY <1>2, <2>1, <2>3 DEF TypeOK, SendEOB
  <1>3. CASE SenderEndBatch
    <2>1. [snd EXCEPT !.msgs = 0, !.eob = FALSE, !.reob = FALSE] \in SndStates
      BY DEF TypeOK, SndStates
    <2>2. snd' \in SndStates
      BY <1>3, <2>1, DownType DEF SenderEndBatch
    <2>3. r2s' \in Seq(Replies) /\ stc' \in Files \cup {NoFile}
      <3>1. CASE snd.msgs <= 2
        BY <1>3, <3>1 DEF TypeOK, SenderEndBatch, ClearedStc
      <3>2. CASE ~(snd.msgs <= 2)
        BY <1>3, <3>2 DEF TypeOK, SenderEndBatch
      <3> QED BY <3>1, <3>2
    <2> QED BY <1>3, <2>2, <2>3 DEF TypeOK, SenderEndBatch
  <1>4. CASE SenderEOB
    <2>1. [Read EXCEPT !.reob = TRUE] \in SndStates
      BY ReadType DEF SndStates
    <2>2. r2s' \in Seq(Replies)
      BY <1>4, StreamType DEF TypeOK, SenderEOB, SenderReads
    <2> QED BY <1>4, <2>1, <2>2 DEF TypeOK, SenderEOB
  <1>5. CASE SenderDrop
    BY <1>5, DownType, StreamType DEF TypeOK, SenderDrop, SenderQuits
  <1> QED BY <1>1, <1>2, <1>3, <1>4, <1>5

(* The sender's replies to the receiver: M_GET, M_GOT and M_SKIP. *)
LEMMA GETReopenType ==
    ASSUME TypeOK, NEW f \in Files
    PROVE  GETReopen(f) \in SndStates
  <1>1. Sending => snd.out \in Files
    BY DEF Sending, TypeOK, SndStates
  <1> DEFINE S == (snd.sent \ {f}) \cup IF Sending THEN {snd.out} ELSE {}
             o == IF f \in spool THEN f ELSE NoFile
  <1>2. S \in SUBSET Files /\ o \in Files \cup {NoFile}
    BY <1>1 DEF TypeOK, SndStates
  <1>3. [Read EXCEPT !.sent = S, !.out = o, !.status = FALSE, !.pos = 0] \in SndStates
    BY <1>2, ReadType DEF SndStates
  <1>4. Read.sent = snd.sent
    BY OneMoreSnd DEF Read, TypeOK
  <1> QED BY <1>3, <1>4, ReadType DEF GETReopen

LEMMA GETTailType ==
    ASSUME NEW st \in SndStates
    PROVE  GETTail(st) \in SndStates
  <1>1. (st.waitGOT /\ ~we_nd) \in BOOLEAN
    BY WeBool DEF SndStates
  <1> QED BY <1>1 DEF GETTail, SndStates

LEMMA GETType ==
    ASSUME TypeOK, GET
    PROVE  TypeOK'
  <1> DEFINE m == Head(r2s)
             st == GETReopen(m.f)
  <1>1. m.f \in Files /\ m.off \in Nat /\ Tail(r2s) \in Seq(Replies)
    BY SenderHead DEF GET
  <1>2. st \in SndStates
    BY <1>1, GETReopenType
  <1>3. ToR(M_FILE(m.f, m.off)) \in Seq(Commands)
    BY <1>1, SendType, FrameType
  <1>4. ClearedStc(st) \in Files \cup {NoFile}
    BY DEF ClearedStc, TypeOK
  <1>5. CASE GETStatusAtEnd(m, st)
    <2>1. [st EXCEPT !.sendEof = TRUE, !.waitGOT = TRUE, !.offReq = FALSE] \in SndStates
      BY <1>2 DEF SndStates
    <2> QED BY <1>1, <1>3, <1>5, <2>1, OneMoreSnd DEF GETStatusAtEnd, GET, TypeOK
  <1>6. CASE GETStatusElse(m, st)
    <2>1. [st EXCEPT !.out = NoFile, !.status = FALSE] \in SndStates
      BY <1>2 DEF SndStates
    <2> QED BY <1>1, <1>3, <1>6, <2>1, GETTailType, OneMoreSnd
            DEF GETStatusElse, GET, TypeOK
  <1>7. CASE GETFile(m, st)
    <2>1. [st EXCEPT !.pos = m.off] \in SndStates
      BY <1>1, <1>2 DEF SndStates
    <2> QED BY <1>1, <1>3, <1>4, <1>7, <2>1, GETTailType, OneMoreSnd
            DEF GETFile, GET, TypeOK
  <1>8. CASE GETDrop(st)
    BY <1>4, <1>8, DownType, StreamType DEF GETDrop, SenderQuits, GET, TypeOK
  <1> QED BY <1>5, <1>6, <1>7, <1>8 DEF GET

LEMMA GOTType ==
    ASSUME TypeOK, GOT \/ GOTCrash \/ GOTStcFails
    PROVE  TypeOK'
  <1> DEFINE m == Head(r2s)
  <1>1. m.f \in Files /\ Tail(r2s) \in Seq(Replies)
    BY SenderHead DEF GOT, GOTCrash, GOTStcFails
  <1>2. GOTStc(m) \in Files \cup {NoFile}
    <2>1. ClearedStc(snd) \in Files \cup {NoFile}
      BY DEF ClearedStc, TypeOK
    <2> QED BY <1>1, <2>1 DEF GOTStc, TypeOK
  <1>3. GOTSpool(m) \subseteq Files
    BY DEF GOTSpool, TypeOK
  <1>4. GOTState(m) \in SndStates
    <2>1. [Read EXCEPT !.out = NoFile, !.status = FALSE, !.pos = 0, !.ndAddr = TRUE,
                       !.waitGOT = FALSE, !.offReq = FALSE] \in SndStates
      BY ReadType DEF SndStates
    <2>2. [Read EXCEPT !.sent = @ \ {m.f}, !.ndAddr = TRUE, !.waitGOT = FALSE]
            \in SndStates
      BY ReadType DEF SndStates
    <2> QED BY <2>1, <2>2, ReadType DEF GOTState
  <1>5. CASE GOT
    BY <1>1, <1>2, <1>3, <1>4, <1>5 DEF GOT, TypeOK
  <1>6. CASE GOTCrash
    BY <1>2, <1>6, DownType, StreamType DEF GOTCrash, SenderQuits, TypeOK
  <1>7. CASE GOTStcFails
    BY <1>3, <1>7, DownType, StreamType DEF GOTStcFails, SenderQuits, TypeOK
  <1> QED BY <1>5, <1>6, <1>7

LEMMA SKIPType ==
    ASSUME TypeOK, SKIP
    PROVE  TypeOK'
  <1> DEFINE f == Head(r2s).f
  <1>1. f \in Files /\ Tail(r2s) \in Seq(Replies)
    BY SenderHead DEF SKIP
  <1>2. SKIPState(f) \in SndStates
    <2> DEFINE o == IF Read.out = f THEN NoFile ELSE Read.out
               p == IF snd.out = f THEN 0 ELSE Read.pos
               w == Read.waitGOT /\ ~we_nr
               r == Read.offReq /\ ~we_nr
    <2>1. /\ Read.sent \ {f} \in SUBSET Files
          /\ o \in Files \cup {NoFile}
          /\ p \in Nat
      BY ReadType DEF SndStates
    <2>2. w \in BOOLEAN /\ r \in BOOLEAN
      BY WeBool, ReadType DEF SndStates
    <2>3. SKIPState(f) = [Read EXCEPT !.sent = @ \ {f}, !.ndAddr = FALSE, !.out = o,
                                      !.pos = p, !.waitGOT = w, !.offReq = r]
      BY DEF SKIPState
    <2> HIDE DEF o, p, w, r
    <2> QED BY <2>1, <2>2, <2>3, ReadType, ZenonT(60) DEF SndStates
  <1>3. (IF f \in snd.sent THEN NoFile ELSE ClearedStc(snd)) \in Files \cup {NoFile}
    BY DEF ClearedStc, TypeOK
  <1>4. CASE SenderQuits /\ UNCHANGED stc
    BY <1>4, DownType, StreamType DEF SKIP, SenderQuits, TypeOK
  <1>5. CASE ~(SenderQuits /\ UNCHANGED stc)
    BY <1>1, <1>2, <1>3, <1>5 DEF SKIP, TypeOK
  <1> QED BY <1>4, <1>5

-----------------------------------------------------------------------------
(*                       The receiver's types                              *)

Dts == [Files -> Nat \cup {Absent}]

LEMMA DtTypes ==
    ASSUME NEW d \in Dts, NEW f \in Files
    PROVE  /\ ClosePartial(d, f) \in Dts /\ InbReject(d, f) \in Dts
           /\ Opened(d, f) \in Dts /\ Opened(d, f)[f] \in Nat
           /\ \A g \in Files : g # f => /\ ClosePartial(d, f)[g] = d[g]
                                        /\ InbReject(d, f)[g] = d[g]
                                        /\ Opened(d, f)[g] = d[g]
  BY DEF Dts, ClosePartial, InbReject, Opened, Absent

LEMMA ClosePartialType ==
    ASSUME NEW d \in Dts, NEW f \in Files \cup {NoFile}
    PROVE  ClosePartial(d, f) \in Dts
  BY DtTypes DEF ClosePartial

LEMMA CompleteDtType ==
    ASSUME TypeOK, NEW d \in Dts
    PROVE  /\ CompleteDt(d) \in Dts
           /\ \A g \in Files : g # rcv.complete => CompleteDt(d)[g] = d[g]
  <1>1. rcv.complete \in Files \cup {NoFile}
    BY DEF TypeOK, RcvStates
  <1> QED BY <1>1 DEF CompleteDt, Dts, Absent

LEMMA CompleteRcvType ==
    ASSUME NEW r \in RcvStates
    PROVE  CompleteRcv(r) \in RcvStates
  BY DEF CompleteRcv, RcvStates

LEMMA CompleteDoneType ==
    ASSUME TypeOK, CompleteDone
    PROVE  inbound' \subseteq Files /\ delivered' \in [Files -> Nat]
  <1>1. rcv.complete \in Files \cup {NoFile}
    BY DEF TypeOK, RcvStates
  <1>2. CASE we_nd /\ rcv.complete # NoFile
    BY <1>1, <1>2 DEF CompleteDone, InbDone, Renamed, TypeOK
  <1>3. CASE ~(we_nd /\ rcv.complete # NoFile)
    BY <1>3 DEF CompleteDone, TypeOK
  <1> QED BY <1>2, <1>3

(* The two ways of start_file_recv to go on with a file that is open. *)
LEMMA RecvFromType ==
    ASSUME TypeOK, NEW m \in Commands, m.t = "FILE", NEW d \in Dts, d[m.f] \in Nat,
           NEW r \in RcvStates, RecvFrom(m, d, r)
    PROVE  /\ rcv' \in RcvStates /\ r2s' \in Seq(Replies) /\ dt' = d
           /\ rcv'.in \in {NoFile, m.f}
           /\ rcv'.up = r.up /\ rcv'.complete = r.complete /\ rcv'.reob = r.reob
           /\ rcv'.skipAll = r.skipAll
           /\ r2s' \in {r2s, ToS(M_GET(m.f, d[m.f]))}
  <1>1. m.f \in Files
    BY FrameFields
  <1>2. r.balance \in Int
    BY DEF RcvStates
  <1> DEFINE b == IF m.off # 0 \/ r.theyNR THEN r.balance - 1 ELSE r.balance
  <1>3. b \in Int /\ r.balance + 1 \in Int
    BY <1>2
  <1> HIDE DEF b
  <1>4. CASE m.off # d[m.f]
    <2> DEFINE q == [r EXCEPT !.in = NoFile, !.balance = r.balance + 1]
    <2>1. rcv' = OneMore(q)
      BY <1>4 DEF RecvFrom
    <2>2. r2s' = ToS(M_GET(m.f, d[m.f])) /\ dt' = d
      BY <1>4 DEF RecvFrom
    <2>3. r2s' \in Seq(Replies)
      BY <2>2, <1>1, SendType, FrameType
    <2>4. /\ q \in RcvStates /\ q.in = NoFile
          /\ q.up = r.up /\ q.complete = r.complete /\ q.reob = r.reob
          /\ q.skipAll = r.skipAll
      BY <1>3 DEF RcvStates
    <2> HIDE DEF q
    <2> QED BY <2>1, <2>2, <2>3, <2>4, OneMoreRcv
  <1>5. CASE m.off = d[m.f]
    <2>1. rcv' = [r EXCEPT !.in = m.f, !.balance = b]
      BY <1>5 DEF RecvFrom, b
    <2>2. r2s' = r2s /\ dt' = d
      BY <1>5 DEF RecvFrom
    <2>3. r2s' \in Seq(Replies)
      BY <2>2 DEF TypeOK
    <2> QED BY <1>1, <1>3, <2>1, <2>2, <2>3 DEF RcvStates
  <1> QED BY <1>4, <1>5

LEMMA RecvOpenType ==
    ASSUME TypeOK, NEW m \in Commands, m.t = "FILE", NEW d \in Dts,
           NEW r \in RcvStates, RecvOpen(m, d, r)
    PROVE  /\ rcv' \in RcvStates /\ r2s' \in Seq(Replies)
           /\ dt' \in {d, Opened(d, m.f)}
           /\ rcv'.in # NoFile => rcv'.in = m.f /\ dt' = Opened(d, m.f)
           /\ rcv'.up = r.up /\ rcv'.complete = r.complete /\ rcv'.reob = r.reob
           /\ rcv'.skipAll => rcv'.in = NoFile
           /\ \E off \in Nat : r2s' \in {r2s, ToS(M_GET(m.f, off)), ToS(M_SKIP(m.f))}
  <1>1. m.f \in Files
    BY FrameFields
  <1>2. Opened(d, m.f) \in Dts /\ Opened(d, m.f)[m.f] \in Nat
    BY <1>1, DtTypes
  <1>3. CASE ~r.skipAll /\ RecvFrom(m, Opened(d, m.f), r)
    BY <1>2, <1>3, RecvFromType
  <1>4. CASE ~(~r.skipAll /\ RecvFrom(m, Opened(d, m.f), r))
    <2> DEFINE q == [r EXCEPT !.in = NoFile, !.skipAll = TRUE]
    <2>1. /\ rcv' = OneMore(q)
          /\ r2s' = ToS(M_SKIP(m.f))
          /\ dt' \in {d, Opened(d, m.f)}
      BY <1>4 DEF RecvOpen
    <2>2. r2s' \in Seq(Replies)
      BY <2>1, <1>1, SendType, FrameType
    <2>3. /\ q \in RcvStates /\ q.in = NoFile /\ q.up = r.up
          /\ q.complete = r.complete /\ q.reob = r.reob
      BY DEF RcvStates
    <2> HIDE DEF q
    <2> QED BY <2>1, <2>2, <2>3, OneMoreRcv
  <1> QED BY <1>3, <1>4

-----------------------------------------------------------------------------
(*               What a step does to the acknowledged files                *)

LEMMA AckedFiles == TypeOK => Acked \subseteq Files
  <1> SUFFICES ASSUME TypeOK, NEW g \in Acked PROVE g \in Files
    OBVIOUS
  <1>1. PICK i \in {j \in 1..Len(r2s) : r2s[j].t = "GOT"} : g = r2s[i].f
    BY Zenon DEF Acked
  <1>2. r2s[i] \in Replies
    BY DEF TypeOK
  <1> QED BY <1>1, <1>2, FrameFields

LEMMA AckedRead ==
    ASSUME TypeOK, r2s' \in {r2s, <<>>} \/ (r2s # <<>> /\ r2s' = Tail(r2s))
    PROVE  Acked' \subseteq Acked
  <1>1. r2s \in Seq(Replies)
    BY DEF TypeOK
  <1>2. CASE r2s' = r2s
    BY <1>2 DEF Acked
  <1>3. CASE r2s' = <<>>
    BY <1>3 DEF Acked
  <1>4. CASE r2s # <<>> /\ r2s' = Tail(r2s)
    <2>1. /\ Len(r2s) \in Nat /\ Len(r2s') = Len(r2s) - 1
          /\ \A i \in 1..Len(r2s') : r2s'[i] = r2s[i + 1]
      BY <1>1, <1>4, StreamIndex
    <2>2. ASSUME NEW g \in Acked'
          PROVE  g \in Acked
      <3>1. PICK i \in {j \in 1..Len(r2s') : r2s'[j].t = "GOT"} : g = r2s'[i].f
        BY Zenon DEF Acked
      <3>2. i + 1 \in 1..Len(r2s) /\ r2s'[i] = r2s[i + 1]
        BY <2>1
      <3>3. r2s[i + 1].t = "GOT" /\ g = r2s[i + 1].f
        BY <3>1, <3>2
      <3> QED BY <3>2, <3>3 DEF Acked
    <2> QED BY <2>2
  <1> QED BY <1>2, <1>3, <1>4

LEMMA AckedSend ==
    ASSUME TypeOK, NEW m \in Replies, r2s' \in {r2s, ToS(m)}
    PROVE  /\ m.t # "GOT" => Acked' \subseteq Acked
           /\ Acked' \subseteq Acked \cup {m.f}
  <1>1. r2s \in Seq(Replies)
    BY DEF TypeOK
  <1>2. CASE r2s' = r2s
    BY <1>2 DEF Acked
  <1>3. CASE r2s' = Append(r2s, m)
    <2>1. /\ Len(r2s) \in Nat /\ Len(r2s') = Len(r2s) + 1
          /\ \A i \in 1..Len(r2s) : r2s'[i] = r2s[i]
          /\ r2s'[Len(r2s) + 1] = m
      BY <1>1, <1>3, StreamIndex
    <2>2. ASSUME NEW g \in Acked'
          PROVE  g \in Acked \/ (m.t = "GOT" /\ g = m.f)
      <3>1. PICK i \in {j \in 1..Len(r2s') : r2s'[j].t = "GOT"} : g = r2s'[i].f
        BY Zenon DEF Acked
      <3>2. CASE i \in 1..Len(r2s)
        BY <2>1, <3>1, <3>2 DEF Acked
      <3>3. CASE i = Len(r2s) + 1
        BY <2>1, <3>1, <3>3
      <3> QED BY <2>1, <3>2, <3>3
    <2> QED BY <2>2
  <1> QED BY <1>2, <1>3 DEF ToS

(* Delivery is never undone. *)
LEMMA DoneDelivers ==
    ASSUME TypeOK, InboundDelivered, NEW f \in Files, InbDone(f)
    PROVE  /\ delivered'[f] > 0 /\ InboundDelivered'
           /\ \A g \in Files : delivered[g] > 0 => delivered'[g] > 0
  BY DEF TypeOK, InbDone, Renamed, InboundDelivered

LEMMA CompleteDoneDelivers ==
    ASSUME TypeOK, InboundDelivered, CompleteHeld, CompleteDone
    PROVE  /\ InboundDelivered'
           /\ \A g \in Files : delivered[g] > 0 \/ g = rcv.complete => delivered'[g] > 0
  <1>1. CASE rcv.complete = NoFile
    BY <1>1, FilesAssumption DEF CompleteDone, InboundDelivered
  <1>2. CASE rcv.complete # NoFile
    <2>1. rcv.complete \in Files /\ InbDone(rcv.complete)
      BY <1>2 DEF CompleteHeld, CompleteDone, TypeOK, RcvStates, we_nd
    <2> QED BY <2>1, DoneDelivers
  <1> QED BY <1>1, <1>2

-----------------------------------------------------------------------------
(*        start_file_recv and EOB, which rename the complete file          *)

LEMMA StartRecv ==
    ASSUME TypeOK, InOpen, CompleteHeld, InboundDelivered, GotHeld, start_file_recv
    PROVE  /\ TypeOK' /\ InOpen' /\ InboundDelivered' /\ GotHeld'
           /\ rcv'.complete = NoFile /\ rcv'.reob = rcv.reob
  <1> DEFINE m == Head(s2r)
             other == rcv.in # m.f
             d0 == IF other THEN ClosePartial(dt, rcv.in) ELSE dt
             d == CompleteDt(d0)
             r0 == [Heard EXCEPT !.in = IF other THEN NoFile ELSE @,
                                 !.theyNR = @ \/ m.off = -1]
             r == CompleteRcv(r0)
             new == r.in = NoFile /\ r.rules[m.f] = "take"
             have == m.f \in inbound \/ (we_nd /\ m.f = rcv.complete)
  <1>1. /\ m \in Commands /\ m.t = "FILE" /\ m.f \in Files /\ Tail(s2r) \in Seq(Commands)
        /\ rcv.up
    BY FrameFields, StreamType DEF start_file_recv, ReceiverReads, TypeOK
  <1>2. d0 \in Dts /\ d \in Dts
    <2>1. dt \in Dts /\ rcv.in \in Files \cup {NoFile}
      BY DEF TypeOK, Dts, RcvStates
    <2> QED BY <2>1, ClosePartialType, CompleteDtType
  <1>3. /\ r \in RcvStates
        /\ r.complete = NoFile /\ r.reob = rcv.reob /\ r.up = rcv.up
        /\ r.in = IF other THEN NoFile ELSE rcv.in
    <2>1. Heard \in RcvStates /\ rcv \in RcvStates
      BY ReadType DEF TypeOK
    <2>2. /\ Heard.in = rcv.in /\ Heard.complete = rcv.complete
          /\ Heard.reob = rcv.reob /\ Heard.up = rcv.up
      BY <2>1, OneMoreRcv DEF Heard
    <2>3. (Heard.theyNR \/ m.off = -1) \in BOOLEAN
      BY <2>1 DEF RcvStates
    <2>4. r0 \in RcvStates
      BY <2>1, <2>3 DEF RcvStates
    <2>5. /\ r0.complete = rcv.complete /\ r0.reob = rcv.reob /\ r0.up = rcv.up
          /\ r0.in = IF other THEN NoFile ELSE rcv.in
      BY <2>1, <2>2 DEF RcvStates
    <2>6. rcv.complete # NoFile => we_nd
      BY DEF CompleteHeld, we_nd
    <2> HIDE DEF r0
    <2> QED BY <2>4, <2>5, <2>6, CompleteRcvType DEF CompleteRcv, RcvStates
  <1>4. /\ InboundDelivered'
        /\ \A g \in Files : delivered[g] > 0 \/ g = rcv.complete => delivered'[g] > 0
        /\ inbound' \subseteq Files /\ delivered' \in [Files -> Nat]
    BY CompleteDoneDelivers, CompleteDoneType DEF start_file_recv
  <1>5. r.in # NoFile => r.in = m.f /\ d[m.f] \in Nat
    <2> SUFFICES ASSUME r.in # NoFile
                 PROVE  r.in = m.f /\ d[m.f] \in Nat
      OBVIOUS
    <2>1. ~other /\ rcv.in = m.f /\ rcv.in # NoFile
      BY <1>3
    <2>2. rcv.complete = NoFile /\ dt[m.f] \in Nat
      BY <2>1 DEF CompleteHeld, InOpen
    <2>3. d[m.f] = d0[m.f] /\ d0 = dt
      BY <1>1, <1>2, <2>1, <2>2, CompleteDtType, FilesAssumption
    <2> QED BY <1>3, <2>1, <2>2, <2>3
  <1>6. \/ r.in # NoFile /\ RecvFrom(m, d, r) /\ refused' = refused
        \/ r.in = NoFile /\ Ruled(m, d, r)
        \/ /\ new /\ have /\ rcv' = OneMore(r) /\ dt' = d /\ r2s' = ToS(M_GOT(m.f))
           /\ refused' = refused
        \/ new /\ ~have /\ RecvOpen(m, d, r) /\ refused' = refused
    BY DEF start_file_recv, InbTest
  <1> HIDE DEF d, r
  (* what the four ways have in common *)
  <1>7. /\ rcv' \in RcvStates /\ r2s' \in Seq(Replies) /\ dt' \in Dts
        /\ rcv'.in # NoFile => dt'[rcv'.in] \in Nat
        /\ rcv'.complete = NoFile /\ rcv'.reob = rcv.reob
        /\ refused' \subseteq Files /\ refused \subseteq refused'
        /\ \/ Acked' \subseteq Acked
           \/ (have \/ m.f \in refused') /\ Acked' \subseteq Acked \cup {m.f}
    <2>0. refused \subseteq Files
      BY DEF TypeOK
    <2>1. CASE r.in # NoFile /\ RecvFrom(m, d, r) /\ refused' = refused
      <3>1. M_GET(m.f, d[m.f]) \in Replies /\ M_GET(m.f, d[m.f]).t = "GET"
        BY <1>1, <1>5, <2>1, FrameType DEF M_GET, Msg
      <3>2. /\ rcv' \in RcvStates /\ r2s' \in Seq(Replies) /\ dt' = d
            /\ rcv'.in \in {NoFile, m.f}
            /\ rcv'.complete = r.complete /\ rcv'.reob = r.reob
            /\ r2s' \in {r2s, ToS(M_GET(m.f, d[m.f]))}
        BY <1>1, <1>2, <1>3, <1>5, <2>1, RecvFromType
      <3>3. Acked' \subseteq Acked
        BY <3>1, <3>2, AckedSend
      <3> QED BY <1>2, <1>3, <1>5, <2>0, <2>1, <3>2, <3>3
    <2>2. CASE /\ new /\ have /\ rcv' = OneMore(r) /\ dt' = d /\ r2s' = ToS(M_GOT(m.f))
               /\ refused' = refused
      <3>1. M_GOT(m.f) \in Replies /\ M_GOT(m.f).f = m.f
        BY <1>1, FrameType DEF M_GOT, Msg
      <3>2. r2s' \in Seq(Replies)
        BY <2>2, <3>1, SendType
      <3>3. Acked' \subseteq Acked \cup {m.f}
        BY <2>2, <3>1, AckedSend
      <3> QED BY <1>2, <1>3, <2>0, <2>2, <3>2, <3>3, OneMoreRcv
    <2>3. CASE new /\ ~have /\ RecvOpen(m, d, r) /\ refused' = refused
      <3>1. /\ rcv' \in RcvStates /\ r2s' \in Seq(Replies)
            /\ dt' \in {d, Opened(d, m.f)}
            /\ rcv'.in # NoFile => rcv'.in = m.f /\ dt' = Opened(d, m.f)
            /\ rcv'.complete = r.complete /\ rcv'.reob = r.reob
        BY <1>1, <1>2, <1>3, <2>3, RecvOpenType
      <3>2. PICK off \in Nat : r2s' \in {r2s, ToS(M_GET(m.f, off)), ToS(M_SKIP(m.f))}
        BY <1>1, <1>2, <1>3, <2>3, RecvOpenType
      <3>3. /\ M_GET(m.f, off) \in Replies /\ M_GET(m.f, off).t = "GET"
            /\ M_SKIP(m.f) \in Replies /\ M_SKIP(m.f).t = "SKIP"
        BY <1>1, FrameType DEF M_GET, M_SKIP, Msg
      <3>4. Acked' \subseteq Acked
        BY <3>2, <3>3, AckedSend
      <3>5. Opened(d, m.f) \in Dts /\ Opened(d, m.f)[m.f] \in Nat
        BY <1>1, <1>2, DtTypes
      <3> QED BY <1>2, <1>3, <2>0, <2>3, <3>1, <3>4, <3>5
    <2>4. CASE r.in = NoFile /\ Ruled(m, d, r)
      <3>1. rcv' = OneMore(r) /\ dt' = d
        BY <2>4 DEF Ruled
      <3>2. /\ M_GOT(m.f) \in Replies /\ M_GOT(m.f).f = m.f
            /\ M_SKIP(m.f) \in Replies /\ M_SKIP(m.f).t = "SKIP"
        BY <1>1, FrameType DEF M_GOT, M_SKIP, Msg
      <3>3. CASE r2s' = ToS(M_GOT(m.f)) /\ refused' = refused \cup {m.f}
        <4>1. r2s' \in Seq(Replies) /\ Acked' \subseteq Acked \cup {m.f}
          BY <3>2, <3>3, SendType, AckedSend
        <4> QED BY <1>1, <1>2, <1>3, <2>0, <2>4, <3>1, <3>3, <4>1, OneMoreRcv
      <3>4. CASE r2s' = ToS(M_SKIP(m.f)) /\ refused' = refused
        <4>1. r2s' \in Seq(Replies) /\ Acked' \subseteq Acked
          BY <3>2, <3>4, SendType, AckedSend
        <4> QED BY <1>2, <1>3, <2>0, <2>4, <3>1, <3>4, <4>1, OneMoreRcv
      <3> QED BY <2>4, <3>3, <3>4 DEF Ruled
    <2> QED BY <1>6, <2>1, <2>2, <2>3, <2>4
  <1>8. TypeOK'
    BY <1>1, <1>4, <1>7 DEF start_file_recv, TypeOK, Dts
  <1>9. GotHeld'
    <2>1. \A g \in Acked : delivered'[g] > 0 \/ g \in refused'
      BY <1>7, <1>1, <1>4, AckedFiles DEF GotHeld
    <2>2. have => delivered'[m.f] > 0
      BY <1>1, <1>4 DEF InboundDelivered
    <2> QED BY <1>7, <2>1, <2>2 DEF GotHeld
  <1> QED BY <1>4, <1>7, <1>8, <1>9 DEF InOpen

LEMMA RecvEOB ==
    ASSUME TypeOK, InOpen, CompleteHeld, InboundDelivered, GotHeld, ReceiverEOB
    PROVE  /\ TypeOK' /\ InboundDelivered' /\ GotHeld'
           /\ rcv'.in = NoFile /\ rcv'.complete = NoFile
  <1>1. rcv.up /\ Tail(s2r) \in Seq(Commands)
    BY StreamType DEF ReceiverEOB, ReceiverReads, TypeOK
  <1>2. dt' \in Dts
    <2>1. dt \in Dts /\ rcv.in \in Files \cup {NoFile}
      BY DEF TypeOK, Dts, RcvStates
    <2>2. Interrupted(dt, rcv) \in Dts
      BY <2>1, ClosePartialType, DtTypes DEF Interrupted
    <2> QED BY <2>2, CompleteDtType DEF ReceiverEOB
  <1>3. rcv' \in RcvStates /\ rcv'.in = NoFile /\ rcv'.complete = NoFile
    <2>1. Heard \in RcvStates /\ Heard.complete = rcv.complete
      BY ReadType, OneMoreRcv DEF TypeOK, Heard
    <2>2. /\ AtEOB \in RcvStates /\ AtEOB.in = NoFile
          /\ AtEOB.complete = rcv.complete
      BY <2>1 DEF AtEOB, RcvStates
    <2>3. rcv' = CompleteRcv(AtEOB) /\ (rcv.complete # NoFile => we_nd)
      BY DEF ReceiverEOB, CompleteHeld, we_nd
    <2> QED BY <2>2, <2>3, CompleteRcvType DEF CompleteRcv, RcvStates
  <1>4. /\ InboundDelivered'
        /\ \A g \in Files : delivered[g] > 0 \/ g = rcv.complete => delivered'[g] > 0
        /\ inbound' \subseteq Files /\ delivered' \in [Files -> Nat]
    BY CompleteDoneDelivers, CompleteDoneType DEF ReceiverEOB
  <1>5. GotHeld'
    BY <1>1, <1>4, AckedFiles DEF GotHeld, Acked, ReceiverEOB
  <1>6. TypeOK'
    BY <1>1, <1>2, <1>3, <1>4 DEF ReceiverEOB, TypeOK, Dts
  <1> QED BY <1>3, <1>4, <1>5, <1>6

-----------------------------------------------------------------------------
(*                    The receiver's other steps                           *)

(* A file in reception means that no acknowledgement is in doubt. *)
LEMMA InMeansDelivered ==
    ASSUME CompleteHeld, GotHeld, rcv.up, rcv.complete = NoFile \/ rcv.in # NoFile,
           TypeOK
    PROVE  \A g \in Acked : g \in Files /\ (delivered[g] > 0 \/ g \in refused)
  BY AckedFiles, FilesAssumption DEF CompleteHeld, GotHeld

LEMMA RecvDataStep ==
    ASSUME TypeOK, InOpen, CompleteHeld, InboundDelivered, GotHeld, RecvData
    PROVE  /\ TypeOK' /\ InOpen' /\ CompleteHeld' /\ InboundDelivered' /\ GotHeld'
           /\ rcv.in = NoFile => rcv' = rcv
  <1> DEFINE f == rcv.in
             len == dt[f] + Head(s2r).n
  <1>1. rcv.up /\ Tail(s2r) \in Seq(Commands) /\ Head(s2r).n \in {0, 1}
    BY FrameFields, StreamType DEF RecvData, ReceiverReads, TypeOK
  <1>2. f \in Files \cup {NoFile} /\ rcv \in RcvStates /\ dt \in Dts
    BY DEF TypeOK, RcvStates, Dts
  <1>3. CASE f = NoFile
    <2>1. s2r' = Tail(s2r) /\ UNCHANGED <<dt, inbound, delivered, r2s, rcv>>
      BY <1>3 DEF RecvData
    <2>2. UNCHANGED <<spool, stc, refused, mode, snd>>
      BY DEF RecvData
    <2> QED BY <1>1, <1>3, <2>1, <2>2
            DEF TypeOK, InOpen, CompleteHeld, InboundDelivered, GotHeld, Acked
  <1>4. CASE f # NoFile
    <2>1. f \in Files /\ len \in Nat /\ Size[f] \in Nat
      BY <1>1, <1>2, <1>4, FilesAssumption DEF InOpen
    <2>2. /\ rcv.complete = NoFile /\ \A g \in Acked : g \in Files /\ (delivered[g] > 0 \/ g \in refused)
      BY <1>1, <1>4, InMeansDelivered DEF CompleteHeld
    <2>3. UNCHANGED <<spool, stc, refused, mode, snd>>
      BY DEF RecvData
    <2> HIDE DEF len
    <2>4. CASE len < Size[f]
      <3>1. /\ dt' = [dt EXCEPT ![f] = len] /\ s2r' = Tail(s2r)
            /\ UNCHANGED <<inbound, delivered, r2s, rcv>>
        BY <1>4, <2>1, <2>4 DEF RecvData, len
      <3>2. dt' \in Dts /\ dt'[f] = len
        BY <1>2, <2>1, <3>1 DEF Dts
      <3> QED BY <1>1, <1>4, <2>1, <2>2, <2>3, <3>1, <3>2
              DEF TypeOK, Dts, InOpen, CompleteHeld, InboundDelivered, GotHeld, Acked
    <2>5. CASE len = Size[f]
      <3>1. FileComplete(f) /\ s2r' = Tail(s2r) /\ r2s' = ToS(M_GOT(f))
        BY <1>4, <2>1, <2>5 DEF RecvData, len
      <3>2. M_GOT(f) \in Replies /\ M_GOT(f).f = f
        BY <2>1, FrameType DEF M_GOT, Msg
      <3>3. r2s' \in Seq(Replies) /\ Acked' \subseteq Acked \cup {f}
        BY <3>1, <3>2, SendType, AckedSend
      <3>4. CASE ~we_nd
        <4> DEFINE q == [rcv EXCEPT !.in = NoFile]
        <4>1. /\ dt' = [dt EXCEPT ![f] = Absent] /\ rcv' = OneMore(q)
              /\ InbDone(f)
          BY <3>1, <3>4 DEF FileComplete, RenameAtOnce
        <4>2. dt' \in Dts /\ rcv' \in RcvStates /\ rcv'.in = NoFile
              /\ rcv'.complete = rcv.complete
          <5>1. q \in RcvStates /\ q.in = NoFile /\ q.complete = rcv.complete
            BY <1>2 DEF RcvStates
          <5>2. dt' \in Dts
            BY <1>2, <4>1 DEF Dts
          <5> HIDE DEF q
          <5> QED BY <4>1, <5>1, <5>2, OneMoreRcv
        <4>3. /\ delivered'[f] > 0 /\ InboundDelivered'
              /\ \A g \in Files : delivered[g] > 0 => delivered'[g] > 0
          BY <2>1, <4>1, DoneDelivers
        <4>4. inbound' \subseteq Files /\ delivered' \in [Files -> Nat]
          BY <2>1, <4>1 DEF InbDone, Renamed, TypeOK
        <4>5. GotHeld'
          BY <2>2, <2>3, <3>3, <4>3 DEF GotHeld
        <4>6. TypeOK'
          BY <1>1, <2>3, <3>1, <3>3, <4>2, <4>4 DEF TypeOK, Dts
        <4> QED BY <1>4, <2>2, <4>2, <4>3, <4>5, <4>6 DEF InOpen, CompleteHeld
      <3>5. CASE we_nd
        <4> DEFINE q == [rcv EXCEPT !.in = NoFile, !.complete = f]
        <4>1. /\ dt' = [dt EXCEPT ![f] = Size[f]]
              /\ rcv' = OneMore(q)
              /\ UNCHANGED <<inbound, delivered>>
          BY <3>1, <3>5 DEF FileComplete
        <4>2. dt' \in Dts /\ rcv' \in RcvStates /\ rcv'.in = NoFile
              /\ rcv'.complete = f /\ dt'[f] = Size[f]
          <5>1. q \in RcvStates /\ q.in = NoFile /\ q.complete = f
            BY <1>2, <2>1 DEF RcvStates
          <5>2. dt' \in Dts /\ dt'[f] = Size[f]
            BY <1>2, <2>1, <4>1 DEF Dts
          <5> HIDE DEF q
          <5> QED BY <4>1, <5>1, <5>2, OneMoreRcv
        <4>3. CompleteHeld'
          BY <2>3, <3>5, <4>2 DEF CompleteHeld, we_nd
        <4>4. GotHeld'
          BY <2>2, <2>3, <3>3, <4>1, <4>2 DEF GotHeld
        <4>5. TypeOK'
          BY <1>1, <2>3, <3>1, <3>3, <4>1, <4>2 DEF TypeOK, Dts
        <4> QED BY <1>4, <4>1, <4>2, <4>3, <4>4, <4>5 DEF InOpen, InboundDelivered
      <3> QED BY <3>4, <3>5
    <2>6. CASE len > Size[f]
      <3>1. /\ dt' = ClosePartial([dt EXCEPT ![f] = len], f) /\ ReceiverQuits
            /\ UNCHANGED <<inbound, delivered, r2s>>
        BY <1>4, <2>1, <2>6 DEF RecvData, len
      <3>2. [dt EXCEPT ![f] = len] \in Dts
        BY <1>2, <2>1 DEF Dts
      <3>3. dt' \in Dts
        BY <2>1, <3>1, <3>2, DtTypes
      <3>4. /\ rcv' = RDown /\ s2r' = <<>> /\ rcv' \in RcvStates
            /\ rcv'.in = NoFile /\ rcv'.complete = NoFile
        BY <3>1, DownType DEF ReceiverQuits, RDown, RcvInit
      <3>5. TypeOK'
        <4>1. UNCHANGED <<inbound, delivered, r2s>> /\ s2r' \in Seq(Commands)
          BY <3>1, <3>4
        <4> QED BY <2>3, <3>3, <3>4, <4>1 DEF TypeOK, Dts
      <3>6. GotHeld'
        BY <2>2, <2>3, <3>1 DEF GotHeld, Acked
      <3> QED BY <1>4, <3>1, <3>4, <3>5, <3>6 DEF InOpen, CompleteHeld, InboundDelivered
    <2> QED BY <2>1, <2>4, <2>5, <2>6
  <1> QED BY <1>3, <1>4

(* What an end of the session that does not follow a batch leaves. *)
LEMMA TidiedType ==
    ASSUME NEW d \in Dts, NEW r, r.in \in Files \cup {NoFile}
    PROVE  /\ Tidied(d, r) \in Dts
           /\ ~r.reob /\ r.in = NoFile => Tidied(d, r) = d
  <1>1. ClosePartial(d, r.in) \in Dts
    BY ClosePartialType
  <1>2. [f \in Files |-> Absent] \in Dts
    BY DEF Dts
  <1> QED BY <1>1, <1>2 DEF Tidied, Successful, ClosePartial

(* An M_EOB that finds a file in in_complete finds its M_GOT read: the two *)
(* mailers pace each other (this follows from DInv below).                 *)
EOBAlone ==
    ReceiverReads("EOB") /\ rcv.complete # NoFile => Acked = {}

LEMMA RecvEndStep ==
    ASSUME IInv, EOBAlone,
           \/ ReceiverSendEOB \/ ReceiverEndBatch
           \/ ReceiverDrop \/ ReceiverCrash \/ InbDoneFails
    PROVE  TypeOK' /\ InOpen' /\ CompleteHeld' /\ InboundDelivered' /\ GotHeld'
  <1> USE DEF IInv
  <1>1. rcv.in \in Files \cup {NoFile} /\ rcv \in RcvStates /\ dt \in Dts
    BY DEF TypeOK, RcvStates, Dts
  <1>2. RDown \in RcvStates /\ RDown.in = NoFile /\ RDown.complete = NoFile /\ ~RDown.up
    BY DownType DEF RDown, RcvInit
  <1>3. CASE ReceiverSendEOB
    <2>1. /\ rcv' \in RcvStates /\ rcv'.in = rcv.in /\ rcv'.complete = rcv.complete
          /\ rcv'.up = rcv.up
      <3> DEFINE q == [rcv EXCEPT !.eob = TRUE]
      <3>1. /\ q \in RcvStates /\ q.in = rcv.in /\ q.complete = rcv.complete
            /\ q.up = rcv.up
        BY <1>1 DEF RcvStates
      <3>2. rcv' = OneMore(q)
        BY <1>3 DEF ReceiverSendEOB
      <3> HIDE DEF q
      <3> QED BY <3>1, <3>2, OneMoreRcv
    <2>2. r2s' \in Seq(Replies) /\ Acked' \subseteq Acked
      <3>1. M_EOB \in Replies /\ M_EOB.t = "EOB"
        BY FrameType DEF M_EOB, Msg
      <3> QED BY <1>3, <3>1, SendType, AckedSend DEF ReceiverSendEOB
    <2>3. TypeOK'
      BY <1>3, <2>1, <2>2 DEF ReceiverSendEOB, TypeOK
    <2> QED BY <1>3, <2>1, <2>2, <2>3
            DEF ReceiverSendEOB, InOpen, CompleteHeld, InboundDelivered, GotHeld
  <1>4. CASE ReceiverEndBatch
    <2>1. rcv.complete = NoFile /\ rcv.in = NoFile /\ rcv.up
      BY <1>4 DEF ReceiverEndBatch, Successful, NoFileAfterEOB
    <2>2. \A g \in Acked : g \in Files /\ (delivered[g] > 0 \/ g \in refused)
      BY <2>1, InMeansDelivered
    <2>3. rcv' \in RcvStates /\ rcv'.in = NoFile /\ rcv'.complete = NoFile
      <3>1. CASE rcv.msgs <= 2
        BY <1>2, <1>4, <3>1 DEF ReceiverEndBatch, ReceiverQuits
      <3>2. CASE ~(rcv.msgs <= 2)
        <4>1. rcv' = [rcv EXCEPT !.msgs = 0, !.eob = FALSE, !.reob = FALSE]
          BY <1>4, <3>2 DEF ReceiverEndBatch
        <4> QED BY <1>1, <2>1, <4>1 DEF RcvStates
      <3> QED BY <3>1, <3>2
    <2>4. dt' \in Dts /\ s2r' \in Seq(Commands)
      <3>1. CASE rcv.msgs <= 2
        BY <1>1, <1>4, <3>1, TidiedType DEF ReceiverEndBatch, ReceiverQuits
      <3>2. CASE ~(rcv.msgs <= 2)
        BY <1>1, <1>4, <3>2 DEF ReceiverEndBatch, TypeOK
      <3> QED BY <3>1, <3>2
    <2>5. TypeOK'
      BY <1>4, <2>3, <2>4 DEF ReceiverEndBatch, TypeOK, Dts
    <2> QED BY <1>4, <2>2, <2>3, <2>5
            DEF ReceiverEndBatch, InOpen, CompleteHeld, InboundDelivered, GotHeld, Acked
  <1>5. CASE ReceiverDrop \/ ReceiverCrash \/ InbDoneFails
    <2>1. /\ rcv' = RDown /\ s2r' = <<>> /\ rcv.up
          /\ UNCHANGED <<spool, stc, inbound, delivered, refused, mode, r2s, snd>>
      BY <1>5 DEF ReceiverDrop, ReceiverCrash, InbDoneFails, ReceiverQuits,
         ReceiverReads
    <2>2. /\ dt' \in Dts
          /\ rcv.in = NoFile /\ ~rcv.reob /\ Acked # {} => dt' = dt
      <3>1. CASE ReceiverDrop
        BY <1>1, <3>1, TidiedType DEF ReceiverDrop
      <3>2. CASE ReceiverCrash
        BY <1>1, <3>2 DEF ReceiverCrash
      <3>3. CASE /\ ReceiverReads("FILE") /\ we_nd /\ rcv.complete # NoFile
                 /\ dt' = Tidied(dt, rcv)
        BY <1>1, <3>3, TidiedType
      <3>4. CASE /\ ReceiverReads("DATA") /\ ~we_nd /\ rcv.in # NoFile
                 /\ dt' = Tidied([dt EXCEPT ![rcv.in] = Size[rcv.in]],
                                 [rcv EXCEPT !.in = NoFile])
        <4>1. [dt EXCEPT ![rcv.in] = Size[rcv.in]] \in Dts
          BY <1>1, FilesAssumption DEF Dts
        <4>2. [rcv EXCEPT !.in = NoFile].in \in Files \cup {NoFile}
          BY <1>1 DEF RcvStates
        <4> QED BY <3>4, <4>1, <4>2, TidiedType
      <3>5. CASE /\ ReceiverReads("EOB") /\ we_nd /\ rcv.complete # NoFile
                 /\ dt' = Tidied(Interrupted(dt, rcv), AtEOB)
        <4>1. Interrupted(dt, rcv) \in Dts
          BY <1>1, ClosePartialType, DtTypes DEF Interrupted
        <4>2. AtEOB.in = NoFile
          BY ReadType DEF AtEOB, RcvStates
        <4> QED BY <3>5, <4>1, <4>2, TidiedType DEF EOBAlone
      <3> QED BY <1>5, <3>1, <3>2, <3>3, <3>4, <3>5 DEF InbDoneFails
    <2>3. TypeOK'
      BY <1>2, <2>1, <2>2 DEF TypeOK, Dts
    <2>4. GotHeld'
      <3>1. CASE Acked = {} \/ (rcv.in = NoFile /\ ~rcv.reob)
        BY <1>2, <2>1, <2>2, <3>1 DEF GotHeld, Acked
      <3>2. CASE rcv.in # NoFile \/ rcv.reob
        <4>1. rcv.complete = NoFile \/ rcv.in # NoFile
          BY <3>2 DEF NoFileAfterEOB
        <4>2. \A g \in Acked : g \in Files /\ (delivered[g] > 0 \/ g \in refused)
          BY <2>1, <4>1, InMeansDelivered
        <4> QED BY <2>1, <4>2 DEF GotHeld, Acked
      <3> QED BY <3>1, <3>2
    <2> QED BY <1>2, <2>1, <2>3, <2>4 DEF InOpen, CompleteHeld, InboundDelivered
  <1> QED BY <1>3, <1>4, <1>5

LEMMA OtherStep ==
    ASSUME IInv, Connect \/ Toss
    PROVE  TypeOK' /\ InOpen' /\ CompleteHeld' /\ InboundDelivered' /\ GotHeld'
  <1> USE DEF IInv
  <1>1. CASE Connect
    <2>1. SndInit(TRUE) \in SndStates
      BY DEF SndInit, SndStates, TypeOK
    <2>2. /\ rcv' \in RcvStates
          /\ rcv'.in = NoFile /\ rcv'.complete = NoFile
      <3>1. PICK rules \in SkipRules : rcv' = [RcvInit(TRUE) EXCEPT !.rules = rules]
        BY <1>1 DEF Connect
      <3>2. rules \in [Files -> Rulings]
        BY ParamAssumption DEF ParamAssumption
      <3>3. RcvInit(TRUE) \in RcvStates
        BY RcvInitType
      <3>4. RcvInit(TRUE).in = NoFile /\ RcvInit(TRUE).complete = NoFile
        BY DEF RcvInit
      <3> QED BY <3>1, <3>2, <3>3, <3>4 DEF RcvStates
    <2>3. TypeOK'
      <3>1. s2r' \in Seq(Commands) /\ r2s' \in Seq(Replies)
        BY <1>1 DEF Connect
      <3>2. /\ UNCHANGED <<spool, stc, dt, inbound, delivered>> /\ mode' \in Modes
            /\ refused' \subseteq Files
        BY <1>1, ParamAssumption DEF Connect, disks, ParamAssumption, TypeOK
      <3>3. snd' \in SndStates /\ rcv' \in RcvStates
        BY <1>1, <2>1, <2>2 DEF Connect
      <3> QED BY <3>1, <3>2, <3>3 DEF TypeOK
    <2>4. Acked' = {}
      BY <1>1 DEF Connect, Acked
    <2> QED BY <1>1, <2>2, <2>3, <2>4
            DEF Connect, disks, InOpen, CompleteHeld, InboundDelivered, GotHeld
  <1>2. CASE Toss
    <2>1. inbound' \subseteq inbound
      BY <1>2 DEF Toss
    <2>2. TypeOK'
      BY <1>2, <2>1 DEF Toss, TypeOK
    <2> QED BY <1>2, <2>1, <2>2
            DEF Toss, InOpen, CompleteHeld, InboundDelivered, GotHeld, Acked
  <1> QED BY <1>1, <1>2

-----------------------------------------------------------------------------
(*                          The sender's steps                             *)

LEMMA SenderStep ==
    ASSUME IInv, SenderNext
    PROVE  /\ TypeOK' /\ InOpen' /\ CompleteHeld' /\ InboundDelivered' /\ GotHeld'
           /\ UNCHANGED rcv
  <1> USE DEF IInv
  <1>1. TypeOK'
    BY StartType, SendDataType, SendRestType, GETType, GOTType, SKIPType DEF SenderNext
  <1>2. UNCHANGED <<dt, inbound, delivered, refused, mode, rcv>>
    BY DEF SenderNext, StartFile, StartStatus, SendData, SendStatusEof, SendEOB,
       SenderEndBatch, GET, GOT, GOTCrash, GOTStcFails, SKIP, SenderEOB, SenderDrop
  <1>3. r2s' \in {r2s, <<>>} \/ (r2s # <<>> /\ r2s' = Tail(r2s))
    <2>1. CASE StartFile \/ StartStatus \/ SendData \/ SendStatusEof \/ SendEOB
      BY <2>1 DEF StartFile, StartStatus, SendData, SendStatusEof, SendEOB
    <2>2. CASE SenderEndBatch \/ SenderDrop \/ GOTCrash \/ GOTStcFails
      BY <2>2 DEF SenderEndBatch, SenderDrop, GOTCrash, GOTStcFails, SenderQuits
    <2>3. CASE GOT \/ SKIP \/ SenderEOB
      BY <2>3 DEF GOT, SKIP, SenderEOB, SenderReads, SenderQuits
    <2>4. CASE GET
      BY <2>4 DEF GET, GETStatusAtEnd, GETStatusElse, GETFile, GETDrop, SenderReads,
         SenderQuits
    <2> QED BY <2>1, <2>2, <2>3, <2>4 DEF SenderNext
  <1>4. Acked' \subseteq Acked
    BY <1>3, AckedRead
  <1> QED BY <1>1, <1>2, <1>4 DEF InOpen, CompleteHeld, InboundDelivered, GotHeld

-----------------------------------------------------------------------------
(*                     No M_FILE after an M_EOB                            *)

NoFileIn(s, from) == \A j \in from..Len(s) : s[j].t # "FILE"
EOBLast == \A i \in 1..Len(s2r) : s2r[i].t = "EOB" => Quiet /\ NoFileIn(s2r, i)

LEMMA NoFileAfterEOBParts ==
    NoFileAfterEOB <=>
        /\ snd.eob => Quiet
        /\ EOBLast
        /\ rcv.reob => /\ Quiet /\ rcv.in = NoFile /\ rcv.complete = NoFile
                       /\ NoFileIn(s2r, 1)
  BY DEF NoFileAfterEOB, EOBLast, NoFileIn

(* The sender sends data or M_EOB, or nothing, and stays quiet once it is. *)
LEMMA QuietStep ==
    ASSUME TypeOK, NoFileAfterEOB, NEW m \in Commands, m.t # "FILE",
           s2r' \in {s2r, ToR(m)}, Quiet => Quiet', snd'.eob => Quiet',
           m.t = "EOB" => Quiet', UNCHANGED rcv
    PROVE  NoFileAfterEOB'
  <1>1. s2r \in Seq(Commands)
    BY DEF TypeOK
  <1>2. CASE s2r' = s2r
    BY <1>2, NoFileAfterEOBParts DEF EOBLast, NoFileAfterEOB
  <1>3. CASE s2r' = Append(s2r, m)
    <2>1. /\ Len(s2r) \in Nat /\ Len(s2r') = Len(s2r) + 1
          /\ \A i \in 1..Len(s2r) : s2r'[i] = s2r[i]
          /\ s2r'[Len(s2r) + 1] = m
      BY <1>1, <1>3, StreamIndex
    <2>2. \A k \in 1..Len(s2r) + 1 : NoFileIn(s2r, k) => NoFileIn(s2r', k)
      BY <2>1 DEF NoFileIn
    <2>3. NoFileIn(s2r', Len(s2r) + 1)
      BY <2>1 DEF NoFileIn
    <2>4. EOBLast'
      <3> SUFFICES ASSUME NEW i \in 1..Len(s2r'), s2r'[i].t = "EOB"
                   PROVE  Quiet' /\ NoFileIn(s2r', i)
        BY DEF EOBLast
      <3>1. CASE i = Len(s2r) + 1
        BY <2>1, <2>3, <3>1
      <3>2. CASE i \in 1..Len(s2r)
        BY <2>1, <2>2, <3>2, NoFileAfterEOBParts DEF EOBLast
      <3> QED BY <2>1, <3>1, <3>2
    <2>5. rcv.reob => /\ Quiet' /\ rcv.in = NoFile /\ rcv.complete = NoFile
                      /\ NoFileIn(s2r', 1)
      BY <2>1, <2>2, NoFileAfterEOBParts
    <2>6. NoFileAfterEOB' <=>
            /\ snd'.eob => Quiet'
            /\ EOBLast'
            /\ rcv'.reob => /\ Quiet' /\ rcv'.in = NoFile /\ rcv'.complete = NoFile
                            /\ NoFileIn(s2r', 1)
      BY DEF NoFileAfterEOB, EOBLast, NoFileIn
    <2> QED BY <2>4, <2>5, <2>6
  <1> QED BY <1>2, <1>3 DEF ToR

(* An M_FILE is sent only by a sender that is not quiet: no M_EOB is under *)
(* way then.                                                               *)
LEMMA AnnounceStep ==
    ASSUME TypeOK, NoFileAfterEOB, ~Quiet, NEW m \in Commands, m.t = "FILE",
           s2r' \in {s2r, ToR(m)}, ~snd'.eob, UNCHANGED rcv
    PROVE  NoFileAfterEOB'
  <1>1. s2r \in Seq(Commands)
    BY DEF TypeOK
  <1>2. ~rcv'.reob /\ \A i \in 1..Len(s2r) : s2r[i].t # "EOB"
    BY DEF NoFileAfterEOB
  <1>3. \A i \in 1..Len(s2r') : s2r'[i].t # "EOB"
    <2>1. CASE s2r' = s2r
      BY <1>2, <2>1
    <2>2. CASE s2r' = Append(s2r, m)
      <3>1. /\ Len(s2r) \in Nat /\ Len(s2r') = Len(s2r) + 1
            /\ \A i \in 1..Len(s2r) : s2r'[i] = s2r[i]
            /\ s2r'[Len(s2r) + 1] = m
        BY <1>1, <2>2, StreamIndex
      <3>2. \A i \in 1..Len(s2r') : i \in 1..Len(s2r) \/ i = Len(s2r) + 1
        BY <3>1
      <3> QED BY <1>2, <3>1, <3>2
    <2> QED BY <2>1, <2>2 DEF ToR
  <1> QED BY <1>2, <1>3 DEF NoFileAfterEOB

(* The receiver reads. *)
LEMMA ListenStep ==
    ASSUME TypeOK, NoFileAfterEOB, UNCHANGED snd,
           s2r' \in {s2r, <<>>} \/ (s2r # <<>> /\ s2r' = Tail(s2r)),
           rcv'.reob => /\ rcv'.in = NoFile /\ rcv'.complete = NoFile
                        /\ \/ rcv.reob
                           \/ s2r # <<>> /\ Head(s2r).t = "EOB"
    PROVE  NoFileAfterEOB'
  <1>1. s2r \in Seq(Commands)
    BY DEF TypeOK
  <1>2. Quiet' <=> Quiet
    BY DEF Quiet, Sending
  <1>3. EOBLast' /\ (NoFileIn(s2r, 1) => NoFileIn(s2r', 1))
    <2>1. CASE s2r' = s2r
      BY <1>2, <2>1, NoFileAfterEOBParts DEF EOBLast
    <2>2. CASE s2r' = <<>>
      BY <2>2 DEF EOBLast, NoFileIn
    <2>3. CASE s2r # <<>> /\ s2r' = Tail(s2r)
      <3>1. /\ Len(s2r) \in Nat \ {0} /\ Len(s2r') = Len(s2r) - 1
            /\ \A i \in 1..Len(s2r') : s2r'[i] = s2r[i + 1]
        BY <1>1, <2>3, StreamIndex
      <3>2. \A k \in 1..Len(s2r') : NoFileIn(s2r, k + 1) => NoFileIn(s2r', k)
        BY <3>1 DEF NoFileIn
      <3>3. EOBLast'
        <4> SUFFICES ASSUME NEW i \in 1..Len(s2r'), s2r'[i].t = "EOB"
                     PROVE  Quiet' /\ NoFileIn(s2r', i)
          BY DEF EOBLast
        <4>1. i + 1 \in 1..Len(s2r) /\ s2r[i + 1].t = "EOB"
          BY <3>1
        <4>2. Quiet /\ NoFileIn(s2r, i + 1)
          BY <4>1, NoFileAfterEOBParts DEF EOBLast
        <4> QED BY <1>2, <3>2, <4>2
      <3>4. NoFileIn(s2r, 1) => NoFileIn(s2r', 1)
        BY <3>1 DEF NoFileIn
      <3> QED BY <3>3, <3>4
    <2> QED BY <2>1, <2>2, <2>3
  <1>4. s2r # <<>> /\ Head(s2r).t = "EOB" => Quiet /\ NoFileIn(s2r, 1)
    <2>1. s2r # <<>> => Head(s2r) = s2r[1] /\ 1 \in 1..Len(s2r)
      BY <1>1, StreamIndex
    <2> QED BY <2>1, NoFileAfterEOBParts DEF EOBLast
  <1>5. rcv'.reob => Quiet' /\ NoFileIn(s2r', 1)
    BY <1>2, <1>3, <1>4, NoFileAfterEOBParts
  <1>6. NoFileAfterEOB' <=>
          /\ snd'.eob => Quiet'
          /\ EOBLast'
          /\ rcv'.reob => /\ Quiet' /\ rcv'.in = NoFile /\ rcv'.complete = NoFile
                          /\ NoFileIn(s2r', 1)
    BY DEF NoFileAfterEOB, EOBLast, NoFileIn
  <1> QED BY <1>2, <1>3, <1>5, <1>6, NoFileAfterEOBParts

LEMMA DownQuiet == (snd' = Down => Quiet' /\ ~snd'.eob) /\ ~Down.eob
  BY DEF Down, SndInit, Quiet, Sending

LEMMA AnnounceEOB ==
    ASSUME TypeOK, NEW f, NEW b, NEW rest \in SndStates, Announce(f, b, rest)
    PROVE  snd'.eob = rest.eob
  BY DEF Announce, OneMore, SndStates

LEMMA SenderSendsEOB ==
    ASSUME IInv, StartFile \/ StartStatus \/ SendData \/ SendStatusEof \/ SendEOB
    PROVE  NoFileAfterEOB'
  <1> USE DEF IInv
  <1>1. snd \in SndStates /\ UNCHANGED rcv
    BY DEF TypeOK, StartFile, StartStatus, SendData, SendStatusEof, SendEOB
  <1>2. CASE StartFile
    <2>1. PICK f \in snd.q : Announce(f, FALSE, [snd EXCEPT !.q = @ \ {f}])
      BY <1>2 DEF StartFile
    <2>2. f \in Files /\ ~Quiet
      BY <1>1 DEF SndStates, Quiet
    <2> DEFINE o == IF we_nr THEN -1 ELSE 0
    <2>3. M_FILE(f, o) \in Commands /\ M_FILE(f, o).t = "FILE" /\ s2r' = ToR(M_FILE(f, o))
      BY <2>1, <2>2, FrameType DEF Announce, M_FILE, Msg
    <2>4. ~snd'.eob
      <3> DEFINE rest == [snd EXCEPT !.q = @ \ {f}]
      <3>1. rest \in SndStates /\ rest.eob = snd.eob
        BY <1>1 DEF SndStates
      <3> QED BY <1>2, <2>1, <3>1, AnnounceEOB DEF StartFile, MayStart
    <2> QED BY <1>1, <2>2, <2>3, <2>4, AnnounceStep
  <1>3. CASE StartStatus
    <2>1. snd.qs \in Files /\ ~Quiet
      BY <1>1, <1>3 DEF StartStatus, SndStates, Quiet
    <2> DEFINE m == M_FILE(snd.qs, IF we_nr THEN -1 ELSE Size[snd.qs])
    <2>2. m \in Commands /\ m.t = "FILE" /\ s2r' = ToR(m)
      <3>1. (IF we_nr THEN -1 ELSE Size[snd.qs]) \in Nat \cup {-1}
        BY <2>1, FilesAssumption
      <3>2. m \in Commands /\ m.t = "FILE"
        BY <2>1, <3>1, FrameType DEF M_FILE, Msg
      <3> QED BY <1>3, <3>2 DEF StartStatus, Announce
    <2>3. ~snd'.eob
      <3> DEFINE rest == [snd EXCEPT !.qs = NoFile]
      <3>1. rest \in SndStates /\ rest.eob = snd.eob
        BY <1>1 DEF SndStates
      <3> QED BY <1>3, <3>1, AnnounceEOB DEF StartStatus, MayStart
    <2> QED BY <1>1, <2>1, <2>2, <2>3, AnnounceStep
  <1>4. CASE SendData
    <2> DEFINE n == IF snd.pos < Size[snd.out] THEN 1 ELSE 0
               m == DATA(snd.out, snd.pos, n)
    <2>1. ~Quiet /\ ~snd.eob
      BY <1>4 DEF SendData, Quiet, NoFileAfterEOB
    <2>2. m \in Commands /\ m.t = "DATA" /\ s2r' = ToR(m)
      <3>1. snd.out \in Files /\ snd.pos \in Nat /\ n \in {0, 1}
        BY <1>1, <1>4 DEF SendData, Sending, SndStates
      <3>2. m \in Commands /\ m.t = "DATA"
        BY <3>1, FrameType DEF DATA, Msg
      <3> QED BY <1>4, <3>2 DEF SendData
    <2>3. ~snd'.eob
      BY <1>1, <1>4, <2>1 DEF SendData, SndStates
    <2> QED BY <1>1, <2>1, <2>2, <2>3, QuietStep
  <1>5. CASE SendStatusEof
    <2> DEFINE m == DATA(snd.out, IF snd.out = NoFile THEN 0 ELSE Size[snd.out], 0)
    <2>1. m \in Commands /\ m.t = "DATA" /\ s2r' = ToR(m)
      <3>1. snd.out \in Files \cup {NoFile}
        BY <1>1 DEF SndStates
      <3>2. (IF snd.out = NoFile THEN 0 ELSE Size[snd.out]) \in Nat
        BY <3>1, FilesAssumption
      <3>3. m \in Commands /\ m.t = "DATA"
        BY <3>1, <3>2, FrameType DEF DATA, Msg
      <3> QED BY <1>5, <3>3 DEF SendStatusEof
    <2>2. /\ snd'.eob = snd.eob /\ snd'.q = snd.q /\ snd'.qs = snd.qs
          /\ snd'.sent = snd.sent /\ snd'.out = snd.out /\ snd'.status = snd.status
          /\ snd'.offReq = snd.offReq
      BY <1>1, <1>5 DEF SendStatusEof, SndStates
    <2>3. Quiet => Quiet'
      BY <2>2 DEF Quiet, Sending
    <2> QED BY <1>1, <2>1, <2>2, <2>3, QuietStep DEF NoFileAfterEOB
  <1>6. CASE SendEOB
    <2>1. Quiet'
      <3> DEFINE st == [snd EXCEPT !.eob = TRUE]
      <3>1. /\ st \in SndStates /\ st.q = snd.q /\ st.qs = snd.qs /\ st.sent = snd.sent
            /\ st.out = snd.out /\ st.status = snd.status /\ st.offReq = snd.offReq
        BY <1>1 DEF SndStates
      <3>2. snd' = OneMore(st)
        BY <1>6 DEF SendEOB
      <3> HIDE DEF st
      <3> QED BY <1>6, <3>1, <3>2, OneMoreSnd DEF SendEOB, MayStart, Quiet, Sending
    <2>2. M_EOB \in Commands /\ M_EOB.t = "EOB" /\ s2r' = ToR(M_EOB)
      BY <1>6, FrameType DEF SendEOB, M_EOB, Msg
    <2> QED BY <1>1, <2>1, <2>2, QuietStep
  <1> QED BY <1>2, <1>3, <1>4, <1>5, <1>6

(* A quiet sender has no file an M_GET could be about. *)
LEMMA GETEOB ==
    ASSUME IInv, GET
    PROVE  NoFileAfterEOB'
  <1> USE DEF IInv
  <1> DEFINE m == Head(r2s)
             st == GETReopen(m.f)
  <1>1. snd \in SndStates /\ Read \in SndStates /\ UNCHANGED rcv /\ m.f \in Files
        /\ m.off \in Nat
    BY ReadType, SenderHead DEF TypeOK, GET
  <1>2. st \in SndStates
    BY <1>1, GETReopenType
  <1>3. st.eob = snd.eob
    <2>1. Read.eob = snd.eob
      BY <1>1, OneMoreSnd DEF Read
    <2> QED BY <1>1, <2>1 DEF GETReopen, SndStates
  <1>4. M_EOB \in Commands /\ M_EOB.t = "EOB"
    BY FrameType DEF M_EOB, Msg
  <1>5. CASE GETDrop(st)
    <2>1. snd' = Down /\ s2r' = s2r
      BY <1>5 DEF GETDrop, SenderQuits
    <2> QED BY <1>1, <1>4, <2>1, DownQuiet, QuietStep
  <1>6. CASE ~GETDrop(st)
    <2>1. \/ st.out = m.f /\ st.status /\ st.offReq
             /\ (GETStatusAtEnd(m, st) \/ GETStatusElse(m, st))
          \/ st.out = m.f /\ ~st.status /\ GETFile(m, st)
      BY <1>6 DEF GET
    <2>2. ~Quiet
      <3> SUFFICES ASSUME Quiet PROVE FALSE
        OBVIOUS
      <3>1. st = Read
        BY DEF Quiet, GETReopen
      <3>2. st.out = snd.out /\ st.status = snd.status /\ st.offReq = snd.offReq
        BY <1>1, <3>1, OneMoreSnd DEF Read
      <3> QED BY <1>1, <2>1, <3>2, FilesAssumption DEF Quiet, Sending
    <2>3. M_FILE(m.f, m.off) \in Commands /\ M_FILE(m.f, m.off).t = "FILE"
      BY <1>1, FrameType DEF M_FILE, Msg
    <2>4. s2r' = ToR(M_FILE(m.f, m.off))
      BY <2>1 DEF GETStatusAtEnd, GETStatusElse, GETFile
    <2>5. snd'.eob = st.eob
      BY <1>2, <2>1
         DEF GETStatusAtEnd, GETStatusElse, GETFile, GETTail, OneMore, SndStates
    <2>6. ~snd.eob
      BY <2>2 DEF NoFileAfterEOB
    <2> QED BY <1>1, <1>3, <2>2, <2>3, <2>4, <2>5, <2>6, AnnounceStep
  <1> QED BY <1>5, <1>6

LEMMA SenderHearsEOB ==
    ASSUME IInv, \/ SenderEndBatch \/ GOT \/ GOTCrash \/ GOTStcFails \/ SKIP
                 \/ SenderEOB \/ SenderDrop
    PROVE  NoFileAfterEOB'
  <1> USE DEF IInv
  <1>1. snd \in SndStates /\ Read \in SndStates /\ UNCHANGED <<rcv, s2r>>
    BY ReadType DEF TypeOK, SenderEndBatch, GOT, GOTCrash, GOTStcFails, SKIP, SenderEOB,
       SenderDrop
  <1>2. /\ Read.eob = snd.eob /\ Read.q = snd.q /\ Read.qs = snd.qs
        /\ Read.sent = snd.sent /\ Read.out = snd.out /\ Read.status = snd.status
        /\ Read.offReq = snd.offReq
    BY <1>1, OneMoreSnd DEF Read
  <1>3. (Quiet => Quiet') /\ (snd'.eob => Quiet')
    <2>1. CASE snd' = Down
      BY <2>1, DownQuiet
    <2>2. CASE SenderEndBatch /\ snd' # Down
      BY <1>1, <2>2, ZenonT(60) DEF SenderEndBatch, SndStates, Quiet, Sending
    <2>3. CASE GOT
      <3> DEFINE m == Head(r2s)
      <3>1. snd' = GOTState(m)
        BY <2>3 DEF GOT
      <3>2. CASE GOTOut(m)
        <4>1. snd' = [Read EXCEPT !.out = NoFile, !.status = FALSE, !.pos = 0,
                        !.ndAddr = TRUE, !.waitGOT = FALSE, !.offReq = FALSE]
          BY <3>1, <3>2 DEF GOTState, GOTSent
        <4> QED BY <1>1, <1>2, <4>1 DEF Quiet, Sending, NoFileAfterEOB, SndStates
      <3>3. CASE GOTSent(m)
        <4>1. ~Quiet
          BY <3>3 DEF Quiet, GOTSent
        <4>2. snd' = [Read EXCEPT !.sent = @ \ {m.f}, !.ndAddr = TRUE, !.waitGOT = FALSE]
          BY <3>1, <3>3 DEF GOTState, GOTSent
        <4> QED BY <1>1, <1>2, <4>1, <4>2 DEF NoFileAfterEOB, SndStates
      <3>4. CASE ~GOTOut(m) /\ ~GOTSent(m)
        BY <1>2, <3>1, <3>4 DEF GOTState, Quiet, Sending, NoFileAfterEOB
      <3> QED BY <3>2, <3>3, <3>4
    <2>4. CASE SKIP /\ snd' # Down
      <3> DEFINE f == Head(r2s).f
      <3>1. snd' = SKIPState(f)
        BY <2>4 DEF SKIP, SenderQuits
      <3>2. /\ snd'.eob = Read.eob /\ snd'.q = Read.q /\ snd'.qs = Read.qs
            /\ snd'.sent \subseteq Read.sent /\ snd'.out \in {Read.out, NoFile}
            /\ snd'.status = Read.status /\ (snd'.offReq => Read.offReq)
        BY <1>1, <3>1 DEF SKIPState, SndStates
      <3> QED BY <1>2, <3>2 DEF Quiet, Sending, NoFileAfterEOB
    <2>5. CASE SenderEOB
      <3>1. /\ snd'.eob = Read.eob /\ snd'.q = Read.q /\ snd'.qs = Read.qs
            /\ snd'.sent = Read.sent /\ snd'.out = Read.out
            /\ snd'.status = Read.status /\ snd'.offReq = Read.offReq
        BY <1>1, <2>5 DEF SenderEOB, SndStates
      <3> QED BY <1>2, <3>1 DEF Quiet, Sending, NoFileAfterEOB
    <2> QED BY <2>1, <2>2, <2>3, <2>4, <2>5
            DEF GOTCrash, GOTStcFails, SenderDrop, SenderQuits
  <1>5. DATA(NoFile, 0, 0) \in Commands /\ DATA(NoFile, 0, 0).t = "DATA"
    BY FrameType DEF DATA, Msg
  <1> QED BY <1>1, <1>3, <1>5, QuietStep

LEMMA ReceiverKeepsEOB ==
    ASSUME IInv, ReceiverNext
    PROVE  NoFileAfterEOB'
  <1> USE DEF IInv
  <1>1. UNCHANGED snd
    BY DEF ReceiverNext, start_file_recv, RecvData, ReceiverEOB, ReceiverSendEOB,
       ReceiverEndBatch, ReceiverDrop, ReceiverCrash, InbDoneFails
  <1>2. s2r \in Seq(Commands) /\ rcv \in RcvStates
    BY DEF TypeOK
  <1>3. CASE start_file_recv
    <2>1. s2r # <<>> /\ s2r' = Tail(s2r) /\ Head(s2r).t = "FILE"
      BY <1>3 DEF start_file_recv, ReceiverReads
    <2>2. Head(s2r) = s2r[1] /\ 1 \in 1..Len(s2r)
      BY <1>2, <2>1, StreamIndex
    <2>3. ~rcv.reob
      BY <2>1, <2>2 DEF NoFileAfterEOB
    <2> QED BY <1>1, <1>3, <2>1, <2>3, StartRecv, ListenStep
  <1>4. CASE RecvData
    <2>1. s2r' = <<>> \/ (s2r # <<>> /\ s2r' = Tail(s2r))
      BY <1>4 DEF RecvData, ReceiverReads, ReceiverQuits
    <2>2. rcv.in = NoFile => rcv' = rcv
      BY <1>4, RecvDataStep
    <2>3. rcv.in # NoFile => ~rcv'.reob
      <3> SUFFICES ASSUME rcv.in # NoFile PROVE ~rcv'.reob
        OBVIOUS
      <3>1. ~rcv.reob
        BY DEF NoFileAfterEOB
      <3>2. \/ rcv' = rcv \/ rcv' = OneMore([rcv EXCEPT !.in = NoFile])
            \/ rcv' = OneMore([rcv EXCEPT !.in = NoFile, !.complete = rcv.in])
            \/ rcv' = RDown
        BY <1>4 DEF RecvData, FileComplete, RenameAtOnce, ReceiverQuits
      <3>3. RDown.reob = FALSE
        BY DEF RDown, RcvInit
      <3> QED BY <1>2, <3>1, <3>2, <3>3 DEF OneMore, RcvStates
    <2>4. rcv.reob => rcv.in = NoFile /\ rcv.complete = NoFile
      BY DEF NoFileAfterEOB
    <2> QED BY <1>1, <2>1, <2>2, <2>3, <2>4, ListenStep
  <1>5. CASE ReceiverEOB
    <2>1. s2r # <<>> /\ s2r' = Tail(s2r) /\ Head(s2r).t = "EOB"
      BY <1>5 DEF ReceiverEOB, ReceiverReads
    <2> QED BY <1>1, <1>5, <2>1, RecvEOB, ListenStep
  <1>6. CASE ReceiverSendEOB
    <2>1. /\ s2r' = s2r /\ rcv'.reob = rcv.reob
          /\ rcv'.in = rcv.in /\ rcv'.complete = rcv.complete
      BY <1>2, <1>6 DEF ReceiverSendEOB, OneMore, RcvStates
    <2>2. rcv.reob => rcv.in = NoFile /\ rcv.complete = NoFile
      BY DEF NoFileAfterEOB
    <2> QED BY <1>1, <2>1, <2>2, ListenStep
  <1>7. CASE ReceiverEndBatch
    <2>1. s2r' \in {s2r, <<>>}
      BY <1>7 DEF ReceiverEndBatch, ReceiverQuits
    <2>2. ~rcv'.reob
      <3>1. CASE rcv.msgs <= 2
        BY <1>7, <3>1 DEF ReceiverEndBatch, ReceiverQuits, RDown, RcvInit
      <3>2. CASE ~(rcv.msgs <= 2)
        BY <1>2, <1>7, <3>2 DEF ReceiverEndBatch, RcvStates
      <3> QED BY <3>1, <3>2
    <2> QED BY <1>1, <2>1, <2>2, ListenStep
  <1>8. CASE ReceiverDrop \/ ReceiverCrash \/ InbDoneFails
    <2>1. s2r' = <<>> /\ ~rcv'.reob
      BY <1>8 DEF ReceiverDrop, ReceiverCrash, InbDoneFails, ReceiverQuits, RDown, RcvInit
    <2> QED BY <1>1, <2>1, ListenStep
  <1> QED BY <1>3, <1>4, <1>5, <1>6, <1>7, <1>8 DEF ReceiverNext

LEMMA OtherKeepsEOB ==
    ASSUME IInv, Connect \/ Toss
    PROVE  NoFileAfterEOB'
  <1>1. CASE Connect
    <2>1. ~snd'.eob /\ ~rcv'.reob /\ s2r' = <<>>
      BY <1>1 DEF Connect, SndInit, RcvInit
    <2> QED BY <2>1 DEF NoFileAfterEOB
  <1>2. CASE Toss
    <2>1. UNCHANGED <<s2r, snd, rcv>>
      BY <1>2 DEF Toss
    <2> QED BY <2>1 DEF IInv, NoFileAfterEOB, Quiet, Sending
  <1> QED BY <1>1, <1>2

-----------------------------------------------------------------------------
(*                               Theorems                                  *)

LEMMA InitIInv == Init => IInv
  <1> SUFFICES ASSUME Init PROVE IInv
    OBVIOUS
  <1>1. /\ rcv.in = NoFile /\ rcv.complete = NoFile /\ ~rcv.reob /\ ~snd.eob
        /\ s2r = <<>> /\ r2s = <<>> /\ inbound = {}
    BY DEF Init, Down, RDown, SndInit, RcvInit
  <1>2. Acked = {}
    BY <1>1 DEF Acked
  <1> QED BY <1>1, <1>2, InitType
          DEF IInv, InOpen, CompleteHeld, InboundDelivered, GotHeld, NoFileAfterEOB

LEMMA NextIInv == IInv /\ EOBAlone /\ [Next]_vars => IInv'
  <1> SUFFICES ASSUME IInv, EOBAlone, [Next]_vars PROVE IInv'
    OBVIOUS
  <1>1. CASE SenderNext
    <2>1. NoFileAfterEOB'
      BY <1>1, SenderSendsEOB, SenderHearsEOB, GETEOB DEF SenderNext
    <2> QED BY <1>1, <2>1, SenderStep DEF IInv
  <1>2. CASE ReceiverNext
    <2>1. NoFileAfterEOB'
      BY <1>2, ReceiverKeepsEOB
    <2>2. CASE start_file_recv
      <3>1. CompleteHeld'
        BY <2>2, StartRecv DEF IInv, CompleteHeld
      <3> QED BY <2>1, <2>2, <3>1, StartRecv DEF IInv
    <2>3. CASE RecvData
      BY <2>1, <2>3, RecvDataStep DEF IInv
    <2>4. CASE ReceiverEOB
      <3>1. CompleteHeld' /\ InOpen'
        BY <2>4, RecvEOB DEF IInv, CompleteHeld, InOpen
      <3> QED BY <2>1, <2>4, <3>1, RecvEOB DEF IInv
    <2>5. CASE \/ ReceiverSendEOB \/ ReceiverEndBatch \/ ReceiverDrop
             \/ ReceiverCrash \/ InbDoneFails
      BY <2>1, <2>5, RecvEndStep DEF IInv
    <2> QED BY <1>2, <2>2, <2>3, <2>4, <2>5 DEF ReceiverNext
  <1>3. CASE Connect \/ Toss
    BY <1>3, OtherStep, OtherKeepsEOB DEF IInv
  <1>4. CASE UNCHANGED vars
    BY <1>4 DEF vars, IInv, TypeOK, InOpen, CompleteHeld, InboundDelivered, GotHeld,
       Acked, NoFileAfterEOB, Quiet, Sending
  <1> QED BY <1>1, <1>2, <1>3, <1>4 DEF Next

LEMMA AckedAreHeld == IInv => \A f \in Acked : f \in Files /\ (Held(f) \/ f \in refused)
  BY AckedFiles DEF IInv, GotHeld, Held

-----------------------------------------------------------------------------
(***************************************************************************)
(* The proof that every block the receiver writes belongs to the file it   *)
(* has open and continues it (DataBelongs of BinkpTransfer). A data frame  *)
(* names no file, so the invariant is about the whole stream: the frames   *)
(* under way continue each other from what the receiver has on disk, and   *)
(* what the sender sends next continues them (Chain). An M_GET moves the   *)
(* sender's position while older blocks may be under way; in ND mode that  *)
(* is harmless because the sender stops and waits for each answer          *)
(* (StopAndWait), in the other modes because the M_FILE that answers the   *)
(* M_GET is what makes the receiver take blocks again.                     *)
(***************************************************************************)

(* A frame after which the receiver may have the frame's file open: an     *)
(* M_FILE that gives an offset, or a block that is not the last. The next  *)
(* block of the file starts at At(m).                                      *)
Final(m) == m.f = NoFile \/ m.off + m.n = Size[m.f]
Opens(m) ==
    \/ m.t = "FILE" /\ m.off # -1
    \/ m.t = "DATA" /\ ~Final(m)
At(m) == m.off + m.n

(* A block of file f at offset o may follow frame m, may come to a         *)
(* receiver in state r with .dt files d, or may be sent after the frames s *)
(* that this receiver has not read.                                        *)
Joins(m, f, o) == Opens(m) => m.f = f /\ At(m) = o
Fits(r, d, f, o) == r.in # NoFile => r.in = f /\ d[r.in] = o
Tip(s, r, d, f, o) == IF s = <<>> THEN Fits(r, d, f, o) ELSE Joins(s[Len(s)], f, o)

InTransfer(st) == st.out # NoFile /\ ~st.status

(* The blocks under way continue each other from what the receiver has,    *)
(* and what the sender (state st) would send next continues them.          *)
Chain(s, r, d, st) ==
    /\ \A i \in 1..(Len(s) - 1) : s[i + 1].t = "DATA" =>
          Joins(s[i], s[i + 1].f, s[i + 1].off)
    /\ s # <<>> /\ s[1].t = "DATA" => Fits(r, d, s[1].f, s[1].off)
    /\ st.up /\ InTransfer(st) => Tip(s, r, d, st.out, st.pos)
    /\ st.up /\ ~InTransfer(st) /\ st.sendEof =>
          st.out # NoFile /\ Tip(s, r, d, st.out, Size[st.out])

(* ND mode is stop and wait until the receiver skips everything: there is  *)
(* at most one answer under way (q), only when everything sent has been read; *)
(* an M_GET states what the .dt has still, ...                             *)
Answers(q) == {i \in 1..Len(q) : q[i].t # "EOB"}

Fresh(f, o, r, d, inb) ==
    /\ o = d[f] /\ f \notin inb /\ r.rules[f] = "take"
    /\ r.in = NoFile /\ r.complete = NoFile

Answer(m, r, d, inb, st) ==
    \/ m.t = "GET" /\ st.offReq /\ m.f = st.out /\ Fresh(m.f, m.off, r, d, inb)
    \/ m.t = "GOT" /\ m.f \in {st.out} \cup st.sent
    \/ m.t = "SKIP" /\ st.offReq /\ m.f = st.out

Answered(s, q, r, d, inb, st) ==
    /\ \A i, j \in Answers(q) : i = j
    /\ Answers(q) # {} => /\ s = <<>> /\ r.in = NoFile
                          /\ ~st.sendEof /\ (st.offReq \/ st.waitGOT)
    /\ \A i \in Answers(q) : Answer(q[i], r, d, inb, st)

(* ... and so does the M_FILE that answers it, which is the first frame    *)
(* that is not read, while one that asks for the offset is the last, ...   *)
Announced(s, r, d, inb, st) ==
    \A i \in 1..Len(s) : s[i].t = "FILE" =>
        \/ s[i].off = -1 /\ i = Len(s) /\ st.offReq /\ s[i].f = st.out
        \/ s[i].off # -1 /\ i = 1 /\ Fresh(s[i].f, s[i].off, r, d, inb)

(* ... and only blocks of one file are under way, the last one of which    *)
(* makes the sender wait.                                                  *)
Blocks(s, st) ==
    \A i \in 1..Len(s) : s[i].t = "DATA" =>
        /\ ~st.offReq /\ (InTransfer(st) \/ st.waitGOT)
        /\ s[i].f \in {st.out} \cup st.sent
        /\ Final(s[i]) => i = Len(s) /\ st.waitGOT /\ ~st.sendEof

OneAtATime(st) ==
    /\ st.offReq => st.out # NoFile /\ st.sent = {} /\ ~st.waitGOT /\ ~st.sendEof
    /\ st.waitGOT => ~InTransfer(st)
    /\ st.sendEof => st.waitGOT /\ st.out # NoFile
    /\ st.sent # {} => st.waitGOT /\ st.out = NoFile
    /\ \A f, g \in st.sent : f = g

StopAndWait(s, q, r, d, inb, st) ==
    /\ Answered(s, q, r, d, inb, st)
    /\ Announced(s, r, d, inb, st)
    /\ Blocks(s, st)
    /\ OneAtATime(st)

DInv ==
    /\ rcv.in # NoFile => rcv.in \notin inbound /\ rcv.rules[rcv.in] = "take"
    /\ rcv.skipAll => rcv.in = NoFile /\ rcv.complete = NoFile
    /\ mode # "nd" => ~snd.sendEof
    /\ rcv.up /\ ~rcv.skipAll => Chain(s2r, rcv, dt, snd)
    /\ mode = "nd" /\ snd.up /\ rcv.up /\ ~rcv.skipAll =>
          StopAndWait(s2r, r2s, rcv, dt, inbound, snd)
-----------------------------------------------------------------------------
(*                               Frames                                    *)

LEMMA CommandFields ==
    ASSUME NEW m \in Commands
    PROVE  /\ m.t \in {"FILE", "DATA", "EOB"}
           /\ m.t = "FILE" => m.f \in Files /\ m.off \in Nat \cup {-1} /\ m.n = 0
           /\ m.t = "DATA" => m.f \in Files \cup {NoFile} /\ m.off \in Nat /\ m.n \in {0, 1}
  BY DEF Commands, M_EOB, Msg

LEMMA ReplyFields ==
    ASSUME NEW m \in Replies
    PROVE  /\ m.t \in {"GET", "GOT", "SKIP", "EOB"}
           /\ m.t # "EOB" => m.f \in Files /\ m.off \in Nat
  BY DEF Replies, M_EOB, Msg

(* The frames of the sender, as Joins and Final see them. *)
LEMMA SentFields ==
    ASSUME NEW f \in Files \cup {NoFile}, NEW o \in Nat \cup {-1}, NEW n \in {0, 1}
    PROVE  /\ M_FILE(f, o).t = "FILE" /\ M_FILE(f, o).f = f /\ M_FILE(f, o).off = o
           /\ M_FILE(f, o).n = 0
           /\ DATA(f, o, n).t = "DATA" /\ DATA(f, o, n).f = f /\ DATA(f, o, n).off = o
           /\ DATA(f, o, n).n = n
           /\ M_EOB.t = "EOB"
  BY DEF M_FILE, DATA, M_EOB, Msg

(* A stream after its first frame is read. *)
LEMMA TailIndex ==
    ASSUME NEW S, NEW s \in Seq(S), s # <<>>
    PROVE  /\ Len(s) \in Nat \ {0} /\ Tail(s) \in Seq(S)
           /\ Len(Tail(s)) = Len(s) - 1
           /\ \A i \in 1..Len(Tail(s)) : Tail(s)[i] = s[i + 1]
           /\ Tail(s) = <<>> <=> Len(s) = 1
           /\ Head(s) = s[1] /\ 1 \in 1..Len(s)
  <1>1. /\ Len(s) \in Nat \ {0} /\ Tail(s) \in Seq(S)
        /\ Len(Tail(s)) = Len(s) - 1
        /\ \A i \in 1..Len(Tail(s)) : Tail(s)[i] = s[i + 1]
        /\ Head(s) = s[1]
    OBVIOUS
  <1>2. Tail(s) = <<>> <=> Len(Tail(s)) = 0
    BY <1>1
  <1> QED BY <1>1, <1>2

(* ... and after one is sent. *)
LEMMA AppendIndex ==
    ASSUME NEW S, NEW s \in Seq(S), NEW e \in S
    PROVE  /\ Len(s) \in Nat /\ Append(s, e) \in Seq(S)
           /\ Len(Append(s, e)) = Len(s) + 1
           /\ \A i \in 1..Len(s) : Append(s, e)[i] = s[i]
           /\ Append(s, e)[Len(s) + 1] = e
           /\ Append(s, e) # <<>>
           /\ s = <<>> <=> Len(s) = 0
  OBVIOUS

-----------------------------------------------------------------------------
(*                  Blocks continue the file in reception                  *)

(* The sender sends a frame. *)
LEMMA SendChain ==
    ASSUME NEW s \in Seq(Commands), NEW r, NEW d, NEW st, NEW st2, Chain(s, r, d, st),
           NEW m \in Commands, m.t = "DATA" => Tip(s, r, d, m.f, m.off),
           InTransfer(st2) => Joins(m, st2.out, st2.pos),
           ~InTransfer(st2) /\ st2.sendEof =>
              st2.out # NoFile /\ Joins(m, st2.out, Size[st2.out])
    PROVE  Chain(Append(s, m), r, d, st2)
  <1> DEFINE z == Append(s, m)
  <1>1. /\ Len(s) \in Nat /\ Len(z) = Len(s) + 1
        /\ \A i \in 1..Len(s) : z[i] = s[i]
        /\ z[Len(s) + 1] = m
        /\ z # <<>>
        /\ s = <<>> <=> Len(s) = 0
    BY AppendIndex
  <1> HIDE DEF z
  <1>3. \A i \in 1..(Len(z) - 1) : z[i + 1].t = "DATA" =>
          Joins(z[i], z[i + 1].f, z[i + 1].off)
    <2> SUFFICES ASSUME NEW i \in 1..(Len(z) - 1), z[i + 1].t = "DATA"
                 PROVE  Joins(z[i], z[i + 1].f, z[i + 1].off)
      OBVIOUS
    <2>1. CASE i = Len(s)
      <3>1. s # <<>> /\ z[i] = s[Len(s)] /\ z[i + 1] = m
        BY <1>1, <2>1
      <3> QED BY <3>1 DEF Tip
    <2>2. CASE i # Len(s)
      <3>1. i \in 1..(Len(s) - 1) /\ z[i] = s[i] /\ z[i + 1] = s[i + 1]
        BY <1>1, <2>2
      <3> QED BY <3>1 DEF Chain
    <2> QED BY <2>1, <2>2
  <1>4. z[1].t = "DATA" => Fits(r, d, z[1].f, z[1].off)
    <2>1. CASE s = <<>>
      <3>1. z[1] = m
        BY <1>1, <2>1
      <3> QED BY <2>1, <3>1 DEF Tip
    <2>2. CASE s # <<>>
      <3>1. z[1] = s[1]
        BY <1>1, <2>2
      <3> QED BY <2>2, <3>1 DEF Chain
    <2> QED BY <2>1, <2>2
  <1>5. z[Len(z)] = m
    BY <1>1
  <1>6. \A f, o : Joins(m, f, o) => Tip(z, r, d, f, o)
    BY <1>1, <1>5 DEF Tip
  <1>7. Chain(z, r, d, st2)
    BY <1>3, <1>4, <1>6 DEF Chain
  <1> QED BY <1>7 DEF z

(* Nothing is sent, and the receiver reads nothing. *)
StillSends(st, st2) ==
    /\ st2.up => st.up
    /\ st2.up /\ InTransfer(st2) => InTransfer(st) /\ st2.out = st.out /\ st2.pos = st.pos
    /\ st2.up /\ ~InTransfer(st2) /\ st2.sendEof =>
          ~InTransfer(st) /\ st.sendEof /\ st2.out = st.out

LEMMA StillChain ==
    ASSUME NEW s, NEW r, NEW r2, NEW d, NEW st, NEW st2, Chain(s, r, d, st), r2.in = r.in,
           StillSends(st, st2)
    PROVE  Chain(s, r2, d, st2)
  <1>1. \A f, o : /\ Fits(r, d, f, o) => Fits(r2, d, f, o)
                  /\ Tip(s, r, d, f, o) => Tip(s, r2, d, f, o)
    BY DEF Fits, Tip
  <1>2. s # <<>> /\ s[1].t = "DATA" => Fits(r2, d, s[1].f, s[1].off)
    BY <1>1 DEF Chain
  <1>3. st2.up /\ InTransfer(st2) => Tip(s, r2, d, st2.out, st2.pos)
    BY <1>1 DEF Chain, StillSends
  <1>4. st2.up /\ ~InTransfer(st2) /\ st2.sendEof =>
          st2.out # NoFile /\ Tip(s, r2, d, st2.out, Size[st2.out])
    BY <1>1 DEF Chain, StillSends
  <1> QED BY <1>2, <1>3, <1>4 DEF Chain

(* The receiver reads a frame, and what it has open then is what the frame *)
(* says.                                                                   *)
LEMMA ReadChain ==
    ASSUME NEW s \in Seq(Commands), NEW r, NEW r2, NEW d, NEW d2, NEW st,
           Chain(s, r, d, st), s # <<>>,
           r2.in # NoFile => Opens(s[1]) /\ r2.in = s[1].f /\ d2[r2.in] = At(s[1])
    PROVE  Chain(Tail(s), r2, d2, st)
  <1> DEFINE z == Tail(s)
  <1>1. /\ Len(s) \in Nat \ {0} /\ Len(z) = Len(s) - 1
        /\ \A i \in 1..Len(z) : z[i] = s[i + 1]
        /\ z = <<>> <=> Len(s) = 1
    BY TailIndex
  <1> HIDE DEF z
  <1>2. \A f, o : Joins(s[1], f, o) => Fits(r2, d2, f, o)
    BY DEF Joins, Fits
  <1>3. \A i \in 1..(Len(z) - 1) : z[i + 1].t = "DATA" =>
          Joins(z[i], z[i + 1].f, z[i + 1].off)
    <2> SUFFICES ASSUME NEW i \in 1..(Len(z) - 1), z[i + 1].t = "DATA"
                 PROVE  Joins(z[i], z[i + 1].f, z[i + 1].off)
      OBVIOUS
    <2>1. i + 1 \in 1..(Len(s) - 1) /\ z[i] = s[i + 1] /\ z[i + 1] = s[(i + 1) + 1]
      BY <1>1
    <2> QED BY <2>1 DEF Chain
  <1>4. z # <<>> /\ z[1].t = "DATA" => Fits(r2, d2, z[1].f, z[1].off)
    <2> SUFFICES ASSUME z # <<>>, z[1].t = "DATA"
                 PROVE  Fits(r2, d2, z[1].f, z[1].off)
      OBVIOUS
    <2>1. 1 \in 1..(Len(s) - 1) /\ z[1] = s[1 + 1]
      BY <1>1
    <2>2. Joins(s[1], z[1].f, z[1].off)
      BY <2>1 DEF Chain
    <2> QED BY <1>2, <2>2
  <1>5. \A f, o : Tip(s, r, d, f, o) => Tip(z, r2, d2, f, o)
    <2> SUFFICES ASSUME NEW f, NEW o, Tip(s, r, d, f, o)
                 PROVE  Tip(z, r2, d2, f, o)
      OBVIOUS
    <2>1. Joins(s[Len(s)], f, o)
      BY DEF Tip
    <2>2. CASE z = <<>>
      <3>1. Fits(r2, d2, f, o)
        BY <1>1, <1>2, <2>1, <2>2
      <3> QED BY <2>2, <3>1 DEF Tip
    <2>3. CASE z # <<>>
      <3>1. z[Len(z)] = s[Len(s)]
        BY <1>1, <2>3
      <3> QED BY <2>1, <2>3, <3>1 DEF Tip
    <2> QED BY <2>2, <2>3
  <1>6. Chain(z, r2, d2, st)
    BY <1>3, <1>4, <1>5 DEF Chain
  <1> QED BY <1>6 DEF z
-----------------------------------------------------------------------------
(*                     What the sender's steps change                      *)

LEMMA SendingIs == Sending <=> InTransfer(snd)
  BY DEF Sending, InTransfer

LEMMA ReadFields ==
    ASSUME TypeOK
    PROVE  /\ Read \in SndStates
           /\ Read.up = snd.up /\ Read.out = snd.out /\ Read.status = snd.status
           /\ Read.pos = snd.pos /\ Read.offReq = snd.offReq /\ Read.waitGOT = snd.waitGOT
           /\ Read.sendEof = snd.sendEof /\ Read.sent = snd.sent
  BY OneMoreSnd DEF Read, TypeOK

LEMMA AnnounceFields ==
    ASSUME TypeOK, StartFile \/ StartStatus
    PROVE  \E f \in Files, b \in BOOLEAN :
              /\ snd'.out = f /\ snd'.status = b /\ snd'.pos = 0
              /\ snd'.offReq = we_nr /\ snd'.waitGOT = FALSE
              /\ snd'.sendEof = snd.sendEof /\ snd'.sent = snd.sent
              /\ s2r' = ToR(M_FILE(f, IF we_nr THEN -1 ELSE IF b THEN Size[f] ELSE 0))
              /\ r2s' = r2s
  <1>0. snd \in SndStates
    BY DEF TypeOK
  <1>1. ASSUME NEW f \in Files, NEW b \in BOOLEAN, NEW rest \in SndStates,
               rest.sendEof = snd.sendEof, rest.sent = snd.sent, Announce(f, b, rest)
        PROVE  /\ snd'.out = f /\ snd'.status = b /\ snd'.pos = 0
               /\ snd'.offReq = we_nr /\ snd'.waitGOT = FALSE
               /\ snd'.sendEof = snd.sendEof /\ snd'.sent = snd.sent
               /\ s2r' = ToR(M_FILE(f, IF we_nr THEN -1 ELSE IF b THEN Size[f] ELSE 0))
    BY <1>1 DEF Announce, OneMore, SndStates
  <1>2. CASE StartFile
    <2>1. PICK f \in snd.q : Announce(f, FALSE, [snd EXCEPT !.q = @ \ {f}])
      BY <1>2 DEF StartFile
    <2> DEFINE rest == [snd EXCEPT !.q = @ \ {f}]
    <2>2. f \in Files /\ rest \in SndStates /\ rest.sendEof = snd.sendEof /\ rest.sent = snd.sent
      BY <1>0 DEF SndStates
    <2>3. r2s' = r2s
      BY <1>2 DEF StartFile
    <2> HIDE DEF rest
    <2>4. Announce(f, FALSE, rest)
      BY <2>1 DEF rest
    <2> QED BY <1>1, <2>2, <2>3, <2>4
  <1>3. CASE StartStatus
    <2> DEFINE rest == [snd EXCEPT !.qs = NoFile]
    <2>1. snd.qs \in Files /\ Announce(snd.qs, TRUE, rest) /\ r2s' = r2s
      BY <1>0, <1>3 DEF StartStatus, SndStates
    <2>2. rest \in SndStates /\ rest.sendEof = snd.sendEof /\ rest.sent = snd.sent
      BY <1>0 DEF SndStates
    <2> HIDE DEF rest
    <2> QED BY <1>1, <2>1, <2>2
  <1> QED BY <1>2, <1>3

LEMMA SendDataFields ==
    ASSUME TypeOK, SendData
    PROVE  \E n \in {0, 1} :
              /\ snd.out \in Files /\ snd.pos \in Nat
              /\ s2r' = ToR(DATA(snd.out, snd.pos, n)) /\ r2s' = r2s
              /\ snd'.offReq = snd.offReq /\ snd'.sendEof = snd.sendEof
              /\ snd'.status = snd.status
              /\ \/ /\ snd.pos + n = Size[snd.out]
                    /\ snd'.out = NoFile /\ snd'.sent = snd.sent \cup {snd.out}
                    /\ snd'.waitGOT = (we_nd \/ snd.waitGOT)
                 \/ /\ snd.pos + n # Size[snd.out]
                    /\ snd'.out = snd.out /\ snd'.sent = snd.sent
                    /\ snd'.pos = snd.pos + n /\ snd'.waitGOT = snd.waitGOT
  <1> DEFINE n == IF snd.pos < Size[snd.out] THEN 1 ELSE 0
  <1>1. /\ snd \in SndStates /\ snd.out \in Files /\ snd.pos \in Nat /\ n \in {0, 1}
        /\ s2r' = ToR(DATA(snd.out, snd.pos, n)) /\ r2s' = r2s
    BY DEF SendData, Sending, TypeOK, SndStates
  <1>2. snd' = IF snd.pos + n = Size[snd.out]
               THEN [snd EXCEPT !.out = NoFile, !.pos = 0, !.sent = @ \cup {snd.out},
                                !.waitGOT = we_nd \/ @]
               ELSE [snd EXCEPT !.pos = @ + n]
    BY DEF SendData
  <1> HIDE DEF n
  <1>3. CASE snd.pos + n = Size[snd.out]
    <2>1. /\ snd'.out = NoFile /\ snd'.sent = snd.sent \cup {snd.out}
          /\ snd'.offReq = snd.offReq /\ snd'.sendEof = snd.sendEof /\ snd'.status = snd.status
      BY <1>1, <1>2, <1>3 DEF SndStates
    <2>2. snd'.waitGOT = (we_nd \/ snd.waitGOT)
      BY <1>1, <1>2, <1>3 DEF SndStates
    <2> QED BY <1>1, <1>3, <2>1, <2>2
  <1>4. CASE snd.pos + n # Size[snd.out]
    <2>1. /\ snd'.out = snd.out /\ snd'.sent = snd.sent /\ snd'.pos = snd.pos + n
          /\ snd'.waitGOT = snd.waitGOT
          /\ snd'.offReq = snd.offReq /\ snd'.sendEof = snd.sendEof /\ snd'.status = snd.status
      BY <1>1, <1>2, <1>4 DEF SndStates
    <2> QED BY <1>1, <1>4, <2>1
  <1> QED BY <1>3, <1>4

(* M_GET: the status is let finish or forgotten, or the file goes on from  *)
(* the offset asked for, or the session is dropped.                        *)
LEMMA GETFields ==
    ASSUME TypeOK, GET
    PROVE  LET m == Head(r2s) IN
           \/ /\ s2r' = ToR(M_FILE(m.f, m.off)) /\ r2s' = Tail(r2s)
              /\ snd'.offReq = FALSE
              /\ \/ /\ we_nd /\ m.off = Size[m.f] /\ snd.offReq
                    /\ snd'.out = m.f /\ snd'.status = TRUE /\ snd'.sent = snd.sent
                    /\ snd'.sendEof = TRUE /\ snd'.waitGOT = TRUE
                 \/ /\ snd.offReq /\ snd'.out = NoFile /\ snd'.sent = snd.sent
                    /\ snd'.sendEof = snd.sendEof /\ snd'.waitGOT = (snd.waitGOT /\ ~we_nd)
                 \/ /\ m.off <= Size[m.f]
                    /\ snd'.out = m.f /\ snd'.status = FALSE /\ snd'.pos = m.off
                    /\ m.f \notin snd.sent => snd'.sent = snd.sent
                    /\ snd'.sendEof = snd.sendEof /\ snd'.waitGOT = (snd.waitGOT /\ ~we_nd)
           \/ snd' = Down /\ s2r' = s2r
  <1> DEFINE m == Head(r2s)
             st == GETReopen(m.f)
  <1>1. m.f \in Files /\ m.off \in Nat
    BY SenderHead DEF GET
  <1>2. st \in SndStates
    BY <1>1, GETReopenType
  <1>3. /\ st.waitGOT = snd.waitGOT /\ st.offReq = snd.offReq /\ st.sendEof = snd.sendEof
        /\ st.status => m.f \notin snd.sent
        /\ m.f \notin snd.sent => st.sent = snd.sent
    <2>1. CASE m.f \notin snd.sent
      BY <2>1, ReadFields DEF GETReopen
    <2>2. CASE m.f \in snd.sent
      <3> DEFINE S == (Read.sent \ {m.f}) \cup IF Sending THEN {snd.out} ELSE {}
                 o == IF m.f \in spool THEN m.f ELSE NoFile
      <3>1. st = [Read EXCEPT !.sent = S, !.out = o, !.status = FALSE, !.pos = 0]
        BY <2>2 DEF GETReopen
      <3> HIDE DEF S, o, st
      <3> QED BY <2>2, <3>1, ReadFields DEF SndStates
    <2> QED BY <2>1, <2>2
  <1> HIDE DEF st
  <1>4. CASE GETStatusAtEnd(m, st) /\ st.out = m.f /\ st.status /\ st.offReq
    <2>1. snd' = OneMore([st EXCEPT !.sendEof = TRUE, !.waitGOT = TRUE, !.offReq = FALSE])
      BY <1>4 DEF GETStatusAtEnd
    <2>2. /\ snd'.sendEof = TRUE /\ snd'.waitGOT = TRUE /\ snd'.offReq = FALSE
          /\ snd'.out = st.out /\ snd'.status = st.status /\ snd'.sent = st.sent
      BY <1>2, <2>1 DEF OneMore, SndStates
    <2>3. st.status = TRUE
      BY <1>2, <1>4 DEF SndStates
    <2> QED BY <1>3, <1>4, <2>2, <2>3 DEF GETStatusAtEnd
  <1>5. CASE GETStatusElse(m, st) /\ st.out = m.f /\ st.status /\ st.offReq
    <2> DEFINE x == [st EXCEPT !.out = NoFile, !.status = FALSE]
    <2>1. /\ x \in SndStates /\ x.out = NoFile /\ x.sent = st.sent
          /\ x.sendEof = st.sendEof /\ x.waitGOT = st.waitGOT
      BY <1>2 DEF SndStates
    <2>2. snd' = OneMore(GETTail(x))
      BY <1>5 DEF GETStatusElse
    <2> HIDE DEF x
    <2>3. /\ snd'.out = x.out /\ snd'.sent = x.sent /\ snd'.sendEof = x.sendEof
          /\ snd'.offReq = FALSE
      BY <2>1, <2>2 DEF GETTail, OneMore, SndStates
    <2>4. snd'.waitGOT = (x.waitGOT /\ ~we_nd)
      BY <2>1, <2>2 DEF GETTail, OneMore, SndStates
    <2> QED BY <1>3, <1>5, <2>1, <2>3, <2>4 DEF GETStatusElse
  <1>6. CASE GETFile(m, st) /\ st.out = m.f /\ ~st.status
    <2> DEFINE x == [st EXCEPT !.pos = m.off]
    <2>1. /\ x \in SndStates /\ x.out = st.out /\ x.status = st.status /\ x.sent = st.sent
          /\ x.sendEof = st.sendEof /\ x.waitGOT = st.waitGOT /\ x.pos = m.off
      BY <1>1, <1>2 DEF SndStates
    <2>2. snd' = OneMore(GETTail(x))
      BY <1>6 DEF GETFile
    <2> HIDE DEF x
    <2>3. /\ snd'.out = x.out /\ snd'.sent = x.sent /\ snd'.sendEof = x.sendEof
          /\ snd'.status = x.status /\ snd'.pos = x.pos /\ snd'.offReq = FALSE
      BY <2>1, <2>2 DEF GETTail, OneMore, SndStates
    <2>4. snd'.waitGOT = (x.waitGOT /\ ~we_nd)
      BY <2>1, <2>2 DEF GETTail, OneMore, SndStates
    <2>5. st.status = FALSE
      BY <1>2, <1>6 DEF SndStates
    <2> QED BY <1>3, <1>6, <2>1, <2>3, <2>4, <2>5 DEF GETFile
  <1>7. CASE GETDrop(st)
    BY <1>7 DEF GETDrop, SenderQuits
  <1> QED BY <1>4, <1>5, <1>6, <1>7 DEF GET, st

LEMMA GOTFields ==
    ASSUME TypeOK, GOT
    PROVE  LET m == Head(r2s) IN
           /\ r2s' = Tail(r2s) /\ s2r' = s2r /\ snd'.sendEof = snd.sendEof
           /\ \/ /\ m.f = snd.out /\ snd'.out = NoFile /\ snd'.sent = snd.sent
                 /\ snd'.waitGOT = FALSE /\ snd'.offReq = FALSE
              \/ /\ m.f # snd.out /\ snd'.out = snd.out /\ snd'.status = snd.status
                 /\ snd'.pos = snd.pos /\ snd'.offReq = snd.offReq
                 /\ \/ m.f \in snd.sent /\ snd'.sent = snd.sent \ {m.f} /\ snd'.waitGOT = FALSE
                    \/ m.f \notin snd.sent /\ snd'.sent = snd.sent /\ snd'.waitGOT = snd.waitGOT
  <1> DEFINE m == Head(r2s)
  <1>1. m.f \in Files /\ r2s' = Tail(r2s) /\ s2r' = s2r /\ snd' = GOTState(m)
    BY SenderHead DEF GOT
  <1>2. CASE GOTOut(m)
    <2>1. snd' = [Read EXCEPT !.out = NoFile, !.status = FALSE, !.pos = 0, !.ndAddr = TRUE,
                              !.waitGOT = FALSE, !.offReq = FALSE]
      BY <1>1, <1>2 DEF GOTState, GOTSent
    <2>2. /\ snd'.out = NoFile /\ snd'.sent = Read.sent /\ snd'.sendEof = Read.sendEof
          /\ snd'.waitGOT = FALSE /\ snd'.offReq = FALSE
      BY <2>1, ReadFields DEF SndStates
    <2> QED BY <1>1, <1>2, <2>2, ReadFields DEF GOTOut
  <1>3. CASE GOTSent(m)
    <2>1. snd' = [Read EXCEPT !.sent = @ \ {m.f}, !.ndAddr = TRUE, !.waitGOT = FALSE]
      BY <1>1, <1>3 DEF GOTState, GOTSent
    <2>2. /\ snd'.sent = Read.sent \ {m.f} /\ snd'.sendEof = Read.sendEof
          /\ snd'.out = Read.out /\ snd'.status = Read.status /\ snd'.pos = Read.pos
          /\ snd'.waitGOT = FALSE /\ snd'.offReq = Read.offReq
      BY <2>1, ReadFields DEF SndStates
    <2> QED BY <1>1, <1>3, <2>2, ReadFields DEF GOTSent, GOTOut
  <1>4. CASE ~GOTOut(m) /\ ~GOTSent(m)
    <2>1. snd' = Read
      BY <1>1, <1>4 DEF GOTState
    <2> QED BY <1>1, <1>4, <2>1, ReadFields DEF GOTSent, GOTOut
  <1> QED BY <1>2, <1>3, <1>4

LEMMA SKIPFields ==
    ASSUME TypeOK, SKIP, snd' # Down
    PROVE  /\ s2r' = s2r /\ snd'.sendEof = snd.sendEof /\ snd'.status = snd.status
           /\ \/ snd'.out = NoFile
              \/ snd'.out = snd.out /\ snd'.pos = snd.pos
           /\ snd'.sent = snd.sent \ {Head(r2s).f} /\ r2s' = Tail(r2s)
           /\ Head(r2s).f = snd.out => snd'.out = NoFile
           /\ we_nr => ~snd'.offReq /\ ~snd'.waitGOT
  <1> DEFINE f == Head(r2s).f
             o == IF Read.out = f THEN NoFile ELSE Read.out
             p == IF snd.out = f THEN 0 ELSE Read.pos
             w == Read.waitGOT /\ ~we_nr
             rq == Read.offReq /\ ~we_nr
  <1>1. snd' = SKIPState(f) /\ s2r' = s2r /\ r2s' = Tail(r2s)
    BY DEF SKIP, SenderQuits
  <1>2. SKIPState(f) = [Read EXCEPT !.sent = @ \ {f}, !.ndAddr = FALSE, !.out = o,
                                    !.pos = p, !.waitGOT = w, !.offReq = rq]
    BY DEF SKIPState
  <1>3. /\ o = NoFile \/ (o = Read.out /\ p = Read.pos)
        /\ f = snd.out => o = NoFile
        /\ we_nr => ~w /\ ~rq
    BY ReadFields
  <1> HIDE DEF o, p, w, rq
  <1>4. /\ snd'.sendEof = Read.sendEof /\ snd'.status = Read.status
        /\ snd'.out = o /\ snd'.pos = p /\ snd'.sent = Read.sent \ {f}
    BY <1>1, <1>2, ReadFields DEF SndStates
  <1>5. snd'.waitGOT = w /\ snd'.offReq = rq
    BY <1>1, <1>2, ReadFields DEF SndStates
  <1> QED BY <1>1, <1>3, <1>4, <1>5, ReadFields
-----------------------------------------------------------------------------
(*                  The sender's blocks continue each other                *)

(* The empty block of a status is owed only by a sender that waits for the *)
(* answer to it.                                                           *)
LEMMA NoEof ==
    ASSUME TypeOK, DInv, rcv.up, ~rcv.skipAll, snd.up
    PROVE  /\ ~snd.waitGOT => ~snd.sendEof
           /\ InTransfer(snd) => ~snd.sendEof
           /\ r2s # <<>> /\ Head(r2s).t # "EOB" => ~snd.sendEof
  <1>1. CASE mode # "nd"
    BY <1>1 DEF DInv
  <1>2. CASE mode = "nd"
    <2>1. OneAtATime(snd) /\ Answered(s2r, r2s, rcv, dt, inbound, snd)
      BY <1>2 DEF DInv, StopAndWait
    <2>2. r2s # <<>> /\ Head(r2s).t # "EOB" => 1 \in Answers(r2s)
      BY TailIndex DEF TypeOK, Answers
    <2> QED BY <2>1, <2>2 DEF OneAtATime, Answered
  <1> QED BY <1>1, <1>2

LEMMA SendsChain ==
    ASSUME IInv, DInv, rcv.up, ~rcv.skipAll, UNCHANGED <<rcv, dt>>,
           StartFile \/ StartStatus \/ SendData \/ SendStatusEof \/ SendEOB
    PROVE  Chain(s2r', rcv', dt', snd')
  <1>1. /\ TypeOK /\ s2r \in Seq(Commands) /\ snd \in SndStates
        /\ Chain(s2r, rcv, dt, snd)
    BY DEF IInv, TypeOK, DInv
  <1>2. snd.up
    BY DEF StartFile, StartStatus, SendData, SendStatusEof, SendEOB, MayStart
  <1>3. ASSUME NEW m \in Commands, s2r' = ToR(m),
               m.t = "DATA" => Tip(s2r, rcv, dt, m.f, m.off),
               InTransfer(snd') => Joins(m, snd'.out, snd'.pos),
               ~InTransfer(snd') => ~snd'.sendEof
        PROVE  Chain(s2r', rcv', dt', snd')
    <2>1. s2r' = Append(s2r, m)
      BY <1>3 DEF ToR
    <2> QED BY <1>1, <1>3, <2>1, SendChain
  <1>4. CASE StartFile \/ StartStatus
    <2>1. PICK f \in Files, b \in BOOLEAN :
             /\ snd'.out = f /\ snd'.status = b /\ snd'.pos = 0
             /\ snd'.sendEof = snd.sendEof
             /\ s2r' = ToR(M_FILE(f, IF we_nr THEN -1 ELSE IF b THEN Size[f] ELSE 0))
      BY <1>1, <1>4, AnnounceFields
    <2> DEFINE o == IF we_nr THEN -1 ELSE IF b THEN Size[f] ELSE 0
    <2>2. o \in Nat \cup {-1}
      BY FilesAssumption
    <2>3. M_FILE(f, o) \in Commands
      BY <2>2, FrameType
    <2>4. ~snd.sendEof
      BY <1>1, <1>2, <1>4, NoEof DEF StartFile, StartStatus, MayStart
    <2>5. InTransfer(snd') => Joins(M_FILE(f, o), snd'.out, snd'.pos)
      <3> SUFFICES ASSUME ~b, o # -1
                   PROVE  Joins(M_FILE(f, o), f, 0)
        BY <2>1, <2>2, SentFields DEF Joins, Opens, InTransfer
      <3> QED BY <2>2, SentFields DEF Joins, At
    <2>6. M_FILE(f, o).t # "DATA"
      BY <2>2, SentFields
    <2> HIDE DEF o
    <2>7. s2r' = ToR(M_FILE(f, o))
      BY <2>1 DEF o
    <2> QED BY <1>3, <2>1, <2>3, <2>4, <2>5, <2>6, <2>7
  <1>5. CASE SendData
    <2>1. PICK n \in {0, 1} :
             /\ snd.out \in Files /\ snd.pos \in Nat
             /\ s2r' = ToR(DATA(snd.out, snd.pos, n))
             /\ snd'.sendEof = snd.sendEof
             /\ \/ snd'.out = NoFile
                \/ snd'.out = snd.out /\ snd'.pos = snd.pos + n
      BY <1>1, <1>5, SendDataFields
    <2> DEFINE m == DATA(snd.out, snd.pos, n)
    <2>2. m \in Commands /\ m.f = snd.out /\ m.off = snd.pos /\ m.n = n
      BY <2>1, FrameType, SentFields
    <2>3. InTransfer(snd)
      BY <1>5, SendingIs DEF SendData
    <2>4. Tip(s2r, rcv, dt, snd.out, snd.pos)
      BY <1>1, <1>2, <2>3 DEF Chain
    <2>5. ~snd'.sendEof
      BY <1>1, <1>2, <2>1, <2>3, NoEof
    <2> HIDE DEF m
    <2>6. InTransfer(snd') => Joins(m, snd'.out, snd'.pos)
      BY <2>1, <2>2 DEF Joins, At, InTransfer
    <2>7. s2r' = ToR(m)
      BY <2>1 DEF m
    <2> QED BY <1>3, <2>2, <2>4, <2>5, <2>6, <2>7
  <1>6. CASE SendStatusEof
    <2>1. ~InTransfer(snd) /\ snd.sendEof
      BY <1>6, SendingIs DEF SendStatusEof
    <2>2. snd.out # NoFile /\ Tip(s2r, rcv, dt, snd.out, Size[snd.out])
      BY <1>1, <1>2, <2>1 DEF Chain
    <2> DEFINE m == DATA(snd.out, Size[snd.out], 0)
    <2>3. snd.out \in Files /\ Size[snd.out] \in Nat
      BY <1>1, <2>2, FilesAssumption DEF SndStates
    <2>4. m \in Commands /\ m.f = snd.out /\ m.off = Size[snd.out]
      BY <2>3, FrameType, SentFields
    <2>5. ~snd'.sendEof /\ snd'.out = snd.out /\ snd'.status = snd.status
      BY <1>1, <1>6 DEF SendStatusEof, SndStates
    <2>6. ~InTransfer(snd')
      BY <2>1, <2>5 DEF InTransfer
    <2>7. s2r' = ToR(m)
      BY <1>6, <2>2 DEF SendStatusEof
    <2> HIDE DEF m
    <2> QED BY <1>3, <2>2, <2>4, <2>5, <2>6, <2>7
  <1>7. CASE SendEOB
    <2>1. s2r' = ToR(M_EOB) /\ M_EOB \in Commands /\ M_EOB.t = "EOB"
      BY <1>7, FrameType DEF SendEOB, M_EOB, Msg
    <2>2. /\ snd'.sendEof = snd.sendEof /\ snd'.out = snd.out /\ snd'.status = snd.status
          /\ snd'.pos = snd.pos
      BY <1>1, <1>7 DEF SendEOB, OneMore, SndStates
    <2>3. ~snd.sendEof /\ ~InTransfer(snd)
      BY <1>1, <1>2, <1>7, NoEof, SendingIs DEF SendEOB, MayStart
    <2>4. ~InTransfer(snd')
      BY <2>2, <2>3 DEF InTransfer
    <2> QED BY <1>3, <2>1, <2>2, <2>3, <2>4
  <1> QED BY <1>4, <1>5, <1>6, <1>7

LEMMA HearsChain ==
    ASSUME IInv, DInv, rcv.up, ~rcv.skipAll, UNCHANGED <<rcv, dt>>,
           \/ SenderEndBatch \/ GET \/ GOT \/ GOTCrash \/ GOTStcFails \/ SKIP
           \/ SenderEOB \/ SenderDrop
    PROVE  Chain(s2r', rcv', dt', snd')
  <1>1. /\ TypeOK /\ s2r \in Seq(Commands) /\ r2s \in Seq(Replies) /\ snd \in SndStates
        /\ Chain(s2r, rcv, dt, snd)
    BY DEF IInv, TypeOK, DInv
  <1>2. snd.up
    BY DEF SenderEndBatch, GET, GOT, GOTCrash, GOTStcFails, SKIP, SenderEOB, SenderDrop,
       SenderReads
  <1>3. ASSUME s2r' = s2r, StillSends(snd, snd')
        PROVE  Chain(s2r', rcv', dt', snd')
    BY <1>1, <1>3, StillChain
  <1>4. CASE snd' = Down /\ s2r' = s2r
    <2>1. StillSends(snd, snd')
      BY <1>4 DEF StillSends, Down, SndInit
    <2> QED BY <1>3, <1>4, <2>1
  <1>5. GOTCrash \/ GOTStcFails \/ SenderDrop => snd' = Down /\ s2r' = s2r
    BY DEF GOTCrash, GOTStcFails, SenderDrop, SenderQuits
  <1>6. CASE SenderEndBatch
    <2>1. s2r' = s2r /\ (snd' = Down \/ snd' = [snd EXCEPT !.msgs = 0, !.eob = FALSE, !.reob = FALSE])
      BY <1>6 DEF SenderEndBatch
    <2>2. CASE snd' # Down
      <3>1. /\ snd'.up = snd.up /\ snd'.out = snd.out /\ snd'.status = snd.status
            /\ snd'.pos = snd.pos /\ snd'.sendEof = snd.sendEof
        BY <1>1, <2>1, <2>2 DEF SndStates
      <3> QED BY <1>2, <1>3, <2>1, <3>1 DEF StillSends, InTransfer
    <2> QED BY <1>4, <2>1, <2>2
  <1>7. CASE SenderEOB
    <2>1. s2r' = s2r /\ snd' = [Read EXCEPT !.reob = TRUE]
      BY <1>7 DEF SenderEOB
    <2>2. /\ snd'.up = Read.up /\ snd'.out = Read.out /\ snd'.status = Read.status
          /\ snd'.pos = Read.pos /\ snd'.sendEof = Read.sendEof
      BY <1>1, <2>1, ReadFields DEF SndStates
    <2> QED BY <1>1, <1>2, <1>3, <2>1, <2>2, ReadFields DEF StillSends, InTransfer
  <1>8. CASE GET
    <2> DEFINE m == Head(r2s)
    <2>1. m.f \in Files /\ m.off \in Nat
      BY <1>1, <1>8, SenderHead DEF GET
    <2>2. ~snd.sendEof
      BY <1>1, <1>2, <1>8, NoEof DEF GET, SenderReads
    <2>3. M_FILE(m.f, m.off) \in Commands
      BY <2>1, FrameType
    <2>4. CASE ~(snd' = Down /\ s2r' = s2r)
      <3> DEFINE z == M_FILE(m.f, m.off)
      <3>1. s2r' = Append(s2r, z)
        BY <1>1, <1>8, <2>4, GETFields DEF ToR
      <3>2. z.t = "FILE" /\ z.f = m.f /\ z.off = m.off /\ z.n = 0
        BY <2>1, SentFields
      <3>3. InTransfer(snd') => snd'.out = m.f /\ snd'.pos = m.off
        BY <1>1, <1>8, <2>4, GETFields DEF InTransfer
      <3>4. snd'.sendEof => snd'.out = m.f /\ Size[m.f] = m.off
        BY <1>1, <1>8, <2>2, <2>4, GETFields
      <3> HIDE DEF z
      <3>5. InTransfer(snd') => Joins(z, snd'.out, snd'.pos)
        BY <2>1, <3>2, <3>3 DEF Joins, At
      <3>6. snd'.sendEof => snd'.out # NoFile /\ Joins(z, snd'.out, Size[snd'.out])
        BY <2>1, <3>2, <3>4, FilesAssumption DEF Joins, At
      <3>7. z \in Commands
        BY <2>3 DEF z
      <3>8. Chain(Append(s2r, z), rcv, dt, snd')
        BY <1>1, <3>2, <3>5, <3>6, <3>7, SendChain
      <3> QED BY <3>1, <3>8
    <2> QED BY <1>4, <2>4
  <1>9. CASE GOT
    <2>1. ~snd.sendEof
      BY <1>1, <1>2, <1>9, NoEof DEF GOT, SenderReads
    <2>2. /\ s2r' = s2r /\ snd'.sendEof = snd.sendEof
          /\ \/ snd'.out = NoFile
             \/ snd'.out = snd.out /\ snd'.status = snd.status /\ snd'.pos = snd.pos
      BY <1>1, <1>9, GOTFields
    <2> QED BY <1>2, <1>3, <2>1, <2>2 DEF StillSends, InTransfer
  <1>10. CASE SKIP
    <2>1. ~snd.sendEof
      BY <1>1, <1>2, <1>10, NoEof DEF SKIP, SenderReads
    <2>2. CASE snd' # Down
      BY <1>1, <1>2, <1>3, <1>10, <2>1, <2>2, SKIPFields DEF StillSends, InTransfer
    <2>3. s2r' = s2r
      BY <1>10 DEF SKIP
    <2> QED BY <1>4, <2>2, <2>3
  <1> QED BY <1>4, <1>5, <1>6, <1>7, <1>8, <1>9, <1>10
-----------------------------------------------------------------------------
(*                    Stop and wait: the sender's steps                    *)

(* One file at a time is on its way in a session in ND mode. *)
Stops == StopAndWait(s2r, r2s, rcv, dt, inbound, snd)
Paced == mode = "nd" /\ snd.up /\ rcv.up /\ ~rcv.skipAll

LEMMA StopParts ==
    ASSUME IInv, DInv, Paced
    PROVE  /\ TypeOK /\ s2r \in Seq(Commands) /\ r2s \in Seq(Replies) /\ snd \in SndStates
           /\ Answered(s2r, r2s, rcv, dt, inbound, snd)
           /\ Announced(s2r, rcv, dt, inbound, snd)
           /\ Blocks(s2r, snd) /\ OneAtATime(snd)
           /\ we_nd /\ we_nr
  BY DEF IInv, TypeOK, DInv, Paced, StopAndWait, we_nd, we_nr

(* A sender that may start a file has nothing under way that is answered.  *)
LEMMA AtRest ==
    ASSUME IInv, DInv, Paced, MayStart
    PROVE  /\ Answers(r2s) = {} /\ snd.sent = {} /\ ~snd.sendEof
           /\ \A i \in 1..Len(s2r) : s2r[i].t # "DATA"
           /\ \A i \in 1..Len(s2r) : s2r[i].t = "FILE" =>
                 s2r[i].off # -1 /\ i = 1 /\ Fresh(s2r[i].f, s2r[i].off, rcv, dt, inbound)
  <1>1. ~InTransfer(snd) /\ ~snd.waitGOT /\ ~snd.offReq
    BY SendingIs DEF MayStart
  <1>2. Answers(r2s) = {} /\ snd.sent = {} /\ ~snd.sendEof
    BY <1>1, StopParts DEF Answered, OneAtATime
  <1>3. \A i \in 1..Len(s2r) : s2r[i].t # "DATA"
    BY <1>1, StopParts DEF Blocks
  <1> QED BY <1>1, <1>2, <1>3, StopParts DEF Announced

LEMMA NoAnswers ==
    ASSUME NEW s, NEW q, NEW r, NEW d, NEW inb, NEW st, Answers(q) = {}
    PROVE  Answered(s, q, r, d, inb, st)
  BY DEF Answered

(* An answer is read: an M_EOB, or the only one there is. *)
LEMMA AnswerRead ==
    ASSUME NEW q \in Seq(Replies), q # <<>>, NEW s, NEW r, NEW d, NEW inb, NEW st,
           Answered(s, q, r, d, inb, st)
    PROVE  /\ Answered(s, Tail(q), r, d, inb, st)
           /\ q[1].t # "EOB" =>
                 /\ Answers(Tail(q)) = {} /\ s = <<>> /\ ~st.sendEof /\ r.in = NoFile
                 /\ Answer(q[1], r, d, inb, st)
  <1>1. /\ Len(q) \in Nat \ {0} /\ Len(Tail(q)) = Len(q) - 1
        /\ \A i \in 1..Len(Tail(q)) : Tail(q)[i] = q[i + 1]
    BY TailIndex
  <1>2. \A i \in Answers(Tail(q)) : i \in Nat /\ i + 1 \in Answers(q) /\ Tail(q)[i] = q[i + 1]
    BY <1>1 DEF Answers
  <1>3. \A i, j \in Answers(Tail(q)) : i = j
    <2> SUFFICES ASSUME NEW i \in Answers(Tail(q)), NEW j \in Answers(Tail(q))
                 PROVE  i = j
      OBVIOUS
    <2>1. i + 1 = j + 1
      BY <1>2 DEF Answered
    <2> QED BY <1>2, <2>1
  <1>4. Answers(Tail(q)) # {} => Answers(q) # {}
    BY <1>2
  <1>5. \A i \in Answers(Tail(q)) : Answer(Tail(q)[i], r, d, inb, st)
    BY <1>2 DEF Answered
  <1>6. Answered(s, Tail(q), r, d, inb, st)
    BY <1>3, <1>4, <1>5 DEF Answered
  <1>7. ASSUME q[1].t # "EOB"
        PROVE  /\ Answers(Tail(q)) = {} /\ s = <<>> /\ ~st.sendEof /\ r.in = NoFile
               /\ Answer(q[1], r, d, inb, st)
    <2>1. 1 \in Answers(q)
      BY <1>1, <1>7 DEF Answers
    <2>2. \A i \in Answers(Tail(q)) : FALSE
      <3> SUFFICES ASSUME NEW i \in Answers(Tail(q)) PROVE FALSE
        OBVIOUS
      <3>1. i + 1 = 1 /\ i \in Nat
        BY <1>2, <2>1 DEF Answered
      <3>2. i \in 1..Len(Tail(q))
        BY DEF Answers
      <3> QED BY <1>1, <3>1, <3>2
    <2> QED BY <2>1, <2>2 DEF Answered
  <1> QED BY <1>6, <1>7

LEMMA NoFrames ==
    ASSUME NEW r, NEW d, NEW inb, NEW st
    PROVE  Announced(<<>>, r, d, inb, st) /\ Blocks(<<>>, st)
  BY DEF Announced, Blocks

LEMMA StartStops ==
    ASSUME IInv, DInv, Paced, StartFile \/ StartStatus, UNCHANGED <<rcv, dt, inbound>>
    PROVE  Stops'
  <1>1. PICK f \in Files, b \in BOOLEAN :
           /\ snd'.out = f /\ snd'.status = b
           /\ snd'.offReq = we_nr /\ snd'.waitGOT = FALSE
           /\ snd'.sendEof = snd.sendEof /\ snd'.sent = snd.sent
           /\ s2r' = ToR(M_FILE(f, IF we_nr THEN -1 ELSE IF b THEN Size[f] ELSE 0))
           /\ r2s' = r2s
    BY AnnounceFields, StopParts
  <1> DEFINE m == M_FILE(f, -1)
  <1>2. s2r' = Append(s2r, m)
    BY <1>1, StopParts DEF ToR, Paced
  <1>3. m \in Commands /\ m.t = "FILE" /\ m.f = f /\ m.off = -1
    BY FrameType, SentFields
  <1> HIDE DEF m
  <1>4. /\ Len(s2r) \in Nat /\ Len(s2r') = Len(s2r) + 1
        /\ \A i \in 1..Len(s2r) : s2r'[i] = s2r[i]
        /\ s2r'[Len(s2r) + 1] = m
    BY <1>2, <1>3, AppendIndex, StopParts
  <1>5. \A i \in 1..Len(s2r') : i \in 1..Len(s2r) \/ i = Len(s2r')
    BY <1>4
  <1>6. /\ Answers(r2s) = {} /\ snd.sent = {} /\ ~snd.sendEof
        /\ \A i \in 1..Len(s2r) : s2r[i].t # "DATA"
        /\ \A i \in 1..Len(s2r) : s2r[i].t = "FILE" =>
              s2r[i].off # -1 /\ i = 1 /\ Fresh(s2r[i].f, s2r[i].off, rcv, dt, inbound)
    BY AtRest DEF StartFile, StartStatus
  <1>7. Answered(s2r', r2s', rcv', dt', inbound', snd')
    BY <1>1, <1>6, NoAnswers
  <1>8. Announced(s2r', rcv', dt', inbound', snd')
    <2> SUFFICES ASSUME NEW i \in 1..Len(s2r'), s2r'[i].t = "FILE"
                 PROVE  \/ s2r'[i].off = -1 /\ i = Len(s2r') /\ snd'.offReq /\ s2r'[i].f = snd'.out
                        \/ /\ s2r'[i].off # -1 /\ i = 1
                           /\ Fresh(s2r'[i].f, s2r'[i].off, rcv', dt', inbound')
      BY DEF Announced
    <2>1. CASE i \in 1..Len(s2r)
      BY <1>4, <1>6, <2>1
    <2>2. CASE i = Len(s2r')
      BY <1>1, <1>3, <1>4, <2>2, StopParts
    <2> QED BY <1>5, <2>1, <2>2
  <1>9. Blocks(s2r', snd')
    <2>1. \A i \in 1..Len(s2r') : s2r'[i].t # "DATA"
      BY <1>3, <1>4, <1>5, <1>6
    <2> QED BY <2>1 DEF Blocks
  <1>10. OneAtATime(snd')
    <2>1. snd'.out # NoFile
      BY <1>1, FilesAssumption
    <2> QED BY <1>1, <1>6, <2>1 DEF OneAtATime
  <1> QED BY <1>7, <1>8, <1>9, <1>10 DEF Stops, StopAndWait

(* A block is sent. *)
LEMMA BlockSent ==
    ASSUME NEW s \in Seq(Commands), NEW m \in Commands, m.t = "DATA",
           NEW r, NEW d, NEW inb, NEW st, NEW st2,
           Announced(s, r, d, inb, st), Blocks(s, st), ~st.offReq, ~st2.offReq,
           InTransfer(st2) \/ st2.waitGOT,
           {st.out} \cup st.sent \subseteq {st2.out} \cup st2.sent,
           m.f \in {st2.out} \cup st2.sent,
           \A i \in 1..Len(s) : s[i].t = "DATA" => ~Final(s[i]),
           Final(m) => st2.waitGOT /\ ~st2.sendEof
    PROVE  Announced(Append(s, m), r, d, inb, st2) /\ Blocks(Append(s, m), st2)
  <1> DEFINE z == Append(s, m)
  <1>1. /\ Len(s) \in Nat /\ Len(z) = Len(s) + 1
        /\ \A i \in 1..Len(s) : z[i] = s[i]
        /\ z[Len(s) + 1] = m
    BY AppendIndex
  <1> HIDE DEF z
  <1>2. \A i \in 1..Len(z) : i \in 1..Len(s) \/ (i = Len(z) /\ z[i] = m)
    BY <1>1
  <1>3. Announced(z, r, d, inb, st2)
    BY <1>1, <1>2 DEF Announced
  <1>4. Blocks(z, st2)
    <2> SUFFICES ASSUME NEW i \in 1..Len(z), z[i].t = "DATA"
                 PROVE  /\ z[i].f \in {st2.out} \cup st2.sent
                        /\ Final(z[i]) => i = Len(z) /\ st2.waitGOT /\ ~st2.sendEof
      BY DEF Blocks
    <2>1. CASE i \in 1..Len(s)
      BY <1>1, <2>1 DEF Blocks
    <2>2. CASE i = Len(z) /\ z[i] = m
      BY <2>2
    <2> QED BY <1>2, <2>1, <2>2
  <1> QED BY <1>3, <1>4 DEF z

LEMMA SendStops ==
    ASSUME IInv, DInv, Paced, SendData \/ SendStatusEof, UNCHANGED <<rcv, dt, inbound>>
    PROVE  Stops'
  <1>0. snd.up /\ rcv.up /\ ~rcv.skipAll /\ TypeOK
    BY StopParts DEF Paced
  <1>1. CASE SendData
    <2>1. PICK n \in {0, 1} :
             /\ snd.out \in Files /\ snd.pos \in Nat
             /\ s2r' = ToR(DATA(snd.out, snd.pos, n)) /\ r2s' = r2s
             /\ snd'.offReq = snd.offReq /\ snd'.sendEof = snd.sendEof
             /\ snd'.status = snd.status
             /\ \/ /\ snd.pos + n = Size[snd.out]
                   /\ snd'.out = NoFile /\ snd'.sent = snd.sent \cup {snd.out}
                   /\ snd'.waitGOT = (we_nd \/ snd.waitGOT)
                \/ /\ snd.pos + n # Size[snd.out]
                   /\ snd'.out = snd.out /\ snd'.sent = snd.sent
                   /\ snd'.pos = snd.pos + n /\ snd'.waitGOT = snd.waitGOT
      BY <1>0, <1>1, SendDataFields
    <2> DEFINE m == DATA(snd.out, snd.pos, n)
    <2>2. m \in Commands /\ m.t = "DATA" /\ m.f = snd.out /\ m.off = snd.pos /\ m.n = n
      BY <2>1, FrameType, SentFields
    <2>3. s2r' = Append(s2r, m)
      BY <1>0, <2>1 DEF ToR
    <2> HIDE DEF m
    <2>4. InTransfer(snd) /\ ~snd.sendEof
      BY <1>0, <1>1, SendingIs, NoEof DEF SendData
    <2>5. ~snd.offReq /\ ~snd.waitGOT /\ snd.sent = {}
      BY <1>1, <2>4, StopParts DEF SendData, OneAtATime, InTransfer
    <2>6. Answers(r2s) = {}
      BY <2>5, StopParts DEF Answered
    <2>7. Answered(s2r', r2s', rcv', dt', inbound', snd')
      BY <2>1, <2>6, NoAnswers
    <2>8. \A i \in 1..Len(s2r) : s2r[i].t = "DATA" => ~Final(s2r[i])
      BY <2>5, StopParts DEF Blocks
    <2>9. Final(m) <=> snd.pos + n = Size[snd.out]
      BY <2>1, <2>2, FilesAssumption DEF Final
    <2>10. /\ ~snd'.offReq /\ ~snd'.sendEof
           /\ {snd.out} \cup snd.sent \subseteq {snd'.out} \cup snd'.sent
           /\ m.f \in {snd'.out} \cup snd'.sent
      BY <2>1, <2>2, <2>4, <2>5
    <2>11. CASE snd.pos + n = Size[snd.out]
      <3>1. snd'.waitGOT /\ ~InTransfer(snd') /\ snd'.out = NoFile /\ snd'.sent = {snd.out}
        BY <2>1, <2>5, <2>11, StopParts DEF InTransfer
      <3>2. OneAtATime(snd')
        BY <2>10, <3>1 DEF OneAtATime
      <3>3. Announced(s2r', rcv', dt', inbound', snd') /\ Blocks(s2r', snd')
        BY <2>2, <2>3, <2>5, <2>8, <2>10, <3>1, BlockSent, StopParts
      <3> QED BY <2>7, <3>2, <3>3 DEF Stops, StopAndWait
    <2>12. CASE snd.pos + n # Size[snd.out]
      <3>1. InTransfer(snd') /\ ~snd'.waitGOT /\ snd'.sent = {}
        BY <2>1, <2>4, <2>5, <2>12 DEF InTransfer
      <3>2. OneAtATime(snd')
        BY <2>10, <3>1 DEF OneAtATime
      <3>3. Announced(s2r', rcv', dt', inbound', snd') /\ Blocks(s2r', snd')
        BY <2>2, <2>3, <2>5, <2>8, <2>9, <2>10, <2>12, <3>1, BlockSent, StopParts
      <3> QED BY <2>7, <3>2, <3>3 DEF Stops, StopAndWait
    <2> QED BY <2>11, <2>12
  <1>2. CASE SendStatusEof
    <2>1. snd.sendEof /\ ~InTransfer(snd)
      BY <1>2, SendingIs DEF SendStatusEof
    <2>2. /\ snd.waitGOT /\ snd.out # NoFile /\ ~snd.offReq /\ snd.sent = {}
          /\ Answers(r2s) = {}
      BY <2>1, StopParts DEF OneAtATime, Answered
    <2>3. snd.out \in Files /\ Size[snd.out] \in Nat
      BY <2>2, StopParts, FilesAssumption DEF SndStates
    <2> DEFINE m == DATA(snd.out, Size[snd.out], 0)
    <2>4. m \in Commands /\ m.t = "DATA" /\ m.f = snd.out
      BY <2>3, FrameType, SentFields
    <2>5. s2r' = Append(s2r, m) /\ r2s' = r2s
      BY <1>0, <1>2, <2>2 DEF SendStatusEof, ToR
    <2> HIDE DEF m
    <2>6. /\ snd'.out = snd.out /\ snd'.sent = snd.sent /\ snd'.waitGOT = snd.waitGOT
          /\ snd'.offReq = snd.offReq /\ ~snd'.sendEof /\ snd'.status = snd.status
      BY <1>2, StopParts DEF SendStatusEof, SndStates
    <2>7. \A i \in 1..Len(s2r) : s2r[i].t = "DATA" => ~Final(s2r[i])
      BY <2>1, StopParts DEF Blocks
    <2>8. Announced(s2r', rcv', dt', inbound', snd') /\ Blocks(s2r', snd')
      BY <2>2, <2>4, <2>5, <2>6, <2>7, BlockSent, StopParts
    <2>9. ~InTransfer(snd')
      BY <2>1, <2>6 DEF InTransfer
    <2>10. OneAtATime(snd')
      BY <2>2, <2>6, <2>9 DEF OneAtATime
    <2>11. Answered(s2r', r2s', rcv', dt', inbound', snd')
      BY <2>2, <2>5, NoAnswers
    <2> QED BY <2>8, <2>10, <2>11 DEF Stops, StopAndWait
  <1> QED BY <1>1, <1>2

(* The sender's state as OneAtATime and the frames see it. *)
Same(st, st2) ==
    /\ st2.out = st.out /\ st2.status = st.status /\ st2.sent = st.sent
    /\ st2.offReq = st.offReq /\ st2.waitGOT = st.waitGOT /\ st2.sendEof = st.sendEof

LEMMA SameStops ==
    ASSUME NEW s, NEW q, NEW r, NEW d, NEW inb, NEW st, NEW st2, Same(st, st2)
    PROVE  /\ Answered(s, q, r, d, inb, st) => Answered(s, q, r, d, inb, st2)
           /\ Announced(s, r, d, inb, st) => Announced(s, r, d, inb, st2)
           /\ Blocks(s, st) => Blocks(s, st2)
           /\ OneAtATime(st) => OneAtATime(st2)
  <1>1. InTransfer(st2) <=> InTransfer(st)
    BY DEF Same, InTransfer
  <1>2. \A m : Answer(m, r, d, inb, st) => Answer(m, r, d, inb, st2)
    BY DEF Same, Answer
  <1>3. Answered(s, q, r, d, inb, st) => Answered(s, q, r, d, inb, st2)
    BY <1>2 DEF Same, Answered
  <1>4. Announced(s, r, d, inb, st) => Announced(s, r, d, inb, st2)
    BY DEF Same, Announced
  <1>5. Blocks(s, st) => Blocks(s, st2)
    BY <1>1 DEF Same, Blocks
  <1>6. OneAtATime(st) => OneAtATime(st2)
    BY <1>1 DEF Same, OneAtATime
  <1> QED BY <1>3, <1>4, <1>5, <1>6

LEMMA BatchStops ==
    ASSUME IInv, DInv, Paced, SendEOB \/ SenderEndBatch \/ SenderEOB, snd'.up,
           UNCHANGED <<rcv, dt, inbound>>
    PROVE  Stops'
  <1>1. CASE SendEOB
    <2>1. Same(snd, snd')
      BY <1>1, StopParts DEF SendEOB, OneMore, SndStates, Same
    <2>2. s2r' = Append(s2r, M_EOB) /\ M_EOB \in Commands /\ M_EOB.t = "EOB" /\ r2s' = r2s
      BY <1>1, FrameType DEF SendEOB, ToR, Paced, M_EOB, Msg
    <2>3. /\ Answers(r2s) = {}
          /\ \A i \in 1..Len(s2r) : s2r[i].t # "DATA"
          /\ \A i \in 1..Len(s2r) : s2r[i].t = "FILE" =>
                s2r[i].off # -1 /\ i = 1 /\ Fresh(s2r[i].f, s2r[i].off, rcv, dt, inbound)
      BY <1>1, AtRest DEF SendEOB
    <2>4. /\ Len(s2r) \in Nat /\ Len(s2r') = Len(s2r) + 1
          /\ \A i \in 1..Len(s2r) : s2r'[i] = s2r[i]
          /\ s2r'[Len(s2r) + 1] = M_EOB
      BY <2>2, AppendIndex, StopParts
    <2>5. \A i \in 1..Len(s2r') : i \in 1..Len(s2r) \/ s2r'[i].t = "EOB"
      BY <2>2, <2>4
    <2>6. Announced(s2r', rcv', dt', inbound', snd')
      BY <2>3, <2>4, <2>5 DEF Announced
    <2>7. \A i \in 1..Len(s2r') : s2r'[i].t # "DATA"
      BY <2>3, <2>4, <2>5
    <2>8. Blocks(s2r', snd')
      BY <2>7 DEF Blocks
    <2>9. OneAtATime(snd') /\ Answered(s2r', r2s', rcv', dt', inbound', snd')
      BY <2>1, <2>2, <2>3, SameStops, NoAnswers, StopParts
    <2> QED BY <2>6, <2>8, <2>9 DEF Stops, StopAndWait
  <1>2. CASE SenderEndBatch
    <2>1. snd' = [snd EXCEPT !.msgs = 0, !.eob = FALSE, !.reob = FALSE] /\ r2s' = r2s /\ s2r' = s2r
      BY <1>2 DEF SenderEndBatch, Down, SndInit
    <2>2. Same(snd, snd')
      BY <2>1, StopParts DEF SndStates, Same
    <2> QED BY <2>1, <2>2, SameStops, StopParts DEF Stops, StopAndWait
  <1>3. CASE SenderEOB
    <2>1. snd' = [Read EXCEPT !.reob = TRUE] /\ r2s' = Tail(r2s) /\ s2r' = s2r /\ r2s # <<>>
      BY <1>3 DEF SenderEOB, SenderReads
    <2>2. Same(Read, snd')
      BY <2>1, ReadFields, StopParts DEF SndStates, Same
    <2>3. Same(snd, snd')
      BY <2>2, ReadFields, StopParts DEF Same
    <2>4. Answered(s2r, r2s', rcv, dt, inbound, snd)
      BY <2>1, AnswerRead, StopParts
    <2> QED BY <2>1, <2>3, <2>4, SameStops, StopParts DEF Stops, StopAndWait
  <1> QED BY <1>1, <1>2, <1>3

(* The sender reads the answer it waits for. *)
LEMMA ReplyStops ==
    ASSUME IInv, DInv, Paced, GET \/ GOT \/ SKIP, snd'.up, UNCHANGED <<rcv, dt, inbound>>
    PROVE  Stops'
  <1> DEFINE m == Head(r2s)
  <1>1. /\ r2s # <<>> /\ m = r2s[1] /\ m.t \in {"GET", "GOT", "SKIP"}
        /\ m.f \in Files /\ m.off \in Nat
    BY SenderHead, StopParts, TailIndex DEF GET, GOT, SKIP, SenderReads
  <1>2. /\ Answers(Tail(r2s)) = {} /\ s2r = <<>> /\ ~snd.sendEof /\ rcv.in = NoFile
        /\ Answer(m, rcv, dt, inbound, snd)
    BY <1>1, AnswerRead, StopParts
  <1>3. CASE GET
    <2>1. m.t = "GET"
      BY <1>3 DEF GET, SenderReads
    <2>2. snd.offReq /\ m.f = snd.out /\ Fresh(m.f, m.off, rcv, dt, inbound)
      BY <1>2, <2>1 DEF Answer
    <2>3. snd.sent = {} /\ ~snd.waitGOT
      BY <2>2, StopParts DEF OneAtATime
    <2> DEFINE z == M_FILE(m.f, m.off)
    <2>4. z.t = "FILE" /\ z.f = m.f /\ z.off = m.off
      BY <1>1, SentFields
    <2>5. ~Down.up
      BY DEF Down, SndInit
    <2>6. s2r' = <<z>> /\ r2s' = Tail(r2s) /\ ~snd'.offReq
      <3>1. s2r' = ToR(z) /\ r2s' = Tail(r2s) /\ ~snd'.offReq
        BY <1>3, <2>5, GETFields, StopParts
      <3> QED BY <1>2, <3>1 DEF ToR, Paced
    <2> HIDE DEF z
    <2>7. Len(s2r') = 1 /\ s2r'[1] = z
      BY <2>6
    <2>8. Announced(s2r', rcv', dt', inbound', snd')
      BY <1>1, <2>2, <2>4, <2>7 DEF Announced
    <2>9. Blocks(s2r', snd')
      BY <2>4, <2>7 DEF Blocks
    <2>10. Answered(s2r', r2s', rcv', dt', inbound', snd')
      BY <1>2, <2>6, NoAnswers
    <2>11. OneAtATime(snd')
      <3>1. snd'.sent = {}
        BY <1>3, <2>3, <2>5, GETFields, StopParts
      <3>2. \/ snd'.sendEof /\ snd'.waitGOT /\ snd'.out = m.f /\ snd'.status
            \/ ~snd'.sendEof /\ ~snd'.waitGOT
        BY <1>2, <1>3, <2>3, <2>5, GETFields, StopParts
      <3> QED BY <1>1, <2>6, <3>1, <3>2, FilesAssumption DEF OneAtATime, InTransfer
    <2> QED BY <2>8, <2>9, <2>10, <2>11 DEF Stops, StopAndWait
  <1>4. CASE GOT
    <2>1. m.t = "GOT"
      BY <1>4 DEF GOT, SenderReads
    <2>2. m.f \in {snd.out} \cup snd.sent
      BY <1>2, <2>1 DEF Answer
    <2>3. r2s' = Tail(r2s) /\ s2r' = <<>> /\ ~snd'.sendEof
      BY <1>2, <1>4, GOTFields, StopParts
    <2>4. /\ Announced(s2r', rcv', dt', inbound', snd') /\ Blocks(s2r', snd')
          /\ Answered(s2r', r2s', rcv', dt', inbound', snd')
      BY <1>2, <2>3, NoFrames, NoAnswers
    <2>5. CASE m.f = snd.out
      <3>1. snd.sent = {}
        BY <1>1, <2>5, StopParts, FilesAssumption DEF OneAtATime
      <3>2. /\ snd'.out = NoFile /\ snd'.sent = {} /\ ~snd'.waitGOT /\ ~snd'.offReq
        BY <1>4, <2>5, <3>1, GOTFields, StopParts
      <3>3. OneAtATime(snd')
        BY <2>3, <3>2 DEF OneAtATime
      <3> QED BY <2>4, <3>3 DEF Stops, StopAndWait
    <2>6. CASE m.f # snd.out
      <3>1. snd.sent = {m.f} /\ snd.out = NoFile /\ ~snd.offReq
        <4>1. m.f \in snd.sent
          BY <2>2, <2>6
        <4> QED BY <4>1, StopParts DEF OneAtATime
      <3>2. /\ snd'.out = NoFile /\ snd'.sent = {} /\ ~snd'.waitGOT /\ ~snd'.offReq
        BY <1>4, <2>6, <3>1, GOTFields, StopParts
      <3>3. OneAtATime(snd')
        BY <2>3, <3>2 DEF OneAtATime
      <3> QED BY <2>4, <3>3 DEF Stops, StopAndWait
    <2> QED BY <2>5, <2>6
  <1>5. CASE SKIP
    <2>1. m.t = "SKIP"
      BY <1>5 DEF SKIP, SenderReads
    <2>2. snd.offReq /\ m.f = snd.out
      BY <1>2, <2>1 DEF Answer
    <2>3. snd.sent = {}
      BY <2>2, StopParts DEF OneAtATime
    <2>4. snd' # Down
      BY DEF Down, SndInit
    <2>5. /\ r2s' = Tail(r2s) /\ s2r' = <<>> /\ ~snd'.sendEof /\ snd'.sent = {}
          /\ snd'.out = NoFile /\ ~snd'.offReq /\ ~snd'.waitGOT
      BY <1>2, <1>5, <2>2, <2>3, <2>4, SKIPFields, StopParts
    <2>6. /\ Announced(s2r', rcv', dt', inbound', snd') /\ Blocks(s2r', snd')
          /\ Answered(s2r', r2s', rcv', dt', inbound', snd')
      BY <1>2, <2>5, NoFrames, NoAnswers
    <2>7. OneAtATime(snd')
      BY <2>5 DEF OneAtATime
    <2> QED BY <2>6, <2>7 DEF Stops, StopAndWait
  <1> QED BY <1>3, <1>4, <1>5
-----------------------------------------------------------------------------
(*                          The receiver's steps                           *)

LEMMA HeardFields ==
    ASSUME TypeOK
    PROVE  /\ Heard \in RcvStates
           /\ Heard.up = rcv.up /\ Heard.in = rcv.in /\ Heard.complete = rcv.complete
           /\ Heard.skipAll = rcv.skipAll /\ Heard.rules = rcv.rules
  BY OneMoreRcv DEF Heard, TypeOK

(* start_file_recv with the file open: what it has is asked for, or it is  *)
(* received from there.                                                    *)
LEMMA RecvFromFields ==
    ASSUME NEW m \in Commands, m.t = "FILE", NEW d, NEW r \in RcvStates, RecvFrom(m, d, r)
    PROVE  /\ dt' = d /\ rcv'.up = r.up /\ rcv'.skipAll = r.skipAll /\ rcv'.complete = r.complete
           /\ rcv'.rules = r.rules
           /\ \/ /\ m.off # d[m.f] /\ rcv'.in = NoFile /\ r2s' = ToS(M_GET(m.f, d[m.f]))
              \/ /\ m.off = d[m.f] /\ rcv'.in = m.f /\ r2s' = r2s
  <1> DEFINE b == IF m.off # 0 \/ r.theyNR THEN r.balance - 1 ELSE r.balance
  <1> HIDE DEF b
  <1>1. CASE m.off # d[m.f]
    <2>1. rcv' = OneMore([r EXCEPT !.in = NoFile, !.balance = r.balance + 1])
      BY <1>1 DEF RecvFrom
    <2> QED BY <1>1, <2>1 DEF RecvFrom, OneMore, RcvStates
  <1>2. CASE m.off = d[m.f]
    <2>1. rcv' = [r EXCEPT !.in = m.f, !.balance = b]
      BY <1>2 DEF RecvFrom, b
    <2> QED BY <1>2, <2>1 DEF RecvFrom, RcvStates
  <1> QED BY <1>1, <1>2

(* start_file_recv: the file is skipped, is here already, is asked for or  *)
(* is received from where its .dt ends.                                    *)
LEMMA RecvFields ==
    ASSUME IInv, DInv, start_file_recv
    PROVE  LET m == s2r[1] IN
           /\ s2r # <<>> /\ s2r[1] \in Commands /\ m.t = "FILE" /\ m.f \in Files
           /\ m.off \in Nat \cup {-1}
           /\ s2r' = Tail(s2r) /\ UNCHANGED <<mode, snd>> /\ rcv'.up = rcv.up
           /\ rcv'.rules = rcv.rules
           /\ we_nd => rcv'.complete = NoFile
           /\ \/ rcv'.skipAll /\ rcv'.in = NoFile
              \/ /\ rcv'.skipAll = rcv.skipAll
                 /\ \/ rcv'.in = NoFile /\ r2s' = ToS(M_GOT(m.f))
                       /\ \/ m.f \in inbound \/ (we_nd /\ m.f = rcv.complete)
                          \/ rcv.rules[m.f] # "take" /\ refused' = refused \cup {m.f}
                    \/ rcv'.in = NoFile /\ r2s' = ToS(M_SKIP(m.f))
                       /\ rcv.rules[m.f] # "take"
                    \/ /\ ~rcv.skipAll /\ rcv'.in = NoFile /\ r2s' = ToS(M_GET(m.f, dt'[m.f]))
                       /\ m.off # dt'[m.f] /\ dt'[m.f] \in Nat /\ m.f \notin inbound'
                       /\ rcv.rules[m.f] = "take"
                    \/ /\ ~rcv.skipAll /\ rcv'.in = m.f /\ r2s' = r2s
                       /\ m.off = dt'[m.f] /\ dt'[m.f] \in Nat /\ m.f \notin inbound'
                       /\ rcv.rules[m.f] = "take"
           /\ Fresh(m.f, m.off, rcv, dt, inbound) /\ m.off # -1 =>
                 rcv'.skipAll \/ rcv'.in = m.f
  <1> DEFINE m == s2r[1]
             other == rcv.in # m.f
             d == CompleteDt(IF other THEN ClosePartial(dt, rcv.in) ELSE dt)
             h == [Heard EXCEPT !.in = IF other THEN NoFile ELSE @, !.theyNR = @ \/ m.off = -1]
             r == CompleteRcv(h)
             have == InbTest(m.f) \/ (we_nd /\ m.f = rcv.complete)
  <1>1. /\ TypeOK /\ s2r \in Seq(Commands) /\ r2s \in Seq(Replies) /\ rcv \in RcvStates
        /\ dt \in Dts /\ inbound \subseteq Files
        /\ InOpen /\ CompleteHeld
    BY DEF IInv, TypeOK, Dts
  <1>2. /\ s2r # <<>> /\ m = Head(s2r) /\ m \in Commands /\ m.t = "FILE" /\ m.f \in Files
        /\ m.off \in Nat \cup {-1}
    BY <1>1, TailIndex, CommandFields DEF start_file_recv, ReceiverReads
  <1>3. s2r' = Tail(s2r) /\ UNCHANGED <<mode, snd>> /\ CompleteDone
    BY DEF start_file_recv
  <1>4. /\ h \in RcvStates /\ h.rules = rcv.rules /\ h.up = rcv.up /\ h.skipAll = rcv.skipAll /\ h.complete = rcv.complete
        /\ h.in = (IF other THEN NoFile ELSE rcv.in)
    <2> DEFINE i == IF other THEN NoFile ELSE Heard.in
               y == Heard.theyNR \/ m.off = -1
    <2>1. i \in Files \cup {NoFile} /\ i = (IF other THEN NoFile ELSE rcv.in)
      BY <1>1, HeardFields DEF RcvStates
    <2>2. y \in BOOLEAN
      BY <1>1, HeardFields DEF RcvStates
    <2>3. h = [Heard EXCEPT !.in = i, !.theyNR = y]
      OBVIOUS
    <2> HIDE DEF h, i, y
    <2>4. /\ h \in RcvStates /\ h.up = Heard.up /\ h.skipAll = Heard.skipAll
          /\ h.complete = Heard.complete /\ h.in = i /\ h.rules = Heard.rules
      BY <1>1, <2>1, <2>2, <2>3, HeardFields DEF RcvStates
    <2> QED BY <1>1, <2>1, <2>4, HeardFields
  <1>5. \/ r.in # NoFile /\ RecvFrom(m, d, r)
        \/ r.in = NoFile /\ Ruled(m, d, r)
        \/ /\ r.in = NoFile /\ have /\ rcv' = OneMore(r) /\ r2s' = ToS(M_GOT(m.f))
        \/ r.in = NoFile /\ r.rules[m.f] = "take" /\ ~have /\ RecvOpen(m, d, r)
    BY <1>2 DEF start_file_recv
  <1> HIDE DEF h
  <1>6. /\ r \in RcvStates /\ r.rules = rcv.rules /\ r.up = rcv.up /\ r.skipAll = rcv.skipAll
        /\ r.in = (IF other THEN NoFile ELSE rcv.in)
        /\ we_nd => r.complete = NoFile
    BY <1>4 DEF CompleteRcv, RcvStates
  <1> HIDE DEF r
  <1>7. d \in Dts
    <2>1. rcv.in \in Files \cup {NoFile}
      BY <1>1 DEF RcvStates
    <2>2. (IF other THEN ClosePartial(dt, rcv.in) ELSE dt) \in Dts
      BY <1>1, <2>1, ClosePartialType
    <2> QED BY <1>1, <2>2, CompleteDtType
  <1>8. inbound' \subseteq inbound \cup (IF we_nd THEN {rcv.complete} ELSE {})
        /\ (rcv.complete = NoFile => inbound' = inbound)
    BY <1>3 DEF CompleteDone, InbDone
  <1>9. Fresh(m.f, m.off, rcv, dt, inbound) => d = dt /\ r.in = NoFile /\ ~have
    BY <1>2, <1>6, FilesAssumption
       DEF Fresh, CompleteDt, ClosePartial, InbTest
  <1>10. rcv.in # NoFile /\ ~other => d = dt /\ dt[m.f] \in Nat /\ inbound' = inbound
    BY <1>1, <1>8 DEF CompleteDt, CompleteHeld, InOpen
  <1>11. CASE r.in # NoFile /\ RecvFrom(m, d, r)
    <2>1. rcv.in = m.f
      BY <1>6, <1>11
    <2>2. /\ d[m.f] \in Nat /\ m.f \notin inbound' /\ ~rcv.skipAll
          /\ rcv.rules[m.f] = "take"
      BY <1>2, <1>10, <2>1, FilesAssumption DEF DInv
    <2>3. ~Fresh(m.f, m.off, rcv, dt, inbound)
      BY <1>9, <1>11
    <2> HIDE DEF d
    <2>4. /\ dt' = d /\ rcv'.up = r.up /\ rcv'.skipAll = r.skipAll /\ rcv'.complete = r.complete
          /\ rcv'.rules = r.rules
          /\ \/ /\ m.off # d[m.f] /\ rcv'.in = NoFile /\ r2s' = ToS(M_GET(m.f, d[m.f]))
             \/ /\ m.off = d[m.f] /\ rcv'.in = m.f /\ r2s' = r2s
      BY <1>2, <1>6, <1>11, RecvFromFields
    <2> HIDE DEF m
    <2>5. we_nd => rcv'.complete = NoFile
      BY <1>6, <2>4
    <2>6. rcv'.up = rcv.up /\ rcv'.skipAll = rcv.skipAll /\ rcv'.rules = rcv.rules
      BY <1>6, <2>4
    <2> QED BY <1>2, <1>3, <2>2, <2>3, <2>4, <2>5, <2>6 DEF m
  <1>14. CASE r.in = NoFile /\ Ruled(m, d, r)
    <2>1. rcv'.in = NoFile /\ rcv'.up = rcv.up /\ rcv'.skipAll = rcv.skipAll
          /\ rcv'.rules = rcv.rules /\ (we_nd => rcv'.complete = NoFile)
          /\ rcv.rules[m.f] # "take"
      BY <1>6, <1>14, OneMoreRcv DEF Ruled
    <2>2. \/ r2s' = ToS(M_GOT(m.f)) /\ refused' = refused \cup {m.f}
          \/ r2s' = ToS(M_SKIP(m.f))
      BY <1>14 DEF Ruled
    <2>3. ~Fresh(m.f, m.off, rcv, dt, inbound)
      BY <2>1 DEF Fresh
    <2> HIDE DEF m
    <2> QED BY <1>2, <1>3, <2>1, <2>2, <2>3 DEF m
  <1>12. CASE r.in = NoFile /\ have /\ rcv' = OneMore(r) /\ r2s' = ToS(M_GOT(m.f))
    <2>1. m.f \in inbound \/ (we_nd /\ m.f = rcv.complete)
      BY <1>12 DEF InbTest
    <2>2. ~Fresh(m.f, m.off, rcv, dt, inbound)
      BY <1>9, <1>12
    <2>3. rcv'.in = NoFile /\ rcv'.up = rcv.up /\ rcv'.skipAll = rcv.skipAll
          /\ (we_nd => rcv'.complete = NoFile) /\ rcv'.rules = rcv.rules
      BY <1>6, <1>12, OneMoreRcv
    <2> HIDE DEF m, have
    <2> QED BY <1>2, <1>3, <1>12, <2>1, <2>2, <2>3 DEF m
  <1>13. CASE r.in = NoFile /\ r.rules[m.f] = "take" /\ ~have /\ RecvOpen(m, d, r)
    <2>1. m.f \notin inbound'
      BY <1>8, <1>13 DEF InbTest
    <2> DEFINE o == Opened(d, m.f)
    <2>2. o[m.f] \in Nat /\ o \in Dts
      BY <1>2, <1>7, DtTypes
    <2>3. Fresh(m.f, m.off, rcv, dt, inbound) /\ m.off # -1 => o[m.f] = m.off
      BY <1>2, <1>7, <1>9 DEF Fresh, Opened, Absent, Dts
    <2> HIDE DEF d, have
    <2>4. CASE ~r.skipAll /\ RecvFrom(m, o, r)
      <3> HIDE DEF o
      <3>1. /\ dt' = o /\ rcv'.up = r.up /\ rcv'.skipAll = r.skipAll /\ rcv'.complete = r.complete
            /\ rcv'.rules = r.rules
            /\ \/ /\ m.off # o[m.f] /\ rcv'.in = NoFile /\ r2s' = ToS(M_GET(m.f, o[m.f]))
               \/ /\ m.off = o[m.f] /\ rcv'.in = m.f /\ r2s' = r2s
        BY <1>2, <1>6, <2>4, RecvFromFields
      <3> HIDE DEF m
      <3>2. /\ rcv'.up = rcv.up /\ rcv'.skipAll = rcv.skipAll /\ ~rcv.skipAll
            /\ we_nd => rcv'.complete = NoFile
            /\ rcv'.rules = rcv.rules /\ rcv.rules[m.f] = "take"
        BY <1>6, <1>13, <2>4, <3>1
      <3> QED BY <1>2, <1>3, <2>1, <2>2, <2>3, <3>1, <3>2 DEF m
    <2>5. CASE rcv' = OneMore([r EXCEPT !.in = NoFile, !.skipAll = TRUE])
      <3>1. /\ rcv'.in = NoFile /\ rcv'.skipAll = TRUE /\ rcv'.up = r.up
            /\ rcv'.complete = r.complete /\ rcv'.rules = r.rules
        BY <1>6, <2>5 DEF OneMore, RcvStates
      <3>2. /\ rcv'.skipAll /\ rcv'.up = rcv.up /\ (we_nd => rcv'.complete = NoFile)
            /\ rcv'.rules = rcv.rules
        BY <1>6, <3>1
      <3> HIDE DEF m
      <3> QED BY <1>2, <1>3, <3>1, <3>2 DEF m
    <2> QED BY <1>13, <2>4, <2>5 DEF RecvOpen
  <1> QED BY <1>5, <1>11, <1>12, <1>13, <1>14

(* A frame is read: an M_FILE with an offset was the first one. *)
LEMMA FrameRead ==
    ASSUME NEW s \in Seq(Commands), s # <<>>, NEW r, NEW d, NEW inb, NEW st,
           Announced(s, r, d, inb, st), Blocks(s, st), NEW r2, NEW d2, NEW inb2
    PROVE  Announced(Tail(s), r2, d2, inb2, st) /\ Blocks(Tail(s), st)
  <1> DEFINE z == Tail(s)
  <1>1. /\ Len(s) \in Nat \ {0} /\ Len(z) = Len(s) - 1
        /\ \A i \in 1..Len(z) : z[i] = s[i + 1]
    BY TailIndex
  <1> HIDE DEF z
  <1>2. \A i \in 1..Len(z) : /\ i + 1 \in 1..Len(s) /\ i + 1 # 1
                             /\ i + 1 = Len(s) => i = Len(z)
    BY <1>1
  <1>3. Announced(z, r2, d2, inb2, st)
    <2> SUFFICES ASSUME NEW i \in 1..Len(z), z[i].t = "FILE"
                 PROVE  z[i].off = -1 /\ i = Len(z) /\ st.offReq /\ z[i].f = st.out
      BY DEF Announced
    <2>1. z[i] = s[i + 1] /\ i + 1 \in 1..Len(s) /\ i + 1 # 1
      BY <1>1, <1>2
    <2>2. s[i + 1].off = -1 /\ i + 1 = Len(s) /\ st.offReq /\ s[i + 1].f = st.out
      BY <2>1 DEF Announced
    <2> QED BY <1>2, <2>1, <2>2
  <1>4. Blocks(z, st)
    <2> SUFFICES ASSUME NEW i \in 1..Len(z), z[i].t = "DATA"
                 PROVE  /\ ~st.offReq /\ (InTransfer(st) \/ st.waitGOT)
                        /\ z[i].f \in {st.out} \cup st.sent
                        /\ Final(z[i]) => i = Len(z) /\ st.waitGOT /\ ~st.sendEof
      BY DEF Blocks
    <2>1. z[i] = s[i + 1] /\ i + 1 \in 1..Len(s)
      BY <1>1, <1>2
    <2>2. /\ ~st.offReq /\ (InTransfer(st) \/ st.waitGOT)
          /\ s[i + 1].f \in {st.out} \cup st.sent
          /\ Final(s[i + 1]) => i + 1 = Len(s) /\ st.waitGOT /\ ~st.sendEof
      BY <2>1 DEF Blocks
    <2> QED BY <1>2, <2>1, <2>2
  <1> QED BY <1>3, <1>4 DEF z

(* The receiver answers. *)
LEMMA OneAnswer ==
    ASSUME NEW q \in Seq(Replies), Answers(q) = {}, NEW m \in Replies,
           NEW r, NEW d, NEW inb, NEW st, r.in = NoFile, ~st.sendEof, st.offReq \/ st.waitGOT,
           Answer(m, r, d, inb, st)
    PROVE  Answered(<<>>, Append(q, m), r, d, inb, st)
  <1> DEFINE z == Append(q, m)
  <1>1. /\ Len(q) \in Nat /\ Len(z) = Len(q) + 1
        /\ \A i \in 1..Len(q) : z[i] = q[i]
        /\ z[Len(q) + 1] = m
    BY AppendIndex
  <1> HIDE DEF z
  <1>2. \A i \in Answers(z) : i = Len(q) + 1
    BY <1>1 DEF Answers
  <1>3. Answered(<<>>, z, r, d, inb, st)
    BY <1>1, <1>2 DEF Answered
  <1> QED BY <1>3 DEF z

(* ... or says M_EOB. *)
LEMMA EobAnswers ==
    ASSUME NEW q \in Seq(Replies), NEW s, NEW r, NEW r2, NEW d, NEW inb, NEW st,
           r2.in = r.in, r2.complete = r.complete, r2.rules = r.rules,
           Answered(s, q, r, d, inb, st)
    PROVE  Answered(s, Append(q, M_EOB), r2, d, inb, st)
  <1> DEFINE z == Append(q, M_EOB)
  <1>1. M_EOB \in Replies /\ M_EOB.t = "EOB"
    BY FrameType DEF M_EOB, Msg
  <1>2. /\ Len(q) \in Nat /\ Len(z) = Len(q) + 1
        /\ \A i \in 1..Len(q) : z[i] = q[i]
        /\ z[Len(q) + 1] = M_EOB
    BY <1>1, AppendIndex
  <1> HIDE DEF z
  <1>3. \A i \in Answers(z) : i \in Answers(q) /\ z[i] = q[i]
    BY <1>1, <1>2 DEF Answers
  <1>4. \A m : Answer(m, r, d, inb, st) => Answer(m, r2, d, inb, st)
    BY DEF Answer, Fresh
  <1>5. Answered(s, z, r2, d, inb, st)
    BY <1>3, <1>4 DEF Answered
  <1> QED BY <1>5 DEF z

(* DInv, part by part, of the next state. *)
LEMMA DInvNext ==
    ASSUME rcv'.in # NoFile => rcv'.in \notin inbound' /\ rcv'.rules[rcv'.in] = "take",
           rcv'.skipAll => rcv'.in = NoFile /\ rcv'.complete = NoFile,
           mode' # "nd" => ~snd'.sendEof,
           rcv'.up /\ ~rcv'.skipAll => Chain(s2r', rcv', dt', snd'),
           Paced' => Stops'
    PROVE  DInv'
  BY DEF DInv, Paced, Stops

LEMMA RecvKeeps ==
    ASSUME IInv, DInv, start_file_recv
    PROVE  DInv'
  <1> DEFINE m == s2r[1]
  <1>1. /\ s2r # <<>> /\ m \in Commands /\ m.t = "FILE" /\ m.f \in Files
        /\ m.off \in Nat \cup {-1}
        /\ s2r' = Tail(s2r) /\ UNCHANGED <<mode, snd>> /\ rcv'.up = rcv.up
        /\ rcv'.complete = NoFile /\ rcv'.rules = rcv.rules
    BY RecvFields, StartRecv DEF IInv
  <1>2. \/ rcv'.skipAll /\ rcv'.in = NoFile
        \/ /\ rcv'.skipAll = rcv.skipAll
           /\ \/ /\ rcv'.in = NoFile /\ r2s' \in {ToS(M_GOT(m.f)), ToS(M_SKIP(m.f))}
              \/ /\ ~rcv.skipAll /\ rcv'.in = NoFile /\ r2s' = ToS(M_GET(m.f, dt'[m.f]))
                 /\ m.off # dt'[m.f] /\ dt'[m.f] \in Nat /\ m.f \notin inbound'
                 /\ rcv.rules[m.f] = "take"
              \/ /\ ~rcv.skipAll /\ rcv'.in = m.f /\ r2s' = r2s
                 /\ m.off = dt'[m.f] /\ dt'[m.f] \in Nat /\ m.f \notin inbound'
                 /\ rcv.rules[m.f] = "take"
    BY RecvFields
  <1>3. Fresh(m.f, m.off, rcv, dt, inbound) /\ m.off # -1 => rcv'.skipAll \/ rcv'.in = m.f
    BY RecvFields
  <1>4. TypeOK /\ s2r \in Seq(Commands) /\ r2s \in Seq(Replies)
    BY DEF IInv, TypeOK
  <1>5. Head(s2r) = m /\ m.n = 0
    BY <1>1, <1>4, TailIndex, CommandFields
  <1> HIDE DEF m
  <1>6. rcv'.in # NoFile => rcv'.in \notin inbound' /\ rcv'.rules[rcv'.in] = "take"
    BY <1>1, <1>2
  <1>7. rcv'.skipAll => rcv'.in = NoFile /\ rcv'.complete = NoFile
    BY <1>1, <1>2 DEF DInv
  <1>8. mode' # "nd" => ~snd'.sendEof
    BY <1>1 DEF DInv
  <1>9. rcv'.up /\ ~rcv'.skipAll => Chain(s2r', rcv', dt', snd')
    <2> SUFFICES ASSUME rcv'.up, ~rcv'.skipAll
                 PROVE  Chain(s2r', rcv', dt', snd')
      OBVIOUS
    <2>1. Chain(s2r, rcv, dt, snd)
      BY <1>1, <1>2 DEF DInv
    <2>2. rcv'.in # NoFile => Opens(m) /\ rcv'.in = m.f /\ dt'[rcv'.in] = At(m)
      BY <1>1, <1>2, <1>5 DEF Opens, At
    <2> QED BY <1>1, <1>4, <2>1, <2>2, ReadChain DEF m
  <1>10. Paced' => Stops'
    <2> SUFFICES ASSUME Paced' PROVE Stops'
      OBVIOUS
    <2>1. Paced /\ ~rcv'.skipAll
      BY <1>1, <1>2 DEF Paced
    <2>2. /\ Announced(s2r, rcv, dt, inbound, snd) /\ Blocks(s2r, snd) /\ OneAtATime(snd)
          /\ Answered(s2r, r2s, rcv, dt, inbound, snd) /\ we_nd /\ snd.up
      BY <2>1, StopParts DEF Paced
    <2>3. Answers(r2s) = {} /\ OneAtATime(snd')
      BY <1>1, <2>2 DEF Answered
    <2>4. Announced(s2r', rcv', dt', inbound', snd') /\ Blocks(s2r', snd')
      BY <1>1, <1>4, <2>2, FrameRead
    <2>5. 1 \in 1..Len(s2r)
      BY <1>1, <1>4, TailIndex
    <2>6. CASE m.off # -1
      <3>1. Fresh(m.f, m.off, rcv, dt, inbound)
        BY <1>1, <2>2, <2>5, <2>6 DEF Announced, m
      <3>2. rcv'.in = m.f /\ r2s' = r2s
        BY <1>1, <1>2, <1>3, <2>1, <2>6, <3>1, FilesAssumption
      <3>3. Answered(s2r', r2s', rcv', dt', inbound', snd')
        BY <2>3, <3>2, NoAnswers
      <3> QED BY <2>3, <2>4, <3>3 DEF Stops, StopAndWait
    <2>7. CASE m.off = -1
      <3>1. 1 = Len(s2r) /\ snd.offReq /\ m.f = snd.out
        BY <1>1, <2>2, <2>5, <2>7 DEF Announced, m
      <3>2. s2r' = <<>>
        BY <1>1, <1>4, <3>1, TailIndex
      <3>3. ~snd'.sendEof /\ snd'.offReq /\ snd'.out = m.f
        BY <1>1, <2>2, <3>1 DEF OneAtATime
      <3>4. PICK a \in Replies : r2s' = ToS(a) /\ rcv'.in = NoFile
                                 /\ Answer(a, rcv', dt', inbound', snd')
        <4>3. CASE rcv'.in = NoFile /\ r2s' = ToS(M_SKIP(m.f))
          <5> DEFINE a == M_SKIP(m.f)
          <5>1. a \in Replies /\ a.t = "SKIP" /\ a.f = m.f
            BY <1>1, FrameType DEF M_SKIP, Msg
          <5> HIDE DEF a
          <5>2. Answer(a, rcv', dt', inbound', snd')
            BY <3>3, <5>1 DEF Answer
          <5> QED BY <4>3, <5>1, <5>2 DEF a
        <4>1. CASE rcv'.in = NoFile /\ r2s' = ToS(M_GOT(m.f))
          <5> DEFINE a == M_GOT(m.f)
          <5>1. a \in Replies /\ a.t = "GOT" /\ a.f = m.f
            BY <1>1, FrameType DEF M_GOT, Msg
          <5> HIDE DEF a
          <5>2. Answer(a, rcv', dt', inbound', snd')
            BY <3>3, <5>1 DEF Answer
          <5> QED BY <4>1, <5>1, <5>2 DEF a
        <4>2. CASE /\ rcv'.in = NoFile /\ r2s' = ToS(M_GET(m.f, dt'[m.f]))
                   /\ dt'[m.f] \in Nat /\ m.f \notin inbound'
                   /\ rcv.rules[m.f] = "take"
          <5> DEFINE a == M_GET(m.f, dt'[m.f])
          <5>1. a \in Replies /\ a.t = "GET" /\ a.f = m.f /\ a.off = dt'[m.f]
            BY <1>1, <4>2, FrameType DEF M_GET, Msg
          <5> HIDE DEF a
          <5>2. Fresh(a.f, a.off, rcv', dt', inbound')
            BY <1>1, <2>2, <4>2, <5>1 DEF Fresh
          <5>3. Answer(a, rcv', dt', inbound', snd')
            BY <3>3, <5>1, <5>2 DEF Answer
          <5> QED BY <4>2, <5>1, <5>3 DEF a
        <4> QED BY <1>2, <2>1, <2>7, <4>1, <4>2, <4>3
      <3>5. r2s' = Append(r2s, a)
        BY <2>2, <3>4 DEF ToS
      <3>6. Answered(s2r', r2s', rcv', dt', inbound', snd')
        BY <1>4, <2>3, <3>2, <3>3, <3>4, <3>5, OneAnswer
      <3> QED BY <2>3, <2>4, <3>6 DEF Stops, StopAndWait
    <2> QED BY <2>6, <2>7
  <1> QED BY <1>6, <1>7, <1>8, <1>9, <1>10, DInvNext

(* A block is read. The one that completes the file in reception is the    *)
(* last one under way in ND mode, and the sender waits for its M_GOT.      *)
LEMMA DataKeeps ==
    ASSUME IInv, DInv, RecvData
    PROVE  DInv'
  <1> DEFINE m == s2r[1]
             f == rcv.in
             len == dt[f] + m.n
  <1>1. TypeOK /\ s2r \in Seq(Commands) /\ r2s \in Seq(Replies) /\ rcv \in RcvStates
        /\ dt \in [Files -> Nat \cup {Absent}] /\ InOpen
    BY DEF IInv, TypeOK
  <1>2. rcv.up /\ s2r # <<>> /\ m = Head(s2r) /\ m.t = "DATA" /\ UNCHANGED <<mode, snd>>
    BY <1>1, TailIndex DEF RecvData, ReceiverReads
  <1>3. m \in Commands /\ m.off \in Nat /\ m.n \in {0, 1}
    <2>1. m \in Commands
      BY <1>1, <1>2
    <2> QED BY <1>2, <2>1, CommandFields
  <1>4. mode' # "nd" => ~snd'.sendEof
    BY <1>2 DEF DInv
  <1>5. ~rcv.skipAll => Chain(s2r, rcv, dt, snd)
    BY <1>2 DEF DInv
  <1>6. f # NoFile => /\ f \in Files /\ ~rcv.skipAll /\ f \notin inbound
                      /\ m.f = f /\ m.off = dt[f] /\ len = At(m)
    BY <1>1, <1>2, <1>5 DEF DInv, Chain, Fits, At, RcvStates
  <1>7. ASSUME rcv'.up, s2r' = Tail(s2r), rcv'.skipAll = rcv.skipAll,
               rcv'.in # NoFile => Opens(m) /\ rcv'.in = m.f /\ dt'[rcv'.in] = At(m)
        PROVE  rcv'.up /\ ~rcv'.skipAll => Chain(s2r', rcv', dt', snd')
    BY <1>1, <1>2, <1>5, <1>7, ReadChain
  <1>8. ASSUME Paced, s2r' = Tail(s2r)
        PROVE  /\ Announced(s2r', rcv', dt', inbound', snd') /\ Blocks(s2r', snd')
               /\ OneAtATime(snd') /\ Answers(r2s) = {}
    <2>1. Answers(r2s) = {} /\ OneAtATime(snd')
      BY <1>2, <1>8, StopParts DEF Answered
    <2> QED BY <1>1, <1>2, <1>8, <2>1, FrameRead, StopParts
  <1>9. ASSUME UNCHANGED <<inbound, r2s, rcv>>, s2r' = Tail(s2r),
               f # NoFile => Opens(m) /\ dt'[f] = At(m)
        PROVE  DInv'
    <2>1. rcv'.in # NoFile => rcv'.in \notin inbound' /\ rcv'.rules[rcv'.in] = "take"
      BY <1>9 DEF DInv
    <2>2. rcv'.skipAll => rcv'.in = NoFile /\ rcv'.complete = NoFile
      BY <1>9 DEF DInv
    <2>3. rcv'.up /\ ~rcv'.skipAll => Chain(s2r', rcv', dt', snd')
      <3>1. rcv'.in # NoFile => Opens(m) /\ rcv'.in = m.f /\ dt'[rcv'.in] = At(m)
        BY <1>6, <1>9
      <3> HIDE DEF m
      <3> QED BY <1>2, <1>7, <1>9, <3>1
    <2>4. ASSUME Paced' PROVE Stops'
      <3>1. Paced
        BY <1>2, <1>9, <2>4 DEF Paced
      <3>2. Answered(s2r', r2s', rcv', dt', inbound', snd')
        BY <1>8, <1>9, <3>1, NoAnswers
      <3> QED BY <1>8, <1>9, <3>1, <3>2 DEF Stops, StopAndWait
    <2> QED BY <1>4, <2>1, <2>2, <2>3, <2>4, DInvNext
  <1>14. f # NoFile => len \in Int /\ Size[f] \in Nat
    BY <1>1, <1>3, <1>6, FilesAssumption DEF Absent
  <1>10. CASE f = NoFile
    <2>1. UNCHANGED <<inbound, r2s, rcv>> /\ s2r' = Tail(s2r)
      BY <1>10 DEF RecvData
    <2> QED BY <1>9, <1>10, <2>1
  <1>11. CASE f # NoFile /\ len < Size[f]
    <2>1. UNCHANGED <<inbound, r2s, rcv>> /\ s2r' = Tail(s2r) /\ dt' = [dt EXCEPT ![f] = len]
      BY <1>2, <1>11, FilesAssumption, <1>3, <1>6 DEF RecvData
    <2>2. dt'[f] = At(m)
      BY <1>1, <1>6, <1>11, <2>1
    <2>3. At(m) # Size[f] /\ m.f = f
      BY <1>6, <1>11, <1>14
    <2>4. Opens(m)
      BY <1>2, <1>11, <2>3 DEF Opens, Final, At
    <2> QED BY <1>9, <2>1, <2>2, <2>4
  <1>12. CASE f # NoFile /\ len = Size[f]
    <2>1. FileComplete(f) /\ s2r' = Tail(s2r) /\ r2s' = ToS(M_GOT(f))
      BY <1>2, <1>3, <1>6, <1>12, FilesAssumption DEF RecvData
    <2>2. rcv'.in = NoFile /\ rcv'.up = rcv.up /\ rcv'.skipAll = rcv.skipAll
      BY <1>1, <2>1 DEF FileComplete, RenameAtOnce, OneMore, RcvStates
    <2>3. rcv'.up /\ ~rcv'.skipAll => Chain(s2r', rcv', dt', snd')
      <3> HIDE DEF m
      <3> QED BY <1>2, <1>7, <2>1, <2>2
    <2>4. ASSUME Paced' PROVE Stops'
      <3>1. Paced
        BY <1>2, <2>2, <2>4 DEF Paced
      <3>2. Final(m)
        BY <1>6, <1>12 DEF Final, At
      <3>3. /\ 1 = Len(s2r) /\ snd.waitGOT /\ ~snd.sendEof
            /\ m.f \in {snd.out} \cup snd.sent
        <4>1. 1 \in 1..Len(s2r)
          BY <1>1, <1>2, TailIndex
        <4> QED BY <1>2, <3>1, <3>2, <4>1, StopParts DEF Blocks
      <3>4. s2r' = <<>>
        BY <1>1, <1>2, <2>1, <3>3, TailIndex
      <3> DEFINE a == M_GOT(f)
      <3>5. a \in Replies /\ a.t = "GOT" /\ a.f = m.f
        BY <1>6, <1>12, FrameType DEF M_GOT, Msg
      <3>6. r2s' = Append(r2s, a)
        BY <2>1, <3>1 DEF ToS, Paced
      <3> HIDE DEF a, m
      <3>7. Answer(a, rcv', dt', inbound', snd')
        BY <1>2, <3>3, <3>5 DEF Answer
      <3>8. Answers(r2s) = {}
        BY <1>8, <2>1, <3>1
      <3>9. Answered(s2r', r2s', rcv', dt', inbound', snd')
        BY <1>1, <1>2, <2>2, <3>3, <3>4, <3>5, <3>6, <3>7, <3>8, OneAnswer
      <3> QED BY <1>8, <2>1, <3>1, <3>9 DEF Stops, StopAndWait
    <2>5. ~rcv'.skipAll
      BY <1>6, <1>12, <2>2
    <2> QED BY <1>4, <2>2, <2>3, <2>4, <2>5, DInvNext
  <1>13. CASE f # NoFile /\ len > Size[f]
    <2>1. rcv' = RDown
      BY <1>2, <1>3, <1>6, <1>13, FilesAssumption DEF RecvData, ReceiverQuits
    <2>2. rcv'.in = NoFile /\ ~rcv'.up /\ ~rcv'.skipAll
      BY <2>1 DEF RDown, RcvInit
    <2> QED BY <1>4, <2>2, DInvNext DEF Paced
  <1>15. f = NoFile \/ len < Size[f] \/ len = Size[f] \/ len > Size[f]
    <2> HIDE DEF len, f
    <2> QED BY <1>14
  <1> HIDE DEF f, len
  <1> QED BY <1>10, <1>11, <1>12, <1>13, <1>15

(* M_EOB ends the file in reception. *)
LEMMA EobKeeps ==
    ASSUME IInv, DInv, ReceiverEOB
    PROVE  DInv'
  <1>1. TypeOK /\ s2r \in Seq(Commands) /\ rcv \in RcvStates
    BY DEF IInv, TypeOK
  <1>2. rcv.up /\ s2r # <<>> /\ s2r' = Tail(s2r) /\ r2s' = r2s /\ UNCHANGED <<mode, snd>>
    BY DEF ReceiverEOB, ReceiverReads
  <1>3. /\ rcv'.in = NoFile /\ rcv'.up = rcv.up /\ rcv'.skipAll = rcv.skipAll
        /\ rcv'.complete = NoFile
    <2>1. /\ AtEOB \in RcvStates /\ AtEOB.in = NoFile /\ AtEOB.up = rcv.up
          /\ AtEOB.skipAll = rcv.skipAll
      BY <1>1, HeardFields DEF AtEOB, RcvStates
    <2>2. rcv' = CompleteRcv(AtEOB)
      BY DEF ReceiverEOB
    <2>3. rcv'.complete = NoFile
      BY RecvEOB DEF IInv
    <2> QED BY <2>1, <2>2, <2>3 DEF CompleteRcv, RcvStates
  <1>4. mode' # "nd" => ~snd'.sendEof
    BY <1>2 DEF DInv
  <1>5. rcv'.up /\ ~rcv'.skipAll => Chain(s2r', rcv', dt', snd')
    BY <1>1, <1>2, <1>3, ReadChain DEF DInv
  <1>6. ASSUME Paced' PROVE Stops'
    <2>1. Paced
      BY <1>2, <1>3, <1>6 DEF Paced
    <2>2. Answers(r2s) = {} /\ OneAtATime(snd')
      BY <1>2, <2>1, StopParts DEF Answered
    <2>3. Announced(s2r', rcv', dt', inbound', snd') /\ Blocks(s2r', snd')
      BY <1>1, <1>2, <2>1, FrameRead, StopParts
    <2>4. Answered(s2r', r2s', rcv', dt', inbound', snd')
      BY <1>2, <2>2, NoAnswers
    <2> QED BY <2>2, <2>3, <2>4 DEF Stops, StopAndWait
  <1> QED BY <1>3, <1>4, <1>5, <1>6, DInvNext

(* Announced looks at three fields of the receiver, and a file that        *)
(* the tosser takes does not come back into the inbound.                   *)
LEMMA SameAnnounced ==
    ASSUME NEW s, NEW q, NEW r, NEW r2, NEW d, NEW inb, NEW inb2, NEW st,
           r2.in = r.in, r2.complete = r.complete, r2.rules = r.rules, inb2 \subseteq inb
    PROVE  /\ Announced(s, r, d, inb, st) => Announced(s, r2, d, inb2, st)
           /\ Answered(s, q, r, d, inb, st) => Answered(s, q, r2, d, inb2, st)
  <1>1. \A f, o : Fresh(f, o, r, d, inb) => Fresh(f, o, r2, d, inb2)
    BY DEF Fresh
  <1>2. \A m : Answer(m, r, d, inb, st) => Answer(m, r2, d, inb2, st)
    BY <1>1 DEF Answer
  <1>3. Announced(s, r, d, inb, st) => Announced(s, r2, d, inb2, st)
    BY <1>1 DEF Announced
  <1>4. Answered(s, q, r, d, inb, st) => Answered(s, q, r2, d, inb2, st)
    BY <1>2 DEF Answered
  <1> QED BY <1>3, <1>4

(* The receiver reads nothing and keeps its files. *)
LEMMA IdleKeeps ==
    ASSUME IInv, DInv, UNCHANGED <<mode, snd, s2r, dt>>, inbound' \subseteq inbound,
           rcv'.up = rcv.up, rcv'.in = rcv.in, rcv'.complete = rcv.complete,
           rcv'.skipAll = rcv.skipAll, rcv'.rules = rcv.rules,
           r2s' = r2s \/ r2s' = ToS(M_EOB)
    PROVE  DInv'
  <1>1. rcv'.in # NoFile => rcv'.in \notin inbound' /\ rcv'.rules[rcv'.in] = "take"
    BY DEF DInv
  <1>2. rcv'.skipAll => rcv'.in = NoFile /\ rcv'.complete = NoFile
    BY DEF DInv
  <1>3. mode' # "nd" => ~snd'.sendEof
    BY DEF DInv
  <1>4. ASSUME rcv'.up, ~rcv'.skipAll PROVE Chain(s2r', rcv', dt', snd')
    <2>1. Chain(s2r, rcv, dt, snd)
      BY <1>4 DEF DInv
    <2>2. StillSends(snd, snd)
      BY DEF StillSends
    <2>3. Chain(s2r, rcv', dt, snd)
      BY <2>1, <2>2, StillChain
    <2> QED BY <2>3
  <1>5. ASSUME Paced' PROVE Stops'
    <2>1. Paced
      BY <1>5 DEF Paced
    <2>2. /\ Answered(s2r, r2s, rcv', dt, inbound', snd)
          /\ Announced(s2r, rcv', dt, inbound', snd)
          /\ Blocks(s2r, snd) /\ OneAtATime(snd) /\ r2s \in Seq(Replies) /\ snd.up
      BY <2>1, StopParts, SameAnnounced DEF Paced
    <2>3. Answered(s2r, r2s', rcv', dt, inbound', snd)
      <3>1. CASE r2s' = r2s
        BY <2>2, <3>1
      <3>2. CASE r2s' = ToS(M_EOB)
        <4>1. r2s' = Append(r2s, M_EOB)
          BY <2>2, <3>2 DEF ToS
        <4> QED BY <2>2, <4>1, EobAnswers
      <3> QED BY <3>1, <3>2
    <2> QED BY <2>2, <2>3 DEF Stops, StopAndWait
  <1> QED BY <1>1, <1>2, <1>3, <1>4, <1>5, DInvNext

LEMMA RestKeeps ==
    ASSUME IInv, DInv,
           \/ Connect \/ ReceiverSendEOB \/ ReceiverEndBatch \/ ReceiverDrop
           \/ ReceiverCrash \/ InbDoneFails \/ Toss \/ UNCHANGED vars
    PROVE  DInv'
  <1>0. rcv \in RcvStates
    BY DEF IInv, TypeOK
  <1>1. ASSUME rcv' = RDown, UNCHANGED <<mode, snd>>
        PROVE  DInv'
    <2>1. rcv'.in = NoFile /\ ~rcv'.up /\ ~rcv'.skipAll
      BY <1>1 DEF RDown, RcvInit
    <2>2. mode' # "nd" => ~snd'.sendEof
      BY <1>1 DEF DInv
    <2> QED BY <2>1, <2>2, DInvNext DEF Paced
  <1>2. CASE Connect
    <2>1. snd' = SndInit(TRUE) /\ s2r' = <<>> /\ r2s' = <<>>
      BY <1>2 DEF Connect
    <2>2. rcv'.in = NoFile /\ ~rcv'.skipAll
      BY <1>2 DEF Connect, RcvInit
    <2>3. /\ snd'.out = NoFile /\ ~snd'.offReq /\ ~snd'.waitGOT /\ ~snd'.sendEof
          /\ snd'.sent = {}
      BY <2>1 DEF SndInit
    <2>4. Chain(s2r', rcv', dt', snd')
      <3>1. \A i \in 1..(Len(s2r') - 1) : FALSE
        BY <2>1
      <3> QED BY <2>1, <2>3, <3>1 DEF Chain, InTransfer
    <2>5. Answers(r2s') = {}
      BY <2>1 DEF Answers
    <2>6. OneAtATime(snd')
      BY <2>3 DEF OneAtATime
    <2>7. Stops'
      BY <2>1, <2>5, <2>6, NoFrames, NoAnswers DEF Stops, StopAndWait
    <2> QED BY <2>2, <2>3, <2>4, <2>7, DInvNext
  <1>3. CASE ReceiverSendEOB
    <2>1. rcv' = OneMore([rcv EXCEPT !.eob = TRUE])
      BY <1>3 DEF ReceiverSendEOB
    <2>2. /\ rcv'.up = rcv.up /\ rcv'.in = rcv.in /\ rcv'.complete = rcv.complete
          /\ rcv'.skipAll = rcv.skipAll /\ rcv'.rules = rcv.rules
      BY <1>0, <2>1 DEF OneMore, RcvStates
    <2> QED BY <1>3, <2>2, IdleKeeps DEF ReceiverSendEOB
  <1>4. CASE ReceiverEndBatch
    <2>1. CASE rcv' = RDown
      BY <1>1, <1>4, <2>1 DEF ReceiverEndBatch
    <2>2. CASE /\ rcv' = [rcv EXCEPT !.msgs = 0, !.eob = FALSE, !.reob = FALSE]
               /\ UNCHANGED <<dt, s2r>>
      <3>1. /\ rcv'.up = rcv.up /\ rcv'.in = rcv.in /\ rcv'.complete = rcv.complete
            /\ rcv'.skipAll = rcv.skipAll /\ rcv'.rules = rcv.rules
        BY <1>0, <2>2 DEF RcvStates
      <3> QED BY <1>4, <2>2, <3>1, IdleKeeps DEF ReceiverEndBatch
    <2> QED BY <1>4, <2>1, <2>2 DEF ReceiverEndBatch, ReceiverQuits
  <1>5. CASE ReceiverDrop \/ ReceiverCrash \/ InbDoneFails
    BY <1>1, <1>5 DEF ReceiverDrop, ReceiverCrash, InbDoneFails, ReceiverQuits
  <1>6. CASE Toss
    <2>1. inbound' \subseteq inbound /\ UNCHANGED <<mode, snd, s2r, r2s, dt, rcv>>
      BY <1>6 DEF Toss
    <2> QED BY <2>1, IdleKeeps
  <1>7. CASE UNCHANGED vars
    <2>1. inbound' \subseteq inbound /\ UNCHANGED <<mode, snd, s2r, r2s, dt, rcv>>
      BY <1>7 DEF vars
    <2> QED BY <2>1, IdleKeeps
  <1> QED BY <1>2, <1>3, <1>4, <1>5, <1>6, <1>7

(* The empty block of a status is asked for in ND mode only (GET). *)
LEMMA EofInND ==
    ASSUME IInv, DInv, SenderNext, mode # "nd"
    PROVE  ~snd'.sendEof
  <1>0. ~Down.sendEof
    BY DEF Down, SndInit
  <1>1. TypeOK /\ snd \in SndStates /\ ~snd.sendEof
    BY DEF IInv, TypeOK, DInv
  <1>2. CASE StartFile \/ StartStatus
    BY <1>1, <1>2, AnnounceFields
  <1>3. CASE SendData
    BY <1>1, <1>3, SendDataFields
  <1>4. CASE SendStatusEof \/ SendEOB \/ SenderEndBatch
    <2>1. CASE SendStatusEof
      BY <1>1, <2>1 DEF SendStatusEof, SndStates
    <2>2. CASE SendEOB
      BY <1>1, <2>2 DEF SendEOB, OneMore, SndStates
    <2>3. CASE SenderEndBatch
      BY <1>0, <1>1, <2>3 DEF SenderEndBatch, SndStates
    <2> QED BY <1>4, <2>1, <2>2, <2>3
  <1>5. CASE GET
    BY <1>0, <1>1, <1>5, GETFields DEF we_nd
  <1>6. CASE GOT
    BY <1>1, <1>6, GOTFields
  <1>7. CASE SKIP
    BY <1>0, <1>1, <1>7, SKIPFields
  <1>8. CASE SenderEOB
    BY <1>1, <1>8, ReadFields DEF SenderEOB, SndStates
  <1>9. CASE GOTCrash \/ GOTStcFails \/ SenderDrop
    BY <1>9 DEF GOTCrash, GOTStcFails, SenderDrop, SenderQuits, Down, SndInit
  <1> QED BY <1>2, <1>3, <1>4, <1>5, <1>6, <1>7, <1>8, <1>9 DEF SenderNext

LEMMA SenderKeeps ==
    ASSUME IInv, DInv, SenderNext
    PROVE  DInv'
  <1>1. UNCHANGED <<rcv, dt, inbound, mode>>
    BY DEF SenderNext, StartFile, StartStatus, SendData, SendStatusEof, SendEOB,
       SenderEndBatch, GET, GOT, GOTCrash, GOTStcFails, SKIP, SenderEOB, SenderDrop
  <1>2. rcv'.in # NoFile => rcv'.in \notin inbound' /\ rcv'.rules[rcv'.in] = "take"
    BY <1>1 DEF DInv
  <1>3. rcv'.skipAll => rcv'.in = NoFile /\ rcv'.complete = NoFile
    BY <1>1 DEF DInv
  <1>4. mode' # "nd" => ~snd'.sendEof
    BY <1>1, EofInND
  <1>5. rcv'.up /\ ~rcv'.skipAll => Chain(s2r', rcv', dt', snd')
    BY <1>1, SendsChain, HearsChain DEF SenderNext
  <1>6. ASSUME Paced' PROVE Stops'
    <2>1. snd.up
      BY DEF SenderNext, StartFile, StartStatus, SendData, SendStatusEof, SendEOB, MayStart,
         SenderEndBatch, GET, GOT, GOTCrash, GOTStcFails, SKIP, SenderEOB, SenderDrop,
         SenderReads
    <2>2. Paced /\ snd'.up
      BY <1>1, <1>6, <2>1 DEF Paced
    <2>3. ~(GOTCrash \/ GOTStcFails \/ SenderDrop)
      BY <2>2 DEF GOTCrash, GOTStcFails, SenderDrop, SenderQuits, Down, SndInit
    <2> QED BY <1>1, <2>2, <2>3, StartStops, SendStops, BatchStops, ReplyStops DEF SenderNext
  <1> QED BY <1>2, <1>3, <1>4, <1>5, <1>6, DInvNext

LEMMA InitDInv == Init => DInv
  <1> SUFFICES ASSUME Init PROVE DInv
    OBVIOUS
  <1>1. ~rcv.up /\ rcv.in = NoFile /\ ~rcv.skipAll /\ ~snd.sendEof
    BY DEF Init, RDown, RcvInit, Down, SndInit
  <1> QED BY <1>1 DEF DInv

LEMMA NextDInv == IInv /\ DInv /\ [Next]_vars => DInv'
  BY SenderKeeps, RecvKeeps, DataKeeps, EobKeeps, RestKeeps DEF Next, ReceiverNext

LEMMA DInvBelongs == IInv /\ DInv => DataBelongs
  <1> SUFFICES ASSUME IInv, DInv, rcv.up, rcv.in # NoFile, s2r # <<>>, Head(s2r).t = "DATA"
               PROVE  Head(s2r).f = rcv.in /\ Head(s2r).off = dt[rcv.in]
    BY DEF DataBelongs
  <1>1. Head(s2r) = s2r[1]
    BY TailIndex DEF IInv, TypeOK
  <1>2. Chain(s2r, rcv, dt, snd)
    BY DEF DInv
  <1> QED BY <1>1, <1>2 DEF Chain, Fits

-----------------------------------------------------------------------------
(*                   The invariants of the transfer                        *)

(* What has been sent to a mailer that has left is lost. *)
Deaf == ~snd.up => r2s = <<>>

LEMMA InitDeaf == Init => Deaf
  BY DEF Init, Deaf

LEMMA SenderHears ==
    ASSUME TypeOK, SenderNext
    PROVE  snd'.up \/ r2s' = <<>>
  <1> DEFINE m == Head(r2s)
  <1>1. snd \in SndStates /\ Read \in SndStates /\ Read.up = snd.up
    BY ReadType, OneMoreSnd DEF TypeOK, Read
  <1>2. \A st \in SndStates : OneMore(st).up = st.up
    BY OneMoreSnd
  <1>3. CASE StartFile \/ StartStatus
    <2>1. ASSUME NEW f \in Files, NEW b \in BOOLEAN, NEW rest \in SndStates, rest.up,
                 Announce(f, b, rest)
          PROVE  snd'.up
      BY <2>1 DEF Announce, OneMore, SndStates
    <2>2. snd.up /\ \A f \in snd.q : f \in Files /\ [snd EXCEPT !.q = @ \ {f}] \in SndStates
          /\ [snd EXCEPT !.q = @ \ {f}].up
      BY <1>1, <1>3 DEF StartFile, StartStatus, MayStart, SndStates
    <2>3. CASE StartFile
      BY <2>1, <2>2, <2>3 DEF StartFile
    <2>4. CASE StartStatus
      <3>1. snd.qs \in Files
        BY <1>1, <2>4 DEF StartStatus, SndStates
      <3>2. [snd EXCEPT !.qs = NoFile] \in SndStates /\ [snd EXCEPT !.qs = NoFile].up
        BY <1>1, <2>2 DEF SndStates
      <3> QED BY <2>1, <2>4, <3>1, <3>2 DEF StartStatus
    <2> QED BY <1>3, <2>3, <2>4
  <1>4. CASE SendData \/ SendStatusEof \/ SendEOB
    BY <1>1, <1>4 DEF SendData, SendStatusEof, SendEOB, MayStart, OneMore, SndStates
  <1>5. CASE SenderEndBatch
    BY <1>1, <1>5 DEF SenderEndBatch, SndStates
  <1>6. CASE GET
    <2> DEFINE st == GETReopen(m.f)
    <2>1. snd.up /\ m.f \in Files
      BY <1>6, SenderHead DEF GET, SenderReads
    <2>2. st \in SndStates /\ st.up
      <3>1. st \in SndStates
        BY <2>1, GETReopenType
      <3>2. st.up = Read.up
        BY <1>1 DEF GETReopen, SndStates
      <3> QED BY <1>1, <2>1, <3>1, <3>2
    <2> HIDE DEF st
    <2>3. \A x \in SndStates : GETTail(x) \in SndStates /\ GETTail(x).up = x.up
      <3>1. \A x \in SndStates : GETTail(x) \in SndStates
        BY GETTailType
      <3>2. \A x \in SndStates : GETTail(x).up = x.up
        BY DEF GETTail, SndStates
      <3> QED BY <3>1, <3>2
    <2>4. CASE GETStatusAtEnd(m, st)
      BY <2>2, <2>4 DEF GETStatusAtEnd, OneMore, SndStates
    <2>5. CASE GETStatusElse(m, st)
      <3>1. [st EXCEPT !.out = NoFile, !.status = FALSE] \in SndStates
            /\ [st EXCEPT !.out = NoFile, !.status = FALSE].up
        BY <2>2 DEF SndStates
      <3> QED BY <1>2, <2>3, <2>5, <3>1 DEF GETStatusElse
    <2>6. CASE GETFile(m, st)
      <3>1. m.off \in Nat
        BY <1>6, SenderHead DEF GET
      <3>2. [st EXCEPT !.pos = m.off] \in SndStates /\ [st EXCEPT !.pos = m.off].up
        BY <2>2, <3>1 DEF SndStates
      <3> QED BY <1>2, <2>3, <2>6, <3>2 DEF GETFile
    <2>7. CASE GETDrop(st)
      BY <2>7 DEF GETDrop, SenderQuits
    <2> QED BY <1>6, <2>4, <2>5, <2>6, <2>7 DEF GET, st
  <1>7. CASE GOT
    <2>1. snd' = GOTState(m) /\ Read.up
      BY <1>1, <1>7 DEF GOT, SenderReads
    <2> QED BY <1>1, <2>1 DEF GOTState, SndStates
  <1>8. CASE GOTCrash \/ GOTStcFails \/ SenderDrop
    BY <1>8 DEF GOTCrash, GOTStcFails, SenderDrop, SenderQuits
  <1>9. CASE SKIP
    <2>1. Read.up /\ (snd' = SKIPState(m.f) \/ r2s' = <<>>)
      BY <1>1, <1>9 DEF SKIP, SenderReads, SenderQuits
    <2> QED BY <1>1, <2>1 DEF SKIPState, SndStates
  <1>10. CASE SenderEOB
    BY <1>1, <1>10 DEF SenderEOB, SenderReads, SndStates
  <1> QED BY <1>3, <1>4, <1>5, <1>6, <1>7, <1>8, <1>9, <1>10 DEF SenderNext

LEMMA ReceiverSaysNothing ==
    ASSUME ReceiverNext \/ Toss
    PROVE  snd' = snd /\ (~snd.up => r2s' = r2s)
  <1>1. ~snd.up => \A m : ToS(m) = r2s
    BY DEF ToS
  <1>2. CASE start_file_recv
    BY <1>1, <1>2 DEF start_file_recv, RecvFrom, RecvOpen, Ruled
  <1>3. CASE RecvData
    BY <1>1, <1>3 DEF RecvData
  <1>4. CASE ~start_file_recv /\ ~RecvData
    BY <1>1, <1>4 DEF ReceiverNext, ReceiverEOB, ReceiverSendEOB, ReceiverEndBatch,
                      ReceiverDrop, ReceiverCrash, InbDoneFails, Toss
  <1> QED BY <1>2, <1>3, <1>4

LEMMA NextDeaf == TypeOK /\ Deaf /\ [Next]_vars => Deaf'
  <1> SUFFICES ASSUME TypeOK, Deaf, [Next]_vars PROVE Deaf'
    OBVIOUS
  <1>1. CASE SenderNext
    BY <1>1, SenderHears DEF Deaf
  <1>2. CASE Connect
    BY <1>2 DEF Connect, Deaf
  <1>3. CASE ReceiverNext \/ Toss \/ UNCHANGED vars
    BY <1>3, ReceiverSaysNothing DEF Deaf, vars
  <1> QED BY <1>1, <1>2, <1>3 DEF Next

(* In ND mode a sender that says M_EOB has no file under way, and with one *)
(* frame left to read no answer is under way either.                       *)
LEMMA EOBIsAlone == IInv /\ DInv /\ Deaf => EOBAlone
  <1> SUFFICES ASSUME IInv, DInv, Deaf, ReceiverReads("EOB"), rcv.complete # NoFile
               PROVE  Acked = {}
    BY DEF EOBAlone
  <1>1. rcv.up /\ s2r # <<>> /\ mode = "nd" /\ ~rcv.skipAll
    BY DEF ReceiverReads, IInv, CompleteHeld, we_nd, DInv
  <1>2. CASE ~snd.up
    BY <1>2 DEF Deaf, Acked
  <1>3. CASE snd.up
    <2>1. Answers(r2s) = {}
      BY <1>1, <1>3, StopParts DEF Paced, Answered
    <2> QED BY <2>1 DEF Answers, Acked
  <1> QED BY <1>2, <1>3

(* The inductive invariant: each part needs the others. *)
TInv == IInv /\ DInv /\ Deaf

LEMMA InitTInv == Init => TInv
  BY InitIInv, InitDInv, InitDeaf DEF TInv

LEMMA NextTInv == TInv /\ [Next]_vars => TInv'
  <1> SUFFICES ASSUME TInv, [Next]_vars PROVE TInv'
    OBVIOUS
  <1>1. EOBAlone
    BY EOBIsAlone DEF TInv
  <1>2. IInv'
    BY <1>1, NextIInv DEF TInv
  <1>3. DInv'
    BY NextDInv DEF TInv
  <1>4. Deaf'
    BY NextDeaf DEF TInv, IInv
  <1> QED BY <1>2, <1>3, <1>4 DEF TInv

(* The inductive invariant holds in every reachable state. *)
THEOREM TInvariant == Spec => []TInv
  BY InitTInv, NextTInv, PTL DEF Spec

(* Type correctness: among others, every M_GET names an offset the file    *)
(* has (the .dt of a file in reception exists), for every set of files.    *)
THEOREM TypeCorrect == Spec => []TypeOK
  <1>1. TInv => TypeOK
    BY DEF TInv, IInv
  <1> QED BY <1>1, TInvariant, PTL

(* An M_GOT is never a lie, in any mode, whatever breaks and whatever the  *)
(* receiver's skip rules are: the receiver holds the file, or one of its   *)
(* rules has had it destroyed in this session (recv_block,                 *)
(* start_file_recv).                                                       *)
THEOREM AcknowledgedIsHeld == Spec => []GotMeansHeld
  <1>1. TInv => GotMeansHeld
    BY AckedAreHeld DEF TInv, GotMeansHeld, Acked
  <1> QED BY <1>1, TInvariant, PTL

(* The sender deletes only what the receiver holds, or has ruled in this   *)
(* session that it wants destroyed (GOT, remove_from_spool).               *)
THEOREM SpoolIsSafe == Spec => SpoolSafe
  <1>1. ASSUME IInv, [Next]_vars
        PROVE  [\A f \in spool \ spool' : Held(f) \/ f \in refused]_vars
    <2>1. CASE GOT \/ GOTStcFails
      <3> DEFINE m == Head(r2s)
      <3>1. /\ spool' = GOTSpool(m) /\ r2s # <<>> /\ m.t = "GOT"
            /\ r2s \in Seq(Replies)
        BY <1>1, <2>1 DEF GOT, GOTStcFails, SenderReads, IInv, TypeOK
      <3>2. m = r2s[1] /\ 1 \in 1..Len(r2s)
        BY <3>1, StreamIndex
      <3>3. m.f \in Acked
        BY <3>1, <3>2 DEF Acked
      <3>4. spool \ spool' \subseteq {m.f}
        BY <3>1 DEF GOTSpool
      <3> QED BY <1>1, <3>3, <3>4, AckedAreHeld
    <2>2. CASE ~(GOT \/ GOTStcFails)
      <3>1. UNCHANGED spool
        BY <1>1, <2>2 DEF Next, SenderNext, ReceiverNext, Connect, disks, Toss,
           StartFile, StartStatus, SendData, SendStatusEof, SendEOB, SenderEndBatch,
           GET, GOTCrash, SKIP, SenderEOB, SenderDrop, start_file_recv, RecvData,
           ReceiverEOB, ReceiverSendEOB, ReceiverEndBatch, ReceiverDrop,
           ReceiverCrash, InbDoneFails, vars
      <3> QED BY <3>1
    <2> QED BY <2>1, <2>2
  <1>2. TInv => IInv
    BY DEF TInv
  <1> QED BY <1>1, <1>2, TInvariant, PTL DEF Spec, SpoolSafe

(* Every block that recv_block writes belongs to the file the receiver has *)
(* open and continues it exactly where its .dt ends, in each of the three  *)
(* modes and in whatever order sessions break, though data frames name no  *)
(* file: the offsets that GET and start_file_recv settle keep the two in   *)
(* step.                                                                   *)
THEOREM BlocksBelong == Spec => []DataBelongs
  <1>1. TInv => DataBelongs
    BY DInvBelongs DEF TInv
  <1> QED BY <1>1, TInvariant, PTL

-----------------------------------------------------------------------------
(***************************************************************************)
(* The proof that ND mode loses no file (NoLoss of BinkpTransfer), on a    *)
(* link that keeps to ND mode or never uses it, with sessions broken and   *)
(* mailers stopped anywhere. The sender deletes a file on its M_GOT, while *)
(* the receiver renames it only at the next M_FILE or M_EOB; between the   *)
(* two the file is in doubt, and it is the .stc that brings the mailers    *)
(* back to it. The invariant is that there is one file in doubt at most    *)
(* and the .stc names it: the sender, as long as the status is not         *)
(* settled, sends nothing else; it forgets the status only on an answer    *)
(* that shows the file renamed; and two M_EOBs alone end a session, so     *)
(* that the batch in which a file was acknowledged is never the last one.  *)
(*                                                                         *)
(* The part after it shows that it delivers no file twice (NoDup).         *)
(***************************************************************************)
(* The links the theorem is about, the instance of transfer_live among     *)
(* them: ND mode is kept or never used, the outbound scan lists the .stc   *)
(* first, the .stc can be written, and a file is neither empty nor a .pkt  *)
(* (a partial of those is not kept).                                       *)
Steady ==
    /\ StatusFirst /\ {"stc", "eobrename"} \cap Faults = {}
    /\ Pkts = {} /\ \A f \in Files : Size[f] > 0
    /\ \A m \in Modes : \A n \in NextModes[m] : n = "nd" <=> m = "nd"

(* A file the receiver had destroyed needs no delivery any more. *)
Taken(dl, rf) == [f \in Files |-> IF f \in rf THEN 1 ELSE dl[f]]
taken == Taken(delivered, refused)

(* The files that have left the spool and are neither delivered nor        *)
(* destroyed by a rule of the receiver.                                    *)
Doubt(sp, dl) == {f \in Files \ sp : dl[f] = 0}

(* No file is in doubt, nor will be when the sender reads the answers q. *)
Settled(sp, dl, q) ==
    /\ Doubt(sp, dl) = {}
    /\ \A i \in 1..Len(q) : q[i].t = "GOT" => dl[q[i].f] > 0

(* ... and it stays so, for the receiver takes no file any more. *)
Over(sp, dl, q, r) == Settled(sp, dl, q) /\ (r.up => r.skipAll)

(* The sender, in state st, has the status to send or to settle still. *)
IsStatus(st) == st.out # NoFile /\ st.status
Unresolved(st) == st.qs # NoFile \/ IsStatus(st)

(* The status is sent before anything else, and alone. *)
Waiting(s, q, st, sc) ==
    st.qs # NoFile =>
        /\ st.qs = sc /\ st.out = NoFile /\ st.sent = {}
        /\ s = <<>> /\ Answers(q) = {}
        /\ ~st.offReq /\ ~st.waitGOT
Alone(s, q, st, sc) ==
    IsStatus(st) =>
        /\ st.qs = NoFile /\ st.out = sc /\ st.sent = {} /\ (st.offReq \/ st.waitGOT)
        /\ \A i \in 1..Len(s) : s[i].t = "FILE" => s[i].f = st.out
        /\ \A i \in Answers(q) : q[i].f = st.out

(* Whatever the sender reads, the .stc will name the file in doubt: there  *)
(* is one answer at most, which is about that file, or the status is       *)
(* skipped, and that ends the session.                                     *)
Reading(m, D, st) ==
    \/ /\ m.t = "GET" /\ IsStatus(st) /\ st.offReq
       /\ m.f = st.out /\ m.off = Size[m.f]
    \/ /\ m.t = "GOT" /\ st.waitGOT /\ ~st.offReq
       /\ m.f \in {st.out} \cup st.sent /\ D \subseteq {m.f}
OneToRead(q, D, st) ==
    /\ \A i, j \in Answers(q) : i = j
    /\ \A i \in Answers(q) : Reading(q[i], D, st) /\ ~st.sendEof
Refused(q, st) == IsStatus(st) /\ \A i \in Answers(q) : q[i].t = "SKIP"
AnswersSafe(sp, dl, q, st) ==
    \/ Settled(sp, dl, q)
    \/ Refused(q, st)
    \/ OneToRead(q, Doubt(sp, dl), st)

(* The receiver has sent one M_EOB at most, and by the time the sender has *)
(* read it, it has read k other messages at least.                         *)
EobAt(q) == {i \in 1..Len(q) : q[i].t = "EOB"}
Counts(k, q, st, r) ==
    /\ \A i, j \in EobAt(q) : i = j
    /\ st.reob => EobAt(q) = {} /\ st.msgs >= k + 1
    /\ EobAt(q) # {} => st.msgs >= k
    /\ r.up /\ ~r.eob => EobAt(q) = {} /\ ~st.reob /\ st.msgs >= k
    /\ r.up => ~r.reob

(* A sender with work to do is in its first batch; a file that is neither  *)
(* announced nor waited for has been asked for, by an M_GET that it read.  *)
Work(st) == st.q # {} \/ st.qs # NoFile \/ st.out # NoFile \/ st.sent # {}
FirstBatch(s, q, st, r) ==
    Work(st) =>
        /\ ~st.eob /\ EobAt(s) = {} /\ Counts(0, q, st, r)
        /\ st.waitGOT \/ (st.out # NoFile /\ ~st.offReq) => Counts(1, q, st, r)

(* While a file is in doubt the batch is not taken for an empty one (two   *)
(* messages), and a receiver that is up still has the file in in_complete. *)
Counted(q, D, st, r) == ~Unresolved(st) /\ D # {} => Counts(2, q, st, r)
Placed(D, st, r) == r.up /\ ~Unresolved(st) => D \subseteq {r.complete}
Skipping(q, st, r) == r.up /\ r.skipAll => r.complete = NoFile /\ Refused(q, st)

SndKnows(s, q, sp, dl, sc, st, r) ==
    /\ Waiting(s, q, st, sc) /\ Alone(s, q, st, sc)
    /\ AnswersSafe(sp, dl, q, st) /\ FirstBatch(s, q, st, r)
    /\ Counted(q, Doubt(sp, dl), st, r) /\ Placed(Doubt(sp, dl), st, r)
    /\ Skipping(q, st, r)
    /\ st.sendEof => IsStatus(st)

(* A file in doubt is whole in its .dt and is the one the .stc names. *)
StcNames(D, d, sc) == \A g \in D : d[g] = Size[g] /\ sc = g

(* When the sender has left after its last M_EOB, the receiver will still  *)
(* rename the file in doubt.                                               *)
LastWord(s, D, st, r) ==
    r.up /\ ~st.up /\ (EobAt(s) # {} \/ r.reob) => D \subseteq {r.complete}

Within(s) ==
    \A i \in 1..Len(s) : s[i].t = "DATA" /\ s[i].n = 1 =>
        s[i].f # NoFile /\ s[i].off < Size[s[i].f]

Ended == Over(spool, taken, r2s, rcv)
Knows == SndKnows(s2r, r2s, spool, taken, stc, snd, rcv)
NDInv ==
    /\ StcNames(Doubt(spool, taken), dt, stc)
    /\ LastWord(s2r, Doubt(spool, taken), snd, rcv)
    /\ snd.up => Ended \/ Knows

LInv ==
    /\ Within(s2r)
    /\ mode # "nd" => Settled(spool, taken, r2s)
    /\ mode = "nd" => NDInv

-----------------------------------------------------------------------------
(*                        M_EOBs and other answers                         *)

(* The answers and the M_EOBs of a stream after its first frame is read. *)
LEMMA TailAnswers ==
    ASSUME NEW S, NEW q \in Seq(S), q # <<>>
    PROVE  /\ \A i \in Answers(Tail(q)) : i \in Nat /\ i + 1 \in Answers(q) /\ Tail(q)[i] = q[i + 1]
           /\ \A i \in EobAt(Tail(q)) : i \in Nat \ {0} /\ i + 1 \in EobAt(q)
           /\ q[1].t = "EOB" <=> 1 \in EobAt(q)
           /\ q[1].t # "EOB" <=> 1 \in Answers(q)
  <1>1. /\ Len(q) \in Nat \ {0} /\ Len(Tail(q)) = Len(q) - 1
        /\ \A i \in 1..Len(Tail(q)) : Tail(q)[i] = q[i + 1]
    BY TailIndex
  <1> DEFINE z == Tail(q)
  <1> HIDE DEF z
  <1>2. \A i \in 1..Len(z) : i \in Nat \ {0} /\ i + 1 \in 1..Len(q) /\ z[i] = q[i + 1]
    BY <1>1 DEF z
  <1>3. \A i \in Answers(z) : i \in Nat /\ i + 1 \in Answers(q) /\ z[i] = q[i + 1]
    BY <1>2 DEF Answers
  <1>4. \A i \in EobAt(z) : i \in Nat \ {0} /\ i + 1 \in EobAt(q)
    BY <1>2 DEF EobAt
  <1>5. 1 \in 1..Len(q)
    BY <1>1
  <1> QED BY <1>3, <1>4, <1>5 DEF z, EobAt, Answers

(* ... and after one is sent. *)
LEMMA AppendAnswers ==
    ASSUME NEW S, NEW q \in Seq(S), NEW m \in S
    PROVE  /\ \A i \in Answers(Append(q, m)) :
                 \/ i \in Answers(q) /\ Append(q, m)[i] = q[i]
                 \/ m.t # "EOB" /\ i = Len(q) + 1 /\ Append(q, m)[i] = m
           /\ \A i \in EobAt(Append(q, m)) :
                 i \in EobAt(q) \/ (m.t = "EOB" /\ i = Len(q) + 1)
           /\ m.t = "EOB" => EobAt(Append(q, m)) # {}
  <1> DEFINE z == Append(q, m)
  <1>1. /\ Len(q) \in Nat /\ Len(z) = Len(q) + 1
        /\ \A i \in 1..Len(q) : z[i] = q[i]
        /\ z[Len(q) + 1] = m
    BY AppendIndex
  <1> HIDE DEF z
  <1>2. \A i \in 1..Len(z) : (i \in 1..Len(q) /\ z[i] = q[i]) \/ (i = Len(q) + 1 /\ z[i] = m)
    BY <1>1
  <1>3. Len(q) + 1 \in 1..Len(z)
    BY <1>1
  <1> QED BY <1>1, <1>2, <1>3 DEF z, EobAt, Answers

LEMMA CappedMore ==
    ASSUME NEW n \in Nat
    PROVE  /\ Capped(n) \in Nat /\ Capped(n) >= n
           /\ \A k \in {0, 1, 2} : n >= k => Capped(n) >= k + 1
  BY DEF Capped

LEMMA CountsLess ==
    ASSUME NEW q, NEW st, st.msgs \in Nat, NEW r
    PROVE  /\ Counts(2, q, st, r) => Counts(1, q, st, r)
           /\ Counts(1, q, st, r) => Counts(0, q, st, r)
  <1>1. /\ st.msgs >= 3 => st.msgs >= 2
        /\ st.msgs >= 2 => st.msgs >= 1
        /\ st.msgs >= 1 => st.msgs >= 0
    OBVIOUS
  <1>2. Counts(2, q, st, r) => Counts(1, q, st, r)
    BY <1>1 DEF Counts
  <1>3. Counts(1, q, st, r) => Counts(0, q, st, r)
    BY <1>1 DEF Counts
  <1> QED BY <1>2, <1>3

(* The sender reads an answer. *)
LEMMA CountsRead ==
    ASSUME NEW q \in Seq(Replies), q # <<>>, q[1].t # "EOB", NEW st, st.msgs \in Nat, NEW st2,
           st2.msgs \in Nat, st2.msgs >= Capped(st.msgs), st2.reob = st.reob, NEW r,
           NEW k \in {0, 1}, Counts(k, q, st, r)
    PROVE  Counts(k + 1, Tail(q), st2, r)
  <1>1. \A i \in EobAt(Tail(q)) : i \in Nat /\ i + 1 \in EobAt(q)
    BY TailAnswers
  <1>2. EobAt(q) = {} => EobAt(Tail(q)) = {}
    BY <1>1
  <1>3. ASSUME NEW i \in EobAt(Tail(q)), NEW j \in EobAt(Tail(q)) PROVE i = j
    <2>1. i + 1 = j + 1
      BY <1>1 DEF Counts
    <2> QED BY <1>1, <2>1
  <1>4. /\ st.msgs >= k => st2.msgs >= k + 1
        /\ st.msgs >= k + 1 => st2.msgs >= (k + 1) + 1
    <2>1. k \in {0, 1, 2} /\ k + 1 \in {0, 1, 2}
      OBVIOUS
    <2>3. Capped(st.msgs) \in Nat
      BY CappedMore
    <2>2. /\ st.msgs >= k => Capped(st.msgs) >= k + 1
          /\ st.msgs >= k + 1 => Capped(st.msgs) >= (k + 1) + 1
      BY <2>1, CappedMore
    <2> QED BY <2>2, <2>3
  <1>5. EobAt(Tail(q)) # {} => EobAt(q) # {}
    BY <1>1
  <1> QED BY <1>2, <1>3, <1>4, <1>5 DEF Counts

(* ... or the M_EOB. *)
LEMMA CountsEob ==
    ASSUME NEW q \in Seq(Replies), q # <<>>, q[1].t = "EOB", NEW st, st.msgs \in Nat, NEW st2,
           st2.msgs \in Nat, st2.msgs >= Capped(st.msgs), NEW r, NEW k \in {0, 1, 2},
           Counts(k, q, st, r)
    PROVE  Counts(k, Tail(q), st2, r)
  <1>1. 1 \in EobAt(q)
    BY TailAnswers
  <1>2. EobAt(Tail(q)) = {}
    <2> SUFFICES ASSUME NEW i \in EobAt(Tail(q)) PROVE FALSE
      OBVIOUS
    <2>1. i \in Nat \ {0} /\ i + 1 \in EobAt(q)
      BY TailAnswers
    <2>2. i + 1 = 1
      BY <1>1, <2>1 DEF Counts
    <2> QED BY <2>1, <2>2
  <1>3. st.msgs >= k
    BY <1>1 DEF Counts
  <1>6. Capped(st.msgs) \in Nat /\ Capped(st.msgs) >= k + 1
    BY <1>3, CappedMore
  <1>4. st2.msgs >= k + 1
    BY <1>6
  <1>5. ~(r.up /\ ~r.eob)
    BY <1>1 DEF Counts
  <1> QED BY <1>2, <1>4, <1>5 DEF Counts

(* The receiver answers, ... *)
LEMMA CountsReply ==
    ASSUME NEW q \in Seq(Replies), NEW m \in Replies, m.t # "EOB", NEW st, NEW r, NEW r2,
           r2.up = r.up, r2.eob = r.eob, r2.reob = r.reob, NEW k, Counts(k, q, st, r)
    PROVE  Counts(k, Append(q, m), st, r2)
  <1>1. \A i \in EobAt(Append(q, m)) : i \in EobAt(q)
    BY AppendAnswers
  <1>2. EobAt(q) = {} => EobAt(Append(q, m)) = {}
    BY <1>1
  <1> QED BY <1>1, <1>2 DEF Counts

(* ... says M_EOB for the only time ... *)
LEMMA CountsSend ==
    ASSUME NEW q \in Seq(Replies), NEW st, NEW r, r.up, ~r.eob, NEW r2, r2.up, r2.eob,
           r2.reob = r.reob, NEW k, Counts(k, q, st, r)
    PROVE  Counts(k, Append(q, M_EOB), st, r2)
  <1>1. M_EOB \in Replies
    BY FrameType
  <1>2. EobAt(q) = {} /\ ~st.reob /\ st.msgs >= k /\ ~r.reob
    BY DEF Counts
  <1>3. \A i \in EobAt(Append(q, M_EOB)) : i = Len(q) + 1
    BY <1>1, <1>2, AppendAnswers
  <1> QED BY <1>2, <1>3 DEF Counts

(* ... or goes on, or leaves. *)
LEMMA CountsSame ==
    ASSUME NEW q, NEW st, st.msgs \in Nat, NEW st2, st2.msgs \in Nat, st2.msgs >= st.msgs,
           st2.reob = st.reob, NEW r, NEW r2, r2.up => r.up /\ r2.eob = r.eob /\ r2.reob = r.reob,
           NEW k \in Nat, Counts(k, q, st, r)
    PROVE  Counts(k, q, st2, r2)
  BY DEF Counts

-----------------------------------------------------------------------------
(*                            Files in doubt                               *)

Grows(dl, dl2) == \A f \in Files : dl[f] > 0 => dl2[f] > 0

LEMMA DoubtLess ==
    ASSUME NEW sp, NEW dl \in [Files -> Nat], NEW dl2 \in [Files -> Nat], Grows(dl, dl2)
    PROVE  Doubt(sp, dl2) \subseteq Doubt(sp, dl)
  BY DEF Grows, Doubt

(* The sender reads an answer; an M_GOT takes the file it names out of the *)
(* spool.                                                                  *)
LEMMA SettledRead ==
    ASSUME NEW q \in Seq(Replies), q # <<>>, NEW sp, NEW sp2, NEW dl \in [Files -> Nat],
           sp2 = sp \/ (q[1].t = "GOT" /\ sp2 = sp \ {q[1].f}), Settled(sp, dl, q)
    PROVE  Doubt(sp2, dl) = {} /\ Settled(sp2, dl, Tail(q))
  <1>1. /\ Len(q) \in Nat \ {0} /\ Len(Tail(q)) = Len(q) - 1
        /\ \A i \in 1..Len(Tail(q)) : Tail(q)[i] = q[i + 1]
    BY TailIndex
  <1>2. \A i \in 1..Len(Tail(q)) : Tail(q)[i] = q[i + 1] /\ i + 1 \in 1..Len(q)
    BY <1>1
  <1>3. \A i \in 1..Len(Tail(q)) : Tail(q)[i].t = "GOT" => dl[Tail(q)[i].f] > 0
    BY <1>2 DEF Settled
  <1>4. q[1].t = "GOT" => dl[q[1].f] > 0
    <2>1. 1 \in 1..Len(q)
      BY <1>1
    <2> QED BY <2>1 DEF Settled
  <1>5. Doubt(sp2, dl) = {}
    BY <1>4 DEF Settled, Doubt
  <1> QED BY <1>3, <1>5 DEF Settled

(* The receiver renames files, and answers. *)
LEMMA SettledReply ==
    ASSUME NEW q \in Seq(Replies), NEW sp, NEW dl \in [Files -> Nat],
           NEW dl2 \in [Files -> Nat], Grows(dl, dl2), Settled(sp, dl, q),
           NEW m \in Replies, m.t = "GOT" => dl2[m.f] > 0
    PROVE  Settled(sp, dl2, q) /\ Settled(sp, dl2, Append(q, m))
  <1>1. Doubt(sp, dl2) = {}
    BY DoubtLess DEF Settled
  <1>2. \A i \in 1..Len(q) : q[i].t = "GOT" => dl2[q[i].f] > 0
    <2> SUFFICES ASSUME NEW i \in 1..Len(q), q[i].t = "GOT" PROVE dl2[q[i].f] > 0
      OBVIOUS
    <2>1. q[i].f \in Files
      BY FrameFields
    <2> QED BY <2>1 DEF Settled, Grows
  <1> DEFINE z == Append(q, m)
  <1>3. /\ Len(q) \in Nat /\ Len(z) = Len(q) + 1
        /\ \A i \in 1..Len(q) : z[i] = q[i]
        /\ z[Len(q) + 1] = m
    BY AppendIndex
  <1> HIDE DEF z
  <1>4. \A i \in 1..Len(z) : (i \in 1..Len(q) /\ z[i] = q[i]) \/ z[i] = m
    BY <1>3
  <1>5. \A i \in 1..Len(z) : z[i].t = "GOT" => dl2[z[i].f] > 0
    BY <1>2, <1>4
  <1> QED BY <1>1, <1>2, <1>5 DEF Settled, z

(* No answer but M_EOBs and skips. *)
LEMMA SettledNone ==
    ASSUME NEW q, NEW sp, NEW dl, Doubt(sp, dl) = {},
           \A i \in Answers(q) : q[i].t # "GOT"
    PROVE  Settled(sp, dl, q)
  BY DEF Settled, Answers

LEMMA DoubtFiles ==
    ASSUME NEW sp, NEW dl
    PROVE  Doubt(sp, dl) \subseteq Files
  BY DEF Doubt

LEMMA TakenType ==
    ASSUME TypeOK
    PROVE  /\ taken \in [Files -> Nat]
           /\ \A f \in Files : taken[f] > 0 <=> delivered[f] > 0 \/ f \in refused
  BY DEF taken, Taken, TypeOK

LEMMA TakenTypes ==
    ASSUME TypeOK, TypeOK'
    PROVE  taken \in [Files -> Nat] /\ taken' \in [Files -> Nat]
  <1>1. taken' \in [Files -> Nat]
    BY DEF taken, Taken, TypeOK
  <1> QED BY <1>1, TakenType

LEMMA TakenSame ==
    ASSUME UNCHANGED <<delivered, refused>>
    PROVE  taken' = taken
  BY DEF taken, Taken

(* What a step of the sender does to the spool and to what it has read. *)
LEMMA SenderSpool ==
    ASSUME TypeOK, SenderNext
    PROVE  /\ UNCHANGED <<delivered, refused, taken, rcv, dt, inbound, mode>> /\ snd.up
           /\ r2s' = r2s \/ (r2s # <<>> /\ r2s' = Tail(r2s)) \/ r2s' = <<>>
           /\ \/ spool' = spool
              \/ /\ r2s # <<>> /\ r2s' \in {Tail(r2s), <<>>} /\ Head(r2s).t = "GOT"
                 /\ spool' = spool \ {Head(r2s).f}
  <1>0. UNCHANGED <<delivered, refused, rcv, dt, inbound, mode>> /\ snd.up
    BY DEF SenderNext, StartFile, StartStatus, SendData, SendStatusEof, SendEOB, MayStart,
       SenderEndBatch, GET, GOT, GOTCrash, GOTStcFails, SKIP, SenderEOB, SenderDrop, SenderReads
  <1>1. UNCHANGED <<delivered, refused, taken, rcv, dt, inbound, mode>> /\ snd.up
    BY <1>0, TakenSame
  <1>2. CASE StartFile \/ StartStatus \/ SendData \/ SendStatusEof \/ SendEOB
    BY <1>1, <1>2 DEF StartFile, StartStatus, SendData, SendStatusEof, SendEOB
  <1>3. CASE SenderEndBatch \/ SKIP \/ SenderEOB \/ SenderDrop
    BY <1>1, <1>3 DEF SenderEndBatch, SKIP, SenderEOB, SenderDrop, SenderQuits, SenderReads
  <1>4. CASE GET
    <2>1. spool' = spool /\ r2s # <<>>
      BY <1>4 DEF GET, SenderReads
    <2>2. r2s' = Tail(r2s) \/ r2s' = <<>>
      BY <1>4 DEF GET, GETStatusAtEnd, GETStatusElse, GETFile, GETDrop, SenderQuits
    <2> QED BY <1>1, <2>1, <2>2
  <1>5. CASE GOT \/ GOTCrash \/ GOTStcFails
    <2>1. /\ r2s # <<>> /\ Head(r2s).t = "GOT" /\ r2s' \in {Tail(r2s), <<>>}
          /\ spool' \in {spool, GOTSpool(Head(r2s))}
      BY <1>5 DEF GOT, GOTCrash, GOTStcFails, SenderReads, SenderQuits
    <2>2. GOTSpool(Head(r2s)) \in {spool, spool \ {Head(r2s).f}}
      BY DEF GOTSpool
    <2> QED BY <1>1, <2>1, <2>2
  <1> QED BY <1>2, <1>3, <1>4, <1>5 DEF SenderNext

LEMMA SenderSettled ==
    ASSUME TypeOK, SenderNext, Settled(spool, taken, r2s)
    PROVE  Settled(spool', taken', r2s')
  <1>1. /\ r2s \in Seq(Replies) /\ taken \in [Files -> Nat] /\ taken' = taken
    BY SenderSpool, TakenType DEF TypeOK
  <1>2. r2s # <<>> => Head(r2s) = r2s[1]
    BY <1>1, TailIndex
  <1>3. CASE r2s' = r2s /\ spool' = spool
    BY <1>1, <1>3
  <1>4. CASE r2s # <<>> /\ (spool' = spool \/ (r2s[1].t = "GOT" /\ spool' = spool \ {r2s[1].f}))
    <2>1. Doubt(spool', taken) = {} /\ Settled(spool', taken, Tail(r2s))
      BY <1>1, <1>4, SettledRead
    <2>2. CASE r2s' = Tail(r2s)
      BY <1>1, <2>1, <2>2
    <2>3. CASE r2s' = <<>>
      <3>1. Answers(<<>>) = {}
        BY DEF Answers
      <3> QED BY <1>1, <2>1, <2>3, <3>1, SettledNone
    <2>4. CASE r2s' = r2s /\ spool' = spool
      BY <1>3, <2>4
    <2>5. r2s' = Tail(r2s) \/ r2s' = <<>> \/ (r2s' = r2s /\ spool' = spool)
      BY SenderSpool
    <2> QED BY <2>2, <2>3, <2>4, <2>5
  <1>5. CASE r2s' = <<>> /\ r2s = <<>> /\ spool' = spool
    BY <1>3, <1>5
  <1> QED BY <1>2, <1>3, <1>4, <1>5, SenderSpool

(* A block under way with something in it is within its file. *)
LEMMA WithinTail ==
    ASSUME NEW s \in Seq(Commands), s # <<>>, Within(s)
    PROVE  Within(Tail(s))
  <1>1. /\ Len(s) \in Nat \ {0} /\ Len(Tail(s)) = Len(s) - 1
        /\ \A i \in 1..Len(Tail(s)) : Tail(s)[i] = s[i + 1]
    BY TailIndex
  <1>2. \A i \in 1..Len(Tail(s)) : Tail(s)[i] = s[i + 1] /\ i + 1 \in 1..Len(s)
    BY <1>1
  <1> QED BY <1>2 DEF Within

LEMMA WithinAppend ==
    ASSUME NEW s \in Seq(Commands), NEW m \in Commands, Within(s),
           m.t = "DATA" /\ m.n = 1 => m.f # NoFile /\ m.off < Size[m.f]
    PROVE  Within(Append(s, m))
  <1> DEFINE z == Append(s, m)
  <1>1. /\ Len(s) \in Nat /\ Len(z) = Len(s) + 1
        /\ \A i \in 1..Len(s) : z[i] = s[i]
        /\ z[Len(s) + 1] = m
    BY AppendIndex
  <1> HIDE DEF z
  <1>2. \A i \in 1..Len(z) : (i \in 1..Len(s) /\ z[i] = s[i]) \/ z[i] = m
    BY <1>1
  <1> QED BY <1>2 DEF Within, z

LEMMA WithinKept ==
    ASSUME TypeOK, Within(s2r), SenderNext
    PROVE  Within(s2r')
  <1>1. s2r \in Seq(Commands) /\ snd \in SndStates
    BY DEF TypeOK
  <1>2. ASSUME NEW m \in Commands, s2r' = ToR(m), m.t = "DATA" => m.n = 0
        PROVE  Within(s2r')
    BY <1>1, <1>2, WithinAppend DEF ToR
  <1>3. \A f \in Files, o \in Nat \cup {-1} : M_FILE(f, o) \in Commands /\ M_FILE(f, o).t # "DATA"
    BY FrameType, SentFields
  <1>4. CASE StartFile \/ StartStatus
    <2>1. PICK f \in Files, b \in BOOLEAN :
              s2r' = ToR(M_FILE(f, IF we_nr THEN -1 ELSE IF b THEN Size[f] ELSE 0))
      BY <1>4, AnnounceFields
    <2>2. (IF we_nr THEN -1 ELSE IF b THEN Size[f] ELSE 0) \in Nat \cup {-1}
      BY FilesAssumption
    <2> QED BY <1>2, <1>3, <2>1, <2>2
  <1>5. CASE SendData
    <2> DEFINE n == IF snd.pos < Size[snd.out] THEN 1 ELSE 0
               m == DATA(snd.out, snd.pos, n)
    <2>1. /\ snd.out \in Files /\ snd.pos \in Nat /\ n \in {0, 1}
          /\ s2r' = ToR(m)
      BY <1>1, <1>5 DEF SendData, Sending, SndStates
    <2>2. n = 1 => snd.pos < Size[snd.out]
      OBVIOUS
    <2> HIDE DEF n
    <2>3. m \in Commands /\ m.f = snd.out /\ m.off = snd.pos /\ m.n = n
      BY <2>1, FrameType, SentFields
    <2> HIDE DEF m
    <2>4. m.n = 1 => m.f # NoFile /\ m.off < Size[m.f]
      BY <2>1, <2>2, <2>3, FilesAssumption
    <2> QED BY <1>1, <2>1, <2>3, <2>4, WithinAppend DEF ToR
  <1>6. CASE SendStatusEof
    <2> DEFINE o == IF snd.out = NoFile THEN 0 ELSE Size[snd.out]
               m == DATA(snd.out, o, 0)
    <2>1. snd.out \in Files \cup {NoFile} /\ o \in Nat /\ s2r' = ToR(m)
      BY <1>1, <1>6, FilesAssumption DEF SendStatusEof, SndStates
    <2> HIDE DEF o
    <2>2. m \in Commands /\ m.n = 0
      BY <2>1, FrameType, SentFields
    <2> HIDE DEF m
    <2> QED BY <1>2, <2>1, <2>2
  <1>7. CASE SendEOB
    <2>1. M_EOB \in Commands /\ M_EOB.t # "DATA"
      BY FrameType DEF M_EOB, Msg
    <2> QED BY <1>2, <1>7, <2>1 DEF SendEOB
  <1>8. CASE GET
    <2>1. Head(r2s).f \in Files /\ Head(r2s).off \in Nat
      BY <1>8, SenderHead DEF GET
    <2>2. s2r' = ToR(M_FILE(Head(r2s).f, Head(r2s).off)) \/ s2r' = s2r
      BY <1>8, GETFields
    <2> QED BY <1>2, <1>3, <2>1, <2>2
  <1>9. CASE s2r' = s2r
    BY <1>9
  <1>10. s2r' = s2r \/ StartFile \/ StartStatus \/ SendData \/ SendStatusEof \/ SendEOB \/ GET
    BY DEF SenderNext, SenderEndBatch, GOT, GOTCrash, GOTStcFails, SKIP, SenderEOB, SenderDrop
  <1> QED BY <1>4, <1>5, <1>6, <1>7, <1>8, <1>9, <1>10

-----------------------------------------------------------------------------
(*                     What the sender's steps change                      *)

SameBatch(st, st2) ==
    /\ st2.eob = st.eob /\ st2.reob = st.reob
    /\ st2.msgs \in Nat /\ st2.msgs >= st.msgs

LEMMA ReadBatch ==
    ASSUME TypeOK
    PROVE  /\ Read \in SndStates /\ snd \in SndStates /\ snd.msgs \in Nat
           /\ Read.msgs = Capped(snd.msgs) /\ Read.reob = snd.reob /\ Read.eob = snd.eob
           /\ Read.q = snd.q /\ Read.qs = snd.qs
  <1>1. snd \in SndStates /\ snd.msgs \in Nat
    BY DEF TypeOK, SndStates
  <1> QED BY <1>1, OneMoreSnd DEF Read

LEMMA StartFileFields ==
    ASSUME TypeOK, StartFile, mode = "nd"
    PROVE  /\ SameBatch(snd, snd') /\ snd'.up = snd.up
           /\ snd'.qs = snd.qs /\ snd.q # {} /\ snd'.sent = snd.sent /\ snd'.sendEof = snd.sendEof
           /\ \E f \in Files :
                 /\ snd'.out = f /\ snd'.status = FALSE /\ snd'.offReq = TRUE
                 /\ snd'.waitGOT = FALSE
                 /\ s2r' = ToR(M_FILE(f, -1)) /\ r2s' = r2s
  <1>1. snd \in SndStates /\ we_nr = TRUE
    BY DEF TypeOK, we_nr
  <1>2. PICK f \in snd.q : Announce(f, FALSE, [snd EXCEPT !.q = @ \ {f}])
    BY DEF StartFile
  <1> DEFINE rest == [snd EXCEPT !.q = @ \ {f}]
             a == ~we_nd \/ rest.ndAddr
  <1>3. /\ f \in Files /\ rest \in SndStates /\ SameBatch(snd, rest) /\ rest.up = snd.up
        /\ rest.qs = snd.qs /\ rest.sent = snd.sent /\ rest.sendEof = snd.sendEof
    BY <1>1 DEF SndStates, SameBatch
  <1> HIDE DEF rest
  <1> DEFINE y == [rest EXCEPT !.out = f, !.status = FALSE, !.pos = 0, !.waitGOT = FALSE,
                               !.offReq = we_nr, !.ndAddr = a]
  <1>4. snd' = OneMore(y)
    BY <1>2 DEF Announce, rest
  <1>7. a \in BOOLEAN
    BY <1>3, WeBool DEF SndStates
  <1> HIDE DEF a
  <1>8. /\ y.out = f /\ y.status = FALSE /\ y.offReq = we_nr /\ y.waitGOT = FALSE
        /\ y.eob = rest.eob /\ y.reob = rest.reob /\ y.msgs = rest.msgs
        /\ y.up = rest.up /\ y.qs = rest.qs /\ y.sent = rest.sent
        /\ y.sendEof = rest.sendEof
    BY <1>3 DEF SndStates
  <1>9. y \in SndStates
    BY <1>1, <1>3, <1>7 DEF SndStates
  <1> HIDE DEF y
  <1>5. /\ snd'.out = f /\ snd'.status = FALSE /\ snd'.offReq = we_nr /\ snd'.waitGOT = FALSE
        /\ snd'.eob = rest.eob /\ snd'.reob = rest.reob /\ snd'.msgs = Capped(rest.msgs)
        /\ snd'.up = rest.up /\ snd'.qs = rest.qs /\ snd'.sent = rest.sent
        /\ snd'.sendEof = rest.sendEof
    BY <1>4, <1>8, <1>9, OneMoreSnd
  <1>6. s2r' = ToR(M_FILE(f, -1)) /\ r2s' = r2s
    BY <1>1, <1>2 DEF Announce, StartFile
  <1>10. /\ snd.msgs \in Nat /\ rest.msgs \in Nat /\ rest.msgs = snd.msgs
         /\ Capped(rest.msgs) \in Nat /\ Capped(rest.msgs) >= rest.msgs
    BY <1>1, <1>3, CappedMore DEF SndStates, rest
  <1> QED BY <1>1, <1>3, <1>5, <1>6, <1>10 DEF SameBatch

LEMMA StartStatusFields ==
    ASSUME TypeOK, StartStatus, mode = "nd"
    PROVE  /\ SameBatch(snd, snd') /\ snd'.up = snd.up
           /\ snd.qs \in Files /\ snd'.qs = NoFile
           /\ snd'.sent = snd.sent /\ snd'.sendEof = snd.sendEof
           /\ snd'.out = snd.qs /\ snd'.status = TRUE /\ snd'.offReq = TRUE
           /\ snd'.waitGOT = FALSE
           /\ s2r' = ToR(M_FILE(snd.qs, -1)) /\ r2s' = r2s
  <1>1. snd \in SndStates /\ we_nr = TRUE
    BY DEF TypeOK, we_nr
  <1> DEFINE rest == [snd EXCEPT !.qs = NoFile]
             a == ~we_nd \/ rest.ndAddr
  <1>2. Announce(snd.qs, TRUE, rest)
    BY DEF StartStatus
  <1>3. /\ snd.qs \in Files /\ rest \in SndStates /\ SameBatch(snd, rest) /\ rest.up = snd.up
        /\ rest.qs = NoFile /\ rest.sent = snd.sent /\ rest.sendEof = snd.sendEof
    BY <1>1 DEF SndStates, SameBatch, StartStatus
  <1> HIDE DEF rest
  <1> DEFINE y == [rest EXCEPT !.out = snd.qs, !.status = TRUE, !.pos = 0, !.waitGOT = FALSE,
                               !.offReq = we_nr, !.ndAddr = a]
  <1>4. snd' = OneMore(y)
    BY <1>2 DEF Announce
  <1>7. a \in BOOLEAN
    BY <1>3, WeBool DEF SndStates
  <1> HIDE DEF a
  <1>8. /\ y.out = snd.qs /\ y.status = TRUE /\ y.offReq = we_nr /\ y.waitGOT = FALSE
        /\ y.eob = rest.eob /\ y.reob = rest.reob /\ y.msgs = rest.msgs
        /\ y.up = rest.up /\ y.qs = rest.qs /\ y.sent = rest.sent
        /\ y.sendEof = rest.sendEof
    BY <1>3 DEF SndStates
  <1>9. y \in SndStates
    <2>1. we_nr \in BOOLEAN
      BY WeBool
    <2> QED BY <1>3, <1>7, <2>1 DEF SndStates
  <1> HIDE DEF y
  <1>5. /\ snd'.out = snd.qs /\ snd'.status = TRUE /\ snd'.offReq = we_nr /\ snd'.waitGOT = FALSE
        /\ snd'.eob = rest.eob /\ snd'.reob = rest.reob /\ snd'.msgs = Capped(rest.msgs)
        /\ snd'.up = rest.up /\ snd'.qs = rest.qs /\ snd'.sent = rest.sent
        /\ snd'.sendEof = rest.sendEof
    BY <1>4, <1>8, <1>9, OneMoreSnd
  <1>6. s2r' = ToR(M_FILE(snd.qs, -1)) /\ r2s' = r2s
    BY <1>1, <1>2 DEF Announce, StartStatus
  <1>10. /\ snd.msgs \in Nat /\ rest.msgs \in Nat /\ rest.msgs = snd.msgs
         /\ Capped(rest.msgs) \in Nat /\ Capped(rest.msgs) >= rest.msgs
    BY <1>1, <1>3, CappedMore DEF SndStates, rest
  <1> QED BY <1>1, <1>3, <1>5, <1>6, <1>10 DEF SameBatch

LEMMA SendDataBatch ==
    ASSUME TypeOK, SendData
    PROVE  /\ SameBatch(snd, snd') /\ snd'.q = snd.q /\ snd'.qs = snd.qs /\ snd'.up = snd.up
           /\ snd.out # NoFile /\ ~snd.status
           /\ (~snd.offReq /\ ~snd.waitGOT) \/ snd.sendEof
  <1> DEFINE n == IF snd.pos < Size[snd.out] THEN 1 ELSE 0
             w == we_nd \/ snd.waitGOT
             p == snd.pos + n
  <1>1. snd \in SndStates
    BY DEF TypeOK
  <1>2. \/ snd' = [snd EXCEPT !.out = NoFile, !.pos = 0, !.sent = @ \cup {snd.out}, !.waitGOT = w]
        \/ snd' = [snd EXCEPT !.pos = p]
    BY DEF SendData
  <1> HIDE DEF w, p
  <1>3. /\ snd'.eob = snd.eob /\ snd'.reob = snd.reob /\ snd'.msgs = snd.msgs
        /\ snd'.q = snd.q /\ snd'.qs = snd.qs /\ snd'.up = snd.up
    BY <1>1, <1>2 DEF SndStates
  <1>4. snd.msgs \in Nat
    BY <1>1 DEF SndStates
  <1>5. SameBatch(snd, snd')
    BY <1>3, <1>4 DEF SameBatch
  <1> QED BY <1>3, <1>5 DEF SendData, Sending

LEMMA GETBatch ==
    ASSUME TypeOK, GET, snd' # Down
    PROVE  /\ snd'.reob = snd.reob /\ snd'.msgs \in Nat /\ snd'.msgs >= Capped(snd.msgs)
           /\ snd'.eob = snd.eob
           /\ snd'.q = snd.q /\ snd'.qs = snd.qs /\ snd'.up = snd.up
  <1> DEFINE m == Head(r2s)
             st == GETReopen(m.f)
             Keeps(x) == /\ x.reob = snd.reob /\ x.msgs \in Nat /\ x.msgs >= Capped(snd.msgs) /\ x.eob = snd.eob
                         /\ x.q = snd.q /\ x.qs = snd.qs /\ x.up = snd.up
  <1>1. st \in SndStates
    BY SenderHead, GETReopenType DEF GET
  <1>9. Capped(snd.msgs) \in Nat /\ Capped(snd.msgs) >= Capped(snd.msgs)
    <2>1. Capped(snd.msgs) \in Nat
      BY ReadBatch, CappedMore
    <2> QED BY <2>1
  <1>2. Keeps(st)
    <2>3. Keeps(Read)
      BY <1>9, ReadBatch, ReadFields
    <2>1. CASE m.f \notin snd.sent
      <3>1. st = Read
        BY <2>1 DEF GETReopen
      <3> HIDE DEF st, Keeps
      <3> QED BY <2>3, <3>1
    <2>2. CASE m.f \in snd.sent
      <3> DEFINE S == (Read.sent \ {m.f}) \cup IF Sending THEN {snd.out} ELSE {}
                 o == IF m.f \in spool THEN m.f ELSE NoFile
      <3>1. st = [Read EXCEPT !.sent = S, !.out = o, !.status = FALSE, !.pos = 0]
        BY <2>2 DEF GETReopen
      <3> HIDE DEF S, o, st
      <3>2. /\ st.reob = Read.reob /\ st.msgs = Read.msgs /\ st.eob = Read.eob
            /\ st.q = Read.q /\ st.qs = Read.qs /\ st.up = Read.up
        BY <3>1, ReadBatch DEF SndStates
      <3> QED BY <2>3, <3>2
    <2> QED BY <2>1, <2>2
  <1> HIDE DEF st
  <1>3. ~GETDrop(st)
    BY DEF GETDrop, SenderQuits
  <1>10. ASSUME NEW x \in SndStates, Keeps(x), snd' = OneMore(x)
         PROVE  Keeps(snd')
    <2>1. Capped(x.msgs) \in Nat /\ Capped(x.msgs) >= x.msgs
      BY <1>10, CappedMore
    <2> QED BY <1>9, <1>10, <2>1, OneMoreSnd
  <1>4. CASE GETStatusAtEnd(m, st)
    <2> DEFINE x == [st EXCEPT !.sendEof = TRUE, !.waitGOT = TRUE, !.offReq = FALSE]
    <2>1. x \in SndStates /\ Keeps(x)
      BY <1>1, <1>2 DEF SndStates
    <2>2. snd' = OneMore(x)
      BY <1>4 DEF GETStatusAtEnd
    <2> HIDE DEF x, Keeps
    <2>3. Keeps(snd')
      BY <1>10, <2>1, <2>2
    <2> QED BY <2>3 DEF Keeps
  <1>5. ASSUME NEW x \in SndStates, Keeps(x), snd' = OneMore(GETTail(x))
        PROVE  Keeps(snd')
    <2>1. GETTail(x) \in SndStates
      BY GETTailType
    <2>2. Keeps(GETTail(x))
      BY <1>5 DEF GETTail, SndStates
    <2> HIDE DEF Keeps
    <2> QED BY <1>5, <1>10, <2>1, <2>2
  <1>6. CASE GETStatusElse(m, st)
    <2> DEFINE x == [st EXCEPT !.out = NoFile, !.status = FALSE]
    <2>1. x \in SndStates /\ Keeps(x)
      BY <1>1, <1>2 DEF SndStates
    <2>2. snd' = OneMore(GETTail(x))
      BY <1>6 DEF GETStatusElse
    <2> HIDE DEF x, Keeps
    <2>3. Keeps(snd')
      BY <1>5, <2>1, <2>2
    <2> QED BY <2>3 DEF Keeps
  <1>7. CASE GETFile(m, st)
    <2> DEFINE x == [st EXCEPT !.pos = m.off]
    <2>0. m.off \in Nat
      BY SenderHead DEF GET
    <2>1. x \in SndStates /\ Keeps(x)
      BY <1>1, <1>2, <2>0 DEF SndStates
    <2>2. snd' = OneMore(GETTail(x))
      BY <1>7 DEF GETFile
    <2> HIDE DEF x, Keeps
    <2>3. Keeps(snd')
      BY <1>5, <2>1, <2>2
    <2> QED BY <2>3 DEF Keeps
  <1>8. GETStatusAtEnd(m, st) \/ GETStatusElse(m, st) \/ GETFile(m, st) \/ GETDrop(st)
    BY DEF GET, st
  <1> QED BY <1>3, <1>4, <1>6, <1>7, <1>8

LEMMA GOTBatch ==
    ASSUME TypeOK, GOT
    PROVE  /\ snd'.reob = snd.reob /\ snd'.msgs = Capped(snd.msgs) /\ snd'.eob = snd.eob
           /\ snd'.q = snd.q /\ snd'.qs = snd.qs /\ snd'.up = snd.up
  <1> DEFINE m == Head(r2s)
  <1>1. snd' = GOTState(m)
    BY DEF GOT
  <1>2. \/ snd' = [Read EXCEPT !.out = NoFile, !.status = FALSE, !.pos = 0, !.ndAddr = TRUE,
                               !.waitGOT = FALSE, !.offReq = FALSE]
        \/ snd' = [Read EXCEPT !.sent = @ \ {m.f}, !.ndAddr = TRUE, !.waitGOT = FALSE]
        \/ snd' = Read
    BY <1>1 DEF GOTState
  <1>3. /\ snd'.reob = Read.reob /\ snd'.msgs = Read.msgs /\ snd'.eob = Read.eob
        /\ snd'.q = Read.q /\ snd'.qs = Read.qs /\ snd'.up = Read.up
    BY <1>2, ReadBatch DEF SndStates
  <1> QED BY <1>3, ReadBatch, ReadFields

-----------------------------------------------------------------------------
(*                      The sender in a session in ND mode                 *)

LEMMA KnowsNow ==
    ASSUME IInv, NDInv, mode = "nd", snd.up, ~Ended
    PROVE  /\ TypeOK /\ snd \in SndStates /\ rcv \in RcvStates /\ snd.msgs \in Nat
           /\ s2r \in Seq(Commands) /\ r2s \in Seq(Replies) /\ taken \in [Files -> Nat]
           /\ we_nd /\ we_nr
           /\ Waiting(s2r, r2s, snd, stc) /\ Alone(s2r, r2s, snd, stc)
           /\ AnswersSafe(spool, taken, r2s, snd) /\ FirstBatch(s2r, r2s, snd, rcv)
           /\ Counted(r2s, Doubt(spool, taken), snd, rcv)
           /\ Placed(Doubt(spool, taken), snd, rcv)
           /\ Skipping(r2s, snd, rcv)
           /\ snd.sendEof => IsStatus(snd)
           /\ StcNames(Doubt(spool, taken), dt, stc)
           /\ ~Paced => ~Settled(spool, taken, r2s)
           /\ ~Paced /\ rcv.up => Refused(r2s, snd)
  <1>1. /\ TypeOK /\ snd \in SndStates /\ rcv \in RcvStates /\ snd.msgs \in Nat
        /\ s2r \in Seq(Commands) /\ r2s \in Seq(Replies) /\ taken \in [Files -> Nat]
        /\ we_nd /\ we_nr
    <2>1. TypeOK /\ taken \in [Files -> Nat]
      BY TakenType DEF IInv
    <2> QED BY <2>1 DEF TypeOK, SndStates, we_nd, we_nr
  <1>2. Knows /\ StcNames(Doubt(spool, taken), dt, stc)
    BY DEF NDInv
  <1>3. ~Paced => ~Settled(spool, taken, r2s)
    BY DEF Ended, Over, Paced
  <1>4. ~Paced /\ rcv.up => Refused(r2s, snd)
    BY <1>2 DEF Knows, SndKnows, Skipping, Paced
  <1> QED BY <1>1, <1>2, <1>3, <1>4 DEF Knows, SndKnows

LEMMA NoDoubt ==
    ASSUME NEW d, NEW sc, NEW s, NEW st, NEW r
    PROVE  StcNames({}, d, sc) /\ LastWord(s, {}, st, r)
  BY DEF StcNames, LastWord

(* A session in which nothing can be put in doubt any more *)
LEMMA EndedKept ==
    ASSUME IInv, Ended, SenderNext
    PROVE  NDInv'
  <1>1. TypeOK /\ taken' = taken /\ rcv' = rcv
    BY SenderSpool DEF IInv
  <1>2. Settled(spool', taken', r2s')
    BY <1>1, SenderSettled DEF Ended, Over
  <1>3. Ended'
    BY <1>1, <1>2 DEF Ended, Over
  <1>4. Doubt(spool', taken') = {}
    BY <1>2 DEF Settled
  <1> QED BY <1>3, <1>4, NoDoubt DEF NDInv

(* The sender leaves. *)
LEMMA SenderLeaves ==
    ASSUME IInv, NDInv, mode = "nd", snd.up, ~Ended, snd' = Down,
           UNCHANGED <<spool, taken, rcv, s2r, dt>>,
           StcNames(Doubt(spool, taken), dt, stc')
    PROVE  NDInv'
  <1>1. ~snd'.up
    BY DEF Down, SndInit
  <1>2. ASSUME rcv.up, EobAt(s2r) # {} \/ rcv.reob
        PROVE  Doubt(spool, taken) \subseteq {rcv.complete}
    <2>1. ~Work(snd)
      BY <1>2, KnowsNow DEF FirstBatch, Counts
    <2>2. ~Unresolved(snd)
      BY <2>1 DEF Work, Unresolved, IsStatus
    <2> QED BY <1>2, <2>2, KnowsNow DEF Placed
  <1>3. LastWord(s2r', Doubt(spool', taken'), snd', rcv')
    BY <1>2 DEF LastWord
  <1>4. StcNames(Doubt(spool', taken'), dt', stc')
    OBVIOUS
  <1> QED BY <1>1, <1>3, <1>4 DEF NDInv

(* What is left to show of a step after which the sender goes on *)
LEMMA SenderGoesOn ==
    ASSUME snd'.up, StcNames(Doubt(spool', taken'), dt', stc'),
           Waiting(s2r', r2s', snd', stc'), Alone(s2r', r2s', snd', stc'),
           AnswersSafe(spool', taken', r2s', snd'), FirstBatch(s2r', r2s', snd', rcv'),
           Counted(r2s', Doubt(spool', taken'), snd', rcv'),
           Placed(Doubt(spool', taken'), snd', rcv'),
           Skipping(r2s', snd', rcv'),
           snd'.sendEof => IsStatus(snd')
    PROVE  NDInv'
  <1>1. LastWord(s2r', Doubt(spool', taken'), snd', rcv')
    BY DEF LastWord
  <1>2. Knows'
    BY DEF Knows, SndKnows
  <1> QED BY <1>1, <1>2 DEF NDInv

(* A frame other than M_EOB is sent. *)
LEMMA NoEobSent ==
    ASSUME TypeOK, NEW m \in Commands, m.t # "EOB", s2r' = ToR(m)
    PROVE  EobAt(s2r) = {} => EobAt(s2r') = {}
  <1>1. s2r \in Seq(Commands)
    BY DEF TypeOK
  <1>2. CASE s2r' = s2r
    BY <1>2
  <1>3. CASE s2r' = Append(s2r, m)
    BY <1>1, <1>3, AppendAnswers
  <1> QED BY <1>2, <1>3 DEF ToR

(* No answer is under way to a sender that does not wait for one. *)
LEMMA NoneToRead ==
    ASSUME NEW q, NEW D, NEW st, Answers(q) = {}
    PROVE  OneToRead(q, D, st) /\ (IsStatus(st) => Refused(q, st))
  BY DEF OneToRead, Refused

LEMMA Unanswered ==
    ASSUME IInv, NDInv, mode = "nd", snd.up, ~Ended, ~IsStatus(snd),
           ~snd.waitGOT, ~snd.offReq
    PROVE  Settled(spool, taken, r2s) \/ Answers(r2s) = {}
  BY KnowsNow DEF AnswersSafe, Refused, OneToRead, Reading

(* MayStart: the status is settled, unless it is queued still. *)
LEMMA Starting ==
    ASSUME IInv, NDInv, mode = "nd", ~Ended, MayStart
    PROVE  /\ snd.up /\ ~IsStatus(snd) /\ snd.out = NoFile /\ ~snd.sendEof
           /\ ~snd.waitGOT /\ ~snd.offReq
           /\ \A st : AnswersSafe(spool, taken, r2s, st)
           /\ ~(rcv.up /\ rcv.skipAll)
  <1>1. snd.up /\ ~snd.waitGOT /\ ~snd.offReq /\ ~Sending
    BY DEF MayStart
  <1>2. ~IsStatus(snd)
    BY <1>1, KnowsNow DEF Alone
  <1>3. snd.out = NoFile /\ ~snd.sendEof
    BY <1>1, <1>2, KnowsNow DEF IsStatus, Sending
  <1>4. ~Refused(r2s, snd)
    BY <1>2 DEF Refused
  <1>5. \A st : AnswersSafe(spool, taken, r2s, st)
    BY <1>1, <1>2, Unanswered, NoneToRead DEF AnswersSafe
  <1>6. ~(rcv.up /\ rcv.skipAll)
    BY <1>1, <1>4, KnowsNow DEF Skipping
  <1> QED BY <1>1, <1>2, <1>3, <1>4, <1>5, <1>6

LEMMA StartFileSafe ==
    ASSUME Steady, IInv, NDInv, mode = "nd", ~Ended, StartFile
    PROVE  NDInv'
  <1>0. MayStart /\ snd.qs = NoFile /\ UNCHANGED <<spool, stc, dt, taken, r2s, rcv>>
    BY TakenSame DEF StartFile, Steady
  <1>1. /\ snd.up /\ ~IsStatus(snd) /\ ~snd.sendEof
        /\ ~(rcv.up /\ rcv.skipAll)
    BY <1>0, Starting
  <1>2. /\ SameBatch(snd, snd') /\ snd'.up /\ snd'.qs = NoFile /\ snd.q # {} /\ ~snd'.sendEof
    BY <1>0, <1>1, StartFileFields, KnowsNow
  <1>3. PICK f \in Files : /\ snd'.out = f /\ snd'.status = FALSE /\ snd'.offReq = TRUE
                           /\ snd'.waitGOT = FALSE /\ s2r' = ToR(M_FILE(f, -1))
    BY <1>1, StartFileFields, KnowsNow
  <1>4. M_FILE(f, -1) \in Commands /\ M_FILE(f, -1).t = "FILE"
    BY FrameType, SentFields
  <1>5. ~IsStatus(snd') /\ ~Unresolved(snd') /\ ~Unresolved(snd)
    BY <1>0, <1>1, <1>2, <1>3 DEF IsStatus, Unresolved
  <1>6. \A k \in Nat : Counts(k, r2s, snd, rcv) => Counts(k, r2s', snd', rcv')
    BY <1>0, <1>1, <1>2, CountsSame, KnowsNow DEF SameBatch
  <1>7. Waiting(s2r', r2s', snd', stc') /\ Alone(s2r', r2s', snd', stc')
    BY <1>2, <1>5 DEF Waiting, Alone
  <1>8. AnswersSafe(spool', taken', r2s', snd')
    <2>1. AnswersSafe(spool, taken, r2s, snd')
      BY <1>0, Starting
    <2> QED BY <1>0, <2>1
  <1>9. FirstBatch(s2r', r2s', snd', rcv')
    <2>1. ~snd.eob /\ EobAt(s2r) = {} /\ Counts(0, r2s, snd, rcv)
      BY <1>1, <1>2, KnowsNow DEF FirstBatch, Work
    <2>2. EobAt(s2r') = {}
      BY <1>1, <1>3, <1>4, <2>1, NoEobSent, KnowsNow
    <2> QED BY <1>2, <1>3, <1>6, <2>1, <2>2 DEF FirstBatch, SameBatch
  <1>10. Counted(r2s', Doubt(spool', taken'), snd', rcv')
    BY <1>0, <1>1, <1>5, <1>6, KnowsNow DEF Counted
  <1>11. Placed(Doubt(spool', taken'), snd', rcv')
    BY <1>0, <1>1, <1>5, KnowsNow DEF Placed
  <1>12. Skipping(r2s', snd', rcv')
    BY <1>0, <1>1 DEF Skipping
  <1>13. StcNames(Doubt(spool', taken'), dt', stc')
    BY <1>0, <1>1, KnowsNow
  <1> QED BY <1>2, <1>7, <1>8, <1>9, <1>10, <1>11, <1>12, <1>13, SenderGoesOn

LEMMA StartStatusSafe ==
    ASSUME IInv, NDInv, mode = "nd", ~Ended, StartStatus
    PROVE  NDInv'
  <1>0. MayStart /\ snd.qs # NoFile /\ UNCHANGED <<spool, stc, dt, taken, r2s, rcv>>
    BY TakenSame DEF StartStatus
  <1>1. /\ snd.up /\ ~IsStatus(snd) /\ ~snd.sendEof
        /\ ~(rcv.up /\ rcv.skipAll)
    BY <1>0, Starting
  <1>2. snd.qs = stc /\ snd.sent = {} /\ s2r = <<>> /\ Answers(r2s) = {}
    BY <1>0, <1>1, KnowsNow DEF Waiting
  <1>3. /\ SameBatch(snd, snd') /\ snd'.up /\ snd'.qs = NoFile /\ ~snd'.sendEof
        /\ snd.qs \in Files /\ snd'.sent = {}
        /\ snd'.out = snd.qs /\ snd'.status = TRUE /\ snd'.offReq = TRUE
        /\ snd'.waitGOT = FALSE /\ s2r' = ToR(M_FILE(snd.qs, -1))
    BY <1>1, <1>2, StartStatusFields, KnowsNow
  <1> DEFINE m == M_FILE(snd.qs, -1)
  <1>4. m \in Commands /\ m.t = "FILE" /\ m.f = snd.qs
    BY <1>3, FrameType, SentFields
  <1> HIDE DEF m
  <1>5. IsStatus(snd') /\ Unresolved(snd')
    BY <1>3, FilesAssumption DEF IsStatus, Unresolved
  <1>6. Counts(0, r2s, snd, rcv) => Counts(0, r2s', snd', rcv')
    BY <1>0, <1>1, <1>3, CountsSame, KnowsNow DEF SameBatch
  <1>7. Waiting(s2r', r2s', snd', stc')
    BY <1>3 DEF Waiting
  <1>8. Alone(s2r', r2s', snd', stc')
    <2>1. s2r' = <<>> \/ s2r' = <<m>>
      BY <1>2, <1>3 DEF ToR, m
    <2>2. \A i \in 1..Len(s2r') : s2r'[i] = m
      BY <2>1
    <2> QED BY <1>0, <1>2, <1>3, <1>4, <2>2 DEF Alone
  <1>9. Refused(r2s', snd')
    BY <1>0, <1>2, <1>5, NoneToRead
  <1>10. FirstBatch(s2r', r2s', snd', rcv')
    <2>1. ~snd.eob /\ EobAt(s2r) = {} /\ Counts(0, r2s, snd, rcv)
      BY <1>0, <1>1, KnowsNow DEF FirstBatch, Work
    <2>2. EobAt(s2r') = {}
      BY <1>1, <1>3, <1>4, <2>1, NoEobSent, KnowsNow DEF m
    <2> QED BY <1>3, <1>6, <2>1, <2>2 DEF FirstBatch, SameBatch
  <1>11. Counted(r2s', Doubt(spool', taken'), snd', rcv')
    BY <1>5 DEF Counted
  <1>12. Placed(Doubt(spool', taken'), snd', rcv')
    BY <1>5 DEF Placed
  <1>13. Skipping(r2s', snd', rcv')
    BY <1>0, <1>1 DEF Skipping
  <1>14. StcNames(Doubt(spool', taken'), dt', stc')
    BY <1>0, <1>1, KnowsNow
  <1>15. AnswersSafe(spool', taken', r2s', snd')
    BY <1>9 DEF AnswersSafe
  <1> QED BY <1>3, <1>7, <1>8, <1>10, <1>11, <1>12, <1>13, <1>14, <1>15, SenderGoesOn

(* A block is sent: of a file, which is not the status then. *)
LEMMA SendDataSafe ==
    ASSUME IInv, NDInv, mode = "nd", ~Ended, SendData
    PROVE  NDInv'
  <1>0. snd.up /\ UNCHANGED <<spool, stc, dt, taken, r2s, rcv>>
    BY TakenSame DEF SendData
  <1>1. /\ SameBatch(snd, snd') /\ snd'.qs = snd.qs /\ snd'.up
        /\ snd.out # NoFile /\ ~snd.status
        /\ (~snd.offReq /\ ~snd.waitGOT) \/ snd.sendEof
    BY <1>0, SendDataBatch, KnowsNow
  <1>2. /\ ~IsStatus(snd) /\ ~snd.sendEof /\ ~snd.offReq /\ ~snd.waitGOT /\ snd.qs = NoFile
    BY <1>0, <1>1, KnowsNow DEF IsStatus, Waiting
  <1>3. PICK n \in {0, 1} :
          /\ snd.out \in Files /\ snd.pos \in Nat
          /\ s2r' = ToR(DATA(snd.out, snd.pos, n))
          /\ snd'.sendEof = snd.sendEof /\ snd'.status = snd.status
    BY <1>0, SendDataFields, KnowsNow
  <1> DEFINE m == DATA(snd.out, snd.pos, n)
  <1>4. m \in Commands /\ m.t = "DATA"
    BY <1>3, FrameType, SentFields
  <1> HIDE DEF m
  <1>5. ~IsStatus(snd') /\ ~Unresolved(snd') /\ ~Unresolved(snd) /\ ~Refused(r2s, snd)
    BY <1>1, <1>2, <1>3 DEF IsStatus, Unresolved, Refused
  <1>6. \A k \in Nat : Counts(k, r2s, snd, rcv) => Counts(k, r2s', snd', rcv')
    BY <1>0, <1>1, CountsSame, KnowsNow DEF SameBatch
  <1>7. Waiting(s2r', r2s', snd', stc') /\ Alone(s2r', r2s', snd', stc')
    BY <1>1, <1>2, <1>5 DEF Waiting, Alone
  <1>8. AnswersSafe(spool', taken', r2s', snd')
    <2>1. AnswersSafe(spool, taken, r2s, snd')
      BY <1>0, <1>2, Unanswered, NoneToRead DEF AnswersSafe
    <2> QED BY <1>0, <2>1
  <1>9. FirstBatch(s2r', r2s', snd', rcv')
    <2>1. ~snd.eob /\ EobAt(s2r) = {} /\ Counts(0, r2s, snd, rcv) /\ Counts(1, r2s, snd, rcv)
      BY <1>0, <1>1, <1>2, KnowsNow DEF FirstBatch, Work
    <2>2. EobAt(s2r') = {}
      BY <1>0, <1>3, <1>4, <2>1, NoEobSent, KnowsNow DEF m
    <2> QED BY <1>1, <1>6, <2>1, <2>2 DEF FirstBatch, SameBatch
  <1>10. Counted(r2s', Doubt(spool', taken'), snd', rcv')
    BY <1>0, <1>5, <1>6, KnowsNow DEF Counted
  <1>11. Placed(Doubt(spool', taken'), snd', rcv')
    BY <1>0, <1>5, KnowsNow DEF Placed
  <1>12. Skipping(r2s', snd', rcv')
    BY <1>0, <1>5, KnowsNow DEF Skipping
  <1>13. StcNames(Doubt(spool', taken'), dt', stc')
    BY <1>0, KnowsNow
  <1>14. snd'.sendEof => IsStatus(snd')
    BY <1>2, <1>3
  <1> QED BY <1>1, <1>7, <1>8, <1>9, <1>10, <1>11, <1>12, <1>13, <1>14, SenderGoesOn

(* The empty block that ends the status *)
LEMMA StatusEofSafe ==
    ASSUME IInv, NDInv, mode = "nd", ~Ended, SendStatusEof
    PROVE  NDInv'
  <1>0. /\ snd.up /\ snd.sendEof /\ snd \in SndStates
        /\ UNCHANGED <<spool, stc, dt, taken, r2s, rcv>>
    BY TakenSame DEF SendStatusEof, IInv, TypeOK
  <1>1. IsStatus(snd) /\ snd.qs = NoFile
    BY <1>0, KnowsNow DEF Alone
  <1>2. snd' = [snd EXCEPT !.sendEof = FALSE]
    BY DEF SendStatusEof
  <1>3. /\ SameBatch(snd, snd') /\ snd'.up /\ snd'.qs = NoFile /\ snd'.sendEof = FALSE
        /\ snd'.out = snd.out /\ snd'.status = snd.status /\ snd'.sent = snd.sent
        /\ snd'.offReq = snd.offReq /\ snd'.waitGOT = snd.waitGOT
    BY <1>0, <1>1, <1>2 DEF SndStates, SameBatch
  <1> DEFINE o == IF snd.out = NoFile THEN 0 ELSE Size[snd.out]
             m == DATA(snd.out, o, 0)
  <1>4. s2r' = ToR(m) /\ snd.out \in Files
    BY <1>0, <1>1 DEF SendStatusEof, SndStates, IsStatus
  <1>5. o \in Nat
    BY <1>4, FilesAssumption
  <1> HIDE DEF o
  <1>6. m \in Commands /\ m.t = "DATA"
    BY <1>4, <1>5, FrameType, SentFields
  <1> HIDE DEF m
  <1>7. IsStatus(snd') /\ Unresolved(snd')
    BY <1>1, <1>3 DEF IsStatus, Unresolved
  <1>8. \A k \in Nat : Counts(k, r2s, snd, rcv) => Counts(k, r2s', snd', rcv')
    BY <1>0, <1>3, CountsSame, KnowsNow DEF SameBatch
  <1>9. Waiting(s2r', r2s', snd', stc')
    BY <1>3 DEF Waiting
  <1>10. Alone(s2r', r2s', snd', stc')
    <2>1. \A i \in 1..Len(s2r) : s2r[i].t = "FILE" => s2r[i].f = snd.out
      BY <1>0, <1>1, KnowsNow DEF Alone
    <2>2. \A i \in 1..Len(s2r') : s2r'[i].t = "FILE" => s2r'[i].f = snd.out
      <3>1. CASE s2r' = s2r
        BY <2>1, <3>1
      <3>2. CASE s2r' = Append(s2r, m)
        <4>1. /\ Len(s2r) \in Nat /\ Len(s2r') = Len(s2r) + 1
              /\ \A i \in 1..Len(s2r) : s2r'[i] = s2r[i]
              /\ s2r'[Len(s2r) + 1] = m
          BY <1>0, <1>6, <3>2, AppendIndex, KnowsNow
        <4>2. \A i \in 1..Len(s2r') : (i \in 1..Len(s2r) /\ s2r'[i] = s2r[i]) \/ s2r'[i] = m
          BY <4>1
        <4> QED BY <1>6, <2>1, <4>2
      <3> QED BY <1>4, <3>1, <3>2 DEF ToR
    <2>3. /\ snd.out = stc /\ snd.sent = {} /\ (snd.offReq \/ snd.waitGOT)
          /\ \A i \in Answers(r2s) : r2s[i].f = snd.out
      BY <1>0, <1>1, KnowsNow DEF Alone
    <2> QED BY <1>0, <1>3, <2>2, <2>3 DEF Alone
  <1>11. AnswersSafe(spool', taken', r2s', snd')
    <2>1. Refused(r2s, snd) => Refused(r2s, snd')
      BY <1>7 DEF Refused
    <2>2. \A x, D : Reading(x, D, snd) => Reading(x, D, snd')
      BY <1>3, <1>7 DEF Reading
    <2>3. \A D : OneToRead(r2s, D, snd) => OneToRead(r2s, D, snd')
      BY <1>3, <2>2 DEF OneToRead
    <2>4. AnswersSafe(spool, taken, r2s, snd')
      BY <1>0, <2>1, <2>3, KnowsNow DEF AnswersSafe
    <2> QED BY <1>0, <2>4
  <1>12. FirstBatch(s2r', r2s', snd', rcv')
    <2>1. /\ ~snd.eob /\ EobAt(s2r) = {} /\ Counts(0, r2s, snd, rcv)
          /\ snd.waitGOT \/ (snd.out # NoFile /\ ~snd.offReq) => Counts(1, r2s, snd, rcv)
      BY <1>0, <1>1, KnowsNow DEF FirstBatch, Work, IsStatus
    <2>2. EobAt(s2r') = {}
      BY <1>0, <1>4, <1>6, <2>1, NoEobSent, KnowsNow
    <2> QED BY <1>3, <1>8, <2>1, <2>2 DEF FirstBatch, SameBatch
  <1>13. /\ Counted(r2s', Doubt(spool', taken'), snd', rcv')
         /\ Placed(Doubt(spool', taken'), snd', rcv')
    BY <1>7 DEF Counted, Placed
  <1>14. Skipping(r2s', snd', rcv')
    <2>1. Refused(r2s, snd) => Refused(r2s', snd')
      BY <1>0, <1>7 DEF Refused
    <2> QED BY <1>0, <2>1, KnowsNow DEF Skipping
  <1>15. StcNames(Doubt(spool', taken'), dt', stc')
    BY <1>0, KnowsNow
  <1> QED BY <1>3, <1>9, <1>10, <1>11, <1>12, <1>13, <1>14, <1>15, SenderGoesOn

(* M_EOB is sent when nothing is left, the status included. *)
LEMMA SendEOBSafe ==
    ASSUME IInv, NDInv, mode = "nd", ~Ended, SendEOB
    PROVE  NDInv'
  <1>0. /\ MayStart /\ snd.q = {} /\ snd.qs = NoFile /\ snd.sent = {} /\ snd \in SndStates
        /\ UNCHANGED <<spool, stc, dt, taken, r2s, rcv>>
    BY TakenSame DEF SendEOB, IInv, TypeOK
  <1>1. /\ snd.up /\ ~IsStatus(snd) /\ ~snd.sendEof /\ snd.out = NoFile
        /\ ~(rcv.up /\ rcv.skipAll)
        /\ \A st : AnswersSafe(spool, taken, r2s, st)
    BY <1>0, Starting
  <1> DEFINE y == [snd EXCEPT !.eob = TRUE]
  <1>2. snd' = OneMore(y)
    BY DEF SendEOB
  <1>12. /\ y.up /\ y.q = {} /\ y.qs = NoFile /\ y.sendEof = snd.sendEof
         /\ y.out = NoFile /\ y.sent = {} /\ y.reob = snd.reob /\ y.msgs = snd.msgs
         /\ y \in SndStates
    BY <1>0, <1>1 DEF SndStates
  <1> HIDE DEF y
  <1>13. Capped(snd.msgs) \in Nat /\ Capped(snd.msgs) >= snd.msgs
    BY <1>0, CappedMore DEF SndStates
  <1>3. /\ snd'.up /\ snd'.q = {} /\ snd'.qs = NoFile /\ snd'.sendEof = snd.sendEof
        /\ snd'.out = NoFile /\ snd'.sent = {}
        /\ snd'.reob = snd.reob /\ snd'.msgs \in Nat /\ snd'.msgs >= snd.msgs
    BY <1>2, <1>12, <1>13, OneMoreSnd
  <1>4. ~Work(snd') /\ ~IsStatus(snd') /\ ~Unresolved(snd') /\ ~Unresolved(snd)
    BY <1>0, <1>1, <1>3 DEF Work, IsStatus, Unresolved
  <1>5. \A k \in Nat : Counts(k, r2s, snd, rcv) => Counts(k, r2s', snd', rcv')
    BY <1>0, <1>1, <1>3, CountsSame, KnowsNow
  <1>6. /\ Waiting(s2r', r2s', snd', stc') /\ Alone(s2r', r2s', snd', stc')
        /\ FirstBatch(s2r', r2s', snd', rcv')
    BY <1>3, <1>4 DEF Waiting, Alone, FirstBatch
  <1>7. AnswersSafe(spool', taken', r2s', snd')
    BY <1>0, <1>1
  <1>8. Counted(r2s', Doubt(spool', taken'), snd', rcv')
    BY <1>0, <1>1, <1>4, <1>5, KnowsNow DEF Counted
  <1>9. Placed(Doubt(spool', taken'), snd', rcv')
    BY <1>0, <1>1, <1>4, KnowsNow DEF Placed
  <1>10. Skipping(r2s', snd', rcv')
    BY <1>0, <1>1 DEF Skipping
  <1>11. StcNames(Doubt(spool', taken'), dt', stc')
    BY <1>0, <1>1, KnowsNow
  <1> QED BY <1>1, <1>3, <1>6, <1>7, <1>8, <1>9, <1>10, <1>11, SenderGoesOn

(* The end of a batch. The session ends only when no file is in doubt.     *)
LEMMA EndBatchSafe ==
    ASSUME IInv, NDInv, mode = "nd", ~Ended, SenderEndBatch
    PROVE  NDInv'
  <1>0. /\ snd.up /\ snd.eob /\ snd.reob /\ snd \in SndStates
        /\ UNCHANGED <<spool, dt, taken, s2r, rcv>>
    <2>1. UNCHANGED <<spool, dt, delivered, refused, s2r, rcv>>
      BY DEF SenderEndBatch
    <2>2. snd.up /\ snd.eob /\ snd.reob /\ snd \in SndStates
      BY DEF SenderEndBatch, SenderBatchOver, IInv, TypeOK
    <2> QED BY <2>1, <2>2, TakenSame
  <1>1. ~Work(snd)
    BY <1>0, KnowsNow DEF FirstBatch
  <1>2. snd.q = {} /\ snd.qs = NoFile /\ snd.out = NoFile /\ snd.sent = {}
    BY <1>1 DEF Work
  <1>3. ~IsStatus(snd) /\ ~Unresolved(snd) /\ ~snd.sendEof
    BY <1>0, <1>2, KnowsNow DEF IsStatus, Unresolved
  <1>4. CASE snd.msgs <= 2
    <2>1. Doubt(spool, taken) = {}
      <3>1. ASSUME Doubt(spool, taken) # {} PROVE snd.msgs >= 2 + 1
        BY <1>0, <1>3, <3>1, KnowsNow DEF Counted, Counts
      <3>2. snd.msgs \in Nat
        BY <1>0 DEF SndStates
      <3> QED BY <1>4, <3>1, <3>2
    <2>2. StcNames(Doubt(spool, taken), dt, stc')
      BY <2>1, NoDoubt
    <2>3. snd' = Down
      BY <1>4 DEF SenderEndBatch
    <2> QED BY <1>0, <2>2, <2>3, SenderLeaves
  <1>5. CASE ~(snd.msgs <= 2)
    <2>1. snd' = [snd EXCEPT !.msgs = 0, !.eob = FALSE, !.reob = FALSE] /\ UNCHANGED <<stc, r2s>>
      BY <1>5 DEF SenderEndBatch
    <2>2. /\ snd'.up /\ snd'.q = {} /\ snd'.qs = NoFile /\ snd'.sendEof = snd.sendEof
          /\ snd'.out = NoFile /\ snd'.sent = {} /\ snd'.reob = FALSE
          /\ snd'.status = snd.status /\ snd'.offReq = snd.offReq /\ snd'.waitGOT = snd.waitGOT
      BY <1>0, <1>2, <2>1 DEF SndStates
    <2>3. ~Work(snd') /\ ~IsStatus(snd') /\ ~Unresolved(snd')
      BY <2>2 DEF Work, IsStatus, Unresolved
    <2>4. /\ Waiting(s2r', r2s', snd', stc') /\ Alone(s2r', r2s', snd', stc')
          /\ FirstBatch(s2r', r2s', snd', rcv')
      BY <2>2, <2>3 DEF Waiting, Alone, FirstBatch
    <2>5. AnswersSafe(spool', taken', r2s', snd')
      <3>1. ~Refused(r2s, snd)
        BY <1>3 DEF Refused
      <3>2. \A x, D : Reading(x, D, snd) => Reading(x, D, snd')
        BY <1>2, <1>3, <2>2 DEF Reading
      <3>3. \A D : OneToRead(r2s, D, snd) => OneToRead(r2s, D, snd')
        BY <2>2, <3>2 DEF OneToRead
      <3>4. AnswersSafe(spool, taken, r2s, snd')
        BY <1>0, <3>1, <3>3, KnowsNow DEF AnswersSafe
      <3> QED BY <1>0, <2>1, <3>4
    <2>6. Counts(2, r2s, snd, rcv) => Counts(2, r2s, snd', rcv)
      BY <1>0, <2>2 DEF Counts
    <2>7. Counted(r2s', Doubt(spool', taken'), snd', rcv')
      BY <1>0, <1>3, <2>1, <2>6, KnowsNow DEF Counted
    <2>8. Placed(Doubt(spool', taken'), snd', rcv')
      BY <1>0, <1>3, KnowsNow DEF Placed
    <2>9. Skipping(r2s', snd', rcv')
      <3>1. ~(rcv.up /\ rcv.skipAll)
        BY <1>0, <1>3, KnowsNow DEF Skipping, Refused
      <3> QED BY <1>0, <3>1 DEF Skipping
    <2>10. StcNames(Doubt(spool', taken'), dt', stc')
      BY <1>0, <2>1, KnowsNow
    <2> QED BY <1>3, <2>2, <2>4, <2>5, <2>7, <2>8, <2>9, <2>10, SenderGoesOn
  <1> QED BY <1>4, <1>5

(* The answers that are left when one frame is read. *)
LEMMA AnswersLeft ==
    ASSUME NEW q \in Seq(Replies), q # <<>>
    PROVE  /\ Answers(q) = {} => Answers(Tail(q)) = {}
           /\ \A f : (\A i \in Answers(q) : q[i].f = f) =>
                        (\A i \in Answers(Tail(q)) : Tail(q)[i].f = f)
           /\ \A st : Refused(q, st) => Refused(Tail(q), st)
           /\ \A D, st : OneToRead(q, D, st) => OneToRead(Tail(q), D, st)
           /\ q[1].t # "EOB" /\ (\A i, j \in Answers(q) : i = j) => Answers(Tail(q)) = {}
  <1>1. \A i \in Answers(Tail(q)) : i \in Nat /\ i + 1 \in Answers(q) /\ Tail(q)[i] = q[i + 1]
    BY TailAnswers
  <1>2. Answers(q) = {} => Answers(Tail(q)) = {}
    BY <1>1
  <1>3. \A f : (\A i \in Answers(q) : q[i].f = f) => (\A i \in Answers(Tail(q)) : Tail(q)[i].f = f)
    BY <1>1
  <1>4. \A st : Refused(q, st) => Refused(Tail(q), st)
    BY <1>1 DEF Refused
  <1>5. (\A i, j \in Answers(q) : i = j) => (\A i, j \in Answers(Tail(q)) : i = j)
    <2> SUFFICES ASSUME \A i, j \in Answers(q) : i = j,
                        NEW i \in Answers(Tail(q)), NEW j \in Answers(Tail(q))
                 PROVE  i = j
      OBVIOUS
    <2>1. i + 1 = j + 1
      BY <1>1
    <2> QED BY <1>1, <2>1
  <1>6. \A D, st : OneToRead(q, D, st) => OneToRead(Tail(q), D, st)
    BY <1>1, <1>5 DEF OneToRead
  <1>7. ASSUME q[1].t # "EOB", \A i, j \in Answers(q) : i = j, NEW i \in Answers(Tail(q))
        PROVE  FALSE
    <2>1. 1 \in Answers(q)
      BY <1>7, TailAnswers
    <2>2. i \in Nat /\ i + 1 = 1
      BY <1>1, <1>7, <2>1
    <2>3. i \in 1..Len(Tail(q))
      BY DEF Answers
    <2>4. i # 0
      BY <2>3, TailIndex
    <2> QED BY <2>2, <2>4
  <1> QED BY <1>2, <1>3, <1>4, <1>6, <1>7

LEMMA SenderEOBSafe ==
    ASSUME IInv, NDInv, mode = "nd", ~Ended, SenderEOB
    PROVE  NDInv'
  <1>0. /\ snd.up /\ r2s # <<>> /\ Head(r2s).t = "EOB" /\ r2s' = Tail(r2s)
        /\ UNCHANGED <<spool, stc, dt, taken, s2r, rcv>>
        /\ snd' = [Read EXCEPT !.reob = TRUE]
    BY TakenSame DEF SenderEOB, SenderReads
  <1>1. r2s[1].t = "EOB" /\ r2s \in Seq(Replies)
    BY <1>0, TailIndex, KnowsNow
  <1>2. /\ snd'.q = snd.q /\ snd'.qs = snd.qs /\ snd'.out = snd.out /\ snd'.status = snd.status
        /\ snd'.sent = snd.sent /\ snd'.offReq = snd.offReq /\ snd'.waitGOT = snd.waitGOT
        /\ snd'.sendEof = snd.sendEof /\ snd'.eob = snd.eob /\ snd'.up = snd.up
        /\ snd'.msgs = Capped(snd.msgs) /\ snd.msgs \in Nat
        /\ snd'.msgs \in Nat /\ snd'.msgs >= Capped(snd.msgs)
    <2>1. /\ snd'.q = Read.q /\ snd'.qs = Read.qs /\ snd'.out = Read.out
          /\ snd'.status = Read.status /\ snd'.sent = Read.sent /\ snd'.offReq = Read.offReq
          /\ snd'.waitGOT = Read.waitGOT /\ snd'.sendEof = Read.sendEof
          /\ snd'.eob = Read.eob /\ snd'.up = Read.up /\ snd'.msgs = Read.msgs
      BY <1>0, ReadBatch, KnowsNow DEF SndStates
    <2>2. Capped(snd.msgs) \in Nat /\ Capped(snd.msgs) >= Capped(snd.msgs)
      BY <1>0, CappedMore, KnowsNow
    <2> QED BY <1>0, <2>1, <2>2, ReadBatch, ReadFields, KnowsNow
  <1>3. /\ IsStatus(snd') <=> IsStatus(snd)
        /\ Unresolved(snd') <=> Unresolved(snd)
        /\ Work(snd') <=> Work(snd)
    BY <1>2 DEF IsStatus, Unresolved, Work
  <1>4. \A k \in {0, 1, 2} : Counts(k, r2s, snd, rcv) => Counts(k, r2s', snd', rcv')
    BY <1>0, <1>1, <1>2, CountsEob
  <1>5. Waiting(s2r', r2s', snd', stc')
    BY <1>0, <1>1, <1>2, AnswersLeft, KnowsNow DEF Waiting
  <1>6. Alone(s2r', r2s', snd', stc')
    BY <1>0, <1>1, <1>2, <1>3, AnswersLeft, KnowsNow DEF Alone
  <1>7. \A x, D : Reading(x, D, snd) => Reading(x, D, snd')
    BY <1>2, <1>3 DEF Reading
  <1>8. Refused(r2s, snd) => Refused(r2s', snd')
    <2>1. Refused(r2s, snd) => Refused(r2s', snd)
      BY <1>0, <1>1, AnswersLeft
    <2> QED BY <1>3, <2>1 DEF Refused
  <1>9. AnswersSafe(spool', taken', r2s', snd')
    <2>1. CASE Settled(spool, taken, r2s)
      <3>1. Settled(spool, taken, Tail(r2s))
        BY <1>0, <1>1, <2>1, SettledRead, KnowsNow
      <3> QED BY <1>0, <3>1 DEF AnswersSafe
    <2>2. CASE Refused(r2s, snd)
      BY <1>8, <2>2 DEF AnswersSafe
    <2>3. CASE OneToRead(r2s, Doubt(spool, taken), snd)
      <3>1. OneToRead(r2s', Doubt(spool, taken), snd)
        BY <1>0, <1>1, <2>3, AnswersLeft
      <3>2. OneToRead(r2s', Doubt(spool, taken), snd')
        BY <1>2, <1>7, <3>1 DEF OneToRead
      <3> QED BY <1>0, <3>2 DEF AnswersSafe
    <2> QED BY <1>0, <2>1, <2>2, <2>3, KnowsNow DEF AnswersSafe
  <1>10. FirstBatch(s2r', r2s', snd', rcv')
    BY <1>0, <1>2, <1>3, <1>4, KnowsNow DEF FirstBatch
  <1>11. Counted(r2s', Doubt(spool', taken'), snd', rcv')
    BY <1>0, <1>3, <1>4, KnowsNow DEF Counted
  <1>12. Placed(Doubt(spool', taken'), snd', rcv')
    BY <1>0, <1>3, KnowsNow DEF Placed
  <1>13. Skipping(r2s', snd', rcv')
    BY <1>0, <1>8, KnowsNow DEF Skipping
  <1>14. StcNames(Doubt(spool', taken'), dt', stc')
    BY <1>0, KnowsNow
  <1>15. snd'.sendEof => IsStatus(snd')
    BY <1>0, <1>2, <1>3, KnowsNow
  <1> QED BY <1>0, <1>2, <1>5, <1>6, <1>9, <1>10, <1>11, <1>12, <1>13, <1>14, <1>15, SenderGoesOn

(* M_GET for the file in transfer whose offset was asked for. *)
LEMMA GETKinds ==
    ASSUME TypeOK, mode = "nd", GET, Head(r2s).f = snd.out, snd.sent = {}, snd.offReq
    PROVE  LET m == Head(r2s) IN
           \/ /\ snd.status /\ m.off = Size[m.f] /\ stc' = stc /\ snd'.up = snd.up
              /\ snd'.out = m.f /\ snd'.status = TRUE /\ snd'.sendEof = TRUE
              /\ snd'.waitGOT = TRUE /\ snd'.offReq = FALSE /\ snd'.sent = {}
           \/ /\ snd.status /\ m.off # Size[m.f] /\ snd'.out = NoFile
              /\ snd'.waitGOT = FALSE /\ snd'.sendEof = snd.sendEof /\ snd'.up = snd.up
           \/ /\ ~snd.status /\ snd'.out = m.f /\ snd'.status = FALSE
              /\ snd'.sendEof = snd.sendEof /\ snd'.up = snd.up
           \/ ~snd.status /\ snd' = Down /\ s2r' = s2r
  <1> DEFINE m == Head(r2s)
             st == GETReopen(m.f)
  <1>1. we_nd = TRUE
    BY DEF we_nd
  <1>2. m.f \in Files /\ m.off \in Nat
    BY SenderHead DEF GET
  <1>3. st = Read
    BY DEF GETReopen
  <1>4. /\ st \in SndStates /\ st.out = snd.out /\ st.status = snd.status /\ st.offReq = snd.offReq
        /\ st.sent = {} /\ st.sendEof = snd.sendEof /\ st.up = snd.up
    BY <1>3, ReadFields
  <1> HIDE DEF st
  <1>5. ASSUME NEW x \in SndStates, snd' = OneMore(GETTail(x))
        PROVE  /\ snd'.out = x.out /\ snd'.status = x.status /\ snd'.sendEof = x.sendEof
               /\ snd'.waitGOT = FALSE /\ snd'.up = x.up
    <2> DEFINE w == x.waitGOT /\ ~we_nd
               y == GETTail(x)
    <2>1. w = FALSE
      BY <1>1
    <2>2. y = [x EXCEPT !.ndAddr = FALSE, !.offReq = FALSE, !.waitGOT = w]
      BY DEF GETTail
    <2>3. y \in SndStates
      BY GETTailType
    <2> HIDE DEF w, y
    <2>4. /\ y.out = x.out /\ y.status = x.status /\ y.sendEof = x.sendEof
          /\ y.waitGOT = FALSE /\ y.up = x.up
      BY <2>1, <2>2 DEF SndStates
    <2>5. snd' = OneMore(y)
      BY <1>5 DEF y
    <2> QED BY <2>3, <2>4, <2>5, OneMoreSnd
  <1>6. CASE snd.status
    <2>1. GETStatusAtEnd(m, st) \/ GETStatusElse(m, st)
      BY <1>4, <1>6 DEF GET, st
    <2>2. CASE GETStatusAtEnd(m, st)
      <3>1. snd' = OneMore([st EXCEPT !.sendEof = TRUE, !.waitGOT = TRUE, !.offReq = FALSE])
            /\ m.off = Size[m.f] /\ stc' = stc
        BY <2>2 DEF GETStatusAtEnd
      <3>2. /\ snd'.out = st.out /\ snd'.status = st.status /\ snd'.sendEof = TRUE
            /\ snd'.waitGOT = TRUE /\ snd'.offReq = FALSE /\ snd'.sent = st.sent
            /\ snd'.up = st.up
        BY <1>4, <3>1 DEF OneMore, SndStates
      <3>3. snd.status = TRUE
        BY <1>6 DEF TypeOK, SndStates
      <3> QED BY <1>4, <3>1, <3>2, <3>3
    <2>3. CASE GETStatusElse(m, st)
      <3> DEFINE x == [st EXCEPT !.out = NoFile, !.status = FALSE]
      <3>1. snd' = OneMore(GETTail(x)) /\ m.off # Size[m.f]
        BY <1>1, <2>3 DEF GETStatusElse
      <3>2. x \in SndStates /\ x.out = NoFile /\ x.sendEof = st.sendEof
            /\ x.up = st.up
        BY <1>4 DEF SndStates
      <3> HIDE DEF x
      <3> QED BY <1>4, <1>5, <1>6, <3>1, <3>2
    <2> QED BY <2>1, <2>2, <2>3
  <1>7. CASE ~snd.status
    <2>1. GETFile(m, st) \/ GETDrop(st)
      BY <1>4, <1>7 DEF GET, st
    <2>2. CASE GETFile(m, st)
      <3> DEFINE x == [st EXCEPT !.pos = m.off]
      <3>1. snd' = OneMore(GETTail(x))
        BY <2>2 DEF GETFile
      <3>2. x \in SndStates /\ x.out = st.out /\ x.status = st.status /\ x.sendEof = st.sendEof
            /\ x.up = st.up
        BY <1>2, <1>4 DEF SndStates
      <3> HIDE DEF x
      <3>3. snd.status = FALSE
        BY <1>7 DEF TypeOK, SndStates
      <3> QED BY <1>4, <1>5, <1>7, <3>1, <3>2, <3>3
    <2>3. CASE GETDrop(st)
      BY <1>7, <2>3 DEF GETDrop, SenderQuits
    <2> QED BY <2>1, <2>2, <2>3
  <1> QED BY <1>6, <1>7

(* The M_GET the sender reads is the one it waits for. *)
LEMMA GETExpected ==
    ASSUME IInv, DInv, NDInv, mode = "nd", ~Ended, GET
    PROVE  LET m == Head(r2s) IN
           /\ r2s # <<>> /\ r2s[1].t = "GET" /\ m.f \in Files /\ m.off \in Nat /\ snd.up
           /\ m.f = snd.out /\ snd.offReq /\ snd.sent = {} /\ ~snd.sendEof
           /\ Answers(Tail(r2s)) = {}
           /\ \/ Paced /\ Doubt(spool, taken) = {}
              \/ IsStatus(snd) /\ m.off = Size[m.f]
  <1> DEFINE m == Head(r2s)
  <1>1. snd.up /\ r2s # <<>> /\ m.t = "GET"
    BY DEF GET, SenderReads
  <1>2. m = r2s[1] /\ m.f \in Files /\ m.off \in Nat
    BY <1>1, TailIndex, SenderHead, KnowsNow DEF GET
  <1>3. 1 \in Answers(r2s)
    BY <1>1, <1>2, TailAnswers, KnowsNow
  <1>4. ~Refused(r2s, snd)
    BY <1>1, <1>2, <1>3 DEF Refused
  <1>5. CASE Settled(spool, taken, r2s)
    <2>1. Paced
      BY <1>1, <1>5, KnowsNow
    <2>2. Doubt(spool, taken) = {}
      BY <1>5 DEF Settled
    <2>3. /\ Answers(Tail(r2s)) = {} /\ ~snd.sendEof /\ Answer(m, rcv, dt, inbound, snd)
      BY <1>1, <1>2, <2>1, AnswerRead, StopParts
    <2>4. m.f = snd.out /\ snd.offReq
      BY <1>1, <2>3 DEF Answer
    <2>5. snd.sent = {}
      BY <2>1, <2>4, StopParts DEF OneAtATime
    <2> QED BY <1>1, <1>2, <2>1, <2>2, <2>3, <2>4, <2>5
  <1>6. CASE OneToRead(r2s, Doubt(spool, taken), snd)
    <2>1. Reading(m, Doubt(spool, taken), snd) /\ ~snd.sendEof
      BY <1>2, <1>3, <1>6 DEF OneToRead
    <2>2. IsStatus(snd) /\ snd.offReq /\ m.f = snd.out /\ m.off = Size[m.f]
      BY <1>1, <2>1 DEF Reading
    <2>3. snd.sent = {}
      BY <1>1, <2>2, KnowsNow DEF Alone
    <2>4. Answers(Tail(r2s)) = {}
      <3>1. \A i, j \in Answers(r2s) : i = j
        BY <1>6 DEF OneToRead
      <3>2. r2s[1].t # "EOB" /\ r2s \in Seq(Replies)
        BY <1>1, <1>2, KnowsNow
      <3> QED BY <1>1, <3>1, <3>2, AnswersLeft
    <2> QED BY <1>1, <1>2, <2>1, <2>2, <2>3, <2>4
  <1> QED BY <1>1, <1>4, <1>5, <1>6, KnowsNow DEF AnswersSafe

LEMMA GETSafe ==
    ASSUME IInv, DInv, NDInv, mode = "nd", ~Ended, GET
    PROVE  NDInv'
  <1> DEFINE m == Head(r2s)
  <1>0. UNCHANGED <<spool, taken, dt, rcv>>
    BY TakenSame DEF GET
  <1>1. /\ r2s # <<>> /\ r2s[1].t = "GET" /\ m.f \in Files /\ m.off \in Nat /\ snd.up
        /\ m.f = snd.out /\ snd.offReq /\ snd.sent = {} /\ ~snd.sendEof
        /\ Answers(Tail(r2s)) = {}
        /\ \/ Paced /\ Doubt(spool, taken) = {}
           \/ IsStatus(snd) /\ m.off = Size[m.f]
    BY GETExpected
  <1>2. snd.out # NoFile /\ snd.qs = NoFile /\ Work(snd)
    BY <1>1, KnowsNow, FilesAssumption DEF Waiting, Work
  <1>3. \/ /\ snd.status /\ m.off = Size[m.f] /\ stc' = stc /\ snd'.up = snd.up
           /\ snd'.out = m.f /\ snd'.status = TRUE /\ snd'.sendEof = TRUE
           /\ snd'.waitGOT = TRUE /\ snd'.offReq = FALSE /\ snd'.sent = {}
        \/ /\ snd.status /\ m.off # Size[m.f] /\ snd'.out = NoFile
           /\ snd'.waitGOT = FALSE /\ snd'.sendEof = snd.sendEof /\ snd'.up = snd.up
        \/ /\ ~snd.status /\ snd'.out = m.f /\ snd'.status = FALSE
           /\ snd'.sendEof = snd.sendEof /\ snd'.up = snd.up
        \/ ~snd.status /\ snd' = Down /\ s2r' = s2r
    BY <1>1, GETKinds, KnowsNow
  <1>4. ~Down.up
    BY DEF Down, SndInit
  <1>5. CASE snd' = Down
    <2>1. ~snd.status /\ s2r' = s2r
      BY <1>1, <1>3, <1>4, <1>5
    <2>2. Doubt(spool, taken) = {}
      BY <1>1, <2>1 DEF IsStatus
    <2>3. StcNames(Doubt(spool, taken), dt, stc')
      BY <2>2, NoDoubt
    <2> QED BY <1>0, <1>1, <1>5, <2>1, <2>3, SenderLeaves
  <1>6. CASE snd' # Down
    <2>1. s2r' = ToR(M_FILE(m.f, m.off)) /\ r2s' = Tail(r2s) /\ snd'.offReq = FALSE
      BY <1>1, <1>6, GETFields, KnowsNow
    <2>2. /\ snd'.reob = snd.reob /\ snd'.msgs \in Nat /\ snd'.msgs >= Capped(snd.msgs)
          /\ snd'.eob = snd.eob /\ snd'.qs = NoFile /\ snd'.up
      BY <1>1, <1>2, <1>6, GETBatch, KnowsNow
    <2> DEFINE x == M_FILE(m.f, m.off)
    <2>3. x \in Commands /\ x.t = "FILE" /\ x.f = m.f
      BY <1>1, FrameType, SentFields
    <2> HIDE DEF x
    <2>4. Counts(1, r2s', snd', rcv') /\ Counts(0, r2s', snd', rcv')
      <3>1. Counts(0, r2s, snd, rcv) /\ r2s \in Seq(Replies) /\ snd.msgs \in Nat
        BY <1>1, <1>2, KnowsNow DEF FirstBatch
      <3>2. Counts(0 + 1, Tail(r2s), snd', rcv)
        BY <1>1, <2>2, <3>1, CountsRead
      <3>3. snd'.msgs \in Nat
        BY <2>2
      <3> QED BY <1>0, <2>1, <3>2, <3>3, CountsLess
    <2>5. FirstBatch(s2r', r2s', snd', rcv')
      <3>1. ~snd.eob /\ EobAt(s2r) = {}
        BY <1>1, <1>2, KnowsNow DEF FirstBatch
      <3>2. EobAt(s2r') = {}
        BY <1>1, <2>1, <2>3, <3>1, NoEobSent, KnowsNow DEF x
      <3> QED BY <2>2, <2>4, <3>1, <3>2 DEF FirstBatch
    <2>6. Waiting(s2r', r2s', snd', stc')
      BY <2>2 DEF Waiting
    <2>7. Answers(r2s') = {}
      BY <1>1, <2>1
    <2>8. Skipping(r2s', snd', rcv')
      <3>1. ~Refused(r2s, snd)
        <4>1. 1 \in Answers(r2s)
          BY <1>1, TailAnswers, KnowsNow
        <4> QED BY <1>1, <4>1 DEF Refused
      <3> QED BY <1>0, <1>1, <3>1, KnowsNow DEF Skipping
    <2>9. AnswersSafe(spool', taken', r2s', snd')
      BY <2>7, NoneToRead DEF AnswersSafe
    <2>10. CASE IsStatus(snd) /\ m.off = Size[m.f]
      <3>1. /\ stc' = stc /\ snd'.out = m.f /\ snd'.status = TRUE /\ snd'.waitGOT = TRUE
            /\ snd'.sent = {}
        BY <1>3, <2>10 DEF IsStatus
      <3>2. IsStatus(snd') /\ Unresolved(snd')
        BY <1>1, <1>2, <3>1 DEF IsStatus, Unresolved
      <3>3. Alone(s2r', r2s', snd', stc')
        <4>1. snd.out = stc /\ \A i \in 1..Len(s2r) : s2r[i].t = "FILE" => s2r[i].f = snd.out
          BY <1>1, <2>10, KnowsNow DEF Alone
        <4>2. \A i \in 1..Len(s2r') : s2r'[i].t = "FILE" => s2r'[i].f = snd.out
          <5>1. CASE s2r' = s2r
            BY <4>1, <5>1
          <5>2. CASE s2r' = Append(s2r, x)
            <6>1. /\ Len(s2r) \in Nat /\ Len(s2r') = Len(s2r) + 1
                  /\ \A i \in 1..Len(s2r) : s2r'[i] = s2r[i]
                  /\ s2r'[Len(s2r) + 1] = x
              BY <1>1, <2>3, <5>2, AppendIndex, KnowsNow
            <6>2. \A i \in 1..Len(s2r') : (i \in 1..Len(s2r) /\ s2r'[i] = s2r[i]) \/ s2r'[i] = x
              BY <6>1
            <6> QED BY <1>1, <2>3, <4>1, <6>2
          <5> QED BY <2>1, <5>1, <5>2 DEF ToR, x
        <4> QED BY <1>1, <2>2, <2>7, <3>1, <4>1, <4>2 DEF Alone
      <3>4. /\ Counted(r2s', Doubt(spool', taken'), snd', rcv')
            /\ Placed(Doubt(spool', taken'), snd', rcv')
        BY <3>2 DEF Counted, Placed
      <3>5. StcNames(Doubt(spool', taken'), dt', stc')
        BY <1>0, <1>1, <3>1, KnowsNow
      <3> QED BY <2>2, <2>5, <2>6, <2>8, <2>9, <3>2, <3>3, <3>4, <3>5, SenderGoesOn
    <2>11. CASE Doubt(spool, taken) = {} /\ ~(IsStatus(snd) /\ m.off = Size[m.f])
      <3>1. ~IsStatus(snd') /\ ~snd'.sendEof
        BY <1>1, <1>2, <1>3, <1>6, <2>11 DEF IsStatus
      <3>2. Alone(s2r', r2s', snd', stc')
        BY <3>1 DEF Alone
      <3>3. /\ Counted(r2s', Doubt(spool', taken'), snd', rcv')
            /\ Placed(Doubt(spool', taken'), snd', rcv')
        BY <1>0, <2>11 DEF Counted, Placed
      <3>4. StcNames(Doubt(spool', taken'), dt', stc')
        BY <1>0, <2>11, NoDoubt
      <3> QED BY <2>2, <2>5, <2>6, <2>8, <2>9, <3>1, <3>2, <3>3, <3>4, SenderGoesOn
    <2> QED BY <1>1, <2>10, <2>11
  <1> QED BY <1>5, <1>6

(* The M_GOT the sender reads: the file it names is settled, or it becomes *)
(* the one in doubt.                                                       *)
LEMMA GOTExpected ==
    ASSUME IInv, DInv, NDInv, mode = "nd", ~Ended, SenderReads("GOT")
    PROVE  LET m == Head(r2s) IN
           /\ r2s # <<>> /\ m = r2s[1] /\ r2s[1].t = "GOT" /\ m.f \in Files /\ snd.up
           /\ m.f \in {snd.out} \cup snd.sent /\ ~snd.sendEof
           /\ Answers(Tail(r2s)) = {} /\ ~(rcv.up /\ rcv.skipAll)
           /\ IsStatus(snd) => m.f = snd.out
           /\ \/ Settled(spool, taken, r2s) /\ Paced
              \/ snd.waitGOT /\ ~snd.offReq /\ Doubt(spool, taken) \subseteq {m.f}
  <1> DEFINE m == Head(r2s)
  <1>1. snd.up /\ r2s # <<>> /\ m.t = "GOT"
    BY DEF SenderReads
  <1>2. m = r2s[1] /\ m.f \in Files
    BY <1>1, TailIndex, SenderHead, KnowsNow
  <1>3. 1 \in Answers(r2s)
    BY <1>1, <1>2, TailAnswers, KnowsNow
  <1>4. ~Refused(r2s, snd)
    BY <1>1, <1>2, <1>3 DEF Refused
  <1>5. ~(rcv.up /\ rcv.skipAll)
    BY <1>1, <1>4, KnowsNow DEF Skipping
  <1>6. IsStatus(snd) => m.f = snd.out
    BY <1>1, <1>2, <1>3, KnowsNow DEF Alone
  <1>7. CASE Settled(spool, taken, r2s)
    <2>1. Paced
      BY <1>1, <1>7, KnowsNow
    <2>2. /\ Answers(Tail(r2s)) = {} /\ ~snd.sendEof /\ Answer(m, rcv, dt, inbound, snd)
      BY <1>1, <1>2, <2>1, AnswerRead, StopParts
    <2>3. m.f \in {snd.out} \cup snd.sent
      BY <1>1, <2>2 DEF Answer
    <2> QED BY <1>1, <1>2, <1>5, <1>6, <1>7, <2>1, <2>2, <2>3
  <1>8. CASE OneToRead(r2s, Doubt(spool, taken), snd)
    <2>1. Reading(m, Doubt(spool, taken), snd) /\ ~snd.sendEof
      BY <1>2, <1>3, <1>8 DEF OneToRead
    <2>2. /\ snd.waitGOT /\ ~snd.offReq /\ m.f \in {snd.out} \cup snd.sent
          /\ Doubt(spool, taken) \subseteq {m.f}
      BY <1>1, <2>1 DEF Reading
    <2>3. Answers(Tail(r2s)) = {}
      <3>1. \A i, j \in Answers(r2s) : i = j
        BY <1>8 DEF OneToRead
      <3>2. r2s[1].t # "EOB" /\ r2s \in Seq(Replies)
        BY <1>1, <1>2, KnowsNow
      <3> QED BY <1>1, <3>1, <3>2, AnswersLeft
    <2> QED BY <1>1, <1>2, <1>5, <1>6, <2>1, <2>2, <2>3
  <1> QED BY <1>1, <1>4, <1>7, <1>8, KnowsNow DEF AnswersSafe

(* ND_set_status, called with an answer that leaves a doubt. *)
LEMMA GOTStcNames ==
    ASSUME mode = "nd", snd.waitGOT, ~snd.offReq, Head(r2s).f \in {snd.out} \cup snd.sent
    PROVE  GOTStc(Head(r2s)) = Head(r2s).f
  <1>1. we_nd /\ mode # "nr"
    BY DEF we_nd
  <1>2. GOTOut(Head(r2s)) \/ GOTSent(Head(r2s))
    BY DEF GOTOut, GOTSent
  <1> QED BY <1>1, <1>2 DEF GOTStc, GOTSent

(* The file of an M_GOT is delivered or refused, or is in_complete.        *)
LEMMA GotPlaced ==
    ASSUME IInv, r2s # <<>>, Head(r2s).t = "GOT", taken[Head(r2s).f] = 0
    PROVE  LET f == Head(r2s).f IN dt[f] = Size[f] /\ (rcv.complete = f \/ ~rcv.up)
  <1> DEFINE f == Head(r2s).f
  <1>1. 1 \in 1..Len(r2s) /\ Head(r2s) = r2s[1]
    BY TailIndex DEF IInv, TypeOK
  <1>2. f \in Acked
    BY <1>1 DEF Acked
  <1>3. \/ delivered[f] > 0 \/ f \in refused
        \/ (dt[f] = Size[f] /\ (rcv.complete = f \/ ~rcv.up))
    BY <1>2 DEF IInv, GotHeld
  <1>4. f \in Files /\ TypeOK
    BY <1>2, AckedAreHeld DEF IInv
  <1> QED BY <1>3, <1>4, TakenType

LEMMA GOTSafe ==
    ASSUME IInv, DInv, NDInv, mode = "nd", ~Ended, GOT
    PROVE  NDInv'
  <1> DEFINE m == Head(r2s)
  <1>0. /\ SenderReads("GOT") /\ UNCHANGED <<taken, dt, rcv, s2r>> /\ r2s' = Tail(r2s)
        /\ stc' = GOTStc(m) /\ spool' = GOTSpool(m)
    BY TakenSame DEF GOT
  <1>1. /\ r2s # <<>> /\ m = r2s[1] /\ m.t = "GOT" /\ m.f \in Files /\ snd.up
        /\ m.f \in {snd.out} \cup snd.sent /\ ~snd.sendEof
        /\ Answers(Tail(r2s)) = {} /\ ~(rcv.up /\ rcv.skipAll)
        /\ IsStatus(snd) => m.f = snd.out
        /\ \/ Settled(spool, taken, r2s) /\ Paced
           \/ snd.waitGOT /\ ~snd.offReq /\ Doubt(spool, taken) \subseteq {m.f}
    BY <1>0, GOTExpected
  <1>2. snd.qs = NoFile /\ Work(snd)
    BY <1>1, KnowsNow, FilesAssumption DEF Waiting, Work
  <1>3. /\ snd'.sendEof = snd.sendEof
        /\ \/ /\ m.f = snd.out /\ snd'.out = NoFile /\ snd'.sent = snd.sent
              /\ snd'.waitGOT = FALSE /\ snd'.offReq = FALSE
           \/ /\ m.f # snd.out /\ snd'.out = snd.out /\ snd'.status = snd.status
              /\ snd'.offReq = snd.offReq
              /\ snd'.sent = snd.sent \ {m.f} /\ snd'.waitGOT = FALSE
    BY <1>1, GOTFields, KnowsNow
  <1>4. /\ snd'.reob = snd.reob /\ snd'.msgs = Capped(snd.msgs) /\ snd'.eob = snd.eob
        /\ snd'.qs = NoFile /\ snd'.up
    BY <1>1, <1>2, GOTBatch, KnowsNow
  <1>5. ~IsStatus(snd') /\ ~snd'.sendEof
    BY <1>1, <1>3 DEF IsStatus
  <1>6. Answers(r2s') = {}
    BY <1>0, <1>1
  <1>7. /\ Waiting(s2r', r2s', snd', stc') /\ Alone(s2r', r2s', snd', stc')
        /\ AnswersSafe(spool', taken', r2s', snd')
    BY <1>4, <1>5, <1>6, NoneToRead DEF Waiting, Alone, AnswersSafe
  <1>8. Skipping(r2s', snd', rcv')
    BY <1>0, <1>1 DEF Skipping
  <1>9. spool' = spool \/ spool' = spool \ {m.f}
    BY <1>0 DEF GOTSpool
  <1>10. /\ ~snd.eob /\ EobAt(s2r) = {} /\ Counts(0, r2s, snd, rcv)
         /\ snd.waitGOT \/ (snd.out # NoFile /\ ~snd.offReq) => Counts(1, r2s, snd, rcv)
    BY <1>1, <1>2, KnowsNow DEF FirstBatch
  <1>11. \A k \in {0, 1} : Counts(k, r2s, snd, rcv) => Counts(k + 1, r2s', snd', rcv')
    <2>1. r2s \in Seq(Replies) /\ snd.msgs \in Nat /\ r2s[1].t # "EOB"
      BY <1>1, KnowsNow
    <2>2. Capped(snd.msgs) \in Nat /\ Capped(snd.msgs) >= Capped(snd.msgs)
      <3>1. Capped(snd.msgs) \in Nat
        BY <2>1, CappedMore
      <3> QED BY <3>1
    <2> QED BY <1>0, <1>1, <1>4, <2>1, <2>2, CountsRead
  <1>12. Counts(0 + 1, r2s', snd', rcv') /\ snd'.msgs \in Nat
    BY <1>1, <1>4, <1>10, <1>11, CappedMore, KnowsNow
  <1>13. FirstBatch(s2r', r2s', snd', rcv')
    BY <1>0, <1>4, <1>10, <1>12, CountsLess DEF FirstBatch
  <1>14. CASE Settled(spool, taken, r2s)
    <2>1. Doubt(spool', taken') = {}
      BY <1>0, <1>1, <1>9, <1>14, SettledRead, KnowsNow
    <2>2. /\ StcNames(Doubt(spool', taken'), dt', stc')
          /\ Counted(r2s', Doubt(spool', taken'), snd', rcv')
          /\ Placed(Doubt(spool', taken'), snd', rcv')
      BY <2>1, NoDoubt DEF Counted, Placed
    <2> QED BY <1>4, <1>5, <1>7, <1>8, <1>13, <2>2, SenderGoesOn
  <1>15. CASE snd.waitGOT /\ ~snd.offReq /\ Doubt(spool, taken) \subseteq {m.f}
    <2>1. stc' = m.f
      BY <1>0, <1>1, <1>15, GOTStcNames
    <2>2. Doubt(spool', taken') \subseteq {m.f}
      BY <1>0, <1>9, <1>15 DEF Doubt
    <2>3. ASSUME Doubt(spool', taken') # {}
          PROVE  dt[m.f] = Size[m.f] /\ (rcv.complete = m.f \/ ~rcv.up)
      <3>1. taken[m.f] = 0
        BY <1>0, <2>2, <2>3 DEF Doubt
      <3> QED BY <1>1, <3>1, GotPlaced
    <2>4. StcNames(Doubt(spool', taken'), dt', stc')
      BY <1>0, <2>1, <2>2, <2>3 DEF StcNames
    <2>5. Placed(Doubt(spool', taken'), snd', rcv')
      BY <1>0, <2>2, <2>3 DEF Placed
    <2>6. Counted(r2s', Doubt(spool', taken'), snd', rcv')
      <3>1. Counts(1 + 1, r2s', snd', rcv')
        BY <1>10, <1>11, <1>15
      <3> QED BY <3>1 DEF Counted
    <2> QED BY <1>4, <1>5, <1>7, <1>8, <1>13, <2>4, <2>5, <2>6, SenderGoesOn
  <1> QED BY <1>1, <1>14, <1>15

LEMMA GOTCrashSafe ==
    ASSUME IInv, DInv, NDInv, mode = "nd", ~Ended, GOTCrash
    PROVE  NDInv'
  <1> DEFINE m == Head(r2s)
  <1>0. /\ SenderReads("GOT") /\ UNCHANGED <<spool, taken, dt, rcv, s2r>>
        /\ stc' = GOTStc(m) /\ snd' = Down
    BY TakenSame DEF GOTCrash, SenderQuits
  <1>1. /\ snd.up /\ m.f \in {snd.out} \cup snd.sent
        /\ \/ Settled(spool, taken, r2s)
           \/ snd.waitGOT /\ ~snd.offReq /\ Doubt(spool, taken) \subseteq {m.f}
    BY <1>0, GOTExpected
  <1>2. CASE Settled(spool, taken, r2s)
    <2>1. StcNames(Doubt(spool, taken), dt, stc')
      BY <1>2, NoDoubt DEF Settled
    <2> QED BY <1>0, <1>1, <2>1, SenderLeaves
  <1>3. CASE snd.waitGOT /\ ~snd.offReq /\ Doubt(spool, taken) \subseteq {m.f}
    <2>1. stc' = m.f
      BY <1>0, <1>1, <1>3, GOTStcNames
    <2>2. StcNames(Doubt(spool, taken), dt, stc)
      BY <1>1, KnowsNow
    <2>3. StcNames(Doubt(spool, taken), dt, stc')
      BY <1>3, <2>1, <2>2 DEF StcNames
    <2> QED BY <1>0, <1>1, <2>3, SenderLeaves
  <1> QED BY <1>1, <1>2, <1>3

LEMMA SKIPBatch ==
    ASSUME TypeOK, SKIP, snd' # Down
    PROVE  /\ snd'.reob = snd.reob /\ snd'.msgs \in Nat /\ snd'.msgs >= Capped(snd.msgs)
           /\ snd'.eob = snd.eob
           /\ snd'.q = snd.q /\ snd'.qs = snd.qs /\ snd'.up = snd.up
  <1> DEFINE f == Head(r2s).f
             o == IF Read.out = f THEN NoFile ELSE Read.out
             p == IF snd.out = f THEN 0 ELSE Read.pos
             w == Read.waitGOT /\ ~we_nr
             rq == Read.offReq /\ ~we_nr
  <1>1. snd' = SKIPState(f)
    BY DEF SKIP, SenderQuits
  <1>2. SKIPState(f) = [Read EXCEPT !.sent = @ \ {f}, !.ndAddr = FALSE, !.out = o,
                                    !.pos = p, !.waitGOT = w, !.offReq = rq]
    BY DEF SKIPState
  <1> HIDE DEF o, p, w, rq
  <1>3. /\ snd'.reob = Read.reob /\ snd'.msgs = Read.msgs /\ snd'.eob = Read.eob
        /\ snd'.q = Read.q /\ snd'.qs = Read.qs /\ snd'.up = Read.up
    BY <1>1, <1>2, ReadBatch DEF SndStates
  <1>4. Capped(snd.msgs) \in Nat /\ Capped(snd.msgs) >= Capped(snd.msgs)
    <2>1. Capped(snd.msgs) \in Nat
      BY ReadBatch, CappedMore
    <2> QED BY <2>1
  <1> QED BY <1>3, <1>4, ReadBatch, ReadFields

(* Only the status can be skipped while a doubt remains, and that ends the *)
(* session.                                                                *)
LEMMA SKIPSafe ==
    ASSUME IInv, DInv, NDInv, mode = "nd", ~Ended, SKIP
    PROVE  NDInv'
  <1> DEFINE m == Head(r2s)
  <1>0. snd.up /\ r2s # <<>> /\ m.t = "SKIP" /\ UNCHANGED <<spool, taken, dt, rcv, s2r>>
    <2>1. UNCHANGED <<spool, dt, delivered, refused, s2r, rcv>>
      BY DEF SKIP
    <2>2. snd.up /\ r2s # <<>> /\ m.t = "SKIP"
      BY DEF SKIP, SenderReads
    <2> QED BY <2>1, <2>2, TakenSame
  <1>1. m = r2s[1] /\ 1 \in Answers(r2s) /\ r2s \in Seq(Replies)
    BY <1>0, TailIndex, TailAnswers, KnowsNow
  <1>3. ~OneToRead(r2s, Doubt(spool, taken), snd)
    BY <1>0, <1>1 DEF OneToRead, Reading
  <1>4. CASE snd.out = m.f /\ snd.status
    <2>1. snd' = Down /\ stc' = stc
      BY <1>4 DEF SKIP, SenderQuits
    <2> QED BY <1>0, <2>1, SenderLeaves, KnowsNow
  <1>5. CASE ~(snd.out = m.f /\ snd.status)
    <2>1. ~Refused(r2s, snd)
      BY <1>0, <1>1, <1>5, KnowsNow DEF Refused, Alone, IsStatus
    <2>2. Settled(spool, taken, r2s) /\ Paced
      BY <1>0, <1>3, <2>1, KnowsNow DEF AnswersSafe
    <2>3. /\ Answer(m, rcv, dt, inbound, snd) /\ Answers(Tail(r2s)) = {} /\ ~snd.sendEof
          /\ OneAtATime(snd)
      BY <1>0, <1>1, <2>2, AnswerRead, StopParts
    <2>4. snd.offReq /\ m.f = snd.out /\ snd.out # NoFile /\ snd.sent = {} /\ ~snd.status
      BY <1>0, <1>5, <2>3 DEF Answer, OneAtATime
    <2>5. snd.qs = NoFile /\ Work(snd)
      BY <1>0, <2>4, KnowsNow DEF Waiting, Work
    <2>6. snd' = SKIPState(m.f) /\ r2s' = Tail(r2s)
      BY <1>5 DEF SKIP
    <2>7. snd' # Down
      <3>1. SKIPState(m.f).up = Read.up
        BY ReadFields, KnowsNow, <1>0 DEF SKIPState, SndStates
      <3>2. SKIPState(m.f).up
        BY <1>0, <3>1, ReadFields, KnowsNow
      <3> QED BY <2>6, <3>2 DEF Down, SndInit
    <2>8. /\ snd'.out = NoFile /\ snd'.sent = {} /\ ~snd'.sendEof
          /\ ~snd'.offReq /\ ~snd'.waitGOT
      BY <1>0, <2>3, <2>4, <2>7, SKIPFields, KnowsNow
    <2>9. /\ snd'.reob = snd.reob /\ snd'.msgs \in Nat /\ snd'.msgs >= Capped(snd.msgs)
          /\ snd'.eob = snd.eob /\ snd'.qs = NoFile /\ snd'.up
      BY <1>0, <2>5, <2>7, SKIPBatch, KnowsNow
    <2>10. ~IsStatus(snd') /\ ~Unresolved(snd')
      BY <2>8, <2>9 DEF IsStatus, Unresolved
    <2>11. Settled(spool', taken', r2s') /\ Doubt(spool', taken') = {}
      BY <1>0, <1>1, <2>2, <2>6, SettledRead, KnowsNow
    <2>12. /\ Waiting(s2r', r2s', snd', stc') /\ Alone(s2r', r2s', snd', stc')
           /\ AnswersSafe(spool', taken', r2s', snd')
      BY <2>9, <2>10, <2>11 DEF Waiting, Alone, AnswersSafe
    <2>13. FirstBatch(s2r', r2s', snd', rcv')
      <3>1. ~snd.eob /\ EobAt(s2r) = {} /\ Counts(0, r2s, snd, rcv) /\ snd.msgs \in Nat
        BY <1>0, <2>5, KnowsNow DEF FirstBatch
      <3>2. Counts(0 + 1, Tail(r2s), snd', rcv)
        BY <1>0, <1>1, <2>9, <3>1, CountsRead
      <3>3. Counts(0, r2s', snd', rcv') /\ Counts(1, r2s', snd', rcv')
        BY <1>0, <2>6, <2>9, <3>2, CountsLess
      <3> QED BY <1>0, <2>9, <3>1, <3>3 DEF FirstBatch
    <2>14. /\ StcNames(Doubt(spool', taken'), dt', stc')
           /\ Counted(r2s', Doubt(spool', taken'), snd', rcv')
           /\ Placed(Doubt(spool', taken'), snd', rcv')
      BY <2>11, NoDoubt DEF Counted, Placed
    <2>15. Skipping(r2s', snd', rcv')
      BY <1>0, <2>2 DEF Skipping, Paced
    <2> QED BY <2>8, <2>9, <2>12, <2>13, <2>14, <2>15, SenderGoesOn
  <1> QED BY <1>4, <1>5

LEMMA SenderSafe ==
    ASSUME Steady, IInv, DInv, NDInv, mode = "nd", SenderNext
    PROVE  NDInv'
  <1>1. CASE Ended
    BY <1>1, EndedKept
  <1>2. CASE ~Ended
    <2>1. CASE SenderDrop
      <3>1. snd.up /\ snd' = Down /\ UNCHANGED <<spool, stc, taken, dt, rcv, s2r>>
        BY <2>1, TakenSame DEF SenderDrop, SenderQuits
      <3> QED BY <1>2, <3>1, SenderLeaves, KnowsNow
    <2>2. ~GOTStcFails
      BY DEF GOTStcFails, Steady
    <2> QED BY <1>2, <2>1, <2>2, StartFileSafe, StartStatusSafe, SendDataSafe, StatusEofSafe,
          SendEOBSafe, EndBatchSafe, SenderEOBSafe, GETSafe, GOTSafe, GOTCrashSafe, SKIPSafe
          DEF SenderNext
  <1> QED BY <1>1, <1>2

-----------------------------------------------------------------------------
(*                          The receiver's steps                           *)

(* The .dt files that are whole stay so, but for the one that is renamed. *)
KeepsWhole(d, d2, c) == \A g \in Files : g # c /\ d[g] = Size[g] => d2[g] = Size[g]

LEMMA WholeKept ==
    ASSUME Steady, NEW d \in Dts
    PROVE  /\ \A f \in Files \cup {NoFile} : \A c : KeepsWhole(d, ClosePartial(d, f), c)
           /\ \A f \in Files : \A c : KeepsWhole(d, Opened(d, f), c)
           /\ KeepsWhole(d, CompleteDt(d), rcv.complete)
           /\ \A c : KeepsWhole(d, d, c)
  <1>0. \A g \in Files : Size[g] \in Nat /\ Size[g] > 0 /\ Size[g] # 0 /\ Size[g] # Absent
    <2>1. \A g \in Files : Size[g] \in Nat /\ Size[g] > 0
      BY FilesAssumption DEF Steady
    <2> QED BY <2>1 DEF Absent
  <1>1. ASSUME NEW f \in Files \cup {NoFile}, NEW g \in Files, d[g] = Size[g]
        PROVE  ClosePartial(d, f)[g] = Size[g]
    <2>1. CASE f # NoFile /\ (f \in Pkts \/ d[f] = 0)
      <3>1. f \in Files /\ f # g
        BY <1>0, <1>1, <2>1 DEF Steady
      <3>2. ClosePartial(d, f) = [d EXCEPT ![f] = Absent]
        BY <2>1 DEF ClosePartial
      <3> QED BY <1>1, <3>1, <3>2 DEF Dts
    <2>2. CASE ~(f # NoFile /\ (f \in Pkts \/ d[f] = 0))
      BY <1>1, <2>2 DEF ClosePartial
    <2> QED BY <2>1, <2>2
  <1>2. ASSUME NEW f \in Files, NEW g \in Files, d[g] = Size[g]
        PROVE  Opened(d, f)[g] = Size[g]
    BY <1>0, <1>2 DEF Opened, Dts
  <1>3. ASSUME NEW g \in Files, g # rcv.complete, d[g] = Size[g]
        PROVE  CompleteDt(d)[g] = Size[g]
    BY <1>3 DEF CompleteDt, Dts
  <1> QED BY <1>1, <1>2, <1>3 DEF KeepsWhole

LEMMA WholeTrans ==
    ASSUME NEW d, NEW d2, NEW d3, NEW c, KeepsWhole(d, d2, c), KeepsWhole(d2, d3, c)
    PROVE  KeepsWhole(d, d3, c)
  BY DEF KeepsWhole

(* in_complete is renamed. *)
LEMMA DoneGrows ==
    ASSUME TypeOK, CompleteDone
    PROVE  /\ Grows(delivered, delivered')
           /\ we_nd /\ rcv.complete # NoFile => delivered'[rcv.complete] > 0
  <1>1. /\ delivered \in [Files -> Nat]
        /\ rcv.complete \in Files \cup {NoFile}
    BY DEF TypeOK, RcvStates
  <1>2. \A n : Renamed(n) > 0
    BY DEF Renamed
  <1>3. CASE we_nd /\ rcv.complete # NoFile
    <2>1. delivered' = [delivered EXCEPT ![rcv.complete] = Renamed(@)]
      BY <1>3 DEF CompleteDone, InbDone
    <2> QED BY <1>1, <1>2, <1>3, <2>1 DEF Grows
  <1>4. CASE ~(we_nd /\ rcv.complete # NoFile)
    <2>1. delivered' = delivered
      BY <1>4 DEF CompleteDone
    <2> QED BY <1>4, <2>1 DEF Grows
  <1> QED BY <1>3, <1>4

(* What is delivered or refused stays so. *)
LEMMA TakenGrows ==
    ASSUME Grows(delivered, delivered'), refused \subseteq refused'
    PROVE  /\ Grows(taken, taken')
           /\ \A f \in Files : delivered'[f] > 0 \/ f \in refused' => taken'[f] > 0
  <1>1. \A f \in Files : taken[f] = (IF f \in refused THEN 1 ELSE delivered[f])
                     /\ taken'[f] = (IF f \in refused' THEN 1 ELSE delivered'[f])
    BY DEF taken, Taken
  <1>2. 1 > 0
    OBVIOUS
  <1> QED BY <1>1, <1>2 DEF Grows

(* start_file_recv: the disk, and the answer of a receiver that skips *)
LEMMA RecvMore ==
    ASSUME Steady, IInv, DInv, start_file_recv
    PROVE  LET m == s2r[1] IN
           /\ UNCHANGED <<spool, stc>> /\ rcv.up
           /\ Grows(taken, taken')
           /\ we_nd /\ rcv.complete # NoFile => taken'[rcv.complete] > 0
           /\ KeepsWhole(dt, dt', rcv.complete)
           /\ rcv'.eob = rcv.eob /\ rcv'.reob = rcv.reob
           /\ rcv.skipAll => rcv'.skipAll
           /\ rcv'.skipAll =>
                 \/ r2s' = ToS(M_SKIP(m.f))
                 \/ /\ rcv.skipAll /\ r2s' = ToS(M_GOT(m.f))
                    /\ \/ m.f \in inbound \/ (we_nd /\ m.f = rcv.complete)
                       \/ m.f \in refused'
           /\ m.f \in inbound \/ (we_nd /\ m.f = rcv.complete) \/ m.f \in refused' =>
                 taken'[m.f] > 0
  <1> DEFINE m == s2r[1]
             other == rcv.in # m.f
             e == IF other THEN ClosePartial(dt, rcv.in) ELSE dt
             d == CompleteDt(e)
             h == [Heard EXCEPT !.in = IF other THEN NoFile ELSE @, !.theyNR = @ \/ m.off = -1]
             r == CompleteRcv(h)
             have == InbTest(m.f) \/ (we_nd /\ m.f = rcv.complete)
  <1>1. /\ TypeOK /\ s2r \in Seq(Commands) /\ rcv \in RcvStates /\ dt \in Dts
    BY DEF IInv, TypeOK, Dts
  <1>2. /\ rcv.up /\ s2r # <<>> /\ m = Head(s2r) /\ m \in Commands /\ m.t = "FILE" /\ m.f \in Files
    BY <1>1, TailIndex, CommandFields DEF start_file_recv, ReceiverReads
  <1>3. UNCHANGED <<spool, stc>> /\ CompleteDone /\ refused \subseteq refused'
    BY DEF start_file_recv, Ruled
  <1>4. /\ h \in RcvStates /\ h.skipAll = rcv.skipAll
        /\ h.in = (IF other THEN NoFile ELSE rcv.in) /\ h.eob = rcv.eob /\ h.reob = rcv.reob
    <2> DEFINE i == IF other THEN NoFile ELSE Heard.in
               y == Heard.theyNR \/ m.off = -1
    <2>1. i \in Files \cup {NoFile} /\ i = (IF other THEN NoFile ELSE rcv.in)
      BY <1>1, HeardFields DEF RcvStates
    <2>2. y \in BOOLEAN
      BY <1>1, HeardFields DEF RcvStates
    <2>3. h = [Heard EXCEPT !.in = i, !.theyNR = y]
      OBVIOUS
    <2>4. Heard.eob = rcv.eob /\ Heard.reob = rcv.reob
      BY <1>1, OneMoreRcv DEF Heard
    <2> HIDE DEF h, i, y
    <2>5. /\ h \in RcvStates /\ h.skipAll = Heard.skipAll /\ h.in = i
          /\ h.eob = Heard.eob /\ h.reob = Heard.reob
      BY <1>1, <2>1, <2>2, <2>3, HeardFields DEF RcvStates
    <2> QED BY <1>1, <2>1, <2>4, <2>5, HeardFields
  <1>5. \/ r.in # NoFile /\ RecvFrom(m, d, r)
        \/ r.in = NoFile /\ Ruled(m, d, r)
        \/ /\ r.in = NoFile /\ have /\ rcv' = OneMore(r) /\ r2s' = ToS(M_GOT(m.f)) /\ dt' = d
        \/ r.in = NoFile /\ ~have /\ RecvOpen(m, d, r)
    BY <1>2 DEF start_file_recv
  <1> HIDE DEF h
  <1>6. /\ r \in RcvStates /\ r.skipAll = rcv.skipAll
        /\ r.in = (IF other THEN NoFile ELSE rcv.in)
        /\ r.eob = rcv.eob /\ r.reob = rcv.reob
    BY <1>4 DEF CompleteRcv, RcvStates
  <1> HIDE DEF r
  <1>7. d \in Dts /\ KeepsWhole(dt, d, rcv.complete)
    <2>1. rcv.in \in Files \cup {NoFile}
      BY <1>1 DEF RcvStates
    <2>2. e \in Dts /\ KeepsWhole(dt, e, rcv.complete)
      BY <1>1, <2>1, ClosePartialType, WholeKept
    <2> HIDE DEF e
    <2>3. d \in Dts /\ KeepsWhole(e, d, rcv.complete)
      BY <1>1, <2>2, CompleteDtType, WholeKept
    <2> QED BY <2>2, <2>3, WholeTrans
  <1> HIDE DEF d
  <1>8. /\ Grows(taken, taken')
        /\ we_nd /\ rcv.complete # NoFile => taken'[rcv.complete] > 0
        /\ m.f \in inbound \/ (we_nd /\ m.f = rcv.complete) \/ m.f \in refused' =>
              taken'[m.f] > 0
    <2>1. /\ Grows(delivered, delivered')
          /\ we_nd /\ rcv.complete # NoFile => delivered'[rcv.complete] > 0
      BY <1>1, <1>3, DoneGrows
    <2>2. /\ Grows(taken, taken')
          /\ \A f \in Files : delivered'[f] > 0 \/ f \in refused' => taken'[f] > 0
      BY <1>3, <2>1, TakenGrows
    <2>3. m.f \in inbound => delivered'[m.f] > 0
      BY <1>2, <2>1 DEF IInv, InboundDelivered, Grows
    <2>4. rcv.complete \in Files \cup {NoFile}
      BY <1>1 DEF RcvStates
    <2> HIDE DEF m
    <2> QED BY <1>2, <2>1, <2>2, <2>3, <2>4, FilesAssumption
  <1>9. ASSUME NEW x \in Dts, KeepsWhole(dt, x, rcv.complete), RecvFrom(m, x, r), ~rcv.skipAll
        PROVE  /\ KeepsWhole(dt, dt', rcv.complete) /\ rcv'.skipAll = rcv.skipAll
               /\ rcv'.eob = rcv.eob /\ rcv'.reob = rcv.reob
    <2>1. dt' = x /\ rcv'.skipAll = r.skipAll
      BY <1>2, <1>6, <1>9, RecvFromFields
    <2>2. rcv'.eob = r.eob /\ rcv'.reob = r.reob
      <3>1. CASE m.off # x[m.f]
        <4>1. rcv' = OneMore([r EXCEPT !.in = NoFile, !.balance = r.balance + 1])
          BY <1>9, <3>1 DEF RecvFrom
        <4> QED BY <1>6, <4>1 DEF OneMore, RcvStates
      <3>2. CASE m.off = x[m.f]
        <4> DEFINE b == IF m.off # 0 \/ r.theyNR THEN r.balance - 1 ELSE r.balance
        <4>1. rcv' = [r EXCEPT !.in = m.f, !.balance = b]
          BY <1>9, <3>2 DEF RecvFrom
        <4> HIDE DEF b
        <4> QED BY <1>6, <4>1 DEF RcvStates
      <3> QED BY <3>1, <3>2
    <2>3. rcv'.eob = r.eob /\ rcv'.reob = r.reob
      BY <2>2
    <2> QED BY <1>6, <1>9, <2>1, <2>3
  <1>10. CASE r.in # NoFile /\ RecvFrom(m, d, r)
    <2>1. ~rcv.skipAll
      BY <1>6, <1>10 DEF DInv
    <2>2. /\ KeepsWhole(dt, dt', rcv.complete) /\ rcv'.skipAll = rcv.skipAll
          /\ rcv'.eob = rcv.eob /\ rcv'.reob = rcv.reob
      BY <1>7, <1>9, <1>10, <2>1
    <2> HIDE DEF m
    <2> QED BY <1>2, <1>3, <1>8, <2>1, <2>2
  <1>13. CASE r.in = NoFile /\ Ruled(m, d, r)
    <2>1. /\ rcv'.eob = rcv.eob /\ rcv'.reob = rcv.reob /\ rcv'.skipAll = rcv.skipAll
          /\ dt' = d
      BY <1>6, <1>13, OneMoreRcv DEF Ruled
    <2>2. \/ r2s' = ToS(M_GOT(m.f)) /\ m.f \in refused'
          \/ r2s' = ToS(M_SKIP(m.f))
      BY <1>13 DEF Ruled
    <2> HIDE DEF m
    <2> QED BY <1>2, <1>3, <1>7, <1>8, <2>1, <2>2 DEF m
  <1>11. CASE r.in = NoFile /\ have /\ rcv' = OneMore(r) /\ r2s' = ToS(M_GOT(m.f)) /\ dt' = d
    <2>1. m.f \in inbound \/ (we_nd /\ m.f = rcv.complete)
      BY <1>11 DEF InbTest
    <2>2. /\ rcv'.eob = rcv.eob /\ rcv'.reob = rcv.reob /\ rcv'.skipAll = rcv.skipAll
      BY <1>6, <1>11, OneMoreRcv
    <2> HIDE DEF m, have
    <2> QED BY <1>2, <1>3, <1>7, <1>8, <1>11, <2>1, <2>2 DEF m
  <1>12. CASE r.in = NoFile /\ ~have /\ RecvOpen(m, d, r)
    <2> DEFINE o == Opened(d, m.f)
    <2>1. o \in Dts /\ KeepsWhole(dt, o, rcv.complete)
      <3>1. o \in Dts /\ KeepsWhole(d, o, rcv.complete)
        BY <1>2, <1>7, DtTypes, WholeKept
      <3> QED BY <1>7, <3>1, WholeTrans
    <2> HIDE DEF have
    <2>2. CASE ~r.skipAll /\ RecvFrom(m, o, r)
      <3> HIDE DEF o
      <3>1. /\ KeepsWhole(dt, dt', rcv.complete) /\ rcv'.skipAll = rcv.skipAll
            /\ rcv'.eob = rcv.eob /\ rcv'.reob = rcv.reob /\ ~rcv.skipAll
        BY <1>6, <1>9, <2>1, <2>2
      <3> HIDE DEF m
      <3> QED BY <1>2, <1>3, <1>8, <3>1
    <2>3. CASE /\ rcv' = OneMore([r EXCEPT !.in = NoFile, !.skipAll = TRUE])
               /\ r2s' = ToS(M_SKIP(m.f)) /\ dt' \in {d, o}
      <3>1. rcv'.skipAll = TRUE /\ rcv'.eob = r.eob /\ rcv'.reob = r.reob
        BY <1>6, <2>3 DEF OneMore, RcvStates
      <3>2. KeepsWhole(dt, dt', rcv.complete)
        BY <1>7, <2>1, <2>3
      <3> HIDE DEF m, o
      <3> QED BY <1>2, <1>3, <1>6, <1>8, <2>3, <3>1, <3>2 DEF m
    <2>4. \/ ~r.skipAll /\ RecvFrom(m, o, r)
          \/ /\ rcv' = OneMore([r EXCEPT !.in = NoFile, !.skipAll = TRUE])
             /\ r2s' = ToS(M_SKIP(m.f)) /\ dt' \in {d, o}
      BY <1>12 DEF RecvOpen
    <2> QED BY <2>2, <2>3, <2>4
  <1> QED BY <1>5, <1>10, <1>11, <1>12, <1>13

(* A receiver that renames a file before it acknowledges it, or takes none *)
Truthful ==
    \/ r2s' = r2s
    \/ \E a \in Replies : r2s' = ToS(a) /\ (a.t = "GOT" => taken'[a.f] > 0)

LEMMA GotFrame ==
    ASSUME NEW f \in Files, NEW o \in Nat
    PROVE  /\ M_GOT(f) \in Replies /\ M_GOT(f).t = "GOT" /\ M_GOT(f).f = f
           /\ M_SKIP(f) \in Replies /\ M_SKIP(f).t = "SKIP" /\ M_SKIP(f).f = f
           /\ M_GET(f, o) \in Replies /\ M_GET(f, o).t = "GET" /\ M_GET(f, o).f = f
           /\ M_GET(f, o).off = o
           /\ M_EOB \in Replies /\ M_EOB.t = "EOB"
  BY FrameType DEF M_GOT, M_SKIP, M_GET, M_EOB, Msg

LEMMA ReceiverEffects ==
    ASSUME Steady, IInv, DInv, ReceiverNext
    PROVE  /\ UNCHANGED <<spool, stc, mode, snd>> /\ rcv.up
           /\ Grows(taken, taken')
           /\ rcv'.up /\ rcv.skipAll => rcv'.skipAll
           /\ s2r' = s2r \/ (s2r # <<>> /\ s2r' = Tail(s2r)) \/ s2r' = <<>>
           /\ Truthful \/ (mode = "nd" /\ ~rcv.skipAll)
  <1>1. /\ TypeOK /\ rcv \in RcvStates /\ delivered \in [Files -> Nat]
    BY DEF IInv, TypeOK
  <1>2. UNCHANGED <<delivered, refused>> => taken' = taken /\ Grows(taken, taken')
    BY TakenSame DEF Grows
  <1>3. ~RDown.up
    BY DEF RDown, RcvInit
  <1>4. CASE start_file_recv
    <2> DEFINE m == s2r[1]
    <2>1. /\ s2r # <<>> /\ m.f \in Files /\ s2r' = Tail(s2r) /\ UNCHANGED <<mode, snd>>
          /\ \/ rcv'.skipAll /\ rcv'.in = NoFile
             \/ \/ r2s' = ToS(M_GOT(m.f))
                   /\ \/ m.f \in inbound \/ (we_nd /\ m.f = rcv.complete)
                      \/ m.f \in refused'
                \/ r2s' = ToS(M_SKIP(m.f))
                \/ r2s' = ToS(M_GET(m.f, dt'[m.f])) /\ dt'[m.f] \in Nat
                \/ r2s' = r2s
      BY <1>4, RecvFields
    <2>2. /\ UNCHANGED <<spool, stc>> /\ rcv.up
          /\ Grows(taken, taken')
          /\ rcv.skipAll => rcv'.skipAll
          /\ rcv'.skipAll =>
                \/ r2s' = ToS(M_SKIP(m.f))
                \/ /\ r2s' = ToS(M_GOT(m.f))
                   /\ \/ m.f \in inbound \/ (we_nd /\ m.f = rcv.complete)
                      \/ m.f \in refused'
          /\ m.f \in inbound \/ (we_nd /\ m.f = rcv.complete) \/ m.f \in refused' =>
                taken'[m.f] > 0
      BY <1>4, RecvMore
    <2> HIDE DEF m
    <2>4. Truthful
      <3>1. CASE r2s' = ToS(M_SKIP(m.f))
        <4>1. M_SKIP(m.f) \in Replies /\ M_SKIP(m.f).t # "GOT"
          BY <2>1, GotFrame
        <4> QED BY <3>1, <4>1 DEF Truthful
      <3>2. CASE /\ r2s' = ToS(M_GOT(m.f))
                 /\ \/ m.f \in inbound \/ (we_nd /\ m.f = rcv.complete)
                    \/ m.f \in refused'
        <4>1. M_GOT(m.f) \in Replies /\ M_GOT(m.f).f = m.f
          BY <2>1, GotFrame
        <4>2. taken'[M_GOT(m.f).f] > 0
          BY <2>2, <3>2, <4>1
        <4> QED BY <3>2, <4>1, <4>2 DEF Truthful
      <3>3. CASE r2s' = ToS(M_GET(m.f, dt'[m.f])) /\ dt'[m.f] \in Nat
        <4>1. M_GET(m.f, dt'[m.f]) \in Replies /\ M_GET(m.f, dt'[m.f]).t # "GOT"
          BY <2>1, <3>3, GotFrame
        <4> QED BY <3>3, <4>1 DEF Truthful
      <3>4. CASE r2s' = r2s
        BY <3>4 DEF Truthful
      <3> QED BY <2>1, <2>2, <3>1, <3>2, <3>3, <3>4
    <2> QED BY <2>1, <2>2, <2>4
  <1>5. CASE RecvData
    <2> DEFINE f == rcv.in
    <2>0. UNCHANGED <<spool, stc, mode, snd, refused>> /\ rcv.up /\ s2r # <<>>
      BY <1>5 DEF RecvData, ReceiverReads
    <2>1. CASE UNCHANGED <<inbound, delivered, refused, r2s>> /\ (rcv' = rcv \/ rcv' = RDown)
               /\ (s2r' = Tail(s2r) \/ s2r' = <<>>)
      BY <1>2, <1>3, <2>0, <2>1 DEF Truthful
    <2>2. CASE f # NoFile /\ FileComplete(f) /\ s2r' = Tail(s2r) /\ r2s' = ToS(M_GOT(f))
      <3>1. f \in Files /\ ~rcv.skipAll
        BY <1>1, <2>2 DEF RcvStates, DInv
      <3>2. CASE we_nd
        <4>1. delivered' = delivered /\ mode = "nd"
          BY <2>2, <3>2 DEF FileComplete, we_nd
        <4> QED BY <1>2, <2>0, <2>2, <3>1, <4>1
      <3>3. CASE ~we_nd
        <4>1. delivered' = [delivered EXCEPT ![f] = Renamed(@)]
          BY <2>2, <3>3 DEF FileComplete, RenameAtOnce, InbDone
        <4>2. \A n : Renamed(n) > 0
          BY DEF Renamed
        <4>6. Grows(delivered, delivered') /\ delivered'[f] > 0
          BY <1>1, <3>1, <4>1, <4>2 DEF Grows
        <4>3. Grows(taken, taken') /\ taken'[f] > 0
          BY <2>0, <3>1, <4>6, TakenGrows
        <4>4. M_GOT(f) \in Replies /\ M_GOT(f).f = f
          BY <3>1, GotFrame
        <4>5. Truthful
          BY <2>2, <4>3, <4>4 DEF Truthful
        <4> QED BY <2>0, <2>2, <3>1, <4>3, <4>5
      <3> QED BY <3>2, <3>3
    <2>3. \/ UNCHANGED <<inbound, delivered, refused, r2s>> /\ (rcv' = rcv \/ rcv' = RDown)
             /\ (s2r' = Tail(s2r) \/ s2r' = <<>>)
          \/ f # NoFile /\ FileComplete(f) /\ s2r' = Tail(s2r) /\ r2s' = ToS(M_GOT(f))
      BY <1>5 DEF RecvData, ReceiverQuits
    <2> QED BY <2>1, <2>2, <2>3
  <1>6. CASE ReceiverEOB
    <2>1. /\ UNCHANGED <<spool, stc, mode, snd, r2s, refused>> /\ rcv.up /\ s2r # <<>>
          /\ s2r' = Tail(s2r) /\ CompleteDone
          /\ rcv' = CompleteRcv([Heard EXCEPT !.in = NoFile, !.reob = TRUE])
      BY <1>6 DEF ReceiverEOB, ReceiverReads, AtEOB
    <2>2. rcv'.skipAll = rcv.skipAll
      <3> DEFINE h == [Heard EXCEPT !.in = NoFile, !.reob = TRUE]
      <3>1. h \in RcvStates /\ h.skipAll = rcv.skipAll
        BY <1>1, HeardFields DEF RcvStates
      <3> HIDE DEF h
      <3> QED BY <2>1, <3>1 DEF CompleteRcv, RcvStates, h
    <2>3. Grows(taken, taken')
      BY <1>1, <2>1, DoneGrows, TakenGrows
    <2> QED BY <2>1, <2>2, <2>3 DEF Truthful
  <1>7. CASE ReceiverSendEOB
    <2>1. /\ UNCHANGED <<spool, stc, mode, snd, s2r, delivered, refused>> /\ rcv.up
          /\ r2s' = ToS(M_EOB) /\ rcv' = OneMore([rcv EXCEPT !.eob = TRUE])
      BY <1>7 DEF ReceiverSendEOB
    <2>2. rcv'.skipAll = rcv.skipAll
      BY <1>1, <2>1 DEF OneMore, RcvStates
    <2>3. M_EOB \in Replies /\ M_EOB.t # "GOT"
      BY FrameType DEF M_EOB, Msg
    <2>4. Truthful
      BY <2>1, <2>3 DEF Truthful
    <2> QED BY <1>2, <2>1, <2>2, <2>4
  <1>8. CASE ReceiverEndBatch
    <2>1. /\ UNCHANGED <<spool, stc, mode, snd, r2s, delivered, refused>> /\ rcv.up
          /\ \/ rcv' = RDown /\ s2r' = <<>>
             \/ rcv' = [rcv EXCEPT !.msgs = 0, !.eob = FALSE, !.reob = FALSE] /\ s2r' = s2r
      BY <1>8 DEF ReceiverEndBatch, ReceiverQuits
    <2>2. rcv'.up => rcv'.skipAll = rcv.skipAll
      BY <1>1, <1>3, <2>1 DEF RcvStates
    <2> QED BY <1>2, <2>1, <2>2 DEF Truthful
  <1>9. CASE ReceiverDrop \/ ReceiverCrash \/ InbDoneFails
    <2>1. /\ UNCHANGED <<spool, stc, mode, snd, r2s, delivered, refused>> /\ rcv.up
          /\ rcv' = RDown /\ s2r' = <<>>
      BY <1>9 DEF ReceiverDrop, ReceiverCrash, InbDoneFails, ReceiverQuits, ReceiverReads
    <2> QED BY <1>2, <1>3, <2>1 DEF Truthful
  <1> QED BY <1>4, <1>5, <1>6, <1>7, <1>8, <1>9 DEF ReceiverNext

LEMMA ReceiverSettled ==
    ASSUME Steady, IInv, IInv', DInv, ReceiverNext, Settled(spool, taken, r2s),
           mode = "nd" => rcv.skipAll
    PROVE  Settled(spool', taken', r2s')
  <1>1. /\ taken \in [Files -> Nat] /\ taken' \in [Files -> Nat] /\ r2s \in Seq(Replies)
    <2>1. TypeOK /\ TypeOK' /\ r2s \in Seq(Replies)
      BY DEF IInv, TypeOK
    <2> QED BY <2>1, TakenTypes
  <1>2. spool' = spool /\ Grows(taken, taken') /\ Truthful
    BY ReceiverEffects
  <1>3. \A a \in Replies : (a.t = "GOT" => taken'[a.f] > 0) =>
            Settled(spool, taken', r2s) /\ Settled(spool, taken', Append(r2s, a))
    BY <1>1, <1>2, SettledReply
  <1>4. CASE r2s' = r2s
    <2>1. M_EOB \in Replies /\ M_EOB.t # "GOT"
      BY FrameType DEF M_EOB, Msg
    <2> QED BY <1>2, <1>3, <1>4, <2>1
  <1>5. CASE \E a \in Replies : r2s' = ToS(a) /\ (a.t = "GOT" => taken'[a.f] > 0)
    BY <1>2, <1>3, <1>5 DEF ToS
  <1> QED BY <1>2, <1>4, <1>5 DEF Truthful

LEMMA EndedStays ==
    ASSUME Steady, IInv, IInv', DInv, ReceiverNext, Ended, mode = "nd"
    PROVE  NDInv'
  <1>1. rcv.up /\ rcv.skipAll /\ (rcv'.up => rcv'.skipAll)
    BY ReceiverEffects DEF Ended, Over
  <1>2. Settled(spool', taken', r2s')
    BY <1>1, ReceiverSettled DEF Ended, Over
  <1>3. Ended' /\ Doubt(spool', taken') = {}
    BY <1>1, <1>2 DEF Ended, Over, Settled
  <1> QED BY <1>3, NoDoubt DEF NDInv

LEMMA WithinRead ==
    ASSUME Steady, IInv, DInv, ReceiverNext, Within(s2r)
    PROVE  Within(s2r')
  <1>1. s2r \in Seq(Commands)
    BY DEF IInv, TypeOK
  <1>2. Within(<<>>)
    BY DEF Within
  <1> QED BY <1>1, <1>2, ReceiverEffects, WithinTail

-----------------------------------------------------------------------------
(*                     The receiver in a session in ND mode                *)

(* The files in doubt that a step of the receiver leaves are whole still. *)
LEMMA NamesKept ==
    ASSUME NEW D \in SUBSET Files, NEW D2, NEW d, NEW d2, NEW c, NEW sc, StcNames(D, d, sc),
           D2 \subseteq D, c \notin D2, KeepsWhole(d, d2, c)
    PROVE  StcNames(D2, d2, sc)
  <1> SUFFICES ASSUME NEW g \in D2 PROVE d2[g] = Size[g] /\ sc = g
    BY DEF StcNames
  <1>1. g \in D /\ g \in Files /\ g # c
    OBVIOUS
  <1>2. d[g] = Size[g] /\ sc = g
    BY <1>1 DEF StcNames
  <1> QED BY <1>1, <1>2 DEF KeepsWhole

(* in_complete is renamed, and no doubt about it remains. *)
LEMMA RenamedLeaves ==
    ASSUME TypeOK, TypeOK', mode = "nd", spool' = spool, Grows(taken, taken'),
           we_nd /\ rcv.complete # NoFile => taken'[rcv.complete] > 0
    PROVE  /\ Doubt(spool', taken') \subseteq Doubt(spool, taken)
           /\ rcv.complete \notin Doubt(spool', taken')
  <1>1. /\ taken \in [Files -> Nat] /\ taken' \in [Files -> Nat]
        /\ rcv.complete \in Files \cup {NoFile} /\ we_nd
    BY TakenTypes DEF TypeOK, RcvStates, we_nd
  <1>2. Doubt(spool', taken') \subseteq Doubt(spool, taken)
    BY <1>1, DoubtLess
  <1>3. rcv.complete \notin Doubt(spool', taken')
    <2>1. CASE rcv.complete = NoFile
      BY <2>1, FilesAssumption, DoubtFiles
    <2>2. CASE rcv.complete # NoFile
      BY <1>1, <2>2 DEF Doubt
    <2> QED BY <2>1, <2>2
  <1> QED BY <1>2, <1>3

(* When the sender has said M_EOB, only in_complete can be in doubt. *)
LEMMA EobSettles ==
    ASSUME IInv, NDInv, mode = "nd", rcv.up, EobAt(s2r) # {} \/ rcv.reob
    PROVE  /\ Doubt(spool, taken) \subseteq {rcv.complete}
           /\ snd.up => Ended \/ ~Work(snd)
  <1>1. CASE ~snd.up
    BY <1>1 DEF NDInv, LastWord
  <1>2. CASE Ended
    BY <1>2 DEF Ended, Over, Settled
  <1>3. CASE snd.up /\ ~Ended
    <2>1. ~Work(snd)
      BY <1>3, KnowsNow DEF FirstBatch, Counts
    <2>2. ~Unresolved(snd)
      BY <2>1 DEF Work, Unresolved, IsStatus
    <2> QED BY <1>3, <2>1, <2>2, KnowsNow DEF Placed
  <1> QED BY <1>1, <1>2, <1>3

(* The receiver leaves. *)
LEMMA ReceiverGone ==
    ASSUME Steady, IInv, IInv', DInv, NDInv, mode = "nd", ReceiverNext, rcv' = RDown,
           s2r' = <<>>, r2s' = r2s, taken' = taken,
           StcNames(Doubt(spool, taken), dt', stc)
    PROVE  NDInv'
  <1>1. ~rcv'.up
    BY DEF RDown, RcvInit
  <1>2. UNCHANGED <<spool, stc, snd>>
    BY ReceiverEffects
  <1>3. /\ StcNames(Doubt(spool', taken'), dt', stc')
        /\ LastWord(s2r', Doubt(spool', taken'), snd', rcv')
    BY <1>1, <1>2 DEF LastWord
  <1>4. CASE ~snd.up
    BY <1>2, <1>3, <1>4 DEF NDInv
  <1>5. CASE Settled(spool, taken, r2s)
    <2>1. Ended'
      BY <1>1, <1>2, <1>5 DEF Ended, Over
    <2> QED BY <1>3, <2>1 DEF NDInv
  <1>6. CASE snd.up /\ ~Settled(spool, taken, r2s)
    <2>1. ~Ended
      BY <1>6 DEF Ended, Over
    <2>2. \A k \in Nat : Counts(k, r2s, snd, rcv) => Counts(k, r2s, snd, rcv')
      BY <1>1, <1>6, <2>1, KnowsNow, CountsSame
    <2>3. EobAt(s2r') = {}
      <3>1. Len(<<>>) = 0
        OBVIOUS
      <3> QED BY <3>1 DEF EobAt
    <2>4. Waiting(s2r', r2s', snd', stc')
      BY <1>2, <1>6, <2>1, KnowsNow DEF Waiting
    <2>5. Alone(s2r', r2s', snd', stc')
      BY <1>2, <1>6, <2>1, KnowsNow DEF Alone
    <2>6. FirstBatch(s2r', r2s', snd', rcv')
      BY <1>2, <1>6, <2>1, <2>2, <2>3, KnowsNow DEF FirstBatch
    <2>7. Counted(r2s', Doubt(spool', taken'), snd', rcv')
      BY <1>2, <1>6, <2>1, <2>2, KnowsNow DEF Counted
    <2>8. Placed(Doubt(spool', taken'), snd', rcv') /\ Skipping(r2s', snd', rcv')
      BY <1>1 DEF Placed, Skipping
    <2>9. AnswersSafe(spool', taken', r2s', snd')
      BY <1>2, <1>6, <2>1, KnowsNow
    <2>10. snd'.up /\ (snd'.sendEof => IsStatus(snd'))
      BY <1>2, <1>6, <2>1, KnowsNow
    <2> QED BY <1>3, <2>4, <2>5, <2>6, <2>7, <2>8, <2>9, <2>10, SenderGoesOn
  <1> QED BY <1>4, <1>5, <1>6

(* What is left to show of a step after which the receiver goes on, with   *)
(* the sender gone, ...                                                    *)
LEMMA OneGoesOn ==
    ASSUME UNCHANGED <<snd, stc>>, ~snd.up,
           StcNames(Doubt(spool', taken'), dt', stc),
           EobAt(s2r') # {} \/ rcv'.reob => Doubt(spool', taken') \subseteq {rcv'.complete}
    PROVE  NDInv'
  BY DEF NDInv, LastWord

(* ... and with the sender there. *)
CountsKept == \A k \in Nat : Counts(k, r2s, snd, rcv) => Counts(k, r2s', snd, rcv')

LEMMA FramesLeft ==
    ASSUME NEW s \in Seq(Commands), s # <<>>
    PROVE  /\ EobAt(s) = {} => EobAt(Tail(s)) = {}
           /\ \A f : (\A i \in 1..Len(s) : s[i].t = "FILE" => s[i].f = f) =>
                 \A i \in 1..Len(Tail(s)) : Tail(s)[i].t = "FILE" => Tail(s)[i].f = f
  <1>1. /\ Len(s) \in Nat \ {0} /\ Len(Tail(s)) = Len(s) - 1
        /\ \A i \in 1..Len(Tail(s)) : Tail(s)[i] = s[i + 1]
    BY TailIndex
  <1>2. \A i \in 1..Len(Tail(s)) : i + 1 \in 1..Len(s) /\ Tail(s)[i] = s[i + 1]
    BY <1>1
  <1> QED BY <1>2 DEF EobAt

LEMMA BothGoOn ==
    ASSUME IInv, NDInv, mode = "nd", snd.up, ~Ended, UNCHANGED <<spool, snd, stc>>,
           s2r' = s2r \/ (s2r # <<>> /\ s2r' = Tail(s2r)),
           Work(snd) \/ Doubt(spool', taken') # {} => CountsKept,
           snd.qs # NoFile => s2r' = <<>> /\ Answers(r2s') = {},
           IsStatus(snd) => \A i \in Answers(r2s') : r2s'[i].f = snd.out,
           AnswersSafe(spool', taken', r2s', snd),
           StcNames(Doubt(spool', taken'), dt', stc),
           Doubt(spool', taken') \subseteq Doubt(spool, taken),
           Placed(Doubt(spool', taken'), snd, rcv'),
           Skipping(r2s', snd, rcv')
    PROVE  NDInv'
  <1>1. Waiting(s2r', r2s', snd', stc')
    BY KnowsNow DEF Waiting
  <1>2. /\ EobAt(s2r) = {} => EobAt(s2r') = {}
        /\ \A f : (\A i \in 1..Len(s2r) : s2r[i].t = "FILE" => s2r[i].f = f) =>
              \A i \in 1..Len(s2r') : s2r'[i].t = "FILE" => s2r'[i].f = f
    <2>1. s2r \in Seq(Commands)
      BY KnowsNow
    <2>2. CASE s2r' = s2r
      BY <2>2
    <2>3. CASE s2r # <<>> /\ s2r' = Tail(s2r)
      BY ONLY <2>1, <2>3, FramesLeft
    <2> QED BY <2>2, <2>3
  <1>3. Alone(s2r', r2s', snd', stc')
    <2> SUFFICES ASSUME IsStatus(snd) PROVE Alone(s2r', r2s', snd', stc')
      BY DEF Alone
    <2>1. /\ snd.qs = NoFile /\ snd.out = stc /\ snd.sent = {} /\ (snd.offReq \/ snd.waitGOT)
          /\ \A i \in 1..Len(s2r) : s2r[i].t = "FILE" => s2r[i].f = snd.out
      BY KnowsNow DEF Alone
    <2>2. \A i \in 1..Len(s2r') : s2r'[i].t = "FILE" => s2r'[i].f = snd.out
      BY <1>2, <2>1
    <2> QED BY <2>1, <2>2 DEF Alone
  <1>4. FirstBatch(s2r', r2s', snd', rcv')
    BY <1>2, KnowsNow DEF FirstBatch, CountsKept
  <1>5. Counted(r2s', Doubt(spool', taken'), snd', rcv')
    BY KnowsNow DEF Counted, CountsKept
  <1>6. snd'.up /\ (snd'.sendEof => IsStatus(snd'))
    BY KnowsNow
  <1> QED BY <1>1, <1>3, <1>4, <1>5, <1>6, SenderGoesOn

(* An answer to a sender that had none to read *)
LEMMA OnlyReply ==
    ASSUME NEW q \in Seq(Replies), NEW a \in Replies, Answers(q) = {}, a.t # "EOB"
    PROVE  /\ \A i \in Answers(Append(q, a)) : i = Len(q) + 1 /\ Append(q, a)[i] = a
           /\ \A i, j \in Answers(Append(q, a)) : i = j
  BY AppendAnswers

LEMMA MoreAnswers ==
    ASSUME NEW q \in Seq(Replies), NEW a \in Replies
    PROVE  /\ \A i \in Answers(Append(q, a)) :
                 \/ i \in Answers(q) /\ Append(q, a)[i] = q[i]
                 \/ a.t # "EOB" /\ Append(q, a)[i] = a
  BY AppendAnswers

LEMMA SettledOne ==
    ASSUME NEW q \in Seq(Replies), NEW a \in Replies, Answers(q) = {}, NEW sp,
           NEW dl \in [Files -> Nat], Doubt(sp, dl) = {}, a.t = "GOT" => dl[a.f] > 0
    PROVE  Settled(sp, dl, q) /\ Settled(sp, dl, Append(q, a))
  <1>1. Settled(sp, dl, q)
    BY SettledNone
  <1>2. Grows(dl, dl)
    BY DEF Grows
  <1> QED BY <1>1, <1>2, SettledReply

(* Reading a frame: the status is not queued any more; a receiver that     *)
(* takes files has answered nothing yet, and one that skips them has       *)
(* skipped the status.                                                     *)
LEMMA ReadingFrame ==
    ASSUME IInv, DInv, NDInv, mode = "nd", snd.up, ~Ended, rcv.up, s2r # <<>>
    PROVE  /\ snd.qs = NoFile /\ (Unresolved(snd) <=> IsStatus(snd))
           /\ ~rcv.skipAll => Answers(r2s) = {}
           /\ rcv.skipAll => Refused(r2s, snd) /\ rcv.complete = NoFile
                             /\ ~Settled(spool, taken, r2s)
  <1>1. snd.qs = NoFile /\ (Unresolved(snd) <=> IsStatus(snd))
    BY KnowsNow DEF Waiting, Unresolved
  <1>2. ~rcv.skipAll => Answers(r2s) = {}
    <2> SUFFICES ASSUME ~rcv.skipAll PROVE Answers(r2s) = {}
      OBVIOUS
    <2>1. Paced
      BY DEF Paced
    <2> QED BY <2>1, StopParts DEF Answered
  <1>3. rcv.skipAll => Refused(r2s, snd) /\ rcv.complete = NoFile
                       /\ ~Settled(spool, taken, r2s)
    BY KnowsNow DEF Skipping, Paced
  <1> QED BY <1>1, <1>2, <1>3

(* The receiver answers with a. *)
LEMMA ReplyCounts ==
    ASSUME TypeOK, snd.up, NEW a \in Replies, a.t # "EOB", r2s' = ToS(a),
           rcv'.up = rcv.up, rcv'.eob = rcv.eob, rcv'.reob = rcv.reob
    PROVE  CountsKept /\ r2s' = Append(r2s, a) /\ r2s \in Seq(Replies)
  <1>1. r2s' = Append(r2s, a) /\ r2s \in Seq(Replies)
    BY DEF ToS, TypeOK
  <1>2. \A k : Counts(k, r2s, snd, rcv) => Counts(k, Append(r2s, a), snd, rcv')
    BY <1>1, CountsReply
  <1> QED BY <1>1, <1>2 DEF CountsKept

(* start_file_recv renames in_complete; what is in doubt then can only be  *)
(* the file that the M_FILE is about, for that is the status.              *)
LEMMA RecvSafe ==
    ASSUME Steady, IInv, IInv', DInv, NDInv, mode = "nd", start_file_recv
    PROVE  NDInv'
  <1> DEFINE m == s2r[1]
             D == Doubt(spool, taken)
             D2 == Doubt(spool', taken')
  <1>1. /\ s2r # <<>> /\ m \in Commands /\ m.t = "FILE" /\ m.f \in Files /\ s2r' = Tail(s2r)
        /\ rcv'.up = rcv.up /\ rcv'.complete = NoFile /\ snd' = snd
        /\ \/ rcv'.skipAll /\ rcv'.in = NoFile
           \/ /\ rcv'.skipAll = rcv.skipAll
              /\ \/ rcv'.in = NoFile /\ r2s' = ToS(M_GOT(m.f))
                    /\ \/ m.f \in inbound \/ (we_nd /\ m.f = rcv.complete)
                       \/ m.f \in refused'
                 \/ r2s' = ToS(M_SKIP(m.f))
                 \/ /\ rcv'.in = NoFile /\ r2s' = ToS(M_GET(m.f, dt'[m.f]))
                    /\ dt'[m.f] \in Nat
                 \/ r2s' = r2s
        /\ Fresh(m.f, m.off, rcv, dt, inbound) /\ m.off # -1 => rcv'.skipAll \/ rcv'.in = m.f
    <2>1. we_nd
      BY DEF we_nd
    <2> QED BY <2>1, RecvFields
  <1>2. /\ UNCHANGED <<spool, stc>> /\ rcv.up /\ Grows(taken, taken')
        /\ we_nd /\ rcv.complete # NoFile => taken'[rcv.complete] > 0
        /\ KeepsWhole(dt, dt', rcv.complete)
        /\ rcv'.eob = rcv.eob /\ rcv'.reob = rcv.reob
        /\ rcv.skipAll => rcv'.skipAll
        /\ rcv'.skipAll =>
              \/ r2s' = ToS(M_SKIP(m.f))
              \/ /\ rcv.skipAll /\ r2s' = ToS(M_GOT(m.f))
                 /\ \/ m.f \in inbound \/ (we_nd /\ m.f = rcv.complete)
                    \/ m.f \in refused'
        /\ m.f \in inbound \/ (we_nd /\ m.f = rcv.complete) \/ m.f \in refused' =>
              taken'[m.f] > 0
    BY RecvMore
  <1>3. /\ TypeOK /\ TypeOK' /\ taken \in [Files -> Nat] /\ taken' \in [Files -> Nat]
        /\ s2r \in Seq(Commands) /\ we_nd
    BY TakenTypes DEF IInv, TypeOK, we_nd
  <1> HIDE DEF m
  <1>4. D2 \subseteq D /\ rcv.complete \notin D2 /\ D \subseteq Files
    BY <1>2, <1>3, RenamedLeaves, DoubtFiles
  <1>5. StcNames(D, dt, stc)
    BY DEF NDInv
  <1>6. StcNames(D2, dt', stc)
    BY <1>2, <1>4, <1>5, NamesKept
  <1>8. CASE ~snd.up
    <2>1. EobAt(s2r') # {} => EobAt(s2r) # {}
      BY <1>1, <1>3, FramesLeft
    <2>2. EobAt(s2r') # {} \/ rcv'.reob => D2 \subseteq {rcv'.complete}
      BY <1>2, <1>4, <2>1, EobSettles
    <2> QED BY <1>1, <1>2, <1>6, <1>8, <2>2, OneGoesOn
  <1>9. CASE Ended
    BY <1>9, EndedStays DEF ReceiverNext
  <1>10. CASE snd.up /\ ~Ended
    <2>1. /\ snd.qs = NoFile /\ (Unresolved(snd) <=> IsStatus(snd))
          /\ ~rcv.skipAll => Answers(r2s) = {}
          /\ rcv.skipAll => Refused(r2s, snd) /\ rcv.complete = NoFile
                            /\ ~Settled(spool, taken, r2s)
      BY <1>1, <1>2, <1>10, ReadingFrame
    <2>2. ~IsStatus(snd) => D2 = {}
      BY <1>2, <1>4, <1>10, <2>1, KnowsNow DEF Placed
    <2>3. Placed(D2, snd, rcv')
      BY <2>1, <2>2 DEF Placed
    <2>4. IsStatus(snd) => m.f = snd.out /\ snd.out = stc
      <3>1. 1 \in 1..Len(s2r)
        BY <1>1, <1>3, TailIndex
      <3> QED BY <1>1, <1>10, <3>1, KnowsNow DEF Alone, m
    <2>5. D \subseteq {stc} /\ D2 \subseteq {stc}
      BY <1>4, <1>5 DEF StcNames
    <2>6. taken'[m.f] > 0 => D2 = {}
      <3>1. taken'[m.f] > 0 => m.f \notin D2
        BY <1>1, <1>3 DEF Doubt
      <3> QED BY <2>2, <2>4, <2>5, <3>1
    <2>7. ASSUME NEW a \in Replies, a.t # "EOB", a.f = m.f, r2s' = ToS(a),
                 AnswersSafe(spool', taken', r2s', snd), Skipping(r2s', snd, rcv')
          PROVE  NDInv'
      <3>1. CountsKept /\ r2s' = Append(r2s, a) /\ r2s \in Seq(Replies)
        BY <1>1, <1>2, <1>3, <1>10, <2>7, ReplyCounts
      <3>2. IsStatus(snd) => \A i \in Answers(r2s') : r2s'[i].f = snd.out
        <4> SUFFICES ASSUME IsStatus(snd), NEW i \in Answers(r2s')
                     PROVE  r2s'[i].f = snd.out
          OBVIOUS
        <4>0. \A j \in Answers(Append(r2s, a)) :
                 (j \in Answers(r2s) /\ Append(r2s, a)[j] = r2s[j]) \/ Append(r2s, a)[j] = a
          BY <3>1, MoreAnswers
        <4>1. (i \in Answers(r2s) /\ r2s'[i] = r2s[i]) \/ r2s'[i] = a
          BY <3>1, <4>0
        <4>2. \A j \in Answers(r2s) : r2s[j].f = snd.out
          BY <1>10, KnowsNow DEF Alone
        <4> QED BY <2>4, <2>7, <4>1, <4>2
      <3> HIDE DEF D, D2
      <3> QED BY <1>1, <1>2, <1>4, <1>6, <1>10, <2>1, <2>3, <2>7, <3>1, <3>2, BothGoOn DEF D, D2
    <2>8. CASE r2s' = ToS(M_SKIP(m.f))
      <3> DEFINE a == M_SKIP(m.f)
      <3>1. a \in Replies /\ a.t = "SKIP" /\ a.f = m.f
        BY <1>1, GotFrame
      <3>2. r2s' = Append(r2s, a) /\ r2s \in Seq(Replies)
        BY <1>3, <1>10, <2>8 DEF ToS, TypeOK
      <3> HIDE DEF a
      <3>3. \A i \in Answers(r2s) : r2s[i].t = "SKIP"
        BY <2>1 DEF Refused
      <3>4. \A i \in Answers(r2s') : r2s'[i].t = "SKIP"
        BY <3>1, <3>2, <3>3, MoreAnswers
      <3>5. CASE IsStatus(snd)
        <4>1. Refused(r2s', snd)
          BY <3>4, <3>5 DEF Refused
        <4>2. AnswersSafe(spool', taken', r2s', snd) /\ Skipping(r2s', snd, rcv')
          BY <1>1, <4>1 DEF AnswersSafe, Skipping
        <4> QED BY <2>7, <2>8, <3>1, <4>2 DEF a
      <3>6. CASE ~IsStatus(snd)
        <4>1. Settled(spool', taken', r2s')
          BY <2>2, <3>4, <3>6, SettledNone
        <4>2. rcv'.skipAll => Ended'
          BY <4>1 DEF Ended, Over
        <4>3. AnswersSafe(spool', taken', r2s', snd)
          BY <1>2, <4>1 DEF AnswersSafe
        <4>4. CASE rcv'.skipAll
          BY <2>2, <3>6, <4>2, <4>4, NoDoubt DEF NDInv
        <4>5. CASE ~rcv'.skipAll
          BY <2>7, <2>8, <3>1, <4>3, <4>5 DEF a, Skipping
        <4> QED BY <4>4, <4>5
      <3> QED BY <3>5, <3>6
    <2>9. CASE /\ r2s' = ToS(M_GOT(m.f))
               /\ \/ m.f \in inbound \/ (we_nd /\ m.f = rcv.complete)
                  \/ m.f \in refused'
      <3> DEFINE a == M_GOT(m.f)
      <3>1. a \in Replies /\ a.t = "GOT" /\ a.f = m.f
        BY <1>1, GotFrame
      <3>2. r2s' = Append(r2s, a) /\ r2s \in Seq(Replies)
        BY <1>3, <1>10, <2>9 DEF ToS, TypeOK
      <3> HIDE DEF a
      <3>3. \A i \in Answers(r2s) : r2s[i].t = "SKIP"
        BY <2>1 DEF Refused
      <3>4. D2 = {} /\ taken'[a.f] > 0
        BY <1>2, <2>6, <2>9, <3>1
      <3>5. Settled(spool', taken', r2s')
        <4>1. Settled(spool', taken', r2s)
          BY <3>3, <3>4, SettledNone
        <4>2. Grows(taken', taken')
          BY DEF Grows
        <4> QED BY <1>3, <3>1, <3>2, <3>4, <4>1, <4>2, SettledReply
      <3>6. CASE rcv'.skipAll
        <4>1. Ended'
          BY <3>5, <3>6 DEF Ended, Over
        <4> QED BY <3>4, <4>1, NoDoubt DEF NDInv
      <3>7. CASE ~rcv'.skipAll
        <4>1. AnswersSafe(spool', taken', r2s', snd) /\ Skipping(r2s', snd, rcv')
          BY <3>5, <3>7 DEF AnswersSafe, Skipping
        <4> QED BY <2>7, <2>9, <3>1, <4>1 DEF a
      <3> QED BY <3>6, <3>7
    <2>10. CASE /\ ~rcv'.skipAll /\ rcv'.in = NoFile /\ r2s' = ToS(M_GET(m.f, dt'[m.f]))
                /\ dt'[m.f] \in Nat
      <3> DEFINE a == M_GET(m.f, dt'[m.f])
      <3>1. a \in Replies /\ a.t = "GET" /\ a.f = m.f /\ a.off = dt'[m.f]
        BY <1>1, <2>10, GotFrame
      <3>2. r2s' = Append(r2s, a) /\ r2s \in Seq(Replies)
        BY <1>3, <1>10, <2>10 DEF ToS, TypeOK
      <3> HIDE DEF a
      <3>3. ~rcv.skipAll /\ Answers(r2s) = {} /\ Paced
        BY <1>2, <1>10, <2>1, <2>10 DEF Paced
      <3>4. CASE D2 = {}
        <4>1. Settled(spool', taken', r2s')
          BY <1>3, <3>1, <3>2, <3>3, <3>4, SettledOne
        <4>2. AnswersSafe(spool', taken', r2s', snd) /\ Skipping(r2s', snd, rcv')
          BY <2>10, <4>1 DEF AnswersSafe, Skipping
        <4> QED BY <2>7, <2>10, <3>1, <4>2 DEF a
      <3>5. CASE D2 # {}
        <4>1. IsStatus(snd) /\ stc \in D2 /\ m.f = snd.out /\ snd.out = stc
          BY <2>2, <2>4, <2>5, <3>5
        <4>2. a.off = Size[a.f]
          BY <1>6, <3>1, <4>1 DEF StcNames
        <4>3. snd.offReq /\ ~snd.sendEof
          <5>1. 1 \in 1..Len(s2r)
            BY <1>1, <1>3, TailIndex
          <5>2. ~(Fresh(m.f, m.off, rcv, dt, inbound) /\ m.off # -1)
            BY <1>1, <2>10, FilesAssumption
          <5>3. snd.offReq
            BY <1>1, <3>3, <5>1, <5>2, StopParts DEF Announced, m
          <5> QED BY <3>3, <5>3, StopParts DEF OneAtATime
        <4>4. Reading(a, D2, snd)
          BY <3>1, <4>1, <4>2, <4>3 DEF Reading
        <4>5. OneToRead(r2s', D2, snd)
          BY <3>1, <3>2, <3>3, <4>3, <4>4, OnlyReply DEF OneToRead
        <4>6. AnswersSafe(spool', taken', r2s', snd) /\ Skipping(r2s', snd, rcv')
          BY <2>10, <4>5 DEF AnswersSafe, Skipping
        <4> QED BY <2>7, <2>10, <3>1, <4>6 DEF a
      <3> QED BY <3>4, <3>5
    <2>11. CASE ~rcv'.skipAll /\ r2s' = r2s
      <3>1. ~rcv.skipAll /\ Answers(r2s) = {}
        BY <1>2, <2>1, <2>11
      <3>2. AnswersSafe(spool', taken', r2s', snd) /\ Skipping(r2s', snd, rcv')
        BY <2>11, <3>1, NoneToRead DEF AnswersSafe, Skipping
      <3>3. CountsKept
        BY <1>1, <1>2, <1>10, <2>11, KnowsNow, CountsSame DEF CountsKept
      <3>4. IsStatus(snd) => \A i \in Answers(r2s') : r2s'[i].f = snd.out
        BY <2>11, <3>1
      <3> HIDE DEF D, D2
      <3> QED BY <1>1, <1>2, <1>4, <1>6, <1>10, <2>1, <2>3, <3>2, <3>3, <3>4, BothGoOn DEF D, D2
    <2> QED BY <1>1, <1>2, <2>8, <2>9, <2>10, <2>11
  <1> QED BY <1>8, <1>9, <1>10

(* A block is read into the file in reception. *)
LEMMA BlockRead ==
    ASSUME Steady, IInv, DInv, NDInv, Within(s2r), mode = "nd", RecvData, rcv.in # NoFile
    PROVE  LET m == s2r[1] IN
           /\ rcv.up /\ ~rcv.skipAll /\ s2r # <<>> /\ s2r[1] \in Commands
           /\ m.t = "DATA" /\ m.f = rcv.in /\ m.off = dt[rcv.in] /\ m.n \in {0, 1}
           /\ dt[rcv.in] \in Nat /\ rcv.in \in Files /\ Size[rcv.in] \in Nat
           /\ rcv.complete = NoFile
           /\ m.n = 1 => dt[rcv.in] < Size[rcv.in]
           /\ dt \in [Files -> Nat \cup {Absent}]
  <1> DEFINE m == s2r[1]
  <1>1. /\ TypeOK /\ s2r \in Seq(Commands) /\ rcv \in RcvStates /\ InOpen /\ CompleteHeld
        /\ dt \in [Files -> Nat \cup {Absent}]
    BY DEF IInv, TypeOK
  <1>2. rcv.up /\ s2r # <<>> /\ Head(s2r).t = "DATA" /\ ~rcv.skipAll
    BY DEF RecvData, ReceiverReads, DInv
  <1>3. m = Head(s2r) /\ 1 \in 1..Len(s2r) /\ m \in Commands
    BY <1>1, <1>2, TailIndex
  <1>4. m.f = rcv.in /\ m.off = dt[rcv.in]
    BY <1>2, <1>3, DInvBelongs DEF DataBelongs
  <1>5. m.n \in {0, 1} /\ m.t = "DATA"
    BY <1>2, <1>3, CommandFields
  <1>6. dt[rcv.in] \in Nat /\ rcv.in \in Files /\ Size[rcv.in] \in Nat /\ rcv.complete = NoFile
    BY <1>1, FilesAssumption DEF InOpen, CompleteHeld, RcvStates
  <1>7. m.n = 1 => m.off < Size[m.f]
    BY <1>3, <1>5 DEF Within
  <1> HIDE DEF m
  <1> QED BY <1>1, <1>2, <1>3, <1>4, <1>5, <1>6, <1>7 DEF m

(* Nothing comes of a frame but that it is read. *)
LEMMA FrameDropped ==
    ASSUME Steady, IInv, DInv, NDInv, mode = "nd", rcv.up, s2r # <<>>, s2r' = Tail(s2r),
           UNCHANGED <<spool, stc, taken, snd, r2s, rcv>>,
           StcNames(Doubt(spool, taken), dt', stc)
    PROVE  NDInv'
  <1>1. s2r \in Seq(Commands)
    BY DEF IInv, TypeOK
  <1>2. EobAt(s2r') # {} => EobAt(s2r) # {}
    BY <1>1, FramesLeft
  <1>3. CASE ~snd.up
    <2>1. EobAt(s2r') # {} \/ rcv'.reob =>
             Doubt(spool', taken') \subseteq {rcv'.complete}
      BY <1>2, EobSettles
    <2> QED BY <1>3, <2>1, OneGoesOn
  <1>4. CASE Ended
    <2>1. Ended' /\ Doubt(spool', taken') = {}
      BY <1>4 DEF Ended, Over, Settled
    <2> QED BY <2>1, NoDoubt DEF NDInv
  <1>5. CASE snd.up /\ ~Ended
    <2>1. snd.qs = NoFile
      BY <1>5, ReadingFrame
    <2>2. CountsKept
      BY DEF CountsKept
    <2>3. IsStatus(snd) => \A i \in Answers(r2s') : r2s'[i].f = snd.out
      BY <1>5, KnowsNow DEF Alone
    <2>4. /\ AnswersSafe(spool', taken', r2s', snd) /\ Skipping(r2s', snd, rcv')
          /\ Placed(Doubt(spool', taken'), snd, rcv')
          /\ Doubt(spool', taken') \subseteq Doubt(spool, taken)
          /\ StcNames(Doubt(spool', taken'), dt', stc)
      BY <1>5, KnowsNow
    <2> QED BY <1>5, <2>1, <2>2, <2>3, <2>4, BothGoOn
  <1> QED BY <1>3, <1>4, <1>5

(* The block that completes the file: with another one in doubt it would   *)
(* be the file of the status, for nothing else is sent then.               *)
LEMMA CompleteSafe ==
    ASSUME Steady, IInv, IInv', DInv, NDInv, Within(s2r), mode = "nd", RecvData,
           rcv.in # NoFile, dt[rcv.in] + s2r[1].n = Size[rcv.in]
    PROVE  NDInv'
  <1> DEFINE m == s2r[1]
             f == rcv.in
             D == Doubt(spool, taken)
  <1>1. /\ rcv.up /\ ~rcv.skipAll /\ s2r # <<>> /\ m.t = "DATA" /\ m.f = f /\ m.off = dt[f]
        /\ m.n \in {0, 1} /\ dt[f] \in Nat /\ f \in Files /\ Size[f] \in Nat
        /\ rcv.complete = NoFile /\ dt \in [Files -> Nat \cup {Absent}]
    BY BlockRead
  <1>2. /\ TypeOK /\ rcv \in RcvStates /\ s2r \in Seq(Commands) /\ r2s \in Seq(Replies)
        /\ Head(s2r) = m /\ 1 \in 1..Len(s2r) /\ we_nd
    BY <1>1, TailIndex DEF IInv, TypeOK, we_nd
  <1>3. /\ FileComplete(f) /\ s2r' = Tail(s2r) /\ r2s' = ToS(M_GOT(f))
        /\ UNCHANGED <<spool, stc, snd, refused>>
    <2>1. ~(dt[f] + m.n < Size[f]) /\ ~(dt[f] + m.n > Size[f])
      BY <1>1
    <2> QED BY <1>2, <2>1 DEF RecvData
  <1>4. /\ dt' = [dt EXCEPT ![f] = Size[f]] /\ taken' = taken
        /\ rcv' = OneMore([rcv EXCEPT !.in = NoFile, !.complete = f])
    BY <1>2, <1>3, TakenSame DEF FileComplete
  <1>5. /\ rcv'.up = rcv.up /\ rcv'.complete = f /\ rcv'.skipAll = rcv.skipAll
        /\ rcv'.eob = rcv.eob /\ rcv'.reob = rcv.reob
    BY <1>2, <1>4 DEF RcvStates, OneMore
  <1>6. StcNames(D, dt', stc)
    <2>1. StcNames(D, dt, stc) /\ D \subseteq Files
      BY DoubtFiles DEF NDInv
    <2>2. \A g \in Files : dt'[g] = dt[g] \/ dt'[g] = Size[g]
      BY <1>1, <1>4
    <2> QED BY <2>1, <2>2 DEF StcNames
  <1> DEFINE a == M_GOT(f)
  <1>7. a \in Replies /\ a.t = "GOT" /\ a.f = f
    BY <1>1, GotFrame
  <1> HIDE DEF a
  <1>8. D \subseteq {rcv.complete} => D = {}
    BY <1>1, FilesAssumption, DoubtFiles
  <1>9. CASE ~snd.up
    <2>1. EobAt(s2r') # {} => EobAt(s2r) # {}
      BY <1>2, <1>3, <1>1, FramesLeft
    <2>2. EobAt(s2r') # {} \/ rcv'.reob =>
             Doubt(spool', taken') \subseteq {rcv'.complete}
      BY <1>1, <1>3, <1>4, <1>5, <1>8, <2>1, EobSettles
    <2> QED BY <1>3, <1>4, <1>6, <1>9, <2>2, OneGoesOn
  <1>10. CASE Ended
    BY <1>1, <1>10 DEF Ended, Over
  <1>11. CASE snd.up /\ ~Ended
    <2>1. Paced /\ snd.qs = NoFile /\ (Unresolved(snd) <=> IsStatus(snd)) /\ Answers(r2s) = {}
      BY <1>1, <1>11, ReadingFrame DEF Paced
    <2>2. /\ ~snd.offReq /\ snd.waitGOT /\ ~snd.sendEof /\ f \in {snd.out} \cup snd.sent
      <3>1. Final(m)
        BY <1>1 DEF Final
      <3> QED BY <1>1, <1>2, <2>1, <3>1, StopParts DEF Blocks
    <2>3. ~IsStatus(snd) => D = {}
      BY <1>1, <1>8, <1>11, <2>1, KnowsNow DEF Placed
    <2>4. IsStatus(snd) => f = snd.out /\ D \subseteq {f}
      <3>1. IsStatus(snd) => f = snd.out /\ snd.out = stc
        BY <1>11, <2>2, KnowsNow DEF Alone
      <3>2. D \subseteq {stc}
        BY <1>6 DEF StcNames
      <3> QED BY <3>1, <3>2
    <2>5. CountsKept /\ r2s' = Append(r2s, a)
      BY <1>2, <1>3, <1>5, <1>7, <1>11, ReplyCounts DEF a
    <2>6. Reading(a, D, snd)
      BY <1>7, <2>2, <2>3, <2>4 DEF Reading
    <2>7. OneToRead(r2s', D, snd)
      BY <1>2, <1>7, <2>1, <2>2, <2>5, <2>6, OnlyReply DEF OneToRead
    <2>8. \A i \in Answers(r2s') : r2s'[i] = a
      BY <1>2, <1>7, <2>1, <2>5, OnlyReply
    <2>9. IsStatus(snd) => \A i \in Answers(r2s') : r2s'[i].f = snd.out
      BY <1>7, <2>4, <2>8
    <2>10. AnswersSafe(spool', taken', r2s', snd) /\ Skipping(r2s', snd, rcv')
      BY <1>1, <1>3, <1>4, <1>5, <2>7 DEF AnswersSafe, Skipping
    <2>11. Placed(Doubt(spool', taken'), snd, rcv')
      BY <1>3, <1>4, <2>1, <2>3 DEF Placed
    <2> QED BY <1>1, <1>3, <1>4, <1>6, <1>11, <2>1, <2>5, <2>9, <2>10, <2>11, BothGoOn
  <1> QED BY <1>9, <1>10, <1>11

LEMMA DataSafe ==
    ASSUME Steady, IInv, IInv', DInv, NDInv, Within(s2r), mode = "nd", RecvData
    PROVE  NDInv'
  <1> DEFINE m == s2r[1]
             f == rcv.in
             D == Doubt(spool, taken)
  <1>1. /\ rcv.up /\ s2r # <<>> /\ Head(s2r) = m /\ UNCHANGED <<spool, stc, snd>>
        /\ StcNames(D, dt, stc) /\ D \subseteq Files
    <2>1. s2r \in Seq(Commands)
      BY DEF IInv, TypeOK
    <2> QED BY <2>1, TailIndex, DoubtFiles DEF RecvData, ReceiverReads, NDInv
  <1>2. CASE f = NoFile
    <2>1. s2r' = Tail(s2r) /\ UNCHANGED <<dt, taken, r2s, rcv>>
      BY <1>2, TakenSame DEF RecvData
    <2> QED BY <1>1, <2>1, FrameDropped
  <1>3. CASE f # NoFile /\ dt[f] + m.n < Size[f]
    <2>1. /\ m.n \in {0, 1} /\ dt[f] \in Nat /\ f \in Files /\ Size[f] \in Nat
          /\ dt \in [Files -> Nat \cup {Absent}]
      BY <1>3, BlockRead
    <2>2. s2r' = Tail(s2r) /\ UNCHANGED <<taken, r2s, rcv>>
          /\ dt' = [dt EXCEPT ![f] = dt[f] + m.n]
      <3>1. ~(dt[f] + m.n = Size[f]) /\ ~(dt[f] + m.n > Size[f])
        BY <1>3, <2>1
      <3> QED BY <1>1, <1>3, <3>1, TakenSame DEF RecvData
    <2>3. dt[f] # Size[f]
      BY <1>3, <2>1
    <2>4. KeepsWhole(dt, dt', NoFile)
      BY <2>1, <2>2, <2>3 DEF KeepsWhole
    <2>5. StcNames(D, dt', stc)
      BY <1>1, <2>4, NamesKept, FilesAssumption
    <2> QED BY <1>1, <2>2, <2>5, FrameDropped
  <1>4. CASE f # NoFile /\ dt[f] + m.n = Size[f]
    BY <1>4, CompleteSafe
  <1>5. CASE f # NoFile /\ dt[f] + m.n > Size[f]
    <2>1. /\ m.n \in {0, 1} /\ dt[f] \in Nat /\ f \in Files /\ Size[f] \in Nat
          /\ m.n = 1 => dt[f] < Size[f]
          /\ dt \in [Files -> Nat \cup {Absent}]
      BY <1>5, BlockRead
    <2> DEFINE len == dt[f] + m.n
    <2>2. /\ rcv' = RDown /\ s2r' = <<>> /\ UNCHANGED <<taken, r2s>>
          /\ dt' = ClosePartial([dt EXCEPT ![f] = len], f)
      <3>1. ~(dt[f] + m.n = Size[f]) /\ ~(dt[f] + m.n < Size[f])
        BY <1>5, <2>1
      <3> QED BY <1>1, <1>5, <3>1, TakenSame DEF RecvData, ReceiverQuits
    <2>3. dt[f] # Size[f]
      BY <1>5, <2>1
    <2> HIDE DEF len
    <2>4. \A g \in Files : g # f => dt'[g] = dt[g]
      BY <2>1, <2>2 DEF ClosePartial
    <2>5. KeepsWhole(dt, dt', NoFile)
      BY <2>3, <2>4 DEF KeepsWhole
    <2>6. StcNames(D, dt', stc)
      BY <1>1, <2>5, NamesKept, FilesAssumption
    <2> QED BY <2>2, <2>6, ReceiverGone DEF ReceiverNext
  <1>6. f = NoFile \/ dt[f] + m.n < Size[f] \/ dt[f] + m.n = Size[f] \/ dt[f] + m.n > Size[f]
    BY BlockRead
  <1> QED BY <1>2, <1>3, <1>4, <1>5, <1>6

(* The M_EOB renames in_complete: nothing is in doubt any more. *)
LEMMA EOBSafe ==
    ASSUME Steady, IInv, IInv', DInv, NDInv, mode = "nd", ReceiverEOB
    PROVE  NDInv'
  <1> DEFINE D2 == Doubt(spool', taken')
             h == AtEOB
  <1>1. /\ UNCHANGED <<spool, stc, snd, r2s, refused>> /\ rcv.up /\ s2r # <<>>
        /\ s2r' = Tail(s2r) /\ Head(s2r).t = "EOB" /\ CompleteDone
        /\ rcv' = CompleteRcv(h)
    BY DEF ReceiverEOB, ReceiverReads
  <1>2. /\ TypeOK /\ TypeOK' /\ s2r \in Seq(Commands) /\ rcv \in RcvStates
        /\ delivered' \in [Files -> Nat] /\ taken' \in [Files -> Nat]
    BY TakenTypes DEF IInv, TypeOK
  <1>3. rcv'.skipAll = rcv.skipAll
    <2>1. h \in RcvStates /\ h.skipAll = rcv.skipAll
      BY <1>2, HeardFields DEF RcvStates, AtEOB
    <2> HIDE DEF h
    <2> QED BY <1>1, <2>1 DEF CompleteRcv, RcvStates
  <1>4. EobAt(s2r) # {}
    BY <1>1, <1>2, TailIndex, TailAnswers
  <1>5. D2 = {}
    <2>1. Grows(taken, taken')
          /\ (we_nd /\ rcv.complete # NoFile => taken'[rcv.complete] > 0)
      <3>1. Grows(delivered, delivered')
            /\ (we_nd /\ rcv.complete # NoFile => delivered'[rcv.complete] > 0)
        BY <1>1, <1>2, DoneGrows
      <3>2. rcv.complete # NoFile => rcv.complete \in Files
        BY <1>2 DEF RcvStates
      <3>3. /\ Grows(taken, taken')
            /\ \A f \in Files : delivered'[f] > 0 \/ f \in refused' => taken'[f] > 0
        <4>1. refused \subseteq refused'
          BY <1>1
        <4> QED BY <3>1, <4>1, TakenGrows
      <3> QED BY <3>1, <3>2, <3>3
    <2>2. D2 \subseteq Doubt(spool, taken) /\ rcv.complete \notin D2
      BY <1>1, <1>2, <2>1, RenamedLeaves
    <2>3. Doubt(spool, taken) \subseteq {rcv.complete}
      BY <1>1, <1>4, EobSettles
    <2> QED BY <2>2, <2>3
  <1>6. CASE ~snd.up
    BY <1>1, <1>5, <1>6, NoDoubt DEF NDInv
  <1>7. CASE Ended
    BY <1>7, EndedStays DEF ReceiverNext
  <1>8. CASE snd.up /\ ~Ended
    <2>1. ~Work(snd)
      BY <1>1, <1>4, <1>8, EobSettles
    <2>2. ~IsStatus(snd) /\ ~rcv.skipAll
      BY <1>1, <1>8, <2>1, ReadingFrame DEF Work, IsStatus, Refused
    <2>3. Answers(r2s) = {} /\ snd.qs = NoFile
      BY <1>1, <1>8, <2>2, ReadingFrame
    <2>4. AnswersSafe(spool', taken', r2s', snd)
      BY <1>1, <2>3, NoneToRead DEF AnswersSafe
    <2>5. Placed(D2, snd, rcv') /\ Skipping(r2s', snd, rcv') /\ StcNames(D2, dt', stc)
      BY <1>3, <1>5, <2>2, NoDoubt DEF Placed, Skipping
    <2>6. D2 \subseteq Doubt(spool, taken)
      BY <1>5
    <2> HIDE DEF h
    <2> QED BY <1>1, <1>5, <1>8, <2>1, <2>2, <2>3, <2>4, <2>5, <2>6, BothGoOn
  <1> QED BY <1>6, <1>7, <1>8

(* The receiver's own M_EOB answers nothing. *)
LEMMA RcvEOBSafe ==
    ASSUME Steady, IInv, IInv', DInv, NDInv, mode = "nd", ReceiverSendEOB
    PROVE  NDInv'
  <1>1. /\ UNCHANGED <<spool, stc, dt, taken, s2r, snd>> /\ rcv.up /\ ~rcv.eob
        /\ rcv' = OneMore([rcv EXCEPT !.eob = TRUE]) /\ r2s' = ToS(M_EOB)
    BY TakenSame DEF ReceiverSendEOB
  <1>2. rcv \in RcvStates /\ r2s \in Seq(Replies)
    BY DEF IInv, TypeOK
  <1>3. /\ rcv'.up /\ rcv'.eob /\ rcv'.reob = rcv.reob /\ rcv'.complete = rcv.complete
        /\ rcv'.skipAll = rcv.skipAll
    BY <1>1, <1>2 DEF RcvStates, OneMore
  <1>4. StcNames(Doubt(spool, taken), dt, stc)
    BY DEF NDInv
  <1>5. CASE ~snd.up
    BY <1>1, <1>3, <1>4, <1>5, EobSettles, OneGoesOn
  <1>6. CASE Ended
    BY <1>6, EndedStays DEF ReceiverNext
  <1>7. CASE snd.up /\ ~Ended
    <2>1. r2s' = Append(r2s, M_EOB) /\ M_EOB \in Replies /\ M_EOB.t = "EOB"
      BY <1>1, <1>7, FrameType DEF ToS, M_EOB, Msg
    <2>2. \A k : Counts(k, r2s, snd, rcv) => Counts(k, Append(r2s, M_EOB), snd, rcv')
      BY <1>1, <1>2, <1>3, CountsSend
    <2>3. CountsKept
      BY <2>1, <2>2 DEF CountsKept
    <2>4. \A i \in Answers(r2s') : i \in Answers(r2s) /\ r2s'[i] = r2s[i]
      <3>1. \A i \in Answers(Append(r2s, M_EOB)) :
               i \in Answers(r2s) /\ Append(r2s, M_EOB)[i] = r2s[i]
        BY <1>2, <2>1, MoreAnswers
      <3> QED BY <2>1, <3>1
    <2>5. snd.qs # NoFile => s2r' = <<>> /\ Answers(r2s') = {}
      BY <1>1, <1>7, <2>4, KnowsNow DEF Waiting
    <2>6. IsStatus(snd) => \A i \in Answers(r2s') : r2s'[i].f = snd.out
      BY <1>7, <2>4, KnowsNow DEF Alone
    <2>7. Refused(r2s, snd) => Refused(r2s', snd)
      BY <2>4 DEF Refused
    <2>8. AnswersSafe(spool, taken, r2s', snd)
      <3>1. CASE Settled(spool, taken, r2s)
        <4>1. Grows(taken, taken) /\ taken \in [Files -> Nat]
          BY <1>7, KnowsNow DEF Grows
        <4>2. Settled(spool, taken, Append(r2s, M_EOB))
          BY <1>2, <2>1, <3>1, <4>1, SettledReply
        <4> QED BY <2>1, <4>2 DEF AnswersSafe
      <3>2. CASE Refused(r2s, snd)
        BY <2>7, <3>2 DEF AnswersSafe
      <3>3. CASE OneToRead(r2s, Doubt(spool, taken), snd)
        BY <2>4, <3>3 DEF AnswersSafe, OneToRead
      <3> QED BY <1>7, <3>1, <3>2, <3>3, KnowsNow DEF AnswersSafe
    <2>9. /\ AnswersSafe(spool', taken', r2s', snd) /\ Skipping(r2s', snd, rcv')
          /\ Placed(Doubt(spool', taken'), snd, rcv')
          /\ Doubt(spool', taken') \subseteq Doubt(spool, taken)
          /\ StcNames(Doubt(spool', taken'), dt', stc)
      BY <1>1, <1>3, <1>4, <1>7, <2>7, <2>8, KnowsNow DEF Skipping, Placed
    <2> QED BY <1>1, <1>7, <2>3, <2>5, <2>6, <2>9, BothGoOn
  <1> QED BY <1>5, <1>6, <1>7

(* The batch ends at the receiver, which has renamed in_complete. *)
LEMMA RcvEndSafe ==
    ASSUME Steady, IInv, IInv', DInv, NDInv, mode = "nd", ReceiverEndBatch
    PROVE  NDInv'
  <1>1. UNCHANGED <<spool, stc, taken, r2s, snd>> /\ rcv.up /\ rcv.eob /\ rcv.reob
    BY TakenSame DEF ReceiverEndBatch, Successful
  <1>2. rcv.complete = NoFile /\ rcv \in RcvStates
    BY <1>1 DEF IInv, NoFileAfterEOB, TypeOK
  <1>3. Doubt(spool, taken) = {}
    BY <1>1, <1>2, EobSettles, DoubtFiles, FilesAssumption
  <1>4. CASE rcv' = RDown /\ s2r' = <<>>
    <2>1. StcNames(Doubt(spool, taken), dt', stc)
      BY <1>3, NoDoubt
    <2> QED BY <1>1, <1>4, <2>1, ReceiverGone DEF ReceiverNext
  <1>5. CASE /\ rcv' = [rcv EXCEPT !.msgs = 0, !.eob = FALSE, !.reob = FALSE]
             /\ UNCHANGED <<dt, s2r>>
    <2>1. rcv'.up = rcv.up /\ rcv'.skipAll = rcv.skipAll /\ rcv'.complete = rcv.complete
      BY <1>2, <1>5 DEF RcvStates
    <2>2. CASE ~snd.up
      BY <1>1, <1>3, <2>2, NoDoubt DEF NDInv
    <2>3. CASE Ended
      BY <2>3, EndedStays DEF ReceiverNext
    <2>4. CASE snd.up /\ ~Ended
      <3>1. ~Work(snd)
        BY <1>1, <2>4, EobSettles
      <3>2. snd.qs = NoFile /\ ~IsStatus(snd)
        BY <3>1 DEF Work, IsStatus
      <3>3. ~rcv.skipAll
        BY <1>1, <2>4, <3>2, KnowsNow DEF Skipping, Refused
      <3>4. /\ AnswersSafe(spool', taken', r2s', snd)
            /\ Skipping(r2s', snd, rcv') /\ Placed(Doubt(spool', taken'), snd, rcv')
            /\ Doubt(spool', taken') = {}
            /\ StcNames(Doubt(spool', taken'), dt', stc)
        BY <1>1, <1>3, <2>1, <2>4, <3>3, KnowsNow, NoDoubt DEF Skipping, Placed
      <3> QED BY <1>1, <1>5, <2>4, <3>1, <3>2, <3>4, BothGoOn
    <2> QED BY <2>2, <2>3, <2>4
  <1> QED BY <1>4, <1>5 DEF ReceiverEndBatch, ReceiverQuits

LEMMA DropSafe ==
    ASSUME Steady, IInv, IInv', DInv, NDInv, mode = "nd",
           ReceiverDrop \/ ReceiverCrash \/ InbDoneFails
    PROVE  NDInv'
  <1>1. /\ UNCHANGED <<spool, stc, taken, r2s, snd>> /\ rcv' = RDown /\ s2r' = <<>> /\ rcv.up
        /\ dt' = dt \/ dt' = Tidied(dt, rcv)
    BY TakenSame
       DEF ReceiverDrop, ReceiverCrash, InbDoneFails, ReceiverQuits, ReceiverReads, we_nd, Steady
  <1>2. dt \in Dts /\ rcv.in \in Files \cup {NoFile}
    BY DEF IInv, TypeOK, RcvStates, Dts
  <1>3. StcNames(Doubt(spool, taken), dt, stc)
    BY DEF NDInv
  <1>4. CASE Successful(rcv)
    <2>1. rcv.reob /\ rcv.complete = NoFile
      BY <1>1, <1>4 DEF Successful, IInv, NoFileAfterEOB
    <2>2. Doubt(spool, taken) = {}
      BY <1>1, <2>1, EobSettles, DoubtFiles, FilesAssumption
    <2>3. StcNames(Doubt(spool, taken), dt', stc)
      BY <2>2, NoDoubt
    <2> QED BY <1>1, <2>3, ReceiverGone DEF ReceiverNext
  <1>5. CASE ~Successful(rcv)
    <2>1. dt' = dt \/ dt' = ClosePartial(dt, rcv.in)
      BY <1>1, <1>5 DEF Tidied
    <2>2. KeepsWhole(dt, dt', NoFile)
      BY <1>2, <2>1, WholeKept
    <2>3. StcNames(Doubt(spool, taken), dt', stc)
      BY <1>3, <2>2, NamesKept, DoubtFiles, FilesAssumption
    <2> QED BY <1>1, <2>3, ReceiverGone DEF ReceiverNext
  <1> QED BY <1>4, <1>5

LEMMA ReceiverSafe ==
    ASSUME Steady, IInv, IInv', DInv, NDInv, Within(s2r), mode = "nd", ReceiverNext
    PROVE  NDInv'
  BY RecvSafe, DataSafe, EOBSafe, RcvEOBSafe, RcvEndSafe, DropSafe DEF ReceiverNext

-----------------------------------------------------------------------------
(*                      Sessions, and the theorem                          *)

(* A new session in ND mode begins with the status, when there is one. *)
LEMMA ConnectSafe ==
    ASSUME Steady, IInv, LInv, Connect
    PROVE  LInv'
  <1>1. /\ mode' \in NextModes[mode] /\ snd' = SndInit(TRUE)
        /\ s2r' = <<>> /\ r2s' = <<>> /\ UNCHANGED <<spool, stc, dt>>
        /\ Doubt(spool', taken') = Doubt(spool, taken)
    BY DEF Connect, disks, Doubt, taken, Taken
  <1>2. mode' = "nd" <=> mode = "nd"
    BY <1>1 DEF Steady, IInv, TypeOK
  <1>3. Answers(<<>>) = {} /\ EobAt(<<>>) = {} /\ Within(<<>>)
    BY DEF Answers, EobAt, Within
  <1>4. /\ snd'.up /\ snd'.qs = stc /\ snd'.out = NoFile /\ snd'.sent = {} /\ ~snd'.sendEof
        /\ ~snd'.offReq /\ ~snd'.waitGOT /\ ~snd'.eob /\ ~snd'.reob /\ snd'.msgs = 0
    BY <1>1 DEF SndInit
  <1>5. rcv'.up /\ ~rcv'.skipAll /\ ~rcv'.eob /\ ~rcv'.reob
    BY DEF Connect, RcvInit
  <1>6. CASE mode = "nd"
    <2>1. StcNames(Doubt(spool, taken), dt, stc)
      BY <1>6 DEF LInv, NDInv
    <2>2. ~Unresolved(snd') => Doubt(spool, taken) = {}
      <3>1. ~Unresolved(snd') => stc = NoFile
        BY <1>4 DEF Unresolved
      <3> QED BY <2>1, <3>1, DoubtFiles, FilesAssumption DEF StcNames
    <2>3. ~IsStatus(snd')
      BY <1>4 DEF IsStatus
    <2>4. Waiting(s2r', r2s', snd', stc') /\ Alone(s2r', r2s', snd', stc')
      BY <1>1, <1>3, <1>4, <2>3 DEF Waiting, Alone
    <2>5. AnswersSafe(spool', taken', r2s', snd')
      BY <1>1, <1>3, NoneToRead DEF AnswersSafe
    <2>6. FirstBatch(s2r', r2s', snd', rcv')
      <3>0. 0 >= 0
        OBVIOUS
      <3>1. snd'.msgs >= 0 /\ EobAt(r2s') = {} /\ EobAt(s2r') = {}
        BY <1>1, <1>3, <1>4, <3>0, Zenon
      <3>2. Counts(0, r2s', snd', rcv')
        BY <1>4, <1>5, <3>1 DEF Counts
      <3> QED BY <1>4, <3>1, <3>2 DEF FirstBatch
    <2>7. /\ Counted(r2s', Doubt(spool', taken'), snd', rcv')
          /\ Placed(Doubt(spool', taken'), snd', rcv')
          /\ Skipping(r2s', snd', rcv')
      BY <1>1, <1>5, <2>2 DEF Counted, Placed, Skipping
    <2>8. NDInv'
      BY <1>1, <1>4, <2>1, <2>4, <2>5, <2>6, <2>7, SenderGoesOn
    <2> QED BY <1>1, <1>2, <1>3, <1>6, <2>8 DEF LInv
  <1>7. CASE mode # "nd"
    <2>1. Doubt(spool', taken') = {}
      BY <1>1, <1>7 DEF LInv, Settled
    <2>2. Settled(spool', taken', r2s')
      BY <1>1, <1>3, <2>1, SettledNone
    <2> QED BY <1>1, <1>2, <1>3, <1>7, <2>2 DEF LInv
  <1> QED BY <1>6, <1>7

LEMMA InitLInv == Steady /\ Init => LInv
  <1> SUFFICES ASSUME Init PROVE LInv
    OBVIOUS
  <1>1. /\ spool = Files /\ s2r = <<>> /\ r2s = <<>> /\ snd = Down
    BY DEF Init
  <1>2. Doubt(spool, taken) = {}
    BY <1>1 DEF Doubt
  <1>3. Answers(<<>>) = {} /\ Within(<<>>) /\ ~Down.up
    BY DEF Answers, Within, Down, SndInit
  <1>4. Settled(spool, taken, r2s)
    BY <1>1, <1>2, <1>3, SettledNone
  <1>5. NDInv
    BY <1>1, <1>2, <1>3, NoDoubt DEF NDInv
  <1> QED BY <1>1, <1>3, <1>4, <1>5 DEF LInv

(* A step that leaves what LInv is about alone *)
LEMMA SameLInv ==
    ASSUME LInv, UNCHANGED <<spool, stc, dt, taken, mode, s2r, r2s, snd, rcv>>
    PROVE  LInv'
  BY DEF LInv, NDInv, Ended, Knows

LEMMA NextLInv == Steady /\ IInv /\ IInv' /\ DInv /\ LInv /\ [Next]_vars => LInv'
  <1> SUFFICES ASSUME Steady, IInv, IInv', DInv, LInv, [Next]_vars PROVE LInv'
    OBVIOUS
  <1>1. IInv' /\ TypeOK
    BY DEF IInv
  <1>2. CASE SenderNext
    <2>1. Within(s2r') /\ mode' = mode
      BY <1>1, <1>2, WithinKept, SenderSpool DEF LInv
    <2>2. mode # "nd" => Settled(spool', taken', r2s')
      BY <1>1, <1>2, SenderSettled DEF LInv
    <2>3. mode = "nd" => NDInv'
      BY <1>2, SenderSafe DEF LInv
    <2> QED BY <2>1, <2>2, <2>3 DEF LInv
  <1>3. CASE ReceiverNext
    <2>1. Within(s2r') /\ mode' = mode
      BY <1>3, WithinRead, ReceiverEffects DEF LInv
    <2>2. mode # "nd" => Settled(spool', taken', r2s')
      BY <1>1, <1>3, ReceiverSettled DEF LInv
    <2>3. mode = "nd" => NDInv'
      BY <1>1, <1>3, ReceiverSafe DEF LInv
    <2> QED BY <2>1, <2>2, <2>3 DEF LInv
  <1>4. CASE Connect
    BY <1>4, ConnectSafe
  <1>5. CASE Toss
    BY <1>5, SameLInv, TakenSame DEF Toss
  <1>6. CASE UNCHANGED vars
    BY <1>6, SameLInv, TakenSame DEF vars
  <1> QED BY <1>2, <1>3, <1>4, <1>5, <1>6 DEF Next

LEMMA LInvNoLoss == IInv /\ LInv => NoLoss
  <1> SUFFICES ASSUME IInv, LInv, NEW f \in Files \ spool, ~(delivered[f] > 0), f \notin refused
               PROVE  dt[f] = Size[f] /\ stc = f
    BY DEF NoLoss
  <1>1. f \in Doubt(spool, taken)
    <2>1. taken \in [Files -> Nat] /\ ~(taken[f] > 0)
      BY TakenType DEF IInv
    <2>2. taken[f] = 0
      BY <2>1
    <2> QED BY <2>2 DEF Doubt
  <1>2. mode = "nd"
    BY <1>1 DEF LInv, Settled
  <1> QED BY <1>1, <1>2 DEF LInv, NDInv, StcNames

(* A file that has left the spool is delivered, whole in its .dt and named *)
(* by the .stc, or was destroyed on purpose by a rule of the receiver: ND  *)
(* mode loses nothing, with sessions and mailers stopped between any two   *)
(* steps, inbounds that fill up and renames that fail at an M_FILE or at   *)
(* the last block (GOT, ND_set_status, start_file_recv, inb_done).  Steady *)
(* leaves out the renames that fail at an M_EOB: those lose the file.      *)
THEOREM NothingLost ==
    ASSUME Steady
    PROVE  Spec => []NoLoss
  <1>1. Init => TInv /\ LInv
    BY InitTInv, InitLInv
  <1>2. TInv /\ LInv /\ [Next]_vars => (TInv /\ LInv)'
    BY NextTInv, NextLInv DEF TInv
  <1>3. TInv /\ LInv => NoLoss
    BY LInvNoLoss DEF TInv
  <1> QED BY <1>1, <1>2, <1>3, PTL DEF Spec

-----------------------------------------------------------------------------
(***************************************************************************)
(* The proof that ND mode delivers no file twice (NoDup of BinkpTransfer). *)
(* A receiver renames the file in_complete when the next M_FILE or M_EOB   *)
(* arrives, and a link may break at any moment before and after, so a      *)
(* session may begin with a file the other mailer has already taken. Two   *)
(* things keep it from being taken again: what makes the receiver rename a *)
(* file is sent after its M_GOT was read, and with it the file has left    *)
(* the spool; and a status that is sent for a delivered file finds a .dt   *)
(* that is empty, whose M_GET shows the sender that there is nothing to    *)
(* finish.                                                                 *)
(***************************************************************************)

(* The links the theorem is about: none enters ND mode after a session     *)
(* without it, no file is empty (the .dt of an empty file is whole as soon *)
(* as it is made), and no sender is killed between writing the .stc and    *)
(* removing the file.                                                      *)
Single ==
    /\ \A m \in Modes : \A n \in NextModes[m] : n = "nd" => m = "nd"
    /\ \A f \in Files : Size[f] > 0
    /\ "gotcrash" \notin Faults

(* A delivered file was delivered once, has left the spool, and the .dt    *)
(* that a late status may have made for it again is empty.                 *)
Once(sp, d, dl) ==
    \A f \in Files : dl[f] > 0 => dl[f] = 1 /\ f \notin sp /\ d[f] \in {Absent, 0}

(* The .stc, and the status read from it, name a file that has left it.    *)
StcLeft(sp, sc, st) ==
    /\ sc \notin sp /\ st.qs \notin sp
    /\ IsStatus(st) => st.out \notin sp

(* The sender's files are those of the spool, each in one place.           *)
Owned(sp, st) ==
    /\ st.q \subseteq sp /\ st.sent \subseteq sp /\ st.q \cap st.sent = {}
    /\ InTransfer(st) => st.out \in sp \ st.q

(* The empty block that ends a status is of a file that is not delivered;  *)
(* the sender waits for the M_GOT of the file in_complete.                 *)
Undelivered(sp, dl, st, r) ==
    /\ st.sendEof => dl[st.out] = 0 /\ r.complete = NoFile
    /\ r.complete \in sp => r.complete \in st.sent

(* Nor are the blocks under way delivered, of which the last one ends the  *)
(* stream; and what has the file in_complete renamed comes after its M_GOT.*)
NewBlock(m, dl, r) == m.f \in Files => dl[m.f] = 0 /\ m.f # r.complete
NewBlocks(s, dl, r) ==
    \A i \in 1..Len(s) : s[i].t = "DATA" =>
        NewBlock(s[i], dl, r) /\ (Final(s[i]) => i = Len(s))
Renames(s, sp, r) ==
    \A i \in 1..Len(s) : s[i].t # "DATA" => r.complete \notin sp

Live(s, sp, dl, st, r) ==
    r.up /\ ~r.skipAll =>
        /\ NewBlocks(s, dl, r) /\ Renames(s, sp, r)
        /\ st.up => Owned(sp, st) /\ Undelivered(sp, dl, st, r)

NInv ==
    mode = "nd" =>
        /\ Once(spool, dt, delivered) /\ StcLeft(spool, stc, snd)
        /\ Live(s2r, spool, delivered, snd, rcv)
        /\ rcv.skipAll => rcv.complete = NoFile

-----------------------------------------------------------------------------
(*                              Frames                                     *)

LEMMA NoFinal ==
    ASSUME NEW s, NEW st, Blocks(s, st), ~st.waitGOT \/ st.sendEof \/ st.offReq
    PROVE  \A i \in 1..Len(s) : s[i].t = "DATA" => ~Final(s[i])
  BY DEF Blocks

(* A frame is sent that is no block, by a sender that waits for no M_GOT, ... *)
LEMMA CommandSent ==
    ASSUME NEW s \in Seq(Commands), NEW m \in Commands, m.t # "DATA", NEW sp, NEW dl, NEW r,
           r.complete \notin sp, NewBlocks(s, dl, r), Renames(s, sp, r),
           \A i \in 1..Len(s) : s[i].t = "DATA" => ~Final(s[i])
    PROVE  NewBlocks(Append(s, m), dl, r) /\ Renames(Append(s, m), sp, r)
  <1> DEFINE z == Append(s, m)
  <1>1. /\ Len(s) \in Nat /\ Len(z) = Len(s) + 1
        /\ \A i \in 1..Len(s) : z[i] = s[i]
        /\ z[Len(s) + 1] = m
    BY AppendIndex
  <1> HIDE DEF z
  <1>2. \A i \in 1..Len(z) : (i \in 1..Len(s) /\ z[i] = s[i]) \/ z[i] = m
    BY <1>1
  <1>3. NewBlocks(z, dl, r)
    BY <1>2 DEF NewBlocks
  <1>4. Renames(z, sp, r)
    BY <1>2 DEF Renames
  <1> QED BY <1>3, <1>4 DEF z

(* ... or a block. *)
LEMMA BlockFollows ==
    ASSUME NEW s \in Seq(Commands), NEW m \in Commands, m.t = "DATA", NEW sp, NEW dl, NEW r,
           NewBlock(m, dl, r), NewBlocks(s, dl, r), Renames(s, sp, r),
           \A i \in 1..Len(s) : s[i].t = "DATA" => ~Final(s[i])
    PROVE  NewBlocks(Append(s, m), dl, r) /\ Renames(Append(s, m), sp, r)
  <1> DEFINE z == Append(s, m)
  <1>1. /\ Len(s) \in Nat /\ Len(z) = Len(s) + 1
        /\ \A i \in 1..Len(s) : z[i] = s[i]
        /\ z[Len(s) + 1] = m
    BY AppendIndex
  <1> HIDE DEF z
  <1>2. \A i \in 1..Len(z) : (i \in 1..Len(s) /\ z[i] = s[i]) \/ (z[i] = m /\ i = Len(z))
    BY <1>1
  <1>3. NewBlocks(z, dl, r)
    BY <1>2 DEF NewBlocks
  <1>4. Renames(z, sp, r)
    BY <1>2 DEF Renames
  <1> QED BY <1>3, <1>4 DEF z

(* The receiver reads one: a final block was the last of them. *)
LEMMA CommandRead ==
    ASSUME NEW s \in Seq(Commands), s # <<>>, NEW sp, NEW dl, NEW r,
           NewBlocks(s, dl, r), Renames(s, sp, r)
    PROVE  /\ NewBlocks(Tail(s), dl, r) /\ Renames(Tail(s), sp, r)
           /\ s[1].t = "DATA" => NewBlock(s[1], dl, r) /\ (Final(s[1]) => Tail(s) = <<>>)
           /\ s[1].t # "DATA" => r.complete \notin sp
  <1> DEFINE z == Tail(s)
  <1>1. /\ Len(s) \in Nat \ {0} /\ Len(z) = Len(s) - 1
        /\ \A i \in 1..Len(z) : z[i] = s[i + 1]
        /\ z = <<>> <=> Len(s) = 1
        /\ 1 \in 1..Len(s)
    BY TailIndex
  <1> HIDE DEF z
  <1>2. \A i \in 1..Len(z) : i + 1 \in 1..Len(s) /\ z[i] = s[i + 1] /\ (i + 1 = Len(s) => i = Len(z))
    BY <1>1
  <1>3. NewBlocks(z, dl, r)
    BY <1>2 DEF NewBlocks
  <1>4. Renames(z, sp, r)
    BY <1>2 DEF Renames
  <1>5. s[1].t = "DATA" => NewBlock(s[1], dl, r) /\ (Final(s[1]) => z = <<>>)
    BY <1>1 DEF NewBlocks
  <1>6. s[1].t # "DATA" => r.complete \notin sp
    BY <1>1 DEF Renames
  <1> QED BY <1>3, <1>4, <1>5, <1>6 DEF z

LEMMA NoFramesLive ==
    ASSUME NEW sp, NEW dl, NEW r
    PROVE  NewBlocks(<<>>, dl, r) /\ Renames(<<>>, sp, r)
  BY DEF NewBlocks, Renames

(* The spool may shrink. *)
LEMMA LessSpool ==
    ASSUME NEW s, NEW sp, NEW sp2, sp2 \subseteq sp, NEW r, Renames(s, sp, r)
    PROVE  Renames(s, sp2, r)
  BY DEF Renames

-----------------------------------------------------------------------------
(*                            The status                                   *)

(* What a step of the sender does to the status, but for the M_GOT that    *)
(* makes one.                                                              *)
StatusStep ==
    \/ snd' = Down
    \/ /\ snd'.qs \in {snd.qs, NoFile}
       /\ IsStatus(snd') => (IsStatus(snd) /\ snd'.out = snd.out) \/ snd'.out = snd.qs

LEMMA DownStatus == Down.qs = NoFile /\ ~IsStatus(Down) /\ ~Down.up
  BY DEF Down, SndInit, IsStatus

LEMMA StcForgets ==
    ASSUME NEW st
    PROVE  ClearedStc(st) \in {stc, NoFile}
  BY DEF ClearedStc

LEMMA StartStatusStep ==
    ASSUME TypeOK, mode = "nd", StartFile \/ StartStatus \/ SendData \/ SendStatusEof
                                \/ SendEOB \/ SenderEOB \/ SenderDrop
    PROVE  StatusStep /\ stc' = stc /\ spool' = spool
  <1>0. snd \in SndStates
    BY DEF TypeOK
  <1>1. CASE StartFile
    <2>1. snd'.qs = snd.qs /\ snd'.status = FALSE
      BY <1>1, StartFileFields
    <2> QED BY <1>1, <2>1 DEF StatusStep, IsStatus, StartFile
  <1>2. CASE StartStatus
    <2>1. snd'.qs = NoFile /\ snd'.out = snd.qs
      BY <1>2, StartStatusFields
    <2> QED BY <1>2, <2>1 DEF StatusStep, StartStatus
  <1>3. CASE SendData
    <2>1. snd'.qs = snd.qs /\ ~snd.status
      BY <1>3, SendDataBatch
    <2>2. snd'.status = snd.status
      BY <1>3, SendDataFields
    <2> QED BY <1>3, <2>1, <2>2 DEF StatusStep, IsStatus, SendData
  <1>4. CASE SendStatusEof \/ SendEOB
    <2>1. /\ snd'.qs = snd.qs /\ snd'.status = snd.status /\ snd'.out = snd.out
      BY <1>0, <1>4 DEF SendStatusEof, SendEOB, SndStates, OneMore
    <2> QED BY <1>4, <2>1 DEF StatusStep, IsStatus, SendStatusEof, SendEOB
  <1>5. CASE SenderEOB
    <2>1. Read \in SndStates /\ snd' = [Read EXCEPT !.reob = TRUE]
      BY <1>5, ReadFields DEF SenderEOB
    <2>2. snd'.qs = Read.qs /\ snd'.status = Read.status /\ snd'.out = Read.out
      BY <2>1 DEF SndStates
    <2> QED BY <1>5, <2>2, ReadBatch, ReadFields DEF StatusStep, IsStatus, SenderEOB
  <1>6. CASE SenderDrop
    BY <1>6 DEF StatusStep, SenderDrop, SenderQuits
  <1> QED BY <1>1, <1>2, <1>3, <1>4, <1>5, <1>6

LEMMA GETStatusStep ==
    ASSUME TypeOK, GET
    PROVE  StatusStep /\ stc' \in {stc, NoFile} /\ spool' = spool
  <1> DEFINE m == Head(r2s)
             st == GETReopen(m.f)
  <1>1. /\ st \in SndStates /\ (IsStatus(st) => IsStatus(snd) /\ st.out = snd.out)
    <2>0. st \in SndStates
      BY SenderHead, GETReopenType DEF GET
    <2>1. CASE m.f \notin snd.sent
      BY <2>0, <2>1, ReadFields DEF GETReopen, IsStatus
    <2>2. CASE m.f \in snd.sent
      <3> DEFINE S == (Read.sent \ {m.f}) \cup IF Sending THEN {snd.out} ELSE {}
                 o == IF m.f \in spool THEN m.f ELSE NoFile
      <3>1. st = [Read EXCEPT !.sent = S, !.out = o, !.status = FALSE, !.pos = 0]
        BY <2>2 DEF GETReopen
      <3> HIDE DEF S, o, st
      <3>2. st.status = FALSE
        BY <3>1, ReadFields DEF SndStates
      <3> QED BY <2>0, <3>2 DEF IsStatus
    <2> QED BY <2>1, <2>2
  <1>2. snd' = Down \/ snd'.qs = snd.qs
    BY GETBatch
  <1> HIDE DEF st
  <1>3. ASSUME NEW x \in SndStates, snd' = OneMore(GETTail(x))
        PROVE  snd'.out = x.out /\ snd'.status = x.status
    <2>1. GETTail(x) \in SndStates
      BY GETTailType
    <2>2. GETTail(x).out = x.out /\ GETTail(x).status = x.status
      BY DEF GETTail, SndStates
    <2> QED BY <1>3, <2>1, <2>2, OneMoreSnd
  <1>4. CASE GETStatusAtEnd(m, st)
    <2>1. snd'.out = st.out /\ snd'.status = st.status /\ stc' = stc
      BY <1>1, <1>4 DEF GETStatusAtEnd, SndStates, OneMore
    <2> QED BY <1>1, <1>2, <2>1 DEF StatusStep, IsStatus, GET
  <1>5. CASE GETStatusElse(m, st)
    <2> DEFINE x == [st EXCEPT !.out = NoFile, !.status = FALSE]
    <2>1. x \in SndStates /\ x.out = NoFile /\ stc' = NoFile
          /\ snd' = OneMore(GETTail(x))
      BY <1>1, <1>5 DEF GETStatusElse, SndStates
    <2> HIDE DEF x
    <2>2. snd'.out = NoFile
      BY <1>3, <2>1
    <2> QED BY <1>2, <2>1, <2>2 DEF StatusStep, IsStatus, GET
  <1>6. CASE GETFile(m, st)
    <2> DEFINE x == [st EXCEPT !.pos = m.off]
    <2>0. m.off \in Nat
      BY SenderHead DEF GET
    <2>1. /\ x \in SndStates /\ x.out = st.out /\ x.status = st.status
          /\ snd' = OneMore(GETTail(x))
      BY <1>1, <1>6, <2>0 DEF GETFile, SndStates
    <2> HIDE DEF x
    <2>2. snd'.out = st.out /\ snd'.status = st.status
      BY <1>3, <2>1
    <2> QED BY <1>1, <1>2, <1>6, <2>2, StcForgets DEF StatusStep, IsStatus, GET, GETFile
  <1>7. CASE GETDrop(st)
    BY <1>7, StcForgets DEF GETDrop, SenderQuits, StatusStep, GET
  <1>8. GETStatusAtEnd(m, st) \/ GETStatusElse(m, st) \/ GETFile(m, st) \/ GETDrop(st)
    BY DEF GET, st
  <1> QED BY <1>4, <1>5, <1>6, <1>7, <1>8

LEMMA SKIPStatusStep ==
    ASSUME TypeOK, SKIP \/ SenderEndBatch
    PROVE  StatusStep /\ stc' \in {stc, NoFile} /\ spool' = spool
  <1>1. CASE SKIP /\ snd' = Down
    BY <1>1, StcForgets DEF SKIP, StatusStep
  <1>2. CASE SKIP /\ snd' # Down
    <2> DEFINE f == Head(r2s).f
               o == IF Read.out = f THEN NoFile ELSE Read.out
               p == IF snd.out = f THEN 0 ELSE Read.pos
               w == Read.waitGOT /\ ~we_nr
               rq == Read.offReq /\ ~we_nr
    <2>1. snd' = SKIPState(f) /\ stc' \in {stc, NoFile}
      BY <1>2, StcForgets DEF SKIP, SenderQuits
    <2>2. SKIPState(f) = [Read EXCEPT !.sent = @ \ {f}, !.ndAddr = FALSE, !.out = o,
                                      !.pos = p, !.waitGOT = w, !.offReq = rq]
      BY DEF SKIPState
    <2>3. o \in {Read.out, NoFile}
      OBVIOUS
    <2> HIDE DEF o, p, w, rq
    <2>4. snd'.out = o /\ snd'.qs = Read.qs /\ snd'.status = Read.status
      BY <2>1, <2>2, ReadFields DEF SndStates
    <2> QED BY <1>2, <2>1, <2>3, <2>4, ReadFields, ReadBatch DEF StatusStep, IsStatus, SKIP
  <1>3. CASE SenderEndBatch
    <2>1. CASE snd.msgs <= 2
      BY <1>3, <2>1, StcForgets DEF SenderEndBatch, StatusStep
    <2>2. CASE ~(snd.msgs <= 2)
      <3>1. /\ snd' = [snd EXCEPT !.msgs = 0, !.eob = FALSE, !.reob = FALSE] /\ stc' = stc
            /\ spool' = spool
        BY <1>3, <2>2 DEF SenderEndBatch
      <3>2. snd'.out = snd.out /\ snd'.qs = snd.qs /\ snd'.status = snd.status
        BY <3>1 DEF SndStates, TypeOK
      <3> QED BY <3>1, <3>2 DEF StatusStep, IsStatus
    <2> QED BY <2>1, <2>2
  <1> QED BY <1>1, <1>2, <1>3

LEMMA StepLeft ==
    ASSUME TypeOK, StcLeft(spool, stc, snd), StatusStep, stc' \in {stc, NoFile},
           spool' \subseteq spool
    PROVE  StcLeft(spool', stc', snd')
  <1>1. NoFile \notin spool
    BY FilesAssumption DEF TypeOK
  <1>2. CASE snd' = Down
    BY <1>1, <1>2, DownStatus DEF StcLeft
  <1>3. CASE snd' # Down
    BY <1>1, <1>3 DEF StcLeft, StatusStep
  <1> QED BY <1>2, <1>3

(* An M_GOT makes the .stc name the file that it takes out of the spool. *)
LEMMA GOTLeft ==
    ASSUME TypeOK, Single, mode = "nd", StcLeft(spool, stc, snd), GOT \/ GOTCrash \/ GOTStcFails
    PROVE  StcLeft(spool', stc', snd')
  <1> DEFINE m == Head(r2s)
  <1>1. CASE GOTCrash
    BY <1>1 DEF GOTCrash, Single
  <1>2. CASE GOTStcFails
    <2>1. snd' = Down /\ stc' \in {stc, NoFile} /\ spool' \subseteq spool
      BY <1>2 DEF GOTStcFails, GOTSpool, SenderQuits
    <2> QED BY <2>1, StepLeft DEF StatusStep
  <1>3. CASE GOT
    <2>1. stc' = GOTStc(m) /\ spool' = GOTSpool(m)
      BY <1>3 DEF GOT
    <2>2. spool' \subseteq spool
      BY <2>1 DEF GOTSpool
    <2>3. stc' \notin spool'
      <3>0. NoFile \notin spool'
        BY <2>2, FilesAssumption DEF TypeOK
      <3>1. CASE GOTOut(m)
        <4>1. m.f \notin spool'
          <5>1. CASE snd.status
            <6>1. m.f \in Files
              BY <1>3, SenderHead DEF GOT
            <6> QED BY <2>2, <3>1, <5>1, <6>1, FilesAssumption DEF StcLeft, IsStatus, GOTOut
          <5>2. CASE ~snd.status
            BY <2>1, <3>1, <5>2 DEF GOTSpool
          <5> QED BY <5>1, <5>2
        <4> QED BY <2>1, <3>0, <3>1, <4>1 DEF GOTStc
      <3>2. CASE GOTSent(m)
        <4>1. m.f \notin spool'
          BY <2>1, <3>2 DEF GOTSpool
        <4> QED BY <2>1, <3>0, <3>2, <4>1 DEF GOTStc, GOTSent
      <3>3. CASE ~GOTOut(m) /\ ~GOTSent(m)
        <4>1. stc' = stc
          BY <2>1, <3>3 DEF GOTStc
        <4> QED BY <2>2, <4>1 DEF StcLeft
      <3> QED BY <3>1, <3>2, <3>3
    <2>4. snd'.qs = snd.qs
      BY <1>3, GOTBatch
    <2>5. IsStatus(snd') => IsStatus(snd) /\ snd'.out = snd.out
      BY <1>3, GOTFields DEF IsStatus
    <2> QED BY <2>2, <2>3, <2>4, <2>5 DEF StcLeft
  <1> QED BY <1>1, <1>2, <1>3

LEMMA SenderLeft ==
    ASSUME TypeOK, Single, mode = "nd", StcLeft(spool, stc, snd), SenderNext
    PROVE  StcLeft(spool', stc', snd')
  <1>1. CASE GOT \/ GOTCrash \/ GOTStcFails
    BY <1>1, GOTLeft
  <1>2. CASE ~(GOT \/ GOTCrash \/ GOTStcFails)
    <2>1. StatusStep /\ stc' \in {stc, NoFile} /\ spool' = spool
      BY <1>2, StartStatusStep, GETStatusStep, SKIPStatusStep DEF SenderNext
    <2> QED BY <2>1, StepLeft
  <1> QED BY <1>1, <1>2

-----------------------------------------------------------------------------
(*                 The sender in a session with both there                 *)

LEMMA LiveParts ==
    ASSUME IInv, DInv, NInv, Paced
    PROVE  /\ NewBlocks(s2r, delivered, rcv) /\ Renames(s2r, spool, rcv)
           /\ Owned(spool, snd) /\ Undelivered(spool, delivered, snd, rcv)
           /\ Once(spool, dt, delivered) /\ StcLeft(spool, stc, snd)
           /\ snd.up /\ rcv.up /\ mode = "nd"
           /\ \A m : ToR(m) = Append(s2r, m)
  BY DEF NInv, Paced, Live, ToR

LEMMA SenderGoneLive ==
    ASSUME Live(s2r, spool, delivered, snd, rcv), ~snd'.up,
           UNCHANGED <<s2r, delivered, rcv>>, spool' \subseteq spool
    PROVE  Live(s2r', spool', delivered', snd', rcv')
  BY LessSpool DEF Live

(* What is left of an M_GOT to wait for when the sender does not wait. *)
LEMMA NoneComplete ==
    ASSUME IInv, DInv, NInv, Paced, snd.sent = {}
    PROVE  rcv.complete \notin spool
  BY LiveParts DEF Undelivered

LEMMA StartLive ==
    ASSUME IInv, DInv, NInv, Paced, StartFile \/ StartStatus
    PROVE  Live(s2r', spool', delivered', snd', rcv')
  <1>1. MayStart /\ UNCHANGED <<spool, delivered, rcv>>
    BY DEF StartFile, StartStatus
  <1>2. /\ snd.sent = {} /\ ~snd.sendEof
        /\ \A i \in 1..Len(s2r) : s2r[i].t # "DATA"
    BY <1>1, AtRest
  <1>3. rcv.complete \notin spool
    BY <1>2, NoneComplete
  <1>4. s2r \in Seq(Commands) /\ TypeOK /\ snd \in SndStates /\ mode = "nd"
    BY StopParts DEF Paced
  <1>5. ASSUME NEW m \in Commands, m.t # "DATA", s2r' = ToR(m)
        PROVE  NewBlocks(s2r', delivered', rcv') /\ Renames(s2r', spool', rcv')
    BY <1>1, <1>2, <1>3, <1>4, <1>5, LiveParts, CommandSent
  <1>6. snd'.sent = {} /\ ~snd'.sendEof
    BY <1>2, <1>4, StartFileFields, StartStatusFields
  <1>7. Undelivered(spool', delivered', snd', rcv')
    BY <1>1, <1>3, <1>6 DEF Undelivered
  <1>8. CASE StartFile
    <2>1. PICK f \in snd.q : Announce(f, FALSE, [snd EXCEPT !.q = @ \ {f}])
      BY <1>8 DEF StartFile
    <2> DEFINE rest == [snd EXCEPT !.q = @ \ {f}]
               a == ~we_nd \/ rest.ndAddr
    <2>2. rest \in SndStates /\ rest.q = snd.q \ {f} /\ f \in Files
      BY <1>4 DEF SndStates
    <2> HIDE DEF rest
    <2>3. /\ snd' = OneMore([rest EXCEPT !.out = f, !.status = FALSE, !.pos = 0,
                                         !.waitGOT = FALSE, !.offReq = we_nr, !.ndAddr = a])
          /\ s2r' = ToR(M_FILE(f, -1))
      BY <2>1, StopParts DEF Announce, rest
    <2> HIDE DEF a
    <2>4. snd'.q = snd.q \ {f} /\ snd'.out = f
      BY <2>2, <2>3 DEF SndStates, OneMore
    <2>5. Owned(spool', snd')
      BY <1>1, <1>6, <2>4, LiveParts DEF Owned
    <2>6. M_FILE(f, -1) \in Commands /\ M_FILE(f, -1).t # "DATA"
      BY <2>2, FrameType, SentFields
    <2> QED BY <1>5, <1>7, <2>3, <2>5, <2>6 DEF Live
  <1>9. CASE StartStatus
    <2>1. /\ snd.qs \in Files /\ snd'.out = snd.qs /\ snd'.status = TRUE
          /\ s2r' = ToR(M_FILE(snd.qs, -1))
      BY <1>4, <1>9, StartStatusFields
    <2> DEFINE rest == [snd EXCEPT !.qs = NoFile]
               a == ~we_nd \/ rest.ndAddr
    <2>2. rest \in SndStates /\ rest.q = snd.q
      BY <1>4, FilesAssumption DEF SndStates
    <2> HIDE DEF rest
    <2>3. snd' = OneMore([rest EXCEPT !.out = snd.qs, !.status = TRUE, !.pos = 0,
                                      !.waitGOT = FALSE, !.offReq = we_nr, !.ndAddr = a])
      BY <1>9 DEF StartStatus, Announce, rest
    <2> HIDE DEF a
    <2>4. snd'.q = snd.q
      BY <2>2, <2>3 DEF SndStates, OneMore
    <2>5. Owned(spool', snd')
      BY <1>1, <1>6, <2>1, <2>4, LiveParts DEF Owned, InTransfer
    <2>6. M_FILE(snd.qs, -1) \in Commands /\ M_FILE(snd.qs, -1).t # "DATA"
      BY <2>1, FrameType, SentFields
    <2> QED BY <1>5, <1>7, <2>1, <2>5, <2>6 DEF Live
  <1> QED BY <1>8, <1>9

LEMMA SpoolNew ==
    ASSUME IInv, NInv, mode = "nd", NEW f \in Files, f \in spool \/ dt[f] > 0
    PROVE  delivered[f] = 0
  <1>1. delivered[f] \in Nat
    BY DEF IInv, TypeOK
  <1>2. ~(delivered[f] > 0)
    BY DEF NInv, Once, Absent
  <1> QED BY <1>1, <1>2

LEMMA SendDataLive ==
    ASSUME IInv, DInv, NInv, Paced, SendData
    PROVE  Live(s2r', spool', delivered', snd', rcv')
  <1>1. UNCHANGED <<spool, delivered, rcv>>
    BY DEF SendData
  <1>2. s2r \in Seq(Commands) /\ TypeOK /\ snd \in SndStates /\ mode = "nd" /\ OneAtATime(snd)
    BY StopParts DEF Paced
  <1>3. PICK n \in {0, 1} :
              /\ snd.out \in Files /\ snd.pos \in Nat
              /\ s2r' = ToR(DATA(snd.out, snd.pos, n))
              /\ snd'.sendEof = snd.sendEof /\ snd'.status = snd.status
              /\ \/ /\ snd'.out = NoFile /\ snd'.sent = snd.sent \cup {snd.out}
                 \/ /\ snd'.out = snd.out /\ snd'.sent = snd.sent
    BY <1>2, SendDataFields
  <1>4. snd.out # NoFile /\ ~snd.status /\ snd'.q = snd.q
    BY <1>2, SendDataBatch
  <1>5. InTransfer(snd) /\ ~snd.waitGOT /\ ~snd.sendEof /\ snd.sent = {}
    BY <1>2, <1>4 DEF InTransfer, OneAtATime
  <1>6. snd.out \in spool \ snd.q /\ rcv.complete \notin spool
    BY <1>5, LiveParts, NoneComplete DEF Owned
  <1> DEFINE m == DATA(snd.out, snd.pos, n)
  <1>7. m \in Commands /\ m.t = "DATA" /\ m.f = snd.out
    BY <1>3, FrameType, SentFields
  <1>8. NewBlock(m, delivered, rcv)
    BY <1>6, <1>7, LiveParts, SpoolNew DEF NewBlock
  <1>9. NewBlocks(s2r', delivered', rcv') /\ Renames(s2r', spool', rcv')
    <2>1. \A i \in 1..Len(s2r) : s2r[i].t = "DATA" => ~Final(s2r[i])
      BY <1>5, StopParts, NoFinal
    <2> HIDE DEF m
    <2>2. s2r' = Append(s2r, m)
      BY <1>3, LiveParts DEF m
    <2> QED BY <1>1, <1>2, <1>7, <1>8, <2>1, <2>2, LiveParts, BlockFollows
  <1>10. Undelivered(spool', delivered', snd', rcv')
    BY <1>1, <1>3, <1>5, <1>6 DEF Undelivered
  <1>11. Owned(spool', snd')
    BY <1>1, <1>3, <1>4, <1>5, <1>6, LiveParts DEF Owned, InTransfer
  <1> QED BY <1>9, <1>10, <1>11 DEF Live

LEMMA StatusEofLive ==
    ASSUME IInv, DInv, NInv, Paced, SendStatusEof
    PROVE  Live(s2r', spool', delivered', snd', rcv')
  <1>1. UNCHANGED <<spool, delivered, rcv>> /\ snd.sendEof
    BY DEF SendStatusEof
  <1>2. s2r \in Seq(Commands) /\ TypeOK /\ snd \in SndStates /\ mode = "nd" /\ OneAtATime(snd)
    BY StopParts DEF Paced
  <1>3. snd.out \in Files /\ Size[snd.out] \in Nat
    BY <1>1, <1>2, FilesAssumption DEF OneAtATime, SndStates
  <1> DEFINE m == DATA(snd.out, Size[snd.out], 0)
  <1>4. /\ snd'.q = snd.q /\ snd'.sent = snd.sent /\ snd'.out = snd.out
        /\ snd'.status = snd.status /\ ~snd'.sendEof
        /\ s2r' = ToR(m)
    BY <1>2, <1>3, FilesAssumption DEF SendStatusEof, SndStates
  <1>5. m \in Commands /\ m.t = "DATA" /\ m.f = snd.out
    BY <1>3, FrameType, SentFields
  <1>6. delivered[snd.out] = 0 /\ rcv.complete = NoFile
    BY <1>1, LiveParts DEF Undelivered
  <1>7. NewBlock(m, delivered, rcv)
    BY <1>3, <1>5, <1>6, FilesAssumption DEF NewBlock
  <1>8. NewBlocks(s2r', delivered', rcv') /\ Renames(s2r', spool', rcv')
    <2>1. \A i \in 1..Len(s2r) : s2r[i].t = "DATA" => ~Final(s2r[i])
      BY <1>1, StopParts, NoFinal
    <2> HIDE DEF m
    <2>2. s2r' = Append(s2r, m)
      BY <1>4, LiveParts DEF m
    <2> QED BY <1>1, <1>2, <1>5, <1>7, <2>1, <2>2, LiveParts, BlockFollows
  <1>9. NoFile \notin spool
    BY <1>2, FilesAssumption DEF TypeOK
  <1>10. Undelivered(spool', delivered', snd', rcv')
    BY <1>1, <1>4, <1>6, <1>9 DEF Undelivered
  <1>11. Owned(spool', snd')
    BY <1>1, <1>4, LiveParts DEF Owned, InTransfer
  <1> QED BY <1>8, <1>10, <1>11 DEF Live

(* The sender says M_EOB, or goes on to the next batch, or reads an M_EOB. *)
LEMMA EobLive ==
    ASSUME IInv, DInv, NInv, Paced, SendEOB \/ SenderEndBatch \/ SenderEOB
    PROVE  Live(s2r', spool', delivered', snd', rcv')
  <1>1. UNCHANGED <<spool, delivered, rcv>>
    BY DEF SendEOB, SenderEndBatch, SenderEOB
  <1>2. s2r \in Seq(Commands) /\ TypeOK /\ snd \in SndStates /\ mode = "nd"
    BY StopParts DEF Paced
  <1>3. ASSUME snd'.q = snd.q, snd'.sent = snd.sent, snd'.out = snd.out,
               snd'.status = snd.status, snd'.sendEof = snd.sendEof
        PROVE  Owned(spool', snd') /\ Undelivered(spool', delivered', snd', rcv')
    BY <1>1, <1>3, LiveParts DEF Owned, Undelivered, InTransfer
  <1>4. CASE SendEOB
    <2>1. /\ snd' = OneMore([snd EXCEPT !.eob = TRUE]) /\ s2r' = ToR(M_EOB) /\ MayStart
      BY <1>4 DEF SendEOB
    <2>2. /\ snd'.q = snd.q /\ snd'.sent = snd.sent /\ snd'.out = snd.out
          /\ snd'.status = snd.status /\ snd'.sendEof = snd.sendEof
      BY <1>2, <2>1 DEF SndStates, OneMore
    <2>3. snd.sent = {} /\ \A i \in 1..Len(s2r) : s2r[i].t # "DATA"
      BY <2>1, AtRest
    <2>4. M_EOB \in Commands /\ M_EOB.t # "DATA"
      BY DEF Commands, M_EOB, Msg
    <2>5. NewBlocks(s2r', delivered', rcv') /\ Renames(s2r', spool', rcv')
      BY <1>1, <1>2, <2>1, <2>3, <2>4, LiveParts, NoneComplete, CommandSent
    <2> QED BY <1>3, <2>2, <2>5 DEF Live
  <1>5. CASE SenderEndBatch /\ snd.msgs <= 2
    <2>1. snd' = Down /\ s2r' = s2r
      BY <1>5 DEF SenderEndBatch
    <2> QED BY <1>1, <2>1, LiveParts, DownStatus, SenderGoneLive DEF NInv
  <1>6. CASE SenderEndBatch /\ ~(snd.msgs <= 2)
    <2>1. snd' = [snd EXCEPT !.msgs = 0, !.eob = FALSE, !.reob = FALSE] /\ s2r' = s2r
      BY <1>6 DEF SenderEndBatch
    <2>2. /\ snd'.q = snd.q /\ snd'.sent = snd.sent /\ snd'.out = snd.out
          /\ snd'.status = snd.status /\ snd'.sendEof = snd.sendEof
      BY <1>2, <2>1 DEF SndStates
    <2> QED BY <1>1, <1>3, <2>1, <2>2, LiveParts DEF Live
  <1>7. CASE SenderEOB
    <2>1. snd' = [Read EXCEPT !.reob = TRUE] /\ s2r' = s2r
      BY <1>7 DEF SenderEOB
    <2>2. /\ snd'.q = Read.q /\ snd'.sent = Read.sent /\ snd'.out = Read.out
          /\ snd'.status = Read.status /\ snd'.sendEof = Read.sendEof
      BY <1>2, <2>1, ReadFields DEF SndStates
    <2>3. /\ snd'.q = snd.q /\ snd'.sent = snd.sent /\ snd'.out = snd.out
          /\ snd'.status = snd.status /\ snd'.sendEof = snd.sendEof
      BY <1>2, <2>2, ReadFields, ReadBatch
    <2> QED BY <1>1, <1>3, <2>1, <2>3, LiveParts DEF Live
  <1> QED BY <1>4, <1>5, <1>6, <1>7

(* An M_GET is about the file in transfer and says what the .dt has; a     *)
(* status is finished only when that is all of it, and then the file is    *)
(* not delivered, for the .dt of a delivered file is empty.                *)
LEMMA GETLive ==
    ASSUME Single, IInv, DInv, NInv, Paced, GET
    PROVE  Live(s2r', spool', delivered', snd', rcv')
  <1> DEFINE m == Head(r2s)
  <1>1. UNCHANGED <<spool, delivered, rcv, dt>> /\ r2s # <<>> /\ m.t = "GET"
    BY DEF GET, SenderReads
  <1>2. /\ s2r \in Seq(Commands) /\ r2s \in Seq(Replies) /\ TypeOK /\ snd \in SndStates
        /\ mode = "nd" /\ OneAtATime(snd)
    BY StopParts DEF Paced
  <1>3. m = r2s[1] /\ m.f \in Files /\ m.off \in Nat
    BY <1>1, <1>2, TailIndex, SenderHead DEF GET
  <1>4. Answer(m, rcv, dt, inbound, snd) /\ ~snd.sendEof
    BY <1>1, <1>2, <1>3, AnswerRead, StopParts
  <1>5. /\ snd.offReq /\ m.f = snd.out /\ m.off = dt[m.f] /\ rcv.complete = NoFile
        /\ snd.sent = {}
    BY <1>1, <1>2, <1>4 DEF Answer, Fresh, OneAtATime
  <1>6. snd.out # NoFile /\ NoFile \notin spool
    BY <1>2, <1>3, <1>5, FilesAssumption DEF TypeOK
  <1>7. CASE snd' = Down /\ s2r' = s2r
    BY <1>1, <1>7, LiveParts, DownStatus, SenderGoneLive DEF NInv
  <1>8. CASE snd' # Down
    <2>1. /\ s2r' = ToR(M_FILE(m.f, m.off)) /\ snd'.sent = snd.sent
          /\ \/ snd'.sendEof = snd.sendEof
             \/ m.off = Size[m.f] /\ snd'.out = m.f /\ snd'.status = TRUE
      BY <1>2, <1>5, <1>8, GETFields
    <2>2. \/ snd.status /\ snd'.out = m.f /\ snd'.status = TRUE
          \/ snd.status /\ snd'.out = NoFile
          \/ ~snd.status /\ snd'.out = m.f /\ snd'.status = FALSE
      BY <1>2, <1>5, <1>8, GETKinds
    <2>3. snd'.q = snd.q
      BY <1>2, <1>8, GETBatch
    <2>4. Owned(spool', snd')
      <3>1. InTransfer(snd') => InTransfer(snd) /\ snd'.out = snd.out
        BY <1>5, <1>6, <2>2 DEF InTransfer
      <3> QED BY <1>1, <2>1, <2>3, <3>1, LiveParts DEF Owned
    <2>5. snd'.sendEof => delivered[snd'.out] = 0
      <3>1. ASSUME m.off = Size[m.f] PROVE delivered[m.f] = 0
        <4>1. dt[m.f] > 0
          BY <1>3, <1>5, <3>1 DEF Single
        <4> QED BY <1>2, <1>3, <4>1, SpoolNew
      <3> QED BY <1>4, <2>1, <3>1
    <2>6. Undelivered(spool', delivered', snd', rcv')
      BY <1>1, <1>5, <1>6, <2>5 DEF Undelivered
    <2>7. M_FILE(m.f, m.off) \in Commands /\ M_FILE(m.f, m.off).t # "DATA"
      BY <1>3, FrameType, SentFields
    <2>8. \A i \in 1..Len(s2r) : s2r[i].t = "DATA" => ~Final(s2r[i])
      BY <1>5, StopParts, NoFinal
    <2> DEFINE c == M_FILE(m.f, m.off)
    <2> HIDE DEF c
    <2>9. s2r' = Append(s2r, c) /\ c \in Commands /\ c.t # "DATA"
      BY <2>1, <2>7, LiveParts DEF c
    <2>10. NewBlocks(s2r', delivered', rcv') /\ Renames(s2r', spool', rcv')
      BY <1>1, <1>2, <1>5, <1>6, <2>8, <2>9, LiveParts, CommandSent
    <2> QED BY <2>4, <2>6, <2>10 DEF Live
  <1>9. snd' = Down => s2r' = s2r
    <2>1. snd'.up => snd' # Down
      BY DownStatus
    <2>2. CASE s2r' = ToR(M_FILE(m.f, m.off)) /\ ~(s2r' = s2r)
      <3>1. GETStatusAtEnd(m, GETReopen(m.f)) \/ GETStatusElse(m, GETReopen(m.f))
            \/ GETFile(m, GETReopen(m.f))
        BY <2>2 DEF GET, GETDrop
      <3>2. snd'.up = TRUE
        <4>1. Read \in SndStates /\ Read.up = TRUE /\ GETReopen(m.f) = Read
          BY <1>2, <1>5, ReadFields, LiveParts DEF GETReopen, SndStates
        <4>2. ASSUME NEW x \in SndStates, x.up = TRUE PROVE OneMore(GETTail(x)).up = TRUE
          <5>1. GETTail(x) \in SndStates
            BY GETTailType
          <5>2. GETTail(x).up = TRUE
            BY <4>2 DEF GETTail, SndStates
          <5> QED BY <5>1, <5>2, OneMoreSnd
        <4>3. CASE GETStatusAtEnd(m, Read)
          BY <4>1, <4>3 DEF GETStatusAtEnd, SndStates, OneMore
        <4>4. CASE GETStatusElse(m, Read)
          <5> DEFINE x == [Read EXCEPT !.out = NoFile, !.status = FALSE]
          <5>1. x \in SndStates /\ x.up = TRUE
            BY <4>1 DEF SndStates
          <5>2. snd' = OneMore(GETTail(x))
            BY <4>4 DEF GETStatusElse
          <5> HIDE DEF x
          <5> QED BY <4>2, <5>1, <5>2
        <4>5. CASE GETFile(m, Read)
          <5> DEFINE x == [Read EXCEPT !.pos = m.off]
          <5>1. x \in SndStates /\ x.up = TRUE
            BY <1>3, <4>1 DEF SndStates
          <5>2. snd' = OneMore(GETTail(x))
            BY <4>5 DEF GETFile
          <5> HIDE DEF x
          <5> QED BY <4>2, <5>1, <5>2
        <4> QED BY <3>1, <4>1, <4>3, <4>4, <4>5
      <3> QED BY <3>2, DownStatus
    <2> QED BY <1>2, <2>2, GETFields
  <1> QED BY <1>7, <1>8, <1>9

(* The M_GOT of a file takes it out of the spool: the receiver may rename  *)
(* it when it hears from the sender again.                                 *)
LEMMA GOTLive ==
    ASSUME IInv, DInv, NInv, Paced, GOT
    PROVE  Live(s2r', spool', delivered', snd', rcv')
  <1> DEFINE m == Head(r2s)
  <1>1. /\ UNCHANGED <<delivered, rcv, dt, s2r>> /\ r2s # <<>> /\ m.t = "GOT"
        /\ spool' = GOTSpool(m)
    BY DEF GOT, SenderReads
  <1>2. /\ s2r \in Seq(Commands) /\ r2s \in Seq(Replies) /\ TypeOK /\ snd \in SndStates
        /\ mode = "nd" /\ OneAtATime(snd)
    BY StopParts DEF Paced
  <1>3. m = r2s[1] /\ m.f \in Files
    BY <1>1, <1>2, TailIndex, SenderHead DEF GOT
  <1>4. m.f \in {snd.out} \cup snd.sent /\ ~snd.sendEof
    BY <1>1, <1>2, <1>3, AnswerRead, StopParts DEF Answer
  <1>5. snd'.q = snd.q /\ snd'.sendEof = snd.sendEof
    BY <1>2, GOTBatch, GOTFields
  <1>6. spool' \subseteq spool
    BY <1>1 DEF GOTSpool
  <1>7. NewBlocks(s2r', delivered', rcv') /\ Renames(s2r', spool', rcv')
    BY <1>1, <1>6, LessSpool, LiveParts
  <1>8. CASE m.f = snd.out
    <2>1. snd'.out = NoFile /\ snd'.sent = snd.sent
      BY <1>2, <1>8, GOTFields
    <2>2. snd.sent = {}
      BY <1>2, <1>3, <1>8, FilesAssumption DEF OneAtATime
    <2>3. m.f \notin snd.q
      <3>1. CASE snd.status
        BY <1>3, <1>8, <3>1, LiveParts, FilesAssumption DEF StcLeft, IsStatus, Owned
      <3>2. CASE ~snd.status
        BY <1>3, <1>8, <3>2, LiveParts, FilesAssumption DEF Owned, InTransfer
      <3> QED BY <3>1, <3>2
    <2>4. spool' \in {spool, spool \ {m.f}}
      BY <1>1 DEF GOTSpool
    <2>5. Owned(spool', snd')
      BY <1>5, <2>1, <2>2, <2>3, <2>4, LiveParts DEF Owned, InTransfer
    <2>6. Undelivered(spool', delivered', snd', rcv')
      BY <1>1, <1>4, <1>5, <1>6, <2>2, NoneComplete DEF Undelivered
    <2> QED BY <1>7, <2>5, <2>6 DEF Live
  <1>9. CASE m.f # snd.out
    <2>1. m.f \in snd.sent /\ snd'.out = snd.out /\ snd'.sent = snd.sent \ {m.f}
      BY <1>2, <1>4, <1>9, GOTFields
    <2>2. snd.sent = {m.f} /\ snd.out = NoFile
      BY <1>2, <2>1 DEF OneAtATime
    <2>3. spool' = spool \ {m.f} /\ m.f \notin snd.q
      BY <1>1, <1>9, <2>1, LiveParts DEF GOTSpool, GOTSent, GOTOut, Owned
    <2>4. Owned(spool', snd')
      BY <1>5, <2>1, <2>2, <2>3, LiveParts DEF Owned, InTransfer
    <2>5. rcv.complete \notin spool'
      BY <2>2, <2>3, LiveParts DEF Undelivered
    <2>6. Undelivered(spool', delivered', snd', rcv')
      BY <1>1, <1>4, <1>5, <2>5 DEF Undelivered
    <2> QED BY <1>7, <2>4, <2>6 DEF Live
  <1> QED BY <1>8, <1>9

(* A rule of the receiver skips the file that the sender asks for: it goes *)
(* back to where it is, or, if it is the status, the session ends.         *)
LEMMA SKIPLive ==
    ASSUME IInv, DInv, NInv, Paced, SKIP
    PROVE  Live(s2r', spool', delivered', snd', rcv')
  <1> DEFINE m == Head(r2s)
  <1>1. UNCHANGED <<spool, delivered, rcv, dt, s2r>> /\ r2s # <<>> /\ m.t = "SKIP"
    BY DEF SKIP, SenderReads
  <1>2. /\ r2s \in Seq(Replies) /\ TypeOK /\ snd \in SndStates /\ OneAtATime(snd)
    BY StopParts
  <1>3. m = r2s[1] /\ m.f \in Files
    BY <1>1, <1>2, TailIndex, SenderHead DEF SKIP
  <1>4. Answer(m, rcv, dt, inbound, snd)
    BY <1>1, <1>2, <1>3, AnswerRead, StopParts
  <1>5. snd.offReq /\ m.f = snd.out /\ snd.sent = {} /\ ~snd.sendEof
    BY <1>1, <1>2, <1>4 DEF Answer, OneAtATime
  <1>6. CASE snd' = Down
    BY <1>1, <1>6, LiveParts, DownStatus, SenderGoneLive DEF NInv
  <1>7. CASE snd' = SKIPState(m.f)
    <2> DEFINE o == IF Read.out = m.f THEN NoFile ELSE Read.out
               p == IF snd.out = m.f THEN 0 ELSE Read.pos
               w == Read.waitGOT /\ ~we_nr
               rq == Read.offReq /\ ~we_nr
    <2>1. Read \in SndStates /\ Read.q = snd.q /\ Read.sent = snd.sent /\ Read.out = snd.out
          /\ Read.sendEof = snd.sendEof
      BY <1>2, OneMoreSnd DEF Read
    <2>2. snd' = [Read EXCEPT !.sent = @ \ {m.f}, !.ndAddr = FALSE, !.out = o, !.pos = p,
                              !.waitGOT = w, !.offReq = rq]
      BY <1>7 DEF SKIPState
    <2>3. o = NoFile
      BY <1>5, <2>1
    <2> HIDE DEF o, p, w, rq
    <2>4. snd'.q = snd.q /\ snd'.sent = {} /\ snd'.out = NoFile /\ ~snd'.sendEof
      BY <1>5, <2>1, <2>2, <2>3 DEF SndStates
    <2>5. Owned(spool', snd')
      BY <1>1, <2>4, LiveParts DEF Owned, InTransfer
    <2>6. Undelivered(spool', delivered', snd', rcv')
      BY <1>1, <1>5, <2>4, NoneComplete DEF Undelivered
    <2> QED BY <1>1, <2>5, <2>6, LiveParts DEF Live
  <1> QED BY <1>6, <1>7 DEF SKIP, SenderQuits

LEMMA SenderLive ==
    ASSUME Single, IInv, DInv, NInv, mode = "nd", SenderNext
    PROVE  Live(s2r', spool', delivered', snd', rcv')
  <1>0. /\ UNCHANGED <<delivered, rcv>> /\ snd.up /\ TypeOK
    BY SenderSpool DEF IInv
  <1>1. CASE ~Paced
    <2>1. ~(rcv.up /\ ~rcv.skipAll)
      BY <1>0, <1>1 DEF Paced
    <2> QED BY <1>0, <2>1 DEF Live
  <1>2. CASE Paced
    <2>1. ASSUME GOTStcFails \/ SenderDrop
          PROVE  Live(s2r', spool', delivered', snd', rcv')
      <3>1. snd' = Down /\ s2r' = s2r /\ spool' \subseteq spool
        BY <2>1 DEF GOTStcFails, GOTSpool, SenderDrop, SenderQuits
      <3> QED BY <1>0, <3>1, DownStatus, SenderGoneLive DEF NInv
    <2>2. ~GOTCrash
      BY DEF GOTCrash, Single
    <2> QED BY <1>2, <2>1, <2>2, StartLive, SendDataLive, StatusEofLive, EobLive,
               GETLive, GOTLive, SKIPLive DEF SenderNext
  <1> QED BY <1>1, <1>2

LEMMA SenderNew ==
    ASSUME Single, IInv, DInv, NInv, SenderNext
    PROVE  NInv'
  <1>1. UNCHANGED <<delivered, rcv, dt, mode>> /\ spool' \subseteq spool /\ TypeOK
    BY SenderSpool DEF IInv
  <1>2. CASE mode = "nd"
    <2>1. Once(spool', dt', delivered')
      BY <1>1, <1>2 DEF NInv, Once
    <2>2. StcLeft(spool', stc', snd')
      BY <1>1, <1>2, SenderLeft DEF NInv
    <2>3. Live(s2r', spool', delivered', snd', rcv')
      BY <1>2, SenderLive
    <2> QED BY <1>1, <1>2, <2>1, <2>2, <2>3 DEF NInv
  <1>3. CASE mode # "nd"
    BY <1>1, <1>3 DEF NInv
  <1> QED BY <1>2, <1>3

-----------------------------------------------------------------------------
(*                             The receiver                                *)

(* Every .dt is left alone, removed or made anew. *)
Shrinks(d, d2) == \A g \in Files : d2[g] = d[g] \/ d2[g] \in {Absent, 0}

LEMMA OnceShrinks ==
    ASSUME NEW sp, NEW d, NEW d2, NEW dl, Shrinks(d, d2), Once(sp, d, dl)
    PROVE  Once(sp, d2, dl)
  BY DEF Shrinks, Once

LEMMA ShrinksTrans ==
    ASSUME NEW d, NEW d2, NEW d3, Shrinks(d, d2), Shrinks(d2, d3)
    PROVE  Shrinks(d, d3)
  BY DEF Shrinks

LEMMA CloseShrinks ==
    ASSUME NEW d \in Dts, NEW f \in Files \cup {NoFile}
    PROVE  Shrinks(d, d) /\ Shrinks(d, ClosePartial(d, f)) /\ Shrinks(d, InbReject(d, f))
           /\ Shrinks(d, Opened(d, f))
  <1>1. \A g \in Files : [d EXCEPT ![f] = Absent][g] \in {d[g], Absent}
    BY DEF Dts
  <1>2. \A g \in Files : [d EXCEPT ![f] = 0][g] \in {d[g], 0}
    BY DEF Dts
  <1> QED BY <1>1, <1>2 DEF Shrinks, ClosePartial, InbReject, Opened

LEMMA TidiedShrinks ==
    ASSUME NEW d \in Dts, NEW r, r.in \in Files \cup {NoFile}
    PROVE  Shrinks(d, Tidied(d, r))
  <1>1. Shrinks(d, d) /\ Shrinks(d, ClosePartial(d, r.in))
    BY CloseShrinks
  <1>2. Shrinks(d, [f \in Files |-> Absent])
    BY DEF Shrinks
  <1> QED BY <1>1, <1>2 DEF Tidied

LEMMA CompleteShrinks ==
    ASSUME TypeOK, mode = "nd", NEW d \in Dts
    PROVE  /\ Shrinks(d, CompleteDt(d))
           /\ rcv.complete # NoFile => CompleteDt(d)[rcv.complete] = Absent
  <1>1. rcv.complete \in Files \cup {NoFile} /\ we_nd
    BY DEF TypeOK, RcvStates, we_nd
  <1>2. \A g \in Files : CompleteDt(d)[g] \in {d[g], Absent}
    BY <1>1 DEF Dts, CompleteDt
  <1>3. rcv.complete # NoFile => CompleteDt(d)[rcv.complete] = Absent
    BY <1>1 DEF Dts, CompleteDt
  <1> QED BY <1>2, <1>3 DEF Shrinks

LEMMA RecvShrinks ==
    ASSUME TypeOK, mode = "nd", start_file_recv
    PROVE  /\ Shrinks(dt, dt')
           /\ rcv.complete # NoFile => dt'[rcv.complete] \in {Absent, 0}
  <1> DEFINE m == Head(s2r)
             other == rcv.in # m.f
             e == IF other THEN ClosePartial(dt, rcv.in) ELSE dt
             d == CompleteDt(e)
             r == CompleteRcv([Heard EXCEPT !.in = IF other THEN NoFile ELSE @,
                                            !.theyNR = @ \/ m.off = -1])
  <1>1. /\ dt \in Dts /\ rcv.in \in Files \cup {NoFile} /\ rcv.complete \in Files \cup {NoFile}
    BY DEF TypeOK, RcvStates, Dts
  <1>2. e \in Dts /\ Shrinks(dt, e)
    BY <1>1, CloseShrinks, ClosePartialType
  <1> HIDE DEF e
  <1>3. /\ d \in Dts /\ Shrinks(e, d)
        /\ rcv.complete # NoFile => d[rcv.complete] = Absent
    BY <1>2, CompleteShrinks, CompleteDtType
  <1>4. dt' \in {d, Opened(d, m.f)}
    <2>1. RecvFrom(m, d, r) => dt' = d
      BY DEF RecvFrom
    <2>2. RecvOpen(m, d, r) => dt' \in {d, Opened(d, m.f)}
      BY DEF RecvOpen, RecvFrom
    <2>3. Ruled(m, d, r) => dt' = d
      BY DEF Ruled
    <2> QED BY <2>1, <2>2, <2>3 DEF start_file_recv, d, e
  <1> HIDE DEF d
  <1>5. m.f \in Files
    <2>1. s2r # <<>> /\ m.t = "FILE" /\ s2r \in Seq(Commands)
      BY DEF start_file_recv, ReceiverReads, TypeOK
    <2>2. m \in Commands
      BY <2>1, TailIndex
    <2> QED BY <2>1, <2>2, CommandFields
  <1>6. Shrinks(d, dt')
    BY <1>3, <1>4, <1>5, CloseShrinks
  <1>7. Shrinks(dt, dt')
    BY <1>2, <1>3, <1>6, ShrinksTrans
  <1> QED BY <1>1, <1>3, <1>6, <1>7 DEF Shrinks

(* inb_done of the file in_complete. *)
LEMMA RenamedOnce ==
    ASSUME TypeOK, mode = "nd", CompleteDone
    PROVE  /\ \A g \in Files : g # rcv.complete => delivered'[g] = delivered[g]
           /\ rcv.complete # NoFile /\ delivered[rcv.complete] = 0 => delivered'[rcv.complete] = 1
           /\ rcv.complete = NoFile => delivered' = delivered
  <1>1. /\ delivered \in [Files -> Nat] /\ rcv.complete \in Files \cup {NoFile} /\ we_nd
    BY DEF TypeOK, RcvStates, we_nd
  <1>2. CASE rcv.complete # NoFile
    <2>1. delivered' = [delivered EXCEPT ![rcv.complete] = Renamed(@)]
      BY <1>1, <1>2 DEF CompleteDone, InbDone
    <2> QED BY <1>1, <1>2, <2>1 DEF Renamed
  <1>3. CASE rcv.complete = NoFile
    BY <1>3 DEF CompleteDone
  <1> QED BY <1>2, <1>3

(* The receiver reads an M_FILE or an M_EOB, and has the file in_complete  *)
(* renamed.                                                                *)
LEMMA RenamingNew ==
    ASSUME Single, IInv, NInv, mode = "nd", UNCHANGED <<spool, stc, snd, mode>>,
           rcv.up, s2r # <<>>, s2r[1].t # "DATA", s2r' = Tail(s2r),
           Shrinks(dt, dt'), rcv.complete # NoFile => dt'[rcv.complete] \in {Absent, 0},
           CompleteDone, rcv'.complete = NoFile, rcv'.skipAll \/ rcv'.skipAll = rcv.skipAll
    PROVE  NInv'
  <1> DEFINE c == rcv.complete
  <1>1. /\ TypeOK /\ s2r \in Seq(Commands) /\ c \in Files \cup {NoFile} /\ NoFile \notin spool
        /\ NoFile \notin Files
    BY FilesAssumption DEF IInv, TypeOK, RcvStates
  <1>2. CASE c = NoFile
    <2>1. delivered' = delivered
      BY <1>1, <1>2, RenamedOnce
    <2>2. Once(spool', dt', delivered')
      BY <2>1, OnceShrinks DEF NInv
    <2>3. Live(s2r', spool', delivered', snd', rcv')
      <3> SUFFICES ASSUME rcv'.up, ~rcv'.skipAll
                   PROVE  /\ NewBlocks(s2r', delivered', rcv') /\ Renames(s2r', spool', rcv')
                          /\ snd'.up => Owned(spool', snd')
                                        /\ Undelivered(spool', delivered', snd', rcv')
        BY DEF Live
      <3>1. /\ NewBlocks(s2r, delivered, rcv) /\ Renames(s2r, spool, rcv)
            /\ snd.up => Owned(spool, snd) /\ Undelivered(spool, delivered, snd, rcv)
        BY DEF NInv, Live
      <3>2. NewBlocks(Tail(s2r), delivered, rcv) /\ Renames(Tail(s2r), spool, rcv)
        BY <1>1, <3>1, CommandRead
      <3>3. NewBlocks(Tail(s2r), delivered, rcv') /\ Renames(Tail(s2r), spool, rcv')
        BY <1>2, <3>2 DEF NewBlocks, NewBlock, Renames
      <3>4. snd.up => Owned(spool, snd) /\ Undelivered(spool, delivered, snd, rcv')
        BY <1>2, <3>1 DEF Undelivered
      <3> QED BY <2>1, <3>3, <3>4
    <2> QED BY <2>2, <2>3 DEF NInv
  <1>3. CASE c # NoFile
    <2>1. ~rcv.skipAll
      BY <1>3 DEF NInv
    <2>2. /\ NewBlocks(s2r, delivered, rcv) /\ Renames(s2r, spool, rcv)
          /\ snd.up => Owned(spool, snd) /\ Undelivered(spool, delivered, snd, rcv)
      BY <2>1 DEF NInv, Live
    <2>3. /\ NewBlocks(Tail(s2r), delivered, rcv) /\ Renames(Tail(s2r), spool, rcv)
          /\ c \notin spool
      BY <1>1, <2>2, CommandRead
    <2>4. delivered[c] = 0
      <3>1. dt[c] > 0
        BY <1>1, <1>3 DEF IInv, CompleteHeld, Single
      <3> QED BY <1>1, <1>3, <3>1, SpoolNew
    <2>5. /\ \A g \in Files : g # c => delivered'[g] = delivered[g]
          /\ delivered'[c] = 1
      BY <1>1, <1>3, <2>4, RenamedOnce
    <2>6. Once(spool', dt', delivered')
      <3>1. Once(spool, dt', delivered)
        BY OnceShrinks DEF NInv
      <3>2. ASSUME NEW g \in Files, delivered'[g] > 0
            PROVE  delivered'[g] = 1 /\ g \notin spool /\ dt'[g] \in {Absent, 0}
        BY <1>3, <2>3, <2>5, <3>1, <3>2 DEF Once
      <3> QED BY <3>2 DEF Once
    <2>7. NewBlocks(s2r', delivered', rcv')
      <3>1. ASSUME NEW m, NewBlock(m, delivered, rcv) PROVE NewBlock(m, delivered', rcv')
        BY <1>1, <2>5, <3>1 DEF NewBlock
      <3> QED BY <2>3, <3>1 DEF NewBlocks
    <2>8. Renames(s2r', spool', rcv')
      BY <1>1 DEF Renames
    <2>9. snd'.up => Owned(spool', snd') /\ Undelivered(spool', delivered', snd', rcv')
      BY <1>1, <1>3, <2>2 DEF Undelivered
    <2> QED BY <2>6, <2>7, <2>8, <2>9 DEF NInv, Live
  <1> QED BY <1>2, <1>3

LEMMA RecvNew ==
    ASSUME Single, IInv, DInv, NInv, mode = "nd", start_file_recv
    PROVE  NInv'
  <1>1. /\ TypeOK /\ we_nd /\ UNCHANGED <<spool, stc>> /\ rcv.up /\ CompleteDone
    BY DEF IInv, we_nd, start_file_recv, ReceiverReads
  <1>2. /\ s2r # <<>> /\ s2r[1].t = "FILE" /\ s2r' = Tail(s2r) /\ UNCHANGED <<mode, snd>>
        /\ rcv'.complete = NoFile /\ (rcv'.skipAll \/ rcv'.skipAll = rcv.skipAll)
    BY <1>1, RecvFields
  <1>3. s2r[1].t # "DATA"
    BY <1>2
  <1> QED BY <1>1, <1>2, <1>3, RecvShrinks, RenamingNew

LEMMA EOBNew ==
    ASSUME Single, IInv, NInv, mode = "nd", ReceiverEOB
    PROVE  NInv'
  <1>1. /\ TypeOK /\ we_nd /\ UNCHANGED <<spool, stc, snd, mode>> /\ rcv.up /\ CompleteDone
        /\ s2r # <<>> /\ Head(s2r).t = "EOB" /\ s2r' = Tail(s2r) /\ s2r \in Seq(Commands)
    BY DEF IInv, TypeOK, we_nd, ReceiverEOB, ReceiverReads
  <1>2. s2r[1].t # "DATA"
    BY <1>1, TailIndex
  <1> DEFINE r == AtEOB
             e == Interrupted(dt, rcv)
  <1>3. rcv'.complete = NoFile /\ rcv'.skipAll = rcv.skipAll
    <2>1. Heard \in RcvStates /\ Heard.skipAll = rcv.skipAll
      BY <1>1, HeardFields
    <2>2. r \in RcvStates /\ r.skipAll = rcv.skipAll
      BY <2>1 DEF RcvStates, AtEOB
    <2>3. rcv' = [r EXCEPT !.complete = NoFile]
      BY <1>1 DEF ReceiverEOB, CompleteRcv
    <2> HIDE DEF r
    <2> QED BY <2>2, <2>3 DEF RcvStates
  <1>4. dt \in Dts /\ rcv.in \in Files \cup {NoFile}
    BY <1>1 DEF TypeOK, RcvStates, Dts
  <1>5. e \in Dts /\ Shrinks(dt, e)
    BY <1>4, CloseShrinks, ClosePartialType, DtTypes DEF Interrupted
  <1> HIDE DEF e
  <1>6. dt' = CompleteDt(e)
    BY DEF ReceiverEOB, e
  <1>7. /\ Shrinks(dt, dt')
        /\ rcv.complete # NoFile => dt'[rcv.complete] \in {Absent, 0}
    BY <1>1, <1>5, <1>6, CompleteShrinks, ShrinksTrans
  <1> QED BY <1>1, <1>2, <1>3, <1>7, RenamingNew

(* A step that the receiver's place in the session does not depend on. *)
LEMMA IdleNew ==
    ASSUME NInv, UNCHANGED <<spool, stc, snd, mode, delivered>>, s2r' = s2r \/ ~rcv'.up,
           Once(spool, dt', delivered) \/ mode # "nd",
           rcv'.up => rcv.up, rcv'.skipAll => rcv.skipAll /\ rcv'.complete = rcv.complete,
           rcv'.up => rcv'.skipAll = rcv.skipAll /\ rcv'.complete = rcv.complete
    PROVE  NInv'
  <1>1. CASE mode # "nd"
    BY <1>1 DEF NInv
  <1>2. CASE mode = "nd" /\ ~rcv'.up
    BY <1>2 DEF NInv, Live
  <1>3. CASE mode = "nd" /\ rcv'.up
    <2>1. /\ s2r' = s2r /\ rcv.up /\ rcv'.complete = rcv.complete /\ rcv'.skipAll = rcv.skipAll
          /\ Live(s2r, spool, delivered, snd, rcv)
      BY <1>3 DEF NInv
    <2>2. Live(s2r', spool', delivered', snd', rcv')
      <3> SUFFICES ASSUME ~rcv'.skipAll
                   PROVE  /\ NewBlocks(s2r', delivered', rcv') /\ Renames(s2r', spool', rcv')
                          /\ snd'.up => Owned(spool', snd')
                                        /\ Undelivered(spool', delivered', snd', rcv')
        BY DEF Live
      <3>1. /\ NewBlocks(s2r, delivered, rcv) /\ Renames(s2r, spool, rcv)
            /\ snd.up => Owned(spool, snd) /\ Undelivered(spool, delivered, snd, rcv)
        BY <2>1 DEF Live
      <3>2. NewBlocks(s2r, delivered, rcv') /\ Renames(s2r, spool, rcv')
        BY <2>1, <3>1 DEF NewBlocks, NewBlock, Renames
      <3>3. snd.up => Undelivered(spool, delivered, snd, rcv')
        BY <2>1, <3>1 DEF Undelivered
      <3> QED BY <2>1, <3>1, <3>2, <3>3
    <2> QED BY <1>3, <2>1, <2>2 DEF NInv
  <1> QED BY <1>1, <1>2, <1>3

(* A block comes to the file that is open: it is one that is not delivered,*)
(* and the last block of it is the last frame there is.                    *)
LEMMA DataNew ==
    ASSUME Single, IInv, DInv, NInv, mode = "nd", RecvData
    PROVE  NInv'
  <1> DEFINE f == rcv.in
             m == s2r[1]
             len == dt[f] + m.n
  <1>1. /\ TypeOK /\ we_nd /\ UNCHANGED <<spool, stc, snd, mode>> /\ rcv.up
        /\ s2r # <<>> /\ Head(s2r).t = "DATA" /\ s2r \in Seq(Commands) /\ rcv \in RcvStates
    BY DEF IInv, TypeOK, we_nd, RecvData, ReceiverReads
  <1>2. m = Head(s2r) /\ m \in Commands /\ m.t = "DATA" /\ 1 \in 1..Len(s2r)
    BY <1>1, TailIndex
  <1>3. ASSUME Live(s2r, spool, delivered, snd, rcv), s2r' = Tail(s2r), rcv' = rcv,
               delivered' = delivered
        PROVE  Live(s2r', spool', delivered', snd', rcv')
    <2>1. ASSUME NewBlocks(s2r, delivered, rcv), Renames(s2r, spool, rcv)
          PROVE  NewBlocks(Tail(s2r), delivered, rcv) /\ Renames(Tail(s2r), spool, rcv)
      BY <1>1, <2>1, CommandRead
    <2> QED BY <1>1, <1>3, <2>1 DEF Live
  <1>4. CASE f = NoFile
    <2>1. s2r' = Tail(s2r) /\ UNCHANGED <<dt, inbound, delivered, r2s, rcv>>
      BY <1>4 DEF RecvData
    <2> QED BY <1>1, <1>3, <2>1 DEF NInv
  <1>5. CASE f # NoFile
    <2>1. /\ ~rcv.skipAll /\ f \in Files /\ dt[f] \in Nat /\ rcv.complete = NoFile
          /\ dt \in Dts
      BY <1>1, <1>5 DEF DInv, IInv, InOpen, CompleteHeld, RcvStates, TypeOK, Dts
    <2>2. m.f = f /\ m.off = dt[f] /\ m.n \in {0, 1} /\ Size[f] \in Nat
      BY <1>1, <1>2, <1>5, <2>1, DInvBelongs, CommandFields, FilesAssumption DEF DataBelongs
    <2>3. /\ NewBlocks(s2r, delivered, rcv) /\ Renames(s2r, spool, rcv)
          /\ snd.up => Owned(spool, snd) /\ Undelivered(spool, delivered, snd, rcv)
      BY <1>1, <2>1 DEF NInv, Live
    <2>4. delivered[f] = 0 /\ (Final(m) => Tail(s2r) = <<>>)
      BY <1>1, <1>2, <2>1, <2>2, <2>3, CommandRead DEF NewBlock
    <2>5. ASSUME NEW x PROVE Once(spool, [dt EXCEPT ![f] = x], delivered)
      <3>1. \A g \in Files : g # f => [dt EXCEPT ![f] = x][g] = dt[g]
        BY <2>1 DEF Dts
      <3>2. ~(delivered[f] > 0)
        BY <2>4
      <3> QED BY <3>1, <3>2 DEF NInv, Once
    <2>6. CASE len < Size[f]
      <3>1. /\ dt' = [dt EXCEPT ![f] = len] /\ s2r' = Tail(s2r)
            /\ UNCHANGED <<inbound, delivered, r2s, rcv>>
        BY <1>2, <1>5, <2>1, <2>2, <2>6 DEF RecvData
      <3>2. Live(s2r', spool', delivered', snd', rcv')
        BY <1>3, <3>1 DEF NInv
      <3> QED BY <1>1, <2>5, <3>1, <3>2 DEF NInv
    <2>7. CASE len = Size[f]
      <3>1. FileComplete(f) /\ s2r' = Tail(s2r)
        BY <1>2, <1>5, <2>1, <2>2, <2>7 DEF RecvData
      <3>2. /\ dt' = [dt EXCEPT ![f] = Size[f]] /\ delivered' = delivered
            /\ rcv' = OneMore([rcv EXCEPT !.in = NoFile, !.complete = f])
        BY <1>1, <3>1 DEF FileComplete
      <3>3. rcv'.complete = f /\ rcv'.skipAll = rcv.skipAll /\ rcv'.up = rcv.up
        BY <1>1, <3>2 DEF RcvStates, OneMore
      <3>4. Final(m)
        BY <2>2, <2>7 DEF Final
      <3>5. NewBlocks(s2r', delivered', rcv') /\ Renames(s2r', spool', rcv')
        BY <2>4, <3>1, <3>4, NoFramesLive
      <3>6. ASSUME snd.up PROVE Undelivered(spool, delivered, snd, rcv')
        <4>1. Paced
          BY <1>1, <2>1, <3>6 DEF Paced
        <4>2. /\ InTransfer(snd) \/ snd.waitGOT
              /\ f \in {snd.out} \cup snd.sent /\ snd.waitGOT /\ ~snd.sendEof
              /\ OneAtATime(snd)
          BY <1>2, <2>2, <3>4, <4>1, StopParts DEF Blocks
        <4>3. f \in spool => f \in snd.sent
          <5>1. ASSUME f = snd.out PROVE f \notin spool
            <6>1. IsStatus(snd)
              BY <1>5, <4>2, <5>1 DEF OneAtATime, InTransfer, IsStatus
            <6> QED BY <5>1, <6>1 DEF NInv, StcLeft
          <5> QED BY <4>2, <5>1
        <4> QED BY <3>3, <4>2, <4>3 DEF Undelivered
      <3>7. Live(s2r', spool', delivered', snd', rcv')
        BY <1>1, <2>3, <3>2, <3>5, <3>6 DEF Live
      <3> QED BY <1>1, <2>1, <2>5, <3>2, <3>3, <3>7 DEF NInv
    <2>8. CASE len > Size[f]
      <3>1. /\ dt' = ClosePartial([dt EXCEPT ![f] = len], f) /\ ReceiverQuits
            /\ delivered' = delivered
        BY <1>2, <1>5, <2>1, <2>2, <2>8 DEF RecvData
      <3>2. [dt EXCEPT ![f] = len] \in Dts
        BY <2>1, <2>2 DEF Dts
      <3>3. Once(spool, dt', delivered)
        BY <2>1, <2>5, <3>1, <3>2, CloseShrinks, OnceShrinks
      <3>4. ~rcv'.up /\ ~rcv'.skipAll
        BY <3>1 DEF ReceiverQuits, RDown, RcvInit
      <3> QED BY <1>1, <3>1, <3>3, <3>4, IdleNew
    <2>9. len \in Nat /\ Size[f] \in Nat
      BY <2>1, <2>2
    <2>10. len < Size[f] \/ len = Size[f] \/ len > Size[f]
      BY <2>9
    <2> HIDE DEF len
    <2> QED BY <2>6, <2>7, <2>8, <2>10
  <1> QED BY <1>4, <1>5

LEMMA RestNew ==
    ASSUME Single, IInv, NInv, ReceiverSendEOB \/ ReceiverEndBatch \/ ReceiverDrop
                               \/ ReceiverCrash \/ InbDoneFails
    PROVE  NInv'
  <1>1. /\ TypeOK /\ UNCHANGED <<spool, stc, snd, mode, delivered>> /\ rcv.up /\ rcv \in RcvStates
    BY DEF IInv, TypeOK, ReceiverSendEOB, ReceiverEndBatch, ReceiverDrop, ReceiverCrash,
           InbDoneFails, ReceiverReads
  <1>2. dt \in Dts /\ rcv.in \in Files \cup {NoFile}
    BY <1>1 DEF TypeOK, RcvStates, Dts
  <1>3. ~RDown.up /\ ~RDown.skipAll
    BY DEF RDown, RcvInit
  <1>4. CASE mode # "nd"
    BY <1>1, <1>4 DEF NInv
  <1>5. ASSUME mode = "nd", rcv' = RDown, Shrinks(dt, dt') PROVE NInv'
    <2>1. Once(spool, dt', delivered)
      BY <1>5, OnceShrinks DEF NInv
    <2> QED BY <1>1, <1>3, <1>5, <2>1, IdleNew
  <1>6. ASSUME mode = "nd", dt' = dt, s2r' = s2r, rcv'.up = rcv.up,
               rcv'.skipAll = rcv.skipAll, rcv'.complete = rcv.complete
        PROVE  NInv'
    BY <1>1, <1>6, IdleNew DEF NInv
  <1>7. CASE mode = "nd" /\ ReceiverSendEOB
    <2>1. rcv' = OneMore([rcv EXCEPT !.eob = TRUE]) /\ dt' = dt /\ s2r' = s2r
      BY <1>7 DEF ReceiverSendEOB
    <2>2. rcv'.up = rcv.up /\ rcv'.skipAll = rcv.skipAll /\ rcv'.complete = rcv.complete
      BY <1>1, <2>1 DEF RcvStates, OneMore
    <2> QED BY <1>6, <1>7, <2>1, <2>2
  <1>8. CASE mode = "nd" /\ ReceiverEndBatch /\ rcv.msgs <= 2
    <2>1. rcv' = RDown /\ dt' = Tidied(dt, rcv)
      BY <1>8 DEF ReceiverEndBatch, ReceiverQuits
    <2>2. Shrinks(dt, dt')
      BY <1>2, <2>1, TidiedShrinks
    <2> QED BY <1>5, <1>8, <2>1, <2>2
  <1>9. CASE mode = "nd" /\ ReceiverEndBatch /\ ~(rcv.msgs <= 2)
    <2>1. /\ rcv' = [rcv EXCEPT !.msgs = 0, !.eob = FALSE, !.reob = FALSE]
          /\ dt' = dt /\ s2r' = s2r
      BY <1>9 DEF ReceiverEndBatch
    <2>2. rcv'.up = rcv.up /\ rcv'.skipAll = rcv.skipAll /\ rcv'.complete = rcv.complete
      BY <1>1, <2>1 DEF RcvStates
    <2> QED BY <1>6, <1>9, <2>1, <2>2
  <1>10. CASE mode = "nd" /\ (ReceiverDrop \/ ReceiverCrash \/ InbDoneFails)
    <2>1. rcv' = RDown
      BY <1>10 DEF ReceiverDrop, ReceiverCrash, InbDoneFails, ReceiverQuits
    <2>2. dt' \in {dt, Tidied(dt, rcv), Tidied(Interrupted(dt, rcv), AtEOB)}
      BY <1>10 DEF ReceiverDrop, ReceiverCrash, InbDoneFails, we_nd
    <2>3. Shrinks(dt, dt) /\ Shrinks(dt, Tidied(dt, rcv))
      BY <1>2, TidiedShrinks, CloseShrinks
    <2>4. Shrinks(dt, Tidied(Interrupted(dt, rcv), AtEOB))
      <3>1. Interrupted(dt, rcv) \in Dts /\ Shrinks(dt, Interrupted(dt, rcv))
        BY <1>2, CloseShrinks, ClosePartialType, DtTypes DEF Interrupted
      <3>2. AtEOB.in = NoFile
        BY <1>1, ReadType DEF AtEOB, RcvStates
      <3> QED BY <3>1, <3>2, TidiedShrinks, ShrinksTrans
    <2>5. Shrinks(dt, dt')
      BY <2>2, <2>3, <2>4
    <2> QED BY <1>5, <1>10, <2>1, <2>5
  <1> QED BY <1>4, <1>7, <1>8, <1>9, <1>10

-----------------------------------------------------------------------------
(*                            The theorem                                  *)

LEMMA ConnectNew ==
    ASSUME Single, IInv, NInv, Connect
    PROVE  NInv'
  <1>1. /\ mode' \in NextModes[mode] /\ snd' = SndInit(TRUE)
        /\ s2r' = <<>> /\ UNCHANGED <<spool, stc, dt, delivered>>
    BY DEF Connect, disks
  <1>2. mode' = "nd" => mode = "nd"
    BY <1>1 DEF Single, IInv, TypeOK
  <1>3. CASE mode = "nd"
    <2>1. NoFile \notin spool
      BY FilesAssumption DEF IInv, TypeOK
    <2>2. /\ snd'.q = spool /\ snd'.qs = stc /\ snd'.out = NoFile /\ snd'.sent = {}
          /\ ~snd'.sendEof
      BY <1>1 DEF SndInit
    <2>3. rcv'.complete = NoFile /\ ~rcv'.skipAll
      BY DEF Connect, RcvInit
    <2>4. Once(spool', dt', delivered') /\ StcLeft(spool', stc', snd')
      BY <1>1, <1>3, <2>2 DEF NInv, StcLeft, IsStatus
    <2>5. Owned(spool', snd') /\ Undelivered(spool', delivered', snd', rcv')
      BY <1>1, <2>1, <2>2, <2>3 DEF Owned, Undelivered, InTransfer
    <2>6. Live(s2r', spool', delivered', snd', rcv')
      BY <1>1, <2>5, NoFramesLive DEF Live
    <2> QED BY <2>3, <2>4, <2>6 DEF NInv
  <1>4. CASE mode # "nd"
    BY <1>2, <1>4 DEF NInv
  <1> QED BY <1>3, <1>4

LEMMA InitNInv == Init => NInv
  <1> SUFFICES ASSUME Init PROVE NInv
    OBVIOUS
  <1>1. /\ delivered = [f \in Files |-> 0] /\ spool = Files /\ stc = NoFile
        /\ snd = Down /\ rcv = RDown
    BY DEF Init
  <1>2. ~rcv.up /\ ~rcv.skipAll
    BY <1>1 DEF RDown, RcvInit
  <1>3. Once(spool, dt, delivered)
    BY <1>1 DEF Once
  <1>4. StcLeft(spool, stc, snd)
    BY <1>1, DownStatus, FilesAssumption DEF StcLeft
  <1> QED BY <1>2, <1>3, <1>4 DEF NInv, Live

LEMMA NextNInv == Single /\ IInv /\ DInv /\ NInv /\ [Next]_vars => NInv'
  <1> SUFFICES ASSUME Single, IInv, DInv, NInv, [Next]_vars PROVE NInv'
    OBVIOUS
  <1>1. CASE SenderNext
    BY <1>1, SenderNew
  <1>2. CASE ReceiverNext
    <2>1. CASE mode = "nd"
      BY <1>2, <2>1, RecvNew, EOBNew, DataNew, RestNew DEF ReceiverNext
    <2>2. CASE mode # "nd"
      <3>1. mode' = mode
        BY <1>2 DEF ReceiverNext, start_file_recv, RecvData, ReceiverEOB, ReceiverSendEOB,
           ReceiverEndBatch, ReceiverDrop, ReceiverCrash, InbDoneFails
      <3> QED BY <2>2, <3>1 DEF NInv
    <2> QED BY <2>1, <2>2
  <1>3. CASE Connect
    BY <1>3, ConnectNew
  <1>4. CASE Toss
    BY <1>4 DEF Toss, NInv
  <1>5. CASE UNCHANGED vars
    BY <1>5 DEF vars, NInv
  <1> QED BY <1>1, <1>2, <1>3, <1>4, <1>5 DEF Next

LEMMA NInvNoDup == IInv /\ NInv => NoDup
  <1> SUFFICES ASSUME IInv, NInv, we_nd, NEW f \in Files PROVE delivered[f] <= 1
    BY DEF NoDup
  <1>1. delivered[f] \in Nat /\ (delivered[f] > 0 => delivered[f] = 1)
    BY DEF IInv, TypeOK, NInv, Once, we_nd
  <1> QED BY <1>1

(* A link that keeps to ND mode delivers no file twice, with sessions      *)
(* broken between any two steps, inbounds that fill up, an .stc that cannot*)
(* be written and renames that fail ("no dupes", doc/nd-mode-ru.txt; GOT,  *)
(* ND_set_status, GET, start_file_recv).                                   *)
THEOREM DeliveredOnce ==
    ASSUME Single
    PROVE  Spec => []NoDup
  <1>1. Init => TInv /\ NInv
    BY InitTInv, InitNInv
  <1>2. TInv /\ NInv /\ [Next]_vars => (TInv /\ NInv)'
    BY NextTInv, NextNInv DEF TInv
  <1>3. TInv /\ NInv => NoDup
    BY NInvNoDup DEF TInv
  <1> QED BY <1>1, <1>2, <1>3, PTL DEF Spec
=============================================================================
