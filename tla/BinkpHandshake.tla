--------------------------- MODULE BinkpHandshake ---------------------------
(***************************************************************************)
(* The start of a binkp session in protocol.c: init_protocol, banner, NUL, *)
(* ADR with its busy flags, PWD, OK, complete_login, and deinit_protocol.  *)
(* Two nodes set up one or more connections; each has a calling end "o"    *)
(* (state->to is set) and an answering end "a".  Both ends run the same    *)
(* program, so a frame that only another mailer would send (a second       *)
(* M_PWD, an unparsable address) is not generated.                         *)
(*                                                                         *)
(* The addresses of M_ADR are locked one after the other, and every other  *)
(* session of the node may run between two of them.                        *)
(***************************************************************************)
EXTENDS Integers, Sequences, FiniteSets

LOCAL INSTANCE SequencesExt

CONSTANTS
    Calls,      \* the connections
    Nodes,      \* the machines
    Caller,     \* Caller[c], Called[c]: the nodes of call c
    Called,
    To,         \* To[c]: the address the caller wants (state->to->fa)
    Addresses,  \* the addresses that parse, shared ones included
    Passwords,  \* proper passwords, without "-", "!" and ""
    Confs,      \* the configurations [Nodes -> Conf] to start from
    MayBreak,   \* connections may fail, servers be too many
    Tossed      \* the <<node, address>> that other programs lock, too

ASSUME CallsAssumption ==
    /\ Caller \in [Calls -> Nodes] /\ Called \in [Calls -> Nodes]
    /\ To \in [Calls -> Addresses]
    /\ Passwords \cap {"-", "!", ""} = {}
    /\ MayBreak \in BOOLEAN /\ Tossed \subseteq Nodes \X Addresses

Sides == {"o", "a"}
Other(s) == IF s = "o" THEN "a" ELSE "o"
NodeOf(c, s) == IF s = "o" THEN Caller[c] ELSE Called[c]

(* A node's entry in the configuration.  ip is what the -ip check of this  *)
(* address comes to: it is off, the addresses match, they differ (or do    *)
(* not resolve and the check is strict), or nothing could be said.         *)
Pwd   == Passwords \cup {"-", "!"}
Entry == [pwd : Pwd, out_pwd : Pwd, nr : BOOLEAN, nd : BOOLEAN,
          md : {-1, 0, 1}, ip : {"off", "match", "bad", "unsure"}]
Share == [sha : Addresses, sfa : SUBSET Addresses]
Nowhere == "nowhere"
BadAddress == "no address"       \* what another mailer may announce

IsConf(cf) ==
    /\ DOMAIN cf.node \subseteq Addresses
    /\ \A a \in DOMAIN cf.node : cf.node[a] \in Entry
    /\ cf.no_MD5 \in BOOLEAN /\ cf.no_crypt \in BOOLEAN /\ cf.delay_ADR \in BOOLEAN
    /\ cf.old \in BOOLEAN                      \* announces a version with NR bug
    /\ cf.partials \subseteq Addresses         \* senders of the .hr files kept
    /\ cf.remote_fa \in Addresses \cup {Nowhere}   \* of the command line
    /\ cf.shares \in Seq(Share)
    /\ cf.akas \in Seq(Addresses \cup {BadAddress})   \* after hide and present

(* Every caller has an entry for the node it calls *)
Configured(cf) ==
    /\ DOMAIN cf = Nodes
    /\ \A n \in Nodes : IsConf(cf[n])
    /\ \A c \in Calls : To[c] \in DOMAIN cf[Caller[c]].node

ASSUME ConfsAssumption == \A cf \in Confs : Configured(cf)

VARIABLES
    conf,   \* conf[n]: the configuration of node n; it does not change
    end,    \* end[c][s]: the STATE of end s of call c
    net,    \* net[c][s]: the frames on their way to that end
    bsy     \* bsy[n][a]: the owner of the .bsy of address a at node n

vars == <<conf, end, net, bsy>>

(* Who created a flag: end s of call c, another program, or nobody *)
Owner(c, s) == <<c, s>>
Free   == <<"free">>
Tosser == <<"other program">>

(* Frames and keys *)
Plain == <<"plain">>
VER(old)      == [t |-> "VER", old |-> old, key |-> Plain]
OPT(words)    == [t |-> "OPT", w |-> words, key |-> Plain]
M_ADR(akas)   == [t |-> "ADR", a |-> akas, key |-> Plain]
M_PWD(md, p)  == [t |-> "PWD", md |-> md, p |-> p, key |-> Plain]
M_OK(secure)  == [t |-> "OK", secure |-> secure, key |-> Plain]
M_ERR  == [t |-> "ERR", key |-> Plain]
M_BSY  == [t |-> "BSY", key |-> Plain]
EOF    == [t |-> "EOF", key |-> Plain]
First(key) == [t |-> "FIRST", key |-> key]   \* the first frame after the login

Me(c)    == conf[Caller[c]].node[To[c]]        \* state->to
Known(c, s, a) == a \in DOMAIN conf[NodeOf(c, s)].node
Pn(c, s, a)    == conf[NodeOf(c, s)].node[a]

(***************************************************************************)
(* init_protocol                                                           *)
(***************************************************************************)
init_protocol(c, s) ==
    [pc |-> "new", state |-> "NULL", ext |-> "NA",
     NR |-> IF s = "o" /\ (Me(c).nr \/ Me(c).nd) THEN {"WANT"} ELSE {},
     ND |-> IF s = "o" /\ Me(c).nd THEN {"THEY"} ELSE {},
     MD |-> 0, chal |-> FALSE, buggy |-> FALSE,
     crypt |-> IF conf[NodeOf(c, s)].no_crypt THEN {} ELSE {"WE"},
     epwd |-> "-", fa |-> {},
     todo |-> <<>>, ipv |-> 0, main |-> FALSE, asks |-> {},   \* locals of ADR
     key_in |-> Plain, key_out |-> Plain, sent |-> FALSE, heard |-> "nothing"]

Init ==
    /\ conf \in Confs
    /\ end = [c \in Calls |-> [s \in Sides |-> init_protocol(c, s)]]
    /\ net = [c \in Calls |-> [s \in Sides |-> <<>>]]
    /\ bsy = [n \in Nodes |-> [a \in Addresses |-> Free]]

(* The handler has read its frame: the end becomes e and answers ms *)
Reads(c, s, t) ==
    /\ end[c][s].pc = "up"
    /\ net[c][s] # <<>> /\ Head(net[c][s]).t = t

Becomes(c, s, e) == end' = [end EXCEPT ![c][s] = e]

Answers(c, s, ms) ==
    net' = [net EXCEPT ![c][s] = Tail(@), ![c][Other(s)] = @ \o ms]

Sends(c, s, ms) == net' = [net EXCEPT ![c][Other(s)] = @ \o ms]

(* A handler returns 0: protocol() purges the input, sends what is queued  *)
(* and closes; deinit_protocol removes the flags of every fa by their name *)
QuitKeepsFlags(c, s, ms) ==
    /\ Becomes(c, s, [end[c][s] EXCEPT !.pc = "closed", !.fa = {}, !.todo = <<>>])
    /\ net' = [net EXCEPT ![c][s] = <<>>, ![c][Other(s)] = (@ \o ms) \o <<EOF>>]
    /\ UNCHANGED <<conf, bsy>>
Quit(c, s, ms) ==
    /\ Becomes(c, s, [end[c][s] EXCEPT !.pc = "closed", !.fa = {}, !.todo = <<>>])
    /\ net' = [net EXCEPT ![c][s] = <<>>, ![c][Other(s)] = (@ \o ms) \o <<EOF>>]
    /\ bsy' = [bsy EXCEPT ![NodeOf(c, s)] =
                  [a \in Addresses |-> IF a \in end[c][s].fa THEN Free ELSE @[a]]]
    /\ UNCHANGED conf

(***************************************************************************)
(* banner                                                                  *)
(***************************************************************************)
(* inb_has_partials looks only at the addresses already in state->fa *)
inb_has_partials(c, s, e) ==
    e.fa \cap conf[NodeOf(c, s)].partials # {}

If(cond, word) == IF cond THEN {word} ELSE {}

AutoNR(c, s, e) ==
    IF e.NR = {} /\ inb_has_partials(c, s, e) THEN {"WANT"} ELSE e.NR

BannerOut(c) ==
    LET e  == end[c]["o"]
        nr == AutoNR(c, "o", e)
    IN  /\ Becomes(c, "o", [e EXCEPT !.pc = "up", !.NR = nr])
        /\ Sends(c, "o",
             <<VER(conf[Caller[c]].old), M_ADR(conf[Caller[c]].akas),
               OPT({"NDA"} \cup If("WANT" \in nr, "NR")
                           \cup If("THEY" \in e.ND, "ND")
                           \cup If("WE" \in e.crypt, "CRYPT"))>>)

ADR_now(c) ==
    IF conf[Called[c]].delay_ADR THEN <<>> ELSE <<M_ADR(conf[Called[c]].akas)>>

Challenge(c) == IF conf[Called[c]].no_MD5 THEN <<>> ELSE <<OPT({"CRAM"})>>

BannerIn(c) ==
    LET e == end[c]["a"] IN
        /\ Becomes(c, "a", [e EXCEPT !.pc = "up", !.chal = ~conf[Called[c]].no_MD5])
        /\ Sends(c, "a", (Challenge(c) \o <<VER(conf[Called[c]].old)>>) \o ADR_now(c))

banner(c, s) ==
    /\ end[c][s].pc = "new"
    /\ IF s = "o" THEN BannerOut(c) ELSE BannerIn(c)
    /\ UNCHANGED <<conf, bsy>>

(* n_servers > max_servers is found after the banner was queued *)
TooManyServers(c) ==
    /\ MayBreak
    /\ end[c]["a"].pc = "new"
    /\ Quit(c, "a", ((Challenge(c) \o <<VER(conf[Called[c]].old)>>) \o ADR_now(c))
                        \o <<M_BSY>>)

(***************************************************************************)
(* NUL                                                                     *)
(***************************************************************************)
NUL_VER(c, s) ==
    /\ Reads(c, s, "VER")
    /\ Becomes(c, s, [end[c][s] EXCEPT !.buggy = @ \/ Head(net[c][s]).old])
    /\ Answers(c, s, <<>>)
    /\ UNCHANGED <<conf, bsy>>

NUL_OPT(c, s) ==
    /\ Reads(c, s, "OPT")
    /\ LET w == Head(net[c][s]).w IN
       Becomes(c, s,
           [end[c][s] EXCEPT
               !.NR    = @ \cup If("NR" \in w, "WE"),
               !.ND    = (@ \cup If("ND" \in w, "WE")) \cup If("NDA" \in w, "NDA"),
               !.crypt = @ \cup If("CRYPT" \in w, "THEY"),
               !.chal  = @ \/ /\ "CRAM" \in w /\ s = "o"
                              /\ ~conf[Caller[c]].no_MD5 /\ Me(c).md >= 0])
    /\ Answers(c, s, <<>>)
    /\ UNCHANGED <<conf, bsy>>

(* M_ERR, M_BSY and the end of the connection: the session is over *)
RError(c, s) ==
    /\ \E t \in {"ERR", "BSY", "EOF"} : Reads(c, s, t)
    /\ Quit(c, s, <<>>)

Break(c, s) ==
    /\ MayBreak
    /\ end[c][s].pc = "up"
    /\ Quit(c, s, <<>>)

(***************************************************************************)
(* ADR                                                                     *)
(***************************************************************************)
(* An address that is itself a share is taken out of the list; the shares  *)
(* that an address belongs to are added behind the list, those up to the   *)
(* share with its own name.                                                *)
add_shared_akas(akas, shares) ==
    LET is(a)   == SelectInSeq(shares, LAMBDA h : h.sha = a)     \* 0: no share
        own(a)  == is(a) = 0
        met(a)  == IF own(a) THEN shares ELSE SubSeq(shares, 1, is(a) - 1)
        of(a)   == LET hs == SelectSeq(met(a), LAMBDA h : a \in h.sfa)
                   IN  [i \in DOMAIN hs |-> hs[i].sha]
    IN  SelectSeq(akas, own) \o FlattenSeq([i \in DOMAIN akas |-> of(akas[i])])

ADR(c, s) ==
    /\ Reads(c, s, "ADR")
    /\ LET akas == add_shared_akas(Head(net[c][s]).a, conf[NodeOf(c, s)].shares) IN
       IF akas = <<>>
       THEN Quit(c, s, <<>>)
       ELSE /\ Becomes(c, s, [end[c][s] EXCEPT
                                  !.pc = "adr", !.todo = akas,
                                  !.epwd = IF s = "o" THEN Me(c).out_pwd ELSE @])
            /\ Answers(c, s, <<>>)
            /\ UNCHANGED <<conf, bsy>>

Aka(c, s)   == Head(end[c][s].todo)
InADR(c, s) ==
    /\ end[c][s].pc = "adr" /\ end[c][s].todo # <<>>
    /\ Aka(c, s) \in Addresses          \* parse_ftnaddress, is4D

AdrUnparsable(c, s) ==
    /\ end[c][s].pc = "adr" /\ end[c][s].todo # <<>>
    /\ Aka(c, s) \notin Addresses
    /\ Quit(c, s, <<M_ERR>>)

(* The entry protects the address with a password of its own *)
Protected(c, s, a) == Known(c, s, a) /\ Pn(c, s, a).pwd # "-"

BadIP(c, s) == Known(c, s, Aka(c, s)) /\ Pn(c, s, Aka(c, s)).ip = "bad"

IPVerified(c, s) ==
    LET v == end[c][s].ipv IN
    IF ~Known(c, s, Aka(c, s)) THEN v
    ELSE CASE Pn(c, s, Aka(c, s)).ip = "match"  -> 2
           [] Pn(c, s, Aka(c, s)).ip = "off"    -> 1
           [] Pn(c, s, Aka(c, s)).ip = "bad"    -> IF v = 0 THEN -1 ELSE v
           [] Pn(c, s, Aka(c, s)).ip = "unsure" -> v

(* The password this address brings in; "-" when it brings none *)
AkaPwd(c, s) ==
    IF end[c][s].epwd = "" \/ ~Known(c, s, Aka(c, s)) THEN "-"
    ELSE IF s = "o" THEN Pn(c, s, Aka(c, s)).out_pwd ELSE Pn(c, s, Aka(c, s)).pwd

(* "!" forbids passwords for a node not named on the command line *)
Disabled(c, s) ==
    AkaPwd(c, s) = "!" /\ conf[NodeOf(c, s)].remote_fa # Aka(c, s)

AnyPwd(c, s) == AkaPwd(c, s) = "-"
InconsistentNever(c, s) == FALSE
Inconsistent(c, s) ==
    /\ ~AnyPwd(c, s) /\ AkaPwd(c, s) # "!"
    /\ end[c][s].epwd \notin {"-", "!", AkaPwd(c, s)}

(* state->MD_flag |= pn->MD_flag, on a flag that may be -1 *)
BitOr(x, y) == IF -1 \in {x, y} THEN -1 ELSE IF 1 \in {x, y} THEN 1 ELSE 0

AkaDropped(c, s) == BadIP(c, s) \/ Disabled(c, s) \/ Inconsistent(c, s)

(* Addresses that the session goes on without *)
AdrDrop(c, s) ==
    /\ InADR(c, s) /\ AkaDropped(c, s)
    /\ ~(BadIP(c, s) /\ s = "a" /\ Protected(c, s, Aka(c, s)))
    /\ Becomes(c, s,
         [end[c][s] EXCEPT
             !.todo = Tail(@), !.ipv = IPVerified(c, s),
             !.epwd = IF ~BadIP(c, s) /\ (Disabled(c, s) \/ s = "a") THEN "" ELSE @])
    /\ UNCHANGED <<conf, net, bsy>>

AdrBadIP(c, s) ==
    /\ InADR(c, s) /\ s = "a" /\ BadIP(c, s) /\ Protected(c, s, Aka(c, s))
    /\ Quit(c, s, <<M_ERR>>)

(* The modes the answering side asks for depend on the entries met *)
Asks(c, s) ==
    LET a == Aka(c, s) IN
    IF s = "o" \/ ~Known(c, s, a) THEN {}
    ELSE If(Pn(c, s, a).nd, <<Protected(c, s, a), "ND">>)
         \cup If(Pn(c, s, a).nd \/ Pn(c, s, a).nr, <<Protected(c, s, a), "NR">>)

CheckedKeepsFirst(c, s) ==
    LET e == end[c][s]
        p == AkaPwd(c, s)
    IN  [e EXCEPT
            !.todo = Tail(@), !.ipv = IPVerified(c, s),
            !.asks = @ \cup Asks(c, s),
            !.MD   = IF p # "-" THEN BitOr(@, Pn(c, s, Aka(c, s)).md) ELSE @]
Checked(c, s) ==
    LET e == end[c][s]
        p == AkaPwd(c, s)
    IN  [e EXCEPT
            !.todo = Tail(@), !.ipv = IPVerified(c, s),
            !.asks = @ \cup Asks(c, s),
            !.epwd = IF p # "-" /\ @ \in {"-", "!"} THEN p ELSE @,
            !.MD   = IF p # "-" THEN BitOr(@, Pn(c, s, Aka(c, s)).md) ELSE @]

bsy_add(c, s, a) == [bsy EXCEPT ![NodeOf(c, s)][a] = Owner(c, s)]

BsyNoTest(c, s, a) == bsy[NodeOf(c, s)][a] # Tosser
BsyFree(c, s, a)   == bsy[NodeOf(c, s)][a] = Free

AdrLock(c, s) ==
    /\ InADR(c, s) /\ ~AkaDropped(c, s)
    /\ BsyFree(c, s, Aka(c, s))
    /\ bsy' = bsy_add(c, s, Aka(c, s))
    /\ Becomes(c, s, [Checked(c, s) EXCEPT
                          !.fa = @ \cup {Aka(c, s)},
                          !.main = @ \/ (s = "o" /\ Aka(c, s) = To[c])])
    /\ UNCHANGED <<conf, net>>

AdrBusy(c, s) ==
    /\ InADR(c, s) /\ ~AkaDropped(c, s)
    /\ ~BsyFree(c, s, Aka(c, s))
    /\ IF s = "a" /\ Protected(c, s, Aka(c, s))
       THEN Quit(c, s, <<M_BSY>>)
       ELSE Becomes(c, s, Checked(c, s)) /\ UNCHANGED <<conf, net, bsy>>

(* All addresses are through *)
AdrFails(c, s) ==
    LET e == end[c][s] IN
    /\ e.pc = "adr" /\ e.todo = <<>>
    /\ \/ e.fa = {} /\ Quit(c, s, <<M_BSY>>)
       \/ e.fa # {} /\ s = "o" /\ ~e.main /\ Quit(c, s, <<>>)
       \/ /\ e.fa # {} /\ (s = "o" => e.main) /\ e.ipv < 0
          /\ Quit(c, s, <<M_ERR>>)

AdrOkAnyAka(c, s) ==
    LET e == end[c][s] IN
    /\ e.pc = "adr" /\ e.todo = <<>> /\ e.fa # {} /\ e.ipv >= 0
AdrOk(c, s) ==
    LET e == end[c][s] IN
    /\ e.pc = "adr" /\ e.todo = <<>>
    /\ e.fa # {} /\ (s = "o" => e.main) /\ e.ipv >= 0

DelayedADRLost(c) == <<>>
DelayedADR(c) ==
    IF conf[Called[c]].delay_ADR THEN <<M_ADR(conf[Called[c]].akas)>> ELSE <<>>

AdrDoneIn(c) ==
    LET e      == end[c]["a"]
        secure == e.epwd \notin {"", "-"}
    IN  /\ AdrOk(c, "a")
        /\ Becomes(c, "a",
             [e EXCEPT !.pc = "up", !.asks = {},
                       !.ND = @ \cup If(<<secure, "ND">> \in e.asks, "THEY"),
                       !.NR = @ \cup If(<<secure, "NR">> \in e.asks, "WANT")])
        /\ Sends(c, "a", DelayedADR(c))
        /\ UNCHANGED <<conf, bsy>>

AdrDoneOut(c) ==
    LET e == end[c]["o"] IN
    /\ AdrOk(c, "o")
    /\ IF ~e.chal /\ Me(c).md = 1 /\ ~conf[Caller[c]].no_MD5
       THEN Quit(c, "o", <<>>)
       ELSE /\ Becomes(c, "o", [e EXCEPT !.pc = "up", !.MD = IF e.chal THEN 1 ELSE @])
            /\ Sends(c, "o", <<M_PWD(e.chal, Me(c).out_pwd)>>)
            /\ UNCHANGED <<conf, bsy>>

(***************************************************************************)
(* PWD, OK and complete_login                                              *)
(***************************************************************************)
Both == {"WE", "THEY"}

(* Encryption needs a secure session, a digest and a proper password *)
CryptAllowed(e) == e.state = "SECURE" /\ e.MD # 0 /\ e.epwd # "!"

complete_loginInPwd(c, s, e) ==
    LET yes == e.crypt = Both /\ CryptAllowed(e)
        p   == IF s = "o" THEN Me(c).pwd ELSE e.epwd
    IN  [e EXCEPT
            !.NR      = @ \cup If("WE" \in e.ND, "WE"),
            !.crypt   = IF yes THEN {"YES"} ELSE {},
            !.key_out = IF yes THEN <<s, p>> ELSE Plain,
            !.key_in  = IF yes THEN <<Other(s), p>> ELSE Plain]
complete_login(c, s, e) ==
    LET yes == e.crypt = Both /\ CryptAllowed(e)
        p   == IF s = "o" THEN Me(c).out_pwd ELSE e.epwd
    IN  [e EXCEPT
            !.NR      = @ \cup If("WE" \in e.ND, "WE"),
            !.crypt   = IF yes THEN {"YES"} ELSE {},
            !.key_out = IF yes THEN <<s, p>> ELSE Plain,
            !.key_in  = IF yes THEN <<Other(s), p>> ELSE Plain]

(* m is the M_PWD; a digest is compared with the one of expected_pwd *)
MustMD5(e, m) == e.MD = 1 /\ ~m.md
ByDigest(e, m) == e.MD = 1 \/ (m.md /\ e.chal)
GoodPwd(e, m) ==
    \/ e.epwd = "!"
    \/ e.epwd # "" /\ m.p = e.epwd /\ (IF ByDigest(e, m) THEN e.chal ELSE ~m.md)

(* Without asymmetric ND on the other side ND is for both or for none *)
NegotiateND(e) ==
    IF "NDA" \in e.ND THEN e.ND
    ELSE IF "WE" \in e.ND THEN e.ND \cup {"THEY"} ELSE e.ND \ {"THEY"}

NegotiateNR(c, e) ==
    AutoNR(c, "a", [e EXCEPT !.NR = @ \cup If(e.buggy /\ "WANT" \in @, "WE")])

OptNoNDA(e, crypt) ==
    (If("WANT" \in e.NR, "NR") \cup If("THEY" \in e.ND, "ND")) \cup If(crypt, "CRYPT")
OptWords(e, crypt) ==
    (If("WANT" \in e.NR, "NR") \cup If("THEY" \in e.ND, "ND"))
      \cup (If(("WE" \in e.ND) # ("THEY" \in e.ND), "NDA") \cup If(crypt, "CRYPT"))

PwdAccepted(c, e0, m) ==
    LET noPwd == e0.epwd = "-"
        e1 == [e0 EXCEPT
                  !.state = IF noPwd THEN "NONSECURE" ELSE "SECURE",
                  !.ext   = IF noPwd /\ m.md /\ ~GoodPwd(e0, m) THEN "WE_NONSECURE" ELSE @,
                  !.MD    = IF (noPwd => m.md) /\ ByDigest(e0, m) THEN 1 ELSE @]
        e2 == [e1 EXCEPT !.crypt = IF e1.state = "SECURE" /\ (@ = Both => CryptAllowed(e1))
                                   THEN @ ELSE {},
                         !.ND = NegotiateND(e1)]
        e3 == [e2 EXCEPT !.NR = NegotiateNR(c, e2)]
    IN  /\ Becomes(c, "a", complete_login(c, "a", e3))
        /\ Answers(c, "a", <<OPT(OptWords(e3, e3.crypt = Both)),
                             M_OK(e3.state = "SECURE")>>)
        /\ UNCHANGED <<conf, bsy>>

PWD(c) ==
    /\ Reads(c, "a", "PWD")
    /\ LET e == end[c]["a"]
           m == Head(net[c]["a"])
       IN  IF e.epwd = "-"
           THEN PwdAccepted(c, e, m)
           ELSE IF MustMD5(e, m) \/ ~GoodPwd(e, m)
                THEN Quit(c, "a", <<M_ERR>>)
                ELSE PwdAccepted(c, e, m)

OkStateDeaf(c, m) ==
    [end[c]["o"] EXCEPT
        !.state = IF Me(c).out_pwd # "-" THEN "SECURE" ELSE "NONSECURE",
        !.ND    = IF @ \in {{"WE"}, {"THEY"}} THEN {} ELSE @]
OkState(c, m) ==
    LET e == end[c]["o"]
        s == IF Me(c).out_pwd # "-" THEN "SECURE" ELSE "NONSECURE"
        refused == s = "SECURE" /\ ~m.secure
    IN  [e EXCEPT !.state = s,
                  !.crypt = IF refused THEN {} ELSE @,
                  !.ext   = IF refused THEN "REMOTE_NONSECURE" ELSE @,
                  !.ND    = IF @ \in {{"WE"}, {"THEY"}} THEN {} ELSE @]

OK(c) ==
    /\ Reads(c, "o", "OK")
    /\ Becomes(c, "o", complete_login(c, "o", OkState(c, Head(net[c]["o"]))))
    /\ Answers(c, "o", <<>>)
    /\ UNCHANGED <<conf, bsy>>

(***************************************************************************)
(* What follows the login: msg_send2 encrypts, recv_block decrypts, each   *)
(* end with its own idea of the session                                    *)
(***************************************************************************)
msg_send2(c, s) ==
    /\ end[c][s].pc = "up" /\ end[c][s].state # "NULL" /\ ~end[c][s].sent
    /\ Becomes(c, s, [end[c][s] EXCEPT !.sent = TRUE])
    /\ Sends(c, s, <<First(end[c][s].key_out)>>)
    /\ UNCHANGED <<conf, bsy>>

recv_block(c, s) ==
    /\ Reads(c, s, "FIRST")
    /\ Becomes(c, s, [end[c][s] EXCEPT
                          !.heard = IF Head(net[c][s]).key = end[c][s].key_in
                                    THEN "clear" ELSE "garbage"])
    /\ Answers(c, s, <<>>)
    /\ UNCHANGED <<conf, bsy>>

(* The session is done *)
Done(c, s) ==
    /\ end[c][s].pc = "up" /\ end[c][s].sent /\ end[c][s].heard # "nothing"
    /\ Quit(c, s, <<>>)

(* A tosser, an editor or another mailer of the node *)
TosserLocks(n, a) ==
    /\ <<n, a>> \in Tossed /\ bsy[n][a] = Free
    /\ bsy' = [bsy EXCEPT ![n][a] = Tosser]
    /\ UNCHANGED <<conf, end, net>>

TosserFrees(n, a) ==
    /\ bsy[n][a] = Tosser
    /\ bsy' = [bsy EXCEPT ![n][a] = Free]
    /\ UNCHANGED <<conf, end, net>>

(* One turn of the loop of protocol() *)
Turn(c, s) ==
    \/ banner(c, s)
    \/ NUL_VER(c, s) \/ NUL_OPT(c, s) \/ RError(c, s)
    \/ ADR(c, s) \/ AdrDrop(c, s) \/ AdrUnparsable(c, s) \/ AdrBadIP(c, s) \/ AdrLock(c, s) \/ AdrBusy(c, s)
    \/ AdrFails(c, s)
    \/ s = "a" /\ (AdrDoneIn(c) \/ PWD(c))
    \/ s = "o" /\ (AdrDoneOut(c) \/ OK(c))
    \/ msg_send2(c, s) \/ recv_block(c, s) \/ Done(c, s)

Over ==
    /\ \A c \in Calls, s \in Sides : end[c][s].pc = "closed"
    /\ UNCHANGED vars

Next ==
    \/ \E c \in Calls, s \in Sides : Turn(c, s) \/ Break(c, s)
    \/ \E c \in Calls : TooManyServers(c)
    \/ \E n \in Nodes, a \in Addresses : TosserLocks(n, a) \/ TosserFrees(n, a)
    \/ Over

Spec == Init /\ [][Next]_vars

(* select() returns whenever there is a frame to read or room to write: a  *)
(* session that can go on does                                             *)
FairSpec == Spec /\ \A c \in Calls, s \in Sides : WF_vars(Turn(c, s))

-----------------------------------------------------------------------------
Owners == {Owner(c, s) : c \in Calls, s \in Sides} \cup {Free, Tosser}
Keys   == {Plain} \cup (Sides \X (Pwd \cup {""}))

EndStates ==
    [pc : {"new", "up", "adr", "closed"}, state : {"NULL", "NONSECURE", "SECURE"},
     ext : {"NA", "WE_NONSECURE", "REMOTE_NONSECURE"},
     NR : SUBSET {"WANT", "WE"}, ND : SUBSET {"WE", "THEY", "NDA"},
     MD : {-1, 0, 1}, chal : BOOLEAN, buggy : BOOLEAN,
     crypt : SUBSET {"WE", "THEY", "YES"}, epwd : Pwd \cup {""},
     fa : SUBSET Addresses, todo : Seq(Addresses \cup {BadAddress}), ipv : {-1, 0, 1, 2},
     main : BOOLEAN, asks : SUBSET (BOOLEAN \X {"ND", "NR"}),
     key_in : Keys, key_out : Keys, sent : BOOLEAN,
     heard : {"nothing", "clear", "garbage"}]

TypeOK ==
    /\ Configured(conf)
    /\ end \in [Calls -> [Sides -> EndStates]]
    /\ \A c \in Calls, s \in Sides :
           \A i \in DOMAIN net[c][s] : net[c][s][i].t \in
               {"VER", "OPT", "ADR", "PWD", "OK", "ERR", "BSY", "EOF", "FIRST"}
    /\ bsy \in [Nodes -> [Addresses -> Owners]]

LoggedIn(c, s) == end[c][s].state # "NULL"

(* A session holds the busy flag of every address it works for as long as  *)
(* it does: no other session of the node, and no other program, has the    *)
(* same link, and nobody frees a flag that is not his (ADR, bsy_add,       *)
(* deinit_protocol).                                                       *)
LinksHeld ==
    \A c \in Calls, s \in Sides : \A a \in end[c][s].fa :
        bsy[NodeOf(c, s)][a] = Owner(c, s)

(* Every flag has a session that will remove it: none stays behind on any  *)
(* of the ways a login can fail (the early returns of ADR and PWD).        *)
NoFlagLeft ==
    \A n \in Nodes, a \in Addresses, c \in Calls, s \in Sides :
        bsy[n][a] = Owner(c, s) =>
            NodeOf(c, s) = n /\ a \in end[c][s].fa

(* Both ends of a session that logged in agree which of them sends in ND   *)
(* mode and which in NR mode: what one asked for is what the other does,   *)
(* except for the NR mode forced on versions with a bug (NUL, ADR, PWD,    *)
(* OK, complete_login).                                                    *)
ModesAgree ==
    \A c \in Calls, s \in Sides :
        LoggedIn(c, "o") /\ LoggedIn(c, "a") =>
            LET me == end[c][s]  you == end[c][Other(s)] IN
            /\ "WE" \in me.ND <=> "THEY" \in you.ND
            /\ "WANT" \in you.NR => "WE" \in me.NR
            /\ "WE" \in me.NR => "WANT" \in you.NR \/ me.buggy

(* The first frame after the login is read with the key it was written     *)
(* with: both ends switch encryption on, with the same password, or none   *)
(* does (complete_login, msg_send2, recv_block).                           *)
FramesReadable ==
    \A c \in Calls, s \in Sides : end[c][s].heard # "garbage"

(* An answering session serves an address with a password only to a caller *)
(* that has proved it: one password stands for all the addresses of the    *)
(* session, those of shares too (ADR, PWD).                                *)
AkasAuthenticated ==
    \A c \in Calls : LET e == end[c]["a"] IN
        LoggedIn(c, "a") => \A a \in e.fa :
            Protected(c, "a", a) =>
                /\ e.state = "SECURE"
                /\ Pn(c, "a", a).pwd \in {"!", Me(c).out_pwd}

(* Both ends agree whether the session is protected, unless the answering  *)
(* one takes any password from a node named on its command line (PWD, OK). *)
SecurityAgrees ==
    \A c \in Calls :
        LoggedIn(c, "o") /\ LoggedIn(c, "a") /\ end[c]["a"].epwd # "!" =>
            (end[c]["a"].state = "SECURE" <=>
                end[c]["o"].state = "SECURE" /\ end[c]["o"].ext # "REMOTE_NONSECURE")

(* A caller logs in only where it got the lock of the node it called (ADR) *)
CalledNodeHeld ==
    \A c \in Calls :
        LoggedIn(c, "o") /\ end[c]["o"].pc # "closed" =>
            To[c] \in end[c]["o"].fa

(* No login waits for ever: whatever the configurations and the busy       *)
(* flags, every session ends without a timeout (the order of the frames in *)
(* banner, ADR with delay_ADR, PWD and OK).                                *)
LoginsEnd == <>(\A c \in Calls, s \in Sides : end[c][s].pc = "closed")

=============================================================================
