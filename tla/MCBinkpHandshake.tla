-------------------------- MODULE MCBinkpHandshake --------------------------
(***************************************************************************)
(* Instances of the handshake: node A has the addresses a1 and a2, B has   *)
(* b1, and s1 is a shared address.                                         *)
(***************************************************************************)
EXTENDS BinkpHandshake

OneCall  == {"c1"}
TwoCalls == {"c1", "c2"}
AB       == {"A", "B"}
ByA      == [c \in {"c1"} |-> "A"]
OfB      == [c \in {"c1"} |-> "B"]
ToB1     == [c \in {"c1"} |-> "b1"]
Addrs    == {"a1", "a2", "b1", "s1"}

(* A and B call each other *)
Cross1 == [c \in TwoCalls |-> IF c = "c1" THEN "A" ELSE "B"]
Cross2 == [c \in TwoCalls |-> IF c = "c1" THEN "B" ELSE "A"]
CrossTo == [c \in TwoCalls |-> IF c = "c1" THEN "b1" ELSE "a1"]

NoTosser == {}
A2Tossed == {<<"B", "a2">>}

E(pwd, out, nr, nd, md, ip) ==
    [pwd |-> pwd, out_pwd |-> out, nr |-> nr, nd |-> nd, md |-> md, ip |-> ip]

Plainly == [no_MD5 |-> FALSE, no_crypt |-> FALSE, delay_ADR |-> FALSE, old |-> FALSE,
            partials |-> {}, remote_fa |-> Nowhere, shares |-> <<>>,
            akas |-> <<"a1", "a2">>]
PlainlyB == [Plainly EXCEPT !.akas = <<"b1">>]
Conf(cf, node) ==
    [f \in DOMAIN Plainly \cup {"node"} |-> IF f = "node" THEN node ELSE cf[f]]
Pair(ca, cb) == [n \in AB |-> IF n = "A" THEN ca ELSE cb]

(* Modes: every combination of NR and ND on both sides, with and without a *)
(* password, an old caller, partial files on either side                   *)
ModeConfs ==
    {Pair(Conf([Plainly EXCEPT !.old = old, !.partials = pa],
               [a \in {"b1"} |-> E(p, p, nr, nd, 0, "off")]),
          Conf([PlainlyB EXCEPT !.partials = pb],
               [a \in {"a1", "a2"} |->
                   IF a = "a1" THEN E(p, p, nrs[1], nrs[2], 0, "off")
                   ELSE E("-", "-", nrs[3], nrs[4], 0, "off")])) :
        p \in {"-", "p"}, nr, nd \in BOOLEAN, nrs \in BOOLEAN \X BOOLEAN \X BOOLEAN \X BOOLEAN,
        old \in BOOLEAN, pa \in {{}, {"b1"}}, pb \in {{}, {"a2"}}}

(* Passwords: agreeing, missing, different, forbidden; digests required,   *)
(* refused by the caller or switched off as a whole; encryption switched   *)
(* off                                                                     *)
PwdConfs ==
    {Pair(Conf([Plainly EXCEPT !.no_MD5 = ma, !.no_crypt = xa],
               [a \in {"b1"} |-> E("-", pa, FALSE, FALSE, da, "off")]),
          Conf([PlainlyB EXCEPT !.no_MD5 = mb, !.no_crypt = xb, !.delay_ADR = dl,
                               !.remote_fa = rf],
               [a \in {"a1", "a2"} |->
                   IF a = "a1" THEN E(p1, p1, FALSE, FALSE, db, "off")
                   ELSE E(p2, p2, FALSE, FALSE, 0, "off")])) :
        ma, mb, xa, xb, dl \in BOOLEAN, pa \in {"-", "p"}, p1 \in {"-", "p"},
        p2 \in {"-", "p", "q", "!"}, da \in {-1, 0, 1}, db \in {0, 1}, rf \in {Nowhere, "a2"}}

(* Who may come in: unlisted addresses, -ip checks, shared addresses *)
IPs == {"off", "match", "bad", "unsure"}
AkaConfs ==
    {Pair(Conf([Plainly EXCEPT !.akas = ak], [a \in {"b1"} |-> E("-", "p", FALSE, FALSE, 0, ia)]),
          Conf([PlainlyB EXCEPT !.shares = sh],
               [a \in S |-> CASE a = "a1" -> E("p", "p", FALSE, FALSE, 0, i1)
                              [] a = "a2" -> E(p2, p2, FALSE, FALSE, 0, i2)
                              [] a = "s1" -> E(ps, ps, FALSE, FALSE, 0, "off")])) :
        ak \in {<<"a1", "a2">>, <<"a2", "a1", BadAddress>>},
        S \in SUBSET {"a1", "a2", "s1"}, ia \in {"off", "bad"}, i1 \in IPs, i2 \in IPs,
        p2 \in {"-", "p"}, ps \in {"-", "p", "q"},
        sh \in {<<>>, <<[sha |-> "s1", sfa |-> {"a1"}]>>,
                <<[sha |-> "s1", sfa |-> {"a1", "a2"}]>>,
                <<[sha |-> "a1", sfa |-> {"a2"}], [sha |-> "a2", sfa |-> {"a1"}]>>,
                <<[sha |-> "a2", sfa |-> {}], [sha |-> "a1", sfa |-> {}]>>}}

OneCallConfs == (ModeConfs \cup PwdConfs) \cup AkaConfs

(* Two calls at once, the addresses protected or not *)
CrossConfs ==
    {Pair(Conf([Plainly EXCEPT !.delay_ADR = dl], [a \in {"b1"} |-> E(p, p, FALSE, FALSE, 0, "off")]),
          Conf(PlainlyB, [a \in {"a1", "a2"} |->
                  E(IF a = "a1" THEN p ELSE q, IF a = "a1" THEN p ELSE q,
                    FALSE, FALSE, 0, "off")])) :
        p \in {"-", "p"}, q \in {"-", "p"}, dl \in BOOLEAN}
=============================================================================
