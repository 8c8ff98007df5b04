----------------------------- MODULE NodeTable -----------------------------
(***************************************************************************)
(* Addresses, domains and the table of nodes (ftnaddr.c, ftndom.c,         *)
(* ftnnode.c): how an address is read and completed, how several lines     *)
(* about one node are merged, and how a node is looked up, with defnode    *)
(* for the ones that are not in the table.  No state of its own: the table *)
(* is a value, [nodes |-> the array, sorted |-> nNodSorted].               *)
(***************************************************************************)
EXTENDS Integers, Sequences, FiniteSets, SequencesExt

CONSTANT Rank   \* the order of the domain names under STRICMP: name -> number

\* Domain names are told apart.
ASSUME RankAssumption ==
  /\ "defnode" \in DOMAIN Rank /\ "" \notin DOMAIN Rank
  /\ \A x, y \in DOMAIN Rank : Rank[x] \in Int /\ (Rank[x] = Rank[y] => x = y)

Null == "null"

IsSequence(s) == s \in Seq(Range(s))

-----------------------------------------------------------------------------
(* Domains: [name, alias4 (a name or ""), z, idomain, path]. *)

NoDomain == [name |-> "", alias4 |-> "", z |-> 0, idomain |-> "", path |-> ""]

get_domain_info(name, domains) ==
  LET known == {i \in DOMAIN domains : domains[i].name = name}
  IN  IF known = {} THEN NoDomain ELSE domains[CHOOSE i \in known : TRUE]

\* The domain whose default zone it is, else that of an AKA in the zone, else
\* that of the main AKA or the first domain.
get_matched_domain(zone, akas, domains) ==
  LET main == {i \in DOMAIN domains : domains[i].alias4 = "" /\ domains[i].z = zone}
      aka  == {i \in DOMAIN akas : akas[i].z = zone}
      First(S) == CHOOSE i \in S : \A j \in S : i <= j
  IN  CASE main # {}   -> domains[First(main)].name
        [] main = {} /\ aka # {} -> akas[First(aka)].domain
        [] main = {} /\ aka = {} /\ akas # <<>> -> akas[1].domain
        [] OTHER       -> domains[1].name

-----------------------------------------------------------------------------
(* Addresses: [z, net, node, p, domain]; -1 and "" for a part that is not   *)
(* written.                                                                 *)

\* What the grammar of parse_ftnaddress lets through: neither node nor point,
\* a domain or a zone without what stands to its right, are refused.
Parsable(w) ==
  /\ w.node # -1 \/ w.p # -1
  /\ w.domain # "" => w.z # -1
  /\ w.z # -1 => w.net # -1
  /\ w.net # -1 => w.node # -1

\* The point defaults to 0; an alias is replaced by the domain it stands for.
parse_ftnaddress(w, domains) ==
  LET d == get_domain_info(w.domain, domains)
  IN  [w EXCEPT !.p = IF @ = -1 THEN 0 ELSE @,
                !.domain = IF w.domain = "" \/ d = NoDomain THEN @
                           ELSE IF d.alias4 # "" THEN d.alias4 ELSE d.name]

is4D(a) == \A part \in {a.z, a.net, a.node, a.p} : part # -1

\* The missing parts are those of the main AKA.
exp_ftnaddress(a, akas, domains) ==
  LET d == get_domain_info(a.domain, domains)
      z == IF a.z # -1 THEN a.z
           ELSE IF d = NoDomain THEN akas[1].z
           ELSE IF d.alias4 # "" THEN get_domain_info(d.alias4, domains).z ELSE d.z
  IN  [z |-> z,
       net |-> IF a.net = -1 THEN akas[1].net ELSE a.net,
       node |-> IF a.node = -1 THEN akas[1].node ELSE a.node,
       p |-> a.p,
       domain |-> IF a.domain # "" THEN a.domain ELSE get_matched_domain(z, akas, domains)]

\* ftnaddress_cmp(a, b) < 0
Before(a, b) ==
  LET Key(x) == <<Rank[x.domain], x.z, x.net, x.node, x.p>>
  IN  \E i \in 1..5 : /\ Key(a)[i] < Key(b)[i]
                      /\ \A j \in 1..(i - 1) : Key(a)[j] = Key(b)[j]

\* The name of a node in DNS: the domain's own suffix, or root-domain.
ftnaddress_to_domain(a, domains, root) ==
  LET d == get_domain_info(a.domain, domains)
  IN  [name |-> "*", suffix |-> IF d.idomain # "" THEN d.idomain ELSE root]

-----------------------------------------------------------------------------
(* A node and what one line says about it. *)

Flags == {"MD", "NR", "ND", "HC", "NP", "NC", "ip", "family"}
UseOld == [f \in Flags |-> "old"]

DefNode == [z |-> 0, net |-> 0, node |-> 0, p |-> 0, domain |-> "defnode"]

\* An entry as add_node_nolock creates it.  bw_send, bw_recv and AFF_flag are
\* set here and nowhere else.
NewNode(fa, e) ==
  [fa |-> fa, hosts |-> <<>>, pwd |-> "-", pkt_pwd |-> Null, out_pwd |-> Null,
   obox_flvr |-> "f", obox |-> Null, ibox |-> Null, pipe |-> Null, AFF |-> e.AFF,
   flags |-> [f \in Flags |-> IF f \in {"MD", "HC"} THEN "old"
                              ELSE IF f = "family" THEN "unspec" ELSE "off"],
   listed |-> "unlisted", due |-> FALSE]

\* A password counts only while the node has none; with it come the one for
\* packets and the one for outgoing sessions, the same unless given.
Passwords(n, e) ==
  IF e.pwd \notin {Null, "-"} /\ n.pwd = "-"
  THEN LET Or(p) == IF p = Null THEN e.pwd ELSE IF p = "-" THEN Null ELSE p
       IN  [n EXCEPT !.pwd = e.pwd, !.pkt_pwd = Or(e.pkt_pwd), !.out_pwd = Or(e.out_pwd)]
  ELSE n

\* What a line gives replaces what the node had.
Edit(n, e) ==
  LET Or(new, old) == IF new = Null THEN old ELSE new
  IN  [Passwords(n, e) EXCEPT
         !.due = FALSE,
         !.flags = [f \in Flags |-> IF e.flags[f] = "old" THEN @[f] ELSE e.flags[f]],
         !.pipe = Or(e.pipe, @),
         !.hosts = IF e.hosts = <<>> THEN @ ELSE e.hosts,
         !.obox_flvr = IF e.obox_flvr = "-" THEN @ ELSE e.obox_flvr,
         !.obox = Or(e.obox, @), !.ibox = Or(e.ibox, @)]

\* An edit that says nothing: the arguments of poll_node and read_passwords.
NoEdit == [hosts |-> <<>>, pwd |-> Null, pkt_pwd |-> Null, out_pwd |-> Null,
           obox_flvr |-> "-", obox |-> Null, ibox |-> Null, pipe |-> Null,
           AFF |-> 0, flags |-> UseOld]

EmptyTable == [nodes |-> <<>>, sorted |-> FALSE]

\* A linear search; a new entry goes to the end and breaks the order.
add_node(t, fa, e) ==
  LET at == {i \in DOMAIN t.nodes : t.nodes[i].fa = fa}
  IN  IF at = {} THEN [nodes |-> Append(t.nodes, Edit(NewNode(fa, e), e)), sorted |-> FALSE]
      ELSE [t EXCEPT !.nodes[CHOOSE i \in at : TRUE] = Edit(@, e)]

\* The sorted nodes s with n in its place.
Placed(s, n) ==
  InsertAt(s, CHOOSE k \in 1..(Len(s) + 1) :
                {i \in DOMAIN s : Before(s[i].fa, n.fa)} = 1..(k - 1), n)

sort_nodes(t) ==
  LET sorted[n \in 0..Len(t.nodes)] ==
        IF n = 0 THEN <<>> ELSE Placed(sorted[n - 1], t.nodes[n])
  IN  [nodes |-> sorted[Len(t.nodes)], sorted |-> TRUE]

\* bsearch: the index of the node, or 0.
search_for_node(t, fa) ==
  LET find[part \in (0..Len(t.nodes)) \X (0..Len(t.nodes))] ==
        LET l == part[1]
            u == part[2]
            m == (l + u) \div 2
        IN  IF l >= u THEN 0
            ELSE IF t.nodes[m + 1].fa = fa THEN m + 1
            ELSE IF Before(fa, t.nodes[m + 1].fa) THEN find[<<l, m>>] ELSE find[<<m + 1, u>>]
  IN  find[<<0, Len(t.nodes)>>]

(* Mutant: the new entry stays at the end of the array. *)
get_defnode_info_last(t, fa, i) ==
  LET d == search_for_node(t, DefNode) IN
  IF d = 0 \/ i > 0 THEN t ELSE add_node(t, fa, [NoEdit EXCEPT !.hosts = t.nodes[d].hosts])

\* The entry at i (0: there is none) gets the settings of defnode.  It keeps
\* its passwords and boxes.  The hosts of defnode are resolved on the way, but
\* nothing depends on the result.
get_defnode_info(t, fa, i) ==
  LET d == search_for_node(t, DefNode) IN
  IF d = 0 THEN t
  ELSE LET n == t.nodes[d] IN
       IF i > 0 THEN [t EXCEPT !.nodes[i] = [@ EXCEPT !.hosts = n.hosts, !.flags = n.flags,
                                               !.pipe = n.pipe, !.AFF = n.AFF]]
       ELSE sort_nodes(add_node(t, fa, [NoEdit EXCEPT !.hosts = n.hosts, !.obox_flvr = n.obox_flvr,
              !.obox = n.obox, !.ibox = n.ibox, !.flags = n.flags, !.pipe = n.pipe, !.AFF = n.AFF]))

\* The table after the lookup; search_for_node then finds the node or not.
\* Only an entry that a node line made is final: others are looked up at
\* defnode again when their hour is over (due).
get_node_info(t, fa, havedefnode) ==
  LET t1 == IF t.sorted THEN t ELSE sort_nodes(t)
      i  == search_for_node(t1, fa)
      ask == i = 0 \/ (t1.nodes[i].listed # "node" /\ t1.nodes[i].due)
      t2 == IF ask /\ havedefnode THEN get_defnode_info(t1, fa, i) ELSE t1
      j  == search_for_node(t2, fa)
  IN  IF j > 0 /\ t2.nodes[j].hosts = <<>>
      THEN [t2 EXCEPT !.nodes[j].hosts = <<[name |-> "-", port |-> ""]>>] ELSE t2

\* foreach_node: the table is sorted, and an entry without hosts is looked up
\* before the function sees it.
foreach_node(t, havedefnode) ==
  LET t1 == IF t.sorted THEN t ELSE sort_nodes(t)
      after[n \in 0..Len(t1.nodes)] ==
        IF n = 0 THEN t1
        ELSE IF t1.nodes[n].hosts = <<>>
        THEN get_node_info(after[n - 1], t1.nodes[n].fa, havedefnode)
        ELSE after[n - 1]
  IN  after[Len(t1.nodes)]
=============================================================================
