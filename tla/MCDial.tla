------------------------------- MODULE MCDial -------------------------------
(* An instance of Dial: the lines a configuration may have, the names the   *)
(* resolver knows, and the links there is mail for.                         *)
EXTENDS Dial

A(z, net, node, domain) == [z |-> z, net |-> net, node |-> node, p |-> -1, domain |-> domain]
Fa(node) == [z |-> 2, net |-> 5020, node |-> node, p |-> 0, domain |-> "fido"]
H(name, port) == [name |-> name, port |-> port]

Str(var, text)   == [k |-> "string", var |-> var, n |-> 1, kind |-> "s", text |-> text, slash |-> FALSE]
File(var, slash) == [Str(var, "name") EXCEPT !.kind = "f", !.slash = slash]
Dir(var, text)   == [Str(var, text) EXCEPT !.kind = "d"]
Number(var, val) == [k |-> "int", var |-> var, n |-> 1, digits |-> TRUE, val |-> val]
Time(var, neg, parts) == [k |-> "time", var |-> var, n |-> 1, wellformed |-> TRUE,
                          negative |-> neg, parts |-> parts]
Domain(name, alias, zone, suffix) ==
  [k |-> "domain", n |-> IF suffix = "" THEN 3 ELSE 4, name |-> name, alias |-> alias,
   zone |-> zone, suffix |-> suffix, path |-> "out", ext |-> FALSE]
Node(a, hosts, pwd, opts, pipe) ==
  [k |-> "node", def |-> FALSE, n |-> 3, a |-> a, hosts |-> hosts, pwd |-> pwd, opts |-> opts,
   pipe |-> pipe, flvr |-> "-", obox |-> Null, ibox |-> Null]
W(text, alpha, digits) == [text |-> text, alpha |-> alpha, digits |-> digits]

MCHeadLines ==
  <<Str("sysname", "x"), Str("sysop", "x"), Str("location", "x"), Str("nodeinfo", "x"),
    Domain("fido", "", 2, ""), [k |-> "address", list |-> <<A(2, 5020, 1, "")>>]>>

MCCoreLines ==
  {Domain("fidonet", "fido", 0, ""),
   Domain("other", "", 7, "suffix.org"),
   [k |-> "address", list |-> <<A(2, 5020, 1, "fidonet"), A(7, 1, 1, "")>>],
   Node(A(2, 5020, 2, ""), <<H("h1", ""), H("h2", "nonsense"), H("h2", "")>>, <<Null>>, <<>>, ""),
   Node(A(-1, -1, 2, ""), <<H("h2", "24555")>>, <<"p1", "", "p2">>, <<"-4", "-noproxy">>, ""),
   Node(A(2, 5020, 2, "fidonet"), <<H("h1", "binkp")>>, <<"p3">>, <<"-64", "-nd">>, ""),
   Node(A(2, 5020, 3, ""), <<H("h1", "")>>, <<Null>>, <<"-crypt">>, "ssh"),
   [Node(DefNode, <<H("*", "")>>, <<Null>>, <<"-46">>, "") EXCEPT !.def = TRUE],
   [k |-> "share", list |-> <<A(2, 5020, 9, ""), A(-1, -1, 2, "")>>],
   Str("passwords", "pwd"),
   Str("socks", "socks4"), Str("socks", "socks5"), Str("socks", "socks5auth")}

MCOtherLines ==
  {Domain("other", "", 0, ""), [k |-> "address", list |-> <<A(-1, 5020, 1, "")>>],
   Str("bindaddr", "10.0.0.1"), Str("proxy", "http"), Str("proxy", "ntlm"),
   File("log", FALSE), File("log", TRUE), Dir("inbound", "in"), Dir("inbound", "nowhere"),
   Dir("temp_inbound", "far"), Number("oblksize", 128), Number("oblksize", 127), Number("try", 65536),
   Time("timeout", FALSE, <<[num |-> 1, unit |-> "m"], [num |-> 30, unit |-> ""]>>),
   Time("timeout", FALSE, <<[num |-> 0, unit |-> ""]>>),
   Time("tzoff", TRUE, <<[num |-> 12, unit |-> "h"], [num |-> 1, unit |-> "s"]>>),
   [k |-> "bool", var |-> "backresolv", n |-> 0], [k |-> "bool", var |-> "backresolv", n |-> 1],
   [k |-> "word", var |-> "renamestyle", n |-> 1, text |-> "extension"],
   [k |-> "word", var |-> "inboundcase", n |-> 1, text |-> "upper"],
   [k |-> "port", var |-> "iport", n |-> 1, text |-> "24555"],
   [k |-> "port", var |-> "oport", n |-> 1, text |-> "24555"],
   [k |-> "port", var |-> "oport", n |-> 1, text |-> "nonsense"],
   [k |-> "listen", list |-> <<[addr |-> "*", port |-> ""], [addr |-> "h1", port |-> "24555"]>>],
   [k |-> "masks", var |-> "overwrite", type |-> "all", list |-> <<"m">>],
   [k |-> "zrules", type |-> "deny", list |-> <<"m">>], [k |-> "zrules", type |-> "allow", list |-> <<>>],
   [k |-> "ftrans", n |-> 2], [k |-> "perlvar", n |-> 3],
   [k |-> "flag", var |-> "exec", n |-> 1, imm |-> FALSE],
   [k |-> "flag", var |-> "flag", n |-> 3, imm |-> TRUE],
   [k |-> "skip", words |-> <<W("secure", TRUE, FALSE), W("-", FALSE, FALSE), W("m", TRUE, FALSE)>>],
   [k |-> "skip", words |-> <<W("-", FALSE, FALSE), W("m", TRUE, FALSE)>>],
   [k |-> "rate", words |-> <<W("-", FALSE, FALSE), W("m", TRUE, FALSE)>>],
   [k |-> "rate", words |-> <<W("nobody", TRUE, FALSE), W("9", FALSE, TRUE), W("m", TRUE, FALSE)>>],
   [k |-> "pkthdr", n |-> 2, first |-> "listed"], [k |-> "pkthdr", n |-> 2, first |-> "m"],
   [k |-> "aka", n |-> 2, a |-> A(-1, 5020, 1, ""), act |-> "hide", neg |-> TRUE],
   [Node(A(2, 5020, 2, ""), <<H("h1", "")>>, <<Null>>, <<>>, "") EXCEPT !.obox = "out"],
   [Node(A(2, 5020, 2, ""), <<H("-", "")>>, <<Null>>, <<>>, "") EXCEPT !.ibox = "in"],
   [k |-> "include", n |-> 1, exists |-> TRUE], [k |-> "include", n |-> 1, exists |-> FALSE],
   [k |-> "unknown"]}

MCRank == [defnode |-> 1, fido |-> 2, fidonet |-> 3, other |-> 4]
MCPasswordFiles ==
  [pwd |-> <<[a |-> A(2, 5020, 7, ""), pwd |-> <<"p7">>], [a |-> A(2, -1, 2, ""), pwd |-> <<"x">>],
             [a |-> A(-1, 5020, 2, ""), pwd |-> <<"p9">>]>>]
MCDirs == [in |-> 1, out |-> 1, far |-> 2] @@ ("." :> 1)

Ip(ip, family) == [ip |-> ip, family |-> family, invalid |-> FALSE]
MCDNS ==
  [h1 |-> <<Ip("a1", "v4"), Ip("a2", "v4"), Ip("a3", "v6")>>,
   h2 |-> <<[Ip("a4", "v4") EXCEPT !.invalid = TRUE], Ip("a5", "v6")>>,
   t2 |-> <<Ip("a6", "v6"), Ip("a7", "v4")>>,
   http |-> <<Ip("x1", "v4"), Ip("x2", "v6")>>, ntlm |-> <<Ip("x3", "v4")>>,
   socks4 |-> <<Ip("x4", "v6"), Ip("x5", "v4")>>, socks5 |-> <<Ip("x6", "v4")>>,
   socks5auth |-> <<Ip("x7", "v4")>>]
   @@ ("binkp.net" :> <<Ip("a8", "v6"), Ip("a9", "v4")>>)
MCSRV == [h2 |-> <<"t1", "t2">>]
MCHookHosts == <<H("h2", ""), H("h1", ""), H("", "")>>
MCLinks == {Fa(2), Fa(3), Fa(7)}
=============================================================================
