------------------------------- MODULE Config -------------------------------
(***************************************************************************)
(* Reading the configuration (readcfg.c): every line goes to the function  *)
(* of its keyword, which fills work_config or refuses the line; the first  *)
(* refused line ends the reading, also from within an included file.  What *)
(* is left to do after the last line (required settings, defaults, the     *)
(* passwords file, the checks) is Finish.                                  *)
(*                                                                         *)
(* A line is a record: k, the function that reads it, and its arguments as *)
(* that function tells them apart (a number of words n, a text that is a   *)
(* number or is not, an address as it is written).  The file is any        *)
(* sequence of lines the environment chooses, see NextLines.               *)
(***************************************************************************)
EXTENDS NodeTable

CONSTANTS HeadLines,    \* the lines every file starts with, in this order
          OtherLines,   \* lines that stand alone, after the head
          CoreLines,    \* lines about domains, addresses, nodes, proxies, at the end
          MaxCore, MaxOther,  \* bounds: how many of each a file has
          MaxLevel,     \* bound: depth of includes (MAXINCLUDELEVEL is 8)
          PasswordFiles, \* name -> the lines of a passwords file: [a, pwd]
          Dirs,         \* directories that exist: name -> partition
          Ports         \* port names and numbers getaddrinfo knows

ASSUME ConfigAssumption ==
  /\ MaxCore \in Nat /\ MaxOther \in Nat /\ MaxLevel \in 0..8
  /\ {"binkp"} \subseteq Ports

\* The limits of numbers and times, as the table of keywords has them.
DONT_CHECK == 2147483647
Limits ==
  [oblksize |-> <<128, 32767>>, maxservers |-> <<0, DONT_CHECK>>, try |-> <<0, 65535>>,
   zlevel |-> <<0, 9>>, minfree |-> <<0, DONT_CHECK>>, loglevel |-> <<0, DONT_CHECK>>,
   tzoff |-> <<-43200, 43200>>, timeout |-> <<1, DONT_CHECK>>, hold |-> <<0, DONT_CHECK>>,
   connect_timeout |-> <<0, DONT_CHECK>>, call_delay |-> <<1, DONT_CHECK>>]

\* An address as it is written.
Part == Nat \cup {-1}
Written == [z : Part, net : Part, node : Part, p : Part, domain : {""} \cup DOMAIN Rank]

Lines == Range(HeadLines) \cup CoreLines \cup OtherLines

\* What the table of keywords fixes: which function reads the line of which
\* variable; and what a word can be: never empty, a number without a sign.
ASSUME LinesAssumption ==
  /\ IsSequence(HeadLines)
  /\ \A l \in Lines :
       /\ l.k \in {"int", "time"} => l.var \in DOMAIN Limits
       /\ l.k \in {"string", "bool", "word", "port"} => l.var \notin DOMAIN Limits
       /\ l.k \in {"string", "bool", "word"} => l.var # "iport"
       /\ l.k = "masks" => l.var # "listen"
       /\ l.k = "listen" => l.list \in Seq([addr : STRING, port : STRING])
       /\ l.k = "domain" => /\ l.name \in DOMAIN Rank /\ l.alias \in {""} \cup DOMAIN Rank
                            /\ l.zone \in Nat
       /\ l.k \in {"address", "share"} => l.list \in Seq(Written)
       /\ l.k = "node" => l.a \in Written /\ IsSequence(l.hosts) /\ IsSequence(l.opts)
  /\ \A name \in DOMAIN PasswordFiles :
       /\ IsSequence(PasswordFiles[name])
       /\ \A i \in DOMAIN PasswordFiles[name] : PasswordFiles[name][i].a \in Written

VARIABLES work,    \* work_config
          rd,      \* the reading: [st, level, next, core, other, refused]
          cfg      \* the configuration in force, as far as a call needs it

-----------------------------------------------------------------------------
(* The result of a keyword's function, and what all of them use. *)

Ok(c) == [res |-> "ok", c |-> c]
ConfigError(c) == [res |-> "error", c |-> c]
Log0(c) == [res |-> "exit", c |-> c]       \* Log (0, ...) ends the program

isArgCount(l, n) == l.n = n

\* find_port: a port or service getaddrinfo knows, or the default for "".
find_port(p) == p = "" \/ p \in Ports

\* Set a variable, or add to a list, of the configuration.
Put(f, x, v) == [y \in DOMAIN f \cup {x} |-> IF y = x THEN v ELSE f[y]]
Set(c, var, val) == [c EXCEPT !.vars = Put(@, var, val)]
Add(c, var, s) ==
  [c EXCEPT !.lists = Put(@, var, (IF var \in DOMAIN @ THEN @[var] ELSE <<>>) \o s)]

Var(c, var, default) == IF var \in DOMAIN c.vars THEN c.vars[var] ELSE default

\* An address in a line about nodes, shares and AKAs is completed from the
\* main AKA; before any is defined that is an error nobody survives.
Config_ParseAddress(w, c) ==
  IF ~Parsable(w) THEN ConfigError(c) ELSE IF c.akas = <<>> THEN Log0(c) ELSE Ok(c)
FullAddress(w, c) == exp_ftnaddress(parse_ftnaddress(w, c.domains), c.akas, c.domains)

-----------------------------------------------------------------------------
(* The functions of the keywords.                                           *)

Within(var, x) ==
  /\ x >= Limits[var][1]
  /\ Limits[var][2] # DONT_CHECK => x <= Limits[var][2]

\* A string; 'f' a file name, which must not end in a slash; 'd' a directory,
\* which must exist.
read_string(l, c) ==
  IF ~isArgCount(l, 1) \/ (l.kind = "f" /\ l.slash) \/ (l.kind = "d" /\ l.text \notin DOMAIN Dirs)
  THEN ConfigError(c) ELSE Ok(Set(c, l.var, l.text))

read_int(l, c) ==
  IF ~isArgCount(l, 1) \/ ~l.digits \/ ~Within(l.var, l.val)
  THEN ConfigError(c) ELSE Ok(Set(c, l.var, l.val))

\* A time is a sum of numbers with units, the last one may be without.
Unit == [w |-> 604800, d |-> 86400, h |-> 3600, m |-> 60, s |-> 1]
Seconds(parts) ==
  FoldLeft(LAMBDA x, p : x + p.num * (IF p.unit = "" THEN 1 ELSE Unit[p.unit]), 0, parts)

read_time(l, c) ==
  LET t == IF l.negative THEN - Seconds(l.parts) ELSE Seconds(l.parts)
  IN  IF ~isArgCount(l, 1) \/ ~l.wellformed \/ ~Within(l.var, t)
      THEN ConfigError(c) ELSE Ok(Set(c, l.var, t))

read_bool(l, c) == IF l.n # 0 THEN ConfigError(c) ELSE Ok(Set(c, l.var, 1))

\* inboundcase, dont-send-empty, rename-style: one of the words, as the
\* source spells them.
Words == [inboundcase |-> {"save", "upper", "lower", "mixed"},
          dontsendempty |-> {"no", "arcmail", "yes"},
          renamestyle |-> {"postfix", "extenstion"}]
read_word(l, c) ==
  IF ~isArgCount(l, 1) \/ l.text \notin Words[l.var]
  THEN ConfigError(c) ELSE Ok(Set(c, l.var, l.text))

read_port(l, c) ==
  IF ~isArgCount(l, 1) \/ ~find_port(l.text) THEN ConfigError(c)
  ELSE Ok(Set(c, l.var, IF l.text = "" THEN "binkp" ELSE l.text))

\* Addresses to listen on; "*" is any.
read_listen(l, c) ==
  IF l.list = <<>> \/ \E i \in DOMAIN l.list : ~find_port(l.list[i].port)
  THEN ConfigError(c)
  ELSE Ok(Add(c, "listen", [i \in DOMAIN l.list |->
                              [l.list[i] EXCEPT !.addr = IF @ = "*" THEN "" ELSE @]]))

\* overwrite and nolog: masks.
read_mask(l, c) ==
  IF l.list = <<>> THEN ConfigError(c)
  ELSE Ok(Add(c, l.var, [i \in DOMAIN l.list |-> <<l.type, l.list[i]>>]))

\* zallow and zdeny share one list: the first mask that matches decides.
read_zrule(l, c) ==
  IF l.list = <<>> THEN ConfigError(c)
  ELSE Ok(Add(c, "zrules", [i \in DOMAIN l.list |-> <<l.type, l.list[i]>>]))

\* ftrans and perl-var: two words.
read_rfrule(l, c) ==
  IF ~isArgCount(l, 2) THEN ConfigError(c) ELSE Ok(Add(c, "rf_rules", <<<<"pair", "">>>>))

read_perlvar(l, c) ==
  IF ~isArgCount(l, 2) THEN ConfigError(c) ELSE Ok(Add(c, "perl_vars", <<<<"pair", "">>>>))

\* flag and exec: a path or command, and the masks it is for.
read_flag_exec_info(l, c) ==
  IF l.n < 2 THEN ConfigError(c)
  ELSE Ok(Add(c, "evt_flags", [i \in 1..(l.n - 1) |-> <<l.var, IF l.imm THEN "!" ELSE "">>]))

addrtypes == {"all", "secure", "unsecure", "listed", "unlisted"}

\* An optional type of session, a size or rate, masks: skip and limit-rate.
\* '-' sets no size; only where it counts as one (dash = "size") may masks
\* follow it in the second place.
Masked(l, dash) ==
  LET Step(s, i) ==
        LET w == l.words[i] IN
        CASE s.st = "error" -> s
          [] i = 1 /\ w.alpha -> IF w.text \in addrtypes THEN [s EXCEPT !.type = w.text]
                                 ELSE [s EXCEPT !.st = "error"]
          [] i <= 2 /\ s.st = "none" /\ ~(i = 1 /\ w.alpha) ->
               IF w.text = "-" THEN [s EXCEPT !.size = "-", !.st = dash]
               ELSE [s EXCEPT !.size = w.text, !.st = IF w.digits THEN "size" ELSE "error"]
          [] OTHER -> [s EXCEPT !.st = "masks",
                                !.list = Append(@, <<s.type, s.size, w.text>>)]
  IN  FoldLeft(Step, [st |-> "none", type |-> "all", size |-> "0", list |-> <<>>],
               [i \in DOMAIN l.words |-> i])

\* After a '-' in the first place, skip takes the second word for the size.
read_skip(l, c) ==
  LET r == Masked(l, "none")
  IN  IF r.st # "masks" THEN ConfigError(c) ELSE Ok(Add(c, "skipmask", r.list))

\* In limit-rate '-' is a rate: unlimited.
read_rate(l, c) ==
  LET r == Masked(l, "size")
  IN  IF r.st # "masks" THEN ConfigError(c) ELSE Ok(Add(c, "rates", r.list))

read_check_pkthdr(l, c) ==
  LET typed == l.n > 0 /\ l.first \in addrtypes
  IN  IF l.n = 0 \/ (typed /\ l.n # 2) \/ (~typed /\ l.n # 1) THEN ConfigError(c)
      ELSE Ok(Set(c, "pkthdr_type", IF typed THEN l.first ELSE "all"))

-----------------------------------------------------------------------------
(* Domains, addresses, nodes. *)

\* domain <name> <path> <zone> [<suffix>], or domain <name> alias-for <name>.
read_domain_info(l, c) ==
  LET d == [name |-> l.name, alias4 |-> l.alias, z |-> l.zone, idomain |-> l.suffix,
            path |-> l.path]
      bad == \/ l.n \notin {3, 4}
             \/ get_domain_info(l.name, c.domains) # NoDomain
             \/ l.alias # "" /\ (get_domain_info(l.alias, c.domains) = NoDomain \/ l.n # 3)
             \/ l.alias = "" /\ (l.zone <= 0 \/ l.ext)
  IN  IF bad THEN ConfigError(c) ELSE Ok([c EXCEPT !.domains = Append(@, d)])

\* One of our AKAs, complete but for the domain; a second mention is ignored.
read_aka(r, w) ==
  LET a == parse_ftnaddress(w, r.c.domains)
      b == [a EXCEPT !.domain = IF @ # "" THEN @
                                ELSE get_matched_domain(a.z, r.c.akas, r.c.domains)]
  IN  IF r.res # "ok" THEN r
      ELSE IF \/ ~Parsable(w) \/ ~is4D(a)
              \/ a.domain = "" /\ r.c.domains = <<>> THEN ConfigError(r.c)
      ELSE IF b \in Range(r.c.akas) THEN r
      ELSE Ok([r.c EXCEPT !.akas = Append(@, b)])

\* address: the AKAs, one after the other.
read_aka_list(l, c) ==
  LET after[n \in 0..Len(l.list)] == IF n = 0 THEN Ok(c) ELSE read_aka(after[n - 1], l.list[n])
  IN  IF l.list = <<>> THEN ConfigError(c) ELSE after[Len(l.list)]

\* The options of a node line.  -4 and -6 after one another, -46 and -64
\* after one another, and -crypt are complained about and ignored.
Option(e, o) ==
  CASE o \in {"-md", "-nomd"} -> [e EXCEPT !.flags["MD"] = IF o = "-md" THEN "on" ELSE "off"]
    [] o = "-nr"              -> [e EXCEPT !.flags["NR"] = "on"]
    [] o = "-nd"              -> [e EXCEPT !.flags["NR"] = "on", !.flags["ND"] = "on"]
    [] o \in {"-ip", "-sip"}  -> [e EXCEPT !.flags["ip"] = IF o = "-ip" THEN "on" ELSE "sip"]
    [] o \in {"-hc", "-nohc"} -> [e EXCEPT !.flags["HC"] = IF o = "-hc" THEN "on" ELSE "off"]
    [] o = "-noproxy"         -> [e EXCEPT !.flags["NP"] = "on"]
    [] o = "-nc"              -> [e EXCEPT !.flags["NC"] = "on"]
    [] o \in {"-4", "-6"}     -> [e EXCEPT !.flags["family"] =
                                    IF @ = "old" THEN IF o = "-4" THEN "v4" ELSE "v6" ELSE @]
    [] o \in {"-46", "-64"}   -> [e EXCEPT !.AFF = IF @ # 0 THEN @ ELSE IF o = "-46" THEN 4 ELSE 6]
    [] o = "-crypt"           -> e

KnownOptions == {"-md", "-nomd", "-nr", "-nd", "-ip", "-sip", "-hc", "-nohc", "-noproxy",
                 "-nc", "-4", "-6", "-46", "-64", "-crypt"}

\* The options of a line, one after the other.
Options(e, opts) ==
  LET after[n \in 0..Len(opts)] == IF n = 0 THEN e ELSE Option(after[n - 1], opts[n])
  IN  after[Len(opts)]

\* split_passwords: "in,pkt,out"; a part that is missing or empty is Null.
split_passwords(l) ==
  [pwd |-> l.pwd[1],
   pkt_pwd |-> IF Len(l.pwd) < 2 \/ l.pwd[2] = "" THEN Null ELSE l.pwd[2],
   out_pwd |-> IF Len(l.pwd) < 3 \/ l.pwd[3] = "" THEN Null ELSE l.pwd[3]]

\* node and defnode.  A line without -pipe takes an earlier -pipe back.
read_node_info(l, c) ==
  LET s == split_passwords(l)
      e == Options([NoEdit EXCEPT !.hosts = l.hosts, !.pwd = s.pwd,
                     !.pkt_pwd = s.pkt_pwd, !.out_pwd = s.out_pwd,
                     !.obox_flvr = l.flvr, !.obox = l.obox, !.ibox = l.ibox,
                     !.pipe = l.pipe], l.opts)
      w == IF l.def THEN DefNode ELSE l.a
      r == Config_ParseAddress(w, c)
      Enter(fa) ==
        IF l.pwd = <<"">> \/ l.flvr \notin {"-", "i", "c", "d", "o", "f", "h"} THEN ConfigError(c)
        ELSE LET t == add_node(c.table, fa, e)
                 i == CHOOSE i \in DOMAIN t.nodes : t.nodes[i].fa = fa
             IN  Ok([c EXCEPT !.table = [t EXCEPT !.nodes[i].listed = "node"],
                              !.havedefnode = @ \/ l.def])
  IN  IF \E i \in DOMAIN l.opts : l.opts[i] \notin KnownOptions THEN ConfigError(c)
      ELSE IF l.n > 6 THEN ConfigError(c)
      ELSE IF r.res # "ok" THEN r ELSE Enter(FullAddress(w, c))

\* share: the shared address becomes a node, the others its links.
read_shares(l, c) ==
  LET line == [k |-> "node", def |-> FALSE, n |-> 1, a |-> l.list[1], hosts |-> <<>>,
               pwd |-> <<Null>>, opts |-> <<>>, pipe |-> "", flvr |-> "-",
               obox |-> Null, ibox |-> Null]
      r == read_node_info(line, c)
  IN  IF Len(l.list) < 2 THEN ConfigError(c)
      ELSE IF r.res # "ok" THEN r
      ELSE IF \E i \in DOMAIN l.list : ~Parsable(l.list[i]) THEN ConfigError(c)
      ELSE Ok(Add(r.c, "shares", <<[i \in DOMAIN l.list |-> FullAddress(l.list[i], c)]>>))

\* hide-aka and present-aka: an address and a mask, '!' negates it.
read_akachain(l, c) ==
  LET r == Config_ParseAddress(l.a, c) IN
  IF ~isArgCount(l, 2) THEN ConfigError(c) ELSE IF r.res # "ok" THEN r
  ELSE Ok(Add(c, "akamask", <<<<l.act, l.neg, FullAddress(l.a, c)>>>>))

-----------------------------------------------------------------------------
(* The keywords, and the reading of a file. *)

callback(l, c) ==
  CASE l.k = "string"  -> read_string(l, c)
    [] l.k = "int"     -> read_int(l, c)
    [] l.k = "time"    -> read_time(l, c)
    [] l.k = "bool"    -> read_bool(l, c)
    [] l.k = "word"    -> read_word(l, c)
    [] l.k = "port"    -> read_port(l, c)
    [] l.k = "listen"  -> read_listen(l, c)
    [] l.k = "masks"   -> read_mask(l, c)
    [] l.k = "zrules"  -> read_zrule(l, c)
    [] l.k = "ftrans"  -> read_rfrule(l, c)
    [] l.k = "perlvar" -> read_perlvar(l, c)
    [] l.k = "flag"    -> read_flag_exec_info(l, c)
    [] l.k = "skip"    -> read_skip(l, c)
    [] l.k = "rate"    -> read_rate(l, c)
    [] l.k = "pkthdr"  -> read_check_pkthdr(l, c)
    [] l.k = "domain"  -> read_domain_info(l, c)
    [] l.k = "address" -> read_aka_list(l, c)
    [] l.k = "node"    -> read_node_info(l, c)
    [] l.k = "share"   -> read_shares(l, c)
    [] l.k = "aka"     -> read_akachain(l, c)
    [] OTHER           -> ConfigError(c)               \* unknown keyword

\* The settings a configuration starts with.
Defaults ==
  [iport |-> "binkp", oport |-> "binkp", call_delay |-> 60, timeout |-> 300, oblksize |-> 4096,
   maxservers |-> 100, loglevel |-> 4, inboundcase |-> "save", renamestyle |-> "postfix",
   tzoff |-> -1, inbound |-> ".", root_domain |-> "binkp.net"]

NewWork == [vars |-> Defaults, lists |-> <<>>, domains |-> <<>>, akas |-> <<>>,
            table |-> EmptyTable, havedefnode |-> FALSE]

NotReading == [st |-> "idle", level |-> 0, head |-> 1, missing |-> FALSE,
               core |-> 0, other |-> 0, refused |-> FALSE]

\* One line: its function decides whether the reading goes on.
ReadLine(l) ==
  LET r == callback(l, work) IN
  /\ rd.st = "reading" /\ l.k # "include"
  /\ work' = r.c
  /\ rd' = [rd EXCEPT !.st = CASE r.res = "ok" -> "reading" [] r.res = "error" -> "failed"
                               [] r.res = "exit" -> "exit",
                      !.refused = @ \/ r.res # "ok",
                      !.head = IF @ <= Len(HeadLines) THEN @ + 1 ELSE @,
                      !.core = IF l \in CoreLines THEN @ + 1 ELSE @,
                      !.other = IF l \in OtherLines THEN @ + 1 ELSE @]
  /\ cfg' = cfg

(* Mutant: a file that cannot be opened is passed over. *)
include_lenient(l) ==
  /\ rd.st = "reading" /\ l.k = "include"
  /\ \/ /\ isArgCount(l, 1) /\ l.exists /\ rd.level < MaxLevel
        /\ rd' = [rd EXCEPT !.level = @ + 1, !.other = @ + 1]
     \/ /\ ~(isArgCount(l, 1) /\ l.exists /\ rd.level < MaxLevel)
        /\ rd' = [rd EXCEPT !.refused = TRUE, !.other = @ + 1]
  /\ UNCHANGED <<work, cfg>>

\* include: the lines that follow are those of the other file, down to
\* MAXINCLUDELEVEL; a file that is not there is an error.
include(l) ==
  /\ rd.st = "reading" /\ l.k = "include"
  /\ \/ /\ isArgCount(l, 1) /\ l.exists /\ rd.level < MaxLevel
        /\ rd' = [rd EXCEPT !.level = @ + 1, !.other = @ + 1]
     \/ /\ ~(isArgCount(l, 1) /\ l.exists /\ rd.level < MaxLevel)
        /\ rd' = [rd EXCEPT !.st = "failed", !.refused = TRUE]
  /\ UNCHANGED <<work, cfg>>

\* The end of an included file: on with the next line of the outer one.
EndInclude ==
  /\ rd.st = "reading" /\ rd.level > 0
  /\ rd' = [rd EXCEPT !.level = @ - 1]
  /\ UNCHANGED <<work, cfg>>

\* The file as the environment writes it: the head, at most one of its lines
\* missing, then some of the other lines, then some of the core in any order.
NextLines ==
  IF rd.head <= Len(HeadLines) THEN {HeadLines[rd.head]}
  ELSE (IF rd.core < MaxCore THEN CoreLines ELSE {})
       \cup (IF rd.core = 0 /\ rd.other < MaxOther THEN OtherLines ELSE {})

LeaveOut ==
  /\ rd.st = "reading" /\ rd.head <= Len(HeadLines) /\ ~rd.missing
  /\ rd' = [rd EXCEPT !.head = @ + 1, !.missing = TRUE]
  /\ UNCHANGED <<work, cfg>>

-----------------------------------------------------------------------------
(* After the last line. *)

Required == {"sysname", "sysop", "location", "nodeinfo"}
isDefined(c) == \A v \in Required : Var(c, v, "") # ""

\* No listen line: any address.  An entry without port: iport.
listen_ports(c) ==
  LET list == IF "listen" \in DOMAIN c.lists THEN c.lists["listen"]
              ELSE <<[addr |-> "", port |-> ""]>>
  IN  [i \in DOMAIN list |-> IF list[i].port # "" THEN list[i]
                             ELSE [list[i] EXCEPT !.port = c.vars["iport"]]]

\* A line of the passwords file; one that is no address and password is passed
\* over.
read_password(t, l, c) ==
  LET fa == FullAddress(l.a, c)
      s  == split_passwords(l)
      t1 == add_node(t, fa, [NoEdit EXCEPT !.pwd = s.pwd, !.pkt_pwd = s.pkt_pwd,
                                           !.out_pwd = s.out_pwd])
      i  == CHOOSE i \in DOMAIN t1.nodes : t1.nodes[i].fa = fa
  IN  IF ~Parsable(l.a) THEN t
      ELSE [t1 EXCEPT !.nodes[i].listed = IF @ = "unlisted" THEN "passwords" ELSE @]

read_passwords(c) ==
  LET lines == PasswordFiles[Var(c, "passwords", "")]
      after[n \in 0..Len(lines)] ==
        IF n = 0 THEN c.table ELSE read_password(after[n - 1], lines[n], c)
  IN  [c EXCEPT !.table = after[Len(lines)]]

\* A filebox must be a directory and not the outbound itself, the inbox of a
\* node must be on the partition of temp-inbound.
check_outbox(box, c) ==
  \E i \in DOMAIN c.domains : c.domains[i].alias4 = "" /\ c.domains[i].path = box

check_boxes(n, c) ==
  /\ n.obox \notin {Null, ""} => n.obox \in DOMAIN Dirs /\ ~check_outbox(n.obox, c)
  /\ n.ibox \notin {Null, ""} =>
       /\ n.ibox \in DOMAIN Dirs
       /\ Var(c, "temp_inbound", "") # "" => Dirs[n.ibox] = Dirs[c.vars["temp_inbound"]]

check_config(c) ==
  /\ Var(c, "temp_inbound", "") # "" =>
       \A v \in {"inbound", "inbound_nonsecure"} \cap DOMAIN c.vars :
         c.vars[v] \in DOMAIN Dirs => Dirs[c.vars[v]] = Dirs[c.vars["temp_inbound"]]
  /\ \A i \in DOMAIN c.table.nodes : check_boxes(c.table.nodes[i], c)

\* The configuration after the passwords are read and foreach_node has been
\* over the table.
Completed(c) ==
  LET c1 == [c EXCEPT !.lists = Put(@, "listen", listen_ports(c)),
                      !.vars = Put(@, "inbound_nonsecure",
                                   Var(c, "inbound_nonsecure", c.vars["inbound"]))]
      c2 == IF Var(c, "passwords", "") = "" THEN c1 ELSE read_passwords(c1)
  IN  [c2 EXCEPT !.table = foreach_node(@, c2.havedefnode)]

\* The end of the file: the configuration is accepted or not.
readcfg ==
  /\ rd.st = "reading" /\ rd.level = 0
  /\ LET sound == /\ isDefined(work) /\ work.akas # <<>> /\ work.domains # <<>>
                  /\ Var(work, "passwords", "") \in {""} \cup DOMAIN PasswordFiles
     IN  \/ /\ sound /\ check_config(Completed(work))
            /\ work' = Completed(work)
            /\ rd' = [rd EXCEPT !.st = "accepted"]
         \/ /\ ~(sound /\ check_config(Completed(work)))
            /\ work' = work
            /\ rd' = [rd EXCEPT !.st = "failed"]
  /\ cfg' = cfg

-----------------------------------------------------------------------------
(* A configuration that is accepted is one every line of which was taken, the
   lines of included files as well, and it is usable: its numbers and times
   are within the limits of their keywords, every address to listen on has a
   port, every node a complete address of its own and a list of hosts. *)
AcceptedWhole ==
  rd.st = "accepted" =>
    /\ ~rd.refused
    /\ \A v \in DOMAIN work.vars \cap DOMAIN Limits : Within(v, work.vars[v])
    /\ \A i \in DOMAIN work.lists["listen"] : work.lists["listen"][i].port # ""
    /\ LET n == work.table.nodes IN
       \A i \in DOMAIN n :
         /\ is4D(n[i].fa) /\ n[i].fa.domain # "" /\ n[i].hosts # <<>>
         /\ \A j \in DOMAIN n : n[i].fa = n[j].fa => i = j
=============================================================================
