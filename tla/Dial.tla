-------------------------------- MODULE Dial --------------------------------
(***************************************************************************)
(* An outgoing call, from the configuration to the session: call0 of       *)
(* client.c, h_connect of https.c, srv_getaddrinfo of srv_gai.c and run3 of *)
(* run.c.  The configuration is read (Config), the node is looked up       *)
(* (NodeTable), the Perl hook may change its hosts, and then every address *)
(* of every host is tried, directly, through a pipe, or through an HTTP    *)
(* and a SOCKS proxy, until one gives a connection to speak binkp over.    *)
(*                                                                         *)
(* The resolver, the remote hosts and the proxies answer as they like.     *)
(* Their silence is a timeout where the code has one; the two replies of a *)
(* SOCKS5 server that are read without a timeout are assumed to come.  The *)
(* session itself is BinkpHandshake and BinkpTransfer.                     *)
(***************************************************************************)
EXTENDS Config

CONSTANTS DNS,        \* host name -> addresses: [ip, family, invalid]
          SRV,        \* host name -> names its SRV record points to
          Literals,   \* host names that are IP addresses
          Links,      \* addresses that may have mail to be sent
          Hooks,      \* what on_call does: "keep", "abort", "direct", "hosts"
          HookHosts,  \* the hosts it puts
          BindErrors, \* how getaddrinfo of bindaddr may fail: "family", "other"
          MaxCalls    \* bound

ASSUME DialAssumption ==
  /\ MaxCalls \in Nat
  /\ Hooks \subseteq {"keep", "abort", "direct", "hosts"}
  /\ BindErrors \subseteq {"family", "other"}

ASSUME NamesAssumption ==
  /\ \A name \in DOMAIN DNS : IsSequence(DNS[name])
  /\ \A name \in DOMAIN SRV : IsSequence(SRV[name])
  /\ IsSequence(HookHosts)
  /\ Links \subseteq [z : Nat, net : Nat, node : Nat, p : Nat, domain : DOMAIN Rank]

VARIABLES call,     \* the call, see NoCall; as history, the valid addresses of the
                    \* proxy, those due for the present host, and those tried so far
          calls,    \* how many there were
          exiting   \* binkd_exit
vars == <<work, rd, cfg, call, calls, exiting>>
config == <<work, rd, cfg>>

NoConfig == [ready |-> FALSE]

NoCall ==
  [pc |-> "idle", node |-> [none |-> TRUE], hosts |-> <<>>, proxy |-> "", socks |-> "",
   i |-> 0, host |-> [name |-> "", suffix |-> ""], port |-> "", plist |-> <<>>, ai |-> <<>>,
   sock |-> FALSE, via |-> "", family |-> "", reach |-> "", ntlm |-> FALSE,
   proxies |-> {}, due |-> {}, tried |-> {}, odd |-> "", ret |-> ""]

At(p) == call.pc = p
Go(c) == call' = c /\ UNCHANGED <<config, calls, exiting>>

-----------------------------------------------------------------------------
(* Names. *)

\* sockaddr_cmp_addr with invalidAddresses: 0.0.0.0 and ::
InvalidAddress(a) == a.invalid
Valid(list) == {a.ip : a \in {b \in Range(list) : ~InvalidAddress(b)}}

getaddrinfo(name, family) ==
  LET all == IF name \in DOMAIN DNS THEN DNS[name] ELSE <<>>
      list[n \in 0..Len(all)] ==
        IF n = 0 THEN <<>>
        ELSE IF family \in {"old", "unspec", all[n].family} THEN Append(list[n - 1], all[n])
        ELSE list[n - 1]
  IN  list[Len(all)]

NamedServices == {"binkp", "squid", "socks"}

\* SRV records only for a name and a named service; the addresses of all
\* targets that resolve, else those of the name itself.
srv_getaddrinfo(host, port, family) ==
  LET name == IF host.name = "*" THEN host.suffix ELSE host.name
      targets == IF host.name \in Literals \/ port \notin NamedServices \/ name \notin DOMAIN SRV
                 THEN <<>> ELSE SRV[name]
      list[n \in 0..Len(targets)] ==
        IF n = 0 THEN <<>> ELSE list[n - 1] \o getaddrinfo(targets[n], family)
  IN  IF list[Len(targets)] # <<>> THEN list[Len(targets)] ELSE getaddrinfo(name, family)

\* -46 and -64: the first address of the wanted family that follows one of
\* the other goes to the front.
Moved(list, AFF) ==
  LET want == IF AFF = 6 THEN "v6" ELSE "v4"
      at == {i \in 2..Len(list) : list[i].family = want /\ list[i - 1].family # want}
  IN  IF AFF = 0 \/ list = <<>> THEN 0
      ELSE IF list[1].family = want \/ at = {} THEN 0
      ELSE CHOOSE i \in at : \A j \in at : i <= j

(* Mutant: the address is taken out and not put in front. *)
ReorderedLess(list, k) == IF k = 0 THEN list ELSE RemoveAt(list, k)

Reordered(list, k) == IF k = 0 THEN list ELSE <<list[k]>> \o RemoveAt(list, k)

\* getwordx2 with "," and ";": the n-th word, also an empty one; nothing
\* after a separator at the end.
WordCount(hosts) ==
  IF hosts # <<>> /\ Last(hosts).name = "" /\ Last(hosts).port = ""
  THEN Len(hosts) - 1 ELSE Len(hosts)

-----------------------------------------------------------------------------
(* The start of a call. *)

\* A mail for a: the node is looked up, and called unless its hosts are "-".
StartCall(a) ==
  LET t == get_node_info(cfg.table, a, cfg.havedefnode)
      i == search_for_node(t, a)
  IN  /\ At("idle") /\ cfg.ready /\ calls < MaxCalls /\ ~exiting
      /\ cfg' = [cfg EXCEPT !.table = t]
      /\ calls' = calls + 1
      /\ call' = IF i = 0 \/ t.nodes[i].hosts = <<[name |-> "-", port |-> ""]>> THEN NoCall
                 ELSE [NoCall EXCEPT !.pc = "hook", !.node = t.nodes[i], !.hosts = t.nodes[i].hosts,
                                     !.proxy = cfg.proxy, !.socks = cfg.socks]
      /\ UNCHANGED <<work, rd, exiting>>

\* The hour of the entries that came from defnode is over.
Recheck ==
  /\ At("idle") /\ cfg.ready /\ calls > 0
  /\ cfg' = [cfg EXCEPT !.table.nodes = [i \in DOMAIN @ |-> [@[i] EXCEPT !.due = TRUE]]]
  /\ UNCHANGED <<work, rd, call, calls, exiting>>

Return(c, ret) == [c EXCEPT !.pc = "idle", !.ret = ret]

(* Mutant: only the proxy counts, not -noproxy of the node. *)
use_proxy_always(c) == c.node.pipe \in {Null, ""} /\ (c.proxy # "" \/ c.socks # "")

use_proxy(c) ==
  /\ c.node.flags["NP"] # "on" /\ c.node.pipe \in {Null, ""}
  /\ c.proxy # "" \/ c.socks # ""

\* perl_on_call may forbid the call, or change hosts and proxies.
perl_on_call ==
  LET Next(c) == [c EXCEPT !.pc = IF use_proxy(c) THEN "proxy" ELSE "hosts"] IN
  /\ At("hook")
  /\ \E h \in Hooks :
       Go(CASE h = "keep"   -> Next(call)
            [] h = "abort"  -> Return(call, "aborted")
            [] h = "direct" -> Next([call EXCEPT !.proxy = "", !.socks = ""])
            [] h = "hosts"  -> Next([call EXCEPT !.hosts = HookHosts]))

\* The address of the proxy, with its service or the default port.
ResolveProxy ==
  LET name == IF call.proxy # "" THEN call.proxy ELSE call.socks
      service == IF call.proxy # "" THEN "squid" ELSE "socks"
      list == srv_getaddrinfo([name |-> name, suffix |-> ""], service, call.node.flags["family"])
  IN  /\ At("proxy")
      /\ \/ /\ list # <<>>
            /\ Go([call EXCEPT !.pc = "hosts", !.plist = list, !.proxies = Valid(list)])
         \/ Go(Return(call, "aborted"))

-----------------------------------------------------------------------------
(* The hosts. *)

get_host_and_port(n) ==
  IF n > WordCount(call.hosts) THEN -1 ELSE IF find_port(call.hosts[n].port) THEN 1 ELSE 0

\* The next host: a wrong port is passed over, after the last the call failed.
\* With a proxy the host is not resolved: the addresses are the proxy's, all
\* of which are due.  The one that -46 or -64 moves to the front of the chain
\* is out of reach for the hosts to come: aiProxyHead is not set to it.
NextHost ==
  LET n == call.i + 1
      rc == get_host_and_port(n)
      w == call.hosts[n]
      c == [call EXCEPT !.i = n,
              !.host = IF w.name = "*" THEN ftnaddress_to_domain(call.node.fa, cfg.domains, cfg.root)
                       ELSE [name |-> w.name, suffix |-> ""],
              !.port = IF w.port = "" THEN cfg.oport ELSE w.port]
      k == Moved(call.plist, call.node.AFF)
  IN  /\ At("hosts")
      /\ \/ rc = -1 /\ Go(Return(call, "failed"))
         \/ rc = 0 /\ Go([call EXCEPT !.i = n])
         \/ /\ rc = 1
            /\ Go(IF c.node.pipe \notin {Null, ""} THEN [c EXCEPT !.pc = "pipe"]
                  ELSE IF ~use_proxy(c) THEN [c EXCEPT !.pc = "resolve"]
                  ELSE [c EXCEPT !.pc = "address", !.ai = Reordered(c.plist, k),
                                 !.plist = IF k = 0 THEN @ ELSE RemoveAt(@, k),
                                 !.due = c.proxies])

\* run3: pipes and a process whose standard input and output they are.
run3 ==
  /\ At("pipe")
  /\ \/ Go([call EXCEPT !.pc = "session", !.sock = TRUE, !.via = "pipe", !.reach = "node"])
     \/ Go([call EXCEPT !.pc = "hosts"])

Resolve ==
  LET list == srv_getaddrinfo(call.host, call.port, call.node.flags["family"]) IN
  /\ At("resolve")
  /\ \/ /\ list # <<>>
        /\ Go([call EXCEPT !.pc = "address",
                 !.ai = Reordered(list, Moved(list, call.node.AFF)),
                 !.due = Valid(list)])
     \/ Go([call EXCEPT !.pc = "hosts"])                  \* bad_try

-----------------------------------------------------------------------------
(* The addresses of a host. *)

Close(c) == [c EXCEPT !.sock = FALSE, !.via = "", !.family = "", !.reach = ""]

\* After the loop over the addresses: with a socket on to the proxy or the
\* session, without one to the next host.
Leave(c) ==
  [c EXCEPT !.pc = IF ~c.sock THEN "hosts" ELSE IF ~use_proxy(c) THEN "session"
                   ELSE IF c.proxy # "" THEN "http" ELSE "socks",
            !.ntlm = c.sock /\ c.proxy = "ntlm"]

\* The next address: an invalid one and one there can be no socket for are
\* passed over.  When the program is ending the call is left with its socket.
NextAddress ==
  /\ At("address")
  /\ IF call.ai = <<>> THEN Go(Leave(call))
     ELSE LET a == Head(call.ai)
              rest == [call EXCEPT !.ai = Tail(@)]
              done == [rest EXCEPT !.due = @ \ {a.ip}, !.tried = @ \cup {a.ip}]
          IN  \/ InvalidAddress(a) /\ Go(rest)
              \/ ~InvalidAddress(a) /\ Go(done)                       \* socket() failed
              \/ /\ ~InvalidAddress(a)
                 /\ Go(IF exiting THEN Return([done EXCEPT !.sock = TRUE], "exit")
                       ELSE [done EXCEPT !.pc = "bind", !.sock = TRUE, !.family = a.family])

\* bindaddr: when it has no address of this family the code goes on with the
\* next address, but the socket is open, and the loop ends.
Bind ==
  /\ At("bind")
  /\ \/ Go([call EXCEPT !.pc = "connect"])
     \/ /\ cfg.bindaddr # "" /\ "family" \in BindErrors
        /\ Go(Leave([call EXCEPT !.odd = "bind"]))

\* connect, under the alarm of connect-timeout.
Connect ==
  /\ At("connect")
  /\ LET via == IF ~use_proxy(call) THEN "direct" ELSE IF call.proxy # "" THEN "proxy" ELSE "socks"
     IN  \/ Go(Leave([call EXCEPT !.via = via, !.reach = IF via = "direct" THEN "node" ELSE via]))
         \/ Go(Close([call EXCEPT !.pc = "address"]))     \* bad_try

-----------------------------------------------------------------------------
(* h_connect. *)

(* Mutant: the socket is given up without being closed. *)
FailedOpen == Go([call EXCEPT !.pc = "hosts", !.odd = "", !.due = {}])

\* It failed: bad_try, and the next host; what is left of the proxy's
\* addresses is not tried for this one.
Failed == Go(Close([call EXCEPT !.pc = "hosts", !.odd = "", !.due = {}]))

\* CONNECT through an HTTP proxy, to the SOCKS server if there is one.  An
\* NTLM proxy answers with a challenge first; the second CONNECT names the
\* node even when there is a SOCKS server.
HTTP ==
  LET to == IF call.socks # "" /\ (call.proxy # "ntlm" \/ call.ntlm) THEN "socks" ELSE "node" IN
  /\ At("http")
  /\ \/ Failed                             \* rejected, closed, timeout
     \/ /\ call.ntlm /\ call.reach = "proxy"
        /\ Go([call EXCEPT !.ntlm = FALSE])
     \/ /\ call.reach = "proxy"
        /\ Go([call EXCEPT !.pc = IF call.socks # "" THEN "socks" ELSE "session", !.reach = to])

\* To the SOCKS server: version 4 for every IPv4 address of the host, version
\* 5 (a '/' after the server) for the name, after the method and password.
Socks ==
  LET list == srv_getaddrinfo(call.host, call.port, "v4") IN
  /\ At("socks")
  /\ \/ Failed
     \/ call.socks # "socks4" /\ Go([call EXCEPT !.pc = "method"])
     \/ call.socks = "socks4" /\ list # <<>> /\ Go([call EXCEPT !.pc = "socks4", !.ai = list])

\* A server of SOCKS takes the method; anything else does not answer so.
Method ==
  /\ At("method")
  /\ \/ Failed
     \/ call.reach = "socks" /\ Go([call EXCEPT !.pc = "socks5"])
     \/ call.reach = "socks" /\ call.socks = "socks5auth" /\ Go([call EXCEPT !.pc = "password"])

Password ==
  /\ At("password")
  /\ \/ Failed
     \/ Go([call EXCEPT !.pc = "socks5"])

Socks5 ==
  /\ At("socks5")
  /\ \/ Failed
     \/ Go([call EXCEPT !.pc = "session", !.reach = "node"])

\* A refused address: the next one.  After the last the function returns 0,
\* as if the connection stood.
Socks4 ==
  /\ At("socks4")
  /\ \/ Failed
     \/ /\ call.reach = "socks"
        /\ Go([call EXCEPT !.pc = "session", !.reach = "node"])
     \/ /\ call.reach = "socks"
        /\ Go(IF Len(call.ai) > 1 THEN [call EXCEPT !.ai = Tail(@)]
              ELSE [call EXCEPT !.pc = "session", !.odd = "socks4"])

\* protocol() returns; the socket, or the pipes, are closed.
Hangup ==
  /\ At("session")
  /\ Go(Close(Return(call, "done")))

\* SIGTERM, or the end of the server manager.
Exit ==
  /\ ~At("idle") /\ ~exiting
  /\ exiting' = TRUE
  /\ UNCHANGED <<config, call, calls>>

-----------------------------------------------------------------------------
Init ==
  /\ work = NewWork /\ rd = [NotReading EXCEPT !.st = "reading"] /\ cfg = NoConfig
  /\ call = NoCall /\ calls = 0 /\ exiting = FALSE

\* The accepted configuration comes into force.
TakeConfig ==
  /\ rd.st = "accepted"
  /\ cfg' = [ready |-> TRUE, table |-> work.table, havedefnode |-> work.havedefnode,
             domains |-> work.domains, root |-> work.vars["root_domain"], oport |-> work.vars["oport"],
             proxy |-> Var(work, "proxy", ""), socks |-> Var(work, "socks", ""),
             bindaddr |-> Var(work, "bindaddr", "")]
  /\ rd' = NotReading /\ work' = NewWork
  /\ UNCHANGED <<call, calls, exiting>>

Reading == /\ \/ \E l \in NextLines : ReadLine(l) \/ include(l)
              \/ EndInclude \/ LeaveOut \/ readcfg
           /\ UNCHANGED <<call, calls, exiting>>

Dialling == \/ perl_on_call \/ ResolveProxy \/ NextHost \/ run3 \/ Resolve \/ NextAddress
            \/ Bind \/ Connect \/ HTTP \/ Socks \/ Method \/ Password \/ Socks5 \/ Socks4
            \/ Hangup

Next == Reading \/ TakeConfig \/ Dialling \/ Exit \/ Recheck \/ \E a \in Links : StartCall(a)

\* A call goes on: every wait of the code ends, see above.
Spec == Init /\ [][Next]_vars /\ WF_vars(Dialling)

-----------------------------------------------------------------------------
(* The binary search finds every node of the table in force, and finds it at
   its own place: defnode never makes a second entry of one, and a node with
   a password is never taken for an unknown one.  The table is filled by the
   lines of the configuration and by the passwords file, grows with every
   lookup of a node that is not in it, and is sorted by whoever remembers to. *)
NodesFound ==
  cfg.ready =>
    \A i \in DOMAIN cfg.table.nodes : search_for_node(cfg.table, cfg.table.nodes[i].fa) = i

(* A session runs over a connection that reaches the node, the way the
   configuration and the hook say: not around a proxy, not over a proxy that
   a node with -noproxy must not use, and not to an address of a family that
   -4 or -6 excludes.  But for the two paths marked odd, see Bind and Socks4. *)
SessionReaches ==
  At("session") /\ call.odd = "" =>
    /\ call.reach = "node"
    /\ call.via = "direct" => \/ call.node.flags["NP"] = "on"
                              \/ call.proxy = "" /\ call.socks = ""
    /\ call.via \in {"proxy", "socks"} => call.node.flags["NP"] # "on"
    /\ call.via # "pipe" => call.node.flags["family"] \in {"old", "unspec", call.family}

\* The addresses that may be left out for a host: with a proxy and -46 or -64,
\* those that were tried for a host before it.
MayMiss(c) == IF use_proxy(c) /\ c.node.AFF # 0 THEN c.tried ELSE {}

(* A call that fails has been through the whole list of hosts, and when it
   goes on to the next host no valid address of the last one is left untried:
   none is lost by a host with a bad port, by an invalid address, by a socket
   that cannot be made, nor by the reordering of -46 and -64 when the host is
   called directly.  The reordering of a proxy's addresses does lose some for
   the later hosts of the call, but never one that was not tried before. *)
AllTried ==
  /\ At("hosts") => call.due \subseteq MayMiss(call)
  /\ call.ret = "failed" => call.i = WordCount(call.hosts)

(* A call ends, and leaves no socket behind unless the program is ending. *)
CallEnds == ~At("idle") ~> At("idle") /\ (~call.sock \/ exiting)
=============================================================================
