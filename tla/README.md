# A TLA+ development of binkd

binkd is a FidoTech mailer: it calls other mailers (or is called by them) over
TCP, authenticates, and exchanges files by the binkp protocol. What makes it
correct is said quickly and is hard to test: mail that has left one machine's
outbound is in the other machine's inbound, once, whatever broke in between.
This directory models the parts of the program that have to make this true,
checks them with TLC on small instances and proves the central facts with TLAPS
for all instances.

Paths like `protocol.c:2221` are relative to the repository's root.
`PROJECT.json` maps every definition to the lines it models.

## 1. Inventory

| component | state it keeps | operations | talks to |
|---|---|---|---|
| **binkp transfer** (`protocol.c`) | `STATE`: the queue `q`, the file being sent `out`, the files sent and not yet acknowledged `sent_fls`, the file being received `in`, the received file waiting to be renamed `in_complete`, `waiting_for_GOT`, `off_req_sent`, `send_eof`, `GET_FILE_balance`, `msgs_in_batch`, the two `EOB` flags | `start_file_transfer`, `send_block`, `recv_block` and the handlers `start_file_recv`, `GET`, `GOT`, `SKIP`, `EOB`; the main loop `protocol` | the peer, by frames; the spool, the `.stc` status file, the inbound |
| **binkp handshake** (`protocol.c`) | `state`, `NR_flag`, `ND_flag`, `crypt_flag`, `MD_flag`, the addresses `fa` | `banner`, `NUL`, `ADR`, `PWD`, `OK`, `complete_login` | the peer; busy flags; node records |
| **framing** (`protocol.c`) | `msgs`, `obuf`/`oleft`, `ibuf`/`isize`/`iread` | `msg_send2`, `send_block`, `recv_block` | sockets, the session key stream |
| **inbound** (`inbound.c`) | `.hr`/`.dt` pairs, the inbound directory | `inb_fopen`, `inb_done`, `inb_reject`, `inb_test`, `inb_remove_partial` | the receiver; the tosser |
| **outbound queue** (`ftnq.c`, `readflo.c`) | the `FTNQ` list; per node `hold_until`, `.hld`, `.try`, flavours | `q_scan*`, `q_sort`, `select_next_file`, `create_poll`, `hold_node`, `good_try`, `bad_try` | the client manager, the sender |
| **busy flags** (`bsy.c`, `bsycleanup.c`) | `.bsy`/`.csy` files, `bsy_list` | `bsy_add`, `bsy_test`, `bsy_remove`, `bsy_touch`, clean-up at start | every process that shares the outbound |
| **client manager** (`client.c`) | `n_clients`, the node to call | `do_client`, `call`, `call0` | queue, busy flags, transfer |
| **server manager** (`server.c`, `binkd.c`) | `n_servers`, the listening sockets | `servmgr`, `serv` | transfer |
| **compression** (`protocol.c`, `compress.c`) | `z_send`, `z_recv`, the codecs, what is left in `z_obuf` | `z_send_init`, `z_send_stop`, `do_compress`, `do_decompress` | the sender's and the receiver's blocks |
| **configuration** (`readcfg.c`) | `work_config`; the current configuration, its files' times and its use count | the functions of the keywords, `readcfg`, `checkcfg`, `lock_config_structure`, `unlock_config_structure` | everything |
| **nodes** (`ftnaddr.c`, `ftndom.c`, `ftnnode.c`) | domains, our addresses, the sorted table of nodes | `parse_ftnaddress`, `exp_ftnaddress`, `add_node`, `get_node_info`, `get_defnode_info` | configuration, handshake, client manager |
| **dialling** (`client.c`, `https.c`, `srv_gai.c`, `run.c`) | the hosts and addresses still to try, the socket | `call0`, `h_connect`, `srv_getaddrinfo`, `run3` | resolver, proxies, remote |
| **events, requests** (`run.c`, `srif.c`) | the files answered to a request | `evt_run`, `srif_fill`, `parse_response` | inbound, sender |
| **Perl hooks** (`perlhooks.c`) | an interpreter per configuration, a clone per thread | about fifteen hooks | whatever calls them |
| **AmigaOS port** (`amiga/`) | a table of sessions, counters, the loop's configuration | `amiga_evloop_run`, `amiga_proto_step` | the same protocol code |
| **logging, tools, other ports, helper programs** | – | – | – |

What is hard in this code:

* the session may end at any frame, on one side before the other, and the next
  session has only the two disks to go by (spool, `.stc`, `.hr`/`.dt`, inbound);
* frames of a session are acted upon later than they were sent: an `M_GET`
  crosses data of the file it is about, an `M_GOT` crosses the next `M_FILE`,
  `M_EOB` crosses everything;
* data blocks do not name their file;
* the modes (plain, NR, ND) share the handlers, and the node's configuration may
  change the mode from one session to the next;
* several flags have to be cleared by whichever reply arrives, or both mailers
  wait until the timeout;
* crashes between two writes to disk;
* processes that know of each other only by files in the outbound: a flag may be
  left by a dead process, deleted as old, or removed by a program that starts,
  and what the client manager has scanned is out of date when it is used;
* in the build with threads, a configuration that is replaced while sessions,
  hooks and managers are using the old one;
* bytes: sockets take and give any part of a frame, a key stream runs over all
  of them, and a codec keeps input that belongs to the next block;
* lists that are walked with failures at every element (hosts, addresses,
  proxies, lines of a `.?lo`, lines of a configuration).

The properties each component needs are in the plan below; the places where the
code is exposed are listed as hazards in `PROJECT.json`.

## 2. Plan

Ordered by what matters most.

1. `BinkpTransfer` – the transfer over breaking sessions, with the disks of both
   sides. Safety of acknowledged files, no loss, no duplicates, progress. *Done;
   its central safety, that blocks belong to the file they are written to, and that
   ND mode loses nothing and delivers nothing twice, are proved in
   `BinkpTransferProofs`.*
2. `BinkpHandshake` – the start of a session up to the login, for crossing calls
   between two nodes. It justifies the symmetric `mode` of `BinkpTransfer`.
   *Done; the exclusion by busy flags, the agreement of the two ends and the
   authentication are proved in `BinkpHandshakeProofs`.*
3. `Mailer` – the client and the server manager, their children and the busy
   flags they share with other programs. *Done; the exclusion and the limits are
   proved in `MailerProofs`.*
4. `Framing` and `DataPath` – messages, blocks, encryption and compression over
   partial reads and writes; `FrameStream` is what `BinkpTransfer` assumes of
   its streams, and `Framing` is shown to implement it. *Done; the implementation
   is proved in `DataPathProofs`.*
5. `Outbound` – the queue of a session, `.?lo` files, fileboxes, requests, and
   the removal from the spool write by write. *Done; that no mail is lost, and
   that none is sent twice in a session, is proved in `OutboundProofs`.*
6. `Reload` – the configuration that threads share. *Done; that nothing in use
   is freed is proved in `ReloadProofs`.*
7. `NodeTable`, `Config`, `Dial` – from a line of the configuration to a
   connection. *Done; its safety is proved in `DialProofs`.*
8. `AmigaLoop` – the build without processes or threads. *Done; its safety is
   proved in `AmigaLoopProofs`.*
9. A proof still worth having: that the compressed stream of a file says what the
   file holds (`FileRestored`), by an induction over the rounds of the codec.

How they fit together:

* `DataPath` EXTENDS `Framing`, `Framing` INSTANCEs `FrameStream`; the frames of
  `BinkpTransfer` and `BinkpHandshake` are members of its `stream`.
* `Dial` EXTENDS `Config`, which EXTENDS `NodeTable`: a configuration is read,
  its table is used, and the table changes by being used.
* `Mailer` has sessions that succeed, fail or are killed, which is what the
  session modules look like from outside; `Outbound` relies on what `Mailer`
  shows, that a tosser and a session exclude each other, and abstracts the frames
  of `BinkpTransfer` to "the remote takes, has or skips a file".

## 3. `BinkpTransfer`: the file transfer

One direction: a sender with a spool, a receiver with an inbound. (binkp is
symmetric and the two directions share only the main loop; each direction's
handlers touch fields of their own, apart from the end of a batch.)

| model | code |
|---|---|
| `spool`, `stc` | the files of the outbound; `<node>.stc` written by `ND_set_status` |
| `dt[f]` | the length of the `.dt` file of `f` (`Absent`: no `.hr`/`.dt` pair) |
| `inbound`, `delivered[f]` | renamed files not yet taken by the tosser; how often `f` was renamed (0, 1, 2 = more) |
| `mode` | the negotiated mode: `nd` is `WE_ND` at the sender and `THEY_ND` at the receiver; `NextModes` says which modes the next session may have, that is how the configurations may change in between |
| `s2r`, `r2s` | the two TCP streams, as sequences of frames |
| `snd.q`, `.qs` | `state.q` without its status entry, and that entry (type `'s'`) |
| `snd.out`, `.status`, `.pos` | `state.out`; whether it is a status (no open file); the file position |
| `snd.sent` | `sent_fls` |
| `snd.offReq`, `.waitGOT`, `.sendEof` | `off_req_sent`, `waiting_for_GOT`, `send_eof` |
| `snd.ndAddr` | `ND_addr.z != -1` |
| `snd.msgs`, `rcv.msgs` | `msgs_in_batch`: every message sent or read counts (`OneMore`), up to 3 (only `<= 2` is asked) |
| `rcv.rules` | what the receiver's `skip` rules and its `before_recv` hook answer for each file: take it, keep it waiting, have it destroyed |
| `refused` | history: the files a rule had the sender destroy |
| `rcv.in`, `.complete` | `state.in` with an open file; `in_complete` |
| `rcv.balance`, `.skipAll`, `.theyNR` | `GET_FILE_balance`, `skip_all_flag`, `NR_flag & THEY_NR` |

Every handler is one action (`start_file_recv`, `GET`, `GOT`, `SKIP`, `RecvData`
for the data branch of `recv_block`, `SenderEOB`/`ReceiverEOB`), as are the
steps of the main loop: start the next file, send a block, send `M_EOB`, end
the batch. `Connect` starts a session once both sides have left the previous
one. `SenderDrop`/`ReceiverDrop` stand for everything that ends a session from
outside (the network, the timeout, an `M_ERR`); a side that leaves closes both
its streams, and the other may still act on what it sent before. Faults are
switched by the constant `Faults`: `crash` (the receiver is killed), `gotcrash`
(the sender is, in `GOT` between its two writes), `space` (no room in the
inbound), `stc` (the status cannot be written), `rename` and `eobrename`
(`inb_done` fails: at an `M_FILE` or the last block, or at the `M_EOB`).

A receiver may be set to refuse files (`Ruled`, `protocol.c:1982-2008`): a
destructive rule (`skip ... !`) or `before_recv` answers the `M_FILE` by an
`M_GOT`, on which the sender deletes a file nobody holds; a rule that is not, by an
`M_SKIP` for this file, without `skip_all_flag`. The answer is a constant of the
session for each file (`SkipRules` has what a session may start with); a hook that
answers differently for two announcements of one file in one session is left out.

A failing `inb_done` ends the session as the code does: by the flags it leaves.
Whoever has seen and sent `M_EOB` and owes nothing takes the session for a
successful one (`Successful`), and its end removes every partial (`Tidied`).
`EOB` sets `remote_EOB` before it renames, so this holds of a session that a
failing rename ends there.

Abstractions: a file is its (netname, size, time), compared as by `tfile_cmp`;
contents are blocks, and `Size` counts them; a `.pkt` matters only because
`close_partial` treats it differently; the order of files of one type in the
queue is left open, and whether the scan puts `.stc` first is the constant
`StatusFirst` (section 12). `Window` bounds the frames a sender may have in
flight. Compression is in `DataPath`, `.?lo` files and delayed `M_EOB` are in
`Outbound`. In no module: the random netname of netmail packets, and both
directions at once.

### Properties

* `GotMeansHeld`: an `M_GOT` under way is for a file the receiver holds, renamed
  or whole in its `.dt`, or one that a rule had destroyed. `SpoolSafe`: no step
  removes from the spool a file that is neither.
* `DataBelongs`: what the receiver writes is what the sender read, of the same
  file and from the same offset.
* `NoLoss`: a file that has left the spool is delivered, was destroyed by a rule, or
  its `.dt` is whole and something that survives will still ask for it.
* `NoDup`: nothing is delivered twice.
* `Delivers`, `SessionsEnd`: when the line stops breaking, everything that no rule
  destroys is delivered, and the sessions end by themselves.

### Runs

| run | instance | shows |
|---|---|---|
| `transfer_any` | files of 1 and 2 blocks, one of them a `.pkt`; all modes, changing at will; rules that keep one file waiting and destroy the other, or none; all faults | `TypeOK`, `GotMeansHeld`, `DataBelongs`, `SpoolSafe` |
| `transfer_live` | no `.pkt`, status first; a link that keeps ND, or one that keeps NR; a rule that destroys a file, or none; crash, rename; fair | `NoLoss`, `NoDup` (of the ND link), `Delivers`, `SessionsEnd` |
| `eob_rename` | no `.pkt`, status first; a link that keeps ND; eobrename | violated: `NoLoss` (section 12) |

Two files are the least with which one file's frames can meet another's; sizes 1
and 2 give a file that fits in one block and one that can be cut; a window of 2
or 3 frames lets a reply cross a later frame. Sessions may break and resume
without bound (the state space is finite: no counter grows).

What the runs leave out because it does not hold:

* with `gotcrash` `NoDup` fails even in ND mode: a sender killed between writing
  `.stc` and removing the file offers it under both names, and a file renamed and
  tossed between the two offers is delivered again. `NoLoss` holds (the theorem
  `NothingLost` has this fault); a killed receiver harms neither;
* with `eobrename` `NoLoss` and `Delivers` fail: `eob_rename` shows it;
* with an empty file `NoDup` fails (offset 0 is taken for "all received" by `GET`);
* with `space` `SessionsEnd` fails: a disk that fills between an `M_GET` and the
  `M_FILE` that answers it leaves `GET_FILE_balance` at 1, and the receiver waits
  for the timeout;
* in plain mode `Delivers` and `SessionsEnd` fail: an `M_GET` that is read during the
  next file moves the half-sent file to `sent_fls`, where nobody sends the rest, and
  both wait for the timeout; the next session may do the same. The safety of plain
  mode is in `transfer_any`;
* with a rule that keeps a file waiting for ever `Delivers` is not to be had, so
  `transfer_live` has rules that destroy.

All are hazards in `PROJECT.json` or named in section 12.

Fairness (`FairSpec`): each main loop goes on while it has something to read, to
send or to conclude; a side notices that the other has closed; the client
manager calls again. No fairness is assumed of breaks, faults or the tosser, and
the liveness properties are conditional on the breaks ceasing (`Calm`).

## 4. `BinkpHandshake`: the start of a session

Calls are a constant: each has a calling end `"o"` and an answering end `"a"`,
both with a `STATE` of their own, and a stream of frames to either end. Several
calls between the same two machines may cross, so that the sessions of one node
compete for its busy flags.

| model | code |
|---|---|
| `conf[n]` | the configuration of a node: its `node` entries, shared akas, `no_MD5`, `no_crypt`, `delay_ADR`, the addresses it announces (`akas`, after hiding), the command line's `remote_fa`, and whose `.hr` files it keeps (`partials`) |
| `end[c][s].state`, `.ext` | `state->state`, `ext_rem_stat` |
| `.NR`, `.ND`, `.crypt`, `.MD` | the flags, as sets of the bits `WE`, `THEY`, `WANT`, `NDA`, `YES`; `MD_flag` with its -1 |
| `.chal`, `.buggy`, `.epwd` | `MD_challenge != 0`, `buggy_NR`, `expected_pwd` (`"-"` none, `"!"` any, `""` forbidden) |
| `.fa` | `state->fa`: the addresses whose flags this session holds |
| `.todo`, `.ipv`, `.main`, `.asks` | the locals of `ADR`: addresses still to look at, `ip_verified`, `main_AKA_ok`, and the modes that the entries met ask for |
| `.key_in`, `.key_out` | the keys `complete_login` sets up: a direction and a password |
| `.sent`, `.heard` | the first frame after the login has been sent; whether the one received could be read |
| `bsy[n][a]` | who created the `.bsy` of `a` in the outbound of `n` |

A handler is an action (`banner`, `NUL_VER`, `NUL_OPT`, `RError`, `PWD`, `OK`),
except `ADR`: it takes locks one address after the other while other sessions
of the node run, so it is an action per address (`AdrDrop`, `AdrLock`,
`AdrBusy` or an early return), and one for its end (`AdrFails`, `AdrDoneIn`,
`AdrDoneOut`). `Quit` is the way out of `protocol()`: the queued frames are
sent, the connection is closed and `deinit_protocol` removes the flags.
`TosserLocks`/`TosserFrees` are other programs that use busy flags. The
`-ip` check is reduced to its four outcomes; a digest is the password it was
made of, which only the same password matches.

Not in the model: Perl hooks, bandwidth limits, compression, the order of frames
that only another mailer would send (a second `M_PWD`, `M_PWD` before `M_ADR`).

### Properties

* `LinksHeld`, `NoFlagLeft`: as long as a session works for an address it is the
  owner of its flag, and no way out of a login leaves a flag.
* `ModesAgree`: what one end asked for (`THEY_ND`, `WANT_NR`) is what the other
  does, asymmetric ND and old mailers included.
* `FramesReadable`: encryption is on at both ends, with one password, or off.
* `AkasAuthenticated`: all addresses that an answering session serves and that
  have a password have the one the caller proved.
* `SecurityAgrees`: both ends take the session for protected, or none does.
* `CalledNodeHeld`: a caller goes on only with the lock of the node it called.
* `LoginsEnd`: no configuration makes both ends wait.

### Runs

| run | instance | shows |
|---|---|---|
| `handshake_login` | one call, fair; nd/nr per entry, old versions and partials, with and without a password; all pairs of passwords, MD5 optional or demanded by the called node and off, optional or demanded for the caller, encryption, `delay_ADR`; two addresses and shared ones with passwords and the `-ip` check per entry | `ModesAgree`, `FramesReadable`, `AkasAuthenticated`, `SecurityAgrees`, `LoginsEnd` |
| `handshake_cross` | two crossing calls, two addresses at one node, breaks, too many servers, a tosser | `LinksHeld`, `NoFlagLeft`, `CalledNodeHeld` |

The bounds: the caller has two addresses and the called node one, so a list of
addresses can fail half-way; one shared aka is the least that adds an address nobody
announced; two calls are the least that compete. The configurations of a run are a
set (`Confs`), chosen to vary what the run is about and to keep the rest fixed. That
the called node refuses MD5 for an entry (`-nomd`) stays out of the run, since the
two ends then disagree about encryption (section 12). Fairness is weak fairness of
each end's `Turn`: `select()` returns when a frame can be read or written. None is
assumed of breaks and tossers.

## 5. `Mailer`: managers, children and busy flags

The build that forks. The disk is shared by all processes; the list of nodes
belongs to the client manager; each child has its `bsy_list`.

| model | code |
|---|---|
| `mail[n]` | the highest flavour among what waits for `n` in the outbound |
| `hld[n]`, `nbad[n]` | its `.hld` (absent, its time over, to come) and the failures in its `.try` |
| `flag[k][n]` | its `.csy` and `.bsy`: absent (0), touched in this period (1), older (2), older than `kill-old-bsy` (3) |
| `toss[n]` | a tosser has created the `.bsy` of `n` |
| `mgr` | both managers, which end together (`exitfunc` kills the client manager, `chld` ends the server manager when the client manager is gone); `"quit"` is the end of `-p` |
| `q_present`, `scan`, `flvr`, `busy`, `hold` | `q_present`; the directory entries still to be read; `mail_flvr`/`files_flvr`, `busy` and `hold_until` of the node records |
| `n_clients`, `n_servers` | the counters |
| `proc[p]` | a child: where it is, its node, its `bsy_list` (`flags`), whether `bsy_touch` has run in this period, whether it is a child of the running managers (`ours`), and the answer to "too many servers" (`many`) |

`q_free`, then `q_add_file`, `process_hld` and `process_bsy` per directory entry
are the scan; it is not atomic and children work in between. `CallSkips`,
`CallStarts`, `CallNotStarted`, `Sleep` and `SleepFull` are the branches of
`do_client`; `Accept` and `ServChld` those of `do_server`. A child is `call`
(the `.csy`), `Connected`/`NotConnected` (`call0`), `Login` (the `.bsy`), a
session that ends well, skips or fails, and `HangUp`; `Terminated` is SIGTERM
(`exitfunc` removes the flags), `Killed` is SIGKILL. `Shutdown` leaves the
children running, `PowerFails` leaves only the disk. `Startup` and `poll_node`
(`binkd -n -P`) run `cleanup_old_bsy`.

Time is `Tick`, a period shorter than `kill-old-bsy` in which every process with
a flag gets round to touching it (`BSY_TOUCH_DELAY` is a minute), every dialling
ends and every tosser finishes: `Punctual`. A program that hangs for longer
loses its flag, in the code as in the model. A hold lasts until the next `Tick`.

`StartsAlone` is what an operator has to see to: binkd is started only when no
child of an earlier run, no other binkd and no tosser uses the outbound. Without
it the exclusion fails (section 12).

Elsewhere: the list of hosts and proxies (`Dial`), the threads of the other
build and the reload (`Reload`). Not in the model: `-i`, shared akas. The number of
children is bounded by `Callers` and `Servers`; the flavours by `MailFlavours`.

### Properties

* `OneSession`: a link is worked by one process at a time, a tosser included.
* `LimitsKept`: no more calls than `max_clients`, `QuitsIdle`: `-p` quits only
  when its calls have ended.
* `MailGoes`: once the troubles end, mail that is not on hold is sent: orphaned
  flags, holds, failed forks, the limit and a stale list only delay it.
* `PollEnds`: once the troubles end, `-p` quits.

### Runs

| run | instance | shows |
|---|---|---|
| `mailer` | one node, with and without `-p`; two places for callers and one for an answering child, one client at a time, two tries, all flavours, all faults; fair | `OneSession`, `LimitsKept`, `QuitsIdle`, `MailGoes`, `PollEnds` |

One node is enough for the flags, which are by node; a second place for a caller
is what a broken limit needs, and an answering child competes with both.
`CHECK_DEADLOCK` is off: after `-p` the program has ended. Fairness (`FairSpec`):
the operator starts the program again, the managers' loops go on, every child's
work comes to an end (connects, sessions and replies have timeouts) and its main
loop runs, tossers finish, time passes. Nothing is assumed of `Trouble` – failing
calls and forks, kills, new mail, callers from outside, restarts – but that it
stops (`Calm`), and `MailGoes` is with `kill_old_bsy`: it is off by default, and
then a flag left by a killed child stays until the next start. The test of
`n_servers` is in the model and no run asks about it: with one node `OneSession`
hides it, and two nodes with two answering children are out of TLC's reach.

## 6. `Framing`, `FrameStream`, `DataPath`: bytes, frames, compression

One direction of a session, byte by byte.

| model | code |
|---|---|
| `msgs` | `state->msgs`: encoded messages, already encrypted |
| `obuf` | the `oleft` bytes from `optr` on |
| `keys_out`, `keys_in` | how many bytes went through a key stream, `Off` without encryption |
| `wire` | what the network holds, at most `WireCap` bytes |
| `ibuf`, `isize`, `imsg` | the frame being read; `isize = -1` while it is a header |
| `s_up`, `r_up` | the ends are open |
| `next`, `out`, `pos`, `sent`, `off_req_sent` | the queue, `state->out` with its position, `sent_fls`, `off_req_sent` |
| `z_send`, `z` | compression is on for the sender; `z_obuf` and what the codec holds |
| `infile`, `held`, `done` | `state->in`, the data written of each file, the files acknowledged |
| `z_recv`, `z_idata` | the file was announced as compressed; the codec is inside a stream |
| `r2s`, `wanted` | the answers on their way; the files the remote will take |

`Framing` has `msg_send2`, the three parts of `send_block` (write `obuf`, refill
it from the messages, start a block) and `recv_block`, with every size a `send`
or a `recv` may return. A byte carries the place of the key stream at which it
was encrypted, and reading it at another place gives garbage. `FrameStream` is
the promise: a queue of whole frames of which a break loses a suffix. The
refinement mapping takes for its queue the history variable `underway`, the frames
given to `msg_send2` or begun by `send_block` that `recv_block` has not handed on;
no guard reads it, and that the bytes agree with it is what is checked and proved.

`DataPath` adds files: `start_file_transfer`, the plain and the compressing half
of `send_block`, `GET`, `GOT` and `SKIP` at any moment, `FILE`
(`start_file_recv`) and the data branch of `recv_block`. The codec
(`do_compress`) is any that keeps some of its input, packs bytes well or badly
and fills its output as far as it goes; `ZBlocks` is the loop around it, round by
round.
`compress_init` may fail.

### Properties

* `FramesInOrder` (`Stream!Spec`): the bytes implement a queue of frames.
* `FileRestored`: what is in the inbound is the beginning of the file, and no
  stream is ever unreadable.
* `FileArrives`: while both ends are up, what is wanted arrives.

### Runs

| run | instance | shows |
|---|---|---|
| `framing` | files of 2 and 1 bytes, the remote may have one byte of the first; NR mode with compression, or neither; encrypted or not; blocks of 2 bytes, 3 bytes in the network; fair | all three |
| `gzip_stays_on` | compression without NR mode | violated: `FileRestored` (section 12) |

Three bytes in the network cut a header as well as a body and hold the end of one
frame with the beginning of the next; blocks of two bytes against files of two
make compressed streams take several blocks, keep bytes in `z_obuf` and be cut
off by `M_GET`. Compression without NR is left to `gzip_stays_on`. Fairness is
that of the main loop of `protocol`. Values of the header's length are small, so
the upper end of the 15 bits is not met (section 12 names an edge there).

## 7. `Outbound`: what a session sends, and how it leaves the disk

| model | code |
|---|---|
| `disk[f]` | no file, one without mail (an empty packet, a truncated file), one with mail |
| `flo` | the lines of the link's `.?lo`: the file, `^`/`#`, and whether the line is marked `~` |
| `ph` | the session: none, up, or leaving with success or without |
| `sess.q`, `.pos` | `state.q`; the next line of the open `.?lo` (0: none is open) |
| `sess.out`, `.sent` | `state.out`, `sent_fls` |
| `sess.killlist`, `.nosendlist`, `.rcvdlist` | the lists of these names |
| `sess.r_skipped`, `.busy`, `.delay_EOB`, `.v10`, the `EOB`s | `r_skipped_flag`, `msgs_in_batch > 2`, `delay_EOB`, a remote that speaks binkp/1.0, the flags |
| `sess.named` | by what a line of the open `.?lo` is compared with `nosendlist`: its own file (with `rf_rules`), the `.?lo`'s name, or a NULL |
| `todo` | the writes of `remove_from_spool` that are still to be done |
| `got`, `due`, `answered` | history: what the remote has, what is owed to the link, what the remote has answered in this session |

A removal is up to three steps (`WriteNext`): mark, unlink the `.?lo`, delete or
truncate the file; `Crash` may come between. `q_sort` and `q_cmp` are translated
as they are, over any order of `readdir`. `complete_login` scans, `NextFile` and
`NextLine` are `start_file_transfer`, `EndBatch` scans the fileboxes again,
`ProcessRcvdlist` and `ReceiveRequest` run the external request processor, which
may answer with a file. The hooks `after_handshake`, `before_send` and
`after_sent` may edit the queue, refuse and keep. The tosser puts packets and
attachments while the link is not busy, files into a filebox at any time.

The test against `nosendlist` (`protocol.c:2959`) compares `w ? w : file->path`.
Without `rf_rules` `w` is 0: at the first file of a `.?lo` it is the `.?lo`'s own
path that is compared, and from the second file on `file` is NULL (3255-3258). So
the files of `nosendlist` are recognised in a `.?lo` with `rf_rules` only
(`NotToSend`), and without them the session is ended by a signal at the second file
as soon as `nosendlist` is not empty (`NullLine`); the rest of the `.?lo` is for
another session. Which of the two it is is chosen when a `.?lo` is opened
(`compared_by`).

### Properties

* `Kept`: mail handed to the link and not yet acknowledged is on the disk, and an
  attachment has an unmarked line of a `.?lo` that exists – wherever a process
  was killed.
* `AnsweredOnce`: no file is sent again in a session that has answered it. (With
  two requests from the remote it is false of the answers, see section 11.)
* `BatchesEnd`: no session goes on for ever.
* `MailLeaves`: in the end all mail is delivered, unless the remote skips for ever,
  although sessions may end at a NULL name. It rests on deletions that fail only a
  bounded number of times (`MaxFaults`): a file that can never be deleted, sent
  before a `.?lo` of several lines in every session, would end each of them at the
  second line, and the rest would never leave. `Kept` and the theorems about
  duplicates do not depend on it.

### Run

`outbound`: two attachments, a packet, a request, a file in a filebox, one response;
two of them put, one request from the remote, one accident of any kind; fair. Two
lines are the least with which a marked line can hide another, and one accident is
enough for each of the removal's steps; the remote's skips and the sessions that end
at a NULL name are not counted. `CHECK_DEADLOCK` is off: when everything is
delivered nothing need happen. Fairness: the session's loop goes on; a connected
remote stores what it is sent and ends its batches (otherwise the timeout, `Drop`,
ends the session).

## 8. `Reload`: one configuration and many threads

The build with threads.

| model | code |
|---|---|
| `disk` | the main file and an included one: contents (a number), time, error, the `include` line |
| `cfg[c]` | the structures: `usageCount`, what was read, the times in `config_list`, whether it has an interpreter, whether it is freed |
| `current_config`, `new` | the pointer; the structure the server manager works on |
| `th[t]` | a thread: its place, the structure it holds, whether it has a Perl clone |
| `n_servers`, `n_clients`, `pidcmgr`, `got_sighup`, `binkd_exit` | the globals |

Steps are what a thread does between two points at which others can see it.
`checkcfg`, `readcfg` file by file, `swap_config` and `drop_old` are the reload;
`unlock_config_structure` and `free_config` are two steps, as in the code;
`clientmgr_loop` compares pointers without a lock; `serv_lock`, `call_clone`,
`perl_on_log`, `session_unlock` are a session; `exitfunc_*` is the end.

### Properties

* `ConfigLive`: nothing is freed that is current or in use, clones included.
* `RetiredFreed`: a replaced structure is freed in the end.
* `EditLoaded`: what is on the disk and can be loaded is loaded in the end.
* `ExitEnds`: the program ends when it is told to.

### Run

`reload`: one session's thread beside the two managers, two edits or SIGHUPs,
errors in a file, a script that does not compile, threads that do not end, an
address that cannot be listened on; fair. Two events are the least for an edit to
fall into the reading of another; there is a structure for every load that they
can cause, and `checkcfg` starts to read only while one is left, which in the
code is a `malloc` that always succeeds. A second session's thread would do the same as
the first and is beyond TLC's time. `CHECK_DEADLOCK` is off: the program ends.
The faults `newinc`, `second`, `veto` and `late` are in the module and not in the
run, since the code is known not to cope with the first two and the last (section
12), and `veto` is a hook that asks for the edit to be ignored. Fairness:
`select()` times out, threads run, sessions end by their timeout at the latest.

## 9. `NodeTable`, `Config`, `Dial`: from a line to a connection

`NodeTable` has no state: addresses with parts that are not written, domains and
their aliases, the merging of several lines about a node (`Edit`), and the table
as a value with a flag for "sorted", searched by a real binary search. `Config`
reads lines one by one (`ReadLine`, with a translation of every keyword's
function; `include` down to `MaxLevel`), then the passwords file and the final
checks (`readcfg`). `Dial` puts an accepted configuration into force and makes
calls with it.

| model | code |
|---|---|
| `work`, `rd` | `work_config`; where the reading is, and whether a line was refused |
| `cfg` | what a call uses of the configuration; the table changes with each lookup |
| `call.hosts`, `.i`, `.host`, `.port` | the list of hosts, after the hook; the one being tried |
| `call.plist`, `.ai` | the proxy's addresses; the addresses still to be tried |
| `call.sock`, `.via`, `.reach` | a socket is open; how the connection was made; where its other end is |
| `call.proxies`, `.due`, `.tried` | history: the valid addresses the proxy resolved to; those still owed a try for the present host; those tried so far in the call |
| `call.odd` | the call went on without a connection (section 12) |

A line is a record with the arguments its function tells apart; splitting text
into words is left out. What the resolver, hosts, HTTP and SOCKS proxies answer is
any answer, and silence is the timeout.

### Properties

* `AcceptedWhole`: an accepted configuration has no refused line, its values are
  within the limits, all its nodes are complete and different.
* `NodesFound`: the binary search finds every node of the table, at every moment.
* `SessionReaches`: a session runs over a connection that ends at the node, made
  in the way the configuration asks for.
* `AllTried`: a call that fails has tried everything: all hosts, and for each the
  valid addresses that it, or the proxy, resolved to. With a proxy and `-46` or
  `-64` it may miss addresses (`MayMiss`): `call0` moves one to the front of the
  proxy's list (`client.c:480-508`) and leaves `aiProxyHead` behind it, so that the
  hosts to come are not tried by it. What the property says of this is that such an
  address was tried for an earlier host of the same call, so that none is never
  tried at all.
* `CallEnds`: a call ends and leaves no socket.

### Run

`dial`: six lines at the head, of which one may be missing, then at most one of 43
other lines and at most two of 13 about domains, addresses, nodes, shares, passwords
and proxies, in any order; two calls. The `on_call` hook may give a list of three
hosts, the least with which an address of the proxy is lost for a host. Two core
lines are the least that concern the same node or a node and its alias; a second
call meets the table as the first left it. Fairness is that a call goes on, which is
what its timeouts are for; two replies of a SOCKS5 server are read without one
(section 12). `CHECK_DEADLOCK` is off: a refused configuration ends the program.

## 10. `AmigaLoop`: the build without processes

| model | code |
|---|---|
| `pc`, `at` | where the loop is; the slot being stepped |
| `sessions` | the table; a slot has its phase, node, configuration, the two clocks (`age`: since `start_time`, `idle`: since the last byte) and what is pending |
| `n_clients`, `n_servers`, `listening`, `idle_loops` | the same |
| `config`, `config_locked`, `current`, `usage` | the loop's configuration and whether it has counted itself, `current_config`, `usageCount` |
| `fresh`, `settled`, `reload_pending` | files whose time has changed, and the waiting of `checkcfg` on AmigaOS |

`select`, `do_accept`, `check_connect`, `amiga_proto_step`, the time-outs,
`Rescan`, `checkcfg`/`Reload`, `handle_config_reload`, `Idle` and the clean-up
are one turn of the loop. A session's protocol is reduced to what the loop sees
of it: logged in, a file out, sent, coming in, the two `M_EOB`s.

### Properties

* `CountsExact`: the counters are the numbers of sessions on every path.
* `ConfigsLive`: no configuration is freed that the loop or a session still uses.
* `EobBeforeTimeout`: putting `M_EOB` off never costs a session.

### Run

`amiga`: one node, tables of 2, then 3 slots, one client, no server allowed but
the one too many, with and without `-s` and `-p`, three configurations, failing
`listen`, `accept` and `select`. The constraint `OneWhileReloading` keeps one
session while files change. The table does not shrink, and opening the listening
sockets again after a reload does not fail (`relisten`): both are known to break
the properties (section 12).

## 11. Proofs

### `BinkpTransferProofs`

For every set of files, every sizes, every choice of modes and faults:

* `TypeCorrect`: `Spec => []TypeOK`;
* `AcknowledgedIsHeld`: `Spec => []GotMeansHeld`;
* `SpoolIsSafe`: `Spec => SpoolSafe`.

`GotMeansHeld` is not inductive: the `.dt` of an acknowledged file that is not
renamed yet could be appended to, rejected or removed at the end of a batch. The
invariant `IInv` says why it is not:

* `InOpen`: the file in reception has a `.dt` (so `M_GET` names a real offset);
* `CompleteHeld`: `in_complete` is used in ND mode only, excludes a file in
  reception, and names a whole `.dt`;
* `InboundDelivered`: what `inb_test` finds has been delivered;
* `GotHeld`: an acknowledged file that is neither delivered nor destroyed by a rule
  is `in_complete`, or the receiver has left and nobody touches its `.dt` before the
  streams are emptied;
* `NoFileAfterEOB`: after its `M_EOB` a sender is quiet (nothing queued, in
  transfer or unacknowledged) and no `M_FILE` follows, so that when the receiver
  throws partials away at the end of a session nothing is waiting.

At an `M_EOB` whose rename fails the `.dt` of `in_complete` may be removed. Its
`M_GOT` is not under way any more then (`EOBAlone`), as an `M_EOB` in ND mode is sent
after the last answer was read; that is known only from `DInv` below, so the three
(with `Deaf`: what was sent to a mailer that has left is lost) are proved as one
invariant, `TInv`.

The proof has a lemma per action and conjunct it can disturb; `NextIInv` puts them
together, and `NextTInv` the three invariants. Assumed: `FilesAssumption`,
`ParamAssumption` (types of the constants only). `IInv` was model-checked on the
instance of `transfer_any` before it was proved.

The second part of the module has, under the same assumptions, in every mode and
with every fault:

* `BlocksBelong`: `Spec => []DataBelongs`.

A data frame names no file; whether the block at the head of the stream is one of
the open file depends on all that was sent before it. `DInv` says, beside `IInv`:

* `Chain`: of two frames that follow each other in the stream the second, if it is
  a block, continues the first (`Joins`); the first block continues what is on the
  disk (`Fits`); what the sender would send next continues the last frame or,
  when the stream is empty, the disk (`Tip`). An `M_FILE` that only asks for the
  offset opens nothing, so anything may follow it.
* `StopAndWait`, in ND mode while the receiver skips nothing: at most one answer is
  under way, and only when all frames are read (`Answered`); an `M_GET` and the
  `M_FILE` that answers it name the length the `.dt` still has (`Fresh`,
  `Announced`); blocks of one file only are under way, and the sender waits after
  the last (`Blocks`, `OneAtATime`). This is what makes the empty block of a status
  (`send_eof`), which is sent without an open file, fall on the right file.
* a receiver that skips everything has no file open, a file in reception is not in
  the inbound, and `send_eof` is set in ND mode only.

The lemmas about `Chain` and `StopAndWait` are stated for any stream and states,
one for each way a stream changes (`SendChain`, `ReadChain`, `StillChain`,
`BlockSent`, `FrameRead`, `OneAnswer`, `AnswerRead`); `…Fields` lemmas say what
each handler does to the fields they look at. `DInv` was model-checked on the
instance of `transfer_any` first.

The third part is about loss and duplicates:

* `NothingLost`: `Steady => (Spec => []NoLoss)`, with any files and rules, any
  crashes and broken sessions, inbounds without room and renames that fail at an
  `M_FILE` or at the last block.

`Steady` is what the code needs for it, and the instance of `transfer_live`
satisfies it. TLC finds a loss in that instance when any part is dropped:

* the outbound scan lists the `.stc` before the files (`StatusFirst`): otherwise
  the `M_GET` for another file clears the status;
* no rename fails at an `M_EOB` (`eobrename`): the run `eob_rename`;
* the `.stc` can be written: `GOT` removes the file all the same when it cannot;
* no `.pkt` and no empty file: `close_partial` removes a partial of those, and the
  status of such a file is the only trace of it;
* a link keeps to ND mode or never uses it: a status sent without ND mode makes
  the receiver reject the complete `.dt` at the `M_EOB`.

A file is in doubt (`Doubt`) from the `M_GOT` on which the sender deletes it until
the receiver renames it; one that a rule destroyed never is. `LInv` says that one
file is in doubt at most, that its `.dt` is whole and that the `.stc` names it
(`StcNames`), and why that stays so:

* outside ND mode no file is in doubt, nor will be when the answers under way are
  read (`Settled`): the receiver renames before it acknowledges;
* while the status is not settled the sender sends nothing else, and every answer
  under way is about the status (`Waiting`, `Alone`);
* what the sender reads next keeps the `.stc` right (`AnswersSafe`): nothing is in
  doubt, or the status is skipped, which ends the session (`Refused`), or there is
  one answer, an `M_GET` for the end of the status or an `M_GOT` for the only file
  that may be in doubt (`OneToRead`);
* with a file in doubt the sender counts three messages of the batch at least before
  it can end it (`Counted`, from `FirstBatch`: the `M_GET`, the `M_GOT` and the
  receiver's `M_EOB`; those it sends come on top), so that "two `M_EOB`s alone"
  (`msgs_in_batch <= 2`), which forgets the status, is never true of the batch in
  which a file was acknowledged;
* a receiver that is up has the file in `in_complete` still (`Placed`), also when
  the sender has left after its last `M_EOB` (`LastWord`): the end of its session
  removes no complete `.dt`;
* a receiver that skips everything has skipped the status (`Skipping`);
* a block with data lies within its file (`Within`), so that "extra bytes" never
  drops a complete `.dt`.

The lemmas have one step per action; those of the sender (`SenderSafe`) keep the
files in doubt named when the `.stc` changes, those of the receiver
(`ReceiverSafe`) when a file is renamed or the session is left. `LInv` was
model-checked with `TInv` first, on the instance of `transfer_live` with the faults
`crash`, `gotcrash`, `space` and `rename` and the rules of `transfer_any`.

The second part of the module:

* `DeliveredOnce`: `Single => (Spec => []NoDup)`, with any files, sessions broken
  anywhere by either side, receivers that are killed, inbounds without room, renames
  that fail anywhere, an `.stc` that
  is or is not written, and the scan in either order.

`NoDup` says of a session in ND mode that no file was delivered twice. `Single` is
what the code needs for that, and TLC finds a file delivered twice when a part is
dropped:

* no session enters ND mode after one without it: in NR mode the answer may be
  lost after the rename, and the file is sent again whatever the mode then is;
* no file is empty: the `.dt` of an empty file is whole as soon as it is made, so
  the status of one that was delivered is "finished" again (the hazard at
  `protocol.c:2278`);
* no sender is killed in `GOT` (`gotcrash`): between `ND_set_status` and the removal
  from the spool the sender would leave the file to be sent again from the start.

The transfer's other end may take the file in `in_complete` at any moment, and
the sender's next session begins without knowing whether it did. `NInv` says why
the file does not come again:

* `Once`: a delivered file was delivered once, has left the spool, and a `.dt` that a
  late status has made for it again is empty;
* `StcLeft`: the `.stc`, and the status read from it, name a file that has left the
  spool. So a delivered file is sent as a status only, and the answer to it is an
  `M_GET` at 0, which with `Size > 0` is not the end of the file;
* `NewBlocks`, `Undelivered`: no block of a delivered file, and no empty block that
  ends a status, is under way or will be sent for an answer under way, so the
  `.dt` stays empty;
* `Renames`: what makes the receiver rename `in_complete` (an `M_FILE`, an `M_EOB`) is
  sent only after the `M_GOT` of that file was read, on which it left the spool;
* `Owned`: each file of the sender is in one place, its queue, on its way or sent
  and unacknowledged, and all are of the spool.

It rests on `IInv` and `DInv` (of `BinkpTransferProofs`), which say what the streams
hold. `NInv` was model-checked first, with and without `.pkt` files and with
every fault except `gotcrash`.

### `BinkpHandshakeProofs`

For every set of nodes, addresses, calls and configurations:

* `SessionsExclude`: `Spec => []LinksHeld`;
* `FlagsRemoved`: `Spec => []NoFlagLeft`.

Neither is inductive alone. `deinit_protocol` removes flags by the names of the
session's addresses; that these are its own is `LinksHeld`, and that a flag of a
session is always among its addresses is `NoFlagLeft`. `LockInv` is both
together with `Shape`, which says which fields a `STATE` has and that addresses
are addresses. `QuitLock`, `AddLock` and `TosserLock` treat the three kinds of
steps that touch flags; all other steps keep both the flags and the addresses
(`KeepLock`). Assumed: `CallsAssumption` only (the types of the constants).

The second part of the module, again for every set of nodes, addresses, crossing
calls and configurations:

* `ModesAlike`: `Spec => []ModesAgree`;
* `OnlyProved`: `Spec => []AkasAuthenticated`;
* `ProtectionAlike`: `Spec => []SecurityAgrees`;
* `CalledHeld`: `Spec => []CalledNodeHeld`;
* `KeysAlike`: `Spec => []FramesReadable`, if no entry of a called node refuses
  MD5 (`Accepting`; without that it is false, section 12).

An end that is logged in knows the other only from frames, some of which are still
under way when it concludes. The invariant (`Login`, for each call) is:

* `Queued`: each side sends its frames in one order (`Rank`) and none twice, and
  what one end has read and the other sent are marks in this order (`Read`,
  `Sent`), with the frames under way between them. So a frame that an end reads
  tells it how far the other has got.
* `SaidOut`, `SaidIn`: a frame under way still says what its sender's `STATE` says.
* `HearsOut`, `HearsIn`: as long as an end is not logged in, the options of the
  other are taken over completely, or not yet and under way; an answering end
  that logged in has its `M_OK` under way.
* `Calling`, `Answering` (with `Vouched`: the password expected is that of every
  protected address met so far), `Served`: what each end knows by itself.
* `Agreed`: what follows once both have concluded.

Calls do not disturb each other except through busy flags, which are
`LockInv`'s matter, so the steps are lemmas about two records and two sequences.

### `OutboundProofs`

For any files, lines of a `.?lo`, and number of faults:

* `MailKept`: `Spec => []Kept`;
* `MailSentOnce`: no file of the outbound or of the filebox is sent again in a
  session that has answered it (`MailOnce`), whatever the remote requests;
* `NotSentAgain`: `Spec => []AnsweredOnce`, which is about the answers to requests
  too, if the remote makes one request at most (`MaxRcvd <= 1`). The hypothesis is
  needed: of two requests that wait for the end of a batch the second may be
  answered with the same file, which `parse_response` queues again and, if it is
  to be kept (`+`), the session sends twice; TLC finds this with `MaxRcvd = 2`.

`KeptInv` says more than `Kept`: mail that is due is on the disk whether or not
the remote has it already (`Present`), and

* `Pending`: a write still to be done that marks a line, deletes or truncates a
  file is of one that is not due any more; it is the `M_GOT` (or the refusal of
  `before_send`) that takes a file off `due` and queues its writes, in one step;
* `Held`: whatever the session knows of a request (an entry of the queue, the file
  in transfer, one waiting for its `M_GOT`) asks for action `s` or none (`Kind`), so
  that a request is removed by the `killlist` only, after a session that
  succeeded; the `killlist` has requests and responses only;
* an attachment that could not be deleted (`nosendlist`) is not due, so that the
  line `NextLine` marks for it hides nothing.

Assumed, beside the types: the kinds of files are disjoint (a name tells which it
is) and finite (`KindsAssumption`). The queue is sorted and filtered by recursive
functions (`q_sort`, `Only`): `FoldExists` and `LastTyped` are the induction over
the natural numbers it takes to know that such a table exists and what it holds,
stated about sets since the library's induction rule takes an operator. `KeptInv`
was model-checked on the instance of `outbound`, and on smaller sets of files with
three puts, two faults and two requests.

For the other two theorems `AnswerInv` excludes each way by which a file can come
up again:

* `Shape`: no two entries of the queue, nor two sent files, have one name
  (`SortList`, `ScanList` and `OnlyList`: what the scans, the insertion sort and a
  hook make of the queue keeps this); an attachment is never in the queue, and
  what is left of the queue after our `M_EOB` is answers to requests;
* `Apart`: a file is in transfer, sent or answered, and in one of these only;
* `NotAgain`: no line of the `.?lo` that is still ahead (`Ahead`, also when the
  `.?lo` itself waits in the queue) names a file that was sent or answered, and no
  unsent entry of the queue does, but for one the session has in `nosendlist`. It
  rests on `OneLine`: a file has one unmarked line at most;
* `Going`: the scan of the fileboxes between two batches starts from a new queue,
  so a file answered must not be found by it: it is gone, or the write that
  deletes it is still to be done, or it could not be deleted and is in
  `nosendlist`, or it was skipped and there is no second scan (`r_skipped`);
* `Requested`: with one request, the answer comes after it and is the only one.

Assumed in addition: a packet is not a file of the filebox. The hook `after_sent`
keeps no file of the filebox (a bound of the model, `perl_after_sent`): the next
scan would find and send it again. `AnswerInv` was model-checked with one and with
two requests.

### `MailerProofs`

For every set of nodes, callers and servers, every limit, with and without
`kill_old_bsy`, and through all faults:

* `LinkWorkedOnce`: `Spec => []OneSession`, given `StartsAlone`;
* `CallsLimited`: `Spec => []LimitsKept`;
* `PollQuitsIdle`: `Spec => []QuitsIdle`.

A session's exclusion rests on a file that anybody may delete, so the invariant
`Locks` is about who has which flag (`Has`): `Owned` – what a child has in its
`bsy_list` is on the disk and at most one period old, and new if it was touched
in this one; `Sole` – no two children have one flag; `Apart` – a tosser's `.bsy` is
new and no child's; `Placed` – only live children have flags, and a session its
`.bsy`. A scan deletes only flags of age 3, so none that anybody has
(`ScanLocks`); `Tick` makes none so old because of `Punctual` (`TickLocks`);
`bsy_add` creates only what is not there (`AddedLocks`); every way out deletes
only what the child has (`Releases`, cited by all steps in which a child starts,
moves on or goes); and at a start `StartsAlone` says that nobody has anything
(`CleanupLocks`).

The other two rest on `Tally`: `n_clients` is the number of places whose child
is one of the running managers' (`ours`), a free place is none of them, and a
manager that has quit has none. A child that ends stays counted as a zombie until
`chld` has waited for it, and children of an earlier run are never counted. Here
`Callers` is assumed to be finite.

### `DialProofs`

For any lines of the configuration, included files, domains, passwords file, hooks,
names and answers of the network:

* `AcceptedIsWhole`: `Spec => []AcceptedWhole`;
* `NodesAreFound`: `Spec => []NodesFound`;
* `SessionIsReached`: `Spec => []SessionReaches`;
* `AllAreTried`: `Spec => []AllTried`.

The invariant is `ConfigInv /\ CallInv`. `ConfigInv` says of every configuration,
refused or not, what the last checks rely on and do not look at again:

* `IsWork`, of the one under work, after every line: the table is a `Nodes` sequence
  with different and complete addresses and, if it is marked sorted, in ascending
  order (`IsTable`); values are within their limits; domains and AKAs have names.
  There is a lemma for each function of the table of keywords, `EveryLine`
  combines them, and `CompletedWork` is the end of `readcfg`;
* `Complete`, of the one in force: its table is sorted and every node has hosts.

`NodesFound` is not inductive without `Complete`: a lookup adds an entry made of
`defnode` and leaves the table unsorted, and it is the next lookup, or
`foreach_node`, that sorts it (`Lookup`, `Foreach`). That a sorted table is searched
rightly is `SearchFinds`; it needs that `Before` is a strict total order of complete
addresses (`TotalOrder`) and that sorting keeps the nodes (`SortSorts`). `IsCall`
has a clause for each thing a call keeps track of: `Hosts` – how far it is in the
list; `Addresses` – the addresses still owed a try are among those in `ai` or may be
missed, and none but the latter is owed between two hosts; of the proxy's valid
addresses each is in the list the next host will use or was tried (`OneOut`: what
the reordering takes out is the address in front, which is tried first);
`Connection` – whom the connection reaches and by which way. There is a lemma for
each action.

Assumed, beside the types of the constants (`NamesAssumption`): the ranks of domain
names are different (`RankAssumption`); each line is read by the function the table of
keywords has for its variable, and a number that is written has no sign
(`LinesAssumption`). Loops over lists (sorting, searching, options, AKAs, passwords,
addresses) are recursive functions; the `…Steps` lemmas say that such a function
exists and what one step of it does, by `UpTo`, the induction over a set of numbers.
The invariants were model-checked on the instance of `dial`.

### `DataPathProofs`

For every number and size of files, every size of the buffers, blocks and network,
and everything `send` and `recv` may return:

* `FramesArrive`: `Spec => FramesInOrder`, that is, `Framing`, driven by `DataPath`,
  implements `FrameStream`.

What the frames underway are is not to be seen in a state: a message is encrypted
when it is queued and a block when it is begun, the socket cuts both, and the
receiver has read a part of the first. The way (`Way`) is the bytes on the wire, in
`obuf` and in `msgs`, one after the other. `FrameInv` says:

* `BytesMatch`: what was read of the first frame (`Consumed`), what the way says
  and, once the sender's end is closed, the bytes it lost, are together the
  encoded frames underway (`Carries`);
* `KeysMatch`: byte `i` of the way was encrypted at the place the receiver will be
  at after `i` bytes, and the sender is at the place after the last. That
  `send_block` starts a block only when no message waits is what keeps this true;
* `InBody`, `InHeader`: a header that is read is the header of the first frame, and
  fewer bytes than it tells have been read.

Two equal strings of bytes with prefixes of the same length have equal prefixes
(`SamePrefix`); so two bytes are the header of the first frame (`CarriesHeader`),
and as many as it tells its body (`CarriesBody`), however they came. `DataInv`
adds what makes every frame fit: `ZBlocksType`, that the loop around the codec never
gives more than `oblksize`, by induction over its rounds, and that an offset asked
for is a length of something held and a message about a file names one. The lemmas
about `FlattenSeq` (`FlatAppend`, `FlatConcat`) come from the table it is defined by.
Assumed: `FramingAssumption`, `DataPathAssumption` (types and sizes of the
constants).

### `ReloadProofs`

For every finite set of sessions, every number of reloads and every fault:

* `ConfigNotFreedInUse`: `Spec => []ConfigLive`;
* `FreedOnce`: a thread that goes to free a structure finds it not freed before.

The invariant: `Counted` – `usageCount` is the number of threads that hold the
structure, of those that still write a log line with it after they have
unlocked it, of the pointer `current_config`, and of what `checkcfg` has still to
give back; `Sound` – what is freed nobody holds, and what is held has been read;
`Freeing` – a thread on its way to `free_config`, having left `config_sem`, has the
structure for itself; `Working` – so has `readcfg` the one it fills; `Placed` – in
which places a thread holds one, and that its Perl clone goes first. Assumed:
`Bounds` (finitely many sessions, none of them named like a manager).

### `AmigaLoopProofs`

For every table, limits, times and number of configurations:

* `CountersExact`: `Spec => []CountsExact`, if a reload does not make the table
  smaller (`Growing`);
* `ConfigsKept`: `Spec => []ConfigsLive`, without the fault `relisten`;
* `EobInTime`: `Spec => []EobBeforeTimeout`, if `nettimeout` is more than one
  period and than the least delay (`Patient`).

Without the first two hypotheses the properties are false (section 12); the third
is what makes a delay shorter than the time-out possible at all. `TableOK` is the
shape of the table; `CountsExact` is inductive with it, as each path out of a slot
takes off one counter (`Effects` lists what a step may do to one slot). `UsageOK`
says what each `usage` is at each place of the loop (`Holds`), among it that the
lock of a replaced configuration is never given back. `EobOK` relates the two
clocks of a session to the turn of the loop: a session that owes nothing but
`M_EOB` has been silent for at most `MaxWait`, because each turn steps each slot
once (`Rested`).

### Only model-checked

* Liveness (`Delivers`, `SessionsEnd`, `LoginsEnd`, `MailGoes`, `PollEnds`,
  `FileArrives`, `BatchesEnd`, `MailLeaves`, `RetiredFreed`, `EditLoaded`,
  `ExitEnds`, `CallEnds`): fairness and `ENABLED` are outside the prover's reach.
* `FileRestored`: that frames arrive whole and in order is proved; that the chunks
  of a stream, spread over blocks as the codec chooses, give back the file is an
  induction over the data they hold.

## 12. Where the code and its documents disagree

`gzip_stays_on` is expected to fail and stands for the finding in
`PROJECT.json`: `SKIP`, and `GOT` for the file in transfer, leave `z_send` set
(`protocol.c:2401`, `:2447`). The next file is compressed without being announced
so, and begins with what was left of the other. `protoco2.h:148` says of `z_send`
"gzip is on for current file".

`eob_rename` is expected to fail for the other finding: `EOB` counts the remote's
`M_EOB` (`protocol.c:2526`) before it renames the file in `in_complete`. When the
rename fails (`:2551-2557`, "error, drop session"), the end of `protocol` takes
the session for a successful one (`:3471`) and `inb_remove_partial` removes the
`.dt` with the file in it, which the sender has already deleted. The log says
"data stored in %s" (`inbound.c:632`) of a file that is then gone, and
`doc/nd-mode-ru.txt:3-5` promises that ND mode loses nothing. A rename that fails at
the next `M_FILE` keeps the `.dt`, and the status brings it back.

Shown by the models when an instance is opened to it, without a run of its own
(the constants or definitions in parentheses are where):

* the `.stc` entry is not sorted before the files of its address
  (`ftnq.c:793`; `doc/nd-mode-ru.txt:37-39`): when the directory lists a file
  first, its `M_GET` clears the status and the file before is never renamed
  (`BinkpTransfer`, `StatusFirst = FALSE`);
* a whole `.pkt` that waits for its empty block is deleted as a "partial .pkt"
  when the line breaks (`protocol.c:176`; `doc/nd-mode-ru.txt:3-5`);
* the not-to-send list is compared with the wrong name for the first file of a
  `.?lo` and with a NULL for the others (`protocol.c:2959`; `Outbound`, `NullLine`);
* with `-46` or `-64` an address of the proxy is out of reach for the later hosts of
  a call (`client.c:480-508`; `Dial`, `MayMiss`);
* without NR an `M_GET` during the next file moves the half-sent file to
  `sent_fls`, and the session hangs until the timeout (`protocol.c:2245`);
* with MD5 refused for a node on one side only, one end takes encryption for
  agreed and the other does not (`protocol.c:1342` and `:1591`);
* a binkd that starts, if only to create a poll, deletes all flags
  (`bsycleanup.c:53`; `binkd.cfg:257-259`), so a node may be worked twice
  (`Mailer`, `StartsAlone = FALSE`);
* a status sent in a session without ND mode makes the receiver delete the whole
  file it is about (`BinkpTransfer`, modes `nd` and `plain` in turn);
* with a sender killed in `GOT`, and with empty files, a file may be delivered
  twice; with a disk that fills after an `M_GET` a session waits for its timeout
  (section 3);
* a file in a filebox that `after_sent` asks to keep is found by the next batch
  and sent again, without end (`Outbound`, the bound in `perl_after_sent`);
* an edit that adds an include while the reload fails, a second edit within the
  same second, and a signal while the server manager is not in `select()` go
  unnoticed (`Reload`, faults `newinc`, `second`, `late`);
* the first bind error of kind `EAI_FAMILY` leaves the loop with an unconnected
  socket, on which the session is started (`client.c:605`), and when a SOCKS4
  server refuses every address `h_connect` returns success (`Dial`, `odd`);
* with an NTLM proxy and a SOCKS server the second CONNECT names the node, and the
  SOCKS dialogue is then held with it (`Dial`, `HTTP`);
* on AmigaOS, when the listening sockets cannot be opened again after a reload
  the configuration is unlocked twice; a table that becomes smaller forgets
  sessions (`AmigaLoop`, `relisten`, `Slots`); a change of the files noticed
  while a reload is put off is not read later, against the comment at
  `readcfg.c:938-942`.

Met while reading, outside the models:

* `doc/howto-ru.texi:223-224` says that of several `node` lines the first holds;
  in the code later lines replace flags, hosts and boxes, and only a password
  stays (`NodeTable`, `Edit`);
* `skip - <mask>` without a type takes the mask for a size, against
  `readcfg.c:1811` and `binkd.cfg:377`;
* a line about a node before any `address` ends the program even in a reload
  (`Log0`), against "using old config" (`readcfg.c:854`);
* `lock_config_structure` in `do_client` counts without `config_sem`
  (`client.c:154`, against `readcfg.c:204-206`); `Reload` takes the increment for
  atomic;
* one address that cannot be listened on ends the whole program after a reload;
* the `on_exit` hook never runs in the threads build (`doc/perlhooks.txt:178-181`);
* a message of exactly the size of the buffer, or one less, passes one test of
  `protocol.c:405-413` and not the other;
* the automatic NR mode for a node whose partial files are kept looks at
  `state->fa`, which is empty when a caller sends its banner.

## 13. Not modelled

* **Naming of received files** (`next_inb_filename`, `check_pkthdr`, the search
  for a partial by its header, `kill-old-partial-files`): a file is an atom in
  `BinkpTransfer`.
* **Text**: splitting lines into words, masks, quoting of file names, the bytes
  of NTLM and DNS messages, formatting and logging.
* **Bandwidth limits** only delay what the models allow to be delayed anyway.
* **Hooks on single values** (`perlhooks.c`): what a script may do is unbounded;
  modelled are the hooks whose result changes the course of a session, a call or
  a reload.
* **Other ports** (Windows service, OS/2, DOS) and **helper programs**
  (`misc/`): layers below, or programs beside, the mailer.
* **Both directions of a session at once**: the handlers of the two directions
  share the end of a batch only.

The components in `PROJECT.json` say the same by file.
